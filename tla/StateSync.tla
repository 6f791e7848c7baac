----------------------------- MODULE StateSync ------------------------------
(***************************************************************************)
(* The state manifest of the checks CLI (src/state/sync.ts, manifest.ts):  *)
(* "sync" reads the ATF tests of an instance page by page, then a suite    *)
(* and its links, gives every test a logical id, and merges what it has    *)
(* read into the committed manifest so that ids stay what they were.       *)
(* Others create, rename and delete tests all the while, and some rows are *)
(* hidden from this account.                                               *)
(***************************************************************************)
EXTENDS Naturals, Sequences, FiniteSets

CONSTANTS
  SysIds,      \* the sys_ids a test can have: numbers, in the order of a query
  Hideable,    \* bound: those of them that may be hidden from this account
  Scopes, Names,
  Slug,        \* slugify: the slug of each name
  PageSize,
  MaxChanges,  \* bound: changes others make to tests
  MaxSyncs     \* bound: runs of "sync"

Gone == [scope |-> 0, name |-> 0]
NoManifest == [tests |-> <<>>, members |-> {}, suited |-> FALSE, never |-> TRUE]

VARIABLES
  test,        \* the instance: the test behind each sys_id, or Gone
  members,     \* the tests linked to the suite
  suited,      \* is there a suite
  hidden,      \* sys_ids this account cannot read
  counted,     \* does the instance send X-Total-Count
  allowEmpty,  \* the option
  manifest,    \* the committed file
  pc, page, pulled, total, linked,  \* the sync that runs
  changes, syncs

vars == <<test, members, suited, hidden, counted, allowEmpty, manifest,
          pc, page, pulled, total, linked, changes, syncs>>

Exists(x) == test[x] # Gone

Init ==
  /\ test \in [SysIds -> {Gone} \cup [scope : Scopes, name : Names]]
  /\ \E x \in SysIds : Exists(x)
  /\ members = {x \in SysIds : Exists(x)}
  /\ suited \in BOOLEAN /\ hidden \in SUBSET Hideable
  /\ counted \in BOOLEAN /\ allowEmpty \in BOOLEAN
  /\ manifest = NoManifest
  /\ pc = "idle" /\ page = 0 /\ pulled = <<>> /\ total = 0 /\ linked = {}
  /\ changes = 0 /\ syncs = 0

-----------------------------------------------------------------------------
(* logicalId                                                               *)
FreshId(x) == <<test[x].scope, Slug[test[x].name]>>

Before(e, f) == e.id[1] < f.id[1] \/ (e.id[1] = f.id[1] /\ e.id[2] <= f.id[2])

(* The order in which serialize() writes tests: by id, those of one id as  *)
(* they were.                                                              *)
Sorts(order, tests) ==
  /\ \A i \in DOMAIN tests : \E j \in DOMAIN tests : order[j] = i
  /\ \A i, j \in DOMAIN tests : i < j =>
       /\ Before(tests[order[i]], tests[order[j]])
       /\ tests[order[i]].id = tests[order[j]].id => order[i] < order[j]

Load ==
  /\ pc = "idle" /\ syncs < MaxSyncs
  /\ syncs' = syncs + 1 /\ pc' = "tests" /\ page' = 0 /\ pulled' = <<>>
  /\ total' = 0 /\ linked' = {}
  /\ UNCHANGED <<test, members, suited, hidden, counted, allowEmpty, manifest, changes>>

Listing(S) == {rows \in [1 .. Cardinality(S) -> S] :
                 \A i, j \in DOMAIN rows : i < j => rows[i] < rows[j]}

(* One page of the query: rows are cut first and hidden afterwards, and a  *)
(* page that came short is taken for the last.  The total is that of the   *)
(* first page.                                                             *)
ReadPage ==
  /\ pc = "tests"
  /\ LET matching == {x \in SysIds : Exists(x)}
         place(x) == Cardinality({y \in matching : y < x})
         window == {x \in matching : place(x) \in page * PageSize .. (page + 1) * PageSize - 1}
     IN \E rows \in Listing(window \ hidden) :
          LET all == pulled \o [i \in DOMAIN rows |->
                       [id |-> FreshId(rows[i]), sysId |-> rows[i], name |-> test[rows[i]].name]]
              over == Len(rows) < PageSize \/ (counted /\ Len(all) >= total')
          IN /\ total' = IF counted /\ page = 0 THEN Cardinality(matching) ELSE total
             /\ pulled' = all
             /\ pc' = IF over THEN "suite" ELSE "tests"
  /\ page' = page + 1
  /\ UNCHANGED <<test, members, suited, hidden, counted, allowEmpty, manifest,
                 linked, changes, syncs>>

SecurityTrimmed == total > Len(pulled)

(* pullSuites: links to tests that were not pulled are dropped, and of one *)
(* pulled twice the last counts; two tests with one fresh id end the sync. *)
LastPulled(i) == \A j \in DOMAIN pulled : pulled[j].sysId = pulled[i].sysId => j <= i

ReadSuite ==
  /\ pc = "suite"
  /\ linked' = IF suited
               THEN {pulled[i] : i \in {j \in DOMAIN pulled :
                                         pulled[j].sysId \in members /\ LastPulled(j)}}
               ELSE {}
  /\ pc' = IF \E i, j \in DOMAIN pulled : i # j /\ pulled[i].id = pulled[j].id
           THEN "idle" ELSE "merge"
  /\ UNCHANGED <<test, members, suited, hidden, counted, allowEmpty, manifest,
                 page, pulled, total, changes, syncs>>

-----------------------------------------------------------------------------
(* matchTest: by sys_id, else the first committed test of the name.        *)
Matches(t) ==
  LET bySysId == {i \in DOMAIN manifest.tests : manifest.tests[i].sysId = t.sysId}
      byName == {i \in DOMAIN manifest.tests : manifest.tests[i].name = t.name}
  IN IF bySysId # {} THEN bySysId ELSE byName

FinalId(t) ==
  IF Matches(t) = {} THEN t.id
  ELSE manifest.tests[CHOOSE i \in Matches(t) : \A j \in Matches(t) : i <= j].id

(* Faulty variant: the ids of the snapshot.                                *)
RemappedFresh(ts) == {t.id : t \in ts}

(* mergeManifest: membership is pulled with fresh ids and follows them.    *)
Remapped(ts) == {FinalId(t) : t \in ts}

(* syncManifest: a snapshot with nothing in it replaces a manifest with    *)
(* something in it only on request, and never where rows are hidden.       *)
Refused ==
  /\ pulled = <<>> /\ ~suited
  /\ manifest.tests # <<>> \/ manifest.suited
  /\ SecurityTrimmed \/ ~allowEmpty

Merged == [i \in DOMAIN pulled |-> [pulled[i] EXCEPT !.id = FinalId(pulled[i])]]

Merge ==
  /\ pc = "merge"
  /\ pc' = "idle"
  /\ IF Refused THEN UNCHANGED manifest
     ELSE \E order \in [DOMAIN pulled -> DOMAIN pulled] :
            /\ Sorts(order, Merged)
            /\ manifest' = [tests |-> [i \in DOMAIN pulled |-> Merged[order[i]]],
                            members |-> Remapped(linked), suited |-> suited, never |-> FALSE]
  /\ UNCHANGED <<test, members, suited, hidden, counted, allowEmpty,
                 page, pulled, total, linked, changes, syncs>>

-----------------------------------------------------------------------------
Change(x, t) ==
  /\ changes < MaxChanges /\ test[x] # t
  /\ changes' = changes + 1
  /\ test' = [test EXCEPT ![x] = t]
  /\ members' = IF t = Gone THEN members \ {x} ELSE members
  /\ UNCHANGED <<suited, hidden, counted, allowEmpty, manifest,
                 pc, page, pulled, total, linked, syncs>>

Next ==
  \/ Load \/ ReadPage \/ ReadSuite \/ Merge
  \/ \E x \in SysIds, t \in {Gone} \cup [scope : Scopes, name : Names] : Change(x, t)

Spec == Init /\ [][Next]_vars

-----------------------------------------------------------------------------
Entries(m) == {m.tests[i] : i \in DOMAIN m.tests}

(* From one commit to the next a test keeps its logical id as long as it   *)
(* is there, under whatever name, and the suite lists its tests under just *)
(* the ids they have in this file -- for tests a window that moved between *)
(* two pages has not read twice.  A snapshot with no test and no suite     *)
(* replaces coverage only if asked for, and never if the instance counts   *)
(* rows the sync could not see; of smaller losses this says nothing.       *)
ReadOnce(x, m) ==
  Cardinality({i \in DOMAIN m.tests : m.tests[i].sysId = x}) = 1

IdsKept ==
  \A e \in Entries(manifest), f \in Entries(manifest') :
    e.sysId = f.sysId /\ ReadOnce(e.sysId, manifest) /\ ReadOnce(e.sysId, manifest') =>
      e.id = f.id

MembersKept ==
  LET listed == {e \in Entries(manifest') : \E t \in linked : t.sysId = e.sysId}
  IN /\ manifest'.members \subseteq {e.id : e \in listed}
     /\ {e.id : e \in {f \in listed : ReadOnce(f.sysId, manifest')}} \subseteq manifest'.members

NotErased ==
  manifest'.tests = <<>> /\ manifest.tests # <<>> /\ ~manifest'.suited =>
    allowEmpty /\ ~SecurityTrimmed

ManifestStep == manifest' # manifest => IdsKept /\ MembersKept /\ NotErased
ManifestFollows == [][ManifestStep]_vars

(* sync.ts 102-107: no two tests under one logical id, where the manifest  *)
(* would carry one and the instance has two.                               *)
IdsDistinct ==
  \A i, j \in DOMAIN manifest.tests :
    i # j => manifest.tests[i].id # manifest.tests[j].id
=============================================================================
