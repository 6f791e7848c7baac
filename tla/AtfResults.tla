----------------------------- MODULE AtfResults -----------------------------
(***************************************************************************)
(* What the ATF runner makes of the results an execution has left          *)
(* (runner-atf/src/results.ts).  They are rows of two tables: a tree of    *)
(* suite results under the root that the progress answer names, and result *)
(* rows linked to suite results, next to rows of other executions.  A      *)
(* "world" is what there is to read, and how the instance answers reads:   *)
(* what of it this session may not see, whether a page comes with a total  *)
(* or the Stats count counts, and of which tables it ignores conditions on *)
(* references ("leaky"): "suites", "results" or both.  A row is "at" its   *)
(* place in the order of the query; that of results is the newest first.   *)
(***************************************************************************)
EXTENDS Integers, FiniteSets

CONSTANTS
  RowsPerTest,      \* MAX_RESULT_ROWS_PER_TEST
  MaxSuiteDepth, MaxSuiteResults

(***************************************************************************)
(* readTable: the first "limit" of the rows that match, less those this    *)
(* session may not read.  It is partial unless the total, or a second look *)
(* past the page and the Stats count, say that nothing is missing.         *)
(***************************************************************************)
First(rows, limit) == {r \in rows : Cardinality({s \in rows : s.at > r.at}) < limit}

Readable(rows) == {r \in rows : r.readable}

ReadTable(w, matching, limit) ==
  LET window == First(matching, limit)
      rows == Readable(window)
      n == Cardinality(rows)
      beyond == Readable(First(matching \ window, limit))
      count == CASE w.count = "exact" -> Cardinality(matching)
                 [] w.count = "filtered" -> Cardinality(Readable(matching))
                 [] OTHER -> -1
  IN [rows |-> rows,
      truncated |-> \/ n >= limit
                    \/ w.count = "total" /\ Cardinality(matching) > n
                    \/ w.count # "total" /\ n > 0 /\ beyond # {}
                    \/ w.count # "total" /\ count # n]

(***************************************************************************)
(* fetchSuiteResultTree: level by level from the root.  A partial page, a  *)
(* row that was not asked for, a row seen before and a level too deep each *)
(* make the tree unreadable.                                               *)
(***************************************************************************)
Level(w, prev, n) ==
  LET asked == {s \in w.suites : "suites" \in w.leaky \/ s.parent \in prev.frontier}
      page == ReadTable(w, asked, MaxSuiteResults - Cardinality(prev.ids) + 1)
      found == {s.id : s \in page.rows}
  IN [ids |-> prev.ids \cup found,
      frontier |-> found,
      fault |-> \/ page.truncated
                \/ \E s \in page.rows : s.parent \notin prev.frontier
                \/ found \cap prev.ids # {} \/ Cardinality(found) < Cardinality(page.rows)
                \/ found # {} /\ n > MaxSuiteDepth]

SuiteResultTree(w) ==
  LET level[n \in 0 .. MaxSuiteDepth + 1] ==
        IF n = 0 THEN [ids |-> {"root"}, frontier |-> {"root"}, fault |-> FALSE]
        ELSE IF level[n - 1].fault \/ level[n - 1].frontier = {} THEN level[n - 1]
             ELSE Level(w, level[n - 1], n)
  IN level[MaxSuiteDepth + 1]

(***************************************************************************)
(* fetchTestResults: one page for all tests; if it may be partial, one per *)
(* test, and then the newest row of each suite result that is missing.     *)
(***************************************************************************)
Matching(w, tests, links) ==
  {r \in w.rows : r.test \in tests /\ ("results" \in w.leaky \/ r.link \in links)}

(* Faulty variant: every row the query returned is believed.               *)
AdmissibleAny(rows, links) == rows

(* keepNewest: a row of another execution is refused although the query    *)
(* asked for none.                                                         *)
Admissible(rows, links) == {r \in rows : r.link \in links}

Starved(rows, t, links) == {k \in links : ~\E r \in rows : r.test = t /\ r.link = k}

TestResults(w, tests, links) ==
  LET perPair == Cardinality(links) * RowsPerTest
      page == ReadTable(w, Matching(w, tests, links), Cardinality(tests) * perPair)
      again(t) == ReadTable(w, Matching(w, {t}, links), perPair)
      nested == Cardinality(links) > 1
      known(t) == Admissible(page.rows \cup IF nested THEN again(t).rows ELSE {}, links)
      starved(t) == IF nested /\ ~again(t).truncated THEN {}
                    ELSE Starved(known(t), t, links)
      rows(t) == known(t) \cup
                 UNION {ReadTable(w, Matching(w, {t}, {k}), 1).rows : k \in starved(t)}
  IN Admissible(IF page.truncated THEN UNION {rows(t) : t \in tests} ELSE page.rows, links)

Newest(rows) == {r \in rows : \A s \in rows :
                   s.test = r.test /\ s.link = r.link => s.at <= r.at}

(* Faulty variant: the newest row of the test speaks for it.               *)
WorstOfNewest(rows) ==
  (CHOOSE r \in rows : \A s \in rows : s.at <= r.at).status

(* fail over error over skipped over pass, across the suite results of the *)
(* tree.                                                                   *)
WorstOf(rows) ==
  LET has(s) == \E r \in rows : r.status = s IN
  IF has("fail") THEN "fail" ELSE IF has("error") THEN "error"
  ELSE IF has("skipped") THEN "skipped" ELSE "pass"

(* run() rejects rather than report on a tree it cannot read.              *)
Unreadable(w) == w.linked /\ SuiteResultTree(w).fault

(* parseSpecResults, for a test of the suite that was run with "tests"; an *)
(* execution that links no results has no evidence to read.                *)
ResultOf(w, tests, t) ==
  LET rows == {r \in Newest(TestResults(w, tests, SuiteResultTree(w).ids)) : r.test = t}
  IN IF w.linked /\ rows # {} THEN WorstOf(rows) ELSE "missing"

-----------------------------------------------------------------------------
(* The suite results that are really under the root of an execution: the   *)
(* least set with the root in it and the children of all that is in it.    *)
Below(w) ==
  LET All == {"root"} \cup {s.id : s \in w.suites}
      Closed(S) == "root" \in S /\ \A s \in w.suites : s.parent \in S => s.id \in S
  IN {k \in All : \A S \in SUBSET All : Closed(S) => k \in S}

Evidence(w, t) ==
  {r \in w.rows : r.test = t /\ r.readable /\ r.link \in Below(w)}

(* What the suite results of the execution say of t in the end.            *)
LastWords(w, t) == Evidence(w, t) \cap Newest(w.rows)

(* A spec is reported "pass" on a row of this very execution, and never    *)
(* against the last row, where it can be read, of any suite of the tree,   *)
(* whatever pages were cut short or rows hidden; except where the instance *)
(* hides suites and their count alike, as results.ts 851-860 concedes, and *)
(* where it ignores the suite in a query of the results of several: the    *)
(* newest row of one of them is then sought among those of the others.     *)
PassProven(w, tests) ==
  \A t \in tests :
    ~Unreadable(w) /\ ResultOf(w, tests, t) = "pass" =>
      /\ w.linked
      /\ \E r \in Evidence(w, t) : r.status = "pass"
      /\ \/ w.count = "filtered"
         \/ "results" \in w.leaky /\ SuiteResultTree(w).ids # {"root"}
         \/ \A r \in LastWords(w, t) : r.status = "pass"
=============================================================================
