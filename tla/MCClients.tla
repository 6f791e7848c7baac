----------------------------- MODULE MCClients -----------------------------
(* Instances of the clients for TLC. *)
EXTENDS Clients, TLC

CONSTANTS g1, g2, w1,        \* calls
          t1, t2, t3         \* tests

TwoTests == {t1, t2}
SuiteTests == <<TwoTests, {t3}>>

(* Results that cannot be read, and a result for the first test alone.     *)
InOrder(s) == {[at |-> Len(s) - i] @@ s[i] : i \in DOMAIN s}
Under(id, parent) == [id |-> id, parent |-> parent, readable |-> TRUE]
Loop == InOrder(<<Under("child", "root"), Under("root", "child")>>)
Passed == {[test |-> t1, link |-> "root", status |-> "pass", readable |-> TRUE, at |-> 1]}
Left == [linked : {TRUE}, suites : {{}, Loop}, rows : {{}, Passed},
         leaky : {{}}, count : {"total"}]
SuiteWorlds == <<Left, Left>>

Checklists == {<<>>, <<"s1">>, <<"s1", "s2", "s1">>}
Covered == [confirmed : {0}, impacted : {2}, floor : {50}]
           \cup [confirmed : {1}, impacted : {2}, floor : {50, 51}]
Slugs == <<1, 2>>

-----------------------------------------------------------------------------
(* Worlds of results: up to three rows, the newest first, of which one of  *)
(* the last two may be hidden; suites that are flat, nested, hidden, below *)
(* another root, too deep or in a loop.                                    *)
Rows(tests, links) ==
  LET Row(hide) == [test : tests, link : links, status : {"pass", "fail"},
                    readable : {TRUE} \cup hide]
      Seqs == UNION {[1 .. n -> Row({})] : n \in 0 .. 3}
              \cup {s \in [1 .. 2 -> Row({FALSE})] : s[1].readable # s[2].readable}
  IN {InOrder(s) : s \in Seqs}

(* Long enough for a failure of the root to be past every page.            *)
Histories ==
  LET Row(k, st) == [test |-> t1, link |-> k, status |-> st, readable |-> TRUE]
  IN {InOrder([i \in 1 .. 5 |-> IF i = 5 THEN Row("root", "fail") ELSE Row(k[i], "pass")]) :
        k \in [1 .. 4 -> {"root", "child", "stranger"}]}

Readings == [leaky : {{}}, count : {"total", "exact", "filtered", "none"}]
            \cup [leaky : {{"results"}, {"suites", "results"}}, count : {"total", "exact"}]

Results ==
  LET Hidden == [Under("child", "root") EXCEPT !.readable = FALSE]
      Child == Under("child", "root")
      Flat == {{}}
      Nested == {InOrder(s) : s \in
                   {<<Child>>, <<Hidden>>, <<Hidden, Under("stranger", "other")>>,
                    <<Child, Under("grandchild", "child")>>}}
      Bad == {Loop, InOrder(<<Child, Under("grandchild", "child"), Under("deep", "grandchild")>>)}
      World(suites, rows) ==
        {r @@ [linked |-> TRUE, suites |-> s, rows |-> w] :
           r \in Readings, s \in suites, w \in rows}
  IN World(Flat, Rows({t1, t2}, {"root", "stranger"}))
     \cup World(Nested, Rows({t1}, {"root", "child", "stranger"}))
     \cup World({{}, InOrder(<<Child>>)}, Histories)
     \cup World(Bad, {Passed})
     \cup {[linked |-> FALSE, suites |-> {}, rows |-> Passed, leaky |-> {},
            count |-> "total"]}
=============================================================================
