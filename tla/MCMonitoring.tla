------------------------------ MODULE MCMonitoring ------------------------------
(* A small instance of MonitoringSearch for TLC. *)
EXTENDS MonitoringSearch

CONSTANTS r1, r2

Host(name) == [name |-> name, valid |-> TRUE, informs |-> FALSE]
Problem(hardware, typical) ==
  [hardware |-> hardware, typical |-> typical, informs |-> FALSE, valid |-> TRUE]

MCAsked ==
  {[host |-> Host(h), problem |-> Problem(TRUE, FALSE)] : h \in {"a1", "b1", "-x"}}
    \cup {[host |-> Host("a2"), problem |-> Problem(FALSE, FALSE)],
          [host |-> [Host("a1") EXCEPT !.informs = TRUE], problem |-> Problem(TRUE, FALSE)],
          [host |-> Host("a1"), problem |-> Problem(TRUE, TRUE)],
          [host |-> [Host("a1") EXCEPT !.valid = FALSE], problem |-> Problem(FALSE, TRUE)]}

Card(name, project, ips, mgmt) ==
  [name |-> name, project |-> project, system |-> "s", ips |-> ips, mgmt |-> mgmt]
MCDevices == {Card("a1", "p", {1, 2}, {}), Card("a12", "q", {}, {3})}
MCNamed == {<<"a12", "a1">>}
MCFound == {{}, {Card("a1", "p", {1, 2}, {}), Card("a12", "q", {}, {3})}, {Card("a12", "q", {}, {3})}}

Rule(type, hosts, project, to) ==
  [type |-> type, hosts |-> hosts, length |-> 1, wants |-> [project |-> "", system |-> ""],
   project |-> project, salt |-> project = "Salt", to |-> to, cc |-> {"boss", "out"}]
TechOf(all) == [rules |-> all, never |-> {"out"}, always |-> {"desk"}]

\* One file with a wide rule and a narrow one that asks for the card's project, Salt
\* and two that are equal; a later one without Salt; one that contradicts itself.
MCTech ==
  {TechOf(<<Rule("wildcard", {"a1", "a2", "b1"}, "X5Tech", {"x"}),
            [Rule("wildcard", {"a1", "b1"}, "X5Tech", {"boss"}) EXCEPT !.wants.project = "p"],
            Rule("regex", {"a2"}, "Salt", {"s"})>>),
   TechOf(<<Rule("exact", {"a1"}, "Digital", {"desk"}), Rule("exact", {"a1"}, "X5Tech", {"x"}),
            [Rule("regex", {"b1"}, "X5Tech", {}) EXCEPT !.length = 2], Rule("regex", {"b1"}, "X5Tech", {"x"})>>),
   TechOf(<<[Rule("exact", {"a1"}, "Salt", {"s"}) EXCEPT !.salt = FALSE]>>), Missing, Broken}
MCDigital ==
  {[hosts |-> <<"a2", "b1">>, to |-> {"d"}, cc |-> {"d", "boss"}],
   [hosts |-> <<"a1", "a1">>, to |-> {"d"}, cc |-> {}], Missing}

\* The first search may ask for anything; the second asks for a host both files may
\* name. At first the files are in order.
MCInitSearch ==
  /\ InitSearch
  /\ rules["Digital"].holds # Missing /\ Sound("Digital", rules["Digital"].holds)
  /\ rules["Tech"].holds \notin {Missing, Broken} /\ Sound("Tech", rules["Tech"].holds)

Second ==
  search'[r2].at \notin {"waiting", "failed"} =>
    search'[r2].asked = [host |-> Host("a2"), problem |-> Problem(FALSE, FALSE)]

MCNextSearch == NextSearch /\ Second

MCSearchSpec == MCInitSearch /\ [][MCNextSearch]_searchVars
=============================================================================
