------------------------- MODULE MCWorkflowRegistry -------------------------
(***************************************************************************)
(* Two bundles of different size: the first has two workflows, the second  *)
(* drops one of them and renames the queue of the other.                   *)
(***************************************************************************)
EXTENDS WorkflowRegistry

MCSchema ==
  LET declares == [b1 |-> {<<"w1", "jobs">>, <<"w2", "jobs">>},
                   b2 |-> {<<"w1", "mail">>}]
  IN [b \in {"b1", "b2"} |-> [s \in declares[b] |-> [i \in Items |-> i]]]

MCContains == [b1 |-> {"w1", "w2"}, b2 |-> {"w1"}]
MCSize == [b1 |-> 2, b2 |-> 1]
MCAddresses == {<<<<"w1", "jobs">>, "">>, <<<<"w2", "jobs">>, "">>,
                <<<<"w1", "mail">>, "">>}
=============================================================================
