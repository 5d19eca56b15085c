---------------------------- MODULE MCQueueStore ----------------------------
(***************************************************************************)
(* One workflow with two queues, two keys and one over-long key, and three *)
(* items: one that both manifests accept, one that the second rejects and  *)
(* one over the size cap.  The second manifest declares one queue only.    *)
(***************************************************************************)
EXTENDS QueueStore, TLC

MCSchema ==
  LET accept == [i \in Items |-> i]
      strict == [i \in Items |-> IF i = "legacy" THEN Invalid ELSE i]
  IN [v \in {"v1", "v2"} |->
        IF v = "v1" THEN [s \in Scopes |-> accept]
                    ELSE [s \in {s \in Scopes : s[2] = "jobs"} |-> strict]]

CallerSymmetry == Permutations(Callers)

MCAddresses == {<<<<"w", "jobs">>, "">>, <<<<"w", "jobs">>, "a">>,
                <<<<"w", "jobs">>, "long">>, <<<<"w", "mail">>, "">>}
=============================================================================
