--------------------------- MODULE MCRunSequencer ---------------------------
(* Small instance of RunSequencer.  Call ids are compared for equality only, *)
(* so they are interchangeable.                                             *)
EXTENDS RunSequencer, TLC

CallSymmetry == Permutations(Calls)
=============================================================================
