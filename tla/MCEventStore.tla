---------------------------- MODULE MCEventStore ----------------------------
(* Two interchangeable invocations.                                        *)
EXTENDS EventStore, TLC

IdSymmetry == Permutations(Ids)
=============================================================================
