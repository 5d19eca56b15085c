--------------------------- MODULE MCSandboxStore ---------------------------
(* SandboxStore with as many workflows as sandboxes and a smaller cap.     *)
EXTENDS SandboxStore

CONSTANTS k1, k2, k3

MCKeys == {k1, k2, k3}
KeyOrder == <<k1, k2, k3>>

\* Nothing tells one key from another, so that every behaviour is, up to a
\* renaming of the keys, one in which they are first used in this order.
KeysInOrder ==
  \A s \in Sandboxes, j \in 2..3 :
    keyOf[s] = KeyOrder[j] => \E t \in 1..(s - 1) : keyOf[t] = KeyOrder[j - 1]
=============================================================================
