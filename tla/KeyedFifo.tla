------------------------------ MODULE KeyedFifo ------------------------------
(***************************************************************************)
(* What the queue store promises its callers: per (workflow, queue, key) a *)
(* first-in first-out line, from which an item is taken at most once.      *)
(* QueueStore implements this module.                                      *)
(***************************************************************************)
EXTENDS Sequences

CONSTANTS Partitions,   \* workflow, queue and key
          Units,        \* the sets of partitions that are dropped together
          Items,
          Readings      \* per partition and item, the values it may be read as

VARIABLES line,         \* the items waiting in each partition, oldest first
          reply         \* the answer given by this step, if it gave one

Init ==
  /\ line = [p \in Partitions |-> <<>>]
  /\ reply = <<"none">>

\* an item joins its line; the caller may be told of a failure all the same
Put(p, i) ==
  /\ reply' \in {<<"ok">>, <<"error">>}
  /\ line' = [line EXCEPT ![p] = Append(@, i)]

\* the oldest item leaves its line and is handed over, or it is lost
Taken(p) == {<<"found", p, j>> : j \in Readings[p][Head(line[p])]}

Take(p) ==
  /\ line[p] # <<>>
  /\ reply' \in Taken(p) \cup {<<"error">>}
  /\ line' = [line EXCEPT ![p] = Tail(@)]

FindEmpty(p) ==
  /\ reply' = <<"empty", p>>
  /\ line[p] = <<>>
  /\ UNCHANGED line

Refuse ==
  /\ reply' = <<"error">>
  /\ UNCHANGED line

\* the declaration of a queue, or of a workflow, was removed
Drop(P) ==
  /\ reply' = <<"none">>
  /\ line' = [p \in Partitions |-> IF p \in P THEN <<>> ELSE line[p]]

\* a call starts or goes on, or the process is killed: lines stay as they are
Idle ==
  /\ reply' = <<"none">>
  /\ UNCHANGED line

Next ==
  \/ \E p \in Partitions :
       (\E i \in Items : Put(p, i)) \/ Take(p) \/ FindEmpty(p)
  \/ Refuse
  \/ \E P \in Units : Drop(P)
  \/ Idle

Spec == Init /\ [][Next]_<<line, reply>>
=============================================================================
