-------------------------- MODULE InvocationArchive --------------------------
(***************************************************************************)
(* What the event store promises: an invocation is archived as a whole,    *)
(* its events in order up to and including one terminal event, or not at   *)
(* all; an archived invocation never changes and is only forgotten as a    *)
(* whole.  An invocation cut off by a shutdown is archived under one       *)
(* additional terminal event.                                              *)
(***************************************************************************)
EXTENDS Naturals, Sequences

CONSTANT Ids

VARIABLES log,      \* the events recorded for an invocation
          archive   \* its archived events, <<>> when it is not archived

Init ==
  /\ log = [id \in Ids |-> <<>>]
  /\ archive = [id \in Ids |-> <<>>]

Prefix(s, t) == Len(s) <= Len(t) /\ \A i \in 1..Len(s) : t[i] = s[i]

Complete(es) ==
  /\ es # <<>>
  /\ \A i \in 1..Len(es) : es[i].seq = i - 1 /\ (es[i].terminal <=> i = Len(es))

Only(id, f, g) == \A other \in Ids \ {id} : f[other] = g[other]

Accept(id) ==
  /\ Prefix(log[id], log'[id]) /\ Len(log'[id]) = Len(log[id]) + 1
  /\ Only(id, log, log')
  /\ UNCHANGED archive

Store(id) ==
  /\ archive[id] = <<>>
  /\ Complete(archive'[id])
  /\ \/ archive'[id] = log[id]
     \/ /\ Prefix(log[id], archive'[id]) /\ Len(archive'[id]) = Len(log[id]) + 1
        /\ archive'[id][Len(archive'[id])].shutdown
  /\ Only(id, archive, archive')
  /\ UNCHANGED log

Forget ==
  /\ \A id \in Ids : archive'[id] \in {archive[id], <<>>}
  /\ UNCHANGED log

Next == Forget \/ \E id \in Ids : Accept(id) \/ Store(id)

Spec == Init /\ [][Next]_<<log, archive>>
=============================================================================
