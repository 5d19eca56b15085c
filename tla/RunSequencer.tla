---------------------------- MODULE RunSequencer ----------------------------
(***************************************************************************)
(* The main-side RunSequencer of packages/sandbox/src/run-sequencer.ts.    *)
(*                                                                         *)
(* A worker posts wire events framed as "leaf", {open: call} or            *)
(* {close: call}.  The sequencer gives every event of a run its seq and    *)
(* its ref (the seq of the enclosing frame, or of the frame being closed), *)
(* and on worker death synthesises the missing closes.                     *)
(*                                                                         *)
(* An event kind "trigger.request" is the pair <<"trigger", "request">>:   *)
(* the part before the first dot and the rest.  Names, payloads and        *)
(* timestamps are left out.                                                *)
(***************************************************************************)
EXTENDS Naturals, Sequences

CONSTANTS Calls,      \* call ids a worker can mint in one run
          Prefixes,   \* kind prefixes: "trigger", "action", "system", ...
          NoRef,      \* the code's ref: null
          MaxEvents   \* bound on the events stamped in one run

ASSUME NoRefAssumption == NoRef \notin Nat
ASSUME MaxEventsAssumption == MaxEvents \in Nat

VARIABLES seq,        \* next sequence number
          refStack,   \* seqs of the open frames, innermost last
          callMap,    \* open frames in insertion order (a JavaScript Map)
          runActive,  \* the run window is open
          out,        \* history: the events stamped in the current window
          ending      \* history: how the last window was closed

seqVars == <<seq, refStack, callMap, runActive>>
vars == <<seq, refStack, callMap, runActive, out, ending>>

Suffixes == {"request", "response", "error", "call"}
Kinds == Prefixes \X Suffixes
Entries == [call : Calls, openSeq : Nat, kind : Kinds]
Events == [type : {"leaf", "open", "close"}, seq : Nat, ref : Nat \cup {NoRef},
           call : Calls \cup {NoRef}, kind : Kinds, synth : BOOLEAN]

TypeOK ==
  /\ seq \in Nat
  /\ refStack \in Seq(Nat)
  /\ callMap \in Seq(Entries)
  /\ runActive \in BOOLEAN
  /\ out \in Seq(Events)
  /\ ending \in {"none", "clean", "death"}

Init ==
  /\ seq = 0
  /\ refStack = <<>>
  /\ callMap = <<>>
  /\ runActive = FALSE
  /\ out = <<>>
  /\ ending = "none"

-----------------------------------------------------------------------------
(* Helpers of the source.                                                  *)

synthCloseKind(kind) == <<kind[1], "error">>

\* s without its i-th element: splice(i, 1), and Map.delete on the entry list
Without(s, i) == [j \in 1..(Len(s) - 1) |-> IF j < i THEN s[j] ELSE s[j + 1]]

\* refStack.at(-1) ?? null
Top == IF refStack = <<>> THEN NoRef ELSE refStack[Len(refStack)]

HasCall(call) == \E i \in 1..Len(callMap) : callMap[i].call = call

\* Mutant of EntryIndex: pairs a close with the most recent open
EntryIndexNewest(call) == Len(callMap)

EntryIndex(call) == CHOOSE i \in 1..Len(callMap) : callMap[i].call = call

\* refStack.lastIndexOf(n), 0 when absent
LastIndexOf(n) ==
  IF \E i \in 1..Len(refStack) : refStack[i] = n
  THEN CHOOSE i \in 1..Len(refStack) :
         /\ refStack[i] = n
         /\ \A j \in (i + 1)..Len(refStack) : refStack[j] # n
  ELSE 0

Stamped(type, n, ref, call, kind, synth) ==
  [type |-> type, seq |-> n, ref |-> ref, call |-> call, kind |-> kind,
   synth |-> synth]

-----------------------------------------------------------------------------
(* The three methods.  start() leaves a zeroed state behind whether or not *)
(* it found a dirty one.                                                   *)

Start ==
  /\ seq' = 0
  /\ refStack' = <<>>
  /\ callMap' = <<>>
  /\ runActive' = TRUE
  /\ out' = <<>>
  /\ ending' = "none"

StampLeaf(kind) ==
  /\ seq' = seq + 1
  /\ out' = Append(out, Stamped("leaf", seq, Top, NoRef, kind, FALSE))
  /\ UNCHANGED <<refStack, callMap, runActive, ending>>

\* Mutant of StampOpen: pushes the call id instead of the seq
StampOpenPushesCall(call, kind) ==
  /\ seq' = seq + 1
  /\ refStack' = Append(refStack, call)
  /\ callMap' = Append(callMap, [call |-> call, openSeq |-> seq, kind |-> kind])
  /\ out' = Append(out, Stamped("open", seq, Top, call, kind, FALSE))
  /\ UNCHANGED <<runActive, ending>>

StampOpen(call, kind) ==
  /\ seq' = seq + 1
  /\ refStack' = Append(refStack, seq)
  /\ callMap' = Append(callMap, [call |-> call, openSeq |-> seq, kind |-> kind])
  /\ out' = Append(out, Stamped("open", seq, Top, call, kind, FALSE))
  /\ UNCHANGED <<runActive, ending>>

\* Mutants of StampClose: the frame popped is always the innermost one; the
\* close does not take a sequence number
StampClosePopsTop(call, kind) ==
  /\ HasCall(call)
  /\ LET i == EntryIndex(call)
     IN /\ seq' = seq + 1
        /\ refStack' = SubSeq(refStack, 1, Len(refStack) - 1)
        /\ callMap' = Without(callMap, i)
        /\ out' = Append(out, Stamped("close", seq, callMap[i].openSeq, call, kind,
                                      FALSE))
  /\ UNCHANGED <<runActive, ending>>

StampCloseReusesSeq(call, kind) ==
  /\ HasCall(call)
  /\ LET i == EntryIndex(call)
         n == callMap[i].openSeq
     IN /\ refStack' = Without(refStack, LastIndexOf(n))
        /\ callMap' = Without(callMap, i)
        /\ out' = Append(out, Stamped("close", seq, n, call, kind, FALSE))
  /\ UNCHANGED <<seq, runActive, ending>>

\* handleClose with a matching open; a close without one changes nothing
StampClose(call, kind) ==
  /\ HasCall(call)
  /\ LET i == EntryIndex(call)
         n == callMap[i].openSeq
         p == LastIndexOf(n)
     IN /\ seq' = seq + 1
        /\ refStack' = IF p = 0 THEN refStack ELSE Without(refStack, p)
        /\ callMap' = Without(callMap, i)
        /\ out' = Append(out, Stamped("close", seq, n, call, kind, FALSE))
  /\ UNCHANGED <<runActive, ending>>

\* Mutant of SynthCloses: insertion order, outermost frame first
SynthClosesFifo ==
  [k \in 1..Len(callMap) |->
     LET e == callMap[k]
     IN Stamped("close", seq + k - 1, e.openSeq, e.call, synthCloseKind(e.kind),
                TRUE)]

\* The closes synthesised on worker death: callMap in reverse insertion order
SynthCloses ==
  [k \in 1..Len(callMap) |->
     LET e == callMap[Len(callMap) + 1 - k]
     IN Stamped("close", seq + k - 1, e.openSeq, e.call, synthCloseKind(e.kind),
                TRUE)]

Finish(closeReason) ==
  /\ out' = IF closeReason = "death" THEN out \o SynthCloses ELSE out
  /\ seq' = 0
  /\ refStack' = <<>>
  /\ callMap' = <<>>
  /\ runActive' = FALSE
  /\ ending' = closeReason

-----------------------------------------------------------------------------
(* The sandbox calls start() only on a closed window and next() for every  *)
(* wire event; an event outside the window, or a close whose call is not   *)
(* open, is dropped.  The worker mints a fresh call id for every open of a *)
(* run (bridge.ts toWireFraming).                                          *)

Minted == {out[i].call : i \in {j \in 1..Len(out) : out[j].type = "open"}}
Room == runActive /\ Len(out) < MaxEvents

Next ==
  \/ ~runActive /\ Start
  \/ Room /\ \E p \in Prefixes : StampLeaf(<<p, "call">>)
  \/ Room /\ \E call \in Calls \ Minted, p \in Prefixes :
               StampOpen(call, <<p, "request">>)
  \/ Room /\ \E call \in Calls, p \in Prefixes : StampClose(call, <<p, "response">>)
  \/ runActive /\ \E r \in {"clean", "death"} : Finish(r)

Spec == Init /\ [][Next]_vars

-----------------------------------------------------------------------------
(* Properties.                                                             *)

Positions == 1..Len(out)

\* the open at position k has not been closed before position i
OpenBefore(i, k) ==
  /\ k < i
  /\ out[k].type = "open"
  /\ \A m \in Positions :
       (m < i /\ out[m].type = "close") => out[m].ref # out[k].seq

\* seqs of the frames open just before position i, read off the log alone
StillOpen(i) == {out[k].seq : k \in {j \in Positions : OpenBefore(i, j)}}

\* The events of a run are numbered 0, 1, 2, ... without gap or repetition,
\* closes synthesised on worker death included: the event store keys rows by
\* (id, seq) and an archived run is replayed in seq order.
SeqDense ==
  /\ \A i \in Positions : out[i].seq = i - 1
  /\ runActive => seq = Len(out)

\* A leaf or an open refers to the innermost frame still open when it was
\* stamped (null when there is none), also after frames were closed out of
\* order by concurrent calls: the lastIndexOf/splice path of handleClose.
RefIsInnermost ==
  \A i \in Positions : out[i].type # "close" =>
    \/ StillOpen(i) = {} /\ out[i].ref = NoRef
    \/ out[i].ref \in StillOpen(i) /\ \A n \in StillOpen(i) : n <= out[i].ref

\* Every close, received or synthesised, refers to the open that carried the
\* same call id and that no earlier close has closed.
ClosePairsItsOpen ==
  \A i \in Positions : out[i].type = "close" =>
    /\ out[i].ref \in StillOpen(i)
    /\ out[out[i].ref + 1].call = out[i].call

\* When a worker dies, finish({closeReason}) leaves no frame of the run open,
\* closes the frames innermost first and gives each the error kind of its own
\* prefix, so the last event of a run whose trigger frame was open is its
\* trigger.error.
DeathClosesEveryFrame ==
  ending = "death" =>
    /\ StillOpen(Len(out) + 1) = {}
    /\ \A i \in Positions : out[i].synth =>
         /\ out[i].kind = <<out[out[i].ref + 1].kind[1], "error">>
         /\ \A j \in (i + 1)..Len(out) : out[j].synth /\ out[j].ref < out[i].ref
=============================================================================
