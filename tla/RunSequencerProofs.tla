------------------------- MODULE RunSequencerProofs -------------------------
(***************************************************************************)
(* Proofs about RunSequencer, for any set of calls and prefixes and any    *)
(* bound on the events of a run.                                           *)
(***************************************************************************)
EXTENDS RunSequencer, TLAPS

-----------------------------------------------------------------------------
(* The inductive invariant.  The two structures the source keeps, refStack *)
(* and callMap, are the same list of frames; the list is strictly          *)
(* increasing; and it holds exactly the frames the log leaves open.        *)

Mirrors ==
  /\ Len(refStack) = Len(callMap)
  /\ \A i \in 1..Len(callMap) : refStack[i] = callMap[i].openSeq
  /\ \A i, j \in 1..Len(refStack) : i < j => refStack[i] < refStack[j]
  /\ \A i, j \in 1..Len(callMap) : callMap[i].call = callMap[j].call => i = j

FramesAreOpen ==
  runActive =>
    /\ \A i \in 1..Len(callMap) :
         /\ callMap[i].openSeq + 1 \in Positions
         /\ OpenBefore(Len(out) + 1, callMap[i].openSeq + 1)
         /\ out[callMap[i].openSeq + 1].call = callMap[i].call
         /\ out[callMap[i].openSeq + 1].kind = callMap[i].kind
    /\ \A k \in Positions : OpenBefore(Len(out) + 1, k) =>
         \E i \in 1..Len(callMap) : callMap[i].openSeq = k - 1

ClosesArePast ==
  \A i \in Positions : out[i].type = "close" => out[i].ref \in Nat /\ out[i].ref + 1 < i

Window ==
  /\ ~runActive => callMap = <<>> /\ seq = 0
  /\ runActive => ending = "none" /\ \A i \in Positions : ~out[i].synth

IInv ==
  /\ TypeOK
  /\ SeqDense
  /\ Mirrors
  /\ FramesAreOpen
  /\ ClosesArePast
  /\ Window

-----------------------------------------------------------------------------
(* Sequences.                                                              *)

\* Removing the i-th element keeps the type and shifts what follows.
LEMMA WithoutProperties ==
  ASSUME NEW S, NEW s \in Seq(S), NEW i \in 1..Len(s)
  PROVE  /\ Without(s, i) \in Seq(S)
         /\ Len(Without(s, i)) = Len(s) - 1
         /\ \A j \in 1..(Len(s) - 1) :
              Without(s, i)[j] = IF j < i THEN s[j] ELSE s[j + 1]
<1>1. \A j \in 1..(Len(s) - 1) : (IF j < i THEN s[j] ELSE s[j + 1]) \in S
  OBVIOUS
<1>2. Len(s) - 1 \in Nat
  OBVIOUS
<1>3. Without(s, i) \in [1..(Len(s) - 1) -> S]
  BY <1>1 DEF Without
<1>4. Without(s, i) \in Seq(S)
  BY <1>2, <1>3
<1>5. Len(Without(s, i)) = Len(s) - 1
  BY <1>2, <1>3
<1>. QED
  BY <1>4, <1>5 DEF Without

\* Initially nothing is open and nothing is stamped.
LEMMA InitIInv == Init => IInv
<1>. SUFFICES ASSUME Init PROVE IInv
  OBVIOUS
<1>1. TypeOK
  <2>1. <<>> \in Seq(Nat) /\ <<>> \in Seq(Entries) /\ <<>> \in Seq(Events)
    OBVIOUS
  <2>2. seq \in Nat /\ ending \in {"none", "clean", "death"}
    BY DEF Init
  <2>3. runActive \in BOOLEAN
    BY Zenon DEF Init
  <2>. QED
    BY <2>1, <2>2, <2>3, Zenon DEF Init, TypeOK
<1>2. SeqDense /\ Mirrors /\ FramesAreOpen /\ ClosesArePast /\ Window
  BY DEF Init, SeqDense, Mirrors, FramesAreOpen, ClosesArePast, Window, Positions
<1>. QED
  BY <1>1, <1>2 DEF IInv
-----------------------------------------------------------------------------
(* What the log says about its past does not depend on its future.         *)

Extends ==
  /\ out' \in Seq(Events)
  /\ Len(out') >= Len(out)
  /\ \A i \in 1..Len(out) : out'[i] = out[i]

\* A frame open before position i of the log is open there in any extension.
LEMMA OpenBeforeStable ==
  ASSUME out \in Seq(Events), Extends,
         NEW i \in 1..(Len(out) + 1), NEW k \in 1..Len(out)
  PROVE  OpenBefore(i, k)' <=> OpenBefore(i, k)
<1>1. \A m \in 1..Len(out) : m \in 1..Len(out') /\ out'[m] = out[m]
  BY DEF Extends
<1>2. \A m \in 1..Len(out') : m < i => m \in 1..Len(out)
  BY DEF Extends
<1>3. ASSUME OpenBefore(i, k) PROVE OpenBefore(i, k)'
  BY <1>1, <1>2, <1>3 DEF OpenBefore, Positions
<1>4. ASSUME OpenBefore(i, k)' PROVE OpenBefore(i, k)
  BY <1>1, <1>4 DEF OpenBefore, Positions
<1>. QED
  BY <1>3, <1>4

\* The set of frames open before position i is the same in any extension.
LEMMA StillOpenStable ==
  ASSUME out \in Seq(Events), Extends, NEW i \in 1..(Len(out) + 1)
  PROVE  StillOpen(i)' = StillOpen(i)
<1>1. ASSUME NEW k \in 1..Len(out) PROVE OpenBefore(i, k)' <=> OpenBefore(i, k)
  BY OpenBeforeStable
<1>2. \A k \in 1..Len(out') : OpenBefore(i, k)' => k \in 1..Len(out)
  BY DEF OpenBefore, Extends
<1>3. \A k \in 1..Len(out) : out'[k].seq = out[k].seq
  BY DEF Extends
<1>4. 1..Len(out) \subseteq 1..Len(out')
  BY DEF Extends
<1>. QED
  BY <1>1, <1>2, <1>3, <1>4 DEF StillOpen, Positions

\* In an open window the frames the log leaves open are those on refStack.
LEMMA StillOpenIsRefStack ==
  ASSUME IInv, runActive
  PROVE  StillOpen(Len(out) + 1) = {refStack[i] : i \in 1..Len(refStack)}
<1>1. ASSUME NEW n \in StillOpen(Len(out) + 1)
      PROVE  n \in {refStack[i] : i \in 1..Len(refStack)}
  <2>1. PICK k \in Positions : OpenBefore(Len(out) + 1, k) /\ n = out[k].seq
    BY <1>1 DEF StillOpen
  <2>2. PICK i \in 1..Len(callMap) : callMap[i].openSeq = k - 1
    BY <2>1 DEF IInv, FramesAreOpen
  <2>3. n = k - 1
    BY <2>1 DEF IInv, SeqDense
  <2>4. i \in 1..Len(refStack) /\ refStack[i] = n
    BY <2>2, <2>3 DEF IInv, Mirrors
  <2>. QED
    BY <2>4
<1>2. ASSUME NEW i \in 1..Len(refStack)
      PROVE  refStack[i] \in StillOpen(Len(out) + 1)
  <2>1. i \in 1..Len(callMap) /\ refStack[i] = callMap[i].openSeq
    BY DEF IInv, Mirrors
  <2>2. callMap[i].openSeq \in Nat
    BY <2>1 DEF IInv, TypeOK, Entries
  <2>. DEFINE k == callMap[i].openSeq + 1
  <2>3. k \in Positions /\ OpenBefore(Len(out) + 1, k)
    BY <2>1 DEF IInv, FramesAreOpen
  <2>4. out[k].seq = callMap[i].openSeq
    BY <2>2, <2>3 DEF IInv, SeqDense
  <2>. QED
    BY <2>1, <2>3, <2>4 DEF StillOpen
<1>. QED
  BY <1>1, <1>2

-----------------------------------------------------------------------------
(* Each method preserves the inductive invariant.                          *)

\* start() opens an empty window.
LEMMA StartIInv == IInv /\ Start => IInv'
<1>. SUFFICES ASSUME IInv, Start PROVE IInv'
  OBVIOUS
<1>1. out' = <<>> /\ refStack' = <<>> /\ callMap' = <<>> /\ seq' = 0 /\ ending' = "none"
  BY DEF Start
<1>2. runActive' = TRUE
  BY DEF Start
<1>3. TypeOK'
  <2>1. <<>> \in Seq(Nat) /\ <<>> \in Seq(Entries) /\ <<>> \in Seq(Events)
    OBVIOUS
  <2>. QED
    BY <1>1, <1>2, <2>1 DEF TypeOK
<1>4. (SeqDense /\ Mirrors /\ FramesAreOpen /\ ClosesArePast /\ Window)'
  BY <1>1, <1>2 DEF SeqDense, Mirrors, FramesAreOpen, ClosesArePast, Window, Positions
<1>. QED
  BY <1>3, <1>4 DEF IInv

\* What appending one stamped event does to the log, whatever its type.
LEMMA AppendFacts ==
  ASSUME IInv, runActive, NEW e \in Events,
         e.seq = seq, ~e.synth,
         e.type = "close" => e.ref \in Nat /\ e.ref < Len(out),
         out' = Append(out, e), seq' = seq + 1,
         runActive' = runActive, ending' = ending
  PROVE  /\ Extends
         /\ Len(out') = Len(out) + 1
         /\ out'[Len(out) + 1] = e
         /\ SeqDense' /\ ClosesArePast' /\ Window'
         /\ \A k \in 1..Len(out) : OpenBefore(Len(out) + 1, k)' <=>
              /\ OpenBefore(Len(out) + 1, k)
              /\ e.type = "close" => e.ref # out[k].seq
         /\ \A k \in {Len(out) + 1} : OpenBefore(Len(out) + 1, k)' <=> e.type = "open"
<1>1. out \in Seq(Events) /\ seq \in Nat /\ seq = Len(out)
  BY DEF IInv, TypeOK, SeqDense
<1>2. /\ out' \in Seq(Events) /\ Len(out') = Len(out) + 1
      /\ out'[Len(out) + 1] = e /\ \A i \in 1..Len(out) : out'[i] = out[i]
  BY <1>1
<1>3. Extends
  BY <1>1, <1>2 DEF Extends
<1>4. SeqDense'
  BY <1>1, <1>2 DEF IInv, SeqDense, Positions
<1>5. ClosesArePast'
  BY <1>1, <1>2 DEF IInv, ClosesArePast, Positions
<1>6. Window'
  BY <1>1, <1>2 DEF IInv, Window, Positions
<1>7. \A k \in 1..Len(out) : OpenBefore(Len(out) + 1, k)' <=>
        /\ OpenBefore(Len(out) + 1, k)
        /\ e.type = "close" => e.ref # out[k].seq
  <2>1. \A m \in 1..Len(out') : m \in 1..Len(out) \/ m = Len(out) + 1
    BY <1>1, <1>2
  <2>2. \A m \in 1..Len(out) : m \in 1..Len(out') /\ m < Len(out) + 1 /\ m < Len(out') + 1
    BY <1>1, <1>2
  <2>3. Len(out) + 1 \in 1..Len(out') /\ Len(out) + 1 < Len(out') + 1
    BY <1>1, <1>2
  <2>4. ASSUME NEW k \in 1..Len(out), OpenBefore(Len(out) + 1, k)'
        PROVE  OpenBefore(Len(out) + 1, k) /\ (e.type = "close" => e.ref # out[k].seq)
    BY <1>2, <2>2, <2>3, <2>4 DEF OpenBefore, Positions
  <2>5. ASSUME NEW k \in 1..Len(out), OpenBefore(Len(out) + 1, k),
               e.type = "close" => e.ref # out[k].seq
        PROVE  OpenBefore(Len(out) + 1, k)'
    BY <1>2, <2>1, <2>2, <2>5 DEF OpenBefore, Positions
  <2>. QED
    BY <2>4, <2>5
<1>8. \A k \in {Len(out) + 1} : OpenBefore(Len(out) + 1, k)' <=> e.type = "open"
  <2>1. \A m \in 1..Len(out) : out[m].type = "close" => out[m].ref + 1 < m
    BY DEF IInv, ClosesArePast, Positions
  <2>2. \A m \in 1..Len(out) : out[m].type = "close" => out[m].ref \in Nat
    BY DEF IInv, ClosesArePast, Positions
  <2>3. \A m \in 1..Len(out) : out[m].type = "close" => out[m].ref # e.seq
    BY <1>1, <2>1, <2>2
  <2>. QED
    BY <1>1, <1>2, <2>3 DEF OpenBefore, Positions
<1>. QED
  BY <1>2, <1>3, <1>4, <1>5, <1>6, <1>7, <1>8

\* Stamping a leaf leaves the frames alone.
LEMMA LeafIInv ==
  ASSUME IInv, runActive, NEW kind \in Kinds, StampLeaf(kind)
  PROVE  IInv' /\ Extends
<1>. DEFINE e == Stamped("leaf", seq, Top, NoRef, kind, FALSE)
<1>1. out' = Append(out, e) /\ seq' = seq + 1
  BY DEF StampLeaf
<1>2. /\ refStack' = refStack /\ callMap' = callMap /\ runActive' = runActive
      /\ ending' = ending
  BY DEF StampLeaf
<1>3. e \in Events /\ e.type = "leaf" /\ e.seq = seq /\ ~e.synth
  BY DEF Stamped, Events, IInv, TypeOK, Top
<1>. HIDE DEF e
<1>4. /\ Extends /\ Len(out') = Len(out) + 1
      /\ SeqDense' /\ ClosesArePast' /\ Window'
      /\ \A k \in 1..Len(out) : OpenBefore(Len(out) + 1, k)' <=> OpenBefore(Len(out) + 1, k)
      /\ \A k \in {Len(out) + 1} : ~ OpenBefore(Len(out) + 1, k)'
  BY <1>1, <1>2, <1>3, AppendFacts
<1>5. TypeOK'
  BY <1>1, <1>2, <1>4 DEF IInv, TypeOK, Extends
<1>6. Mirrors'
  BY <1>2 DEF IInv, Mirrors
<1>7. FramesAreOpen'
  <2>1. ASSUME NEW i \in 1..Len(callMap)
        PROVE  /\ callMap[i].openSeq + 1 \in 1..Len(out)
               /\ OpenBefore(Len(out) + 1, callMap[i].openSeq + 1)
               /\ out[callMap[i].openSeq + 1].call = callMap[i].call
               /\ out[callMap[i].openSeq + 1].kind = callMap[i].kind
    BY DEF IInv, FramesAreOpen, Positions
  <2>2. ASSUME NEW k \in 1..Len(out'), OpenBefore(Len(out) + 1, k)'
        PROVE  \E i \in 1..Len(callMap) : callMap[i].openSeq = k - 1
    <3>1. k \in 1..Len(out)
      BY <1>4, <2>2 DEF IInv, TypeOK
    <3>2. OpenBefore(Len(out) + 1, k)
      BY <1>4, <2>2, <3>1
    <3>. QED
      BY <3>1, <3>2 DEF IInv, FramesAreOpen, Positions
  <2>3. ASSUME NEW i \in 1..Len(callMap)
        PROVE  OpenBefore(Len(out) + 1, callMap[i].openSeq + 1)'
    <3>1. PICK k \in 1..Len(out) : k = callMap[i].openSeq + 1
      BY <2>1
    <3>. QED
      BY <1>2, <1>4, <2>1, <3>1
  <2>. QED
    BY <1>2, <1>4, <2>1, <2>2, <2>3 DEF FramesAreOpen, Positions, Extends
<1>. QED
  BY <1>4, <1>5, <1>6, <1>7 DEF IInv

\* Stamping an open adds one frame, on top of both structures.
LEMMA OpenIInv ==
  ASSUME IInv, runActive, NEW call \in Calls \ Minted, NEW kind \in Kinds,
         StampOpen(call, kind)
  PROVE  IInv' /\ Extends
<1>. DEFINE e == Stamped("open", seq, Top, call, kind, FALSE)
            f == [call |-> call, openSeq |-> seq, kind |-> kind]
            n == Len(callMap)
<1>1. out' = Append(out, e) /\ seq' = seq + 1
  BY DEF StampOpen
<1>2. /\ refStack' = Append(refStack, seq) /\ callMap' = Append(callMap, f)
      /\ runActive' = runActive /\ ending' = ending
  BY DEF StampOpen
<1>3. e \in Events /\ e.type = "open" /\ e.seq = seq /\ ~e.synth
  BY DEF Stamped, Events, IInv, TypeOK, Top
<1>4. e.call = call /\ e.kind = kind /\ seq \in Nat /\ seq = Len(out)
  BY DEF Stamped, IInv, TypeOK, SeqDense
<1>5. f \in Entries /\ f.openSeq = seq /\ f.call = call /\ f.kind = kind
  BY <1>4 DEF Entries
<1>. HIDE DEF e, f
<1>6. /\ Extends /\ Len(out') = Len(out) + 1 /\ out'[Len(out) + 1] = e
      /\ SeqDense' /\ ClosesArePast' /\ Window'
      /\ \A k \in 1..Len(out) : OpenBefore(Len(out) + 1, k)' <=> OpenBefore(Len(out) + 1, k)
      /\ \A k \in {Len(out) + 1} : OpenBefore(Len(out) + 1, k)'
  BY <1>1, <1>2, <1>3, AppendFacts
<1>7. callMap \in Seq(Entries) /\ refStack \in Seq(Nat) /\ Len(refStack) = n /\ n \in Nat
  BY DEF IInv, TypeOK, Mirrors
<1>8. /\ Len(callMap') = n + 1 /\ callMap'[n + 1] = f
      /\ \A i \in 1..n : callMap'[i] = callMap[i]
  BY <1>2, <1>7
<1>9. /\ Len(refStack') = n + 1 /\ refStack'[n + 1] = seq
      /\ \A i \in 1..n : refStack'[i] = refStack[i]
  BY <1>2, <1>7
<1>10. TypeOK'
  <2>1. callMap' \in Seq(Entries) /\ refStack' \in Seq(Nat)
    BY <1>2, <1>4, <1>5, <1>7
  <2>. QED
    BY <1>1, <1>2, <1>4, <1>6, <2>1 DEF IInv, TypeOK, Extends
<1>11. ASSUME NEW i \in 1..n
       PROVE  /\ callMap[i].openSeq + 1 \in 1..Len(out)
              /\ OpenBefore(Len(out) + 1, callMap[i].openSeq + 1)
              /\ out[callMap[i].openSeq + 1].call = callMap[i].call
              /\ out[callMap[i].openSeq + 1].kind = callMap[i].kind
  BY DEF IInv, FramesAreOpen, Positions
<1>12. ASSUME NEW i \in 1..n
       PROVE  /\ callMap[i].openSeq \in Nat /\ callMap[i].openSeq < seq
              /\ callMap[i].call # call
  <2>0. callMap[i] \in Entries
    BY <1>7
  <2>1. callMap[i].openSeq \in Nat
    BY <2>0 DEF Entries
  <2>2. PICK k \in 1..Len(out) : k = callMap[i].openSeq + 1
    BY <1>11
  <2>3. out[k].type = "open" /\ out[k].call = callMap[i].call
    BY <1>11, <2>2 DEF OpenBefore
  <2>4. callMap[i].call \in Minted
    BY <2>3 DEF Minted
  <2>. QED
    BY <1>4, <2>1, <2>2, <2>4
<1>13. Mirrors'
  <2>1. \A i \in 1..n : refStack[i] = callMap[i].openSeq
    BY DEF IInv, Mirrors
  <2>2. \A i, j \in 1..n : i < j => refStack[i] < refStack[j]
    BY <1>7 DEF IInv, Mirrors
  <2>3. \A i, j \in 1..n : callMap[i].call = callMap[j].call => i = j
    BY DEF IInv, Mirrors
  <2>4. \A i \in 1..(n + 1) : i \in 1..n \/ i = n + 1
    BY <1>7
  <2>5. \A i \in 1..(n + 1) : refStack'[i] = callMap'[i].openSeq
    BY <1>5, <1>8, <1>9, <2>1, <2>4
  <2>6. \A i, j \in 1..(n + 1) : i < j => refStack'[i] < refStack'[j]
    <3>. SUFFICES ASSUME NEW i \in 1..(n + 1), NEW j \in 1..(n + 1), i < j
                  PROVE  refStack'[i] < refStack'[j]
      OBVIOUS
    <3>1. i \in 1..n
      BY <1>7
    <3>2. CASE j \in 1..n
      BY <1>9, <2>2, <3>1, <3>2
    <3>3. CASE j = n + 1
      <4>1. refStack'[i] = callMap[i].openSeq /\ refStack'[j] = seq
        BY <1>9, <2>1, <3>1, <3>3
      <4>. QED
        BY <1>12, <3>1, <4>1
    <3>. QED
      BY <2>4, <3>2, <3>3
  <2>7. \A i, j \in 1..(n + 1) : callMap'[i].call = callMap'[j].call => i = j
    BY <1>5, <1>8, <1>12, <2>3, <2>4
  <2>. QED
    BY <1>8, <1>9, <2>5, <2>6, <2>7 DEF Mirrors
<1>14. FramesAreOpen'
  <2>1. ASSUME NEW i \in 1..(n + 1)
        PROVE  /\ callMap'[i].openSeq + 1 \in 1..Len(out')
               /\ OpenBefore(Len(out) + 1, callMap[i].openSeq + 1)'
               /\ out'[callMap'[i].openSeq + 1].call = callMap'[i].call
               /\ out'[callMap'[i].openSeq + 1].kind = callMap'[i].kind
    <3>1. CASE i = n + 1
      <4>1. PICK k \in {Len(out) + 1} : k = callMap'[i].openSeq + 1
        BY <1>4, <1>5, <1>8, <3>1
      <4>. QED
        BY <1>3, <1>4, <1>5, <1>6, <1>8, <3>1, <4>1
    <3>2. CASE i \in 1..n
      <4>1. PICK k \in 1..Len(out) : k = callMap[i].openSeq + 1
        BY <1>11, <3>2
      <4>2. k = callMap'[i].openSeq + 1
        BY <1>8, <3>2, <4>1
      <4>3. OpenBefore(Len(out) + 1, k)
        BY <1>11, <3>2, <4>1
      <4>4. OpenBefore(Len(out) + 1, k)'
        BY <1>6, <4>3
      <4>5. k \in 1..Len(out') /\ out'[k] = out[k] /\ callMap'[i] = callMap[i]
        BY <1>6, <1>8, <3>2 DEF Extends
      <4>6. out[k].call = callMap[i].call /\ out[k].kind = callMap[i].kind
        BY <1>11, <3>2, <4>1
      <4>. QED
        BY <4>2, <4>4, <4>5, <4>6
    <3>. QED
      BY <1>7, <3>1, <3>2
  <2>2. ASSUME NEW k \in 1..Len(out'), OpenBefore(Len(out) + 1, k)'
        PROVE  \E i \in 1..(n + 1) : callMap'[i].openSeq = k - 1
    <3>1. CASE k = Len(out) + 1
      BY <1>4, <1>5, <1>7, <1>8, <3>1
    <3>2. CASE k \in 1..Len(out)
      <4>1. OpenBefore(Len(out) + 1, k)
        BY <1>6, <2>2, <3>2
      <4>2. PICK i \in 1..n : callMap[i].openSeq = k - 1
        BY <3>2, <4>1 DEF IInv, FramesAreOpen, Positions
      <4>. QED
        BY <1>7, <1>8, <4>2
    <3>. QED
      BY <1>6, <3>1, <3>2 DEF IInv, TypeOK
  <2>. QED
    BY <1>2, <1>6, <1>8, <2>1, <2>2 DEF FramesAreOpen, Positions
<1>. QED
  BY <1>6, <1>10, <1>13, <1>14 DEF IInv

\* A matching close finds its frame at the same place of both structures.
LEMMA CloseTarget ==
  ASSUME IInv, NEW call \in Calls, HasCall(call)
  PROVE  LET c == EntryIndex(call)
         IN /\ c \in 1..Len(callMap) /\ callMap[c].call = call
            /\ LastIndexOf(callMap[c].openSeq) = c
<1>. DEFINE c == EntryIndex(call)
            n == callMap[c].openSeq
<1>1. c \in 1..Len(callMap) /\ callMap[c].call = call
  BY DEF HasCall, EntryIndex
<1>. HIDE DEF c
<1>2. c \in 1..Len(refStack) /\ refStack[c] = n
  BY <1>1 DEF IInv, Mirrors
<1>3. refStack \in Seq(Nat)
  BY DEF IInv, TypeOK
<1>4. \A i \in 1..Len(refStack) : i # c => refStack[i] # refStack[c]
  <2>1. \A i, j \in 1..Len(refStack) : i < j => refStack[i] < refStack[j]
    BY DEF IInv, Mirrors
  <2>2. \A i \in 1..Len(refStack) : refStack[i] \in Nat
    BY <1>3
  <2>. QED
    BY <1>2, <2>1, <2>2
<1>5. \A j \in (c + 1)..Len(refStack) : refStack[j] # n
  BY <1>2, <1>3, <1>4
<1>6. LastIndexOf(n) = c
  BY <1>2, <1>4, <1>5 DEF LastIndexOf
<1>. QED
  BY <1>1, <1>6 DEF c

\* Stamping a close removes one frame, wherever it is, from both structures.
LEMMA CloseIInv ==
  ASSUME IInv, runActive, NEW call \in Calls, NEW kind \in Kinds,
         StampClose(call, kind)
  PROVE  IInv' /\ Extends
<1>. DEFINE c == EntryIndex(call)
            o == callMap[c].openSeq
            e == Stamped("close", seq, o, call, kind, FALSE)
            n == Len(callMap)
            w(j) == IF j < c THEN j ELSE j + 1
<1>0. HasCall(call)
  BY DEF StampClose
<1>1. c \in 1..n /\ callMap[c].call = call /\ LastIndexOf(o) = c
  BY <1>0, CloseTarget
<1>2. out' = Append(out, e) /\ seq' = seq + 1
  BY DEF StampClose
<1>3. /\ refStack' = Without(refStack, c) /\ callMap' = Without(callMap, c)
      /\ runActive' = runActive /\ ending' = ending
  BY <1>1 DEF StampClose
<1>. HIDE DEF c
<1>4. callMap \in Seq(Entries) /\ refStack \in Seq(Nat) /\ Len(refStack) = n /\ n \in Nat
  BY DEF IInv, TypeOK, Mirrors
<1>5. \A i \in 1..n : /\ callMap[i].openSeq \in Nat
                      /\ callMap[i].openSeq + 1 \in 1..Len(out)
                      /\ refStack[i] = callMap[i].openSeq
  <2>1. \A i \in 1..n : callMap[i] \in Entries
    BY <1>4
  <2>. QED
    BY <2>1 DEF IInv, Mirrors, FramesAreOpen, Entries, Positions
<1>6. e \in Events /\ e.type = "close" /\ e.seq = seq /\ ~e.synth /\ e.ref = o
  BY <1>1, <1>5 DEF Stamped, Events, IInv, TypeOK
<1>7. o \in Nat /\ o < Len(out)
  BY <1>1, <1>5 DEF IInv, TypeOK
<1>. HIDE DEF e
<1>8. /\ Extends /\ Len(out') = Len(out) + 1
      /\ SeqDense' /\ ClosesArePast' /\ Window'
      /\ \A k \in 1..Len(out) : OpenBefore(Len(out) + 1, k)' <=>
           OpenBefore(Len(out) + 1, k) /\ o # out[k].seq
      /\ \A k \in {Len(out) + 1} : ~ OpenBefore(Len(out) + 1, k)'
  BY <1>2, <1>3, <1>6, <1>7, AppendFacts
<1>9. /\ callMap' \in Seq(Entries) /\ Len(callMap') = n - 1
      /\ \A j \in 1..(n - 1) : callMap'[j] = callMap[w(j)]
  BY <1>1, <1>3, <1>4, WithoutProperties
<1>10. /\ refStack' \in Seq(Nat) /\ Len(refStack') = n - 1
       /\ \A j \in 1..(n - 1) : refStack'[j] = refStack[w(j)]
  <2>1. c \in 1..Len(refStack) /\ refStack \in Seq(Nat)
    BY <1>1, <1>4
  <2>2. /\ Without(refStack, c) \in Seq(Nat)
        /\ Len(Without(refStack, c)) = Len(refStack) - 1
        /\ \A j \in 1..(Len(refStack) - 1) :
             Without(refStack, c)[j] = IF j < c THEN refStack[j] ELSE refStack[j + 1]
    BY <2>1, WithoutProperties
  <2>. QED
    BY <1>3, <1>4, <2>2
<1>11. \A j \in 1..(n - 1) : w(j) \in 1..n /\ w(j) # c
  BY <1>1, <1>4
<1>12. \A i, j \in 1..(n - 1) : i < j => w(i) < w(j)
  BY <1>1, <1>4
<1>12a. \A i, j \in 1..(n - 1) : w(i) = w(j) => i = j
  BY <1>1, <1>4
<1>13. \A i \in 1..n : i # c => \E j \in 1..(n - 1) : w(j) = i
  <2>. SUFFICES ASSUME NEW i \in 1..n, i # c
                PROVE  \E j \in 1..(n - 1) : w(j) = i
    OBVIOUS
  <2>1. CASE i < c
    <3>1. i \in 1..(n - 1) /\ w(i) = i
      BY <1>1, <1>4, <2>1
    <3>. QED
      BY <3>1
  <2>2. CASE i > c
    <3>1. i - 1 \in 1..(n - 1) /\ w(i - 1) = i
      BY <1>1, <1>4, <2>2
    <3>. QED
      BY <3>1
  <2>. QED
    BY <1>1, <1>4, <2>1, <2>2
<1>. HIDE DEF w
<1>14. TypeOK'
  BY <1>2, <1>3, <1>8, <1>9, <1>10 DEF IInv, TypeOK, Extends
<1>15. Mirrors'
  <2>1. \A i, j \in 1..n : i < j => refStack[i] < refStack[j]
    BY <1>4 DEF IInv, Mirrors
  <2>2. \A i, j \in 1..n : callMap[i].call = callMap[j].call => i = j
    BY DEF IInv, Mirrors
  <2>3. \A i \in 1..(n - 1) : refStack'[i] = callMap'[i].openSeq
    BY <1>5, <1>9, <1>10, <1>11
  <2>4. \A i, j \in 1..(n - 1) : i < j => refStack'[i] < refStack'[j]
    BY <1>10, <1>11, <1>12, <2>1
  <2>5. \A i, j \in 1..(n - 1) : callMap'[i].call = callMap'[j].call => i = j
    BY <1>9, <1>11, <1>12a, <2>2
  <2>. QED
    BY <1>9, <1>10, <2>3, <2>4, <2>5 DEF Mirrors
<1>16. \A i \in 1..n : i # c => callMap[i].openSeq # o
  <2>1. \A i, j \in 1..n : i < j => refStack[i] < refStack[j]
    BY <1>4 DEF IInv, Mirrors
  <2>2. \A i, j \in 1..n : i < j => callMap[i].openSeq < callMap[j].openSeq
    BY <1>5, <2>1
  <2>. QED
    BY <1>1, <1>4, <1>5, <2>2
<1>17. FramesAreOpen'
  <2>1. ASSUME NEW j \in 1..(n - 1)
        PROVE  /\ callMap'[j].openSeq + 1 \in 1..Len(out')
               /\ OpenBefore(Len(out) + 1, callMap[j].openSeq + 1)'
               /\ out'[callMap'[j].openSeq + 1].call = callMap'[j].call
               /\ out'[callMap'[j].openSeq + 1].kind = callMap'[j].kind
    <3>1. PICK i \in 1..n : i = w(j) /\ i # c /\ callMap'[j] = callMap[i]
      BY <1>9, <1>11
    <3>2. PICK k \in 1..Len(out) : k = callMap[i].openSeq + 1
      BY <1>5
    <3>3. /\ OpenBefore(Len(out) + 1, k) /\ out[k].call = callMap[i].call
          /\ out[k].kind = callMap[i].kind
      BY <3>2 DEF IInv, FramesAreOpen
    <3>4. o # out[k].seq
      BY <1>5, <1>7, <1>16, <3>1, <3>2 DEF IInv, SeqDense, Positions
    <3>5. k = callMap'[j].openSeq + 1
      BY <3>1, <3>2
    <3>. QED
      BY <1>8, <3>1, <3>2, <3>3, <3>4, <3>5 DEF Extends
  <2>2. ASSUME NEW k \in 1..Len(out'), OpenBefore(Len(out) + 1, k)'
        PROVE  \E j \in 1..(n - 1) : callMap'[j].openSeq = k - 1
    <3>1. k \in 1..Len(out)
      BY <1>8, <2>2 DEF IInv, TypeOK
    <3>2. OpenBefore(Len(out) + 1, k) /\ o # out[k].seq
      BY <1>8, <2>2, <3>1
    <3>3. PICK i \in 1..n : callMap[i].openSeq = k - 1
      BY <3>1, <3>2 DEF IInv, FramesAreOpen, Positions
    <3>4. out[k].seq = k - 1
      BY <3>1 DEF IInv, SeqDense, Positions
    <3>5. i # c
      BY <3>2, <3>3, <3>4
    <3>6. PICK j \in 1..(n - 1) : w(j) = i
      BY <1>13, <3>5
    <3>. QED
      BY <1>9, <3>3, <3>6
  <2>. QED
    BY <1>3, <1>8, <1>9, <2>1, <2>2 DEF FramesAreOpen, Positions
<1>. QED
  BY <1>8, <1>14, <1>15, <1>17 DEF IInv

\* The fields of a stamped event give it its type.
LEMMA StampedType ==
  ASSUME NEW type \in {"leaf", "open", "close"}, NEW n \in Nat,
         NEW ref \in Nat \cup {NoRef}, NEW call \in Calls \cup {NoRef},
         NEW kind \in Kinds
  PROVE  Stamped(type, n, ref, call, kind, TRUE) \in Events
BY DEF Stamped, Events

\* Concatenation keeps the type and the elements.
LEMMA ConcatFacts ==
  ASSUME NEW X, NEW s \in Seq(X), NEW t \in Seq(X)
  PROVE  /\ s \o t \in Seq(X) /\ Len(s \o t) = Len(s) + Len(t)
         /\ \A i \in 1..Len(s) : (s \o t)[i] = s[i]
         /\ \A k \in 1..Len(t) : (s \o t)[Len(s) + k] = t[k]
OBVIOUS

\* The closes finish() synthesises, and the log they leave behind.
LEMMA SynthFacts ==
  ASSUME IInv, runActive, Finish("death")
  PROVE  LET n == Len(callMap)
             L == Len(out)
         IN /\ Extends /\ Len(out') = L + n
            /\ \A k \in 1..n :
                 /\ out'[L + k] \in Events
                 /\ out'[L + k].type = "close" /\ out'[L + k].synth
                 /\ out'[L + k].seq = L + k - 1
                 /\ out'[L + k].ref = callMap[n + 1 - k].openSeq
                 /\ out'[L + k].call = callMap[n + 1 - k].call
                 /\ out'[L + k].kind = synthCloseKind(callMap[n + 1 - k].kind)
<1>. DEFINE n == Len(callMap)
            L == Len(out)
            S == SynthCloses
<1>1. callMap \in Seq(Entries) /\ n \in Nat /\ out \in Seq(Events) /\ seq = L /\ L \in Nat
  BY DEF IInv, TypeOK, SeqDense
<1>2. \A k \in 1..n : callMap[n + 1 - k] \in Entries
  BY <1>1
<1>3. \A k \in 1..n : S[k] = Stamped("close", L + k - 1, callMap[n + 1 - k].openSeq,
                                   callMap[n + 1 - k].call,
                                   synthCloseKind(callMap[n + 1 - k].kind), TRUE)
  BY <1>1 DEF SynthCloses
<1>4. \A k \in 1..n : S[k] \in Events
  <2>. SUFFICES ASSUME NEW k \in 1..n PROVE S[k] \in Events
    OBVIOUS
  <2>1. L + k - 1 \in Nat
    BY <1>1
  <2>2. /\ callMap[n + 1 - k].openSeq \in Nat /\ callMap[n + 1 - k].call \in Calls
        /\ callMap[n + 1 - k].kind \in Kinds
    BY <1>2 DEF Entries
  <2>3. synthCloseKind(callMap[n + 1 - k].kind) \in Kinds
    BY <2>2 DEF synthCloseKind, Kinds, Suffixes
  <2>. QED
    BY <1>3, <2>1, <2>2, <2>3, StampedType
<1>5. S \in [1..n -> Events]
  BY <1>4 DEF SynthCloses
<1>6. S \in Seq(Events) /\ Len(S) = n
  BY <1>1, <1>5
<1>7. out' = out \o S
  BY DEF Finish
<1>. HIDE DEF S
<1>8. /\ out' \in Seq(Events) /\ Len(out') = L + n
      /\ \A i \in 1..L : out'[i] = out[i]
      /\ \A k \in 1..n : out'[L + k] = S[k]
  <2>1. /\ out \o S \in Seq(Events) /\ Len(out \o S) = Len(out) + Len(S)
        /\ \A i \in 1..Len(out) : (out \o S)[i] = out[i]
        /\ \A k \in 1..Len(S) : (out \o S)[Len(out) + k] = S[k]
    <3>1. out \in Seq(Events) /\ S \in Seq(Events)
      BY <1>1, <1>6
    <3>2. \A s, t \in Seq(Events) :
            /\ s \o t \in Seq(Events) /\ Len(s \o t) = Len(s) + Len(t)
            /\ \A i \in 1..Len(s) : (s \o t)[i] = s[i]
            /\ \A k \in 1..Len(t) : (s \o t)[Len(s) + k] = t[k]
      BY ConcatFacts
    <3>. QED
      BY <3>1, <3>2, Zenon
  <2>. QED
    BY <1>6, <1>7, <2>1
<1>9. Extends
  BY <1>1, <1>8 DEF Extends
<1>10. \A k \in 1..n : /\ S[k].type = "close" /\ S[k].synth /\ S[k].seq = L + k - 1
                      /\ S[k].ref = callMap[n + 1 - k].openSeq
                      /\ S[k].call = callMap[n + 1 - k].call
                      /\ S[k].kind = synthCloseKind(callMap[n + 1 - k].kind)
  <2>. TAKE k \in 1..n
  <2>1. S[k] = Stamped("close", L + k - 1, callMap[n + 1 - k].openSeq,
                       callMap[n + 1 - k].call,
                       synthCloseKind(callMap[n + 1 - k].kind), TRUE)
    BY <1>3
  <2>. QED
    <3>1. S[k].synth
      BY <2>1 DEF Stamped
    <3>2. S[k].type = "close"
      BY <2>1 DEF Stamped
    <3>3. S[k].seq = L + k - 1
      BY <2>1 DEF Stamped
    <3>4. S[k].ref = callMap[n + 1 - k].openSeq
      BY <2>1 DEF Stamped
    <3>5. S[k].call = callMap[n + 1 - k].call
      BY <2>1 DEF Stamped
    <3>6. S[k].kind = synthCloseKind(callMap[n + 1 - k].kind)
      BY <2>1 DEF Stamped
    <3>. QED
      BY <3>1, <3>2, <3>3, <3>4, <3>5, <3>6
<1>. QED
  BY <1>4, <1>8, <1>9, <1>10

\* Closing the window, cleanly or on worker death, keeps the log well formed.
LEMMA FinishIInv ==
  ASSUME IInv, runActive, NEW r \in {"clean", "death"}, Finish(r)
  PROVE  IInv' /\ Extends
<1>1. /\ seq' = 0 /\ refStack' = <<>> /\ callMap' = <<>> /\ runActive' = FALSE
      /\ ending' = r
  BY DEF Finish
<1>2. out \in Seq(Events) /\ callMap \in Seq(Entries)
  BY DEF IInv, TypeOK
<1>3. Mirrors' /\ FramesAreOpen' /\ Window'
  BY <1>1 DEF Mirrors, FramesAreOpen, Window
<1>4. Extends /\ SeqDense' /\ ClosesArePast'
  <2>1. CASE r = "clean"
    <3>1. out' = out
      BY <2>1 DEF Finish
    <3>. QED
      BY <1>1, <1>2, <3>1 DEF Extends, IInv, SeqDense, ClosesArePast, Positions
  <2>2. CASE r = "death"
    <3>. DEFINE n == Len(callMap)
                L == Len(out)
    <3>1. /\ Extends /\ Len(out') = L + n
          /\ \A k \in 1..n : /\ out'[L + k].seq = L + k - 1
                             /\ out'[L + k].ref = callMap[n + 1 - k].openSeq
      BY <2>2, SynthFacts
    <3>2. n \in Nat /\ L \in Nat
      BY <1>2
    <3>3. \A i \in 1..n : callMap[i].openSeq \in Nat /\ callMap[i].openSeq + 1 \in 1..L
      <4>1. \A i \in 1..n : callMap[i] \in Entries
        BY <1>2
      <4>. QED
        BY <4>1 DEF Entries, IInv, FramesAreOpen, Positions
    <3>4. \A k \in 1..n : out'[L + k].ref \in Nat /\ out'[L + k].ref + 1 < L + k
      <4>. SUFFICES ASSUME NEW k \in 1..n
                    PROVE  out'[L + k].ref \in Nat /\ out'[L + k].ref + 1 < L + k
        OBVIOUS
      <4>. HIDE DEF n, L
      <4>1. n + 1 - k \in 1..n
        BY <3>2
      <4>2. PICK q \in 1..n : q = n + 1 - k
        BY <4>1
      <4>3. out'[L + k].ref = callMap[q].openSeq
        BY <3>1, <4>2
      <4>4. callMap[q].openSeq \in Nat /\ callMap[q].openSeq + 1 \in 1..L
        BY <3>3
      <4>. QED
        BY <3>2, <4>3, <4>4
    <3>5. \A i \in 1..(L + n) : i \in 1..L \/ \E k \in 1..n : i = L + k
      <4>. SUFFICES ASSUME NEW i \in 1..(L + n), i \notin 1..L
                    PROVE  \E k \in 1..n : i = L + k
        OBVIOUS
      <4>1. i - L \in 1..n /\ i = L + (i - L)
        BY <3>2
      <4>. QED
        BY <4>1
    <3>6. \A i \in 1..L : /\ out'[i].seq = i - 1
                          /\ out'[i].type = "close" => out'[i].ref \in Nat /\ out'[i].ref + 1 < i
      BY <3>1 DEF IInv, SeqDense, ClosesArePast, Positions, Extends
    <3>7. SeqDense'
      <4>1. \A i \in 1..(L + n) : out'[i].seq = i - 1
        <5>. HIDE DEF n, L
        <5>. SUFFICES ASSUME NEW i \in 1..(L + n)
                      PROVE  out'[i].seq = i - 1
          OBVIOUS
        <5>1. CASE i \in 1..L
          BY <3>6, <5>1
        <5>2. CASE \E k \in 1..n : i = L + k
          <6>1. PICK k \in 1..n : i = L + k
            BY <5>2
          <6>2. out'[L + k].seq = L + k - 1
            BY <3>1
          <6>. QED
            BY <3>2, <6>1, <6>2
        <5>. QED
          BY <3>5, <5>1, <5>2
      <4>2. ~runActive'
        BY <1>1
      <4>. QED
        BY <3>1, <4>1, <4>2 DEF SeqDense, Positions
    <3>8. ClosesArePast'
      BY <3>1, <3>4, <3>5, <3>6 DEF ClosesArePast, Positions
    <3>. QED
      BY <3>1, <3>7, <3>8
  <2>. QED
    BY <2>1, <2>2
<1>5. TypeOK'
  <2>1. <<>> \in Seq(Nat) /\ <<>> \in Seq(Entries)
    OBVIOUS
  <2>2. runActive' \in BOOLEAN
    BY <1>1, Zenon
  <2>3. out' \in Seq(Events) /\ seq' \in Nat /\ ending' \in {"none", "clean", "death"}
    BY <1>1, <1>4 DEF Extends
  <2>. QED
    BY <1>1, <2>1, <2>2, <2>3, Zenon DEF TypeOK
<1>. QED
  BY <1>3, <1>4, <1>5 DEF IInv

-----------------------------------------------------------------------------
(* The properties of the log, one stamp at a time.                         *)

\* A new leaf or open that takes the top of refStack as its ref refers to the
\* innermost open frame.
LEMMA StampRefs ==
  ASSUME IInv, runActive, RefIsInnermost, Extends, Len(out') = Len(out) + 1,
         out'[Len(out) + 1].type # "close" => out'[Len(out) + 1].ref = Top
  PROVE  RefIsInnermost'
<1>. SUFFICES ASSUME NEW i \in 1..Len(out'), out'[i].type # "close"
              PROVE  \/ StillOpen(i)' = {} /\ out'[i].ref = NoRef
                     \/ out'[i].ref \in StillOpen(i)' /\ \A n \in StillOpen(i)' : n <= out'[i].ref
  BY DEF RefIsInnermost, Positions
<1>1. out \in Seq(Events) /\ refStack \in Seq(Nat)
  BY DEF IInv, TypeOK
<1>2. i \in 1..(Len(out) + 1)
  OBVIOUS
<1>3. StillOpen(i)' = StillOpen(i)
  BY <1>1, <1>2, StillOpenStable
<1>4. CASE i \in 1..Len(out)
  BY <1>3, <1>4 DEF Extends, RefIsInnermost, Positions
<1>5. CASE i = Len(out) + 1
  <2>1. StillOpen(i) = {refStack[j] : j \in 1..Len(refStack)}
    BY <1>5, StillOpenIsRefStack
  <2>2. out'[i].ref = Top
    BY <1>5
  <2>3. CASE refStack = <<>>
    BY <1>3, <2>1, <2>2, <2>3 DEF Top
  <2>4. CASE refStack # <<>>
    <3>1. Len(refStack) \in 1..Len(refStack) /\ Top = refStack[Len(refStack)]
      BY <1>1, <2>4 DEF Top
    <3>2. \A j \in 1..Len(refStack) : refStack[j] <= Top
      <4>1. \A j \in 1..Len(refStack) : j < Len(refStack) \/ j = Len(refStack)
        BY <1>1
      <4>2. \A j \in 1..Len(refStack) : refStack[j] \in Nat
        BY <1>1
      <4>3. \A k, j \in 1..Len(refStack) : k < j => refStack[k] < refStack[j]
        BY DEF IInv, Mirrors
      <4>. QED
        BY <3>1, <4>1, <4>2, <4>3
    <3>. QED
      BY <1>3, <2>1, <2>2, <3>1, <3>2
  <2>. QED
    BY <2>3, <2>4
<1>. QED
  BY <1>1, <1>2, <1>4, <1>5

\* A new close that refers to an open frame with its own call pairs with it.
LEMMA StampPairs ==
  ASSUME IInv, runActive, ClosePairsItsOpen, Extends, Len(out') = Len(out) + 1,
         out'[Len(out) + 1].type = "close" =>
           \E c \in 1..Len(callMap) :
             /\ out'[Len(out) + 1].ref = callMap[c].openSeq
             /\ out'[Len(out) + 1].call = callMap[c].call
  PROVE  ClosePairsItsOpen'
<1>. SUFFICES ASSUME NEW i \in 1..Len(out'), out'[i].type = "close"
              PROVE  /\ out'[i].ref \in StillOpen(i)'
                     /\ out'[out'[i].ref + 1].call = out'[i].call
  BY DEF ClosePairsItsOpen, Positions
<1>1. out \in Seq(Events)
  BY DEF IInv, TypeOK
<1>2. i \in 1..(Len(out) + 1)
  OBVIOUS
<1>3. StillOpen(i)' = StillOpen(i)
  BY <1>1, <1>2, StillOpenStable
<1>4. CASE i \in 1..Len(out)
  <2>1. out'[i] = out[i]
    BY <1>4 DEF Extends
  <2>2. out[i].ref \in StillOpen(i) /\ out[out[i].ref + 1].call = out[i].call
    BY <1>4, <2>1 DEF ClosePairsItsOpen, Positions
  <2>3. out[i].ref \in Nat /\ out[i].ref + 1 < i
    BY <1>4, <2>1 DEF IInv, ClosesArePast, Positions
  <2>4. out[i].ref + 1 \in 1..Len(out)
    BY <1>1, <1>4, <2>3
  <2>. QED
    BY <1>3, <2>1, <2>2, <2>4 DEF Extends
<1>5. CASE i = Len(out) + 1
  <2>1. PICK c \in 1..Len(callMap) :
          out'[i].ref = callMap[c].openSeq /\ out'[i].call = callMap[c].call
    BY <1>5
  <2>2. StillOpen(i) = {refStack[j] : j \in 1..Len(refStack)}
    BY <1>5, StillOpenIsRefStack
  <2>3. c \in 1..Len(refStack) /\ refStack[c] = callMap[c].openSeq
    BY DEF IInv, Mirrors
  <2>4. /\ callMap[c].openSeq + 1 \in 1..Len(out)
        /\ out[callMap[c].openSeq + 1].call = callMap[c].call
    BY DEF IInv, FramesAreOpen, Positions
  <2>. QED
    BY <1>3, <2>1, <2>2, <2>3, <2>4 DEF Extends
<1>. QED
  BY <1>1, <1>2, <1>4, <1>5

\* The properties of a log hold of its old positions in any extension.
LEMMA OldPositions ==
  ASSUME IInv, RefIsInnermost, ClosePairsItsOpen, Extends, NEW i \in 1..Len(out)
  PROVE  /\ out'[i].type # "close" =>
              \/ StillOpen(i)' = {} /\ out'[i].ref = NoRef
              \/ out'[i].ref \in StillOpen(i)' /\ \A n \in StillOpen(i)' : n <= out'[i].ref
         /\ out'[i].type = "close" =>
              /\ out'[i].ref \in StillOpen(i)'
              /\ out'[out'[i].ref + 1].call = out'[i].call
<1>1. out \in Seq(Events) /\ i \in 1..(Len(out) + 1)
  BY DEF IInv, TypeOK
<1>2. StillOpen(i)' = StillOpen(i)
  BY <1>1, StillOpenStable
<1>3. out'[i] = out[i]
  BY DEF Extends
<1>4. ASSUME out[i].type = "close"
      PROVE  out'[out[i].ref + 1] = out[out[i].ref + 1]
  <2>1. out[i].ref \in Nat /\ out[i].ref + 1 < i
    BY <1>4 DEF IInv, ClosesArePast, Positions
  <2>2. out[i].ref + 1 \in 1..Len(out)
    BY <1>1, <2>1
  <2>. QED
    BY <2>2 DEF Extends
<1>. QED
  BY <1>2, <1>3, <1>4 DEF RefIsInnermost, ClosePairsItsOpen, Positions

\* Closing the window keeps every ref right, and on worker death leaves no
\* frame open.
LEMMA FinishProperties ==
  ASSUME IInv, RefIsInnermost, ClosePairsItsOpen, runActive,
         NEW r \in {"clean", "death"}, Finish(r)
  PROVE  RefIsInnermost' /\ ClosePairsItsOpen' /\ DeathClosesEveryFrame'
<1>1. ending' = r /\ Extends
  BY FinishIInv DEF Finish
<1>2. out \in Seq(Events) /\ callMap \in Seq(Entries)
  BY DEF IInv, TypeOK
<1>3. CASE r = "clean"
  <2>1. Len(out') = Len(out)
    BY <1>3 DEF Finish
  <2>. QED
    BY <1>1, <1>3, <2>1, OldPositions
    DEF RefIsInnermost, ClosePairsItsOpen, DeathClosesEveryFrame, Positions
<1>4. CASE r = "death"
  <2>. DEFINE n == Len(callMap)
              L == Len(out)
  <2>1. /\ Len(out') = L + n
        /\ \A k \in 1..n :
             /\ out'[L + k].type = "close" /\ out'[L + k].synth
             /\ out'[L + k].ref = callMap[n + 1 - k].openSeq
             /\ out'[L + k].call = callMap[n + 1 - k].call
             /\ out'[L + k].kind = synthCloseKind(callMap[n + 1 - k].kind)
    BY <1>4, SynthFacts
  <2>2. n \in Nat /\ L \in Nat
    BY <1>2
  <2>3. \A i \in 1..(L + n) : i \in 1..L \/ \E k \in 1..n : i = L + k
    <3>. SUFFICES ASSUME NEW i \in 1..(L + n), i \notin 1..L
                  PROVE  \E k \in 1..n : i = L + k
      OBVIOUS
    <3>1. i - L \in 1..n /\ i = L + (i - L)
      BY <2>2
    <3>. QED
      BY <3>1
  <2>4. \A i \in 1..L : out'[i] = out[i]
    BY <1>1 DEF Extends
  <2>5. \A k \in 1..n : n + 1 - k \in 1..n
    BY <2>2
  <2>6. ASSUME NEW c \in 1..n
        PROVE  /\ callMap[c].openSeq \in Nat
               /\ callMap[c].openSeq + 1 \in 1..L
               /\ out'[callMap[c].openSeq + 1] = out[callMap[c].openSeq + 1]
               /\ out[callMap[c].openSeq + 1].type = "open"
               /\ out[callMap[c].openSeq + 1].seq = callMap[c].openSeq
               /\ out[callMap[c].openSeq + 1].call = callMap[c].call
               /\ out[callMap[c].openSeq + 1].kind = callMap[c].kind
               /\ \A m \in 1..L : out[m].type = "close" => out[m].ref # callMap[c].openSeq
    <3>1. callMap[c] \in Entries
      BY <1>2
    <3>2. callMap[c].openSeq \in Nat
      BY <3>1 DEF Entries
    <3>3. PICK k \in 1..L : k = callMap[c].openSeq + 1
      BY DEF IInv, FramesAreOpen, Positions
    <3>4. /\ OpenBefore(L + 1, k) /\ out[k].call = callMap[c].call
          /\ out[k].kind = callMap[c].kind
      BY <3>3 DEF IInv, FramesAreOpen
    <3>5. out[k].seq = callMap[c].openSeq
      BY <3>2, <3>3 DEF IInv, SeqDense, Positions
    <3>6. \A m \in 1..L : m < L + 1
      BY <2>2
    <3>. QED
      BY <2>4, <3>2, <3>3, <3>4, <3>5, <3>6 DEF OpenBefore, Positions
  <2>7. \A c, d \in 1..n : c < d => callMap[c].openSeq < callMap[d].openSeq
    BY DEF IInv, Mirrors
  <2>8. RefIsInnermost'
    <3>1. ASSUME NEW i \in 1..(L + n), out'[i].type # "close" PROVE i \in 1..L
      BY <2>1, <2>3, <3>1
    <3>. QED
      BY <1>1, <2>1, <3>1, OldPositions DEF RefIsInnermost, Positions
  <2>9. ASSUME NEW k \in 1..n, NEW q \in 1..(L + n), q = L + k
        PROVE  /\ out'[q].ref \in StillOpen(q)'
               /\ out'[out'[q].ref + 1].call = out'[q].call
    <3>. DEFINE c == n + 1 - k
                o == callMap[c].openSeq
    <3>1. c \in 1..n /\ out'[L + k].ref = o /\ out'[L + k].call = callMap[c].call
      BY <2>1, <2>5
    <3>2. /\ o \in Nat /\ o + 1 \in 1..L /\ out'[o + 1].type = "open"
          /\ out'[o + 1].seq = o /\ out'[o + 1].call = callMap[c].call
          /\ \A m \in 1..L : out'[m].type = "close" => out'[m].ref # o
      <4>. HIDE DEF c
      <4>. QED
        BY <2>4, <2>6, <3>1
    <3>3. ASSUME NEW j \in 1..n, j < k PROVE out'[L + j].ref # o
      <4>1. n + 1 - j \in 1..n /\ c < n + 1 - j
        BY <2>2, <2>5, <3>3
      <4>2. o < callMap[n + 1 - j].openSeq
        BY <2>7, <3>1, <4>1
      <4>3. callMap[n + 1 - j].openSeq \in Nat
        BY <2>6, <4>1
      <4>. QED
        BY <2>1, <3>2, <4>2, <4>3
    <3>4. ASSUME NEW m \in 1..(L + n), m < L + k, out'[m].type = "close"
          PROVE  out'[m].ref # o
      <4>1. CASE m \in 1..L
        BY <3>2, <3>4, <4>1
      <4>2. CASE \E j \in 1..n : m = L + j
        <5>1. PICK j \in 1..n : m = L + j
          BY <4>2
        <5>2. j < k
          BY <2>2, <3>4, <5>1
        <5>. QED
          BY <3>3, <5>1, <5>2
      <4>. QED
        BY <2>3, <4>1, <4>2
    <3>. HIDE DEF c, o
    <3>5. o + 1 \in 1..(L + n) /\ o + 1 < L + k
      BY <2>2, <3>2
    <3>6. PICK p \in 1..(L + n) : p = o + 1
      BY <3>5
    <3>7. p < q /\ \A m \in 1..(L + n) : m < q /\ out'[m].type = "close" => out'[m].ref # o
      BY <2>9, <3>4, <3>5, <3>6
    <3>8. OpenBefore(q, p)'
      BY <2>1, <3>2, <3>6, <3>7 DEF OpenBefore, Positions
    <3>9. o \in StillOpen(q)'
      <4>1. out'[p].seq = o
        BY <3>2, <3>6
      <4>2. p \in Positions'
        BY <2>1 DEF Positions
      <4>. QED
        BY <3>8, <4>1, <4>2 DEF StillOpen
    <3>. QED
      BY <2>9, <3>1, <3>2, <3>9
  <2>10. ClosePairsItsOpen'
    <3>1. ASSUME NEW i \in 1..(L + n), out'[i].type = "close"
          PROVE  /\ out'[i].ref \in StillOpen(i)'
                 /\ out'[out'[i].ref + 1].call = out'[i].call
      <4>1. CASE i \in 1..L
        BY <1>1, <3>1, <4>1, OldPositions
      <4>2. CASE \E k \in 1..n : i = L + k
        BY <2>9, <4>2
      <4>. QED
        BY <2>3, <4>1, <4>2
    <3>. QED
      BY <2>1, <3>1 DEF ClosePairsItsOpen, Positions
  <2>11. StillOpen(Len(out) + 1)' = {}
    <3>1. ASSUME NEW p \in 1..(L + n), OpenBefore(Len(out) + 1, p)' PROVE FALSE
      <4>1. /\ out'[p].type = "open"
            /\ \A m \in 1..(L + n) : out'[m].type = "close" => out'[m].ref # out'[p].seq
        <5>1. \A m \in 1..(L + n) : m < Len(out') + 1
          BY <2>1, <2>2
        <5>. QED
          BY <2>1, <3>1, <5>1 DEF OpenBefore, Positions
      <4>2. p \in 1..L
        BY <2>1, <2>3, <4>1
      <4>3. out[p].type = "open" /\ out[p].seq = p - 1 /\ p < L + 1
        BY <2>2, <2>4, <4>1, <4>2 DEF IInv, SeqDense, Positions
      <4>4. \A m \in 1..L : m \in 1..(L + n)
        BY <2>2
      <4>5. OpenBefore(L + 1, p)
        BY <2>4, <4>1, <4>2, <4>3, <4>4 DEF OpenBefore, Positions
      <4>6. PICK c \in 1..n : callMap[c].openSeq = p - 1
        BY <4>2, <4>5 DEF IInv, FramesAreOpen, Positions
      <4>7. PICK k \in 1..n : c = n + 1 - k
        <5>1. n + 1 - c \in 1..n /\ c = n + 1 - (n + 1 - c)
          BY <2>2
        <5>. QED
          BY <5>1
      <4>8. L + k \in 1..(L + n)
        BY <2>2
      <4>. QED
        BY <2>1, <2>4, <4>1, <4>2, <4>3, <4>6, <4>7, <4>8
    <3>. QED
      BY <2>1, <3>1 DEF StillOpen, Positions
  <2>12. ASSUME NEW i \in 1..(L + n), out'[i].synth
         PROVE  /\ out'[i].kind = <<out'[out'[i].ref + 1].kind[1], "error">>
                /\ \A j \in (i + 1)..(L + n) : out'[j].synth /\ out'[j].ref < out'[i].ref
    <3>1. i \notin 1..L
      BY <2>4, <2>12 DEF IInv, Window, Positions
    <3>2. PICK k \in 1..n : i = L + k
      BY <2>3, <3>1
    <3>3. out'[i].kind = <<out'[out'[i].ref + 1].kind[1], "error">>
      <4>1. PICK c \in 1..n : c = n + 1 - k
        BY <2>5
      <4>2. out'[i].kind = synthCloseKind(callMap[c].kind) /\ out'[i].ref = callMap[c].openSeq
        BY <2>1, <3>2, <4>1
      <4>3. out'[callMap[c].openSeq + 1].kind = callMap[c].kind
        BY <2>6
      <4>. QED
        BY <4>2, <4>3, Zenon DEF synthCloseKind
    <3>4. ASSUME NEW j \in (i + 1)..(L + n) PROVE out'[j].synth /\ out'[j].ref < out'[i].ref
      <4>1. PICK m \in 1..n : j = L + m /\ k < m
        <5>1. j - L \in 1..n /\ j = L + (j - L) /\ k < j - L
          BY <2>2, <3>2
        <5>. QED
          BY <5>1
      <4>2. n + 1 - m \in 1..n /\ n + 1 - k \in 1..n /\ n + 1 - m < n + 1 - k
        BY <2>2, <2>5, <4>1
      <4>3. callMap[n + 1 - m].openSeq < callMap[n + 1 - k].openSeq
        BY <2>7, <4>2
      <4>. QED
        BY <2>1, <3>2, <4>1, <4>3
    <3>. QED
      BY <3>3, <3>4
  <2>13. DeathClosesEveryFrame'
    BY <2>1, <2>11, <2>12 DEF DeathClosesEveryFrame, Positions
  <2>. QED
    BY <2>8, <2>10, <2>13
<1>. QED
  BY <1>3, <1>4

-----------------------------------------------------------------------------
(* The theorems.                                                           *)

Inv == IInv /\ RefIsInnermost /\ ClosePairsItsOpen /\ DeathClosesEveryFrame

\* Every method call preserves the whole invariant.
LEMMA NextInv == Inv /\ [Next]_vars => Inv'
<1>. SUFFICES ASSUME Inv, [Next]_vars PROVE Inv'
  OBVIOUS
<1>0. IInv /\ RefIsInnermost /\ ClosePairsItsOpen /\ DeathClosesEveryFrame
  BY DEF Inv
<1>1. ASSUME ~runActive, Start PROVE Inv'
  <2>1. IInv'
    BY <1>0, <1>1, StartIInv
  <2>2. out' = <<>> /\ ending' = "none"
    BY <1>1 DEF Start
  <2>3. RefIsInnermost'
    BY <2>2 DEF RefIsInnermost, Positions
  <2>4. ClosePairsItsOpen'
    BY <2>2 DEF ClosePairsItsOpen, Positions
  <2>5. DeathClosesEveryFrame'
    BY <2>2 DEF DeathClosesEveryFrame
  <2>. QED
    BY <2>1, <2>3, <2>4, <2>5 DEF Inv
<1>2. ASSUME runActive, NEW kind \in Kinds, StampLeaf(kind) PROVE Inv'
  <2>1. IInv' /\ Extends
    BY <1>0, <1>2, LeafIInv
  <2>2. out \in Seq(Events)
    BY <1>0 DEF IInv, TypeOK
  <2>3. out' = Append(out, Stamped("leaf", seq, Top, NoRef, kind, FALSE))
    BY <1>2 DEF StampLeaf
  <2>4. /\ Len(out') = Len(out) + 1 /\ out'[Len(out) + 1].type = "leaf"
        /\ out'[Len(out) + 1].ref = Top
    BY <2>2, <2>3 DEF Stamped
  <2>5. RefIsInnermost' /\ ClosePairsItsOpen'
    BY <1>0, <1>2, <2>1, <2>4, StampRefs, StampPairs
  <2>6. ending' = "none"
    BY <1>0, <1>2 DEF StampLeaf, IInv, Window
  <2>. QED
    BY <2>1, <2>5, <2>6 DEF Inv, DeathClosesEveryFrame
<1>3. ASSUME runActive, NEW call \in Calls \ Minted, NEW kind \in Kinds,
             StampOpen(call, kind)
      PROVE  Inv'
  <2>1. IInv' /\ Extends
    BY <1>0, <1>3, OpenIInv
  <2>2. out \in Seq(Events)
    BY <1>0 DEF IInv, TypeOK
  <2>3. out' = Append(out, Stamped("open", seq, Top, call, kind, FALSE))
    BY <1>3 DEF StampOpen
  <2>4. /\ Len(out') = Len(out) + 1 /\ out'[Len(out) + 1].type = "open"
        /\ out'[Len(out) + 1].ref = Top
    BY <2>2, <2>3 DEF Stamped
  <2>5. RefIsInnermost' /\ ClosePairsItsOpen'
    BY <1>0, <1>3, <2>1, <2>4, StampRefs, StampPairs
  <2>6. ending' = "none"
    BY <1>0, <1>3 DEF StampOpen, IInv, Window
  <2>. QED
    BY <2>1, <2>5, <2>6 DEF Inv, DeathClosesEveryFrame
<1>4. ASSUME runActive, NEW call \in Calls, NEW kind \in Kinds,
             StampClose(call, kind)
      PROVE  Inv'
  <2>. DEFINE c == EntryIndex(call)
  <2>1. IInv' /\ Extends
    BY <1>0, <1>4, CloseIInv
  <2>2. out \in Seq(Events)
    BY <1>0 DEF IInv, TypeOK
  <2>3. out' = Append(out, Stamped("close", seq, callMap[c].openSeq, call, kind, FALSE))
    BY <1>4 DEF StampClose
  <2>4. HasCall(call)
    BY <1>4 DEF StampClose
  <2>5. c \in 1..Len(callMap) /\ callMap[c].call = call
    BY <1>0, <2>4, CloseTarget
  <2>. HIDE DEF c
  <2>6. /\ Len(out') = Len(out) + 1 /\ out'[Len(out) + 1].type = "close"
        /\ out'[Len(out) + 1].ref = callMap[c].openSeq
        /\ out'[Len(out) + 1].call = call
    BY <2>2, <2>3 DEF Stamped
  <2>7. RefIsInnermost'
    BY <1>0, <1>4, <2>1, <2>6, StampRefs
  <2>8. ClosePairsItsOpen'
    BY <1>0, <1>4, <2>1, <2>5, <2>6, StampPairs
  <2>9. ending' = "none"
    BY <1>0, <1>4 DEF StampClose, IInv, Window
  <2>. QED
    BY <2>1, <2>7, <2>8, <2>9 DEF Inv, DeathClosesEveryFrame
<1>5. ASSUME runActive, NEW r \in {"clean", "death"}, Finish(r) PROVE Inv'
  BY <1>0, <1>5, FinishIInv, FinishProperties DEF Inv
<1>6. ASSUME UNCHANGED vars PROVE Inv'
  <2>0. TypeOK'
    BY <1>0, <1>6 DEF IInv, TypeOK, vars
  <2>1. SeqDense' /\ Mirrors' /\ ClosesArePast' /\ Window'
    BY <1>0, <1>6 DEF IInv, SeqDense, Mirrors, ClosesArePast, Window, Positions, vars
  <2>2. FramesAreOpen'
    BY <1>0, <1>6 DEF IInv, FramesAreOpen, OpenBefore, Positions, vars
  <2>3. Extends /\ Len(out') = Len(out) /\ out' = out /\ ending' = ending
    BY <1>0, <1>6 DEF IInv, TypeOK, Extends, vars
  <2>4. RefIsInnermost' /\ ClosePairsItsOpen'
    BY <1>0, <2>3, OldPositions DEF RefIsInnermost, ClosePairsItsOpen, Positions
  <2>5. DeathClosesEveryFrame'
    <3>1. out \in Seq(Events)
      BY <1>0 DEF IInv, TypeOK
    <3>2. PICK q \in 1..(Len(out) + 1) : q = Len(out) + 1
      BY <3>1
    <3>3. StillOpen(q)' = StillOpen(q)
      BY <2>3, <3>1, StillOpenStable
    <3>4. StillOpen(Len(out) + 1)' = StillOpen(Len(out) + 1)
      BY <2>3, <3>2, <3>3
    <3>. QED
      BY <1>0, <2>3, <3>4 DEF DeathClosesEveryFrame, Positions
  <2>. QED
    BY <2>0, <2>1, <2>2, <2>4, <2>5 DEF Inv, IInv
<1>7. \A p \in Prefixes : /\ <<p, "call">> \in Kinds /\ <<p, "request">> \in Kinds
                         /\ <<p, "response">> \in Kinds
  BY DEF Kinds, Suffixes
<1>. QED
  BY <1>1, <1>2, <1>3, <1>4, <1>5, <1>6, <1>7 DEF Next, Room

\* The whole invariant holds throughout any sequence of start(), next() and
\* finish() calls the sandbox makes.
THEOREM SequencerInvariant == Spec => []Inv
<1>1. Init => Inv
  BY InitIInv DEF Inv, Init, RefIsInnermost, ClosePairsItsOpen,
                  DeathClosesEveryFrame, Positions
<1>2. Inv /\ [Next]_vars => Inv'
  BY NextInv
<1>. QED
  BY <1>1, <1>2, PTL DEF Spec

\* The sequencer's state and the events it stamps keep their types.
THEOREM TypeCorrect == Spec => []TypeOK
<1>1. Inv => TypeOK
  BY DEF Inv, IInv
<1>. QED
  BY <1>1, SequencerInvariant, PTL

\* The events of a run are numbered 0, 1, 2, ..., synthesised closes included.
THEOREM SeqDenseAlways == Spec => []SeqDense
<1>1. Inv => SeqDense
  BY DEF Inv, IInv
<1>. QED
  BY <1>1, SequencerInvariant, PTL

\* A leaf or an open refers to the innermost frame open when it was stamped,
\* whatever order concurrent calls were closed in.
THEOREM RefIsInnermostAlways == Spec => []RefIsInnermost
<1>1. Inv => RefIsInnermost
  BY DEF Inv
<1>. QED
  BY <1>1, SequencerInvariant, PTL

\* Every close refers to the open with its call id, which no close preceded.
THEOREM ClosePairsAlways == Spec => []ClosePairsItsOpen
<1>1. Inv => ClosePairsItsOpen
  BY DEF Inv
<1>. QED
  BY <1>1, SequencerInvariant, PTL

\* After worker death no frame is left open, and the frames were closed
\* innermost first with the error kind of their own prefix.
THEOREM DeathClosesAlways == Spec => []DeathClosesEveryFrame
<1>1. Inv => DeathClosesEveryFrame
  BY DEF Inv
<1>. QED
  BY <1>1, SequencerInvariant, PTL
=============================================================================
