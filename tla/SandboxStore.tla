----------------------------- MODULE SandboxStore -----------------------------
(***************************************************************************)
(* The sandbox cache of packages/runtime/src/sandbox-store.ts under the    *)
(* executor's invoke() (executor/index.ts, run-queue.ts): get with an LRU  *)
(* soft cap, builds that fail, eviction when a worker dies, and the drain  *)
(* of dispose().                                                           *)
(*                                                                         *)
(* Module Sandbox details one sandbox; here a sandbox is being built, is   *)
(* up, or is over, and its executor runs one invocation at a time.  The    *)
(* cache is a JavaScript Map: a sequence of sandboxes, oldest first.       *)
(*                                                                         *)
(* A step ends where the event loop gets control back.  What follows in    *)
(* microtasks is part of it: the invocation that finds its sandbox idle    *)
(* starts to run with the step that frees or builds the sandbox, and one   *)
(* that finds it disposed is refused by the same step.                     *)
(***************************************************************************)
EXTENDS Naturals, Sequences, FiniteSets, SequencesExt

CONSTANTS Keys,       \* (owner, workflow sha) pairs
          NoKey,
          MaxInvs,    \* bound on the invocations
          MaxCount,   \* SANDBOX_MAX_COUNT
          MaxBuilds,  \* bound on the sandboxes built
          WorkerDies  \* whether a worker may die

ASSUME StoreAssumption ==
  /\ MaxCount \in Nat \ {0} /\ MaxBuilds \in Nat /\ MaxInvs \in Nat /\ WorkerDies \in BOOLEAN
  /\ NoKey \notin Keys

VARIABLES cache,    \* sandboxes in insertion order
          keyOf,    \* the key a sandbox was built for
          state,    \* of a sandbox; "disposing" is a pending disposal, "over"
                    \* one that is disposed, dead or could not be built
          busy,     \* executor of a sandbox: "no", "run" (isActive), "flush"
          runQueue, \* invocations of a sandbox, the one in turn first
          arrived,  \* the number of invocations so far
          store,    \* "open", or where dispose() is
          entries,  \* dispose(): the cache entries it found
          awaited,  \* dispose(): the pending disposals it waits for
          lastUse,  \* history: the last invocation that got a sandbox
          found,    \* history: the sandboxes there when dispose() cleared the cache
          timedOut, \* history: the drain hit its deadline
          cut,      \* history: a disposal cut a run in flight
          refused   \* history: an invocation found its sandbox over

disposeVars == <<store, entries, awaited, found, timedOut>>
executorVars == <<cache, keyOf, state, busy, runQueue, arrived, lastUse, cut, refused>>
vars == <<executorVars, disposeVars>>

Sandboxes == 1..MaxBuilds   \* in the order they are built
Invs == 1..MaxInvs          \* in the order they arrive

TypeOK ==
  /\ cache \in Seq(Sandboxes)
  /\ keyOf \in [Sandboxes -> Keys \cup {NoKey}]
  /\ state \in [Sandboxes -> {"unused", "building", "up", "disposing", "over"}]
  /\ busy \in [Sandboxes -> {"no", "run", "flush"}]
  /\ runQueue \in [Sandboxes -> Seq(Invs)]
  /\ arrived \in 0..MaxInvs
  /\ store \in {"open", "draining", "building", "settling", "disposed"}
  /\ entries \subseteq Sandboxes /\ awaited \subseteq Sandboxes /\ found \subseteq Sandboxes
  /\ lastUse \in [Sandboxes -> 0..MaxInvs]
  /\ {timedOut, cut, refused} \subseteq BOOLEAN

Init ==
  /\ cache = <<>>
  /\ keyOf = [s \in Sandboxes |-> NoKey]
  /\ state = [s \in Sandboxes |-> "unused"]
  /\ busy = [s \in Sandboxes |-> "no"]
  /\ runQueue = [s \in Sandboxes |-> <<>>]
  /\ arrived = 0
  /\ store = "open"
  /\ entries = {} /\ awaited = {} /\ found = {}
  /\ lastUse = [s \in Sandboxes |-> 0]
  /\ timedOut = FALSE /\ cut = FALSE /\ refused = FALSE

Without(s, x) == SelectSeq(s, LAMBDA y : y # x)

-----------------------------------------------------------------------------
(* disposeEntry(): sb.dispose() rejects the run in flight and terminates   *)
(* the worker.                                                             *)

Cuts(victims) == \E s \in victims : busy[s] = "run"

Idled(victims) ==
  [s \in Sandboxes |-> IF s \in victims /\ busy[s] = "run" THEN "flush" ELSE busy[s]]

Disposing(victims) ==
  [s \in Sandboxes |-> IF s \in victims THEN "disposing" ELSE state[s]]

\* worker.terminate() resolves
DisposalSettles(s) ==
  /\ state[s] = "disposing"
  /\ state' = [state EXCEPT ![s] = "over"]
  /\ UNCHANGED <<cache, keyOf, busy, runQueue, arrived, lastUse, cut, refused, disposeVars>>

-----------------------------------------------------------------------------
(* get()                                                                   *)

\* resolved, and isActive is false
Evictable(s) == state[s] = "up" /\ busy[s] # "run"

Excess(c) == IF Len(c) > MaxCount THEN Len(c) - MaxCount ELSE 0

\* sweep(): the oldest candidates, as many as the cache is over its cap
Victims(c) ==
  LET candidates == SelectSeq(c, Evictable)
  IN {candidates[k] : k \in {j \in 1..Len(candidates) : j <= Excess(c)}}

\* Mutant of Touch: re-inserts the key instead of the entry
TouchKey(s) == Append(Without(cache, s), keyOf[s])

\* Mutant of Touch: the entry keeps its place
TouchStays(s) == cache

\* a hit moves its entry to the end of the Map
Touch(s) == Append(Without(cache, s), s)

\* invoke() has its sandbox: it runs at once on one that is idle, and queues
\* behind the run in flight, or until the sandbox is built, otherwise
GetHits(i, s) ==
  /\ cache' = Touch(s)
  /\ runQueue' = [runQueue EXCEPT ![s] = Append(@, i)]
  /\ busy' = [busy EXCEPT ![s] = IF state[s] = "up" /\ @ = "no" THEN "run" ELSE @]
  /\ lastUse' = [lastUse EXCEPT ![s] = i]
  /\ UNCHANGED <<keyOf, state, cut>>

\* the new entry counts against the cap and sweep() runs after it is in
GetMisses(i, key, new) ==
  LET full == Append(cache, new)
      victims == Victims(full)
  IN /\ cache' = SelectSeq(full, LAMBDA s : s \notin victims)
     /\ keyOf' = [keyOf EXCEPT ![new] = key]
     /\ state' = [Disposing(victims) EXCEPT ![new] = "building"]
     /\ busy' = Idled(victims)
     /\ runQueue' = [runQueue EXCEPT ![new] = <<i>>]
     /\ cut' = (cut \/ Cuts(victims))
     /\ lastUse' = [lastUse EXCEPT ![new] = i]

Get(i, key) ==
  /\ i = arrived + 1
  /\ arrived' = i
  /\ \/ \E s \in ToSet(cache) : keyOf[s] = key /\ GetHits(i, s)
     \/ /\ \A s \in ToSet(cache) : keyOf[s] # key
        /\ \E s \in Sandboxes :
             /\ state[s] = "unused" /\ \A t \in 1..(s - 1) : state[t] # "unused"
             /\ GetMisses(i, key, s)
  /\ UNCHANGED <<refused, disposeVars>>

-----------------------------------------------------------------------------
(* The factory's promise settles, a worker dies.                           *)

\* It resolves.  An entry that dispose() found is disposed before the invocations
\* that waited for it get to sb.run(), which refuses them; else the first runs.
Built(s) ==
  /\ state[s] = "building"
  /\ IF s \in entries
     THEN /\ state' = Disposing({s})
          /\ refused' = TRUE
          /\ runQueue' = [runQueue EXCEPT ![s] = <<>>]
          /\ UNCHANGED busy
     ELSE /\ state' = [state EXCEPT ![s] = "up"]
          /\ busy' = [busy EXCEPT ![s] = "run"]
          /\ UNCHANGED <<refused, runQueue>>
  /\ UNCHANGED <<cache, keyOf, arrived, lastUse, cut, disposeVars>>

\* Mutant of BuildFails: the rejected promise stays in the cache
BuildFailsStaysCached(s) ==
  /\ state[s] = "building"
  /\ state' = [state EXCEPT ![s] = "over"]
  /\ runQueue' = [runQueue EXCEPT ![s] = <<>>]
  /\ UNCHANGED <<cache, keyOf, busy, arrived, lastUse, cut, refused, disposeVars>>

\* ... or rejects, and invoke() with it
BuildFails(s) ==
  /\ state[s] = "building"
  /\ state' = [state EXCEPT ![s] = "over"]
  /\ cache' = Without(cache, s)
  /\ runQueue' = [runQueue EXCEPT ![s] = <<>>]
  /\ UNCHANGED <<keyOf, busy, arrived, lastUse, cut, refused, disposeVars>>

\* onTerminated: the entry is evicted, a run in flight fails
Terminated(s) ==
  /\ state[s] = "up"
  /\ state' = [state EXCEPT ![s] = "over"]
  /\ cache' = Without(cache, s)
  /\ busy' = Idled({s})
  /\ UNCHANGED <<keyOf, runQueue, arrived, lastUse, cut, refused, disposeVars>>

-----------------------------------------------------------------------------
(* The run queue of a sandbox.                                             *)

\* sb.run() settles; invoke() goes on to await the event store
EndRun(s) ==
  /\ busy[s] = "run"
  /\ busy' = [busy EXCEPT ![s] = "flush"]
  /\ UNCHANGED <<cache, keyOf, state, runQueue, arrived, lastUse, cut, refused, disposeVars>>

\* Mutant of Flushed: the queue stops at a sandbox that is over
FlushedStalls(s) ==
  /\ busy[s] = "flush"
  /\ LET rest == Tail(runQueue[s])
     IN /\ runQueue' = [runQueue EXCEPT ![s] = rest]
        /\ busy' = [busy EXCEPT ![s] = IF state[s] = "up" /\ rest # <<>> THEN "run" ELSE "no"]
  /\ UNCHANGED <<cache, keyOf, state, arrived, lastUse, cut, refused, disposeVars>>

\* emitTail settles and invoke() returns.  The next invocation in the queue runs;
\* on a sandbox that is over sb.run() refuses it, and all those behind it.
Flushed(s) ==
  /\ busy[s] = "flush"
  /\ LET rest == Tail(runQueue[s])
     IN IF state[s] = "up"
        THEN /\ runQueue' = [runQueue EXCEPT ![s] = rest]
             /\ busy' = [busy EXCEPT ![s] = IF rest = <<>> THEN "no" ELSE "run"]
             /\ UNCHANGED refused
        ELSE /\ runQueue' = [runQueue EXCEPT ![s] = <<>>]
             /\ busy' = [busy EXCEPT ![s] = "no"]
             /\ refused' = (refused \/ rest # <<>>)
  /\ UNCHANGED <<cache, keyOf, state, arrived, lastUse, cut, disposeVars>>

-----------------------------------------------------------------------------
(* dispose(): polls until no cached sandbox is active or the deadline has  *)
(* passed, empties the cache and disposes every entry, those still being   *)
(* built once they are; then waits for the disposals that are pending.     *)

Dispose ==
  /\ store = "open"
  /\ store' = "draining"
  /\ UNCHANGED <<executorVars, entries, awaited, found, timedOut>>

Active == {s \in ToSet(cache) : state[s] = "up" /\ busy[s] = "run"}

CloseEntries ==
  LET resolved == {s \in ToSet(cache) : state[s] = "up"}
  IN /\ state' = Disposing(resolved)
     /\ cut' = (cut \/ Cuts(resolved))
     /\ busy' = Idled(resolved)
     /\ entries' = ToSet(cache)
     /\ found' = {s \in Sandboxes : state[s] # "unused"}
     /\ cache' = <<>>
     /\ store' = "building"
     /\ UNCHANGED <<keyOf, runQueue, arrived, awaited, lastUse, refused>>

\* Mutant of Drained: does not look at isActive
DrainedAtOnce ==
  /\ store = "draining"
  /\ CloseEntries
  /\ UNCHANGED timedOut

Drained ==
  /\ store = "draining"
  /\ \/ Active = {} /\ UNCHANGED timedOut
     \/ Active # {} /\ timedOut' = TRUE
  /\ CloseEntries

\* a build that dispose() waits for; it has no deadline
Stuck == \E s \in entries : state[s] = "building"

\* Mutant of EntriesSettled: waits for builds that began after the snapshot
EntriesSettledLive ==
  /\ store = "building" /\ ~Stuck /\ \A s \in ToSet(cache) : state[s] # "building"
  /\ awaited' = {s \in Sandboxes : state[s] = "disposing"}
  /\ store' = "settling"
  /\ UNCHANGED <<executorVars, entries, found, timedOut>>


EntriesSettled ==
  /\ store = "building" /\ ~Stuck
  /\ awaited' = {s \in Sandboxes : state[s] = "disposing"}
  /\ store' = "settling"
  /\ UNCHANGED <<executorVars, entries, found, timedOut>>

DisposeEnds ==
  /\ store = "settling"
  /\ \A s \in awaited : state[s] # "disposing"
  /\ store' = "disposed"
  /\ UNCHANGED <<executorVars, entries, awaited, found, timedOut>>

-----------------------------------------------------------------------------
SandboxStep(s) == EndRun(s) \/ Flushed(s) \/ DisposalSettles(s)
DisposeStep == Drained \/ EntriesSettled \/ DisposeEnds

Next ==
  \/ \E i \in Invs, key \in Keys : Get(i, key)
  \/ \E s \in Sandboxes :
       \/ Built(s)
       \/ BuildFails(s)
       \/ WorkerDies /\ Terminated(s)
       \/ EndRun(s)
       \/ Flushed(s)
       \/ DisposalSettles(s)
  \/ Dispose
  \/ Drained
  \/ EntriesSettled
  \/ DisposeEnds

Spec == Init /\ [][Next]_vars

\* A run ends (module Sandbox: EveryInvocationSettles), the event store flushes
\* (module EventStore: CommitsSettle), terminate() resolves and dispose() polls
\* on.  A build owes nothing: its handshake evaluates the bundle with no timer
\* armed.
FairSpec ==
  /\ Spec
  /\ \A s \in Sandboxes : WF_vars(SandboxStep(s))
  /\ WF_vars(DisposeStep)

-----------------------------------------------------------------------------
(* Properties.                                                             *)

\* The cache holds at most one sandbox per key, none that has failed, died or
\* been disposed, so no get() returns a sandbox that is known to be over; and
\* before dispose() every sandbox being built or up is in the cache, so none
\* leaks its worker.
CacheIsLive ==
  /\ \A j, k \in 1..Len(cache) : keyOf[cache[j]] = keyOf[cache[k]] => j = k
  /\ \A s \in ToSet(cache) : state[s] \in {"building", "up"}
  /\ store \in {"open", "draining"} =>
       \A s \in Sandboxes : state[s] \in {"building", "up"} => s \in ToSet(cache)

Misses == \E s \in Sandboxes : state[s] = "unused" /\ state'[s] = "building"
Evicts(s) == state[s] = "up" /\ state'[s] = "disposing" /\ store' = store

\* A miss leaves the cache over its cap only with sandboxes that are running or
\* being built, evicts no more than it has to, and evicts no sandbox while a
\* candidate whose last invocation came earlier stays.
SweepIsLru ==
  [][/\ Misses /\ Len(cache') > MaxCount => \A s \in ToSet(cache') : ~Evictable(s)
     /\ \A s \in Sandboxes : Evicts(s) =>
          /\ Len(cache') >= MaxCount
          /\ \A t \in ToSet(cache) : Evictable(t) /\ lastUse[t] < lastUse[s] => Evicts(t)]_vars

\* A run in flight is only cut when dispose() has waited for its deadline: not
\* by an eviction, and not by a drain that saw the sandbox idle.
RunsAreNotCut == cut => timedOut

\* an invocation is in the queue of a sandbox whose build has settled
Queued(i) == \E s \in Sandboxes : i \in ToSet(runQueue[s]) /\ state[s] # "building"

\* Once the sandbox of an invocation has been built its invoke() returns: dead
\* workers, evictions and shutdown leave none waiting for its turn.  (A build
\* that hangs keeps its invocations: nothing times it out.)
EveryInvocationSettles == \A i \in Invs : Queued(i) ~> ~Queued(i)


\* dispose() resolves, unless a build that it found in the cache hangs: runs
\* in flight, workers slow to terminate and invocations that still arrive do
\* not hold it up.
DisposeCompletes == (store # "open" /\ ~Stuck) ~> (store = "disposed" \/ Stuck)

\* An invocation dispatched to a sandbox completes against it unless the store
\* is disposed or its worker dies.
DispatchedCompletes == store = "open" /\ ~WorkerDies => ~refused
=============================================================================
