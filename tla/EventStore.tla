----------------------------- MODULE EventStore -----------------------------
(***************************************************************************)
(* The event store of packages/runtime/src/event-store.ts: a RAM           *)
(* accumulator per invocation, one batch insert when the terminal event    *)
(* arrives, a retry-then-drop commit loop, a FIFO chain that serialises    *)
(* commits and prunes, the SIGTERM drain, and restarts that lose the RAM.  *)
(*                                                                         *)
(* An event keeps its seq, its day and whether its kind is terminal; rows, *)
(* scopes, payloads and logging are left out.  The database is external:   *)
(* a batch insert is atomic, may fail, and may take effect although its    *)
(* error reaches the client.                                               *)
(***************************************************************************)
EXTENDS Integers, Sequences, SequencesExt

CONSTANTS Ids,          \* invocation ids
          MaxEvents,    \* bound on the events recorded for one invocation
          MaxRetries,   \* config.commitMaxRetries
          Retention,    \* config.retentionDays
          MaxDay,       \* bound on the clock
          MaxRestarts,  \* bound on the restarts of the process
          LateLeaf,     \* whether a run emits leaves after its terminal event
          NoId

ASSUME StoreAssumption ==
  /\ MaxEvents \in Nat /\ MaxRetries \in Nat /\ Retention \in Nat
  /\ MaxDay \in Nat /\ MaxRestarts \in Nat
  /\ LateLeaf \in BOOLEAN /\ NoId \notin Ids

VARIABLES accumulator,  \* events of the invocations held in RAM
          commit,       \* the commitWithRetry call of an invocation, per caller
          writeChain,   \* jobs waiting for the connection, first one next
          stopped,      \* drainAndClose was called
          drain,        \* where drainAndClose is
          drainId,      \* the invocation it is committing
          dbOpen,       \* the Kysely handle is not destroyed
          events,       \* the events table: the batches inserted per invocation
          recorded,     \* history: events record() accepted
          day,          \* Date.now()
          restarts,
          timedOut      \* history: the drain hit its deadline

vars == <<accumulator, commit, writeChain, stopped, drain, drainId, dbOpen, events,
          recorded, day, restarts, timedOut>>

Callers == {"record", "drain"}
Event == [seq : Nat, terminal : BOOLEAN, at : Nat, shutdown : BOOLEAN]
CommitState == [phase : {"none", "queued", "backoff", "stored", "conflict", "dropped"},
                attempt : Nat, batch : Seq(Event)]
Jobs == ({"commit"} \X Ids \X Callers) \cup ({"prune"} \X Int)

TypeOK ==
  /\ accumulator \in [Ids -> Seq(Event)]
  /\ commit \in [Ids \X Callers -> CommitState]
  /\ writeChain \in Seq(Jobs)
  /\ stopped \in BOOLEAN /\ dbOpen \in BOOLEAN /\ timedOut \in BOOLEAN
  /\ drain \in {"no", "loop", "commit", "closed"}
  /\ drainId \in Ids \cup {NoId}
  /\ events \in [Ids -> Seq(Seq(Event))]
  /\ recorded \in [Ids -> Seq(Event)]
  /\ day \in 0..MaxDay
  /\ restarts \in 0..MaxRestarts

NoCommit == [phase |-> "none", attempt |-> 0, batch |-> <<>>]

Init ==
  /\ accumulator = [id \in Ids |-> <<>>]
  /\ commit = [c \in Ids \X Callers |-> NoCommit]
  /\ writeChain = <<>>
  /\ stopped = FALSE
  /\ drain = "no"
  /\ drainId = NoId
  /\ dbOpen = TRUE
  /\ events = [id \in Ids |-> <<>>]
  /\ recorded = [id \in Ids |-> <<>>]
  /\ day = 0
  /\ restarts = 0
  /\ timedOut = FALSE

-----------------------------------------------------------------------------
(* record().  commitInvocation evicts the entry before it commits, and     *)
(* hands the captured list to commitWithRetry.                             *)

Ended(id) == \E i \in 1..Len(recorded[id]) : recorded[id][i].terminal

Settled(c) == commit[c].phase \notin {"queued", "backoff"}

\* Mutant of CommitInvocation: the entry stays in the accumulator
CommitInvocationKeepsEntry(id, by, batch) ==
  /\ accumulator' = [accumulator EXCEPT ![id] = batch]
  /\ commit' = [commit EXCEPT ![<<id, by>>] =
                  [phase |-> "queued", attempt |-> 0, batch |-> batch]]
  /\ writeChain' = Append(writeChain, <<"commit", id, by>>)

CommitInvocation(id, by, batch) ==
  /\ accumulator' = [accumulator EXCEPT ![id] = <<>>]
  /\ commit' = [commit EXCEPT ![<<id, by>>] =
                  [phase |-> "queued", attempt |-> 0, batch |-> batch]]
  /\ writeChain' = Append(writeChain, <<"commit", id, by>>)

\* Mutant of Record: commits on the first event
RecordCommitsEarly(id, terminal) ==
  LET e == [seq |-> Len(recorded[id]), terminal |-> terminal, at |-> day,
            shutdown |-> FALSE]
  IN /\ ~stopped
     /\ recorded' = [recorded EXCEPT ![id] = Append(@, e)]
     /\ CommitInvocation(id, "record", Append(accumulator[id], e))
     /\ UNCHANGED <<stopped, drain, drainId, dbOpen, events, day, restarts, timedOut>>

\* The executor awaits record() before it records the next event of a run.
Record(id, terminal) ==
  LET e == [seq |-> Len(recorded[id]), terminal |-> terminal, at |-> day,
            shutdown |-> FALSE]
  IN /\ ~stopped
     /\ recorded' = [recorded EXCEPT ![id] = Append(@, e)]
     /\ IF terminal
        THEN CommitInvocation(id, "record", Append(accumulator[id], e))
        ELSE /\ accumulator' = [accumulator EXCEPT ![id] = Append(@, e)]
             /\ UNCHANGED <<commit, writeChain>>
     /\ UNCHANGED <<stopped, drain, drainId, dbOpen, events, day, restarts, timedOut>>

-----------------------------------------------------------------------------
(* commitWithRetry and the write chain.                                    *)

Seqs(batch) == {batch[i].seq : i \in 1..Len(batch)}

\* Mutant of Conflicts: the table has no primary key
ConflictsNever(id, batch) == FALSE

\* an insert of batch would violate the primary key (id, seq)
Conflicts(id, batch) ==
  \E i \in 1..Len(events[id]) : Seqs(events[id][i]) \cap Seqs(batch) # {}

\* Mutant of AfterFailure: the loop never gives up
AfterFailureForever(c) == [commit EXCEPT ![c].phase = "backoff", ![c].attempt = 0]

AfterFailure(c) ==
  [commit EXCEPT ![c].phase = IF commit[c].attempt < MaxRetries
                              THEN "backoff" ELSE "dropped"]

\* The head of the chain runs: the batch insert of a commit ...
RunCommit ==
  /\ writeChain # <<>> /\ Head(writeChain)[1] = "commit"
  /\ LET id == Head(writeChain)[2]
         c == <<id, Head(writeChain)[3]>>
         batch == commit[c].batch
         stored == [events EXCEPT ![id] = Append(@, batch)]
     IN \/ /\ dbOpen /\ ~Conflicts(id, batch)
           /\ events' = stored
           /\ commit' = [commit EXCEPT ![c].phase = "stored"]
        \/ /\ dbOpen /\ Conflicts(id, batch)
           /\ commit' = [commit EXCEPT ![c].phase = "conflict"]
           /\ UNCHANGED events
        \/ /\ commit' = AfterFailure(c)   \* failed, or the handle is destroyed
           /\ UNCHANGED events
        \/ /\ dbOpen /\ ~Conflicts(id, batch)
           /\ events' = stored            \* took effect, reported as failed
           /\ commit' = AfterFailure(c)
  /\ writeChain' = Tail(writeChain)
  /\ UNCHANGED <<accumulator, stopped, drain, drainId, dbOpen, recorded, day,
                 restarts, timedOut>>

Retry(c) ==
  /\ commit[c].phase = "backoff"
  /\ commit' = [commit EXCEPT ![c].phase = "queued", ![c].attempt = @ + 1]
  /\ writeChain' = Append(writeChain, <<"commit", c[1], c[2]>>)
  /\ UNCHANGED <<accumulator, stopped, drain, drainId, dbOpen, events, recorded, day,
                 restarts, timedOut>>

-----------------------------------------------------------------------------
(* Retention: safePrune and prune.  The cutoff is taken when the timer     *)
(* fires, the transaction runs when the chain reaches it.                  *)

\* Mutant of OlderThan: drops an invocation once some row of it is old
OlderThanAnyRow(id, cutoff) ==
  \E i \in 1..Len(events[id]) : \E j \in 1..Len(events[id][i]) :
    events[id][i][j].at < cutoff

\* GROUP BY id HAVING max(at) < cutoff
OlderThan(id, cutoff) ==
  \A i \in 1..Len(events[id]) : \A j \in 1..Len(events[id][i]) :
    events[id][i][j].at < cutoff

PruneQueued == \E i \in 1..Len(writeChain) : writeChain[i][1] = "prune"

\* at most one prune waits: the interval is a fraction of the retention window
SafePrune ==
  /\ ~stopped /\ Retention > 0 /\ ~PruneQueued
  /\ writeChain' = Append(writeChain, <<"prune", day - Retention>>)
  /\ UNCHANGED <<accumulator, commit, stopped, drain, drainId, dbOpen, events,
                 recorded, day, restarts, timedOut>>

\* ... or the transaction of a prune, which may fail and is then dropped.
RunPrune ==
  /\ writeChain # <<>> /\ Head(writeChain)[1] = "prune"
  /\ \/ /\ dbOpen
        /\ events' = [id \in Ids |-> IF OlderThan(id, Head(writeChain)[2])
                                     THEN <<>> ELSE events[id]]
     \/ UNCHANGED events
  /\ writeChain' = Tail(writeChain)
  /\ UNCHANGED <<accumulator, commit, stopped, drain, drainId, dbOpen, recorded, day,
                 restarts, timedOut>>

-----------------------------------------------------------------------------
(* drainAndClose.  It commits the entries one after the other; the order   *)
(* of the Map is abstracted to any order.                                  *)

StartDrain ==
  /\ ~stopped
  /\ stopped' = TRUE
  /\ drain' = "loop"
  /\ UNCHANGED <<accumulator, commit, writeChain, drainId, dbOpen, events, recorded,
                 day, restarts, timedOut>>

\* Mutant of Synthetic: steps the seq the wrong way
SyntheticStepsBack(es) ==
  [seq |-> es[Len(es)].seq - 1, terminal |-> TRUE, at |-> day, shutdown |-> TRUE]

Synthetic(es) ==
  [seq |-> es[Len(es)].seq + 1, terminal |-> TRUE, at |-> day, shutdown |-> TRUE]

DrainEntry(id) ==
  /\ drain = "loop" /\ accumulator[id] # <<>>
  /\ CommitInvocation(id, "drain", Append(accumulator[id], Synthetic(accumulator[id])))
  /\ drain' = "commit"
  /\ drainId' = id
  /\ UNCHANGED <<stopped, dbOpen, events, recorded, day, restarts, timedOut>>

DrainContinue ==
  /\ drain = "commit" /\ Settled(<<drainId, "drain">>)
  /\ drain' = "loop"
  /\ drainId' = NoId
  /\ UNCHANGED <<accumulator, commit, writeChain, stopped, dbOpen, events, recorded,
                 day, restarts, timedOut>>

Empty == \A id \in Ids : accumulator[id] = <<>>

\* Mutant of DrainClose: closes while entries are left
DrainCloseEarly ==
  /\ drain = "loop"
  /\ drain' = "closed"
  /\ dbOpen' = FALSE
  /\ UNCHANGED <<accumulator, commit, writeChain, stopped, drainId, events, recorded,
                 day, restarts, timedOut>>

\* the loop ends, or breaks at its deadline, and the handle is destroyed
DrainClose ==
  /\ drain = "loop"
  /\ \/ Empty /\ UNCHANGED timedOut
     \/ ~Empty /\ timedOut' = TRUE
  /\ drain' = "closed"
  /\ dbOpen' = FALSE
  /\ UNCHANGED <<accumulator, commit, writeChain, stopped, drainId, events, recorded,
                 day, restarts>>

-----------------------------------------------------------------------------
(* SIGKILL at any moment, or the exit after a drain, followed by a fresh   *)
(* process on the same database; invocation ids are never reused.          *)

Restart ==
  /\ restarts < MaxRestarts
  /\ restarts' = restarts + 1
  /\ accumulator' = [id \in Ids |-> <<>>]
  /\ commit' = [c \in Ids \X Callers |-> NoCommit]
  /\ writeChain' = <<>>
  /\ stopped' = FALSE
  /\ drain' = "no"
  /\ drainId' = NoId
  /\ dbOpen' = TRUE
  /\ timedOut' = FALSE
  /\ UNCHANGED <<events, recorded, day>>

Tick ==
  /\ day < MaxDay
  /\ day' = day + 1
  /\ UNCHANGED <<accumulator, commit, writeChain, stopped, drain, drainId, dbOpen,
                 events, recorded, restarts, timedOut>>

\* this process knows the invocation: it is in RAM or was handed to a commit
Live(id) == accumulator[id] # <<>> \/ \E by \in Callers : commit[<<id, by>>].phase # "none"

\* a run records its events in order, its terminal once and, but for late
\* leaves, last
MayRecord(id, terminal) ==
  /\ Len(recorded[id]) < MaxEvents
  /\ recorded[id] = <<>> \/ Live(id)
  /\ Settled(<<id, "record">>)
  /\ Ended(id) => LateLeaf /\ ~terminal

RunHead == RunCommit \/ RunPrune
DrainStep == DrainContinue \/ DrainClose \/ \E id \in Ids : DrainEntry(id)

Next ==
  \/ \E id \in Ids, terminal \in BOOLEAN : MayRecord(id, terminal) /\ Record(id, terminal)
  \/ RunCommit
  \/ \E c \in Ids \X Callers : Retry(c)
  \/ SafePrune
  \/ RunPrune
  \/ StartDrain
  \/ \E id \in Ids : DrainEntry(id)
  \/ DrainContinue
  \/ DrainClose
  \/ Restart
  \/ Tick

\* The database answers every statement, timers fire, and the drain goes on;
\* nothing forces a run to end, a signal to arrive or a day to pass.
Fairness ==
  /\ WF_vars(RunHead)
  /\ \A c \in Ids \X Callers : WF_vars(Retry(c))
  /\ WF_vars(DrainStep)

Spec == Init /\ [][Next]_vars
FairSpec == Spec /\ Fairness

-----------------------------------------------------------------------------
(* Properties.                                                             *)

Rows(id) == FlattenSeq(events[id])

Archive == INSTANCE InvocationArchive
             WITH log <- recorded, archive <- [id \in Ids |-> Rows(id)]

\* The store implements InvocationArchive: the rows of an invocation appear in
\* one step, complete and in order, and disappear in one step, whatever failed
\* commits, retries, prunes, drains and restarts happened in between.
ImplementsArchive == Archive!Spec

\* An invocation has at most one terminal event in the archive, and it is its
\* last row: the record shape the dashboard derives an outcome from.
OneTerminal ==
  \A id \in Ids : \A i \in 1..Len(Rows(id)) :
    Rows(id)[i].terminal => i = Len(Rows(id))

\* A commit is dropped for a primary key violation only when it is a retry of
\* its own batch: eviction before the commit means no first attempt conflicts,
\* so the fast-fail path loses nothing.
ConflictIsOwnRetry ==
  \A c \in Ids \X Callers : commit[c].phase = "conflict" => commit[c].attempt > 0

\* While the store accepts events, the accumulator holds the whole of every
\* unfinished invocation of this process and nothing of a finished one: no
\* event waits for a terminal that has already been committed.
AccumulatorIsUnfinished ==
  ~stopped => \A id \in Ids :
    accumulator[id] # <<>> => accumulator[id] = recorded[id] /\ ~Ended(id)

\* When the drain has closed the handle within its deadline, every invocation
\* the accumulator held has been committed under a shutdown error or dropped
\* after its retries: none is left in RAM or waiting for its commit.
DrainFlushes ==
  drain = "closed" /\ ~timedOut =>
    \A id \in Ids : accumulator[id] = <<>> /\ Settled(<<id, "drain">>)

\* Archived rows only disappear by a prune, the whole invocation at once, and
\* only when its most recent event is older than the retention window.
PruneWholeAndOld ==
  [][\A id \in Ids : events'[id] # events[id] /\ events[id] # <<>> =>
       \/ \E batch \in {commit[<<id, by>>].batch : by \in Callers} :
            events'[id] = Append(events[id], batch)
       \/ events'[id] = <<>> /\ \A i \in 1..Len(Rows(id)) :
                                 Rows(id)[i].at < day - Retention]_vars

\* Every commit that was started ends: the batch is stored, found stored, or
\* dropped after its retries, unless the process dies first.
CommitsSettle ==
  \A c \in Ids \X Callers : ~Settled(c) ~> Settled(c)

\* A drain that was started closes the handle, unless the process dies first.
DrainEnds == drain = "loop" ~> drain \in {"closed", "no"}
=============================================================================
