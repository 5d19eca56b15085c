------------------------------- MODULE Sandbox -------------------------------
(***************************************************************************)
(* One sandbox: the main-side object of packages/sandbox/src/sandbox.ts    *)
(* with worker-termination.ts, its worker thread (worker.ts), and the      *)
(* executor's run queue and event widening for it (executor/index.ts).     *)
(*                                                                         *)
(* A run posts its trigger.request when it starts and its terminal event   *)
(* and `done` when it ends.  Other events, and seq and ref (RunSequencer), *)
(* are left out.  An event remembers the invocation whose run posted it.   *)
(*                                                                         *)
(* Node delivers messages of the worker's public port in order; an         *)
(* uncaught error travels on another port and may overtake them; "exit"    *)
(* comes after both ports are drained.                                     *)
(***************************************************************************)
EXTENDS Naturals, Sequences

CONSTANTS Invs,    \* invocations whose sandboxStore.get() returns this sandbox
          NoInv,
          Faults   \* what goes wrong: a subset of AllFaults

AllFaults == {"crash",    \* the worker throws outside a run's try block
              "limit",    \* an output or pending breach during a run
              "lastEvent",\* the breach is on the run's last event
              "cpu",      \* the run exceeds its CPU budget
              "restore",  \* the snapshot restore fails
              "dispose"}  \* the store disposes the sandbox

ASSUME SandboxAssumption == NoInv \notin Invs /\ Faults \subseteq AllFaults

VARIABLES queue,       \* executor: invocations waiting for the run queue
          step,        \* executor: "idle", "run" or "flush" (awaits emitTail)
          activeMeta,  \* executor: the invocation events are stamped with
          outcome,     \* executor: how an invocation ended, and whose payload it got
          log,         \* history: events handed to the event store
          gap,         \* history: invocations started on a worker that has thrown
          runInFlight, disposed, terminatedCause,  \* sandbox.ts
          window,      \* sequencer: closed, open, or open with a trigger frame
          lastError, cpuBudgetExpired, watchdog,   \* worker-termination.ts
          toWorker, toMain,                        \* public ports, FIFO
          error,       \* an uncaught error on its way to main
          thread,      \* "up", "stopping" (terminate() called), "gone" or "reaped"
          runState,    \* worker.ts state.runState
          vmLive,      \* the worker has a VM that is not disposed
          running      \* the invocation the worker is executing

execVars == <<queue, step, activeMeta, outcome, log, gap>>
mainVars == <<runInFlight, disposed, terminatedCause, window>>
termVars == <<lastError, cpuBudgetExpired, watchdog>>
workerVars == <<thread, runState, vmLive, running>>
vars == <<queue, step, activeMeta, outcome, log, gap, runInFlight, disposed,
          terminatedCause, window, lastError, cpuBudgetExpired, watchdog, toWorker, toMain, error,
          thread, runState, vmLive, running>>

Causes == {"none", "limit", "crash", "restore-failed"}
LogEvents == [kind : {"request", "terminal", "exhaustion"}, of : Invs \cup {NoInv}]
Messages == [type : {"request", "terminal", "done", "restore-failed"},
             of : Invs \cup {NoInv}]
Errors == [kind : {"none", "crash", "limit"}, of : Invs \cup {NoInv}]
Outcomes == [how : {"none", "ok", "died", "disposed", "refused"},
             of : Invs \cup {NoInv}]

TypeOK ==
  /\ queue \in Seq(Invs)
  /\ step \in {"idle", "run", "flush"}
  /\ activeMeta \in Invs \cup {NoInv}
  /\ outcome \in [Invs -> Outcomes]
  /\ log \in [Invs -> Seq(LogEvents)]
  /\ gap \subseteq Invs
  /\ runInFlight \in BOOLEAN /\ disposed \in BOOLEAN
  /\ terminatedCause \in Causes
  /\ window \in {"closed", "open", "frame"}
  /\ lastError \in Errors /\ error \in Errors
  /\ cpuBudgetExpired \in BOOLEAN /\ watchdog \in BOOLEAN
  /\ toWorker \in Seq(Invs) /\ toMain \in Seq(Messages)
  /\ thread \in {"up", "stopping", "gone", "reaped"}
  /\ runState \in {"ready", "running", "restoring", "dead"} /\ vmLive \in BOOLEAN
  /\ running \in Invs \cup {NoInv}

NoError == [kind |-> "none", of |-> NoInv]

Init ==
  /\ queue = <<>> /\ step = "idle" /\ activeMeta = NoInv
  /\ outcome = [i \in Invs |-> [how |-> "none", of |-> NoInv]]
  /\ log = [i \in Invs |-> <<>>]
  /\ gap = {}
  /\ runInFlight = FALSE /\ disposed = FALSE /\ terminatedCause = "none"
  /\ window = "closed"
  /\ lastError = NoError /\ cpuBudgetExpired = FALSE /\ watchdog = FALSE
  /\ toWorker = <<>> /\ toMain = <<>> /\ error = NoError
  /\ thread = "up" /\ runState = "ready" /\ vmLive = TRUE /\ running = NoInv

-----------------------------------------------------------------------------
(* Executor: the widening of events, and runInvocationWith around run().   *)

\* state.onEvent: an event outside any invocation is dropped
Widened(events) ==
  IF activeMeta = NoInv THEN log
  ELSE [log EXCEPT ![activeMeta] = @ \o events]

\* Mutant of Settle: activeMeta is not cleared
SettleKeepsMeta(how, of) ==
  IF step = "run"
  THEN /\ outcome' = [outcome EXCEPT ![activeMeta] = [how |-> how, of |-> of]]
       /\ step' = "flush"
       /\ UNCHANGED activeMeta
  ELSE UNCHANGED <<outcome, activeMeta, step>>

\* the promise of run() settles and the executor clears activeMeta
Settle(how, of) ==
  IF step = "run"
  THEN /\ outcome' = [outcome EXCEPT ![activeMeta] = [how |-> how, of |-> of]]
       /\ activeMeta' = NoInv
       /\ step' = "flush"
  ELSE UNCHANGED <<outcome, activeMeta, step>>

\* finalize(): listeners off, watchdog disarmed, synthetic events forwarded
Finalize(events, how, of) ==
  /\ log' = Widened(events)
  /\ window' = "closed"
  /\ runInFlight' = FALSE
  /\ watchdog' = FALSE
  /\ Settle(how, of)

Invoke(inv) ==
  /\ outcome[inv].how = "none" /\ inv # activeMeta
  /\ \A k \in 1..Len(queue) : queue[k] # inv
  /\ ~disposed /\ terminatedCause = "none"
  /\ queue' = Append(queue, inv)
  /\ UNCHANGED <<step, activeMeta, outcome, log, gap, mainVars, termVars, toWorker, toMain,
                 error, workerVars>>

\* run(): refused on a disposed or terminated sandbox, else posted
StartRun ==
  /\ step = "idle" /\ queue # <<>>
  /\ queue' = Tail(queue)
  /\ \/ /\ disposed \/ terminatedCause # "none" \/ runInFlight
        /\ outcome' = [outcome EXCEPT ![Head(queue)] = [how |-> "refused", of |-> NoInv]]
        /\ step' = "flush"
        /\ UNCHANGED <<activeMeta, gap, mainVars, termVars, toWorker>>
     \/ /\ ~disposed /\ terminatedCause = "none" /\ ~runInFlight
        /\ activeMeta' = Head(queue)
        /\ step' = "run"
        /\ gap' = IF error.kind = "none" /\ lastError.kind = "none" THEN gap
                  ELSE gap \cup {Head(queue)}
        /\ runInFlight' = TRUE
        /\ window' = "open"
        /\ cpuBudgetExpired' = FALSE
        /\ watchdog' = TRUE
        /\ toWorker' = Append(toWorker, Head(queue))
        /\ UNCHANGED <<outcome, disposed, terminatedCause, lastError>>
  /\ UNCHANGED <<log, toMain, error, workerVars>>

\* emitTail settles: the event store has committed or dropped the run
Flushed ==
  /\ step = "flush"
  /\ step' = "idle"
  /\ UNCHANGED <<queue, activeMeta, outcome, log, gap, mainVars, termVars, toWorker, toMain,
                 error, workerVars>>

-----------------------------------------------------------------------------
(* Main thread: what the worker's messages, error and exit do.             *)

\* Mutant of Cause: a limit is reported by its dimension instead of its kind
CauseIsDim(err) ==
  IF terminatedCause = "restore-failed" THEN "restore-failed"
  ELSE IF cpuBudgetExpired THEN "cpu"
  ELSE IF err.kind = "limit" THEN "limit"
  ELSE "crash"

\* classify(): restore-failed, then the CPU budget, then the first error
Cause(err) ==
  IF terminatedCause = "restore-failed" THEN "restore-failed"
  ELSE IF cpuBudgetExpired \/ err.kind = "limit" THEN "limit"
  ELSE "crash"

Culprit(err) == IF cpuBudgetExpired THEN activeMeta ELSE err.of

\* termination.cause() is null once disposing
IsLimitDeath(err) == ~disposed /\ Cause(err) = "limit"

\* Mutant of HandleDeath: the synthesised closes are not forwarded
HandleDeathDropsCloses(err) ==
  Finalize(IF IsLimitDeath(err)
           THEN <<[kind |-> "exhaustion", of |-> Culprit(err)]>> ELSE <<>>,
           "died", NoInv)

\* handleDeath: system.exhaustion on a limit, then the synthesised closes
HandleDeath(err) ==
  Finalize((IF IsLimitDeath(err)
            THEN <<[kind |-> "exhaustion", of |-> Culprit(err)]>> ELSE <<>>)
           \o (IF window = "frame" THEN <<[kind |-> "terminal", of |-> activeMeta]>>
               ELSE <<>>),
           "died", NoInv)

NoSettle == UNCHANGED <<step, activeMeta, outcome, runInFlight, watchdog>>

\* Mutant of DispatchWireEvent: a close leaves its frame on the stack
DispatchKeepsFrame(msg) ==
  /\ \/ /\ window # "closed"
        /\ window' = "frame"
        /\ log' = Widened(<<[kind |-> msg.type, of |-> msg.of]>>)
     \/ window = "closed" /\ UNCHANGED <<window, log>>
  /\ NoSettle /\ UNCHANGED terminatedCause

\* sequencer.next on an event, and the executor's widening of what it returns
DispatchWireEvent(msg) ==
  /\ \/ /\ msg.type = "request" /\ window # "closed"
        /\ window' = "frame"
        /\ log' = Widened(<<[kind |-> "request", of |-> msg.of]>>)
     \/ /\ msg.type = "terminal" /\ window = "frame"
        /\ window' = "open"
        /\ log' = Widened(<<[kind |-> "terminal", of |-> msg.of]>>)
     \/ /\ window = "closed" \/ (msg.type = "terminal" /\ window = "open")
        /\ UNCHANGED <<window, log>>
  /\ NoSettle /\ UNCHANGED terminatedCause

\* onMessage: only a run in flight listens for `done`
Done(msg) ==
  /\ IF runInFlight THEN Finalize(<<>>, "ok", msg.of)
     ELSE NoSettle /\ UNCHANGED <<window, log>>
  /\ UNCHANGED terminatedCause

\* Mutant of RestoreFailed: the disposing flag is not looked at
RestoreFailedWhileDisposing ==
  /\ terminatedCause' = IF terminatedCause # "none"
                        THEN terminatedCause ELSE "restore-failed"
  /\ NoSettle /\ UNCHANGED <<window, log>>

\* markRestoreFailed: the first cause is dispatched, none while disposing
RestoreFailed ==
  /\ terminatedCause' = IF disposed \/ terminatedCause # "none"
                        THEN terminatedCause ELSE "restore-failed"
  /\ NoSettle /\ UNCHANGED <<window, log>>

DeliverMessage ==
  /\ toMain # <<>>
  /\ toMain' = Tail(toMain)
  /\ LET msg == Head(toMain) IN
     \/ msg.type \in {"request", "terminal"} /\ DispatchWireEvent(msg)
     \/ msg.type = "done" /\ Done(msg)
     \/ msg.type = "restore-failed" /\ RestoreFailed
  /\ UNCHANGED <<queue, gap, disposed, lastError, cpuBudgetExpired, toWorker, error, workerVars>>

DeliverError ==
  /\ error.kind # "none"
  /\ error' = NoError
  /\ LET first == IF lastError.kind = "none" THEN error ELSE lastError IN
     /\ lastError' = first
     /\ IF runInFlight THEN HandleDeath(first) ELSE NoSettle /\ UNCHANGED <<window, log>>
  /\ UNCHANGED <<queue, gap, disposed, terminatedCause, cpuBudgetExpired, toWorker, toMain,
                 workerVars>>

\* Mutant of DeliverExit: a run in flight has no exit listener
DeliverExitIgnoresRun ==
  /\ thread = "gone" /\ toMain = <<>> /\ error.kind = "none"
  /\ thread' = "reaped"
  /\ terminatedCause' = IF disposed \/ terminatedCause # "none"
                        THEN terminatedCause ELSE Cause(lastError)
  /\ NoSettle
  /\ UNCHANGED <<queue, gap, log, window, disposed, lastError, cpuBudgetExpired, toWorker,
                 toMain, error, runState, vmLive, running>>

DeliverExit ==
  /\ thread = "gone" /\ toMain = <<>> /\ error.kind = "none"
  /\ thread' = "reaped"
  /\ UNCHANGED lastError
  /\ terminatedCause' = IF disposed \/ terminatedCause # "none"
                        THEN terminatedCause ELSE Cause(lastError)
  /\ IF runInFlight THEN HandleDeath(lastError) ELSE NoSettle /\ UNCHANGED <<window, log>>
  /\ UNCHANGED <<queue, gap, disposed, cpuBudgetExpired, toWorker, toMain, error, runState,
                 vmLive, running>>

Terminate == thread' = IF thread = "up" THEN "stopping" ELSE thread

\* Mutant of CpuBudgetExpires: the run is rejected at once, not at exit
CpuBudgetRejectsAtOnce ==
  /\ watchdog
  /\ cpuBudgetExpired' = TRUE
  /\ Finalize(<<>>, "died", NoInv)
  /\ Terminate
  /\ UNCHANGED <<queue, gap, disposed, terminatedCause, lastError, toWorker, toMain, error,
                 runState, vmLive, running>>

CpuBudgetExpires ==
  /\ watchdog
  /\ watchdog' = FALSE
  /\ cpuBudgetExpired' = TRUE
  /\ Terminate
  /\ UNCHANGED <<execVars, mainVars, lastError, toWorker, toMain, error, runState, vmLive, running>>

\* dispose(): rejects the run in flight and terminates; its listeners stay
Dispose ==
  /\ ~disposed
  /\ disposed' = TRUE
  /\ watchdog' = FALSE
  /\ Settle("disposed", NoInv)
  /\ Terminate
  /\ UNCHANGED <<queue, gap, log, runInFlight, terminatedCause, window, lastError,
                 cpuBudgetExpired, toWorker, toMain, error, runState, vmLive, running>>

-----------------------------------------------------------------------------
(* Worker thread.                                                          *)

Up == thread \in {"up", "stopping"}
MainVars == <<execVars, mainVars, termVars>>

\* handleRun up to the guest call; a run posted during a restore waits for it
HandleRun ==
  /\ Up /\ toWorker # <<>> /\ runState \in {"ready", "dead"}
  /\ toWorker' = Tail(toWorker)
  /\ running' = Head(toWorker)
  /\ runState' = "running"
  /\ toMain' = Append(toMain, [type |-> "request", of |-> Head(toWorker)])
  /\ UNCHANGED <<MainVars, error, thread, vmLive>>

\* Mutant of FinishRun: `done` is posted before the onRunFinished hooks
FinishRunDoneFirst(lost) ==
  /\ Up /\ runState = "running" /\ ~lost
  /\ toMain' = toMain \o <<[type |-> "done", of |-> running],
                           [type |-> "terminal", of |-> running]>>
  /\ runState' = "restoring"
  /\ running' = NoInv
  /\ UNCHANGED <<MainVars, toWorker, error, thread, vmLive>>

\* What a run posts once its handler has returned or thrown.  lost: the terminal
\* event breaches the output limit and is not posted.
LastMessages(lost) ==
  (IF lost THEN <<>> ELSE <<[type |-> "terminal", of |-> running]>>) \o
  <<[type |-> "done", of |-> running]>>

\* The run ends and the restore is started.  The error of a lost terminal event
\* is thrown from a microtask, after `done` was posted.
FinishRun(lost) ==
  /\ Up /\ runState = "running"
  /\ toMain' = toMain \o LastMessages(lost)
  /\ error' = IF lost THEN [kind |-> "limit", of |-> running] ELSE error
  /\ thread' = IF lost THEN "gone" ELSE thread
  /\ runState' = "restoring"
  /\ running' = NoInv
  /\ UNCHANGED <<MainVars, toWorker, vmLive>>

Restored ==
  /\ Up /\ runState = "restoring" /\ vmLive
  /\ runState' = "ready"
  /\ UNCHANGED <<MainVars, toWorker, toMain, error, thread, vmLive, running>>

\* the catch of startRestore; a run already awaiting the restore is rejected
\* by it and its error rethrown as an uncaught one
RestoreFails(awaited) ==
  /\ Up /\ runState = "restoring" /\ vmLive
  /\ awaited => toWorker # <<>>
  /\ vmLive' = FALSE
  /\ runState' = "dead"
  /\ toMain' = Append(toMain, [type |-> "restore-failed", of |-> NoInv])
  /\ error' = IF awaited THEN [kind |-> "crash", of |-> NoInv] ELSE error
  /\ thread' = IF awaited THEN "gone" ELSE thread
  /\ UNCHANGED <<MainVars, toWorker, running>>

\* An uncaught error ends the thread: a limit breach or any other throw
Throw(kind) ==
  /\ Up
  /\ error' = [kind |-> kind, of |-> running]
  /\ thread' = "gone"
  /\ UNCHANGED <<MainVars, toWorker, toMain, runState, vmLive, running>>

\* terminate() takes effect, possibly between a run's terminal event and `done`
ThreadEnds(cut) ==
  /\ thread = "stopping"
  /\ thread' = "gone"
  /\ cut => runState = "running"
  /\ toMain' = IF cut THEN Append(toMain, [type |-> "terminal", of |-> running])
               ELSE toMain
  /\ UNCHANGED <<MainVars, toWorker, error, runState, vmLive, running>>

-----------------------------------------------------------------------------
MainStep == StartRun \/ Flushed \/ DeliverMessage \/ DeliverError \/ DeliverExit

WorkerStep ==
  \/ HandleRun
  \/ FinishRun(FALSE)
  \/ "lastEvent" \in Faults /\ FinishRun(TRUE)
  \/ Restored
  \/ "restore" \in Faults /\ \E awaited \in BOOLEAN : RestoreFails(awaited)
  \/ "crash" \in Faults /\ Throw("crash")
  \/ "limit" \in Faults /\ runState = "running" /\ Throw("limit")

Next ==
  \/ \E inv \in Invs : Invoke(inv)
  \/ MainStep
  \/ WorkerStep
  \/ "cpu" \in Faults /\ CpuBudgetExpires
  \/ "dispose" \in Faults /\ Dispose
  \/ \E cut \in BOOLEAN : ThreadEnds(cut)

Spec == Init /\ [][Next]_vars

\* The event loop delivers what is pending, armed timers fire, a terminated
\* thread ends.  The worker is not fair: guest code may never return.
FairSpec == Spec /\ WF_vars(MainStep) /\ WF_vars(CpuBudgetExpires)
            /\ WF_vars(\E cut \in BOOLEAN : ThreadEnds(cut))

-----------------------------------------------------------------------------
(* Properties.                                                             *)

IsKind(events, kind) == {k \in 1..Len(events) : events[k].kind = kind}

\* The archived events of an invocation hold at most one terminal event,
\* however the worker ends, also when an error overtakes posted events; only
\* the system.exhaustion of a worker stopped right after posting it may follow.
OneTerminal ==
  \A inv \in Invs : \A k \in IsKind(log[inv], "terminal") :
    \A j \in (k + 1)..Len(log[inv]) : log[inv][j].kind = "exhaustion"

\* An invocation whose worker died during its run, and whose trigger.request
\* was archived, also has its terminal event by the time its promise settles:
\* handleDeath forwards the synthesised closes before it rejects.
DeadRunIsClosed ==
  \A inv \in Invs :
    (outcome[inv].how = "died" /\ IsKind(log[inv], "request") # {})
      => IsKind(log[inv], "terminal") # {}

\* The caller of an invocation never receives the payload of another: `done`
\* carries no run id, so this rests on the order of delivery.
ResultIsOwn ==
  \A inv \in Invs : outcome[inv].how = "ok" => outcome[inv].of = inv

\* Results and events go to the invocation whose run produced them (activeMeta
\* is stamped at delivery, not when an event is posted), except for a run
\* started between a worker's uncaught error and the delivery of its exit:
\* restore failures, watchdog and disposal open no other window.
AttributionHolds ==
  \A inv \in Invs \ gap :
    /\ outcome[inv].how = "ok" => outcome[inv].of = inv
    /\ \A k \in 1..Len(log[inv]) : log[inv][k].of = inv

\* A run that resolved has its request and its terminal event archived, so the
\* caller's answer and the record agree, unless the run's own last event was
\* the limit breach.
RecordAgrees ==
  \A inv \in Invs \ gap : outcome[inv].how = "ok" =>
    /\ IsKind(log[inv], "request") # {}
    /\ IsKind(log[inv], "terminal") # {} \/ inv \in {error.of, lastError.of}

\* Nothing is archived for an invocation once its promise has settled, so
\* "persistence committed before response" covers the whole run.
SettledIsFrozen ==
  [][\A inv \in Invs : outcome[inv].how # "none" =>
       /\ outcome'[inv] = outcome[inv]
       /\ log'[inv] = log[inv]]_vars

\* onTerminated fires at most once, never for a disposal, and no run is posted
\* to a worker after it fired.
TerminatedOnce ==
  [][/\ terminatedCause # "none" => terminatedCause' = terminatedCause
     /\ disposed => terminatedCause' = terminatedCause
     /\ (terminatedCause # "none" \/ disposed) => Len(toWorker') <= Len(toWorker)]_vars

\* Every invocation that entered the run queue settles, whatever the guest does:
\* the watchdog or the worker's exit ends a run, and a failed run does not block
\* the queue.
EveryInvocationSettles ==
  \A inv \in Invs :
    (\E k \in 1..Len(queue) : queue[k] = inv) ~> outcome[inv].how # "none"
=============================================================================
