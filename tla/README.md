# TLA+ verification of workflow-engine

This directory specifies the stateful core of the workflow engine in TLA+,
model-checks it with TLC on small instances, and proves the main invariants of
two components with TLAPS for every instance. Definitions are translated from
the TypeScript sources under `src/packages`; `PROJECT.json` maps each of them to
its lines, and lists runs, theorems, findings, hazards and mutants (plausible
bugs, written next to the definition they change, that the checks must detect).

## The system

A single Node process serves user-written workflows.

| Part | Source | What it does | State that outlives a call |
|---|---|---|---|
| Workflow registry | `runtime/src/workflow-registry.ts` | accepts an uploaded bundle, reconfigures the trigger backends, stores the bundle, removes queues no longer declared; recovers at boot | bundles served, stored file |
| Storage | `runtime/src/storage/*` | whole-file write, list and read of bundles | files |
| Trigger backends | `runtime/src/triggers/*` | http, cron, imap, ws and manual sources of invocations | timers, connections |
| Executor | `runtime/src/executor/*` | one run queue per sandbox; stamps and records events | run queues, active run |
| Sandbox store | `runtime/src/sandbox-store.ts` | LRU cache of sandboxes per (owner, sha) | cache |
| Sandbox | `sandbox/src/sandbox.ts`, `worker-termination.ts`, `worker.ts` | a worker thread with a VM; run, limits, death, restore | two ports, run state |
| Run sequencer | `sandbox/src/run-sequencer.ts` | numbers and nests a run's events, closes frames on death | seq, ref stack, call map |
| Event store | `runtime/src/event-store.ts` | accumulates a run's events and archives them in one insert | accumulator, write chain, table |
| Queue store | `runtime/src/queue-store.ts`, `queue-host.ts`, `queue-store-lifecycle.ts` | durable keyed FIFO queues for guest code | table |
| Plugins, bridge, host calls | `sandbox/src/bridge.ts`, `plugin*.ts`, `limit-counters.ts`, `runtime/src/plugins/*`, `sandbox-stdlib/*` | what guest code can call, and the events it leaves | pending calls, counters |
| API, auth, UI, config, migrations, SDK | `runtime/src/{api,auth,ui,secrets,services}`, `sdk`, `core` | request handling and build time | none of its own |

An upload enters the registry, which tells the backends what to serve. A backend
fires an invocation; the executor takes a sandbox from the store, waits for its
turn in that sandbox's run queue, and runs it. The worker posts events to main;
the sequencer numbers them; the executor stamps them with the active invocation
and hands them to the event store, which commits the run when its terminal event
arrives. Guest code reaches the queue store through host calls during a run.

## Modules

| Module | Models | Checked by |
|---|---|---|
| `RunSequencer` | run-sequencer.ts | run `run_sequencer`; proofs in `RunSequencerProofs` |
| `EventStore` | event-store.ts; refines `InvocationArchive` | `event_store`, `event_store_live`, `event_store_late_leaf` |
| `InvocationArchive` | abstract: an invocation is archived whole, once, or not at all | property `ImplementsArchive` |
| `Sandbox` | sandbox.ts + worker-termination.ts + worker.ts + executor run queue | `sandbox`, `sandbox_result` |
| `SandboxStore` | sandbox-store.ts under the executor's invoke() | `sandbox_store`, `sandbox_store_evict` |
| `QueueStore` | queue-store.ts behind queue-host.ts; refines `KeyedFifo` | `queue_store`; proofs in `QueueStoreProofs` |
| `KeyedFifo` | abstract: one first-in first-out line per (workflow, queue, key) | property `ImplementsFifo` |
| `WorkflowRegistry` | registerOwner and recover, storage/fs.ts, the queue diff; extends `QueueStore` | `registry`, `registry_torn`, `registry_boot` |

`MC*` modules only give constants values (and `MCSandboxStore` a constraint, see below).

### State and actions against the code

* **RunSequencer.** `seq`, `refStack`, `callMap` and `runActive` are the closure's
  variables; `callMap` is a sequence because a JavaScript Map keeps insertion
  order. `Start`, `StampLeaf`, `StampOpen`, `StampClose` and `Finish` are the
  methods. `out` is the history of stamped events. Names, payloads and timestamps
  are left out; an event kind is a pair (prefix, suffix), as the synthesised close
  depends on the prefix.
* **EventStore.** `accumulator` and `writeChain` are the code's; `commit` is the
  local state of each commitWithRetry call. An insert may succeed, conflict, fail,
  or take effect and be reported as failed. A `Restart` loses RAM at any moment.
  The order in which the drain visits the Map is abstracted to any order.
* **Sandbox.** Main thread, worker thread, executor and the two ports between the
  threads. Messages of the public port are delivered in order; an uncaught error
  travels on the worker's internal port and may overtake them; exit comes after
  both. A run posts `request` when it starts, and `terminal` and `done` when it
  ends. Every event remembers the run that posted it, so attribution at delivery
  (`activeMeta`) can be compared with it. `Faults` selects what goes wrong.
* **SandboxStore.** Abstracts a sandbox to building, up, disposing or over, and adds
  the cache (`GetHits`, `GetMisses` with the sweep), the run queues of several
  sandboxes and dispose() with its two awaits (`EntriesSettled`, `DisposeEnds`). What
  the code does in microtasks alone belongs to the step before: the next invocation
  starts with the `Get`, `Built` or `Flushed` that finds or leaves its sandbox idle,
  so the one window in which a sandbox with queued invocations is not active is the
  executor's await on the event store (`busy = "flush"`). Outcomes of invocations
  are reduced to whether one was cut and whether one was refused. `lastUse` and
  `found` are histories that only properties read.
* **QueueStore.** One step per autocommit statement. `Schema` gives each manifest
  version's validators: a sandbox validates with the manifest it was built from.
* **WorkflowRegistry.** One repository. registerOwner up to its first real await is
  one step: none of the five backends yields or fails in reconfigure, so the code's
  branch for a failing backend cannot be reached. The temporary file is opened,
  written and renamed in separate steps; descriptors follow the file through
  renames. A file is the bundle last written to it and its length. A failing
  boot reconciliation ends the process, which is the model's `Crash`. The diff of an
  upload is taken against the bundle served when its file has been stored
  (`ApplyDiff`). An invocation may come from any bundle served since boot, and may use
  any queue name of its workflow, declared or not: queue-host.ts has no name gate.

## What the runs check

| Run | Bounds | Distinct states | Result |
|---|---|---|---|
| `run_sequencer` | 3 calls, 2 prefixes, 6 events | 83,068 (symmetry) | numbering, nesting, pairing and death closes hold |
| `event_store` | 2 invocations of 2 events, 1 retry, 3 days, 1 restart | 282,723 (symmetry) | archive refinement, one terminal, prunes whole and old, drain flushes |
| `event_store_live` | 2 invocations of 1 event, 1 retry, 1 restart | 4,564 | commits settle, the drain ends |
| `sandbox` | 3 invocations, all faults | 151,477 | one terminal, attribution, record agrees with answer, termination once, every invocation settles |
| `sandbox_store` | 3 keys, 4 invocations, cap 2, 3 builds | 230,886 | cache live, LRU, no run cut before the deadline, dispose() leaves no worker, liveness |
| `queue_store` | 2 callers, 2 queues, keys "", "a" and an over-long one, cap 1, 3 inserts | 33,256 (symmetry) | FIFO refinement, bounded overrun |
| `registry` | 2 bundles, 2 uploads, 2 crashes, 1 row | 170,957 | durability, declared rows stay, no orphan after boot, uploads and boots end |

Why these bounds suffice for the question asked: three calls are the fewest with a
frame to close between two others; two invocations are the fewest whose commits
interleave in the write chain; three invocations allow one to run, one to start in
the gap of a dying worker and one behind it; four invocations on three keys and a
cap of two are the fewest in which a hit changes what the sweep evicts (miss,
miss, hit on the first, miss); two callers are the fewest that pass a depth check
together; two uploads and two crashes cover an upload cut at any step and a boot
cut at any step; one row is either there when boot reads the table, or put on an
undeclared queue afterwards. `CHECK_DEADLOCK FALSE` is used where the bounds, or
the shutdown that is part of the model, let the system stop. Symmetry is used only
in runs without liveness properties, on sets that no definition orders.
`sandbox_store` has liveness properties and breaks the symmetry of its keys with
the constraint `KeysInOrder` instead: keys are first used in a fixed order, which
every behaviour does up to a renaming of the keys.

### Disagreements between code and documents

Five runs expect a violation; each is a finding in `PROJECT.json`. They are
counterexamples of the models, read back against the source; none has been
reproduced on a running engine. `sandbox_result` also rests on an assumption about
Node: that the order of delivery between a worker's public and internal ports is
not guaranteed.

* `sandbox_result` / `ResultIsOwn`: `done` carries no run id. A run whose last
  event breaches the output limit posts `done` and throws; if the error arrives
  first, the next queued run starts before exit and takes the late `done`.
  `AttributionHolds` in run `sandbox` finds no other such gap within its bounds.
* `sandbox_store_evict` / `DispatchedCompletes`: between two runs, while the executor
  awaits the event store, a sandbox is not active, so a sweep can evict it with
  invocations queued; they are refused.
* `event_store_late_leaf` / `OneTerminal`: leaves emitted after the terminal event
  (timers cleared at run end) start an orphan entry that the drain closes with a
  second terminal event.
* `registry_torn` / `StoredIsWhole`: uploads of one repository share `<key>.tmp`.
* `registry_boot` / `PutSurvivesBoot`: a bundle that fails to recover counts as
  declaring nothing, and reconciliation deletes its queues' rows.

Behaviours seen in the models and not stated as properties: a commit that took
effect and was reported as failed meets its own rows when it is retried, so a
duplicate that `openspec/specs/event-store/spec.md:63` calls "structurally
impossible" does occur, though `ConflictIsOwnRetry` shows this is the only way; a commit waiting for
its backoff is invisible to the drain, which closes the database under it; the
retry loop makes `commitMaxRetries + 1` attempts; a run refused by a disposed
sandbox leaves no archived event; a run that reaches a worker whose restore
failed is executed on the dead VM, as `runState = "dead"` is never tested; an
upload whose DELETE fails is refused although its bundle is stored; dispose(), and the
invocations of a sandbox, wait without limit for a build that hangs.

## Fairness

* EventStore: the database answers each statement (possibly with an error), timers
  fire, the drain loop proceeds. Nothing forces a run to end or a signal to come.
* Sandbox: the main event loop delivers what is pending, an armed watchdog fires,
  `terminate()` takes effect. The worker is not fair: guest code may loop forever.
* SandboxStore: a run ends (which is `EveryInvocationSettles` of Sandbox), the event
  store flushes (`CommitsSettle`), `terminate()` resolves, dispose() polls on. Builds
  are not fair: the init handshake evaluates the bundle with no timeout, and the CPU
  budget is armed only by run(). `EveryInvocationSettles` therefore speaks of
  invocations whose sandbox has been built, and `DisposeCompletes` excepts a build
  that dispose() found and that hangs.
* WorkflowRegistry: file and database operations of an upload or a boot complete
  or fail.

All of it is weak fairness. Uploads, invocations, signals and crashes are never
fair, and neither is guest code, except that a run ends in SandboxStore: there the
watchdog of module Sandbox stands behind it.

## What is proved

Both proofs hold for every value of the constants that satisfies the named
assumptions.

* **RunSequencerProofs**, from `NoRefAssumption` and `MaxEventsAssumption`: `TypeOK`, `SeqDense`, `RefIsInnermost`,
  `ClosePairsItsOpen` and `DeathClosesEveryFrame` are invariants. None is inductive
  alone: where a new event refers to depends on `refStack`, and what a close refers
  to on `callMap`, while the properties speak of the log `out` only. `IInv` ties
  the three together: `Mirrors` (stack and map are the same, strictly increasing
  list of frames), `FramesAreOpen` (that list is exactly the frames the log leaves
  open), `ClosesArePast`, and `Window` (the state between runs is zeroed and no
  synthesised event precedes the end). `StillOpenIsRefStack` turns it into the
  properties; `SynthFacts` and `FinishProperties` treat the closes on death.
* **QueueStoreProofs**, from `MaxDepthAssumption`, `CallersAssumption`,
  `SchemaAssumption`, `AddressesAssumption` and `InvalidAssumption`: `QueueTypeOK`
  and `DepthBounded`. The inductive
  invariant adds that the table is finite, without which cardinalities say nothing.
  The argument: a put is admitted only while fewer than `MaxDepth` rows exist, and
  at that moment at most all the other callers are admitted, so rows plus admitted
  puts stay below `MaxDepth + |Callers|`; an insert moves one from the second count
  to the first; everything else only lowers them.

Only model-checked: all liveness properties, the two refinements, and the safety
of EventStore, Sandbox, SandboxStore and WorkflowRegistry. Liveness under fairness
and ENABLED are outside the prover's reach.

## Not modelled

`components` in `PROJECT.json` gives the reason for each part. In short: the
trigger backends, the bridge and plugins, host calls, the upload API and the
shutdown order are planned; authentication, secrets, UI, configuration, migrations
and the SDK hold no state that changes at run time, or are pure I/O.

## Plan

1. `Imap`: connection lifecycle with a step per await, reconnect timers, late close
   events, dispose at every point. Properties: one lifecycle per entry, nothing open
   for a disposed entry, every current entry is connected, waiting or reconnecting;
   a message is fired again only after a failed disposition.
2. `Cron` and `Ws`: clamp and re-arm guard; upgrades, concurrent frames, eviction.
   Properties: at most one timer per current entry and none for a replaced one, a
   tick fires once; no connection survives its trigger.
3. `HostCalls` and `RunEvents`: the host-call channel, pending counter, call ids and
   run window across runs. Properties: an answer reaches the call that asked, in the
   run that asked; no event of one run is stamped in another. `RunSequencer` to be
   shown to receive what `RunEvents` emits.
4. Shutdown composition of main.ts: server, backends, sandbox store, event store,
   queue store and client closing in order, with requests still arriving; the upload
   API's event after registration.
5. Proofs: `OneTerminal` and `ConflictIsOwnRetry` of EventStore, `CacheIsLive` of
   SandboxStore, `TerminatedOnce` and `SettledIsFrozen` of Sandbox, `AckedIsDurable`
   of WorkflowRegistry, then the step simulation of `InvocationArchive`.
