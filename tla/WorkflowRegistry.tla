--------------------------- MODULE WorkflowRegistry ---------------------------
(***************************************************************************)
(* registerOwner and recover of packages/runtime/src/workflow-registry.ts  *)
(* for one (owner, repo), with the file system storage of storage/fs.ts    *)
(* and the queue rows of QueueStore.                                       *)
(*                                                                         *)
(* A bundle is a version of QueueStore: Contains[b] are its workflows,     *)
(* Declared(b) its queues.  registerOwner validates the manifest and       *)
(* replaces the entries of every trigger backend without awaiting anything *)
(* (no backend of the repository fails or yields there), so that is one    *)
(* step; every await after it may interleave with another upload.  A       *)
(* manifest that is refused changes nothing and is left out.               *)
(*                                                                         *)
(* A file is the bundle written last and the number of bytes in the file.  *)
(***************************************************************************)
EXTENDS QueueStore

CONSTANTS Contains,     \* the workflows of each bundle
          Size,         \* the length of each bundle's tarball
          Uploads,      \* upload requests that may be handled together
          NoBundle,
          MaxUploads,   \* bound on the uploads of a behaviour
          MaxCrashes    \* bound on the crashes of a behaviour

Bundles == Versions

ASSUME SizeAssumption == Size \in [Bundles -> Nat \ {0}]
ASSUME ContainsAssumption ==
  /\ Contains \in [Bundles -> SUBSET Workflows]
  /\ \A b \in Bundles : Declared(b) \subseteq Contains[b] \X Queues

VARIABLES view,         \* the bundle the trigger backends serve
          mem,          \* ownerStates: the bundle the registry serves
          tmp, final,   \* <key>.tmp and <key> in the storage backend
          upload,       \* what each upload request waits for
          phase,        \* of the process: "recover", "reconcile", "up"
          budget,       \* uploads and crashes so far
          acked,        \* history: bundle of the last upload, if it succeeded
          overlap,      \* history: two uploads were once in progress together
          lost,         \* history: recovery of this boot skipped a stored file
          fresh,        \* history: no upload was received since this boot
          served,       \* history: bundles served since this boot
          bootSeq       \* history: the last rowid when boot read the table

bootVars == <<lost, fresh, served, bootSeq>>
registryVars == <<view, mem, tmp, final, upload, phase, budget, acked, overlap, bootVars>>
vars == <<queueVars, registryVars>>

NoFile == [by |-> "missing", size |-> 0]
Empty == [by |-> NoBundle, size |-> 0]
Whole(b) == [by |-> b, size |-> Size[b]]
IsWhole(f) == f.by \in Bundles /\ f = Whole(f.by)
Resting == [pc |-> "idle", bundle |-> NoBundle, fd |-> "none", todo |-> {}]

Files == {NoFile, Empty} \cup [by : Bundles, size : {Size[b] : b \in Bundles}]

TypeOK ==
  /\ QueueTypeOK
  /\ {view, mem, acked} \subseteq Bundles \cup {NoBundle}
  /\ {tmp, final} \subseteq Files
  /\ upload \in [Uploads -> [pc : {"idle", "open", "write", "rename", "stored", "delete"},
                             bundle : Bundles \cup {NoBundle},
                             fd : {"none", "tmp", "final", "gone"},
                             todo : SUBSET SUBSET Scopes]]
  /\ phase \in {"recover", "reconcile", "sweep", "up"}
  /\ {overlap, lost, fresh} \subseteq BOOLEAN
  /\ served \subseteq Bundles /\ bootSeq \in Nat
  /\ budget \in [uploads : 0..MaxUploads, crashes : 0..MaxCrashes]

Init ==
  /\ QueueInit
  /\ view = NoBundle /\ mem = NoBundle /\ acked = NoBundle
  /\ tmp = NoFile /\ final = NoFile
  /\ upload = [u \in Uploads |-> Resting]
  /\ phase = "recover"
  /\ budget = [uploads |-> 0, crashes |-> 0]
  /\ overlap = FALSE /\ lost = FALSE /\ fresh = TRUE
  /\ served = {} /\ bootSeq = 0

-----------------------------------------------------------------------------
(* Upload: registerOwner with the bytes of the tarball.                    *)

Outstanding(u) == upload[u].pc # "idle" \/ upload[u].todo # {}

\* every backend replaces its entries of the repository by those of b
ReconfigureBackends(b) == view' = b

\* registerOwner up to its first real await
Register(u, b) ==
  /\ phase = "up"
  /\ ~Outstanding(u)
  /\ budget.uploads < MaxUploads
  /\ ReconfigureBackends(b)
  /\ upload' = [upload EXCEPT ![u] = [Resting EXCEPT !.pc = "open", !.bundle = b]]
  /\ budget' = [budget EXCEPT !.uploads = @ + 1]
  /\ acked' = NoBundle
  /\ overlap' = (overlap \/ \E v \in Uploads \ {u} : Outstanding(v))
  /\ fresh' = FALSE
  /\ served' = served \cup {b}
  /\ UNCHANGED <<queueVars, mem, tmp, final, phase, lost, bootSeq>>

\* writeFile opens <key>.tmp, truncating the file it finds
OpenTmp(u) ==
  /\ upload[u].pc = "open"
  /\ tmp' = Empty
  /\ upload' = [upload EXCEPT ![u].pc = "write", ![u].fd = "tmp"]
  /\ UNCHANGED <<queueVars, view, mem, final, phase, budget, acked, overlap, bootVars>>

\* Mutant of Overwritten: the file is opened for appending
OverwrittenAtEnd(f, b) == [by |-> b, size |-> f.size + Size[b]]

\* f after b's bytes were written to it from offset 0
Overwritten(f, b) ==
  [by |-> b, size |-> IF f.size > Size[b] THEN f.size ELSE Size[b]]

\* writeFile writes to the file it opened, under whatever name that has now
WriteTmp(u) ==
  /\ upload[u].pc = "write"
  /\ LET b == upload[u].bundle
     IN /\ tmp' = IF upload[u].fd = "tmp" THEN Overwritten(tmp, b) ELSE tmp
        /\ final' = IF upload[u].fd = "final" THEN Overwritten(final, b) ELSE final
  /\ upload' = [upload EXCEPT ![u].pc = "rename"]
  /\ UNCHANGED <<queueVars, view, mem, phase, budget, acked, overlap, bootVars>>

\* the file that is <key>.tmp now becomes <key>
Rename(u) ==
  /\ upload[u].pc = "rename"
  /\ tmp # NoFile
  /\ final' = tmp
  /\ tmp' = NoFile
  /\ upload' = [v \in Uploads |->
       LET moved == CASE upload[v].fd = "tmp" -> "final"
                      [] upload[v].fd = "final" -> "gone"
                      [] OTHER -> upload[v].fd
       IN IF v = u THEN [upload[u] EXCEPT !.pc = "stored", !.fd = "none"]
                   ELSE [upload[v] EXCEPT !.fd = moved]]
  /\ UNCHANGED <<queueVars, view, mem, phase, budget, acked, overlap, bootVars>>

\* Mutant of PersistFails: a failing rename is not reported
PersistFailsSilently(u) ==
  /\ upload[u].pc \in {"open", "write"}
  /\ upload' = [upload EXCEPT ![u] = Resting]
  /\ UNCHANGED <<queueVars, view, mem, tmp, final, phase, budget, acked, overlap, bootVars>>

\* opening, writing or renaming failed, always when another upload has moved
\* <key>.tmp away (ENOENT): the upload is refused
PersistFails(u) ==
  /\ upload[u].pc \in {"open", "write", "rename"}
  /\ upload' = [upload EXCEPT ![u] = Resting]
  /\ UNCHANGED <<queueVars, view, mem, tmp, final, phase, budget, acked, overlap, bootVars>>

\* Mutant of Removed: the diff is taken the wrong way round
RemovedReversed(b) ==
  IF mem = NoBundle THEN {} ELSE {{s} : s \in Declared(b) \ Declared(mem)}

\* diffManifests: what applyQueueDiffViaStore deletes when b replaces the
\* bundle served now
Removed(b) ==
  IF mem = NoBundle THEN {}
  ELSE {WholeWorkflow(w) : w \in Contains[mem] \ Contains[b]} \cup
       {{s} : s \in {s \in Declared(mem) \ Declared(b) : s[1] \in Contains[b]}}

\* setRepoState, and the upload is answered with success
SetRepoState(u) ==
  /\ mem' = upload[u].bundle
  /\ acked' = upload[u].bundle
  /\ upload' = [upload EXCEPT ![u] = Resting]

\* applyQueueLifecycleForUpload: the diff is taken once the bundle is stored,
\* and with nothing to delete the upload is through
ApplyDiff(u) ==
  /\ upload[u].pc = "stored"
  /\ LET removed == Removed(upload[u].bundle)
     IN IF removed = {}
        THEN SetRepoState(u)
        ELSE /\ upload' = [upload EXCEPT ![u].pc = "delete", ![u].todo = removed]
             /\ UNCHANGED <<mem, acked>>
  /\ UNCHANGED <<queueVars, view, tmp, final, phase, budget, overlap, bootVars>>

\* one DELETE of applyQueueDiffViaStore, also one left over by a failed upload
DeleteRows(u, S) ==
  /\ S \in upload[u].todo
  /\ removeDeclaration(S)
  /\ upload' = [upload EXCEPT ![u].todo = @ \ {S}]
  /\ UNCHANGED <<sequence, call, orphans, view, mem, tmp, final, phase, budget, acked,
                 overlap, bootVars>>

\* Promise.all rejects at once: the upload is refused, the other DELETEs go on
DeleteFails(u, S) ==
  /\ S \in upload[u].todo
  /\ upload' = [upload EXCEPT ![u] = [Resting EXCEPT !.todo = upload[u].todo \ {S}]]
  /\ UNCHANGED <<queueVars, view, mem, tmp, final, phase, budget, acked, overlap, bootVars>>

\* Mutant of Finish: the upload is answered before its bundle is stored
FinishEarly(u) ==
  /\ upload[u].pc \in {"write", "delete"}
  /\ SetRepoState(u)
  /\ UNCHANGED <<queueVars, view, tmp, final, phase, budget, overlap, bootVars>>

\* the last DELETE was answered
Finish(u) ==
  /\ upload[u].pc = "delete"
  /\ upload[u].todo = {}
  /\ SetRepoState(u)
  /\ UNCHANGED <<queueVars, view, tmp, final, phase, budget, overlap, bootVars>>

-----------------------------------------------------------------------------
(* Crash and boot.                                                         *)

Crash ==
  /\ budget.crashes < MaxCrashes
  /\ QueueCrash
  /\ view' = NoBundle /\ mem' = NoBundle
  /\ upload' = [u \in Uploads |-> Resting]
  /\ phase' = "recover"
  /\ budget' = [budget EXCEPT !.crashes = @ + 1]
  /\ lost' = FALSE /\ fresh' = TRUE /\ served' = {} /\ bootSeq' = 0
  /\ UNCHANGED <<tmp, final, acked, overlap>>

\* gunzip ignores what follows the bundle: only an empty file has none
Unpacked(f) == IF f.by \in Bundles THEN f.by ELSE NoBundle

\* list() finds <key>, and passes over <key>.tmp
Listed == final # NoFile

\* recoverOne on the stored file, if there is one
RecoverOne ==
  /\ phase = "recover"
  /\ mem' = IF Listed THEN Unpacked(final) ELSE NoBundle
  /\ ReconfigureBackends(mem')
  /\ lost' = (final = Empty)
  /\ served' = {mem'} \ {NoBundle}
  /\ phase' = "reconcile"
  /\ UNCHANGED <<queueVars, tmp, final, upload, budget, acked, overlap, fresh, bootSeq>>

\* reading, unpacking or registering the stored file fails: it is skipped
RecoverSkips ==
  /\ phase = "recover"
  /\ Listed
  /\ lost' = TRUE
  /\ phase' = "reconcile"
  /\ UNCHANGED <<queueVars, view, mem, tmp, final, upload, budget, acked, overlap, fresh,
                 served, bootSeq>>

\* Mutant of BootReconcile: compares with every name there is
BootReconcileAll ==
  /\ phase = "reconcile"
  /\ Reconcile(Scopes)
  /\ bootSeq' = sequence
  /\ phase' = "sweep"
  /\ UNCHANGED <<view, mem, tmp, final, upload, budget, acked, overlap, lost, fresh, served>>

\* reconcileQueueStoreOnBoot: the rows present against the manifests loaded
BootReconcile ==
  /\ phase = "reconcile"
  /\ Reconcile(IF mem = NoBundle THEN {} ELSE Declared(mem))
  /\ bootSeq' = sequence
  /\ phase' = "sweep"
  /\ UNCHANGED <<view, mem, tmp, final, upload, budget, acked, overlap, lost, fresh, served>>

BootDelete(s) == phase = "sweep" /\ DeleteOrphan(s) /\ UNCHANGED registryVars

\* Mutant of Listen: waits for a bundle
ListenWithBundle ==
  /\ phase = "sweep"
  /\ orphans = {} /\ mem # NoBundle
  /\ phase' = "up"
  /\ UNCHANGED <<queueVars, view, mem, tmp, final, upload, budget, acked, overlap, bootVars>>

Listen ==
  /\ phase = "sweep"
  /\ orphans = {}
  /\ phase' = "up"
  /\ UNCHANGED <<queueVars, view, mem, tmp, final, upload, budget, acked, overlap, bootVars>>

-----------------------------------------------------------------------------
(* Invocations put and take items.  One may outlive the bundle that it was *)
(* dispatched from, and no name is checked: it can use any queue name of   *)
(* its own workflow.                                                       *)

Guest(c) ==
  /\ \/ \E b \in served, a \in Addresses :
          /\ a[1][1] \in Contains[b]
          /\ GetCall(c, b, a[1], a[2]) \/ \E i \in Items : PutCall(c, b, a[1], a[2], i)
     \/ Statement(c)
  /\ UNCHANGED registryVars

UploadStep(u) ==
  \/ OpenTmp(u) \/ WriteTmp(u) \/ Rename(u) \/ PersistFails(u) \/ ApplyDiff(u) \/ Finish(u)
  \/ \E S \in upload[u].todo : DeleteRows(u, S) \/ DeleteFails(u, S)

Boot == RecoverOne \/ RecoverSkips \/ BootReconcile \/ Listen \/
        \E s \in Scopes : BootDelete(s)

Next ==
  \/ \E u \in Uploads : UploadStep(u) \/ \E b \in Bundles : Register(u, b)
  \/ \E c \in Callers : Guest(c)
  \/ Boot
  \/ Crash

Spec == Init /\ [][Next]_vars
FairSpec == Spec /\ WF_vars(Boot) /\ \A u \in Uploads : WF_vars(UploadStep(u))

-----------------------------------------------------------------------------
(* Properties.                                                             *)

\* A bundle whose upload was answered with success, with no upload after it,
\* is the stored file, whatever crashes follow, and is what the registry and
\* the trigger backends serve whenever the process is up: registerOwner
\* persists before it swaps its own state, and recover() restores both.
\* Uploads that overlapped, and a recovery that skipped the file, are excepted.
AckedIsDurable ==
  (acked # NoBundle /\ ~overlap) =>
    /\ final = Whole(acked)
    /\ (phase = "up" /\ ~lost) => view = acked /\ mem = acked

\* the step is a get that removed the row it was asked for
IsPop == \E c \in Callers : call[c].op = "pop" /\ call'[c] = Idle

\* Rows leave a queue that the stored bundle declares only through a get: an
\* upload deletes rows after its bundle is stored, and boot reconciliation
\* deletes against the bundle it recovered.  Uploads that overlapped, and a
\* recovery that skipped the file, are excepted.
DeclaredRowsStay ==
  [][\A r \in table \ table' :
       IsPop \/ overlap \/ lost \/ final.by \notin Bundles \/
       r.scope \notin Declared(final.by)]_vars

\* Once the process listens and until the first upload, every row that was
\* there when boot reconciliation read the table belongs to a queue that the
\* recovered bundle declares: rows left behind by a crash between storing a
\* bundle and deleting rows, or put on an undeclared queue before the restart,
\* are gone.  Rows put since are not its concern.
BootLeavesNoOrphan ==
  (phase = "up" /\ fresh) =>
    \A r \in table : r.seq <= bootSeq => mem # NoBundle /\ r.scope \in Declared(mem)

\* Every upload is answered, whichever write, rename or DELETE of it fails,
\* unless the process is killed meanwhile.
EveryUploadEnds == \A u \in Uploads : Outstanding(u) ~> ~Outstanding(u)

\* Every boot ends with the process listening, also when the stored bundle is
\* unreadable or there is none, unless the process is killed meanwhile.
EveryBootEnds == phase # "up" ~> phase = "up"

\* The stored file is never a torn or an empty one, also with two uploads of
\* the same repository in progress: StorageBackend.write replaces it whole.
StoredIsWhole == final = NoFile \/ IsWhole(final)

\* Booting deletes no row of a queue that the stored bundle declares: a put
\* that succeeded survives a restart until a get takes it.
PutSurvivesBoot ==
  [][phase # "up" => \A r \in table \ table' :
       IsPop \/ ~IsWhole(final) \/ r.scope \notin Declared(final.by)]_vars
=============================================================================
