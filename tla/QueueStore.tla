------------------------------ MODULE QueueStore ------------------------------
(***************************************************************************)
(* The durable queues of packages/runtime/src/queue-store.ts behind the    *)
(* host handlers of queue-host.ts.                                         *)
(*                                                                         *)
(* A caller is one outstanding queue.put or queue.get host call.  Every    *)
(* statement is one autocommit step; between the depth check of a put and  *)
(* its INSERT any other statement may run.  A sandbox keeps the validators *)
(* of the manifest it was built from (a version), also after a re-upload.  *)
(* Owner, repo and workflow are one name; provenance columns and messages  *)
(* are left out, sizes are reduced to "over the cap or not".               *)
(***************************************************************************)
EXTENDS Naturals, FiniteSets, Sequences

CONSTANTS Workflows,    \* owner, repo and workflow name
          Queues,       \* queue names
          Keys,         \* partition keys
          LongKeys,     \* keys over MAX_KEY_BYTES
          Items,
          BigItems,     \* items over MAX_ITEM_BYTES
          Invalid,      \* what a validator makes of an item it rejects
          Schema,       \* Schema[version][scope][item], scope declared by version
          Callers,
          Addresses,    \* the scopes and keys that guest code uses
          MaxDepth,     \* maxWorkflowDepth
          MaxSeq        \* bound on the rows ever inserted

Versions == DOMAIN Schema
Scopes == Workflows \X Queues
Declared(v) == DOMAIN Schema[v]

ASSUME MaxDepthAssumption == MaxDepth \in Nat \ {0}
ASSUME CallersAssumption == IsFiniteSet(Callers)
ASSUME SchemaAssumption ==
  \A v \in Versions :
    /\ Declared(v) \subseteq Scopes
    /\ \A s \in Declared(v) : Schema[v][s] \in [Items -> Items \cup {Invalid}]
ASSUME AddressesAssumption == Addresses \subseteq Scopes \X Keys
ASSUME InvalidAssumption == Invalid \notin Items

VARIABLES table,        \* queue_items
          sequence,     \* the last rowid AUTOINCREMENT handed out
          call,         \* the statement each caller waits for
          reply,        \* the answer given by this step, if it gave one
          orphans       \* tuples reconcile() still has to delete

queueVars == <<table, sequence, call, reply, orphans>>

Rows == [seq : Nat, scope : Scopes, key : Keys, item : Items]
Idle == [op |-> "idle"]
\* what a call is answered; the code of a QueueError makes no difference here
none == <<"none">>
error == <<"error">>
Partitions == {<<a[1][1], a[1][2], a[2]>> : a \in Addresses}
Replies == {none, <<"ok">>, error} \cup ({"empty"} \X Partitions) \cup
           ({"found"} \X Partitions \X Items)

QueueTypeOK ==
  /\ table \subseteq Rows
  /\ sequence \in Nat
  /\ call \in [Callers -> {Idle} \cup
         [op : {"count", "insert"}, scope : Scopes, key : Keys, item : Items] \cup
         [op : {"pop"}, scope : Scopes, key : Keys, version : Versions]]
  /\ \A c \in Callers : call[c] # Idle => <<call[c].scope, call[c].key>> \in Addresses
  /\ reply \in Replies
  /\ orphans \subseteq Scopes

QueueInit ==
  /\ table = {}
  /\ sequence = 0
  /\ call = [c \in Callers |-> Idle]
  /\ reply = none
  /\ orphans = {}

-----------------------------------------------------------------------------
(* Helpers.                                                                *)

\* safeParse of the validator of a declared queue; other items are kept as is
Parse(v, s, i) == IF s \in Declared(v) THEN Schema[v][s][i] ELSE i

workflowDepth(w) == Cardinality({r \in table : r.scope[1] = w})

Answer(c, r) ==
  /\ reply' = r
  /\ call' = [call EXCEPT ![c] = Idle]

Await(c, statement) ==
  /\ call' = [call EXCEPT ![c] = statement]
  /\ reply' = none

-----------------------------------------------------------------------------
(* queue.put                                                               *)

\* Mutant of PutCall: stores what the validator rejected
PutCallUnchecked(c, v, s, k, i) ==
  /\ call[c] = Idle
  /\ LET data == Parse(v, s, i)
     IN IF k \in LongKeys \/ data \in BigItems
        THEN Answer(c, error)
        ELSE Await(c, [op |-> "count", scope |-> s, key |-> k, item |-> data])
  /\ UNCHANGED <<table, sequence, orphans>>

\* the checks before the first statement
PutCall(c, v, s, k, i) ==
  /\ call[c] = Idle
  /\ LET data == Parse(v, s, i)
     IN IF k \in LongKeys \/ data = Invalid \/ data \in BigItems
        THEN Answer(c, error)
        ELSE Await(c, [op |-> "count", scope |-> s, key |-> k, item |-> data])
  /\ UNCHANGED <<table, sequence, orphans>>

\* Mutant of PutCount: lets one row too many in
PutCountOffByOne(c) ==
  /\ call[c].op = "count"
  /\ IF workflowDepth(call[c].scope[1]) > MaxDepth
     THEN Answer(c, error)
     ELSE Await(c, [call[c] EXCEPT !.op = "insert"])
  /\ UNCHANGED <<table, sequence, orphans>>

\* SELECT COUNT(*) over all queues of the workflow
PutCount(c) ==
  /\ call[c].op = "count"
  /\ IF workflowDepth(call[c].scope[1]) >= MaxDepth
     THEN Answer(c, error)
     ELSE Await(c, [call[c] EXCEPT !.op = "insert"])
  /\ UNCHANGED <<table, sequence, orphans>>

\* INSERT; the answer of a remote database may be lost after the commit
PutInsert(c) ==
  /\ call[c].op = "insert"
  /\ sequence < MaxSeq
  /\ sequence' = sequence + 1
  /\ table' = table \cup {[seq |-> sequence + 1, scope |-> call[c].scope,
                           key |-> call[c].key, item |-> call[c].item]}
  /\ \E r \in {<<"ok">>, error} : Answer(c, r)
  /\ UNCHANGED orphans

-----------------------------------------------------------------------------
(* queue.get                                                               *)

GetCall(c, v, s, k) ==
  /\ call[c] = Idle
  /\ IF k \in LongKeys THEN Answer(c, error)
                       ELSE Await(c, [op |-> "pop", scope |-> s, key |-> k, version |-> v])
  /\ UNCHANGED <<table, sequence, orphans>>

Partition(s, k) == {r \in table : r.scope = s /\ r.key = k}

\* Mutant of Oldest: MIN(seq) taken over the whole queue, not one key of it
OldestOfQueue(s, k) ==
  {r \in Partition(s, k) : \A q \in table : q.scope = s => r.seq <= q.seq}

\* the row DELETE ... WHERE seq = (SELECT MIN(seq) ...) removes, if any
Oldest(s, k) == {r \in Partition(s, k) : \A q \in Partition(s, k) : r.seq <= q.seq}

\* DELETE ... RETURNING, then validation against the sandbox's own manifest
Pop(c) ==
  /\ call[c].op = "pop"
  /\ LET old == Oldest(call[c].scope, call[c].key)
         p == <<call[c].scope[1], call[c].scope[2], call[c].key>>
         Seen(r) == LET data == Parse(call[c].version, r.scope, r.item)
                    IN IF data = Invalid THEN error ELSE <<"found", p, data>>
     IN /\ table' = table \ old
        /\ \/ old = {} /\ Answer(c, <<"empty", p>>)
           \/ \E r \in old : Answer(c, Seen(r)) \/ Answer(c, error)
  /\ UNCHANGED <<sequence, orphans>>

\* a statement that failed without effect
StatementFails(c) ==
  /\ call[c] # Idle
  /\ Answer(c, error)
  /\ UNCHANGED <<table, sequence, orphans>>

-----------------------------------------------------------------------------
(* Lifecycle: removal of declarations, and the two phases of reconcile().  *)

\* a set of scopes: one queue, or all the queues of a workflow
removeDeclaration(S) ==
  /\ table' = {r \in table : r.scope \notin S}
  /\ reply' = none

WholeWorkflow(w) == {w} \X Queues

Reconcile(declared) ==
  /\ orphans' = {r.scope : r \in table} \ declared
  /\ reply' = none
  /\ UNCHANGED <<table, sequence, call>>

DeleteOrphan(s) ==
  /\ s \in orphans
  /\ removeDeclaration({s})
  /\ orphans' = orphans \ {s}
  /\ UNCHANGED <<sequence, call>>

\* the process is killed: host calls vanish, committed rows stay
QueueCrash ==
  /\ call' = [c \in Callers |-> Idle]
  /\ reply' = none
  /\ orphans' = {}
  /\ UNCHANGED <<table, sequence>>

Statement(c) == PutCount(c) \/ PutInsert(c) \/ Pop(c) \/ StatementFails(c)

\* every caller and every lifecycle operation, in any order
QueueNext ==
  \/ \E c \in Callers, v \in Versions, a \in Addresses :
       GetCall(c, v, a[1], a[2]) \/ \E i \in Items : PutCall(c, v, a[1], a[2], i)
  \/ \E c \in Callers : Statement(c)
  \/ /\ \E s \in Scopes : removeDeclaration({s})
     /\ UNCHANGED <<sequence, call, orphans>>
  \/ /\ \E w \in Workflows : removeDeclaration(WholeWorkflow(w))
     /\ UNCHANGED <<sequence, call, orphans>>
  \/ \E v \in Versions : Reconcile(Declared(v))
  \/ \E s \in Scopes : DeleteOrphan(s)
  \/ QueueCrash

QueueSpec == QueueInit /\ [][QueueNext]_queueVars

-----------------------------------------------------------------------------
(* Properties.                                                             *)

Inserting(w) == {c \in Callers : call[c].op = "insert" /\ call[c].scope[1] = w}

\* The workflow-wide cap is checked before the INSERT and not again by it, so
\* concurrent puts overrun it, but never by more than the other calls that
\* were outstanding: rows and admitted puts together stay below the cap plus
\* the number of callers.
DepthBounded ==
  \A w \in Workflows :
    workflowDepth(w) + Cardinality(Inserting(w)) < MaxDepth + Cardinality(Callers)

\* the items of a partition in rowid order
LineOf(p) ==
  LET P == Partition(<<p[1], p[2]>>, p[3])
      Nth(n) == CHOOSE r \in P : Cardinality({q \in P : q.seq < r.seq}) = n - 1
  IN [n \in 1..Cardinality(P) |-> Nth(n).item]

Fifo == INSTANCE KeyedFifo WITH
  Units <- {{p \in Partitions : <<p[1], p[2]>> = s} : s \in Scopes} \cup
           {{p \in Partitions : p[1] = w} : w \in Workflows},
  Readings <- [p \in Partitions |-> [i \in Items |->
                 {Parse(v, <<p[1], p[2]>>, i) : v \in Versions} \ {Invalid}]],
  line <- [p \in Partitions |-> LineOf(p)]

\* put, get, removal and reconcile together keep every (workflow, queue, key)
\* a first-in first-out line: a get takes the oldest item of its own key, says
\* "empty" only of an empty partition, and no item is handed out twice, also
\* across restarts, failed statements and validation by another manifest.
ImplementsFifo == Fifo!Spec
=============================================================================
