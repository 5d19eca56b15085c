-------------------------- MODULE QueueStoreProofs --------------------------
(***************************************************************************)
(* The overrun of the workflow-wide depth cap is bounded by the number of  *)
(* outstanding calls, for any number of callers, queues, keys and rows.    *)
(***************************************************************************)
EXTENDS QueueStore, FiniteSetTheorems, TLAPS

\* The bound is inductive together with the types and the finiteness of the
\* table, without which a cardinality says nothing.
QInv ==
  /\ QueueTypeOK
  /\ IsFiniteSet(table)
  /\ DepthBounded

OfWorkflow(w) == {r \in table : r.scope[1] = w}

\* The two cardinalities that DepthBounded adds up are natural numbers.
LEMMA Counts ==
  ASSUME IsFiniteSet(table), NEW w
  PROVE  /\ IsFiniteSet(OfWorkflow(w))
         /\ workflowDepth(w) = Cardinality(OfWorkflow(w))
         /\ workflowDepth(w) \in Nat
         /\ IsFiniteSet(Inserting(w))
         /\ Cardinality(Inserting(w)) \in Nat
         /\ Cardinality(Inserting(w)) <= Cardinality(Callers)
         /\ Cardinality(Callers) \in Nat
<1>1. IsFiniteSet(OfWorkflow(w))
  BY FS_Subset DEF OfWorkflow
<1>2. workflowDepth(w) = Cardinality(OfWorkflow(w))
  BY DEF workflowDepth, OfWorkflow
<1>3. Inserting(w) \subseteq Callers
  BY DEF Inserting
<1> QED
  BY <1>1, <1>2, <1>3, FS_Subset, FS_CardinalityType, CallersAssumption

\* A step that adds no row and admits no put keeps the bound.
LEMMA Shrink ==
  ASSUME IsFiniteSet(table), DepthBounded, table' \subseteq table,
         \A w \in Workflows : Inserting(w)' \subseteq Inserting(w)
  PROVE  IsFiniteSet(table)' /\ DepthBounded'
<1>1. IsFiniteSet(table')
  BY FS_Subset
<1>2. SUFFICES ASSUME NEW w \in Workflows
               PROVE  workflowDepth(w)' + Cardinality(Inserting(w)')
                        < MaxDepth + Cardinality(Callers)
  BY <1>1 DEF DepthBounded
<1> DEFINE D == OfWorkflow(w)
           D1 == {r \in table' : r.scope[1] = w}
<1>3. D1 \subseteq D /\ workflowDepth(w)' = Cardinality(D1)
  BY DEF OfWorkflow, workflowDepth
<1>4. Cardinality(D1) <= Cardinality(D) /\ Cardinality(D1) \in Nat
  BY <1>3, Counts, FS_Subset, FS_CardinalityType
<1>5. /\ Cardinality(Inserting(w)') <= Cardinality(Inserting(w))
      /\ Cardinality(Inserting(w)') \in Nat
  BY Counts, FS_Subset, FS_CardinalityType
<1>6. workflowDepth(w) + Cardinality(Inserting(w)) < MaxDepth + Cardinality(Callers)
  BY DEF DepthBounded
<1>7. /\ workflowDepth(w) = Cardinality(D) /\ workflowDepth(w) \in Nat
      /\ Cardinality(Inserting(w)) \in Nat /\ Cardinality(Callers) \in Nat
  BY Counts
<1> HIDE DEF D, D1
<1> QED
  BY <1>3, <1>4, <1>5, <1>6, <1>7, MaxDepthAssumption

-----------------------------------------------------------------------------
(* Types.                                                                  *)

\* What a validator returns.
LEMMA ParseType ==
  ASSUME NEW v \in Versions, NEW s \in Scopes, NEW i \in Items
  PROVE  Parse(v, s, i) \in Items \cup {Invalid}
BY SchemaAssumption DEF Parse

Calls == {Idle} \cup
  [op : {"count", "insert"}, scope : Scopes, key : Keys, item : Items] \cup
  [op : {"pop"}, scope : Scopes, key : Keys, version : Versions]

Addressed(x) == x # Idle => <<x.scope, x.key>> \in Addresses

\* A caller moves to another statement, or back to rest.
LEMMA CallUpdate ==
  ASSUME QueueTypeOK, NEW c \in Callers, NEW x \in Calls, Addressed(x),
         call' = [call EXCEPT ![c] = x]
  PROVE  /\ call' \in [Callers -> Calls]
         /\ \A d \in Callers : call'[d] # Idle =>
              <<call'[d].scope, call'[d].key>> \in Addresses
BY DEF QueueTypeOK, Calls, Addressed

\* Giving an answer keeps the types.
LEMMA AnswerType ==
  ASSUME QueueTypeOK, NEW c \in Callers, NEW r \in Replies, Answer(c, r),
         table' \subseteq Rows, sequence' \in Nat, orphans' \subseteq Scopes
  PROVE  QueueTypeOK'
<1>1. Idle \in Calls /\ Addressed(Idle)
  BY DEF Calls, Addressed
<1>2. /\ call' \in [Callers -> Calls]
      /\ \A d \in Callers : call'[d] # Idle =>
           <<call'[d].scope, call'[d].key>> \in Addresses
  BY <1>1, CallUpdate DEF Answer
<1> QED
  BY <1>2 DEF QueueTypeOK, Calls, Answer

\* Waiting for a statement keeps the types.
LEMMA AwaitType ==
  ASSUME QueueTypeOK, NEW c \in Callers, NEW x \in Calls, Addressed(x), Await(c, x),
         table' \subseteq Rows, sequence' \in Nat, orphans' \subseteq Scopes
  PROVE  QueueTypeOK'
<1>1. /\ call' \in [Callers -> Calls]
      /\ \A d \in Callers : call'[d] # Idle =>
           <<call'[d].scope, call'[d].key>> \in Addresses
  BY CallUpdate DEF Await
<1>2. none \in Replies
  BY DEF Replies
<1> QED
  BY <1>1, <1>2 DEF QueueTypeOK, Calls, Await

-----------------------------------------------------------------------------
(* One lemma per operation.                                                *)

\* A caller that does not move to its INSERT admits no put.
LEMMA NotAdmitted ==
  ASSUME QueueTypeOK, NEW c \in Callers, NEW x \in Calls, x.op # "insert",
         call' = [call EXCEPT ![c] = x], NEW w \in Workflows
  PROVE  Inserting(w)' \subseteq Inserting(w)
BY DEF QueueTypeOK, Inserting

\* Idle is no INSERT.
LEMMA IdleOp == Idle \in Calls /\ Idle.op # "insert" /\ Addressed(Idle)
BY DEF Idle, Calls, Addressed

\* The answers that do not depend on a row.
LEMMA PlainReplies == error \in Replies /\ none \in Replies /\ <<"ok">> \in Replies
BY DEF Replies

\* put() up to its first statement.
LEMMA PutCallInv ==
  ASSUME QInv, NEW c \in Callers, NEW v \in Versions, NEW a \in Addresses,
         NEW i \in Items, PutCall(c, v, a[1], a[2], i)
  PROVE  QInv'
<1> DEFINE data == Parse(v, a[1], i)
           x == [op |-> "count", scope |-> a[1], key |-> a[2], item |-> data]
<1>1. a[1] \in Scopes /\ a[2] \in Keys /\ <<a[1], a[2]>> \in Addresses
  BY AddressesAssumption
<1>2. data \in Items \cup {Invalid}
  BY <1>1, ParseType
<1>3. UNCHANGED <<table, sequence, orphans>>
  BY DEF PutCall
<1>4. table' \subseteq Rows /\ sequence' \in Nat /\ orphans' \subseteq Scopes
  BY <1>3 DEF QInv, QueueTypeOK
<1>5. CASE Answer(c, error)
  <2>1. QueueTypeOK'
    BY <1>4, <1>5, AnswerType, PlainReplies DEF QInv
  <2>2. \A w \in Workflows : Inserting(w)' \subseteq Inserting(w)
    BY <1>5, IdleOp, NotAdmitted DEF QInv, Answer
  <2> QED
    BY <1>3, <2>1, <2>2, Shrink DEF QInv
<1>6. CASE data # Invalid /\ Await(c, x)
  <2>1. x \in Calls /\ Addressed(x) /\ x.op # "insert"
    BY <1>1, <1>2, <1>6 DEF Calls, Addressed
  <2>2. QueueTypeOK'
    BY <1>4, <1>6, <2>1, AwaitType DEF QInv
  <2>3. \A w \in Workflows : Inserting(w)' \subseteq Inserting(w)
    BY <1>6, <2>1, NotAdmitted DEF QInv, Await
  <2> QED
    BY <1>3, <2>2, <2>3, Shrink DEF QInv
<1> QED
  BY <1>5, <1>6 DEF PutCall

\* get() up to its statement.
LEMMA GetCallInv ==
  ASSUME QInv, NEW c \in Callers, NEW v \in Versions, NEW a \in Addresses,
         GetCall(c, v, a[1], a[2])
  PROVE  QInv'
<1> DEFINE x == [op |-> "pop", scope |-> a[1], key |-> a[2], version |-> v]
<1>1. a[1] \in Scopes /\ a[2] \in Keys /\ <<a[1], a[2]>> \in Addresses
  BY AddressesAssumption
<1>2. UNCHANGED <<table, sequence, orphans>>
  BY DEF GetCall
<1>3. table' \subseteq Rows /\ sequence' \in Nat /\ orphans' \subseteq Scopes
  BY <1>2 DEF QInv, QueueTypeOK
<1>4. CASE Answer(c, error)
  <2>1. QueueTypeOK'
    BY <1>3, <1>4, AnswerType, PlainReplies DEF QInv
  <2>2. \A w \in Workflows : Inserting(w)' \subseteq Inserting(w)
    BY <1>4, IdleOp, NotAdmitted DEF QInv, Answer
  <2> QED
    BY <1>2, <2>1, <2>2, Shrink DEF QInv
<1>5. CASE Await(c, x)
  <2>1. x \in Calls /\ Addressed(x) /\ x.op # "insert"
    BY <1>1 DEF Calls, Addressed
  <2>2. QueueTypeOK'
    BY <1>3, <1>5, <2>1, AwaitType DEF QInv
  <2>3. \A w \in Workflows : Inserting(w)' \subseteq Inserting(w)
    BY <1>5, <2>1, NotAdmitted DEF QInv, Await
  <2> QED
    BY <1>2, <2>2, <2>3, Shrink DEF QInv
<1> QED
  BY <1>4, <1>5 DEF GetCall

\* The depth check: a put is admitted only below the cap, and then the callers
\* waiting for their INSERT are at most all callers.
LEMMA PutCountInv ==
  ASSUME QInv, NEW c \in Callers, PutCount(c)
  PROVE  QInv'
<1> DEFINE x == [call[c] EXCEPT !.op = "insert"]
           s == call[c].scope
<1>1. UNCHANGED <<table, sequence, orphans>> /\ call[c].op = "count"
  BY DEF PutCount
<1>2. table' \subseteq Rows /\ sequence' \in Nat /\ orphans' \subseteq Scopes
  BY <1>1 DEF QInv, QueueTypeOK
<1>3. CASE Answer(c, error)
  <2>1. QueueTypeOK'
    BY <1>2, <1>3, AnswerType, PlainReplies DEF QInv
  <2>2. \A w \in Workflows : Inserting(w)' \subseteq Inserting(w)
    BY <1>3, IdleOp, NotAdmitted DEF QInv, Answer
  <2> QED
    BY <1>1, <2>1, <2>2, Shrink DEF QInv
<1>4. CASE ~(workflowDepth(s[1]) >= MaxDepth) /\ Await(c, x)
  <2>1. /\ call[c] \in [op : {"count", "insert"}, scope : Scopes, key : Keys, item : Items]
        /\ <<call[c].scope, call[c].key>> \in Addresses
    BY <1>1 DEF QInv, QueueTypeOK, Idle
  <2>2. x \in Calls /\ Addressed(x)
    BY <2>1 DEF Calls, Addressed
  <2>3. QueueTypeOK'
    BY <1>2, <1>4, <2>2, AwaitType DEF QInv
  <2>4. IsFiniteSet(table')
    BY <1>1 DEF QInv
  <2>5. SUFFICES ASSUME NEW w \in Workflows
                 PROVE  workflowDepth(w)' + Cardinality(Inserting(w)')
                          < MaxDepth + Cardinality(Callers)
    BY <2>3, <2>4 DEF QInv, DepthBounded
  <2>6. workflowDepth(w)' = workflowDepth(w) /\ workflowDepth(w) \in Nat
    BY <1>1, Counts DEF QInv, workflowDepth
  <2>7. CASE w = s[1]
    <3>1. Inserting(w)' \subseteq Callers
      BY DEF Inserting
    <3>2. /\ Cardinality(Inserting(w)') <= Cardinality(Callers)
          /\ Cardinality(Inserting(w)') \in Nat /\ Cardinality(Callers) \in Nat
      BY <3>1, FS_Subset, FS_CardinalityType, CallersAssumption
    <3> QED
      BY <1>4, <2>6, <2>7, <3>2, MaxDepthAssumption
  <2>8. CASE w # s[1]
    <3>1. Inserting(w)' = Inserting(w)
      BY <1>1, <1>4, <2>1, <2>8 DEF Inserting, Await, QInv, QueueTypeOK
    <3> QED
      BY <2>6, <3>1 DEF QInv, DepthBounded
  <2> QED
    BY <2>7, <2>8
<1> QED
  BY <1>3, <1>4 DEF PutCount

\* The INSERT: one row more, one admitted put less.
LEMMA PutInsertInv ==
  ASSUME QInv, NEW c \in Callers, PutInsert(c)
  PROVE  QInv'
<1> DEFINE s == call[c].scope
           row == [seq |-> sequence + 1, scope |-> s, key |-> call[c].key,
                   item |-> call[c].item]
<1>1. /\ call[c].op = "insert" /\ table' = table \cup {row}
      /\ sequence' = sequence + 1 /\ UNCHANGED orphans
  BY DEF PutInsert
<1>2. PICK r \in {<<"ok">>, error} : Answer(c, r)
  BY DEF PutInsert
<1>3. call[c] \in [op : {"count", "insert"}, scope : Scopes, key : Keys, item : Items]
  BY <1>1 DEF QInv, QueueTypeOK, Idle
<1>4. row \in Rows /\ row.scope = s
  BY <1>3 DEF QInv, QueueTypeOK, Rows
<1>5. table' \subseteq Rows /\ sequence' \in Nat /\ orphans' \subseteq Scopes
  BY <1>1, <1>4 DEF QInv, QueueTypeOK
<1>6. QueueTypeOK'
  BY <1>2, <1>5, AnswerType, PlainReplies DEF QInv
<1>7. IsFiniteSet(table')
  BY <1>1, FS_AddElement DEF QInv
<1>8. SUFFICES ASSUME NEW w \in Workflows
               PROVE  workflowDepth(w)' + Cardinality(Inserting(w)')
                        < MaxDepth + Cardinality(Callers)
  BY <1>6, <1>7 DEF QInv, DepthBounded
<1>9. workflowDepth(w) + Cardinality(Inserting(w)) < MaxDepth + Cardinality(Callers)
  BY DEF QInv, DepthBounded
<1>10. CASE w = s[1]
  <2>1. {q \in table' : q.scope[1] = w} = OfWorkflow(w) \cup {row}
    BY <1>1, <1>4, <1>10 DEF OfWorkflow
  <2>2. /\ workflowDepth(w)' \in Nat
        /\ workflowDepth(w)' <= workflowDepth(w) + 1
    <3>1. workflowDepth(w)' = Cardinality(OfWorkflow(w) \cup {row})
      BY <2>1 DEF workflowDepth
    <3>2. /\ IsFiniteSet(OfWorkflow(w))
          /\ workflowDepth(w) = Cardinality(OfWorkflow(w)) /\ workflowDepth(w) \in Nat
      BY Counts DEF QInv
    <3> HIDE DEF row
    <3>3. \/ Cardinality(OfWorkflow(w) \cup {row}) = Cardinality(OfWorkflow(w))
          \/ Cardinality(OfWorkflow(w) \cup {row}) = Cardinality(OfWorkflow(w)) + 1
      BY <3>2, FS_AddElement
    <3> QED
      BY <3>1, <3>2, <3>3
  <2>3. Inserting(w)' = Inserting(w) \ {c} /\ c \in Inserting(w)
    BY <1>1, <1>2, <1>10, IdleOp DEF Inserting, Answer, QInv, QueueTypeOK
  <2>4. /\ IsFiniteSet(Inserting(w)) /\ Cardinality(Inserting(w)) \in Nat
        /\ Cardinality(Callers) \in Nat /\ workflowDepth(w) \in Nat
    BY Counts DEF QInv
  <2>5. /\ Cardinality(Inserting(w)') = Cardinality(Inserting(w)) - 1
        /\ Cardinality(Inserting(w)') \in Nat
    BY <2>3, <2>4, FS_RemoveElement, FS_CardinalityType
  <2> QED
    BY <1>9, <2>2, <2>4, <2>5, MaxDepthAssumption
<1>11. CASE w # s[1]
  <2>1. {q \in table' : q.scope[1] = w} = OfWorkflow(w)
    BY <1>1, <1>4, <1>11 DEF OfWorkflow
  <2>2. workflowDepth(w)' = workflowDepth(w)
    BY <2>1 DEF workflowDepth, OfWorkflow
  <2>3. Inserting(w)' = Inserting(w)
    BY <1>1, <1>2, <1>11, IdleOp DEF Inserting, Answer, QInv, QueueTypeOK
  <2> QED
    BY <1>9, <2>2, <2>3
<1> QED
  BY <1>10, <1>11

\* An answer that comes with no new row keeps the invariant.
LEMMA AnswerInv ==
  ASSUME QInv, NEW c \in Callers, NEW r \in Replies, Answer(c, r),
         table' \subseteq table, UNCHANGED <<sequence, orphans>>
  PROVE  QInv'
<1>1. table' \subseteq Rows /\ sequence' \in Nat /\ orphans' \subseteq Scopes
  BY DEF QInv, QueueTypeOK
<1>2. QueueTypeOK'
  BY <1>1, AnswerType DEF QInv
<1>3. \A w \in Workflows : Inserting(w)' \subseteq Inserting(w)
  BY IdleOp, NotAdmitted DEF QInv, Answer
<1> QED
  BY <1>2, <1>3, Shrink DEF QInv

\* DELETE ... RETURNING and the validation after it.
LEMMA PopInv ==
  ASSUME QInv, NEW c \in Callers, Pop(c)
  PROVE  QInv'
<1> DEFINE s == call[c].scope
           old == Oldest(s, call[c].key)
           p == <<s[1], s[2], call[c].key>>
           Read(r) == Parse(call[c].version, r.scope, r.item)
<1>1. call[c].op = "pop" /\ table' = table \ old /\ UNCHANGED <<sequence, orphans>>
  BY DEF Pop
<1>2. /\ call[c] \in [op : {"pop"}, scope : Scopes, key : Keys, version : Versions]
      /\ <<s, call[c].key>> \in Addresses
  BY <1>1 DEF QInv, QueueTypeOK, Idle
<1>3. p \in Partitions
  BY <1>2 DEF Partitions
<1>4. <<"empty", p>> \in Replies
  BY <1>3 DEF Replies
<1>5. ASSUME NEW r \in old, Read(r) # Invalid
      PROVE  <<"found", p, Read(r)>> \in Replies
  <2>1. r \in Rows
    BY DEF Oldest, Partition, QInv, QueueTypeOK
  <2>2. Read(r) \in Items
    BY <1>2, <1>5, <2>1, ParseType DEF Rows
  <2> HIDE DEF p, Read
  <2> QED
    BY <1>3, <2>2 DEF Replies
<1>6. \E x \in Replies : Answer(c, x)
  <2>1. \/ Answer(c, <<"empty", p>>)
        \/ Answer(c, error)
        \/ \E r \in old : Read(r) # Invalid /\ Answer(c, <<"found", p, Read(r)>>)
    BY DEF Pop
  <2> QED
    BY <1>4, <1>5, <2>1, PlainReplies
<1> QED
  BY <1>1, <1>6, AnswerInv

\* A step that only deletes rows and leaves the callers alone.
LEMMA DeleteInv ==
  ASSUME QInv, table' \subseteq table, reply' = none, orphans' \subseteq Scopes,
         UNCHANGED <<sequence, call>>
  PROVE  QInv'
<1>1. QueueTypeOK'
  BY PlainReplies DEF QInv, QueueTypeOK
<1>2. \A w \in Workflows : Inserting(w)' \subseteq Inserting(w)
  BY DEF Inserting
<1> QED
  BY <1>1, <1>2, Shrink DEF QInv

\* A crash empties every call.
LEMMA CrashInv == QInv /\ QueueCrash => QInv'
<1> SUFFICES ASSUME QInv, QueueCrash PROVE QInv'
  OBVIOUS
<1>1. QueueTypeOK'
  BY PlainReplies DEF QInv, QueueTypeOK, QueueCrash
<1>2. \A w \in Workflows : Inserting(w)' \subseteq Inserting(w)
  BY DEF Inserting, QueueCrash, Idle
<1>3. table' \subseteq table
  BY DEF QueueCrash
<1> QED
  BY <1>1, <1>2, <1>3, Shrink DEF QInv

\* No row, no call.
LEMMA InitInv == QueueInit => QInv
<1> SUFFICES ASSUME QueueInit PROVE QInv
  OBVIOUS
<1>1. QueueTypeOK
  BY PlainReplies DEF QueueInit, QueueTypeOK
<1>2. IsFiniteSet(table)
  BY FS_EmptySet DEF QueueInit
<1>3. SUFFICES ASSUME NEW w \in Workflows
               PROVE  workflowDepth(w) + Cardinality(Inserting(w))
                        < MaxDepth + Cardinality(Callers)
  BY <1>1, <1>2 DEF QInv, DepthBounded
<1>4. OfWorkflow(w) = {} /\ Inserting(w) = {}
  BY DEF QueueInit, OfWorkflow, Inserting, Idle
<1>5. workflowDepth(w) = 0 /\ Cardinality(Inserting(w)) = 0
  BY <1>2, <1>4, Counts, FS_EmptySet
<1>6. Cardinality(Callers) \in Nat
  BY FS_CardinalityType, CallersAssumption
<1> QED
  BY <1>5, <1>6, MaxDepthAssumption

\* Every step of a caller, of the registry and of the process keeps QInv.
LEMMA NextInv == QInv /\ [QueueNext]_queueVars => QInv'
<1> SUFFICES ASSUME QInv, [QueueNext]_queueVars PROVE QInv'
  OBVIOUS
<1>1. ASSUME NEW c \in Callers, NEW v \in Versions, NEW a \in Addresses,
             GetCall(c, v, a[1], a[2]) \/ \E i \in Items : PutCall(c, v, a[1], a[2], i)
      PROVE  QInv'
  BY <1>1, GetCallInv, PutCallInv
<1>2. ASSUME NEW c \in Callers, Statement(c)
      PROVE  QInv'
  <2>1. CASE StatementFails(c)
    BY <2>1, AnswerInv, PlainReplies DEF StatementFails
  <2> QED
    BY <1>2, <2>1, PutCountInv, PutInsertInv, PopInv DEF Statement
<1>3. ASSUME NEW S, removeDeclaration(S), UNCHANGED <<sequence, call, orphans>>
      PROVE  QInv'
  BY <1>3, DeleteInv DEF removeDeclaration, QInv, QueueTypeOK
<1>4. ASSUME NEW v \in Versions, Reconcile(Declared(v))
      PROVE  QInv'
  <2>1. orphans' \subseteq Scopes
    BY <1>4 DEF Reconcile, QInv, QueueTypeOK, Rows
  <2> QED
    BY <1>4, <2>1, DeleteInv DEF Reconcile
<1>5. ASSUME NEW s \in Scopes, DeleteOrphan(s)
      PROVE  QInv'
  BY <1>5, DeleteInv DEF DeleteOrphan, removeDeclaration, QInv, QueueTypeOK
<1>6. CASE UNCHANGED queueVars
  BY <1>6 DEF queueVars, QInv, QueueTypeOK, DepthBounded, workflowDepth, Inserting
<1> QED
  BY <1>1, <1>2, <1>3, <1>4, <1>5, <1>6, CrashInv DEF QueueNext

-----------------------------------------------------------------------------
(* Theorems.                                                               *)

\* The inductive invariant holds in every reachable state.
THEOREM QueueInvariant == QueueSpec => []QInv
BY InitInv, NextInv, PTL DEF QueueSpec

\* The table, the outstanding statements and the answers keep their types: no
\* rejected item is ever stored or handed out.
THEOREM QueueTypeCorrect == QueueSpec => []QueueTypeOK
<1>1. QInv => QueueTypeOK
  BY DEF QInv
<1> QED
  BY <1>1, QueueInvariant, PTL

\* put() checks the depth of the workflow in one statement and inserts in the
\* next: however the statements of any number of callers interleave, the cap
\* is overrun by fewer rows than there are callers.
THEOREM DepthBoundedAlways == QueueSpec => []DepthBounded
<1>1. QInv => DepthBounded
  BY DEF QInv
<1> QED
  BY <1>1, QueueInvariant, PTL
=============================================================================
