------------------------------ MODULE IntakeProofs -----------------------------
(* Proofs about UploadIntake, for every limit, every finite set of messages   *)
(* of the user, and all bounds of the queue.                                  *)
EXTENDS UploadIntake, TaskQueueProofs, FiniteSetTheorems

--------------------------------------------------------------------------------
(* The queue under the intake.                                                *)

QueuePart == TypeInv /\ OwnerInv /\ DoneInv

\* A count of documents changes nothing of the queue, though it may fail.
LEMMA CountingChangesNothing ==
  ASSUME QueuePart, UNCHANGED <<db, world, mgr, wk, crashes, resizes>>, faults' \in 0..MaxDbFaults
  PROVE  QueuePart'
<1> USE DEF db, world, mgr, wk
<1>1. TypeInv'
  BY DEF QueuePart, TypeInv, TypeOK, WorkerInv, DownInv, Enqueuing
<1>2. OwnerInv'
  BY DEF QueuePart, OwnerInv, SingleOwner, NewInv, Owned, Waiting, Processed, Enqueuing
<1>3. DoneInv'
  BY DEF QueuePart, DoneInv, StageInv, CompletedInv, Finished, Waiting, Enqueuing
<1> QED BY <1>1, <1>2, <1>3 DEF QueuePart

LEMMA QueuePartStep == QueuePart /\ [IntakeNext]_<<vars, ivars>> => QueuePart'
<1> SUFFICES ASSUME QueuePart, [IntakeNext]_<<vars, ivars>> PROVE QueuePart'
  OBVIOUS
<1>1. ASSUME [Next]_vars
      PROVE  QueuePart'
  BY <1>1, TypeStep, OwnerStep, DoneStep DEF QueuePart
<1>2. ASSUME NEW t \in Tasks, CheckLimit(t)
      PROVE  QueuePart'
  <2>1. faults' \in 0..MaxDbFaults
    BY <1>2, QueueAssumption DEF QueueAssumption, CheckLimit, QueuePart, TypeInv, TypeOK
  <2>2. UNCHANGED <<db, world, mgr, wk, crashes, resizes>>
    BY <1>2 DEF CheckLimit
  <2> QED BY <2>1, <2>2, CountingChangesNothing
<1>3. CASE Queue \/ IntakeQuiescent \/ UNCHANGED <<vars, ivars>>
  BY <1>1, <1>3 DEF Queue, IntakeQuiescent
<1>4. ASSUME NEW t \in Tasks, TurnedAway(t) \/ ReplyFails(t)
      PROVE  QueuePart'
  BY <1>1, <1>4 DEF TurnedAway, ReplyFails
<1> QED BY <1>2, <1>3, <1>4 DEF IntakeNext

LEMMA QueuePartInvariant == IntakeSpec => []QueuePart
<1>1. IntakeInit => QueuePart
  BY TypeInit, OwnerInit, DoneInit DEF IntakeInit, QueuePart
<1> QED BY <1>1, QueuePartStep, PTL DEF IntakeSpec

--------------------------------------------------------------------------------
(* What a step of the queue adds to the tasks in progress.                    *)

\* Only Insert makes a document, one at a time, for a handler that begins.
LEMMA NewDocument ==
  ASSUME TypeInv, OwnerInv, Next
  PROVE  \/ \A u \in Tasks : status[u] = "absent" => status'[u] = "absent"
         \/ \E t \in Tasks : /\ handler[t] = "new" /\ handler'[t] # "new"
                             /\ status[t] = "absent" /\ status'[t] = "queued"
                             /\ \A u \in Tasks : u # t => status'[u] = status[u]
<1> DEFINE Kept == \A u \in Tasks : status[u] = "absent" => status'[u] = "absent"
<1>a. status \in [Tasks -> {"absent"} \cup PendingStatus \cup TerminalStatus]
      /\ handler \in [Tasks -> {"new", "done"} \cup HandlerInProgress]
  BY DEF TypeInv, TypeOK
<1>1. ASSUME NEW t \in Owned, NEW s, status' = [status EXCEPT ![t] = s]
      PROVE  Kept
  BY <1>a, <1>1 DEF OwnerInv, NewInv
<1>2. ASSUME NEW t \in Tasks, EnqueueInsert(t)
      PROVE  \/ Kept
             \/ /\ handler[t] = "new" /\ handler'[t] # "new"
                /\ status[t] = "absent" /\ status'[t] = "queued"
                /\ \A u \in Tasks : u # t => status'[u] = status[u]
  BY <1>a, <1>2 DEF EnqueueInsert, OwnerInv, NewInv
<1>3. ASSUME NEW t \in Tasks, EnqueueReject(t)
      PROVE  Kept
  <2>1. t \in Owned
    BY <1>3 DEF EnqueueReject, Owned, Enqueuing, HandlerInProgress
  <2> QED BY <1>1, <1>3, <2>1 DEF EnqueueReject, SetStatus
<1>4. ASSUME NEW t \in Tasks,
             EnqueueRegister(t) \/ EnqueuePush(t) \/ EnqueueFull(t) \/ Cancel(t) \/ ResumePush(t)
      PROVE  Kept
  BY <1>4 DEF EnqueueRegister, EnqueuePush, EnqueueFull, Cancel, ResumePush, db
<1>5. ASSUME NEW w \in Workers, Worker(w)
      PROVE  Kept
  <2>1. CASE Dequeue(w) \/ WorkerExit(w) \/ Cleanup(w)
    BY <2>1 DEF Dequeue, WorkerExit, Cleanup, db
  <2>2. CASE Middle(w)
    <3>1. job[w] \in Owned
      BY <2>2, MiddleEffect, QueueAssumption DEF QueueAssumption, Owned, Processed
    <3> QED BY <1>1, <2>2, <3>1, MiddleEffect DEF Written
  <2> QED BY <1>5, <2>1, <2>2, WorkerCases
<1>6. CASE StopPool \/ StartPool \/ Crash \/ Start \/ ResumeDone \/ Quiescent
  BY <1>6 DEF StopPool, StartPool, Crash, Start, ResumeDone, Quiescent, vars, db
<1> QED BY <1>2, <1>3, <1>4, <1>5, <1>6 DEF Next, Enqueue, EnqueueRest

\* A handler that began never begins again.
LEMMA HandlersBeginOnce ==
  ASSUME TypeInv, Next, NEW t \in Tasks, handler'[t] = "new"
  PROVE  handler[t] = "new"
<1>a. handler \in [Tasks -> {"new", "done"} \cup HandlerInProgress]
  BY DEF TypeInv, TypeOK
<1>1. ASSUME NEW u \in Tasks, Enqueue(u)
      PROVE  handler[t] = "new"
  BY <1>a, <1>1 DEF Enqueue, EnqueueRest, EnqueueInsert, EnqueueRegister, EnqueuePush, EnqueueFull,
     EnqueueReject
<1>2. ASSUME NEW u \in Tasks, Cancel(u) \/ ResumePush(u)
      PROVE  handler[t] = "new"
  BY <1>2 DEF Cancel, ResumePush
<1>3. ASSUME NEW w \in Workers, Worker(w)
      PROVE  handler[t] = "new"
  <2>1. CASE Dequeue(w) \/ WorkerExit(w) \/ Cleanup(w)
    BY <2>1 DEF Dequeue, WorkerExit, Cleanup, mgr
  <2> QED BY <1>3, <2>1, MiddleEffect, WorkerCases
<1>4. CASE StopPool \/ StartPool \/ Crash \/ Start \/ ResumeDone \/ Quiescent
  BY <1>4 DEF StopPool, StartPool, Crash, Start, ResumeDone, Quiescent, vars, mgr
<1> QED BY <1>1, <1>2, <1>3, <1>4 DEF Next

--------------------------------------------------------------------------------
(* The limit.                                                                 *)

Counted == Pending \ extra

\* LimitHolds and why it is kept: a message that was admitted, and that no other
\* one has overtaken, still has room.
LimitInv ==
  /\ LimitHolds
  /\ \A t \in Admitted \ extra : Cardinality(Counted) < Limit

LEMMA CountedIsFinite ==
  /\ IsFiniteSet(Pending) /\ IsFiniteSet(Counted)
  /\ Cardinality(Counted) \in Nat /\ Cardinality(Counted) <= Cardinality(Pending)
<1>1. IsFiniteSet(Pending) /\ Counted \subseteq Pending
  BY IntakeAssumption, FS_Subset DEF IntakeAssumption, Pending, Counted
<1> QED BY <1>1, FS_Subset, FS_CardinalityType

LEMMA LimitInit == IntakeInit => LimitInv
<1> SUFFICES ASSUME IntakeInit PROVE LimitInv
  OBVIOUS
<1>1. Counted = {}
  BY DEF IntakeInit, Init, Counted, Pending, PendingStatus
<1>2. Cardinality(Counted) = 0
  BY <1>1, FS_EmptySet
<1> QED BY <1>2, IntakeAssumption DEF IntakeAssumption, LimitInv, LimitHolds, Counted, IntakeInit, Admitted

\* Nothing is added to what is counted.
LEMMA LimitFrame ==
  ASSUME LimitInv, Counted' \subseteq Counted,
         Admitted' \ extra' \subseteq Admitted \ extra
  PROVE  LimitInv'
<1>1. /\ Cardinality(Counted') \in Nat /\ Cardinality(Counted) \in Nat
      /\ Cardinality(Counted') <= Cardinality(Counted)
  BY CountedIsFinite, FS_Subset, FS_CardinalityType
<1>2. Cardinality(Counted) <= Limit /\ Limit \in Nat
  BY IntakeAssumption DEF IntakeAssumption, LimitInv, LimitHolds, Counted
<1>3. LimitHolds'
  BY <1>1, <1>2 DEF LimitHolds, Counted
<1>4. ASSUME NEW t \in Admitted' \ extra'
      PROVE  Cardinality(Counted') < Limit
  BY <1>1, <1>2, <1>4 DEF LimitInv
<1> QED BY <1>3, <1>4 DEF LimitInv

LEMMA LimitQueue ==
  ASSUME QueuePart, LimitInv, Queue
  PROVE  LimitInv'
<1>a. TypeInv /\ OwnerInv /\ DoneInv /\ Next
  BY DEF QueuePart, Queue
<1>b. /\ status \in [Tasks -> {"absent"} \cup PendingStatus \cup TerminalStatus]
      /\ extra \subseteq extra'
  BY <1>a DEF TypeInv, TypeOK, Queue
<1>1. Admitted' \subseteq Admitted
  <2>1. SUFFICES ASSUME NEW t \in Tasks, intake'[t] = "admitted", handler'[t] = "new"
                 PROVE  t \in Admitted
    BY DEF Admitted
  <2>2. handler[t] = "new"
    BY <1>a, <2>1, HandlersBeginOnce
  <2>3. intake[t] = "admitted"
    BY <2>1 DEF Queue
  <2> QED BY <2>2, <2>3 DEF Admitted
<1>2. ASSUME NEW t \in Tasks, t \in Counted', t \notin Counted
      PROVE  status[t] = "absent" /\ status'[t] # "absent"
  <2>1. status'[t] \in PendingStatus /\ t \notin extra' /\ t \notin extra
    BY <1>b, <1>2 DEF Counted, Pending
  <2>2. status[t] \notin PendingStatus
    BY <1>2, <2>1 DEF Counted, Pending
  <2>3. status[t] # "failed"
    BY <2>1 DEF Queue
  <2>4. status[t] # "completed"
    <3>1. CASE status[t] = "completed"
      BY <1>a, <2>1, <3>1, FinalStep DEF Final, PendingStatus
    <3> QED BY <3>1
  <2> QED BY <1>b, <2>1, <2>2, <2>3, <2>4 DEF TerminalStatus, PendingStatus
<1>3. CASE \A u \in Tasks : status[u] = "absent" => status'[u] = "absent"
  <2>1. Counted' \subseteq Counted
    BY <1>2, <1>3 DEF Counted, Pending
  <2> QED BY <1>1, <1>b, <2>1, LimitFrame
<1>4. ASSUME NEW t \in Tasks,
             /\ handler[t] = "new" /\ handler'[t] # "new"
             /\ status[t] = "absent" /\ status'[t] = "queued"
             /\ \A u \in Tasks : u # t => status'[u] = status[u]
      PROVE  LimitInv'
  <2>1. t \in Admitted /\ t \notin Counted
    BY <1>4 DEF Queue, Counted, Pending, PendingStatus
  <2>2. Admitted' \subseteq extra'
    <3>1. SUFFICES ASSUME NEW u \in Admitted' PROVE u \in extra'
      OBVIOUS
    <3>2. u \in Admitted /\ handler'[u] = "new"
      BY <1>1, <3>1 DEF Admitted
    <3> QED BY <1>4, <3>2 DEF Queue
  <2>3. Counted' \subseteq Counted \cup {t}
    BY <1>2, <1>4 DEF Counted, Pending
  <2>4. CASE t \in extra
    <3>1. Counted' \subseteq Counted
      BY <1>b, <2>3, <2>4 DEF Counted
    <3> QED BY <1>1, <1>b, <3>1, LimitFrame
  <2>5. CASE t \notin extra
    <3>1. Cardinality(Counted) < Limit
      BY <2>1, <2>5 DEF LimitInv
    <3>2. /\ IsFiniteSet(Counted \cup {t})
          /\ Cardinality(Counted \cup {t}) = Cardinality(Counted) + 1
      BY <2>1, CountedIsFinite, FS_AddElement
    <3>3. /\ Cardinality(Counted') <= Cardinality(Counted \cup {t})
          /\ Cardinality(Counted') \in Nat
      BY <2>3, <3>2, FS_Subset, FS_CardinalityType
    <3>4. Cardinality(Counted') <= Limit
      BY <3>1, <3>2, <3>3, CountedIsFinite, IntakeAssumption DEF IntakeAssumption
    <3> QED BY <2>2, <3>4 DEF LimitInv, LimitHolds, Counted
  <2> QED BY <2>4, <2>5
<1> QED BY <1>a, <1>3, <1>4, NewDocument

LEMMA LimitStep == QueuePart /\ LimitInv /\ [IntakeNext]_<<vars, ivars>> => LimitInv'
<1> SUFFICES ASSUME QueuePart, LimitInv, [IntakeNext]_<<vars, ivars>> PROVE LimitInv'
  OBVIOUS
<1>1. ASSUME NEW t \in Tasks, CheckLimit(t)
      PROVE  LimitInv'
  <2>1. UNCHANGED <<status, handler>> /\ Pending' = Pending /\ extra \subseteq extra'
    BY <1>1 DEF CheckLimit, db, mgr, Pending
  <2>2. Counted' \subseteq Counted
    BY <2>1 DEF Counted
  <2>3. CASE InProgress < Limit /\ extra' = extra
    <3>1. Cardinality(Counted) < Limit /\ Counted' = Counted
      BY <2>1, <2>3, CountedIsFinite, FS_CardinalityType, IntakeAssumption
      DEF IntakeAssumption, InProgress, Counted
    <3> QED BY <3>1, IntakeAssumption, CountedIsFinite DEF IntakeAssumption, LimitInv, LimitHolds, Counted
  <2>4. CASE Leave(t)
    <3>1. Admitted' \subseteq Admitted
      BY <2>1, <2>4 DEF Leave, Admitted
    <3> QED BY <2>1, <2>2, <3>1, LimitFrame
  <2>5. CASE intake' = [intake EXCEPT ![t] = "admitted"] /\ extra' = extra \cup {t}
    <3>1. Admitted' \ extra' \subseteq Admitted \ extra
      BY <2>1, <2>5 DEF Admitted
    <3> QED BY <2>2, <3>1, LimitFrame
  <2>6. InProgress \in Nat /\ Limit \in Nat
    BY CountedIsFinite, FS_CardinalityType, IntakeAssumption DEF IntakeAssumption, InProgress
  <2> QED BY <1>1, <2>3, <2>4, <2>5, <2>6 DEF CheckLimit
<1>2. ASSUME NEW t \in Tasks, TurnedAway(t) \/ ReplyFails(t)
      PROVE  LimitInv'
  <2>1. UNCHANGED <<status, handler, extra>> /\ Leave(t)
    BY <1>2 DEF TurnedAway, ReplyFails, vars, db, mgr
  <2>2. Counted' \subseteq Counted /\ Admitted' \subseteq Admitted
    BY <2>1 DEF Counted, Pending, Leave, Admitted
  <2> QED BY <2>1, <2>2, LimitFrame
<1>3. CASE IntakeQuiescent \/ UNCHANGED <<vars, ivars>>
  BY <1>3 DEF IntakeQuiescent, vars, ivars, db, mgr, LimitInv, LimitHolds, Counted, Pending, Admitted
<1> QED BY <1>1, <1>2, <1>3, LimitQueue DEF IntakeNext

\* A user never has more tasks in progress than the limit allows, but for those
\* the limit was not asked about in time, in every life of the process.
THEOREM LimitIsKept == IntakeSpec => []LimitHolds
<1>1. LimitInv => LimitHolds
  BY DEF LimitInv
<1> QED BY <1>1, LimitInit, LimitStep, QueuePartInvariant, PTL DEF IntakeSpec
================================================================================
