---------------------------- MODULE TaskQueueProofs ----------------------------
(* Proofs about TaskQueue, for every set of tasks and workers, every queue    *)
(* size, retry limit and number of crashes, resizes and database faults.      *)
EXTENDS TaskQueue, SequenceTheorems, TLAPS

--------------------------------------------------------------------------------
(* Typing.                                                                    *)

TypeInv == TypeOK /\ WorkerInv /\ DownInv

LEMMA MaxAttemptsType == MaxAttempts \in Nat \ {0}
  BY QueueAssumption DEF QueueAssumption, MaxAttempts

\* UpdateStatus keeps the types of what it writes.
LEMMA SetStatusType ==
  ASSUME TypeOK, NEW t \in Tasks, NEW s \in PendingStatus \cup TerminalStatus,
         SetStatus(t, s)
  PROVE  /\ status' \in [Tasks -> {"absent"} \cup PendingStatus \cup TerminalStatus]
         /\ lost' \subseteq Tasks
         /\ faults' \in 0..MaxDbFaults
<1> DEFINE Status == {"absent"} \cup PendingStatus \cup TerminalStatus
<1>1. /\ status \in [Tasks -> Status] /\ s \in Status
      /\ lost \subseteq Tasks
      /\ faults \in 0..MaxDbFaults /\ MaxDbFaults \in Nat
  BY QueueAssumption DEF QueueAssumption, TypeOK
<1> HIDE DEF Status
<1>2. status' \in [Tasks -> Status] /\ lost' \subseteq Tasks
  BY <1>1 DEF SetStatus
<1>3. faults' \in 0..MaxDbFaults
  BY <1>1 DEF SetStatus
<1> QED BY <1>2, <1>3 DEF Status

\* Retry goes on to a later stage, and backs off only before the last attempt.
LEMMA AfterAttemptType ==
  ASSUME NEW r, NEW a
  PROVE  /\ AfterAttempt(r, a) \in {"cleanup", "backoff", "giveup"}
         /\ AfterAttempt(r, a) = "backoff" => a < MaxAttempts
         /\ AfterAttempt(r, a) = "cleanup" => r = "ok"
         /\ r = "ok" => AfterAttempt(r, a) = "cleanup"
  BY DEF AfterAttempt

LEMMA BusyHasJob ==
  ASSUME TypeInv, NEW w \in Workers, pc[w] \in Busy
  PROVE  job[w] \in Tasks
  BY DEF TypeInv, TypeOK, WorkerInv

LEMMA TypeInit == Init => TypeInv
<1> SUFFICES ASSUME Init PROVE TypeInv OBVIOUS
<1>1. TypeOK
  BY MaxAttemptsType, QueueAssumption
  DEF QueueAssumption, Init, TypeOK, Parked, PendingStatus, TerminalStatus, HandlerInProgress
<1>2. WorkerInv /\ DownInv
  BY DEF Init, WorkerInv, DownInv, Enqueuing, HandlerInProgress, Busy, Attempting
<1> QED BY <1>1, <1>2 DEF TypeInv

\* A step of a handler, of Cancel or of Resume's loop keeps the types.
LEMMA TypeEnqueue ==
  ASSUME TypeInv, NEW t \in Tasks, Enqueue(t) \/ Cancel(t) \/ ResumePush(t)
  PROVE  TypeOK'
<1> USE DEF TypeInv, TypeOK, db, world, wk
<1>1. CASE EnqueueInsert(t)
  <2>1. status' \in [Tasks -> {"absent"} \cup PendingStatus \cup TerminalStatus]
    BY <1>1 DEF EnqueueInsert, PendingStatus
  <2>2. handler' \in [Tasks -> {"new", "done"} \cup HandlerInProgress]
    BY <1>1 DEF EnqueueInsert, HandlerInProgress
  <2>3. faults' \in 0..MaxDbFaults /\ lost' \subseteq Tasks
    BY <1>1, QueueAssumption DEF QueueAssumption, EnqueueInsert
  <2> QED BY <1>1, <2>1, <2>2, <2>3 DEF EnqueueInsert
<1>2. CASE EnqueueRegister(t)
  BY <1>2 DEF EnqueueRegister, HandlerInProgress
<1>3. CASE EnqueuePush(t)
  BY <1>3 DEF EnqueuePush
<1>4. CASE EnqueueFull(t)
  BY <1>4 DEF EnqueueFull, HandlerInProgress
<1>5. CASE EnqueueReject(t)
  <2>1. SetStatus(t, "failed") /\ "failed" \in TerminalStatus
    BY <1>5 DEF EnqueueReject, TerminalStatus
  <2> QED BY <1>5, <2>1, SetStatusType DEF EnqueueReject
<1>6. CASE Cancel(t)
  BY <1>6 DEF Cancel
<1>7. CASE ResumePush(t)
  <2>1. \/ jobs' = Append(jobs, t) /\ dropped' = dropped
        \/ jobs' = jobs /\ dropped' = dropped \cup {t}
    BY <1>7 DEF ResumePush
  <2>2. jobs' \in Seq(Tasks)
    <3>1. jobs \in Seq(Tasks) /\ Append(jobs, t) \in Seq(Tasks)
      BY AppendProperties
    <3>2. jobs' \in {jobs, Append(jobs, t)}
      BY <2>1
    <3> QED BY <3>1, <3>2
  <2>4. dropped' \subseteq Tasks
    BY <2>1
  <2>3. /\ resume' = resume \ {t} /\ cancels' = cancels \cup {t}
        /\ UNCHANGED <<db, world, phase, pool, canceled, handler, wk, crashes, resizes,
                       faults>>
    BY <1>7 DEF ResumePush
  <2> QED BY <2>2, <2>3, <2>4
<1> QED BY <1>1, <1>2, <1>3, <1>4, <1>5, <1>6, <1>7 DEF Enqueue, EnqueueRest

\* A step of a worker keeps the types.
LEMMA TypeWorker ==
  ASSUME TypeInv, NEW w \in Workers, Worker(w)
  PROVE  TypeOK'
<1>1. TypeOK /\ (pc[w] \in Busy => job[w] \in Tasks)
  BY BusyHasJob DEF TypeInv
<1>2. /\ Parked = {"idle", "exited"}
      /\ Busy = {"attempt", "starting", "downloading", "streaming", "downloaded",
                 "uploading", "sending", "finishing", "returning", "backoff", "giveup",
                 "cleanup"}
      /\ {"downloading", "uploading"} \subseteq PendingStatus
      /\ TerminalStatus = {"completed", "failed"}
  BY DEF Parked, Busy, Attempting, PendingStatus, TerminalStatus
<1>3. ASSUME NEW s \in PendingStatus \cup TerminalStatus, SetStatus(job[w], s),
             pc[w] \in Busy
      PROVE  /\ status' \in [Tasks -> {"absent"} \cup PendingStatus \cup TerminalStatus]
             /\ lost' \subseteq Tasks
             /\ faults' \in 0..MaxDbFaults
  BY <1>1, <1>3, SetStatusType
<1> USE <1>1, <1>2 DEF TypeOK, Goto, db, world, mgr
<1>4. CASE Dequeue(w)
  <2>1. Head(jobs) \in Tasks /\ Tail(jobs) \in Seq(Tasks)
    BY <1>4 DEF Dequeue
  <2> QED BY <1>4, <2>1 DEF Dequeue
<1>5. CASE WorkerExit(w)
  BY <1>5 DEF WorkerExit
<1>6. CASE BeginAttempt(w)
  <2>1. faults' \in 0..MaxDbFaults
    BY <1>6, QueueAssumption DEF QueueAssumption, BeginAttempt
  <2>3. \/ retryCount' = retryCount
        \/ retryCount' = [retryCount EXCEPT ![job[w]] = @ + 1]
    BY <1>6 DEF BeginAttempt
  <2>4. retryCount' \in [Tasks -> Nat]
    <3>1. job[w] \in Tasks /\ retryCount[job[w]] + 1 \in Nat
      BY <1>6 DEF BeginAttempt
    <3> QED BY <2>3, <3>1
  <2>2. pc' \in [Workers -> Parked \cup Busy]
    BY <1>6 DEF BeginAttempt
  <2> QED BY <1>6, <2>1, <2>2, <2>4 DEF BeginAttempt
<1>7. CASE MarkDownloading(w)
  <2>1. \E l \in Busy : pc' = [pc EXCEPT ![w] = l]
    BY <1>7, AfterAttemptType DEF MarkDownloading
  <2> QED BY <1>3, <1>7, <2>1 DEF MarkDownloading
<1>8. CASE CreateFile(w)
  BY <1>8 DEF CreateFile
<1>9. CASE DownloadDone(w)
  BY <1>9 DEF DownloadDone
<1>10. CASE DownloadFailed(w) \/ TooLarge(w) \/ UploadFailed(w)
  <2> DEFINE Failing(r) == /\ pc[w] \in Busy /\ SetStatus(job[w], "failed")
                           /\ outcome' = [outcome EXCEPT ![w] = r]
                           /\ pc' = [pc EXCEPT ![w] = "returning"]
                           /\ UNCHANGED <<retryCount, world, mgr, job, attempt, crashes,
                                          resizes>>
  <2>1. Failing("retry") \/ Failing("fatal")
    BY <1>10 DEF DownloadFailed, TooLarge, UploadFailed, Fail
  <2> QED BY <1>3, <2>1
<1>11. CASE NotLoggedIn(w)
  BY <1>11 DEF NotLoggedIn
<1>12. CASE MarkUploading(w)
  BY <1>3, <1>12 DEF MarkUploading
<1>13. CASE UploadDone(w)
  BY <1>13 DEF UploadDone
<1>19. CASE OpenFile(w)
  BY <1>19 DEF OpenFile
<1>14. CASE Finish(w)
  BY <1>3, <1>14 DEF Finish
<1>15. CASE Return(w)
  <2>1. pc' \in [Workers -> Parked \cup Busy]
    BY <1>15, AfterAttemptType DEF Return
  <2> QED BY <1>15, <2>1 DEF Return
<1>16. CASE Backoff(w)
  <2>1. attempt[w] + 1 \in 1..MaxAttempts
    BY <1>16, MaxAttemptsType DEF Backoff, TypeInv, WorkerInv
  <2>2. attempt' \in [Workers -> 1..MaxAttempts]
    BY <1>16, <2>1 DEF Backoff
  <2>3. pc' \in [Workers -> Parked \cup Busy]
    BY <1>16 DEF Backoff
  <2> QED BY <1>16, <2>2, <2>3 DEF Backoff
<1>17. CASE GiveUp(w)
  BY <1>3, <1>17 DEF GiveUp
<1>18. CASE Cleanup(w)
  BY <1>18, MaxAttemptsType DEF Cleanup
<1> QED BY <1>4, <1>5, <1>6, <1>7, <1>8, <1>9, <1>10, <1>11, <1>12, <1>13, <1>14, <1>15,
           <1>16, <1>17, <1>18, <1>19 DEF Worker

\* So does a step of the pool or of the process.
LEMMA TypeProcess ==
  ASSUME TypeInv, StopPool \/ StartPool \/ Crash \/ Start \/ ResumeDone
  PROVE  TypeOK'
<1> USE DEF TypeInv, TypeOK, db, world, wk
<1>1. CASE StopPool
  BY <1>1, QueueAssumption DEF QueueAssumption, StopPool
<1>2. CASE StartPool
  BY <1>2 DEF StartPool, Parked
<1>3. CASE Crash
  <2>1. handler' \in [Tasks -> {"new", "done"} \cup HandlerInProgress]
    BY <1>3 DEF Crash
  <2>2. /\ pc' \in [Workers -> Parked \cup Busy] /\ job' \in [Workers -> Tasks \cup {None}]
        /\ attempt' \in [Workers -> 1..MaxAttempts]
        /\ outcome' \in [Workers -> {"none", "ok", "retry", "fatal"}]
    BY <1>3, MaxAttemptsType DEF Crash, Parked
  <2>3. crashes' \in 0..MaxCrashes
    BY <1>3, QueueAssumption DEF QueueAssumption, Crash
  <2> QED BY <1>3, <2>1, <2>2, <2>3 DEF Crash
<1>4. CASE Start
  <2>1. pc' \in [Workers -> Parked \cup Busy]
    BY <1>4 DEF Start, Parked
  <2>2. faults' \in 0..MaxDbFaults
    BY <1>4, QueueAssumption DEF QueueAssumption, Start
  <2> QED BY <1>4, <2>1, <2>2 DEF Start, Pending
<1>5. CASE ResumeDone
  BY <1>5 DEF ResumeDone
<1> QED BY <1>1, <1>2, <1>3, <1>4, <1>5

LEMMA WorkerInvStep ==
  ASSUME TypeInv, Next
  PROVE  WorkerInv'
<1>1. CASE \E t \in Tasks : Enqueue(t) \/ Cancel(t) \/ ResumePush(t)
  <2>1. UNCHANGED wk
    BY <1>1 DEF Enqueue, EnqueueRest, EnqueueInsert, EnqueueRegister, EnqueuePush,
       EnqueueFull, EnqueueReject, Cancel, ResumePush
  <2> QED BY <2>1 DEF TypeInv, WorkerInv, wk
<1>2. CASE \E w \in Workers : Worker(w)
  <2>1. PICK w \in Workers : Worker(w)
    BY <1>2
  <2> USE DEF TypeInv, TypeOK, WorkerInv, Goto, Busy, Attempting
  <2>2. CASE Dequeue(w)
    <3>1. Head(jobs) # None
      BY <2>2, QueueAssumption DEF QueueAssumption, Dequeue
    <3> QED BY <2>2, <3>1 DEF Dequeue
  <2>3. CASE MarkDownloading(w) \/ Return(w)
    BY <2>3, AfterAttemptType DEF MarkDownloading, Return
  <2>4. CASE Backoff(w)
    BY <2>4 DEF Backoff
  <2>5. CASE Cleanup(w)
    BY <2>5 DEF Cleanup
  <2>6. CASE WorkerExit(w)
    BY <2>6 DEF WorkerExit
  <2>7. CASE \/ BeginAttempt(w) \/ CreateFile(w) \/ DownloadDone(w) \/ NotLoggedIn(w)
             \/ DownloadFailed(w) \/ TooLarge(w) \/ MarkUploading(w) \/ OpenFile(w) \/ UploadDone(w)
             \/ UploadFailed(w) \/ Finish(w) \/ GiveUp(w)
    <3>1. /\ UNCHANGED <<job, attempt>> /\ pc[w] \in Busy
          /\ \E l \in Busy \ {"backoff"} : pc' = [pc EXCEPT ![w] = l]
      BY <2>7 DEF BeginAttempt, CreateFile, DownloadDone, NotLoggedIn, DownloadFailed,
         TooLarge, MarkUploading, OpenFile, UploadDone, UploadFailed, Fail, Finish, GiveUp
    <3> QED BY <3>1
  <2> QED BY <2>1, <2>2, <2>3, <2>4, <2>5, <2>6, <2>7 DEF Worker
<1>3. CASE StopPool \/ ResumeDone \/ Quiescent
  <2>1. UNCHANGED wk
    BY <1>3 DEF StopPool, ResumeDone, Quiescent, vars
  <2> QED BY <2>1 DEF TypeInv, WorkerInv, wk
<1>4. CASE StartPool
  BY <1>4 DEF StartPool, TypeInv, TypeOK, WorkerInv, Busy, Attempting
<1>5. CASE Crash
  BY <1>5 DEF Crash, TypeInv, TypeOK, WorkerInv, Busy, Attempting
<1>6. CASE Start
  BY <1>6 DEF Start, TypeInv, TypeOK, WorkerInv, DownInv, Busy, Attempting
<1> QED BY <1>1, <1>2, <1>3, <1>4, <1>5, <1>6 DEF Next

LEMMA DownInvStep ==
  ASSUME TypeInv, Next
  PROVE  DownInv'
<1> USE DEF TypeInv, TypeOK, DownInv, Enqueuing, HandlerInProgress
<1>1. CASE \E t \in Tasks : Enqueue(t)
  BY <1>1 DEF Enqueue, EnqueueRest, EnqueueInsert, EnqueueRegister, EnqueuePush,
     EnqueueFull, EnqueueReject, wk
<1>2. CASE \E t \in Tasks : Cancel(t) \/ ResumePush(t)
  BY <1>2 DEF Cancel, ResumePush, wk
<1>3. CASE \E w \in Workers : Worker(w)
  <2>1. PICK w \in Workers : Worker(w)
    BY <1>3
  <2>2. pc[w] # "exited" /\ UNCHANGED <<phase, pool, handler, resume>>
    BY <2>1 DEF Worker, Dequeue, WorkerExit, BeginAttempt, MarkDownloading, CreateFile,
       DownloadDone, NotLoggedIn, DownloadFailed, TooLarge, MarkUploading, OpenFile, UploadDone,
       UploadFailed, Fail, Finish, Return, Backoff, GiveUp, Cleanup, mgr
  <2> QED BY <2>2
<1>4. CASE StopPool
  BY <1>4 DEF StopPool, wk
<1>5. CASE StartPool
  BY <1>5 DEF StartPool
<1>6. CASE Crash
  BY <1>6 DEF Crash
<1>7. CASE Start
  BY <1>7 DEF Start
<1>8. CASE ResumeDone
  BY <1>8 DEF ResumeDone, wk
<1>9. CASE Quiescent
  BY <1>9 DEF Quiescent, vars, mgr, wk
<1> QED BY <1>1, <1>2, <1>3, <1>4, <1>5, <1>6, <1>7, <1>8, <1>9 DEF Next

LEMMA TypeStep == TypeInv /\ [Next]_vars => TypeInv'
<1>1. CASE UNCHANGED vars
  BY <1>1 DEF vars, db, world, mgr, wk, TypeInv, TypeOK, WorkerInv, DownInv, Enqueuing
<1>2. ASSUME TypeInv, Next PROVE TypeInv'
  <2>1. TypeOK'
    BY <1>1, <1>2, TypeEnqueue, TypeWorker, TypeProcess DEF Next, Quiescent, TypeInv
  <2> QED BY <1>2, <2>1, WorkerInvStep, DownInvStep DEF TypeInv
<1> QED BY <1>1, <1>2

LEMMA TypeInvariant == Spec => []TypeInv
  BY TypeInit, TypeStep, PTL DEF Spec

\* Every variable keeps its type: the attempt of a worker stays within
\* MaxAttempts and what the queue holds are tasks.
THEOREM TypeCorrect == Spec => []TypeOK
  BY TypeInvariant, PTL DEF TypeInv

--------------------------------------------------------------------------------
(* Ownership.                                                                 *)

LEMMA RangeOfAppend ==
  ASSUME NEW S, NEW s \in Seq(S), NEW e \in S
  PROVE  /\ Range(Append(s, e)) = Range(s) \cup {e}
         /\ IsInjective(s) /\ e \notin Range(s) => IsInjective(Append(s, e))
<1>1. /\ DOMAIN s = 1..Len(s) /\ Len(s) \in Nat
      /\ DOMAIN Append(s, e) = 1..(Len(s) + 1)
      /\ \A i \in 1..Len(s) : Append(s, e)[i] = s[i]
      /\ Append(s, e)[Len(s) + 1] = e
  BY AppendProperties, LenProperties
<1> QED BY <1>1, Z3 DEF Range, IsInjective

LEMMA RangeOfTail ==
  ASSUME NEW S, NEW s \in Seq(S), s # <<>>
  PROVE  /\ Range(s) = Range(Tail(s)) \cup {Head(s)}
         /\ IsInjective(s) => IsInjective(Tail(s)) /\ Head(s) \notin Range(Tail(s))
<1>1. /\ Len(s) \in Nat \ {0} /\ DOMAIN s = 1..Len(s)
      /\ Tail(s) \in Seq(S) /\ Len(Tail(s)) = Len(s) - 1
      /\ DOMAIN Tail(s) = 1..(Len(s) - 1)
      /\ \A i \in 1..(Len(s) - 1) : Tail(s)[i] = s[i + 1]
      /\ Head(s) = s[1]
  BY HeadTailProperties, LenProperties
<1>2. Range(s) \subseteq Range(Tail(s)) \cup {Head(s)}
  <2> SUFFICES ASSUME NEW i \in 1..Len(s), i # 1 PROVE s[i] \in Range(Tail(s))
    BY <1>1 DEF Range
  <2>1. i - 1 \in 1..(Len(s) - 1) /\ Tail(s)[i - 1] = s[i]
    BY <1>1
  <2> QED BY <1>1, <2>1 DEF Range
<1>3. Range(Tail(s)) \cup {Head(s)} \subseteq Range(s)
  BY <1>1 DEF Range
<1>4. ASSUME IsInjective(s)
      PROVE  IsInjective(Tail(s)) /\ Head(s) \notin Range(Tail(s))
  BY <1>1, <1>4 DEF Range, IsInjective
<1> QED BY <1>2, <1>3, <1>4

\* The steps of a worker that leave it its job.
Middle(w) ==
  \/ BeginAttempt(w) \/ MarkDownloading(w) \/ CreateFile(w) \/ DownloadDone(w)
  \/ DownloadFailed(w) \/ TooLarge(w) \/ NotLoggedIn(w) \/ MarkUploading(w) \/ OpenFile(w)
  \/ UploadDone(w) \/ UploadFailed(w) \/ Finish(w) \/ Return(w) \/ Backoff(w)
  \/ GiveUp(w)

\* A write of the status of t that happens, or is lost.
Written(t, s) == \/ status' = [status EXCEPT ![t] = s] /\ lost' = lost \ {t}
                 \/ status' = status /\ lost' = lost \cup {t}

\* Such a step moves the worker within its stages, touches no status but its
\* job's, and nothing of the Manager.
LEMMA MiddleEffect ==
  ASSUME TypeInv, NEW w \in Workers, Middle(w)
  PROVE  /\ UNCHANGED <<phase, jobs, job, handler, resume, dropped, crashes>>
         /\ job[w] \in Tasks /\ pc[w] \in Busy \ {"cleanup"}
         /\ \E l \in Busy : pc' = [pc EXCEPT ![w] = l]
         /\ \/ UNCHANGED <<status, lost>>
            \/ \E s \in PendingStatus \cup TerminalStatus : Written(job[w], s)
<1>1. pc[w] \in Busy \ {"cleanup"}
  BY DEF Middle, BeginAttempt, MarkDownloading, CreateFile, DownloadDone, DownloadFailed,
     TooLarge, NotLoggedIn, MarkUploading, OpenFile, UploadDone, UploadFailed, Fail, Finish, Return,
     Backoff, GiveUp, Busy, Attempting
<1>2. /\ UNCHANGED <<phase, jobs, job, handler, resume, dropped, crashes>>
      /\ \/ UNCHANGED <<status, lost>>
         \/ \E s \in PendingStatus \cup TerminalStatus : SetStatus(job[w], s)
  BY DEF Middle, BeginAttempt, MarkDownloading, CreateFile, DownloadDone, DownloadFailed,
     TooLarge, NotLoggedIn, MarkUploading, OpenFile, UploadDone, UploadFailed, Fail, Finish, Return,
     Backoff, GiveUp, PendingStatus, TerminalStatus, mgr, db
<1>3. \E l \in Busy : pc' = [pc EXCEPT ![w] = l]
  BY AfterAttemptType
  DEF Middle, BeginAttempt, MarkDownloading, CreateFile, DownloadDone, DownloadFailed,
     TooLarge, NotLoggedIn, MarkUploading, OpenFile, UploadDone, UploadFailed, Fail, Finish, Return,
     Backoff, GiveUp, Goto, Busy, Attempting
<1> QED BY <1>1, <1>2, <1>3, BusyHasJob DEF SetStatus, Written

LEMMA WorkerCases ==
  ASSUME NEW w \in Workers, Worker(w)
  PROVE  Dequeue(w) \/ WorkerExit(w) \/ Middle(w) \/ Cleanup(w)
  BY DEF Worker, Middle

OwnerInv == SingleOwner /\ NewInv

LEMMA OwnerInit == Init => OwnerInv
  BY DEF Init, OwnerInv, SingleOwner, NewInv, IsInjective, Owned, Waiting, Processed,
     Enqueuing, Range, HandlerInProgress

\* The steps that move no task from one place to another keep the owners, and
\* write to no task that is not owned.
LEMMA OwnerFrame ==
  ASSUME TypeInv, OwnerInv,
         UNCHANGED <<jobs, job, Enqueuing, resume>>,
         \A t \in Tasks : handler'[t] = "new" => handler[t] = "new",
         \A t \in Tasks : status'[t] = status[t]
                            \/ (t \in Owned /\ status'[t] # "absent")
  PROVE  OwnerInv'
<1>1. UNCHANGED <<Waiting, Processed, Enqueuing, resume>>
  BY DEF Waiting, Processed
<1>2. Owned \subseteq Tasks
  BY DEF Owned, Waiting, Processed, Enqueuing, Range, TypeInv, TypeOK
<1>3. SingleOwner'
  BY <1>1 DEF OwnerInv, SingleOwner
<1>4. NewInv'
  BY <1>1, <1>2 DEF OwnerInv, NewInv, Owned
<1> QED BY <1>3, <1>4 DEF OwnerInv

LEMMA OwnerEnqueue ==
  ASSUME TypeInv, OwnerInv, NEW t \in Tasks, Enqueue(t) \/ Cancel(t) \/ ResumePush(t)
  PROVE  OwnerInv'
<1> USE DEF TypeInv, TypeOK
<1>1. CASE EnqueueInsert(t)
  <2>1. t \notin Owned /\ UNCHANGED <<jobs, job, resume, Waiting, Processed>>
    BY <1>1 DEF EnqueueInsert, OwnerInv, NewInv, PendingStatus, wk, Waiting, Processed
  <2>2. /\ Enqueuing' \subseteq Enqueuing \cup {t}
        /\ status' = status \/ status' = [status EXCEPT ![t] = "queued"]
        /\ t \in Enqueuing' => status'[t] = "queued"
        /\ \A u \in Tasks : handler'[u] = "new" => handler[u] = "new" /\ u # t
    BY <1>1 DEF EnqueueInsert, Enqueuing, HandlerInProgress
  <2>3. SingleOwner'
    <3>1. t \notin Waiting \cup Processed \cup resume
      BY <2>1 DEF Owned
    <3> QED BY <2>1, <2>2, <3>1 DEF OwnerInv, SingleOwner
  <2>4. NewInv'
    <3>1. Owned' \subseteq Owned \cup {t} /\ Owned \subseteq Tasks
      BY <2>1, <2>2 DEF Owned, Waiting, Processed, Enqueuing, Range
    <3>2. t \in Owned' => status'[t] = "queued"
      BY <2>1, <2>2 DEF Owned
    <3>3. \A u \in Tasks : u # t => status'[u] = status[u]
      BY <2>2
    <3> QED BY <2>2, <3>1, <3>2, <3>3 DEF OwnerInv, NewInv
  <2> QED BY <2>3, <2>4 DEF OwnerInv
<1>2. CASE EnqueueRegister(t) \/ EnqueueFull(t) \/ Cancel(t)
  <2>1. /\ UNCHANGED <<jobs, job, status, resume>>
        /\ handler' = handler
           \/ \E l \in HandlerInProgress : /\ handler' = [handler EXCEPT ![t] = l]
                                           /\ handler[t] \in HandlerInProgress
    BY <1>2 DEF EnqueueRegister, EnqueueFull, Cancel, HandlerInProgress, db, wk
  <2>2. Enqueuing' = Enqueuing /\ \A u \in Tasks : handler'[u] = "new" => handler[u] = "new"
    BY <2>1 DEF Enqueuing, HandlerInProgress
  <2> QED BY <2>1, <2>2, OwnerFrame
<1>3. CASE EnqueuePush(t)
  <2>1. /\ Waiting' = Waiting \cup {t} /\ (IsInjective(jobs) /\ t \notin Waiting => IsInjective(jobs'))
        /\ UNCHANGED <<job, Processed, resume, status>>
    BY <1>3, RangeOfAppend DEF EnqueuePush, Waiting, Processed, db, wk
  <2>2. /\ t \in Enqueuing /\ Enqueuing' = Enqueuing \ {t}
        /\ \A u \in Tasks : handler'[u] = "new" => handler[u] = "new"
    BY <1>3 DEF EnqueuePush, Enqueuing, HandlerInProgress
  <2>3. SingleOwner'
    BY <2>1, <2>2 DEF OwnerInv, SingleOwner
  <2>4. NewInv'
    BY <2>1, <2>2 DEF OwnerInv, NewInv, Owned
  <2> QED BY <2>3, <2>4 DEF OwnerInv
<1>4. CASE EnqueueReject(t)
  <2>1. /\ t \in Enqueuing /\ Enqueuing' = Enqueuing \ {t}
        /\ \A u \in Tasks : handler'[u] = "new" => handler[u] = "new"
        /\ UNCHANGED <<jobs, job, Waiting, Processed, resume>>
        /\ status' = status \/ status' = [status EXCEPT ![t] = "failed"]
    BY <1>4 DEF EnqueueReject, Enqueuing, HandlerInProgress, SetStatus, Waiting, Processed, wk
  <2>2. SingleOwner'
    BY <2>1 DEF OwnerInv, SingleOwner
  <2>3. NewInv'
    BY <2>1 DEF OwnerInv, NewInv, Owned, Waiting, Processed, Enqueuing, Range
  <2> QED BY <2>2, <2>3 DEF OwnerInv
<1>5. CASE ResumePush(t)
  <2>1. /\ t \in resume /\ resume' = resume \ {t}
        /\ UNCHANGED <<job, Processed, Enqueuing, status, handler>>
        /\ jobs' = jobs \/ jobs' = Append(jobs, t)
    BY <1>5 DEF ResumePush, Processed, Enqueuing, db, wk
  <2>2. /\ Waiting' = Waiting \/ Waiting' = Waiting \cup {t}
        /\ IsInjective(jobs) /\ t \notin Waiting => IsInjective(jobs')
    <3>1. CASE jobs' = jobs
      BY <3>1 DEF Waiting
    <3>2. CASE jobs' = Append(jobs, t)
      BY <3>2, RangeOfAppend DEF Waiting
    <3> QED BY <2>1, <3>1, <3>2
  <2>3. SingleOwner'
    BY <2>1, <2>2 DEF OwnerInv, SingleOwner
  <2>4. NewInv'
    BY <2>1, <2>2 DEF OwnerInv, NewInv, Owned
  <2> QED BY <2>3, <2>4 DEF OwnerInv
<1> QED BY <1>1, <1>2, <1>3, <1>4, <1>5 DEF Enqueue, EnqueueRest

LEMMA OwnerWorker ==
  ASSUME TypeInv, OwnerInv, NEW w \in Workers, Worker(w)
  PROVE  OwnerInv'
<1> USE DEF TypeInv, TypeOK
<1>1. CASE Dequeue(w)
  <2>1. /\ Waiting = Waiting' \cup {Head(jobs)} /\ Head(jobs) \in Tasks
        /\ IsInjective(jobs) => IsInjective(jobs') /\ Head(jobs) \notin Waiting'
    BY <1>1, RangeOfTail DEF Dequeue, Waiting
  <2>2. /\ job[w] = None /\ job' = [job EXCEPT ![w] = Head(jobs)]
        /\ UNCHANGED <<Enqueuing, resume, status, handler>>
    BY <1>1 DEF Dequeue, WorkerInv, Busy, Attempting, Enqueuing, db
  <2>3. Processed' = Processed \cup {Head(jobs)}
    BY <2>1, <2>2, QueueAssumption DEF QueueAssumption, Processed
  <2>4. SingleOwner'
    <3>1. \A v \in Workers : job[v] # Head(jobs)
      BY <2>1, QueueAssumption DEF QueueAssumption, OwnerInv, SingleOwner, Processed
    <3>2. \A v1, v2 \in Workers : job'[v1] = job'[v2] /\ job'[v1] # None => v1 = v2
      BY <2>2, <3>1 DEF OwnerInv, SingleOwner
    <3> QED BY <2>1, <2>2, <2>3, <3>2 DEF OwnerInv, SingleOwner
  <2>5. NewInv'
    BY <2>1, <2>2, <2>3 DEF OwnerInv, NewInv, Owned
  <2> QED BY <2>4, <2>5 DEF OwnerInv
<1>2. CASE WorkerExit(w)
  BY <1>2, OwnerFrame DEF WorkerExit, db, mgr, Enqueuing
<1>3. CASE Middle(w)
  <2>1. job[w] \in Owned
    <3>1. job[w] \in Tasks /\ job[w] # None
      BY <1>3, MiddleEffect, QueueAssumption DEF QueueAssumption
    <3> QED BY <3>1 DEF Owned, Processed
  <2>2. \A t \in Tasks : status'[t] = status[t] \/ (t \in Owned /\ status'[t] # "absent")
    <3>1. CASE UNCHANGED status
      BY <3>1
    <3>2. ASSUME NEW s \in PendingStatus \cup TerminalStatus, Written(job[w], s)
          PROVE  \A t \in Tasks : status'[t] \in {status[t], s}
                                  /\ (status'[t] # status[t] => t = job[w])
      BY <3>2 DEF Written
    <3> QED BY <1>3, <2>1, <3>1, <3>2, MiddleEffect DEF PendingStatus, TerminalStatus
  <2> QED BY <1>3, <2>2, MiddleEffect, OwnerFrame DEF Enqueuing
<1>4. CASE Cleanup(w)
  <2>1. job' = [job EXCEPT ![w] = None] /\ UNCHANGED <<jobs, Waiting, Enqueuing, resume, status, handler>>
    BY <1>4 DEF Cleanup, Waiting, Enqueuing, db
  <2>2. Processed' \subseteq Processed
    BY <2>1 DEF Processed
  <2>3. SingleOwner'
    BY <2>1, <2>2 DEF OwnerInv, SingleOwner
  <2>4. NewInv'
    BY <2>1, <2>2 DEF OwnerInv, NewInv, Owned
  <2> QED BY <2>3, <2>4 DEF OwnerInv
<1> QED BY <1>1, <1>2, <1>3, <1>4, WorkerCases

LEMMA OwnerProcess ==
  ASSUME TypeInv, OwnerInv,
         StopPool \/ StartPool \/ Crash \/ Start \/ ResumeDone \/ UNCHANGED vars
  PROVE  OwnerInv'
<1>1. CASE StopPool \/ StartPool \/ ResumeDone \/ UNCHANGED vars
  BY <1>1, OwnerFrame DEF StopPool, StartPool, ResumeDone, vars, db, mgr, wk, Enqueuing
<1>2. CASE Crash
  <2>1. /\ jobs' = <<>> /\ Waiting' = {} /\ Enqueuing' = {} /\ resume' = {} /\ Processed' = {}
        /\ job' = [w \in Workers |-> None]
        /\ status' = status /\ \A t \in Tasks : handler'[t] = "new" => handler[t] = "new"
    BY <1>2 DEF Crash, Waiting, Enqueuing, Processed, Range, HandlerInProgress
  <2>2. SingleOwner'
    BY <2>1 DEF SingleOwner, IsInjective
  <2>3. NewInv'
    BY <2>1 DEF OwnerInv, NewInv, Owned
  <2> QED BY <2>2, <2>3 DEF OwnerInv
<1>3. CASE Start
  <2>1. jobs = <<>> /\ Waiting = {} /\ Enqueuing = {} /\ resume = {} /\ Processed = {}
    <3>1. jobs = <<>> /\ Enqueuing = {} /\ resume = {} /\ \A w \in Workers : pc[w] = "exited"
      BY <1>3 DEF Start, TypeInv, DownInv
    <3>2. \A w \in Workers : job[w] = None
      BY <3>1 DEF TypeInv, WorkerInv, Busy, Attempting
    <3> QED BY <3>1, <3>2 DEF Waiting, Processed, Range
  <2>2. /\ UNCHANGED <<jobs, job, Waiting, Enqueuing, Processed, status, handler>>
        /\ resume' \subseteq Pending
    BY <1>3, <2>1 DEF Start, Waiting, Enqueuing, Processed, db
  <2>3. SingleOwner'
    BY <2>1, <2>2 DEF OwnerInv, SingleOwner
  <2>4. NewInv'
    BY <2>1, <2>2 DEF OwnerInv, NewInv, Owned, Pending, PendingStatus
  <2> QED BY <2>3, <2>4 DEF OwnerInv
<1> QED BY <1>1, <1>2, <1>3

LEMMA OwnerStep == TypeInv /\ OwnerInv /\ [Next]_vars => OwnerInv'
  BY OwnerEnqueue, OwnerWorker, OwnerProcess DEF Next, Quiescent

LEMMA OwnerInvariant == Spec => []OwnerInv
  BY OwnerInit, OwnerStep, TypeInvariant, PTL DEF Spec

\* No task is ever at two places: with two workers, twice in the channel, or in
\* the channel and with a worker, a handler or Resume.
THEOREM SingleOwnerCorrect == Spec => []SingleOwner
  BY OwnerInvariant, PTL DEF OwnerInv

--------------------------------------------------------------------------------
(* What a worker has done for its job.                                        *)

\* A step within an attempt leaves the other workers alone, reaches finish only
\* with the file on Drive, and writes the last status of the job once.
LEMMA MiddleStage ==
  ASSUME TypeInv, NEW w \in Workers, Middle(w)
  PROVE  /\ \A v \in Workers : v # w => pc'[v] = pc[v] /\ outcome'[v] = outcome[v]
         /\ uploaded \subseteq uploaded'
         /\ pc'[w] = "finishing" => job[w] \in uploaded'
         /\ Finished(w) => Finished(w)' /\ UNCHANGED <<status, lost>>
         /\ Finished(w)' => \/ Finished(w)
                            \/ \E s \in TerminalStatus : Written(job[w], s)
         /\ status'[job[w]] = "completed" =>
              status[job[w]] = "completed" \/ (pc[w] = "finishing" /\ Finished(w)')
<1> USE DEF TypeInv, TypeOK, Goto, Finished, Written, SetStatus, db, world, mgr
<1>1. CASE BeginAttempt(w)
  BY <1>1 DEF BeginAttempt
<1>2. CASE MarkDownloading(w)
  <2>1. AfterAttempt("retry", attempt[w]) \in {"backoff", "giveup"}
    BY DEF AfterAttempt
  <2> QED BY <1>2, <2>1, BusyHasJob DEF MarkDownloading
<1>3. CASE CreateFile(w)
  BY <1>3 DEF CreateFile
<1>4. CASE DownloadDone(w)
  BY <1>4 DEF DownloadDone
<1>5. CASE DownloadFailed(w)
  BY <1>5, BusyHasJob DEF DownloadFailed, Fail, Busy, Attempting
<1>6. CASE TooLarge(w)
  BY <1>6, BusyHasJob DEF TooLarge, Fail, Busy, Attempting
<1>7. CASE NotLoggedIn(w)
  BY <1>7 DEF NotLoggedIn
<1>8. CASE MarkUploading(w)
  BY <1>8, BusyHasJob DEF MarkUploading, Busy, Attempting
<1>9. CASE UploadDone(w)
  BY <1>9 DEF UploadDone
<1>15. CASE OpenFile(w)
  BY <1>15 DEF OpenFile
<1>10. CASE UploadFailed(w)
  BY <1>10, BusyHasJob DEF UploadFailed, Fail, Busy, Attempting
<1>11. CASE Finish(w)
  BY <1>11, BusyHasJob DEF Finish, Busy, Attempting, TerminalStatus
<1>12. CASE Return(w)
  BY <1>12, AfterAttemptType DEF Return
<1>13. CASE Backoff(w)
  BY <1>13 DEF Backoff
<1>14. CASE GiveUp(w)
  BY <1>14, BusyHasJob DEF GiveUp, Busy, Attempting, TerminalStatus
<1> QED BY <1>1, <1>2, <1>3, <1>4, <1>5, <1>6, <1>7, <1>8, <1>9, <1>10, <1>11, <1>12,
           <1>13, <1>14, <1>15 DEF Middle

\* Its job is not anywhere else.
LEMMA JobIsOnlyThere ==
  ASSUME TypeInv, OwnerInv, NEW w \in Workers, job[w] # None
  PROVE  /\ job[w] \in Tasks \cap Processed
         /\ job[w] \notin Waiting \cup Enqueuing \cup resume
         /\ \A v \in Workers : v # w => job[v] # job[w]
<1>1. job[w] \in Tasks \cap Processed
  BY DEF TypeInv, TypeOK, Processed
<1> QED BY <1>1 DEF OwnerInv, SingleOwner

DoneInv == StageInv /\ CompletedInv

LEMMA DoneInit == Init => DoneInv
  BY DEF Init, DoneInv, StageInv, CompletedInv, Finished

LEMMA DoneEnqueue ==
  ASSUME TypeInv, OwnerInv, DoneInv,
         NEW t \in Tasks, Enqueue(t) \/ Cancel(t) \/ ResumePush(t)
  PROVE  DoneInv'
<1>1. /\ UNCHANGED <<pc, job, outcome, uploaded>>
      /\ status' = status \/ (t \notin Processed /\ status' = [status EXCEPT ![t] = "queued"])
           \/ (t \notin Processed /\ status' = [status EXCEPT ![t] = "failed"])
      /\ \A u \in Tasks : u # t => (u \in lost => u \in lost')
      /\ t \in Processed => UNCHANGED lost
  <2>1. CASE EnqueueInsert(t)
    BY <2>1 DEF EnqueueInsert, OwnerInv, NewInv, Owned, world, wk, PendingStatus
  <2>2. CASE EnqueueReject(t)
    BY <2>2 DEF EnqueueReject, SetStatus, OwnerInv, SingleOwner, Enqueuing,
       HandlerInProgress, world, wk
  <2>3. CASE EnqueueRegister(t) \/ EnqueuePush(t) \/ EnqueueFull(t) \/ Cancel(t) \/ ResumePush(t)
    BY <2>3 DEF EnqueueRegister, EnqueuePush, EnqueueFull, Cancel, ResumePush, db, world, wk
  <2> QED BY <2>1, <2>2, <2>3 DEF Enqueue, EnqueueRest
<1>2. StageInv'
  <2> SUFFICES ASSUME NEW w \in Workers
               PROVE  /\ (pc[w] = "finishing")' => (job[w] \in uploaded)'
                      /\ Finished(w)' => (status[job[w]] \in TerminalStatus \/ job[w] \in lost)'
    BY DEF StageInv
  <2>1. Finished(w)' => Finished(w) /\ job[w] # None
    BY <1>1 DEF Finished, TypeInv, WorkerInv, Busy, Attempting
  <2>2. CASE Finished(w)
    <3>1. job[w] \in Tasks \cap Processed
      BY <2>1, <2>2, <1>1, JobIsOnlyThere DEF Finished
    <3>2. status'[job[w]] = status[job[w]] /\ (job[w] \in lost => job[w] \in lost')
      BY <1>1, <3>1 DEF TypeInv, TypeOK
    <3> QED BY <1>1, <2>2, <3>2 DEF DoneInv, StageInv
  <2> QED BY <1>1, <2>1, <2>2 DEF DoneInv, StageInv
<1>3. CompletedInv'
  <2>1. \A u \in Tasks : status'[u] = "completed" => status[u] = "completed"
    BY <1>1 DEF TypeInv, TypeOK
  <2>2. Waiting' \cup Enqueuing' \cup resume' \subseteq Waiting \cup Enqueuing \cup resume \cup {t}
    <3>1. CASE EnqueuePush(t) \/ ResumePush(t)
      <4>1. jobs' \in {jobs, Append(jobs, t)} /\ jobs \in Seq(Tasks)
        BY <3>1 DEF EnqueuePush, ResumePush, TypeInv, TypeOK
      <4>2. Waiting' \subseteq Waiting \cup {t}
        <5>1. Range(Append(jobs, t)) = Range(jobs) \cup {t}
          BY <4>1, RangeOfAppend
        <5>2. Range(jobs') \in {Range(jobs), Range(Append(jobs, t))}
          BY <4>1
        <5> QED BY <5>1, <5>2 DEF Waiting
      <4>3. Enqueuing' \subseteq Enqueuing \cup {t} /\ resume' \subseteq resume
        BY <3>1 DEF EnqueuePush, ResumePush, TypeInv, TypeOK, Enqueuing
      <4> QED BY <4>2, <4>3
    <3>2. CASE EnqueueInsert(t) \/ EnqueueRegister(t) \/ EnqueueFull(t) \/ EnqueueReject(t)
               \/ Cancel(t)
      BY <3>2 DEF EnqueueInsert, EnqueueRegister, EnqueueFull, EnqueueReject, Cancel,
         Waiting, Enqueuing, TypeInv, TypeOK
    <3> QED BY <3>1, <3>2 DEF Enqueue, EnqueueRest
  <2>3. status'[t] = "completed" => UNCHANGED <<jobs, handler, resume>>
    <3>1. CASE Cancel(t)
      BY <3>1 DEF Cancel
    <3>2. CASE EnqueueInsert(t)
      BY <3>2 DEF EnqueueInsert, TypeInv, TypeOK, OwnerInv, NewInv
    <3>3. CASE EnqueueRest(t) \/ ResumePush(t)
      <4>1. t \in Enqueuing \cup resume
        BY <3>3 DEF EnqueueRest, EnqueueRegister, EnqueuePush, EnqueueFull, EnqueueReject,
           ResumePush, Enqueuing, HandlerInProgress
      <4> QED BY <2>1, <4>1 DEF DoneInv, CompletedInv
    <3> QED BY <3>1, <3>2, <3>3 DEF Enqueue
  <2> QED BY <1>1, <2>1, <2>2, <2>3 DEF DoneInv, CompletedInv, Finished, Waiting, Enqueuing
<1> QED BY <1>2, <1>3 DEF DoneInv

LEMMA DoneWorker ==
  ASSUME TypeInv, OwnerInv, DoneInv, NEW w \in Workers, Worker(w)
  PROVE  DoneInv'
<1>1. CASE Dequeue(w)
  <2>1. /\ Head(jobs) \in Waiting /\ Waiting' \subseteq Waiting /\ Head(jobs) \in Tasks
    BY <1>1, RangeOfTail DEF Dequeue, Waiting, TypeInv, TypeOK
  <2>2. /\ UNCHANGED <<status, lost, uploaded, Enqueuing, resume, outcome>>
        /\ pc[w] = "idle" /\ pc' = [pc EXCEPT ![w] = "attempt"]
        /\ job' = [job EXCEPT ![w] = Head(jobs)]
    BY <1>1 DEF Dequeue, Goto, db, world, Enqueuing
  <2>3. \A v \in Workers : /\ v # w => job'[v] = job[v] /\ pc'[v] = pc[v]
                           /\ job'[w] = Head(jobs) /\ pc'[w] = "attempt"
    BY <2>2 DEF TypeInv, TypeOK
  <2>4. StageInv'
    BY <2>2, <2>3 DEF DoneInv, StageInv, Finished
  <2>5. CompletedInv'
    BY <2>1, <2>2, <2>3 DEF DoneInv, CompletedInv, Finished
  <2> QED BY <2>4, <2>5 DEF DoneInv
<1>2. CASE WorkerExit(w)
  <2>1. /\ UNCHANGED <<status, lost, uploaded, jobs, Enqueuing, resume, job, outcome>>
        /\ \A v \in Workers : v # w => pc'[v] = pc[v]
        /\ pc'[w] = "exited" /\ job[w] = None
    BY <1>2 DEF WorkerExit, Goto, db, world, mgr, Enqueuing, TypeInv, TypeOK, WorkerInv, Busy, Attempting
  <2>2. StageInv'
    BY <2>1 DEF DoneInv, StageInv, Finished
  <2>3. CompletedInv'
    BY <2>1, QueueAssumption DEF QueueAssumption, DoneInv, CompletedInv, Finished, Waiting
  <2> QED BY <2>2, <2>3 DEF DoneInv
<1>3. CASE Middle(w)
  <2>1. /\ UNCHANGED <<jobs, job, handler, resume, Waiting, Enqueuing>>
        /\ job[w] \in Tasks /\ job[w] # None
    BY <1>3, MiddleEffect, QueueAssumption DEF QueueAssumption, Waiting, Enqueuing
  <2>2. \A t \in Tasks : t # job[w] =>
          status'[t] = status[t] /\ (t \in lost => t \in lost')
    BY <1>3, <2>1, MiddleEffect DEF Written, TypeInv, TypeOK
  <2>3. /\ job[w] \notin Waiting \cup Enqueuing \cup resume
        /\ \A v \in Workers : v # w => job[v] # job[w]
    BY <2>1, JobIsOnlyThere
  <2>4. StageInv'
    <3> SUFFICES ASSUME NEW v \in Workers
                 PROVE  /\ (pc[v] = "finishing")' => (job[v] \in uploaded)'
                        /\ Finished(v)' => (status[job[v]] \in TerminalStatus \/ job[v] \in lost)'
      BY DEF StageInv
    <3>1. CASE v = w
      <4>1. CASE Finished(w)
        BY <1>3, <3>1, <4>1, <2>1, MiddleStage DEF DoneInv, StageInv
      <4>2. ASSUME NEW s \in TerminalStatus, Written(job[w], s)
            PROVE  status'[job[w]] \in TerminalStatus \/ job[w] \in lost'
        BY <2>1, <4>2 DEF Written, TypeInv, TypeOK
      <4> QED BY <1>3, <2>1, <3>1, <4>1, <4>2, MiddleStage
    <3>2. CASE v # w
      <4>1. pc'[v] = pc[v] /\ outcome'[v] = outcome[v] /\ uploaded \subseteq uploaded'
        BY <1>3, <3>2, MiddleStage
      <4>2. CASE Finished(v)
        <5>1. job[v] \in Tasks /\ job[v] # job[w]
          BY <4>2, <3>2, <2>3 DEF Finished, TypeInv, TypeOK, WorkerInv, Busy, Attempting
        <5> QED BY <2>1, <2>2, <4>1, <4>2, <5>1 DEF DoneInv, StageInv, Finished
      <4> QED BY <2>1, <4>1, <4>2 DEF DoneInv, StageInv, Finished
    <3> QED BY <3>1, <3>2
  <2>5. CompletedInv'
    <3> SUFFICES ASSUME NEW t \in Tasks, status'[t] = "completed"
                 PROVE  /\ t \in uploaded' /\ t \notin Waiting \cup Enqueuing \cup resume
                        /\ \A v \in Workers : job[v] = t => Finished(v)'
      BY <2>1 DEF CompletedInv
    <3>1. CASE t = job[w]
      <4>1. (status[t] = "completed" /\ Finished(w)) \/ (pc[w] = "finishing" /\ Finished(w)')
        BY <1>3, <3>1, MiddleStage DEF DoneInv, CompletedInv
      <4>2. Finished(w)' /\ t \in uploaded'
        BY <1>3, <3>1, <4>1, MiddleStage DEF DoneInv, StageInv, CompletedInv
      <4> QED BY <2>3, <3>1, <4>2
    <3>2. CASE t # job[w]
      <4>1. /\ t \in uploaded /\ t \notin Waiting \cup Enqueuing \cup resume
            /\ \A v \in Workers : job[v] = t => Finished(v)
        BY <2>2, <3>2 DEF DoneInv, CompletedInv
      <4>2. \A v \in Workers : v # w => (Finished(v) => Finished(v)')
        BY <1>3, MiddleStage DEF Finished
      <4> QED BY <1>3, <3>2, <4>1, <4>2, MiddleStage
    <3> QED BY <3>1, <3>2
  <2> QED BY <2>4, <2>5 DEF DoneInv
<1>4. CASE Cleanup(w)
  <2>1. /\ UNCHANGED <<status, lost, uploaded, jobs, handler, resume>>
        /\ \A v \in Workers : v # w => pc'[v] = pc[v] /\ outcome'[v] = outcome[v] /\ job'[v] = job[v]
        /\ pc'[w] = "idle" /\ job'[w] = None
    BY <1>4 DEF Cleanup, Goto, db, world, TypeInv, TypeOK
  <2>2. StageInv'
    BY <2>1 DEF DoneInv, StageInv, Finished
  <2>3. CompletedInv'
    BY <2>1, QueueAssumption DEF QueueAssumption, DoneInv, CompletedInv, Finished, Waiting, Enqueuing
  <2> QED BY <2>2, <2>3 DEF DoneInv
<1> QED BY <1>1, <1>2, <1>3, <1>4, WorkerCases

LEMMA DoneProcess ==
  ASSUME TypeInv, OwnerInv, DoneInv,
         StopPool \/ StartPool \/ Crash \/ Start \/ ResumeDone \/ UNCHANGED vars
  PROVE  DoneInv'
<1>1. CASE StopPool \/ ResumeDone \/ UNCHANGED vars
  BY <1>1 DEF StopPool, ResumeDone, vars, db, world, mgr, wk, DoneInv, StageInv, CompletedInv,
     Finished, Waiting, Enqueuing
<1>2. CASE StartPool
  <2>1. /\ UNCHANGED <<status, lost, uploaded, jobs, handler, resume, job, outcome>>
        /\ \A w \in Workers : pc[w] = "exited" /\ pc'[w] \in {"idle", "exited"}
        /\ \A w \in Workers : job[w] = None
    BY <1>2 DEF StartPool, db, world, TypeInv, WorkerInv, Busy, Attempting
  <2> QED BY <2>1, QueueAssumption DEF QueueAssumption, DoneInv, StageInv, CompletedInv,
             Finished, Waiting, Enqueuing
<1>3. CASE Crash
  <2>1. /\ UNCHANGED <<status, uploaded>>
        /\ Waiting' = {} /\ Enqueuing' = {} /\ resume' = {}
        /\ \A w \in Workers : pc'[w] = "exited" /\ job'[w] = None
    BY <1>3 DEF Crash, world, Waiting, Enqueuing, Range, HandlerInProgress
  <2> QED BY <2>1, QueueAssumption DEF QueueAssumption, DoneInv, StageInv, CompletedInv, Finished
<1>4. CASE Start
  <2>1. /\ UNCHANGED <<status, lost, uploaded, Waiting, Enqueuing, job>>
        /\ resume' \subseteq Pending \cup resume
        /\ \A w \in Workers : pc'[w] = "idle" /\ pc[w] = "exited" /\ job[w] = None
    BY <1>4 DEF Start, db, world, Waiting, Enqueuing, TypeInv, DownInv, WorkerInv, Busy, Attempting
  <2>2. StageInv'
    BY <2>1 DEF DoneInv, StageInv, Finished
  <2>3. CompletedInv'
    BY <2>1, QueueAssumption
    DEF QueueAssumption, DoneInv, CompletedInv, Finished, Pending, PendingStatus
  <2> QED BY <2>2, <2>3 DEF DoneInv
<1> QED BY <1>1, <1>2, <1>3, <1>4

LEMMA DoneStep == TypeInv /\ OwnerInv /\ DoneInv /\ [Next]_vars => DoneInv'
  BY DoneEnqueue, DoneWorker, DoneProcess DEF Next, Quiescent

LEMMA DoneInvariant == Spec => []DoneInv
  BY DoneInit, DoneStep, OwnerInvariant, TypeInvariant, PTL DEF Spec

\* What MongoDB has as completed is on Google Drive.
THEOREM CompletedIsUploaded == Spec => []CompletedImpliesUploaded
<1>1. DoneInv => CompletedImpliesUploaded
  BY DEF DoneInv, CompletedInv, CompletedImpliesUploaded
<1> QED BY <1>1, DoneInvariant, PTL

--------------------------------------------------------------------------------
(* Where a pending task is, and which statuses are final.                     *)

\* Every task that was owned still is, or is settled, dropped or lost; nothing
\* else becomes pending, and nothing is taken out of dropped and lost.
LEMMA LostFrame ==
  ASSUME NoLostTask, phase' # "down" => phase # "down", dropped \subseteq dropped',
         \A t \in Tasks : \/ t \notin Pending'
                          \/ t \in Owned' \cup dropped' \cup lost'
                          \/ t \in Pending /\ t \notin Owned /\ (t \in lost => t \in lost')
  PROVE  NoLostTask'
  BY DEF NoLostTask, Pending

LEMMA LostEnqueue ==
  ASSUME TypeInv, OwnerInv, NoLostTask,
         NEW t \in Tasks, Enqueue(t) \/ Cancel(t) \/ ResumePush(t)
  PROVE  NoLostTask'
<1> USE DEF TypeInv, TypeOK
<1>1. CASE EnqueueInsert(t)
  <2>1. /\ UNCHANGED <<phase, dropped, Waiting, Processed, resume>>
        /\ Enqueuing \subseteq Enqueuing'
        /\ lost \subseteq lost'
        /\ \A u \in Tasks : u # t => status'[u] = status[u]
        /\ \/ t \in Enqueuing' \cup lost'
           \/ status' = status
    BY <1>1 DEF EnqueueInsert, Waiting, Processed, Enqueuing, HandlerInProgress, wk
  <2> QED BY <2>1, LostFrame DEF Owned, Pending
<1>2. CASE EnqueueRegister(t) \/ EnqueueFull(t) \/ Cancel(t)
  <2>1. /\ UNCHANGED <<phase, dropped, lost, status, Waiting, Processed, resume>>
        /\ Enqueuing \subseteq Enqueuing'
    BY <1>2 DEF EnqueueRegister, EnqueueFull, Cancel, Waiting, Processed, Enqueuing,
       HandlerInProgress, db, wk
  <2> QED BY <2>1, LostFrame DEF Owned, Pending
<1>3. CASE EnqueuePush(t)
  <2>1. Waiting' = Waiting \cup {t}
    BY <1>3, RangeOfAppend DEF EnqueuePush, Waiting
  <2>2. /\ UNCHANGED <<phase, dropped, lost, status, Processed, resume>>
        /\ Enqueuing \subseteq Enqueuing' \cup {t}
    BY <1>3 DEF EnqueuePush, Processed, Enqueuing, db, wk
  <2> QED BY <2>1, <2>2, LostFrame DEF Owned, Pending
<1>4. CASE EnqueueReject(t)
  <2>1. /\ UNCHANGED <<phase, dropped, Waiting, Processed, resume>>
        /\ Enqueuing \subseteq Enqueuing' \cup {t}
    BY <1>4 DEF EnqueueReject, Waiting, Processed, Enqueuing, wk
  <2>2. \A u \in Tasks : u # t => status'[u] = status[u] /\ (u \in lost => u \in lost')
    BY <1>4 DEF EnqueueReject, SetStatus
  <2>3. t \in lost' \/ status'[t] = "failed"
    BY <1>4 DEF EnqueueReject, SetStatus
  <2> QED BY <2>1, <2>2, <2>3, LostFrame DEF Owned, Pending, PendingStatus
<1>5. CASE ResumePush(t)
  <2>1. /\ UNCHANGED <<phase, lost, status, Processed, Enqueuing>>
        /\ resume' = resume \ {t}
        /\ dropped \subseteq dropped'
        /\ \/ jobs' = Append(jobs, t)
           \/ jobs' = jobs /\ t \in dropped'
    BY <1>5 DEF ResumePush, Processed, Enqueuing, db, wk
  <2>2. Waiting \subseteq Waiting' /\ t \in Waiting' \cup dropped'
    <3>1. CASE jobs' = Append(jobs, t)
      BY <3>1, RangeOfAppend DEF Waiting
    <3>2. CASE jobs' = jobs /\ t \in dropped'
      BY <3>2 DEF Waiting
    <3> QED BY <2>1, <3>1, <3>2
  <2> QED BY <2>1, <2>2, LostFrame DEF Owned, Pending
<1> QED BY <1>1, <1>2, <1>3, <1>4, <1>5 DEF Enqueue, EnqueueRest

\* A worker lets go of its job only in Cleanup, when it has settled it.
LEMMA LostWorker ==
  ASSUME TypeInv, OwnerInv, DoneInv, NoLostTask, NEW w \in Workers, Worker(w)
  PROVE  NoLostTask'
<1> USE DEF TypeInv, TypeOK
<1>1. CASE Dequeue(w)
  <2>1. Waiting \subseteq Waiting' \cup {Head(jobs)} /\ Head(jobs) \in Tasks
    BY <1>1, RangeOfTail DEF Dequeue, Waiting
  <2>2. /\ job[w] = None /\ job' = [job EXCEPT ![w] = Head(jobs)]
        /\ UNCHANGED <<phase, dropped, lost, status, Enqueuing, resume>>
    BY <1>1 DEF Dequeue, WorkerInv, Busy, Attempting, Enqueuing, db
  <2>3. Processed \cup {Head(jobs)} \subseteq Processed'
    BY <2>1, <2>2, QueueAssumption DEF QueueAssumption, Processed
  <2> QED BY <2>1, <2>2, <2>3, LostFrame DEF Owned, Pending
<1>2. CASE WorkerExit(w)
  <2>1. UNCHANGED <<phase, dropped, lost, status, Enqueuing, resume, Waiting, Processed>>
    BY <1>2 DEF WorkerExit, db, mgr, Enqueuing, Waiting, Processed
  <2> QED BY <2>1, LostFrame DEF Owned, Pending
<1>3. CASE Middle(w)
  <2>1. /\ UNCHANGED <<phase, dropped, Enqueuing, resume, Waiting, Processed>>
        /\ job[w] \in Processed
    BY <1>3, MiddleEffect, QueueAssumption
    DEF QueueAssumption, Enqueuing, Waiting, Processed
  <2>2. \A u \in Tasks : u # job[w] => status'[u] = status[u] /\ (u \in lost => u \in lost')
    <3>1. ASSUME NEW s \in PendingStatus \cup TerminalStatus, Written(job[w], s),
                 NEW u \in Tasks, u # job[w]
          PROVE  status'[u] = status[u] /\ (u \in lost => u \in lost')
      BY <3>1 DEF Written
    <3>2. CASE UNCHANGED <<status, lost>>
      BY <3>2
    <3> QED BY <1>3, <3>1, <3>2, MiddleEffect
  <2> QED BY <2>1, <2>2, LostFrame DEF Owned, Pending
<1>4. CASE Cleanup(w)
  <2>1. /\ UNCHANGED <<phase, dropped, lost, status, Enqueuing, resume, Waiting>>
        /\ job' = [job EXCEPT ![w] = None]
    BY <1>4 DEF Cleanup, db, Enqueuing, Waiting
  <2>2. Processed \subseteq Processed' \cup {job[w]}
    BY <2>1 DEF Processed
  <2>3. status[job[w]] \in TerminalStatus \/ job[w] \in lost
    BY <1>4 DEF Cleanup, DoneInv, StageInv, Finished
  <2> QED BY <2>1, <2>2, <2>3, LostFrame DEF Owned, Pending, PendingStatus, TerminalStatus
<1> QED BY <1>1, <1>2, <1>3, <1>4, WorkerCases

LEMMA LostProcess ==
  ASSUME TypeInv, NoLostTask,
         StopPool \/ StartPool \/ Crash \/ Start \/ ResumeDone \/ UNCHANGED vars
  PROVE  NoLostTask'
<1>1. CASE StopPool \/ StartPool \/ ResumeDone \/ UNCHANGED vars
  <2>1. /\ UNCHANGED <<dropped, lost, status, Enqueuing, resume, Waiting, Processed>>
        /\ phase' # "down" => phase # "down"
    BY <1>1 DEF StopPool, StartPool, ResumeDone, vars, db, mgr, wk, Enqueuing, Waiting,
       Processed
  <2> QED BY <2>1, LostFrame DEF Owned, Pending
<1>2. CASE Crash
  BY <1>2 DEF Crash, NoLostTask
<1>3. CASE Start
  <2>1. Pending' = Pending /\ (resume' = Pending \/ dropped' = Pending)
    BY <1>3 DEF Start, Pending, db
  <2> QED BY <2>1 DEF NoLostTask, Owned
<1> QED BY <1>1, <1>2, <1>3

LEMMA LostStep ==
  TypeInv /\ OwnerInv /\ DoneInv /\ NoLostTask /\ [Next]_vars => NoLostTask'
  BY LostEnqueue, LostWorker, LostProcess DEF Next, Quiescent

LEMMA LostInit == Init => NoLostTask
  BY DEF Init, NoLostTask

\* While the process is up, every pending task is on its way, unless Resume
\* dropped it or a write of its status failed.
THEOREM NoTaskIsLost == Spec => []NoLostTask
  BY LostInit, LostStep, DoneInvariant, OwnerInvariant, TypeInvariant, PTL DEF Spec

\* The invariant the model checker checks is an invariant of every instance.
THEOREM QueueInvariant == Spec => []QueueInv
<1>1. TypeInv /\ OwnerInv /\ DoneInv /\ NoLostTask => QueueInv
  BY DEF TypeInv, OwnerInv, DoneInv, QueueInv
<1> QED BY <1>1, NoTaskIsLost, DoneInvariant, OwnerInvariant, TypeInvariant, PTL

Final(t) == status[t] = "completed" \/ (status[t] = "failed" /\ t \notin Owned)

\* Only an owner writes a status, and nobody but a worker that has finished owns
\* a completed task.
LEMMA FinalStep ==
  ASSUME TypeInv, OwnerInv, DoneInv, [Next]_vars, NEW t \in Tasks, Final(t)
  PROVE  status'[t] = status[t]
<1> USE DEF TypeInv, TypeOK
<1>1. ASSUME NEW u \in Tasks, Enqueue(u) \/ Cancel(u) \/ ResumePush(u)
      PROVE  status'[t] = status[t]
  <2>1. CASE EnqueueInsert(u)
    <3>1. status[u] = "absent"
      BY <2>1 DEF EnqueueInsert, OwnerInv, NewInv
    <3> QED BY <2>1, <3>1 DEF EnqueueInsert, Final
  <2>2. CASE EnqueueReject(u)
    <3>1. u \in Enqueuing
      BY <2>2 DEF EnqueueReject, Enqueuing, HandlerInProgress
    <3>2. t # u
      BY <3>1 DEF Final, Owned, DoneInv, CompletedInv
    <3> QED BY <2>2, <3>2 DEF EnqueueReject, SetStatus
  <2>3. CASE EnqueueRegister(u) \/ EnqueuePush(u) \/ EnqueueFull(u) \/ Cancel(u) \/ ResumePush(u)
    BY <2>3 DEF EnqueueRegister, EnqueuePush, EnqueueFull, Cancel, ResumePush, db
  <2> QED BY <1>1, <2>1, <2>2, <2>3 DEF Enqueue, EnqueueRest
<1>2. ASSUME NEW w \in Workers, Worker(w)
      PROVE  status'[t] = status[t]
  <2>1. CASE Dequeue(w) \/ WorkerExit(w) \/ Cleanup(w)
    BY <2>1 DEF Dequeue, WorkerExit, Cleanup, db
  <2>2. CASE Middle(w)
    <3>1. CASE job[w] = t
      <4>1. t \in Owned
        BY <2>2, <3>1, MiddleEffect, QueueAssumption DEF QueueAssumption, Owned, Processed
      <4>2. Finished(w)
        BY <3>1, <4>1 DEF Final, DoneInv, CompletedInv
      <4> QED BY <2>2, <4>2, MiddleStage
    <3>2. CASE job[w] # t
      <4>1. \/ status' = status
            \/ \E s \in PendingStatus \cup TerminalStatus : Written(job[w], s)
        BY <2>2, MiddleEffect
      <4>2. status' = status \/ \E s : status' = [status EXCEPT ![job[w]] = s]
        BY <4>1 DEF Written
      <4>3. status \in [Tasks -> {"absent"} \cup PendingStatus \cup TerminalStatus]
        OBVIOUS
      <4> HIDE DEF TypeInv, TypeOK
      <4> QED BY <3>2, <4>2, <4>3
    <3> QED BY <3>1, <3>2
  <2> QED BY <1>2, <2>1, <2>2, WorkerCases
<1>3. ASSUME StopPool \/ StartPool \/ Crash \/ Start \/ ResumeDone \/ UNCHANGED vars
      PROVE  status'[t] = status[t]
  BY <1>3 DEF StopPool, StartPool, Crash, Start, ResumeDone, vars, db
<1> QED BY <1>1, <1>2, <1>3 DEF Next, Quiescent

\* A settled task keeps its status for ever.
THEOREM SettledStays == Spec => SettledIsFinal
<1>1. TypeInv /\ OwnerInv /\ DoneInv /\ [Next]_vars =>
        [\A t \in Tasks :
           status[t] = "completed" \/ (status[t] = "failed" /\ t \notin Owned)
             => status'[t] = status[t]]_vars
  BY FinalStep DEF Final
<1> QED BY <1>1, DoneInvariant, OwnerInvariant, TypeInvariant, PTL DEF Spec, SettledIsFinal

--------------------------------------------------------------------------------
(* What the queue promises: that it implements TaskLedger, and that the       *)
(* cancels map, the download directory and the attempts stay bounded.         *)

Stranded == dropped \cup lost

\* What is known to be stranded is known to the process.
DownClean == phase = "down" => Stranded = {}

LEMMA DownCleanInit == Init => DownClean
  BY DEF Init, DownClean, Stranded

\* While the process is down nobody drops a task or writes a status.
LEMMA DownCleanStep == TypeInv /\ DownClean /\ [Next]_vars => DownClean'
<1> SUFFICES ASSUME TypeInv, DownClean, [Next]_vars, phase' = "down"
             PROVE  Stranded' = {}
  BY DEF DownClean
<1>1. ASSUME NEW t \in Tasks, Enqueue(t) \/ Cancel(t) \/ ResumePush(t)
      PROVE  Stranded' = {}
  <2>1. phase = "down"
    BY <1>1 DEF Enqueue, EnqueueRest, EnqueueInsert, EnqueueRegister, EnqueuePush, EnqueueFull,
       EnqueueReject, Cancel, ResumePush
  <2>2. handler[t] \notin HandlerInProgress /\ t \notin resume
    BY <2>1 DEF TypeInv, DownInv, Enqueuing
  <2> QED BY <1>1, <2>1, <2>2
          DEF Enqueue, EnqueueRest, EnqueueInsert, EnqueueRegister, EnqueuePush, EnqueueFull,
              EnqueueReject, Cancel, ResumePush, HandlerInProgress
<1>2. ASSUME NEW w \in Workers, Worker(w)
      PROVE  Stranded' = {}
  <2>1. phase = "down"
    BY <1>2, WorkerCases, MiddleEffect DEF Dequeue, WorkerExit, Cleanup, mgr
  <2>2. pc[w] = "exited"
    BY <2>1 DEF TypeInv, DownInv
  <2> QED BY <1>2, <2>2, WorkerCases, MiddleEffect
          DEF Dequeue, WorkerExit, Cleanup, Busy, Attempting
<1>3. CASE StopPool \/ StartPool \/ ResumeDone \/ UNCHANGED vars
  <2>1. UNCHANGED <<phase, dropped, lost>>
    BY <1>3 DEF StopPool, StartPool, ResumeDone, vars, db, mgr
  <2> QED BY <2>1 DEF DownClean, Stranded
<1>4. CASE Crash
  BY <1>4 DEF Crash, Stranded
<1>5. CASE Start
  BY <1>5 DEF Start
<1> QED BY <1>1, <1>2, <1>3, <1>4, <1>5 DEF Next, Quiescent

LEMMA DownCleanInvariant == Spec => []DownClean
  BY DownCleanInit, DownCleanStep, TypeInvariant, PTL DEF Spec

--------------------------------------------------------------------------------
(* The steps of the ledger.                                                   *)

\* A write of one task's status is a write of its entry.
LEMMA EntryWritten ==
  ASSUME TypeInv, NEW t \in Tasks, NEW s \in PendingStatus \cup TerminalStatus,
         status' = [status EXCEPT ![t] = s]
  PROVE  /\ LedgerEntry' = [LedgerEntry EXCEPT ![t] = IF s \in PendingStatus THEN "pending" ELSE s]
         /\ LedgerEntry'[t] = IF s \in PendingStatus THEN "pending" ELSE s
<1>1. /\ \A u \in Tasks : status'[u] = IF u = t THEN s ELSE status[u]
      /\ LedgerEntry = [u \in Tasks |-> IF status[u] \in PendingStatus THEN "pending" ELSE status[u]]
      /\ LedgerEntry' = [u \in Tasks |-> IF status'[u] \in PendingStatus THEN "pending" ELSE status'[u]]
  BY DEF TypeInv, TypeOK, LedgerEntry
<1> QED BY <1>1

\* The entry of an owned task is one Work may find.
LEMMA EntryOfOwned ==
  ASSUME TypeInv, OwnerInv, NEW t \in Owned
  PROVE  /\ t \in Tasks
         /\ LedgerEntry[t] \in Ledger!Entry
         /\ LedgerEntry[t] = "completed" <=> status[t] = "completed"
         /\ LedgerEntry = [LedgerEntry EXCEPT ![t] = LedgerEntry[t]]
<1>1. t \in Tasks
  BY DEF TypeInv, TypeOK, Owned, Waiting, Processed, Enqueuing, Range
<1>2. status[t] \in PendingStatus \cup TerminalStatus
  BY <1>1 DEF OwnerInv, NewInv, TypeInv, TypeOK
<1> QED BY <1>1, <1>2 DEF LedgerEntry, Ledger!Entry, PendingStatus, TerminalStatus

\* A write to an owned task that is not completed, or its loss, is work on it,
\* and so is its settlement.
LEMMA WorkWritten ==
  ASSUME TypeInv, OwnerInv, NEW t \in Owned, NEW s \in PendingStatus \cup TerminalStatus,
         phase # "down", phase' = phase, Written(t, s), UNCHANGED dropped,
         status[t] # "completed",
         \/ UNCHANGED Owned
         \/ Owned' = Owned \ {t} /\ s \in TerminalStatus
  PROVE  Ledger!Work(t)
<1> DEFINE e == IF s \in PendingStatus THEN "pending" ELSE s
<1>1. t \in Tasks /\ LedgerEntry[t] \in Ledger!Entry /\ LedgerEntry[t] # "completed"
      /\ LedgerEntry = [LedgerEntry EXCEPT ![t] = LedgerEntry[t]]
  BY EntryOfOwned
<1>2. (dropped \cup lost)' \in {(dropped \cup lost) \cup {t}, (dropped \cup lost) \ {t}}
  BY DEF Written
<1>3. CASE status' = [status EXCEPT ![t] = s]
  <2>1. LedgerEntry' = [LedgerEntry EXCEPT ![t] = e] /\ LedgerEntry'[t] = e
    BY <1>1, <1>3, EntryWritten
  <2>2. e \in Ledger!Entry /\ (s \in TerminalStatus => e # "pending")
    BY DEF Ledger!Entry, PendingStatus, TerminalStatus
  <2> HIDE DEF e
  <2> QED BY <1>1, <1>2, <2>1, <2>2 DEF Ledger!Work
<1>4. CASE UNCHANGED status /\ lost' = lost \cup {t}
  <2>1. LedgerEntry' = LedgerEntry
    BY <1>4 DEF LedgerEntry
  <2>2. t \in (dropped \cup lost)'
    BY <1>4
  <2> QED BY <1>1, <1>2, <2>1, <2>2 DEF Ledger!Work
<1> QED BY <1>3, <1>4 DEF Written

\* A task that leaves the live ones without a write is settled or stranded.
LEMMA WorkLeaves ==
  ASSUME TypeInv, OwnerInv, NEW t \in Owned, phase # "down", phase' = phase,
         UNCHANGED status, Owned' = Owned \ {t},
         (dropped \cup lost)' \in {dropped \cup lost, (dropped \cup lost) \cup {t}},
         status[t] \in TerminalStatus \/ t \in (dropped \cup lost)'
  PROVE  Ledger!Work(t)
<1>1. t \in Tasks /\ LedgerEntry[t] \in Ledger!Entry
      /\ LedgerEntry = [LedgerEntry EXCEPT ![t] = LedgerEntry[t]]
  BY EntryOfOwned
<1>2. LedgerEntry' = LedgerEntry
  BY DEF LedgerEntry
<1>3. (dropped \cup lost)' \in {(dropped \cup lost) \cup {t}, (dropped \cup lost) \ {t}}
  OBVIOUS
<1>4. LedgerEntry'[t] # "pending" \/ t \in (dropped \cup lost)'
  BY <1>1, <1>2 DEF LedgerEntry, PendingStatus, TerminalStatus
<1> QED BY <1>1, <1>2, <1>3, <1>4 DEF Ledger!Work

\* A step that changes no status and no owner is none of the ledger's.
LEMMA LedgerStutter ==
  ASSUME UNCHANGED <<status, Owned, dropped, lost, phase>>
  PROVE  UNCHANGED Ledger!lvars
  BY DEF Ledger!lvars, LedgerEntry

--------------------------------------------------------------------------------
(* Every step of the queue is a step of the ledger or none.                   *)

LEMMA LedgerInits == Init => Ledger!LedgerInit
<1> SUFFICES ASSUME Init PROVE Ledger!LedgerInit OBVIOUS
<1>1. LedgerEntry = [t \in Tasks |-> "absent"]
  BY DEF Init, LedgerEntry, PendingStatus
<1>2. Owned = {}
  BY DEF Init, Owned, Waiting, Processed, Enqueuing, Range, HandlerInProgress
<1> QED BY <1>1, <1>2 DEF Init, Ledger!LedgerInit

LEMMA LedgerEnqueue ==
  ASSUME TypeInv, OwnerInv, DoneInv,
         NEW t \in Tasks, Enqueue(t) \/ Cancel(t) \/ ResumePush(t)
  PROVE  Ledger!Submit(t) \/ Ledger!Work(t) \/ UNCHANGED Ledger!lvars
<1>1. CASE EnqueueInsert(t)
  <2>1. /\ phase # "down" /\ status[t] = "absent"
        /\ UNCHANGED <<phase, dropped, Waiting, Processed, resume>>
    BY <1>1 DEF EnqueueInsert, OwnerInv, NewInv, Waiting, Processed, wk
  <2>2. LedgerEntry[t] = "absent"
    BY <2>1 DEF LedgerEntry, PendingStatus
  <2>3. CASE status' = [status EXCEPT ![t] = "queued"]
    <3>1. LedgerEntry' = [LedgerEntry EXCEPT ![t] = "pending"]
      BY <2>3, EntryWritten DEF PendingStatus
    <3>2. CASE handler' = [handler EXCEPT ![t] = "inserted"] /\ UNCHANGED lost
      <4>1. Enqueuing' = Enqueuing \cup {t}
        BY <3>2 DEF Enqueuing, HandlerInProgress, TypeInv, TypeOK
      <4> QED BY <2>1, <2>2, <3>1, <3>2, <4>1 DEF Ledger!Submit, Owned
    <3>3. CASE handler' = [handler EXCEPT ![t] = "done"] /\ lost' = lost \cup {t}
      <4>1. Enqueuing' = Enqueuing
        BY <1>1, <3>3 DEF EnqueueInsert, Enqueuing, HandlerInProgress, TypeInv, TypeOK
      <4> QED BY <2>1, <2>2, <3>1, <3>3, <4>1 DEF Ledger!Submit, Owned
    <3>4. \/ handler' = [handler EXCEPT ![t] = "inserted"] /\ UNCHANGED lost
          \/ handler' = [handler EXCEPT ![t] = "done"] /\ lost' = lost \cup {t}
      <4>1. status' # status
        <5>1. status'[t] = "queued" /\ status[t] # "queued"
          BY <2>1, <2>3 DEF TypeInv, TypeOK
        <5> QED BY <5>1
      <4> QED BY <1>1, <4>1 DEF EnqueueInsert
    <3> QED BY <3>2, <3>3, <3>4
  <2>4. CASE UNCHANGED status
    <3>1. status # [status EXCEPT ![t] = "queued"]
      BY <2>1 DEF TypeInv, TypeOK
    <3>2. handler' = [handler EXCEPT ![t] = "done"] /\ UNCHANGED lost
      BY <1>1, <2>4, <3>1 DEF EnqueueInsert
    <3>3. Enqueuing' = Enqueuing
      BY <1>1, <3>2 DEF EnqueueInsert, Enqueuing, HandlerInProgress, TypeInv, TypeOK
    <3> QED BY <2>1, <2>4, <3>2, <3>3, LedgerStutter DEF Owned
  <2> QED BY <1>1, <2>3, <2>4 DEF EnqueueInsert
<1>2. CASE EnqueueRegister(t) \/ EnqueueFull(t) \/ Cancel(t)
  <2>1. UNCHANGED <<phase, dropped, lost, status, Waiting, Processed, Enqueuing, resume>>
    BY <1>2 DEF EnqueueRegister, EnqueueFull, Cancel, Waiting, Processed, Enqueuing,
       HandlerInProgress, db, wk, TypeInv, TypeOK
  <2> QED BY <2>1, LedgerStutter DEF Owned
<1>3. CASE EnqueuePush(t)
  <2>1. /\ Waiting' = Waiting \cup {t}
        /\ Enqueuing = Enqueuing' \cup {t}
    BY <1>3, RangeOfAppend
    DEF EnqueuePush, Waiting, Enqueuing, HandlerInProgress, TypeInv, TypeOK
  <2>2. UNCHANGED <<phase, dropped, lost, status, Processed, resume>>
    BY <1>3 DEF EnqueuePush, Processed, db, wk
  <2> QED BY <2>1, <2>2, LedgerStutter DEF Owned
<1>4. CASE EnqueueReject(t)
  <2>1. /\ t \in Enqueuing /\ Enqueuing' = Enqueuing \ {t}
        /\ UNCHANGED <<phase, dropped, Waiting, Processed, resume>>
        /\ Written(t, "failed")
    BY <1>4 DEF EnqueueReject, Enqueuing, HandlerInProgress, SetStatus, Written, Waiting,
       Processed, wk, TypeInv, TypeOK
  <2>2. phase # "down" /\ status[t] # "completed"
    BY <2>1 DEF TypeInv, DownInv, DoneInv, CompletedInv
  <2>3. t \in Owned /\ Owned' = Owned \ {t}
    BY <2>1 DEF OwnerInv, SingleOwner, Owned
  <2> QED BY <2>1, <2>2, <2>3, WorkWritten DEF TerminalStatus
<1>5. CASE ResumePush(t)
  <2>1. /\ t \in resume /\ resume' = resume \ {t}
        /\ UNCHANGED <<phase, lost, status, Processed, Enqueuing>>
        /\ \/ jobs' = Append(jobs, t) /\ UNCHANGED dropped
           \/ jobs' = jobs /\ dropped' = dropped \cup {t}
    BY <1>5 DEF ResumePush, Processed, Enqueuing, db, wk
  <2>2. phase # "down" /\ t \in Owned
    BY <2>1 DEF TypeInv, DownInv, Owned
  <2>3. CASE jobs' = Append(jobs, t) /\ UNCHANGED dropped
    <3>1. Waiting' = Waiting \cup {t}
      BY <2>3, RangeOfAppend DEF Waiting, TypeInv, TypeOK
    <3> QED BY <2>1, <2>3, <3>1, LedgerStutter DEF Owned
  <2>4. CASE jobs' = jobs /\ dropped' = dropped \cup {t}
    <3>1. Owned' = Owned \ {t}
      BY <2>1, <2>4 DEF OwnerInv, SingleOwner, Owned, Waiting
    <3> QED BY <2>1, <2>2, <2>4, <3>1, WorkLeaves
  <2> QED BY <2>1, <2>3, <2>4
<1> QED BY <1>1, <1>2, <1>3, <1>4, <1>5 DEF Enqueue, EnqueueRest

LEMMA LedgerWorker ==
  ASSUME TypeInv, OwnerInv, DoneInv, NEW w \in Workers, Worker(w)
  PROVE  (\E t \in Tasks : Ledger!Work(t)) \/ UNCHANGED Ledger!lvars
<1>1. CASE Dequeue(w)
  <2>1. Waiting = Waiting' \cup {Head(jobs)} /\ Head(jobs) \in Tasks
    BY <1>1, RangeOfTail DEF Dequeue, Waiting, TypeInv, TypeOK
  <2>2. /\ job[w] = None /\ job' = [job EXCEPT ![w] = Head(jobs)]
        /\ UNCHANGED <<phase, dropped, lost, status, Enqueuing, resume>>
    BY <1>1 DEF Dequeue, TypeInv, WorkerInv, Busy, Attempting, Enqueuing, db
  <2>3. Processed' = Processed \cup {Head(jobs)}
    BY <2>1, <2>2, QueueAssumption DEF QueueAssumption, Processed, TypeInv, TypeOK
  <2> QED BY <2>1, <2>2, <2>3, LedgerStutter DEF Owned
<1>2. CASE WorkerExit(w)
  <2>1. UNCHANGED <<phase, dropped, lost, status, Enqueuing, resume, Waiting, Processed>>
    BY <1>2 DEF WorkerExit, db, mgr, Enqueuing, Waiting, Processed
  <2> QED BY <2>1, LedgerStutter DEF Owned
<1>3. CASE Middle(w)
  <2>1. /\ UNCHANGED <<phase, dropped, Enqueuing, resume, Waiting, Processed>>
        /\ job[w] \in Processed /\ pc[w] # "exited"
    BY <1>3, MiddleEffect, QueueAssumption
    DEF QueueAssumption, Enqueuing, Waiting, Processed, Busy, Attempting
  <2>2. phase # "down" /\ job[w] \in Owned /\ UNCHANGED Owned
    BY <2>1 DEF TypeInv, DownInv, Owned
  <2>3. CASE UNCHANGED <<status, lost>>
    BY <2>1, <2>2, <2>3, LedgerStutter
  <2>4. ASSUME NEW s \in PendingStatus \cup TerminalStatus, Written(job[w], s)
        PROVE  Ledger!Work(job[w]) \/ UNCHANGED <<status, lost>>
    <3>1. CASE Finished(w)
      BY <1>3, <3>1, MiddleStage
    <3>2. CASE ~Finished(w)
      <4>1. status[job[w]] # "completed"
        BY <1>3, <3>2, MiddleEffect DEF DoneInv, CompletedInv
      <4> QED BY <2>1, <2>2, <2>4, <4>1, WorkWritten
    <3> QED BY <3>1, <3>2
  <2> QED BY <1>3, <2>3, <2>4, MiddleEffect
<1>4. CASE Cleanup(w)
  <2>1. /\ UNCHANGED <<phase, dropped, lost, status, Enqueuing, resume, Waiting>>
        /\ job' = [job EXCEPT ![w] = None] /\ pc[w] = "cleanup"
    BY <1>4 DEF Cleanup, db, Enqueuing, Waiting
  <2>2. job[w] \in Tasks /\ job[w] # None
    BY <2>1, BusyHasJob, QueueAssumption DEF QueueAssumption, Busy
  <2>3. Processed' = Processed \ {job[w]}
    BY <2>1, <2>2, JobIsOnlyThere DEF Processed, TypeInv, TypeOK
  <2>4. job[w] \in Owned /\ Owned' = Owned \ {job[w]}
    BY <2>1, <2>2, <2>3, JobIsOnlyThere DEF Owned
  <2>5. phase # "down"
    BY <2>1 DEF TypeInv, DownInv
  <2>6. status[job[w]] \in TerminalStatus \/ job[w] \in (dropped \cup lost)'
    BY <2>1 DEF DoneInv, StageInv, Finished
  <2>7. Ledger!Work(job[w])
    BY <2>1, <2>4, <2>5, <2>6, WorkLeaves
  <2> QED BY <2>2, <2>7
<1> QED BY <1>1, <1>2, <1>3, <1>4, WorkerCases

LEMMA LedgerProcess ==
  ASSUME TypeInv, DownClean,
         StopPool \/ StartPool \/ Crash \/ Start \/ ResumeDone \/ UNCHANGED vars
  PROVE  Ledger!End \/ Ledger!Recover \/ UNCHANGED Ledger!lvars
<1>1. CASE StopPool \/ StartPool \/ UNCHANGED vars
  <2>1. UNCHANGED <<phase, dropped, lost, status, Enqueuing, resume, Waiting, Processed>>
    BY <1>1 DEF StopPool, StartPool, vars, db, mgr, wk, Enqueuing, Waiting, Processed
  <2> QED BY <2>1, LedgerStutter DEF Owned
<1>2. CASE ResumeDone
  <2>1. /\ UNCHANGED <<dropped, lost, status, Enqueuing, resume, Waiting, Processed>>
        /\ phase # "down" /\ phase' # "down"
    BY <1>2 DEF ResumeDone, db, wk, Enqueuing, Waiting, Processed
  <2> QED BY <2>1 DEF Ledger!lvars, LedgerEntry, Owned
<1>3. CASE Crash
  <2>1. /\ phase # "down" /\ phase' = "down" /\ UNCHANGED status
        /\ Owned' = {} /\ dropped' = {} /\ lost' = {}
    BY <1>3 DEF Crash, Owned, Waiting, Processed, Enqueuing, Range, HandlerInProgress
  <2> QED BY <2>1 DEF Ledger!End, LedgerEntry
<1>4. CASE Start
  <2>1. phase = "down" /\ phase' # "down" /\ dropped = {} /\ lost = {}
    BY <1>4 DEF Start, DownClean, Stranded
  <2>2. Waiting = {} /\ Enqueuing = {} /\ resume = {} /\ Processed = {}
    <3>1. jobs = <<>> /\ Enqueuing = {} /\ resume = {} /\ \A w \in Workers : pc[w] = "exited"
      BY <2>1 DEF TypeInv, DownInv
    <3>2. \A w \in Workers : job[w] = None
      BY <3>1 DEF TypeInv, WorkerInv, Busy, Attempting
    <3> QED BY <3>1, <3>2 DEF Waiting, Processed, Range
  <2>3. /\ UNCHANGED <<status, lost, Waiting, Enqueuing, Processed>>
        /\ \/ resume' = Pending /\ UNCHANGED dropped
           \/ resume' = resume /\ dropped' = Pending
    BY <1>4 DEF Start, Waiting, Enqueuing, Processed, db
  <2>4. Pending = Ledger!Outstanding
    BY DEF Pending, Ledger!Outstanding, LedgerEntry, PendingStatus, TerminalStatus, TypeInv,
       TypeOK
  <2>5. LedgerEntry' = LedgerEntry
    BY <2>3 DEF LedgerEntry
  <2> QED BY <2>1, <2>2, <2>3, <2>4, <2>5 DEF Ledger!Recover, Owned
<1> QED BY <1>1, <1>2, <1>3, <1>4

LEMMA LedgerStep ==
  TypeInv /\ OwnerInv /\ DoneInv /\ DownClean /\ [Next]_vars
    => [Ledger!LedgerNext]_(Ledger!lvars)
  BY LedgerEnqueue, LedgerWorker, LedgerProcess DEF Next, Quiescent, Ledger!LedgerNext

\* The queue keeps what TaskLedger promises: only the entries of live tasks
\* change, completed is for ever, and a task leaves the live ones settled or
\* known to be stranded until the next start, which makes it live again.
THEOREM QueueImplementsLedger == Spec => ImplementsLedger
  BY LedgerInits, LedgerStep, DownCleanInvariant, DoneInvariant, OwnerInvariant, TypeInvariant,
     PTL DEF Spec, ImplementsLedger, Ledger!LedgerSpec

--------------------------------------------------------------------------------
(* The cancels map.                                                           *)

\* A task has its entry from before it is pushed, and none once it is refused.
CancelInv ==
  /\ CancelReachesJobs
  /\ \A t \in Tasks : /\ handler[t] = "registered" => t \in cancels \cup canceled
                      /\ handler[t] = "refused" => t \notin cancels

LEMMA CancelInit == Init => CancelInv
  BY DEF Init, CancelInv, CancelReachesJobs, Waiting, Processed, Range

LEMMA CancelEnqueue ==
  ASSUME TypeInv, OwnerInv, CancelInv,
         NEW t \in Tasks, Enqueue(t) \/ Cancel(t) \/ ResumePush(t)
  PROVE  CancelInv'
<1> USE DEF CancelInv, CancelReachesJobs
<1>1. CASE EnqueueInsert(t)
  <2>1. /\ UNCHANGED <<cancels, canceled, dropped, Waiting, Processed>>
        /\ Enqueuing \subseteq Enqueuing'
        /\ \A u \in Tasks : handler'[u] \in {handler[u], "inserted", "done"}
    BY <1>1 DEF EnqueueInsert, Waiting, Processed, Enqueuing, HandlerInProgress, wk, TypeInv,
       TypeOK
  <2> QED BY <2>1
<1>2. CASE EnqueueRegister(t)
  <2>1. /\ UNCHANGED <<canceled, dropped, Waiting, Processed, Enqueuing>>
        /\ t \in Enqueuing /\ cancels' = cancels \cup {t}
        /\ \A u \in Tasks : u # t => handler'[u] = handler[u]
        /\ handler'[t] = "registered"
    BY <1>2 DEF EnqueueRegister, Waiting, Processed, Enqueuing, HandlerInProgress, wk, TypeInv,
       TypeOK
  <2> QED BY <2>1
<1>3. CASE EnqueuePush(t)
  <2>1. /\ UNCHANGED <<cancels, canceled, dropped, Processed>>
        /\ handler[t] = "registered" /\ Enqueuing = Enqueuing' \cup {t}
        /\ \A u \in Tasks : handler'[u] \in {handler[u], "done"}
    BY <1>3 DEF EnqueuePush, Processed, Enqueuing, HandlerInProgress, wk, TypeInv, TypeOK
  <2>2. Waiting' = Waiting \cup {t}
    BY <1>3, RangeOfAppend DEF EnqueuePush, Waiting, TypeInv, TypeOK
  <2> QED BY <2>1, <2>2
<1>4. CASE EnqueueFull(t)
  <2>1. /\ UNCHANGED <<dropped, Waiting, Processed, Enqueuing>>
        /\ t \in Enqueuing /\ cancels' = cancels \ {t} /\ canceled' = canceled \ {t}
        /\ \A u \in Tasks : u # t => handler'[u] = handler[u]
        /\ handler'[t] = "refused"
    BY <1>4 DEF EnqueueFull, Waiting, Processed, Enqueuing, HandlerInProgress, wk, TypeInv,
       TypeOK
  <2>2. t \notin Waiting \cup Processed
    BY <2>1 DEF OwnerInv, SingleOwner
  <2> QED BY <2>1, <2>2
<1>5. CASE EnqueueReject(t)
  <2>1. /\ UNCHANGED <<cancels, canceled, dropped, Waiting, Processed>>
        /\ handler[t] = "refused" /\ Enqueuing = Enqueuing' \cup {t}
        /\ \A u \in Tasks : handler'[u] \in {handler[u], "done"}
    BY <1>5 DEF EnqueueReject, Waiting, Processed, Enqueuing, HandlerInProgress, wk, TypeInv,
       TypeOK
  <2> QED BY <2>1
<1>6. CASE Cancel(t)
  <2>1. /\ UNCHANGED <<handler, dropped, Waiting, Processed, Enqueuing>>
        /\ cancels' = cancels \ {t} /\ canceled' = canceled \cup {t}
    BY <1>6 DEF Cancel, Waiting, Processed, Enqueuing, wk
  <2> QED BY <2>1
<1>7. CASE ResumePush(t)
  <2>1. /\ UNCHANGED <<handler, canceled, Processed, Enqueuing>>
        /\ t \in resume /\ cancels' = cancels \cup {t}
        /\ \/ jobs' = Append(jobs, t) /\ UNCHANGED dropped
           \/ jobs' = jobs /\ dropped' = dropped \cup {t}
    BY <1>7 DEF ResumePush, Processed, Enqueuing, wk
  <2>2. \/ Waiting' = Waiting \cup {t} /\ UNCHANGED dropped
        \/ Waiting' = Waiting /\ dropped' = dropped \cup {t}
    <3>1. CASE jobs' = Append(jobs, t) /\ UNCHANGED dropped
      BY <3>1, RangeOfAppend DEF Waiting, TypeInv, TypeOK
    <3>2. CASE jobs' = jobs /\ dropped' = dropped \cup {t}
      BY <3>2 DEF Waiting
    <3> QED BY <2>1, <3>1, <3>2
  <2>3. handler[t] # "refused"
    BY <2>1 DEF OwnerInv, SingleOwner, Enqueuing, HandlerInProgress
  <2> QED BY <2>1, <2>2, <2>3
<1> QED BY <1>1, <1>2, <1>3, <1>4, <1>5, <1>6, <1>7 DEF Enqueue, EnqueueRest

LEMMA CancelWorker ==
  ASSUME TypeInv, OwnerInv, CancelInv, NEW w \in Workers, Worker(w)
  PROVE  CancelInv'
<1> USE DEF CancelInv, CancelReachesJobs
<1>1. CASE Dequeue(w)
  <2>1. Waiting = Waiting' \cup {Head(jobs)} /\ Head(jobs) \in Tasks
    BY <1>1, RangeOfTail DEF Dequeue, Waiting, TypeInv, TypeOK
  <2>2. /\ job[w] = None /\ job' = [job EXCEPT ![w] = Head(jobs)]
        /\ UNCHANGED <<cancels, canceled, handler, dropped, Enqueuing>>
    BY <1>1 DEF Dequeue, TypeInv, WorkerInv, Busy, Attempting, Enqueuing
  <2>3. Processed' = Processed \cup {Head(jobs)}
    BY <2>1, <2>2, QueueAssumption DEF QueueAssumption, Processed, TypeInv, TypeOK
  <2> QED BY <2>1, <2>2, <2>3
<1>2. CASE WorkerExit(w)
  <2>1. UNCHANGED <<cancels, canceled, handler, dropped, Waiting, Processed, Enqueuing>>
    BY <1>2 DEF WorkerExit, mgr, Waiting, Processed, Enqueuing
  <2> QED BY <2>1
<1>3. CASE Middle(w)
  <2>1. UNCHANGED <<cancels, canceled, handler, dropped, jobs, job>>
    BY <1>3 DEF Middle, BeginAttempt, MarkDownloading, CreateFile, DownloadDone,
       DownloadFailed, TooLarge, NotLoggedIn, MarkUploading, OpenFile, UploadDone,
       UploadFailed, Fail, Finish, Return, Backoff, GiveUp, mgr
  <2>2. UNCHANGED <<Waiting, Processed, Enqueuing>>
    BY <2>1 DEF Waiting, Processed, Enqueuing
  <2> QED BY <2>1, <2>2
<1>4. CASE Cleanup(w)
  <2>1. /\ UNCHANGED <<handler, dropped, Waiting, Enqueuing>>
        /\ job' = [job EXCEPT ![w] = None] /\ pc[w] = "cleanup"
        /\ cancels' = cancels \ {job[w]} /\ canceled' = canceled \ {job[w]}
    BY <1>4 DEF Cleanup, Enqueuing, Waiting
  <2>2. job[w] \in Tasks /\ job[w] # None
    BY <2>1, BusyHasJob, QueueAssumption DEF QueueAssumption, Busy
  <2>3. Processed' = Processed \ {job[w]}
    BY <2>1, <2>2, JobIsOnlyThere DEF Processed, TypeInv, TypeOK
  <2>4. job[w] \notin Waiting \cup Enqueuing
    BY <2>2, JobIsOnlyThere
  <2>5. handler[job[w]] # "registered"
    BY <2>2, <2>4 DEF Enqueuing, HandlerInProgress
  <2> QED BY <2>1, <2>2, <2>3, <2>4, <2>5
<1> QED BY <1>1, <1>2, <1>3, <1>4, WorkerCases

LEMMA CancelProcess ==
  ASSUME TypeInv, DownClean, CancelInv,
         StopPool \/ StartPool \/ Crash \/ Start \/ ResumeDone \/ UNCHANGED vars
  PROVE  CancelInv'
<1> USE DEF CancelInv, CancelReachesJobs
<1>1. CASE StopPool \/ StartPool \/ ResumeDone \/ UNCHANGED vars
  <2>1. UNCHANGED <<cancels, canceled, handler, dropped, Waiting, Processed, Enqueuing>>
    BY <1>1 DEF StopPool, StartPool, ResumeDone, vars, mgr, wk, Waiting, Processed, Enqueuing
  <2> QED BY <2>1
<1>2. CASE Crash
  <2>1. /\ cancels' = {} /\ Waiting' = {} /\ Processed' = {}
        /\ \A t \in Tasks : handler'[t] \in {"new", "done"}
    BY <1>2 DEF Crash, Waiting, Processed, Range
  <2> QED BY <2>1
<1>3. CASE Start
  <2>1. UNCHANGED <<cancels, canceled, handler, Waiting, Processed, Enqueuing>>
        /\ dropped = {}
    BY <1>3 DEF Start, Waiting, Processed, Enqueuing, DownClean, Stranded
  <2> QED BY <2>1
<1> QED BY <1>1, <1>2, <1>3

LEMMA CancelStep == TypeInv /\ OwnerInv /\ DownClean /\ CancelInv /\ [Next]_vars => CancelInv'
  BY CancelEnqueue, CancelWorker, CancelProcess DEF Next, Quiescent

\* Cancel finds every job that waits or is processed, and the map keeps an entry
\* of no other task but those Resume dropped.
THEOREM CancelFindsJobs == Spec => []CancelReachesJobs
<1>1. CancelInv => CancelReachesJobs
  BY DEF CancelInv
<1> QED BY <1>1, CancelInit, CancelStep, DownCleanInvariant, OwnerInvariant, TypeInvariant, PTL
        DEF Spec

--------------------------------------------------------------------------------
(* The download directory.                                                    *)

\* where an attempt has its file on disk
Holding == {"streaming", "downloaded", "uploading", "sending", "finishing", "returning"}

LEMMA DiskInit == Init => NoDiskLeak
  BY DEF Init, NoDiskLeak

\* A worker that has a file goes on having it until Return removes it.
LEMMA DiskWorker ==
  ASSUME TypeInv, NoDiskLeak, NEW w \in Workers, Worker(w)
  PROVE  NoDiskLeak'
<1>1. ASSUME crashes = 0, NEW t \in files
      PROVE  \E v \in Workers : job[v] = t /\ pc[v] \in Holding
  BY <1>1 DEF NoDiskLeak, Holding
<1> USE DEF TypeInv, TypeOK, Goto, Holding
<1>2. SUFFICES ASSUME crashes' = 0, NEW t \in files'
               PROVE  \E v \in Workers : job'[v] = t /\ pc'[v] \in Holding
  BY DEF NoDiskLeak
<1>3. CASE t \notin files
  <2>1. CreateFile(w)
    BY <1>2, <1>3 DEF Worker, Dequeue, WorkerExit, BeginAttempt, MarkDownloading, CreateFile,
       DownloadDone, DownloadFailed, TooLarge, NotLoggedIn, MarkUploading, OpenFile,
       UploadDone, UploadFailed, Fail, Finish, Return, Backoff, GiveUp, Cleanup, world
  <2> QED BY <1>2, <1>3, <2>1 DEF CreateFile
<1>4. CASE t \in files
  <2>1. crashes = 0
    BY <1>2 DEF Worker, Dequeue, WorkerExit, BeginAttempt, MarkDownloading, CreateFile,
       DownloadDone, DownloadFailed, TooLarge, NotLoggedIn, MarkUploading, OpenFile,
       UploadDone, UploadFailed, Fail, Finish, Return, Backoff, GiveUp, Cleanup
  <2>2. PICK v \in Workers : job[v] = t /\ pc[v] \in Holding
    BY <1>1, <1>4, <2>1
  <2>3. CASE v = w
    <3>1. \/ Return(w)
          \/ job' = job /\ pc'[w] \in Holding
      BY <2>2, <2>3 DEF Worker, Dequeue, WorkerExit, BeginAttempt, MarkDownloading, CreateFile,
         DownloadDone, DownloadFailed, TooLarge, NotLoggedIn, MarkUploading, OpenFile,
         UploadDone, UploadFailed, Fail, Finish, Backoff, GiveUp, Cleanup
    <3>2. ~Return(w)
      BY <1>2, <2>2, <2>3 DEF Return
    <3> QED BY <2>2, <2>3, <3>1, <3>2
  <2>4. CASE v # w
    <3>1. pc'[v] = pc[v] /\ job'[v] = job[v]
      BY <2>4 DEF Worker, Dequeue, WorkerExit, BeginAttempt, MarkDownloading, CreateFile,
         DownloadDone, DownloadFailed, TooLarge, NotLoggedIn, MarkUploading, OpenFile,
         UploadDone, UploadFailed, Fail, Finish, Return, Backoff, GiveUp, Cleanup
    <3> QED BY <2>2, <3>1
  <2> QED BY <2>3, <2>4
<1> QED BY <1>3, <1>4

\* Nobody else makes a file or takes a worker out of an attempt, but a crash.
LEMMA DiskRest ==
  ASSUME TypeInv, NoDiskLeak, Next, ~\E w \in Workers : Worker(w)
  PROVE  NoDiskLeak'
<1>1. CASE Crash
  BY <1>1 DEF Crash, NoDiskLeak, TypeInv, TypeOK
<1>2. CASE StartPool \/ Start
  <2>1. /\ UNCHANGED <<files, job, crashes>>
        /\ \A v \in Workers : pc[v] = "exited"
    BY <1>2 DEF StartPool, Start, world, TypeInv, DownInv
  <2> QED BY <2>1 DEF NoDiskLeak
<1>3. CASE UNCHANGED <<files, job, pc, crashes>>
  BY <1>3 DEF NoDiskLeak
<1>4. Crash \/ StartPool \/ Start \/ UNCHANGED <<files, job, pc, crashes>>
  BY DEF Next, Enqueue, EnqueueRest, EnqueueInsert, EnqueueRegister, EnqueuePush, EnqueueFull,
     EnqueueReject, Cancel, ResumePush, StopPool, ResumeDone, Quiescent, vars, world, wk
<1> QED BY <1>1, <1>2, <1>3, <1>4

LEMMA DiskStep == TypeInv /\ NoDiskLeak /\ [Next]_vars => NoDiskLeak'
<1>1. CASE UNCHANGED vars
  BY <1>1 DEF NoDiskLeak, vars, world, wk
<1> QED BY <1>1, DiskWorker, DiskRest

\* Until the first crash no file is left in the download directory but that of
\* an attempt that will remove it.
THEOREM NoFileIsLeaked == Spec => []NoDiskLeak
  BY DiskInit, DiskStep, TypeInvariant, PTL DEF Spec

--------------------------------------------------------------------------------
(* The attempts.                                                              *)

\* the retries of n lives of the process
Upper(n) == (MaxAttempts - 1) * n

\* the retries of the job of w in this life
Retried(w) == IF pc[w] = "attempt" /\ attempt[w] > 1 THEN attempt[w] - 2 ELSE attempt[w] - 1

\* the tasks no worker has had in this life
Untried == {t \in Tasks : t \in Waiting \cup Enqueuing \cup resume \/ handler[t] = "new"
                            \/ phase = "down"}

\* A task comes to a worker at most once a life, and leaves it MaxAttempts - 1
\* retries later at the latest.
RetryInv ==
  /\ \A t \in Tasks : retryCount[t] <= Upper(crashes + 1)
  /\ \A t \in Untried : retryCount[t] <= Upper(crashes)
  /\ \A w \in Workers : job[w] # None => retryCount[job[w]] <= Upper(crashes) + Retried(w)
  /\ \A w \in Workers : job[w] = None => attempt[w] = 1

LEMMA UpperStep ==
  ASSUME NEW n \in Nat
  PROVE  Upper(n) \in Nat /\ Upper(n + 1) \in Nat /\ Upper(n + 1) = Upper(n) + (MaxAttempts - 1)
<1> DEFINE m == MaxAttempts - 1
<1>1. m \in Nat
  BY MaxAttemptsType
<1> HIDE DEF m
<1>2. m * n \in Nat /\ m * (n + 1) = m * n + m
  BY <1>1
<1> QED BY <1>1, <1>2 DEF Upper, m

LEMMA RetryInit == Init => RetryInv
<1> SUFFICES ASSUME Init PROVE RetryInv
  OBVIOUS
<1>1. crashes = 0 /\ Upper(0) \in Nat /\ Upper(0 + 1) \in Nat
  BY UpperStep DEF Init
<1> QED BY <1>1 DEF Init, RetryInv, Untried

\* Nothing of a worker changes, and no task becomes untried again.
LEMMA RetryFrame ==
  ASSUME RetryInv, UNCHANGED <<retryCount, job, pc, attempt, crashes>>, Untried' \subseteq Untried
  PROVE  RetryInv'
  BY DEF RetryInv, Retried

LEMMA RetryEnqueue ==
  ASSUME TypeInv, RetryInv, NEW t \in Tasks, Enqueue(t) \/ Cancel(t) \/ ResumePush(t)
  PROVE  RetryInv'
<1>1. UNCHANGED <<retryCount, job, pc, attempt, crashes, phase>>
  BY DEF Enqueue, EnqueueRest, EnqueueInsert, EnqueueRegister, EnqueuePush, EnqueueFull,
     EnqueueReject, Cancel, ResumePush, db, wk
<1>2. /\ Waiting' \subseteq Waiting \cup {t}
      /\ resume' \subseteq resume
      /\ Enqueuing' \subseteq Enqueuing \cup {t}
      /\ \A u \in Tasks : handler'[u] = "new" => handler[u] = "new"
      /\ t \in Waiting' \cup Enqueuing' => t \in Untried
  <2>1. CASE EnqueueInsert(t)
    BY <2>1 DEF EnqueueInsert, Waiting, Enqueuing, HandlerInProgress, Untried, TypeInv, TypeOK
  <2>2. CASE EnqueueRegister(t) \/ EnqueueFull(t) \/ EnqueueReject(t)
    BY <2>2 DEF EnqueueRegister, EnqueueFull, EnqueueReject, Waiting, Enqueuing,
       HandlerInProgress, Untried, TypeInv, TypeOK
  <2>3. CASE EnqueuePush(t)
    <3>1. Waiting' = Waiting \cup {t}
      BY <2>3, RangeOfAppend DEF EnqueuePush, Waiting, TypeInv, TypeOK
    <3> QED BY <2>3, <3>1 DEF EnqueuePush, Enqueuing, HandlerInProgress, Untried, TypeInv,
               TypeOK
  <2>4. CASE Cancel(t)
    BY <2>4 DEF Cancel, Waiting, Enqueuing, Untried
  <2>5. CASE ResumePush(t)
    <3>1. jobs' = jobs \/ jobs' = Append(jobs, t)
      BY <2>5 DEF ResumePush
    <3>2. Waiting' \subseteq Waiting \cup {t}
      BY <3>1, RangeOfAppend DEF Waiting, TypeInv, TypeOK
    <3> QED BY <2>5, <3>2 DEF ResumePush, Enqueuing, Untried
  <2> QED BY <2>1, <2>2, <2>3, <2>4, <2>5 DEF Enqueue, EnqueueRest
<1>3. Untried' \subseteq Untried
  BY <1>1, <1>2 DEF Untried
<1> QED BY <1>1, <1>3, RetryFrame

LEMMA RetryWorker ==
  ASSUME TypeInv, OwnerInv, RetryInv, NEW w \in Workers, Worker(w)
  PROVE  RetryInv'
<1>a. crashes \in Nat /\ Upper(crashes) \in Nat /\ Upper(crashes + 1) \in Nat
      /\ Upper(crashes + 1) = Upper(crashes) + (MaxAttempts - 1)
  <2>1. crashes \in Nat
    BY QueueAssumption DEF QueueAssumption, TypeInv, TypeOK
  <2> QED BY <2>1, UpperStep
<1>b. /\ retryCount \in [Tasks -> Nat] /\ attempt \in [Workers -> 1..MaxAttempts]
      /\ MaxAttempts \in Nat
  BY MaxAttemptsType DEF TypeInv, TypeOK
<1>1. CASE Dequeue(w)
  <2>1. Waiting = Waiting' \cup {Head(jobs)} /\ Head(jobs) \in Tasks
    BY <1>1, RangeOfTail DEF Dequeue, Waiting, TypeInv, TypeOK
  <2>2. /\ job[w] = None /\ job' = [job EXCEPT ![w] = Head(jobs)]
        /\ pc' = [pc EXCEPT ![w] = "attempt"]
        /\ UNCHANGED <<retryCount, attempt, crashes, handler, phase, resume, Enqueuing>>
    BY <1>1 DEF Dequeue, Goto, TypeInv, WorkerInv, Busy, Attempting, Enqueuing, db
  <2>3. Untried' \subseteq Untried
    BY <2>1, <2>2 DEF Untried
  <2>4. /\ \A v \in Workers : v # w => job'[v] = job[v] /\ Retried(v)' = Retried(v)
        /\ job'[w] = Head(jobs) /\ Retried(w)' = 0
    BY <1>b, <2>2 DEF TypeInv, TypeOK, Retried, RetryInv
  <2>5. retryCount[Head(jobs)] <= Upper(crashes)
    BY <2>1 DEF RetryInv, Untried
  <2>6. Head(jobs) # None
    BY <2>1, QueueAssumption DEF QueueAssumption
  <2> QED BY <1>a, <2>1, <2>2, <2>3, <2>4, <2>5, <2>6 DEF RetryInv
<1>2. CASE WorkerExit(w)
  <2>1. /\ UNCHANGED <<retryCount, job, attempt, crashes, Untried>>
        /\ \A v \in Workers : Retried(v)' = Retried(v)
    BY <1>2 DEF WorkerExit, Goto, db, mgr, Untried, Waiting, Enqueuing, Retried, TypeInv, TypeOK
  <2> QED BY <2>1 DEF RetryInv
<1>3. CASE Middle(w)
  <2>1. /\ UNCHANGED <<jobs, job, crashes, Untried>>
        /\ job[w] \in Tasks /\ job[w] # None
        /\ \A v \in Workers : v # w => pc'[v] = pc[v]
    BY <1>3, MiddleEffect, QueueAssumption
    DEF QueueAssumption, Untried, Waiting, Enqueuing, TypeInv, TypeOK
  <2>2. \A v \in Workers : v # w => attempt'[v] = attempt[v]
    BY <1>3, <1>b DEF Middle, BeginAttempt, MarkDownloading, CreateFile, DownloadDone, DownloadFailed,
       TooLarge, NotLoggedIn, MarkUploading, OpenFile, UploadDone, UploadFailed, Fail, Finish,
       Return, Backoff, GiveUp
  <2>3. job[w] \notin Untried
    <3>1. phase # "down"
      BY <1>3, MiddleEffect DEF TypeInv, DownInv, Busy, Attempting
    <3>2. handler[job[w]] # "new"
      <4>1. job[w] \in Owned /\ status[job[w]] # "absent"
        BY <2>1 DEF OwnerInv, NewInv, Owned, Processed
      <4> QED BY <2>1, <4>1 DEF OwnerInv, NewInv
    <3> QED BY <2>1, <3>1, <3>2, JobIsOnlyThere DEF Untried
  <2>4. \/ UNCHANGED retryCount /\ Retried(w) <= Retried(w)'
        \/ /\ retryCount' = [retryCount EXCEPT ![job[w]] = @ + 1]
           /\ Retried(w)' = Retried(w) + 1 /\ Retried(w)' <= MaxAttempts - 1
    <3>1. CASE BeginAttempt(w)
      <4>1. /\ pc[w] = "attempt" /\ UNCHANGED attempt
            /\ pc'[w] \in {"giveup", "starting"}
            /\ \/ UNCHANGED retryCount
               \/ attempt[w] > 1 /\ retryCount' = [retryCount EXCEPT ![job[w]] = @ + 1]
        BY <3>1 DEF BeginAttempt, Goto, TypeInv, TypeOK
      <4> QED BY <1>b, <4>1 DEF Retried
    <3>2. CASE Backoff(w)
      <4>1. /\ pc[w] = "backoff" /\ UNCHANGED retryCount
            /\ \/ attempt' = [attempt EXCEPT ![w] = @ + 1] /\ pc'[w] = "attempt"
               \/ UNCHANGED attempt /\ pc'[w] = "giveup"
        BY <3>2 DEF Backoff, Goto, db, TypeInv, TypeOK
      <4> QED BY <1>b, <4>1 DEF Retried
    <3>3. CASE ~BeginAttempt(w) /\ ~Backoff(w)
      <4>1. UNCHANGED <<retryCount, attempt>>
        BY <1>3, <3>3 DEF Middle, MarkDownloading, CreateFile, DownloadDone, DownloadFailed,
           TooLarge, NotLoggedIn, MarkUploading, OpenFile, UploadDone, UploadFailed, Fail,
           Finish, Return, GiveUp, db
      <4>3. pc[w] # "attempt"
        BY <1>3, <3>3 DEF Middle, MarkDownloading, CreateFile, DownloadDone, DownloadFailed,
           TooLarge, NotLoggedIn, MarkUploading, OpenFile, UploadDone, UploadFailed, Fail,
           Finish, Return, GiveUp
      <4>2. pc'[w] # "attempt"
        <5>1. pc \in [Workers -> Parked \cup Busy]
          BY DEF TypeInv, TypeOK
        <5>2. CASE MarkDownloading(w) \/ Return(w)
          <6>1. \E r, a : pc'[w] \in {"downloading", AfterAttempt(r, a)}
            BY <5>1, <5>2 DEF MarkDownloading, Return, Goto
          <6> QED BY <6>1, AfterAttemptType
        <5>3. CASE ~MarkDownloading(w) /\ ~Return(w)
          BY <1>3, <3>3, <5>1, <5>3
          DEF Middle, CreateFile, DownloadDone, DownloadFailed, TooLarge, NotLoggedIn,
              MarkUploading, OpenFile, UploadDone, UploadFailed, Fail, Finish, GiveUp, Goto
        <5> QED BY <5>2, <5>3
      <4> QED BY <1>b, <4>1, <4>2, <4>3 DEF Retried
    <3> QED BY <3>1, <3>2, <3>3
  <2>5. /\ \A v \in Workers : v # w => job[v] # job[w] /\ Retried(v)' = Retried(v)
        /\ \A v \in Workers : Retried(v) \in Int /\ Retried(v)' \in Int
    <3>1. attempt' \in [Workers -> 1..MaxAttempts]
      BY TypeWorker DEF TypeOK
    <3> QED BY <1>b, <2>1, <2>2, <3>1, JobIsOnlyThere DEF Retried
  <2>6. retryCount[job[w]] <= Upper(crashes) + Retried(w)
    BY <2>1 DEF RetryInv
  <2>7. \A t \in Tasks : t # job[w] => retryCount'[t] = retryCount[t]
    BY <1>b, <2>4
  <2>8. /\ retryCount'[job[w]] <= Upper(crashes) + Retried(w)'
        /\ retryCount'[job[w]] <= Upper(crashes + 1)
    <3>1. CASE UNCHANGED retryCount /\ Retried(w) <= Retried(w)'
      BY <1>a, <1>b, <2>1, <2>5, <2>6, <3>1 DEF RetryInv
    <3>2. CASE /\ retryCount' = [retryCount EXCEPT ![job[w]] = @ + 1]
               /\ Retried(w)' = Retried(w) + 1 /\ Retried(w)' <= MaxAttempts - 1
      <4>1. retryCount'[job[w]] = retryCount[job[w]] + 1
        BY <1>b, <2>1, <3>2
      <4> QED BY <1>a, <1>b, <2>1, <2>5, <2>6, <3>2, <4>1
    <3> QED BY <2>4, <3>1, <3>2
  <2> QED
    <3>1. \A t \in Tasks : retryCount'[t] <= Upper(crashes' + 1)
      BY <2>1, <2>7, <2>8 DEF RetryInv
    <3>2. \A t \in Untried' : retryCount'[t] <= Upper(crashes')
      BY <2>1, <2>3, <2>7 DEF RetryInv, Untried
    <3>3. \A v \in Workers : job'[v] # None
                               => retryCount'[job'[v]] <= Upper(crashes') + Retried(v)'
      BY <2>1, <2>5, <2>7, <2>8 DEF RetryInv, TypeInv, TypeOK
    <3>4. \A v \in Workers : job'[v] = None => attempt'[v] = 1
      BY <2>1, <2>2 DEF RetryInv
    <3> QED BY <3>1, <3>2, <3>3, <3>4 DEF RetryInv
<1>4. CASE Cleanup(w)
  <2>1. /\ UNCHANGED <<retryCount, crashes, Untried>>
        /\ \A v \in Workers : v # w => /\ job'[v] = job[v] /\ attempt'[v] = attempt[v]
                                       /\ Retried(v)' = Retried(v)
        /\ job'[w] = None /\ attempt'[w] = 1
    BY <1>4, <1>b DEF Cleanup, Goto, db, Untried, Waiting, Enqueuing, Retried, TypeInv, TypeOK
  <2> QED BY <2>1 DEF RetryInv
<1> QED BY <1>1, <1>2, <1>3, <1>4, WorkerCases

LEMMA RetryProcess ==
  ASSUME TypeInv, RetryInv,
         StopPool \/ StartPool \/ Crash \/ Start \/ ResumeDone \/ UNCHANGED vars
  PROVE  RetryInv'
<1>1. CASE StopPool \/ ResumeDone \/ UNCHANGED vars
  <2>1. /\ UNCHANGED <<retryCount, job, pc, attempt, crashes, Waiting, Enqueuing, resume, handler>>
        /\ phase' = "down" => phase = "down"
    BY <1>1 DEF StopPool, ResumeDone, vars, db, mgr, wk, Waiting, Enqueuing
  <2> QED BY <2>1, RetryFrame DEF Untried
<1>2. CASE StartPool
  <2>1. /\ UNCHANGED <<retryCount, job, attempt, crashes, Untried>>
        /\ \A w \in Workers : job[w] = None
    BY <1>2 DEF StartPool, db, Untried, Waiting, Enqueuing, TypeInv, WorkerInv, Busy, Attempting
  <2> QED BY <2>1 DEF RetryInv
<1>3. CASE Crash
  <2>1. /\ UNCHANGED retryCount /\ crashes' = crashes + 1
        /\ \A w \in Workers : job'[w] = None /\ attempt'[w] = 1
    BY <1>3 DEF Crash
  <2>2. \A n \in Nat : Upper(n) \in Nat /\ Upper(n) <= Upper(n + 1)
    <3>1. MaxAttempts - 1 \in Nat
      BY MaxAttemptsType
    <3> QED BY <3>1, UpperStep
  <2>3. crashes \in Nat /\ retryCount \in [Tasks -> Nat]
    BY QueueAssumption DEF QueueAssumption, TypeInv, TypeOK
  <2>4. \A t \in Tasks : retryCount'[t] <= Upper(crashes') /\ retryCount'[t] <= Upper(crashes' + 1)
    <3>1. crashes + 1 \in Nat /\ Upper(crashes + 1) \in Nat /\ Upper((crashes + 1) + 1) \in Nat
          /\ Upper(crashes + 1) <= Upper((crashes + 1) + 1)
      BY <2>2, <2>3
    <3>2. \A t \in Tasks : retryCount[t] \in Nat /\ retryCount[t] <= Upper(crashes + 1)
      BY <2>3 DEF RetryInv
    <3> QED BY <2>1, <3>1, <3>2
  <2> QED BY <2>1, <2>4 DEF RetryInv, Untried
<1>4. CASE Start
  <2>1. /\ UNCHANGED <<retryCount, job, attempt, crashes>>
        /\ phase = "down" /\ \A w \in Workers : job[w] = None
    BY <1>4 DEF Start, db, TypeInv, DownInv, WorkerInv, Busy, Attempting
  <2>2. Untried' \subseteq Untried
    BY <2>1 DEF Untried
  <2> QED BY <2>1, <2>2 DEF RetryInv
<1> QED BY <1>1, <1>2, <1>3, <1>4

LEMMA RetryStep == TypeInv /\ OwnerInv /\ RetryInv /\ [Next]_vars => RetryInv'
  BY RetryEnqueue, RetryWorker, RetryProcess DEF Next, Quiescent

\* However a task fails, in one life of the process it is retried at most
\* MaxAttempts - 1 times.
THEOREM RetriesStayBounded == Spec => []RetriesBounded
<1>1. RetryInv => RetriesBounded
  BY DEF RetryInv, RetriesBounded, Upper
<1> QED BY <1>1, RetryInit, RetryStep, OwnerInvariant, TypeInvariant, PTL DEF Spec
================================================================================
