------------------------------ MODULE CleanerProofs ----------------------------
(* Proofs about QueueCleaner, for all tasks, workers, files and bounds, any   *)
(* number of rounds of the cleaner and of calls of /clean.                    *)
EXTENDS QueueCleaner, TaskQueueProofs

--------------------------------------------------------------------------------
(* The queue beside the cleaner.                                              *)

QueuePart == TypeInv /\ OwnerInv /\ DoneInv

\* What deletes files beside the workers, and the query that may fail.
LEMMA DeletingChangesNothing ==
  ASSUME QueuePart, UNCHANGED <<db, uploaded, mgr, wk, crashes, resizes>>,
         files' \subseteq files, faults' \in 0..MaxDbFaults
  PROVE  QueuePart'
<1> USE DEF db, mgr, wk
<1>1. TypeInv'
  BY DEF QueuePart, TypeInv, TypeOK, WorkerInv, DownInv, Enqueuing
<1>2. OwnerInv'
  BY DEF QueuePart, OwnerInv, SingleOwner, NewInv, Owned, Waiting, Processed, Enqueuing
<1>3. DoneInv'
  BY DEF QueuePart, DoneInv, StageInv, CompletedInv, Finished, Waiting, Enqueuing
<1> QED BY <1>1, <1>2, <1>3 DEF QueuePart

LEMMA CleanerFrame ==
  ASSUME QueuePart, [CleanerNext]_allvars, ~Next
  PROVE  /\ UNCHANGED <<db, uploaded, mgr, wk, crashes, resizes>>
         /\ files' \subseteq files /\ faults' \in 0..MaxDbFaults
<1>a. faults \in 0..MaxDbFaults /\ MaxDbFaults \in Nat
  BY QueueAssumption DEF QueueAssumption, QueuePart, TypeInv, TypeOK
<1>1. CASE QueryActive
  BY <1>a, <1>1 DEF QueryActive, world
<1>2. ASSUME NEW t \in Tasks, CheckEntry(t)
      PROVE  /\ UNCHANGED <<db, uploaded, mgr, wk, crashes, resizes, faults>>
             /\ files' \subseteq files
  BY <1>2 DEF CheckEntry
<1>3. CASE ListDir \/ CleanDone \/ Clean \/ UNCHANGED allvars
  BY <1>a, <1>3 DEF ListDir, CleanDone, Clean, allvars, vars, world
<1> QED BY <1>a, <1>1, <1>2, <1>3 DEF CleanerNext, CleanerStep, Queue

LEMMA QueuePartStep == QueuePart /\ [CleanerNext]_allvars => QueuePart'
  BY TypeStep, OwnerStep, DoneStep, CleanerFrame, DeletingChangesNothing DEF QueuePart

LEMMA QueuePartInvariant == CleanerSpec => []QueuePart
<1>1. CleanerInit => QueuePart
  BY TypeInit, OwnerInit, DoneInit DEF CleanerInit, QueuePart
<1> QED BY <1>1, QueuePartStep, PTL DEF CleanerSpec

\* A task recorded as completed is on Drive also when its file is taken away under
\* the worker, by the cleaner or by /clean.
THEOREM CompletedThoughCleaned == CleanerSpec => []CompletedImpliesUploaded
<1>1. QueuePart => CompletedImpliesUploaded
  BY DEF QueuePart, DoneInv, CompletedInv, CompletedImpliesUploaded
<1> QED BY <1>1, QueuePartInvariant, PTL

--------------------------------------------------------------------------------
(* What the cleaner takes.                                                    *)

\* tasks an attempt of which has begun, in this life of the process or another
Tried == {t \in Tasks : status[t] \notin {"absent", "queued"}}

\* the worker is in the first attempt of this life, up to what ends it
First(w) == /\ job[w] # None /\ attempt[w] = 1
            /\ pc[w] \notin {"returning", "backoff", "giveup", "cleanup"}

\* tasks whose first attempt of this life is to come, or goes on
Ahead == {t \in Tasks : \/ t \in Waiting \cup Enqueuing \cup resume
                        \/ \E w \in Workers : First(w) /\ job[w] = t}

\* Only a task that was tried has a file; one that is ahead is pending; and what
\* the cleaner is about to remove, not having found it active, is not ahead.
SpareInv ==
  /\ files \subseteq Tried /\ listing \subseteq Tried
  /\ \A w \in Workers : pc[w] = "downloading" => job[w] \in Tried
  /\ Ahead \subseteq Pending
  /\ phase = "down" => listing = {}
  /\ cpc = "removing" => listing \cap Ahead \subseteq active

LEMMA SpareInit == CleanerInit => SpareInv
  BY DEF CleanerInit, Init, SpareInv, Tried, Ahead, First, Waiting, Enqueuing, HandlerInProgress,
     Range, Pending

\* What a step of the queue may do to these sets while no database call fails.
Moved ==
  /\ Tried \subseteq Tried' /\ files' \subseteq Tried'
  /\ \A w \in Workers : pc'[w] = "downloading" => job'[w] \in Tried'
  /\ Ahead' \subseteq Pending'
  /\ phase # "down" => Tried \cap Ahead' \subseteq Ahead

\* A step that leaves the workers alone moves only what waits for one.
LEMMA MovedBeside ==
  ASSUME TypeInv, SpareInv, UNCHANGED <<wk, files>>, Tried \subseteq Tried',
         (Waiting \cup Enqueuing \cup resume)' \subseteq Pending',
         phase # "down" =>
           Tried \cap (Waiting \cup Enqueuing \cup resume)' \subseteq Waiting \cup Enqueuing \cup resume,
         \A w \in Workers : First(w) => job[w] \in Pending'
  PROVE  Moved
<1>1. \A w \in Workers : First(w)' <=> First(w)
  BY DEF First, wk
<1>2. /\ \A w \in Workers : pc'[w] = "downloading" => job'[w] \in Tried'
      /\ files' \subseteq Tried'
  BY DEF SpareInv, wk
<1>3. Ahead' \subseteq Pending'
  BY <1>1 DEF Ahead, wk
<1>4. ASSUME phase # "down", NEW t \in Tried \cap Ahead' PROVE t \in Ahead
  BY <1>1, <1>4 DEF Ahead, wk, Tried
<1> QED BY <1>2, <1>3, <1>4 DEF Moved

LEMMA MovedEnqueue ==
  ASSUME TypeInv, OwnerInv, SpareInv, faults = 0, faults' = 0,
         NEW t \in Tasks, Enqueue(t) \/ Cancel(t) \/ ResumePush(t)
  PROVE  Moved
<1>1. Waiting \cup Enqueuing \cup resume \subseteq Pending
  BY DEF SpareInv, Ahead, TypeInv, TypeOK, Waiting, Enqueuing, Range
<1>2. \A w \in Workers : First(w) => job[w] \in Pending
  BY DEF SpareInv, Ahead, First, TypeInv, TypeOK
<1>3. UNCHANGED <<wk, files>>
  BY DEF Enqueue, EnqueueRest, EnqueueInsert, EnqueueRegister, EnqueuePush, EnqueueFull,
     EnqueueReject, Cancel, ResumePush, world
<1>4. CASE EnqueueInsert(t)
  <2>1. /\ status[t] = "absent" /\ status' = [status EXCEPT ![t] = "queued"]
        /\ Waiting' = Waiting /\ resume' = resume /\ Enqueuing' = Enqueuing \cup {t}
    BY <1>4 DEF EnqueueInsert, OwnerInv, NewInv, Waiting, Enqueuing, HandlerInProgress, TypeInv,
       TypeOK
  <2>2. t \notin Tried /\ Tried \subseteq Tried' /\ Pending' = Pending \cup {t}
    BY <2>1 DEF Tried, Pending, PendingStatus, TypeInv, TypeOK
  <2> QED BY <1>1, <1>2, <1>3, <2>1, <2>2, MovedBeside
<1>5. CASE EnqueueReject(t)
  <2>1. /\ status' = [status EXCEPT ![t] = "failed"]
        /\ Waiting' = Waiting /\ resume' = resume
        /\ t \in Enqueuing /\ Enqueuing' = Enqueuing \ {t}
    BY <1>5 DEF EnqueueReject, SetStatus, Waiting, Enqueuing, HandlerInProgress, TypeInv, TypeOK
  <2>2. t \notin Waiting \cup Processed \cup resume
    BY <2>1 DEF OwnerInv, SingleOwner
  <2>3. Tried \subseteq Tried' /\ Pending \ {t} \subseteq Pending'
    BY <2>1 DEF Tried, Pending, TypeInv, TypeOK
  <2>4. \A w \in Workers : First(w) => job[w] \in Processed
    BY DEF First, Processed
  <2> QED BY <1>1, <1>2, <1>3, <2>1, <2>2, <2>3, <2>4, MovedBeside
<1>6. CASE EnqueueRegister(t) \/ EnqueuePush(t) \/ EnqueueFull(t) \/ Cancel(t) \/ ResumePush(t)
  <2>1. UNCHANGED status
    BY <1>6 DEF EnqueueRegister, EnqueuePush, EnqueueFull, Cancel, ResumePush, db
  <2>2. (Waiting \cup Enqueuing \cup resume)' \subseteq Waiting \cup Enqueuing \cup resume
    <3>1. \/ jobs' = jobs /\ Enqueuing' \subseteq Enqueuing /\ resume' \subseteq resume
          \/ /\ jobs' = Append(jobs, t) /\ t \in Enqueuing \cup resume
             /\ Enqueuing' \subseteq Enqueuing /\ resume' \subseteq resume
      BY <1>6 DEF EnqueueRegister, EnqueuePush, EnqueueFull, Cancel, ResumePush, Enqueuing,
         HandlerInProgress, TypeInv, TypeOK
    <3>2. jobs' = Append(jobs, t) => Waiting' = Waiting \cup {t}
      BY RangeOfAppend DEF Waiting, TypeInv, TypeOK
    <3> QED BY <3>1, <3>2 DEF Waiting
  <2>3. UNCHANGED <<Tried, Pending>>
    BY <2>1 DEF Tried, Pending
  <2> QED BY <1>1, <1>2, <1>3, <2>2, <2>3, MovedBeside
<1> QED BY <1>4, <1>5, <1>6 DEF Enqueue, EnqueueRest

\* A step within an attempt: the task is tried before its file is made, and the
\* first attempt ends where its last status is written.
LEMMA MiddleSpare ==
  ASSUME TypeInv, NEW w \in Workers, Middle(w), faults = 0, faults' = 0
  PROVE  /\ \A v \in Workers : v # w => pc'[v] = pc[v] /\ attempt'[v] = attempt[v]
         /\ files' \subseteq files \/ (pc[w] = "downloading" /\ files' = files \cup {job[w]})
         /\ First(w)' => First(w)
         /\ pc'[w] = "downloading" => status'[job[w]] = "downloading"
         /\ \/ UNCHANGED status
            \/ \E s \in {"downloading", "uploading"} : status' = [status EXCEPT ![job[w]] = s]
            \/ /\ ~First(w)'
               /\ \E s \in TerminalStatus : status' = [status EXCEPT ![job[w]] = s]
<1> USE DEF TypeInv, TypeOK, Goto, SetStatus, First, TerminalStatus, db, world, mgr
<1>1. CASE BeginAttempt(w)
  BY <1>1 DEF BeginAttempt
<1>2. CASE MarkDownloading(w)
  <2>1. AfterAttempt("retry", attempt[w]) \in {"backoff", "giveup"}
    BY DEF AfterAttempt
  <2> QED BY <1>2, <2>1, BusyHasJob DEF MarkDownloading, Busy, Attempting
<1>3. CASE CreateFile(w)
  BY <1>3 DEF CreateFile
<1>4. CASE DownloadDone(w)
  BY <1>4 DEF DownloadDone
<1>5. CASE DownloadFailed(w) \/ TooLarge(w) \/ UploadFailed(w)
  BY <1>5 DEF DownloadFailed, TooLarge, UploadFailed, Fail
<1>6. CASE NotLoggedIn(w)
  BY <1>6 DEF NotLoggedIn
<1>7. CASE MarkUploading(w)
  BY <1>7 DEF MarkUploading
<1>8. CASE OpenFile(w) \/ UploadDone(w)
  BY <1>8 DEF OpenFile, UploadDone
<1>9. CASE Finish(w)
  BY <1>9 DEF Finish
<1>10. CASE Return(w)
  <2>1. AfterAttempt(outcome[w], attempt[w]) \in {"cleanup", "backoff", "giveup"}
    BY DEF AfterAttempt
  <2> QED BY <1>10, <2>1 DEF Return
<1>11. CASE Backoff(w)
  <2>1. attempt[w] \in Nat \ {0}
    BY MaxAttemptsType
  <2> QED BY <1>11, <2>1 DEF Backoff
<1>12. CASE GiveUp(w)
  BY <1>12 DEF GiveUp
<1> QED BY <1>1, <1>2, <1>3, <1>4, <1>5, <1>6, <1>7, <1>8, <1>9, <1>10, <1>11, <1>12 DEF Middle


LEMMA MovedWorker ==
  ASSUME TypeInv, OwnerInv, SpareInv, faults = 0, faults' = 0,
         NEW w \in Workers, Worker(w)
  PROVE  Moved
<1>1. \A t \in Ahead : t \in Tasks /\ t \in Pending
  BY DEF SpareInv, Ahead
<1>2. CASE Dequeue(w) \/ WorkerExit(w) \/ Cleanup(w)
  <2>1. UNCHANGED <<status, files, Enqueuing, resume>>
    BY <1>2 DEF Dequeue, WorkerExit, Cleanup, db, world, mgr, Enqueuing
  <2>2. UNCHANGED <<Tried, Pending>>
    BY <2>1 DEF Tried, Pending
  <2>3. \A v \in Workers : v # w => pc'[v] = pc[v] /\ job'[v] = job[v] /\ attempt'[v] = attempt[v]
    BY <1>2 DEF Dequeue, WorkerExit, Cleanup, Goto, TypeInv, TypeOK
  <2>4. pc'[w] # "downloading"
    BY <1>2 DEF Dequeue, WorkerExit, Cleanup, Goto, TypeInv, TypeOK
  <2>5. Waiting' \subseteq Waiting /\ (First(w)' => job'[w] \in Waiting \/ (First(w) /\ job'[w] = job[w]))
    <3>1. CASE Dequeue(w)
      <4>1. Waiting = Waiting' \cup {Head(jobs)}
        BY <3>1, RangeOfTail DEF Dequeue, Waiting, TypeInv, TypeOK
      <4>2. job'[w] = Head(jobs)
        BY <3>1 DEF Dequeue, TypeInv, TypeOK
      <4> QED BY <4>1, <4>2
    <3>2. CASE WorkerExit(w) \/ Cleanup(w)
      <4>1. jobs' = jobs /\ ~First(w)'
        BY <3>2, QueueAssumption
        DEF QueueAssumption, WorkerExit, Cleanup, First, Goto, mgr, TypeInv, TypeOK, WorkerInv,
            Busy, Attempting
      <4> QED BY <4>1 DEF Waiting
    <3> QED BY <1>2, <3>1, <3>2
  <2>6. Ahead' \subseteq Ahead
    <3> SUFFICES ASSUME NEW t \in Ahead' PROVE t \in Ahead
      OBVIOUS
    <3>1. CASE t \in (Waiting \cup Enqueuing \cup resume)'
      BY <2>1, <2>5, <3>1 DEF Ahead
    <3>2. ASSUME NEW v \in Workers, First(v)', job'[v] = t PROVE t \in Ahead
      BY <2>3, <2>5, <3>2 DEF Ahead, First
    <3> QED BY <3>1, <3>2 DEF Ahead
  <2> QED BY <1>1, <2>1, <2>2, <2>3, <2>4, <2>6 DEF Moved, SpareInv
<1>3. CASE Middle(w)
  <2>1. /\ UNCHANGED <<Waiting, Enqueuing, resume, job>>
        /\ job[w] \in Tasks /\ job[w] # None
    BY <1>3, MiddleEffect, QueueAssumption DEF QueueAssumption, Waiting, Enqueuing
  <2>2. Tried \subseteq Tried'
    BY <1>3, <2>1, MiddleSpare DEF Tried, TerminalStatus, TypeInv, TypeOK
  <2>3. files' \subseteq Tried'
    BY <1>3, <2>2, MiddleSpare DEF SpareInv
  <2>4. ASSUME NEW v \in Workers, pc'[v] = "downloading" PROVE job'[v] \in Tried'
    <3>1. CASE v = w
      BY <1>3, <2>1, <2>4, <3>1, MiddleSpare DEF Tried
    <3>2. CASE v # w
      BY <1>3, <2>1, <2>2, <2>4, <3>2, MiddleSpare DEF SpareInv
    <3> QED BY <3>1, <3>2
  <2>5. \A v \in Workers : First(v)' => First(v)
    BY <1>3, <2>1, MiddleSpare DEF First
  <2>6. Ahead' \subseteq Ahead
    BY <2>1, <2>5 DEF Ahead
  <2>7. ASSUME NEW t \in Ahead' PROVE t \in Pending'
    <3>1. t \in Tasks /\ t \in Pending
      BY <1>1, <2>6, <2>7
    <3>2. CASE t # job[w]
      BY <1>3, <2>1, <3>1, <3>2, MiddleSpare DEF Pending, TypeInv, TypeOK
    <3>3. CASE t = job[w]
      <4>1. First(w)'
        BY <2>1, <2>7, <3>3, JobIsOnlyThere DEF Ahead
      <4> QED BY <1>3, <3>1, <3>3, <4>1, MiddleSpare DEF Pending, PendingStatus, TypeInv, TypeOK
    <3> QED BY <3>2, <3>3
  <2> QED BY <2>2, <2>3, <2>4, <2>6, <2>7 DEF Moved
<1> QED BY <1>2, <1>3, WorkerCases

LEMMA MovedProcess ==
  ASSUME TypeInv, SpareInv, faults = 0, faults' = 0,
         StopPool \/ StartPool \/ Crash \/ Start \/ ResumeDone \/ UNCHANGED vars
  PROVE  Moved
<1>1. UNCHANGED <<status, files, Tried, Pending>>
  BY DEF StopPool, StartPool, Crash, Start, ResumeDone, vars, db, world, Tried, Pending
<1>2. \A w \in Workers : pc'[w] # "downloading" \/ (pc'[w] = pc[w] /\ job'[w] = job[w])
  BY DEF StopPool, StartPool, Crash, Start, ResumeDone, vars, mgr, wk
<1>3. ASSUME NEW w \in Workers, First(w)' PROVE First(w) /\ job'[w] = job[w]
  <2>1. CASE Crash
    BY <1>3, <2>1 DEF Crash, First
  <2>2. CASE StopPool \/ ResumeDone \/ UNCHANGED vars
    BY <1>3, <2>2 DEF StopPool, ResumeDone, vars, wk, First
  <2>3. CASE StartPool \/ Start
    <3>1. pc[w] = "exited" /\ UNCHANGED <<job, attempt>>
      BY <2>3 DEF StartPool, Start, TypeInv, DownInv
    <3> QED BY <1>3, <3>1 DEF First, TypeInv, WorkerInv, Busy, Attempting
  <2> QED BY <2>1, <2>2, <2>3
<1>4. (Waiting \cup Enqueuing \cup resume)' \subseteq
         Waiting \cup Enqueuing \cup resume \cup (IF phase = "down" THEN Pending ELSE {})
  BY DEF StopPool, StartPool, Crash, Start, ResumeDone, vars, mgr, Waiting, Enqueuing,
     HandlerInProgress, Range
<1>5. Ahead' \subseteq Ahead \cup (IF phase = "down" THEN Pending ELSE {})
  BY <1>3, <1>4 DEF Ahead
<1> QED BY <1>1, <1>2, <1>5 DEF Moved, SpareInv

LEMMA MovedByQueue ==
  ASSUME TypeInv, OwnerInv, SpareInv, faults = 0, faults' = 0, Next
  PROVE  Moved
  BY MovedEnqueue, MovedWorker, MovedProcess DEF Next, Quiescent

LEMMA SpareStep ==
  ASSUME QueuePart, SpareInv, [CleanerNext]_allvars, faults = 0, faults' = 0
  PROVE  SpareInv'
<1>1. CASE Queue
  <2>1. Moved
    BY <1>1, MovedByQueue DEF Queue, QueuePart
  <2>2. phase' = "down" => listing' = {}
    BY <1>1 DEF Queue
  <2>3. listing' \subseteq Tried'
    BY <1>1, <2>1 DEF Queue, Moved, SpareInv
  <2>4. cpc' = "removing" => listing' \cap Ahead' \subseteq active'
    <3> SUFFICES ASSUME cpc' = "removing", NEW t \in listing' \cap Ahead'
                 PROVE  t \in active'
      OBVIOUS
    <3>1. UNCHANGED <<cpc, listing, active>>
      BY <1>1 DEF Queue
    <3>2. phase # "down" /\ t \in Tried
      BY <3>1 DEF SpareInv
    <3> QED BY <2>1, <3>1, <3>2 DEF Moved, SpareInv
  <2> QED BY <2>1, <2>2, <2>3, <2>4 DEF Moved, SpareInv
<1>2. CASE ListDir \/ CleanerStep \/ Clean \/ UNCHANGED allvars
  <2>1. /\ UNCHANGED <<db, mgr, wk>> /\ files' \subseteq files
    BY <1>2 DEF ListDir, CleanerStep, QueryActive, CheckEntry, CleanDone, Clean, allvars, vars,
       world
  <2>2. UNCHANGED <<Tried, Ahead, Pending>>
    BY <2>1 DEF Tried, Ahead, Pending, First, Waiting, Enqueuing, db, mgr, wk
  <2>3. /\ files' \subseteq Tried' /\ Ahead' \subseteq Pending'
        /\ \A w \in Workers : pc'[w] = "downloading" => job'[w] \in Tried'
    BY <2>1, <2>2 DEF SpareInv, wk
  <2>4. \/ listing' \subseteq listing /\ active' = active /\ (cpc' = "removing" => cpc = "removing")
        \/ listing' = files /\ cpc' = "listed" /\ phase = "running"
        \/ /\ listing' = listing
           /\ active' = {t \in Pending : status[t] \in {"downloading", "uploading"}}
        \/ listing' \subseteq listing /\ cpc' = "idle"
    BY <1>2 DEF ListDir, CleanerStep, QueryActive, CheckEntry, CleanDone, Clean, allvars, cvars
  <2>5. phase' = phase
    BY <2>1 DEF mgr
  <2>6. /\ listing' \subseteq Tried' /\ (phase' = "down" => listing' = {})
    BY <2>2, <2>4, <2>5 DEF SpareInv
  <2>7. cpc' = "removing" => listing' \cap Ahead' \subseteq active'
    BY <2>2, <2>4 DEF SpareInv, Tried, Pending, PendingStatus
  <2> QED BY <2>3, <2>6, <2>7 DEF SpareInv
<1> QED BY <1>1, <1>2 DEF CleanerNext

\* What a round takes is not ahead.
LEMMA TakenIsNotAhead ==
  ASSUME SpareInv, NEW t \in Tasks, CheckEntry(t), t \in files \ files'
  PROVE  ~\E w \in Workers :
             /\ job[w] = t /\ attempt[w] = 1
             /\ pc[w] \in {"streaming", "downloaded", "uploading", "sending"}
<1> SUFFICES ASSUME NEW w \in Workers, job[w] = t, attempt[w] = 1,
                    pc[w] \in {"streaming", "downloaded", "uploading", "sending"}
             PROVE  FALSE
  OBVIOUS
<1>1. cpc = "removing" /\ t \in listing /\ t \notin active
  BY DEF CheckEntry
<1>2. First(w)
  BY QueueAssumption DEF QueueAssumption, First
<1>3. t \in Ahead
  BY <1>2 DEF Ahead
<1> QED BY <1>1, <1>3 DEF SpareInv

\* While no database call fails, no round of the cleaner, however its steps fall
\* between those of the workers, of crashes and of restarts, takes the file of a
\* first attempt that still uses it.
THEOREM CleanerSpares == CleanerSpec /\ [](faults = 0) => CleanerSparesActive
<1> DEFINE NoFault == faults = 0
<1>1. QueuePart /\ SpareInv /\ NoFault /\ NoFault' /\ [CleanerNext]_allvars => SpareInv'
  BY SpareStep
<1>2. SpareInv =>
        [\A t \in Tasks : CheckEntry(t) /\ t \in files \ files' =>
           ~\E w \in Workers :
               /\ job[w] = t /\ attempt[w] = 1
               /\ pc[w] \in {"streaming", "downloaded", "uploading", "sending"}]_allvars
  BY TakenIsNotAhead
<1> HIDE DEF NoFault
<1>3. CleanerSpec /\ []NoFault => []SpareInv
  BY <1>1, SpareInit, QueuePartInvariant, PTL DEF CleanerSpec
<1>4. CleanerSpec /\ []NoFault => CleanerSparesActive
  BY <1>2, <1>3, PTL DEF CleanerSparesActive
<1> QED BY <1>4 DEF NoFault
================================================================================
