------------------------------- MODULE TaskQueue -------------------------------
(* The upload queue of the bot: queue.Manager (src/internal/queue/worker.go), *)
(* the retry loop around every job (src/internal/utils/retry.go), the stages  *)
(* of bot.Processor (src/internal/bot/processor.go) and the task documents    *)
(* they keep in MongoDB (src/internal/database/tasks.go), through crashes and *)
(* restarts of the process.  Every write to the database, every channel       *)
(* operation, every lock section and every external effect (the file on disk, *)
(* the file on Drive) is a step of its own; goroutines interleave between     *)
(* them.                                                                      *)
EXTENDS Integers, Sequences, FiniteSets, Functions

CONSTANTS
  Tasks,        \* the tasks users submit; utils.NewID gives each its own ID
  Workers,      \* the worker goroutines of the largest pool ever started
  None,         \* no job
  QueueSize,    \* capacity of the jobs channel
  MaxRetries,   \* the max_retries setting; 10 when it is not positive
  Cancelable,   \* tasks Cancel may be called for ({} today: it has no caller)
  MaxCrashes,   \* bound: ends of the process (crash, /restart, /shutdown)
  MaxResizes,   \* bound: calls of Stop
  MaxDbFaults   \* bound: database calls that fail

ASSUME QueueAssumption ==
  /\ None \notin Tasks
  /\ QueueSize \in Nat \ {0}
  /\ MaxRetries \in Int
  /\ Cancelable \subseteq Tasks
  /\ MaxCrashes \in Nat /\ MaxResizes \in Nat /\ MaxDbFaults \in Nat

VARIABLES
  \* MongoDB
  status,       \* status of each task document, "absent" before the insert
  retryCount,   \* retry_count of each task document
  \* the rest of the world
  uploaded,     \* tasks whose file is on Google Drive
  files,        \* tasks whose file is in the download directory
  \* the Manager
  phase,        \* the process: "down", running Resume, or "running"
  pool,         \* "run", or "stop" once Stop has canceled the workers' context
  jobs,         \* the buffered channel
  cancels,      \* keys of the cancels map
  canceled,     \* tasks whose job context is canceled
  handler,      \* per task: how far the handler that enqueues it is
  resume,       \* pending tasks Resume has loaded and not yet pushed
  \* the workers
  pc,           \* where each worker goroutine is
  job,          \* the job it processes
  attempt,      \* the attempt of Retry it is in
  outcome,      \* what Process returns: "none" yet, "ok", "retry" or "fatal"
  \* history
  dropped,      \* tasks Resume could not put back, in this run of the process
  lost,         \* tasks whose last status write failed, in this run
  crashes, resizes, faults

db    == <<status, retryCount, lost>>
world == <<uploaded, files>>
mgr   == <<phase, pool, jobs, cancels, canceled, handler, resume, dropped>>
wk    == <<pc, job, attempt, outcome>>
vars  == <<db, world, mgr, wk, crashes, resizes, faults>>

--------------------------------------------------------------------------------
PendingStatus  == {"queued", "downloading", "uploading"}
TerminalStatus == {"completed", "failed"}

\* utils.DefaultRetryConfig
MaxAttempts == IF MaxRetries <= 0 THEN 10 ELSE MaxRetries

\* mutant: failed tasks are resumed too
PendingOrFailed == {t \in Tasks : status[t] \in PendingStatus \cup {"failed"}}

\* TaskRepo.Pending
Pending == {t \in Tasks : status[t] \in PendingStatus}

\* where a worker that holds a job can be, and where its attempt can be
Attempting == {"attempt", "starting", "downloading", "streaming", "downloaded",
               "uploading", "sending", "finishing", "returning", "backoff"}
Busy       == Attempting \cup {"giveup", "cleanup"}
Parked     == {"idle", "exited"}
HandlerInProgress == {"inserted", "registered", "refused"}

Waiting   == Range(jobs)
Processed == {job[w] : w \in Workers} \ {None}
Enqueuing == {t \in Tasks : handler[t] \in HandlerInProgress}
Owned     == Waiting \cup Processed \cup Enqueuing \cup resume

\* TaskRepo.UpdateStatus and SetResult: every caller ignores the error
SetStatus(t, s) ==
  \/ /\ status' = [status EXCEPT ![t] = s]
     /\ lost' = lost \ {t}
     /\ UNCHANGED faults
  \/ /\ faults < MaxDbFaults
     /\ faults' = faults + 1
     /\ lost' = lost \cup {t}
     /\ UNCHANGED status

Goto(w, l) == pc' = [pc EXCEPT ![w] = l]

\* mutant: one attempt too many
AfterAttemptOnceMore(r, a) == CASE r = "ok" -> "cleanup"
                                [] r = "retry" /\ a <= MaxAttempts -> "backoff"
                                [] OTHER -> "giveup"

\* mutant: a job that succeeded at a later attempt counts as failed
AfterAttemptFails(r, a) == CASE r = "ok" /\ a = 1 -> "cleanup"
                             [] r = "retry" /\ a < MaxAttempts -> "backoff"
                             [] OTHER -> "giveup"

\* utils.Retry after fn returned r in attempt a
AfterAttempt(r, a) == CASE r = "ok" -> "cleanup"
                        [] r = "retry" /\ a < MaxAttempts -> "backoff"
                        [] OTHER -> "giveup"

Init ==
  /\ status = [t \in Tasks |-> "absent"]
  /\ retryCount = [t \in Tasks |-> 0]
  /\ uploaded = {} /\ files = {}
  /\ phase = "down" /\ pool = "run"
  /\ jobs = <<>> /\ cancels = {} /\ canceled = {}
  /\ handler = [t \in Tasks |-> "new"]
  /\ resume = {} /\ dropped = {} /\ lost = {}
  /\ pc = [w \in Workers |-> "exited"]
  /\ job = [w \in Workers |-> None]
  /\ attempt = [w \in Workers |-> 1]
  /\ outcome = [w \in Workers |-> "none"]
  /\ crashes = 0 /\ resizes = 0 /\ faults = 0

--------------------------------------------------------------------------------
(* Manager.Enqueue, called by IncomingFile and IncomingText.                  *)

\* Tasks.Insert.  An error ends the call, and the document may be there anyway
\* when only the acknowledgement was lost.
EnqueueInsert(t) ==
  /\ phase = "running" /\ handler[t] = "new"
  /\ \/ /\ handler' = [handler EXCEPT ![t] = "inserted"]
        /\ status' = [status EXCEPT ![t] = "queued"]
        /\ UNCHANGED <<lost, faults>>
     \/ /\ faults < MaxDbFaults
        /\ faults' = faults + 1
        /\ handler' = [handler EXCEPT ![t] = "done"]
        /\ \/ UNCHANGED <<status, lost>>
           \/ /\ status' = [status EXCEPT ![t] = "queued"]
              /\ lost' = lost \cup {t}
  /\ UNCHANGED <<retryCount, world, phase, pool, jobs, cancels, canceled, resume,
                 dropped, wk, crashes, resizes>>

EnqueueRegister(t) ==
  /\ handler[t] = "inserted"
  /\ cancels' = cancels \cup {t}
  /\ handler' = [handler EXCEPT ![t] = "registered"]
  /\ UNCHANGED <<db, world, phase, pool, jobs, canceled, resume, dropped, wk,
                 crashes, resizes, faults>>

EnqueuePush(t) ==
  /\ handler[t] = "registered"
  /\ Len(jobs) < QueueSize
  /\ jobs' = Append(jobs, t)
  /\ handler' = [handler EXCEPT ![t] = "done"]
  /\ UNCHANGED <<db, world, phase, pool, cancels, canceled, resume, dropped, wk,
                 crashes, resizes, faults>>

\* mutant: the entry in cancels stays
EnqueueFullKeepsEntry(t) ==
  /\ handler[t] = "registered"
  /\ Len(jobs) >= QueueSize
  /\ handler' = [handler EXCEPT ![t] = "refused"]
  /\ UNCHANGED <<db, world, phase, pool, jobs, cancels, canceled, resume, dropped, wk,
                 crashes, resizes, faults>>

\* the default branch of the select: cancel the job and forget it
EnqueueFull(t) ==
  /\ handler[t] = "registered"
  /\ Len(jobs) >= QueueSize
  /\ cancels' = cancels \ {t}
  /\ canceled' = canceled \ {t}   \* the job is garbage: no one reads its context
  /\ handler' = [handler EXCEPT ![t] = "refused"]
  /\ UNCHANGED <<db, world, phase, pool, jobs, resume, dropped, wk,
                 crashes, resizes, faults>>

\* mutant: the error is returned and the document stays queued
EnqueueRejectOnlyReturns(t) ==
  /\ handler[t] = "refused"
  /\ handler' = [handler EXCEPT ![t] = "done"]
  /\ UNCHANGED <<db, world, phase, pool, jobs, cancels, canceled, resume, dropped, wk,
                 crashes, resizes, faults>>

EnqueueReject(t) ==
  /\ handler[t] = "refused"
  /\ SetStatus(t, "failed")
  /\ handler' = [handler EXCEPT ![t] = "done"]
  /\ UNCHANGED <<retryCount, world, phase, pool, jobs, cancels, canceled, resume,
                 dropped, wk, crashes, resizes>>

\* once the document is there, the call needs nobody else
EnqueueRest(t) == EnqueueRegister(t) \/ EnqueuePush(t) \/ EnqueueFull(t)
                  \/ EnqueueReject(t)
Enqueue(t)     == EnqueueInsert(t) \/ EnqueueRest(t)

\* Manager.Cancel
Cancel(t) ==
  /\ phase = "running" /\ t \in Cancelable \cap cancels
  /\ canceled' = canceled \cup {t}
  /\ cancels' = cancels \ {t}
  /\ UNCHANGED <<db, world, phase, pool, jobs, handler, resume, dropped, wk,
                 crashes, resizes, faults>>

--------------------------------------------------------------------------------
(* Manager.runWorker and process; utils.Retry; Processor.Process.             *)

\* The select takes any ready case, also when the context is canceled as well.
Dequeue(w) ==
  /\ pc[w] = "idle" /\ jobs # <<>>
  /\ job' = [job EXCEPT ![w] = Head(jobs)]
  /\ jobs' = Tail(jobs)
  /\ Goto(w, "attempt")
  /\ UNCHANGED <<db, world, phase, pool, cancels, canceled, handler, resume, dropped,
                 attempt, outcome, crashes, resizes, faults>>

WorkerExit(w) ==
  /\ pc[w] = "idle" /\ pool = "stop"
  /\ Goto(w, "exited")
  /\ UNCHANGED <<db, world, mgr, job, attempt, outcome, crashes, resizes, faults>>

\* mutant: the first attempt is counted as a retry
BeginAttemptCountsFirst(w) ==
  /\ pc[w] = "attempt" /\ job[w] \notin canceled
  /\ Goto(w, "starting")
  /\ retryCount' = [retryCount EXCEPT ![job[w]] = @ + 1]
  /\ outcome' = [outcome EXCEPT ![w] = "none"]
  /\ UNCHANGED <<status, lost, world, mgr, job, attempt, crashes, resizes, faults>>

\* the head of Retry's loop: the context check, then IncrementRetry from the
\* second attempt on (its error is ignored)
BeginAttempt(w) ==
  /\ pc[w] = "attempt"
  /\ \/ /\ job[w] \in canceled
        /\ Goto(w, "giveup")
        /\ UNCHANGED <<retryCount, faults>>
     \/ /\ job[w] \notin canceled
        /\ Goto(w, "starting")
        /\ \/ /\ retryCount' = IF attempt[w] > 1
                               THEN [retryCount EXCEPT ![job[w]] = @ + 1]
                               ELSE retryCount
              /\ UNCHANGED faults
           \/ /\ attempt[w] > 1 /\ faults < MaxDbFaults
              /\ faults' = faults + 1
              /\ UNCHANGED retryCount
  /\ outcome' = [outcome EXCEPT ![w] = "none"]
  /\ UNCHANGED <<status, lost, world, mgr, job, attempt, crashes, resizes>>

\* UpdateStatus(downloading), then EnsureDir; when that fails Process returns
\* before it defers the removal of the local file
MarkDownloading(w) ==
  /\ pc[w] = "starting"
  /\ SetStatus(job[w], "downloading")
  /\ \/ Goto(w, "downloading")
     \/ Goto(w, AfterAttempt("retry", attempt[w]))
  /\ UNCHANGED <<retryCount, world, mgr, job, attempt, outcome, crashes, resizes>>

\* The request went through and os.Create made the file.  Here and below a
\* cancel may come too late to make the step fail.
CreateFile(w) ==
  /\ pc[w] = "downloading"
  /\ files' = files \cup {job[w]}
  /\ Goto(w, "streaming")
  /\ UNCHANGED <<db, uploaded, mgr, job, attempt, outcome, crashes, resizes, faults>>

DownloadDone(w) ==
  /\ pc[w] = "streaming"
  /\ Goto(w, "downloaded")
  /\ UNCHANGED <<db, world, mgr, job, attempt, outcome, crashes, resizes, faults>>

\* Process records a failure of the attempt as failure of the task
Fail(w, from, r) ==
  /\ pc[w] \in from
  /\ SetStatus(job[w], "failed")
  /\ outcome' = [outcome EXCEPT ![w] = r]
  /\ Goto(w, "returning")
  /\ UNCHANGED <<retryCount, world, mgr, job, attempt, crashes, resizes>>

\* mutant: rclone's error is not looked at
UploadErrorIgnored(w) ==
  /\ pc[w] = "uploading"
  /\ Goto(w, "finishing")
  /\ UNCHANGED <<db, world, mgr, job, attempt, outcome, crashes, resizes, faults>>

DownloadFailed(w) == Fail(w, {"downloading", "streaming"}, "retry")
TooLarge(w)       == Fail(w, {"downloaded"}, "fatal")
UploadFailed(w)   == Fail(w, {"uploading", "sending"}, "retry")

\* NonRetryable, and Process itself writes no status
NotLoggedIn(w) ==
  /\ pc[w] = "downloaded"
  /\ outcome' = [outcome EXCEPT ![w] = "fatal"]
  /\ Goto(w, "returning")
  /\ UNCHANGED <<db, world, mgr, job, attempt, crashes, resizes, faults>>

MarkUploading(w) ==
  /\ pc[w] = "downloaded"
  /\ SetStatus(job[w], "uploading")
  /\ Goto(w, "uploading")
  /\ UNCHANGED <<retryCount, world, mgr, job, attempt, outcome, crashes, resizes>>

\* rclone opens the local file; once it has, a removal of the name is harmless
OpenFile(w) ==
  /\ pc[w] = "uploading" /\ job[w] \in files
  /\ Goto(w, "sending")
  /\ UNCHANGED <<db, world, mgr, job, attempt, outcome, crashes, resizes, faults>>

\* rclone exited with success
UploadDone(w) ==
  /\ pc[w] = "sending"
  /\ uploaded' = uploaded \cup {job[w]}
  /\ Goto(w, "finishing")
  /\ UNCHANGED <<db, files, mgr, job, attempt, outcome, crashes, resizes, faults>>

\* mutant: finish returns early when the file is not found on Drive
FinishUnwritten(w) ==
  /\ pc[w] = "finishing"
  /\ outcome' = [outcome EXCEPT ![w] = "ok"]
  /\ Goto(w, "returning")
  /\ UNCHANGED <<db, world, mgr, job, attempt, crashes, resizes, faults>>

\* every path through finish writes "completed" and returns nil
Finish(w) ==
  /\ pc[w] = "finishing"
  /\ SetStatus(job[w], "completed")
  /\ outcome' = [outcome EXCEPT ![w] = "ok"]
  /\ Goto(w, "returning")
  /\ UNCHANGED <<retryCount, world, mgr, job, attempt, crashes, resizes>>

\* mutant: the file is removed after a success only
ReturnKeepsFile(w) ==
  /\ pc[w] = "returning"
  /\ files' = IF outcome[w] = "ok" THEN files \ {job[w]} ELSE files
  /\ Goto(w, AfterAttempt(outcome[w], attempt[w]))
  /\ UNCHANGED <<db, uploaded, mgr, job, attempt, outcome, crashes, resizes, faults>>

\* the deferred os.Remove, and what Retry makes of the result
Return(w) ==
  /\ pc[w] = "returning"
  /\ files' = files \ {job[w]}
  /\ Goto(w, AfterAttempt(outcome[w], attempt[w]))
  /\ UNCHANGED <<db, uploaded, mgr, job, attempt, outcome, crashes, resizes, faults>>

\* the select on the backoff timer and the job's context
Backoff(w) ==
  /\ pc[w] = "backoff"
  /\ \/ /\ attempt' = [attempt EXCEPT ![w] = @ + 1]
        /\ Goto(w, "attempt")
     \/ /\ job[w] \in canceled
        /\ Goto(w, "giveup")
        /\ UNCHANGED attempt
  /\ UNCHANGED <<db, world, mgr, job, outcome, crashes, resizes, faults>>

\* mutant: process relies on Process to have written the status
GiveUpSilently(w) ==
  /\ pc[w] = "giveup"
  /\ Goto(w, "cleanup")
  /\ UNCHANGED <<db, world, mgr, job, attempt, outcome, crashes, resizes, faults>>

\* Retry returned an error: process writes "failed"
GiveUp(w) ==
  /\ pc[w] = "giveup"
  /\ SetStatus(job[w], "failed")
  /\ Goto(w, "cleanup")
  /\ UNCHANGED <<retryCount, world, mgr, job, attempt, outcome, crashes, resizes>>

\* the deferred delete from cancels, after which the job is gone and with it
\* the locals of Retry
Cleanup(w) ==
  /\ pc[w] = "cleanup"
  /\ cancels' = cancels \ {job[w]}
  /\ canceled' = canceled \ {job[w]}
  /\ job' = [job EXCEPT ![w] = None]
  /\ attempt' = [attempt EXCEPT ![w] = 1]
  /\ outcome' = [outcome EXCEPT ![w] = "none"]
  /\ Goto(w, "idle")
  /\ UNCHANGED <<db, world, phase, pool, jobs, handler, resume, dropped,
                 crashes, resizes, faults>>

Worker(w) ==
  \/ Dequeue(w) \/ WorkerExit(w) \/ BeginAttempt(w) \/ MarkDownloading(w)
  \/ CreateFile(w) \/ DownloadDone(w) \/ DownloadFailed(w) \/ TooLarge(w)
  \/ NotLoggedIn(w) \/ MarkUploading(w) \/ OpenFile(w) \/ UploadDone(w) \/ UploadFailed(w)
  \/ Finish(w) \/ Return(w) \/ Backoff(w) \/ GiveUp(w) \/ Cleanup(w)

--------------------------------------------------------------------------------
(* Manager.Stop and Start for one caller at a time: /setworkers and /shutdown.*)

StopPool ==
  /\ phase = "running" /\ pool = "run" /\ resizes < MaxResizes
  /\ pool' = "stop"
  /\ resizes' = resizes + 1
  /\ UNCHANGED <<db, world, phase, jobs, cancels, canceled, handler, resume, dropped,
                 wk, crashes, faults>>

\* mutant: Resize resumes the pending tasks as bot.Run does
StartPoolResuming ==
  /\ pool = "stop" /\ \A w \in Workers : pc[w] = "exited"
  /\ pc' = [w \in Workers |-> "idle"]
  /\ pool' = "run"
  /\ resume' = Pending
  /\ UNCHANGED <<db, world, phase, jobs, cancels, canceled, handler, dropped,
                 job, attempt, outcome, crashes, resizes, faults>>

\* Stop returned from workerWG.Wait, and Start(n) with n >= 1
StartPool ==
  /\ pool = "stop" /\ \A w \in Workers : pc[w] = "exited"
  /\ \E new \in SUBSET Workers \ {{}} :
       pc' = [w \in Workers |-> IF w \in new THEN "idle" ELSE "exited"]
  /\ pool' = "run"
  /\ UNCHANGED <<db, world, phase, jobs, cancels, canceled, handler, resume, dropped,
                 job, attempt, outcome, crashes, resizes, faults>>

--------------------------------------------------------------------------------
(* The end of the process, and bot.Run of the next one.                       *)

\* Only MongoDB, Drive and the disk survive; an update being handled is gone.
Crash ==
  /\ phase # "down" /\ crashes < MaxCrashes
  /\ crashes' = crashes + 1
  /\ phase' = "down" /\ pool' = "run"
  /\ jobs' = <<>> /\ cancels' = {} /\ canceled' = {} /\ resume' = {}
  /\ dropped' = {} /\ lost' = {}
  /\ handler' = [t \in Tasks |-> IF handler[t] = "new" THEN "new" ELSE "done"]
  /\ pc' = [w \in Workers |-> "exited"]
  /\ job' = [w \in Workers |-> None]
  /\ attempt' = [w \in Workers |-> 1]
  /\ outcome' = [w \in Workers |-> "none"]
  /\ UNCHANGED <<status, retryCount, world, resizes, faults>>

\* Manager.Start(s.Workers), then Resume loads the pending tasks, or fails to
Start ==
  /\ phase = "down"
  /\ pc' = [w \in Workers |-> "idle"]
  /\ \/ /\ phase' = "resuming" /\ resume' = Pending
        /\ UNCHANGED <<dropped, faults>>
     \/ /\ faults < MaxDbFaults
        /\ faults' = faults + 1
        /\ phase' = "running" /\ dropped' = Pending
        /\ UNCHANGED resume
  /\ UNCHANGED <<db, world, pool, jobs, cancels, canceled, handler, job, attempt,
                 outcome, crashes, resizes>>

\* One round of Resume's loop.  Pending asks for no order, so it is any.
ResumePush(t) ==
  /\ t \in resume
  /\ resume' = resume \ {t}
  /\ cancels' = cancels \cup {t}
  /\ IF Len(jobs) < QueueSize
     THEN jobs' = Append(jobs, t) /\ UNCHANGED dropped
     ELSE dropped' = dropped \cup {t} /\ UNCHANGED jobs
  /\ UNCHANGED <<db, world, phase, pool, canceled, handler, wk,
                 crashes, resizes, faults>>

ResumeDone ==
  /\ phase = "resuming" /\ resume = {}
  /\ phase' = "running"
  /\ UNCHANGED <<db, world, pool, jobs, cancels, canceled, handler, resume, dropped,
                 wk, crashes, resizes, faults>>

\* Every update is handled and every job done: the bot waits for the next one.
Quiescent ==
  /\ phase = "running" /\ pool = "run" /\ jobs = <<>>
  /\ \A t \in Tasks : handler[t] = "done"
  /\ \A w \in Workers : pc[w] \in Parked
  /\ UNCHANGED vars

Next ==
  \/ \E t \in Tasks : Enqueue(t) \/ Cancel(t) \/ ResumePush(t)
  \/ \E w \in Workers : Worker(w)
  \/ StopPool \/ StartPool \/ Crash \/ Start \/ ResumeDone
  \/ Quiescent

Spec == Init /\ [][Next]_vars

\* The Go scheduler runs every goroutine that can run, a handler that began
\* goes on, a stopped pool is started again, and the supervisor
\* (gdrive-bot.service, Restart=always) starts the process again.  Fairness of a
\* worker also assumes of its peers that each download, each upload and each call of
\* Drive ends one way or the other: link.go:27 and drive/client.go:27 have no timeout.
Fairness ==
  /\ \A w \in Workers : WF_vars(Worker(w))
  /\ \A t \in Tasks : WF_vars(EnqueueRest(t)) /\ WF_vars(ResumePush(t))
  /\ WF_vars(StartPool) /\ WF_vars(Start) /\ WF_vars(ResumeDone)

--------------------------------------------------------------------------------
TypeOK ==
  /\ status \in [Tasks -> {"absent"} \cup PendingStatus \cup TerminalStatus]
  /\ retryCount \in [Tasks -> Nat]
  /\ uploaded \subseteq Tasks /\ files \subseteq Tasks
  /\ phase \in {"down", "resuming", "running"} /\ pool \in {"run", "stop"}
  /\ jobs \in Seq(Tasks)
  /\ cancels \subseteq Tasks /\ canceled \subseteq Tasks
  /\ handler \in [Tasks -> {"new", "done"} \cup HandlerInProgress]
  /\ resume \subseteq Tasks /\ dropped \subseteq Tasks /\ lost \subseteq Tasks
  /\ pc \in [Workers -> Parked \cup Busy]
  /\ job \in [Workers -> Tasks \cup {None}]
  /\ attempt \in [Workers -> 1..MaxAttempts]
  /\ outcome \in [Workers -> {"none", "ok", "retry", "fatal"}]
  /\ crashes \in 0..MaxCrashes /\ resizes \in 0..MaxResizes
  /\ faults \in 0..MaxDbFaults

\* A task is at one place at most: with one handler, once in the channel, with
\* one worker, or in Resume's hands.  Two workers on one task would share a
\* local file (processor.go:49) and a cancels entry (worker.go:176).
SingleOwner ==
  /\ IsInjective(jobs)
  /\ \A w1, w2 \in Workers : job[w1] = job[w2] /\ job[w1] # None => w1 = w2
  /\ Waiting \cap (Processed \cup Enqueuing \cup resume) = {}
  /\ Processed \cap (Enqueuing \cup resume) = {}
  /\ Enqueuing \cap resume = {}

\* While the process is up, a task MongoDB has as pending is on its way through
\* the queue, unless Resume dropped it or its last status write failed
\* (tasks.go:14, "persists queue tasks so the queue survives bot restarts").
NoLostTask == phase # "down" => Pending \subseteq Owned \cup dropped \cup lost

\* A task recorded as completed has its file on Drive, also when it was
\* completed by an attempt after failures, a crash or a lost write.
CompletedImpliesUploaded ==
  \A t \in Tasks : status[t] = "completed" => t \in uploaded

\* The cancels map has the cancel function of every job that waits or is
\* processed, so Cancel reaches it; an entry of no job is one Resume left behind.
CancelReachesJobs ==
  /\ \A t \in Waiting \cup Processed : t \in cancels \cup canceled
  /\ cancels \subseteq Waiting \cup Processed \cup Enqueuing \cup dropped

\* Until the first crash, every file in the download directory belongs to an
\* attempt that still runs and will remove it.
NoDiskLeak ==
  crashes = 0 => \A t \in files : \E w \in Workers :
      /\ job[w] = t
      /\ pc[w] \in {"streaming", "downloaded", "uploading", "sending", "finishing",
                    "returning"}

\* In one life of the process a task is attempted at most MaxAttempts times.
RetriesBounded ==
  \A t \in Tasks : retryCount[t] <= (MaxAttempts - 1) * (crashes + 1)

\* A task that is completed, or that is failed with nobody working on it, keeps
\* its status: no late write of a worker, a handler or a later life of the
\* process takes it back.
SettledIsFinal ==
  [][\A t \in Tasks :
       status[t] = "completed" \/ (status[t] = "failed" /\ t \notin Owned)
         => status'[t] = status[t]]_vars

\* Under Fairness, so if no download, upload or call of Drive hangs for ever, every
\* task with a document ends completed or failed and off the queue, unless Resume
\* drops it or a write of it is lost.
EveryTaskSettles ==
  \A t \in Tasks : status[t] \in PendingStatus ~>
    \/ status[t] \in TerminalStatus /\ t \notin Owned
    \/ t \in dropped \cup lost

LedgerEntry ==
  [t \in Tasks |-> IF status[t] \in PendingStatus THEN "pending" ELSE status[t]]

\* The queue keeps the promise of TaskLedger: MongoDB's four kinds of status are
\* the ledger, and the live tasks are the owned ones.
Ledger == INSTANCE TaskLedger WITH
  ledger   <- LedgerEntry,
  live     <- Owned,
  stranded <- dropped \cup lost,
  up       <- phase # "down"

ImplementsLedger == Ledger!LedgerSpec

--------------------------------------------------------------------------------
(* The inductive invariant TaskQueueProofs rests on.                          *)

\* A worker holds a job exactly while it is busy, and only an attempt that is
\* not the last one backs off.
WorkerInv ==
  \A w \in Workers : /\ pc[w] \in Busy <=> job[w] # None
                     /\ pc[w] = "backoff" => attempt[w] < MaxAttempts

\* A process that is down holds nothing, and only a running one is stopped or
\* serves updates.
DownInv ==
  /\ phase # "running" => pool = "run" /\ Enqueuing = {}
  /\ phase = "down" => jobs = <<>> /\ \A w \in Workers : pc[w] = "exited"
  /\ phase # "resuming" => resume = {}

\* A task is owned only once its document is there, which is never before its
\* handler began.
NewInv ==
  /\ \A t \in Tasks : handler[t] = "new" => status[t] = "absent"
  /\ \A t \in Owned : status[t] # "absent"

\* the worker has written the last status of its job
Finished(w) == pc[w] = "cleanup" \/ (pc[w] = "returning" /\ outcome[w] = "ok")

\* What a worker knows of its job: it is on Drive before finish is called, and
\* its last status is terminal unless the write was lost.
StageInv ==
  \A w \in Workers :
    /\ pc[w] = "finishing" => job[w] \in uploaded
    /\ Finished(w) => status[job[w]] \in TerminalStatus \/ job[w] \in lost

\* A completed task is on Drive, and whoever still holds it only cleans up.
CompletedInv ==
  \A t \in Tasks : status[t] = "completed" =>
    /\ t \in uploaded
    /\ t \notin Waiting \cup Enqueuing \cup resume
    /\ \A w \in Workers : job[w] = t => Finished(w)

QueueInv == /\ TypeOK /\ WorkerInv /\ DownInv
            /\ SingleOwner /\ NewInv
            /\ StageInv /\ CompletedInv /\ NoLostTask

--------------------------------------------------------------------------------
(* What a comment of the code says; the run shows what the code does instead.  *)

\* task.go:4: "Tasks persist in MongoDB so a restart resumes in-flight work
\* instead of losing it": work in flight when the process ends is pending.
InFlightIsResumed ==
  [][phase # "down" /\ phase' = "down" =>
       \A w \in Workers : pc[w] \in Attempting /\ job[w] \notin canceled
                            => job[w] \in Pending \/ outcome[w] \in {"ok", "fatal"}]_vars
================================================================================
