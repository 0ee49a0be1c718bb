-------------------------------- MODULE Transfer --------------------------------
(* One task in a worker's hands, below the level of TaskQueue: Process        *)
(* (src/internal/bot/processor.go) with the goroutines and channels of its    *)
(* two stages.  A download goroutine (src/internal/download) streams the      *)
(* source to the local file and its progress to the worker; an upload         *)
(* goroutine (src/internal/upload) passes on what a second one                *)
(* (src/internal/rclone/rclone.go) reads from the standard error of an rclone *)
(* process.  The worker shows what it receives, and at the end looks for the  *)
(* file on Drive.  A blocking call to a peer is a step or two; a channel      *)
(* operation is always a step, and a send on an unbuffered channel happens    *)
(* with its receive.                                                          *)
EXTENDS Integers, Sequences

CONSTANTS
  Size,          \* chunks of the file; rclone writes a line of progress for each
  Buffer,        \* capacity of progressCh
  Pipe,          \* lines the pipe to rclone's standard error holds
  TaskId, FileName,
  MayCancel,     \* whether the task's context is canceled at some point
  MaxAttempts,   \* calls of Process
  MaxAgain       \* how often one rclone starts the copy over

ASSUME TransferAssumption ==
  /\ Size \in Nat \ {0} /\ Buffer \in Nat \ {0} /\ Pipe \in Nat \ {0}
  /\ MayCancel \in BOOLEAN /\ MaxAttempts \in Nat \ {0} /\ MaxAgain \in Nat

VARIABLES
  proc,        \* how far the worker is
  attempts,
  outcome,     \* of the last attempt: "none", "retry", "final" or "completed"
  canceled,    \* the task's context is done
  file,        \* chunks in the local file, or -1 without one
  framed,      \* whether the response said where its body ends
  drive,       \* names in the destination folder
  result,      \* the file SetResult recorded: its name, or none
  shown,       \* progress the status message shows of this stage
  progressCh, errCh,     \* the worker's channels of this stage
  dl,          \* the download goroutine
  up,          \* the goroutine in ToDrive
  rc,          \* the goroutine in rclone's Upload
  value,       \* the progress each of the three is about to send
  ret,         \* the error each of the three is about to return: "ok" or "error"
  rcloneCh,    \* whether it is closed
  rcloneErr,   \* ToDrive's errCh
  process,     \* the rclone process: "none", "running", "ok", "error"
  sent, pipe,  \* lines it has written, and those not yet read
  again,       \* how often it has started over
  long         \* history: a line was longer than the scanner's buffer

worker == <<proc, attempts, outcome>>
disk   == <<file, framed, drive, result>>
chans  == <<progressCh, errCh>>
upload == <<up, rc, rcloneCh, rcloneErr>>
rclone == <<process, sent, pipe, again, long>>
vars   == <<worker, canceled, disk, shown, chans, dl, upload, value, ret, rclone>>

--------------------------------------------------------------------------------
Senders   == {"dl", "up", "rc"}
Progress  == [done : 0..Size, last : BOOLEAN, err : BOOLEAN]
Report(n) == [done |-> n, last |-> FALSE, err |-> FALSE]
Nothing   == Report(0)
Open      == [buf |-> <<>>, closed |-> FALSE]

\* processor.go:49, and rclone copies a file under the name it has on disk
LocalName == <<TaskId, FileName>>

Init ==
  /\ proc = "ready" /\ attempts = 0 /\ outcome = "none" /\ canceled = FALSE
  /\ file = -1 /\ framed = TRUE /\ drive \in SUBSET {FileName} /\ result = {}
  /\ shown = 0 /\ progressCh = Open /\ errCh = "empty"
  /\ dl = "none" /\ up = "none" /\ rc = "none"
  /\ value = [s \in Senders |-> Nothing] /\ ret = [s \in Senders |-> "ok"]
  /\ rcloneCh = "open" /\ rcloneErr = "empty"
  /\ process = "none" /\ sent = 0 /\ pipe = <<>> /\ again = 0 /\ long = FALSE

Cancel ==
  /\ MayCancel /\ ~canceled
  /\ canceled' = TRUE
  /\ UNCHANGED <<worker, disk, shown, chans, dl, upload, value, ret, rclone>>

\* A send on progressCh blocks while its buffer is full.
Send(s) ==
  /\ Len(progressCh.buf) < Buffer
  /\ progressCh' = [progressCh EXCEPT !.buf = Append(@, value[s])]

Close == progressCh' = [progressCh EXCEPT !.closed = TRUE]

--------------------------------------------------------------------------------
(* The download goroutine.                                                    *)

DlReturns(r) == dl' = "closing" /\ ret' = [ret EXCEPT !["dl"] = r]

DlStep == UNCHANGED <<worker, canceled, drive, result, shown, errCh, upload, rclone>>

\* the request and os.Create, which empties the file of an earlier attempt; or a
\* failure before it
DlRequest ==
  /\ dl = "request"
  /\ \/ dl' = "reading" /\ file' = 0 /\ framed' \in BOOLEAN /\ UNCHANGED ret
     \/ DlReturns("error") /\ UNCHANGED <<file, framed>>
  /\ UNCHANGED <<progressCh, value>> /\ DlStep

\* streamWithProgress: a chunk is read and written; the ticker may be ready
DlChunk ==
  /\ dl = "reading" /\ ~canceled /\ file < Size
  /\ file' = file + 1
  /\ \/ dl' = "sending" /\ value' = [value EXCEPT !["dl"] = Report(file')]
     \/ UNCHANGED <<dl, value>>
  /\ UNCHANGED <<framed, progressCh, ret>> /\ DlStep

\* mutant: the last report has no numbers
DlEofEmpty ==
  /\ dl = "reading" /\ (file = Size \/ ~framed)
  /\ dl' = "sending"
  /\ value' = [value EXCEPT !["dl"] = [done |-> 0, last |-> TRUE, err |-> FALSE]]
  /\ UNCHANGED <<file, framed, progressCh, ret>> /\ DlStep

\* io.EOF.  A body cut short ends so too, when neither a length nor a chunked
\* encoding told where it ends; otherwise net/http makes of that another error.
DlEof ==
  /\ dl = "reading" /\ (file = Size \/ ~framed)
  /\ dl' = "sending"
  /\ value' = [value EXCEPT !["dl"] = [done |-> file, last |-> TRUE, err |-> FALSE]]
  /\ UNCHANGED <<file, framed, progressCh, ret>> /\ DlStep

\* the context is looked at before each chunk, and ends a read as well
DlFails ==
  /\ dl = "reading"
  /\ DlReturns("error")
  /\ UNCHANGED <<file, framed, progressCh, value>> /\ DlStep

\* the send, whether or not the context is done
DlSend ==
  /\ dl = "sending"
  /\ Send("dl")
  /\ IF value["dl"].last THEN DlReturns("ok") ELSE dl' = "reading" /\ UNCHANGED ret
  /\ UNCHANGED <<file, framed, value>> /\ DlStep

\* mutant: no deferred close of the channel
DlCloseNot ==
  /\ dl = "closing"
  /\ dl' = "returning"
  /\ UNCHANGED <<file, framed, progressCh, value, ret>> /\ DlStep

\* the deferred calls: the file is closed, then the channel
DlClose ==
  /\ dl = "closing"
  /\ Close /\ dl' = "returning"
  /\ UNCHANGED <<file, framed, value, ret>> /\ DlStep

DlReturn ==
  /\ dl = "returning"
  /\ errCh' = ret["dl"] /\ dl' = "none"
  /\ UNCHANGED <<worker, canceled, disk, shown, progressCh, upload, value, ret, rclone>>

Download == \/ DlRequest \/ DlChunk \/ DlEof \/ DlFails
            \/ DlSend \/ DlClose \/ DlReturn

--------------------------------------------------------------------------------
(* The rclone process, and the goroutine in Upload that runs it.              *)

RcReturns(r) == rc' = "closing" /\ ret' = [ret EXCEPT !["rc"] = r]

RcStep == UNCHANGED <<worker, canceled, file, framed, result, shown, chans, dl, up, rcloneErr>>

\* cmd.Start
RcStart ==
  /\ rc = "start"
  /\ \/ /\ ~canceled
        /\ rc' = "scanning" /\ process' = "running" /\ sent' = 0 /\ pipe' = <<>> /\ again' = 0
        /\ UNCHANGED ret
     \/ RcReturns("error") /\ UNCHANGED <<process, sent, pipe, again>>
  /\ UNCHANGED <<drive, rcloneCh, value, long>> /\ RcStep

\* A line of progress, or one that Scan gives up on.  A full pipe blocks rclone.
RcloneWrites ==
  /\ process = "running" /\ sent < file /\ Len(pipe) < Pipe
  /\ sent' = sent + 1
  /\ \/ pipe' = Append(pipe, sent') /\ UNCHANGED long
     \/ pipe' = Append(pipe, 0) /\ long' = TRUE
  /\ UNCHANGED <<drive, process, again, rc, rcloneCh, value, ret>> /\ RcStep

\* --retries and --low-level-retries: the copy starts over, and its numbers do
RcloneAgain ==
  /\ process = "running" /\ again < MaxAgain
  /\ again' = again + 1 /\ sent' = 0
  /\ UNCHANGED <<drive, process, pipe, long, rc, rcloneCh, value, ret>> /\ RcStep

\* all of the file, whatever of it there is
RcloneCopied ==
  /\ process = "running" /\ sent = file
  /\ process' = "ok" /\ drive' = drive \cup {LocalName}
  /\ UNCHANGED <<sent, pipe, again, long, rc, rcloneCh, value, ret>> /\ RcStep

\* mutant: exec.Command, which knows of no context
RcloneFailsAlone ==
  /\ process = "running" /\ ~canceled
  /\ process' = "error"
  /\ UNCHANGED <<drive, sent, pipe, again, long, rc, rcloneCh, value, ret>> /\ RcStep

\* its own retries are over, or it is killed: CommandContext does when the context
\* is done
RcloneFails ==
  /\ process = "running"
  /\ process' = "error"
  /\ UNCHANGED <<drive, sent, pipe, again, long, rc, rcloneCh, value, ret>> /\ RcStep

\* mutant: a canceled upload does not wait for the process
ScanOrLeave ==
  /\ rc = "scanning"
  /\ \/ pipe # <<>> /\ rc' = "offering" /\ UNCHANGED ret
        /\ value' = [value EXCEPT !["rc"] = Report(Head(pipe))] /\ pipe' = Tail(pipe)
     \/ pipe = <<>> /\ process # "running" /\ rc' = "waiting" /\ UNCHANGED <<value, ret, pipe>>
     \/ canceled /\ RcReturns("error") /\ UNCHANGED <<value, pipe>>
  /\ UNCHANGED <<drive, process, sent, again, long, rcloneCh>> /\ RcStep

\* Scan: a line, or the end of the output; a line too long is taken for the end,
\* and from then on nobody reads the pipe.
Scan ==
  /\ rc = "scanning"
  /\ \/ /\ pipe # <<>> /\ Head(pipe) # 0
        /\ rc' = "offering"
        /\ value' = [value EXCEPT !["rc"] = Report(Head(pipe))] /\ pipe' = Tail(pipe)
     \/ /\ pipe # <<>> /\ Head(pipe) = 0
        /\ rc' = "waiting"
        /\ UNCHANGED <<value, pipe>>
     \/ /\ pipe = <<>> /\ process # "running"
        /\ rc' = "waiting"
        /\ UNCHANGED <<value, pipe>>
  /\ UNCHANGED <<drive, process, sent, again, long, rcloneCh, ret>> /\ RcStep

\* the select: ToDrive receives, or the context is done and the line is dropped
Offer ==
  /\ rc = "offering"
  /\ rc' = "scanning"
  /\ \/ /\ up = "receiving"
        /\ up' = "sending" /\ value' = [value EXCEPT !["up"] = value["rc"]]
     \/ canceled /\ UNCHANGED <<up, value>>
  /\ UNCHANGED <<worker, canceled, disk, shown, chans, dl, rcloneCh, rcloneErr, ret, rclone>>

\* cmd.Wait.  The last report of a success has no numbers but a percentage, which
\* ToDrive does not pass on.
Wait ==
  /\ rc = "waiting" /\ process \in {"ok", "error"}
  /\ rc' = "last"
  /\ value' = [value EXCEPT !["rc"] = [done |-> 0, last |-> TRUE, err |-> process = "error"]]
  /\ ret' = [ret EXCEPT !["rc"] = process]
  /\ process' = "none" /\ pipe' = <<>>
  /\ UNCHANGED <<drive, sent, again, long, rcloneCh>> /\ RcStep

\* no select here
SendLast ==
  /\ rc = "last" /\ up = "receiving"
  /\ rc' = "closing"
  /\ up' = "sending" /\ value' = [value EXCEPT !["up"] = value["rc"]]
  /\ UNCHANGED <<worker, canceled, disk, shown, chans, dl, rcloneCh, rcloneErr, ret, rclone>>

RcClose ==
  /\ rc = "closing"
  /\ rcloneCh' = "closed" /\ rc' = "returning"
  /\ UNCHANGED <<drive, value, ret, rclone>> /\ RcStep

RcReturn ==
  /\ rc = "returning"
  /\ rcloneErr' = ret["rc"] /\ rc' = "none"
  /\ UNCHANGED <<worker, canceled, disk, shown, chans, dl, up, rcloneCh, value, ret, rclone>>

Rclone == \/ RcStart \/ Scan \/ Offer \/ Wait \/ SendLast \/ RcClose \/ RcReturn

--------------------------------------------------------------------------------
(* The goroutine in ToDrive.                                                  *)

UpStep == UNCHANGED <<worker, canceled, disk, shown, dl, rclone>>

\* make and go
UpStart ==
  /\ up = "start"
  /\ up' = "receiving" /\ rc' = "start" /\ rcloneCh' = "open" /\ rcloneErr' = "empty"
  /\ UNCHANGED <<chans, value, ret>> /\ UpStep

UpSend ==
  /\ up = "sending"
  /\ Send("up") /\ up' = "receiving"
  /\ UNCHANGED <<errCh, rc, rcloneCh, rcloneErr, value, ret>> /\ UpStep

\* the range over rcloneCh ends, and then <-errCh
UpWaited ==
  /\ up = "receiving" /\ rcloneCh = "closed" /\ rcloneErr # "empty"
  /\ up' = "closing" /\ ret' = [ret EXCEPT !["up"] = rcloneErr] /\ rcloneErr' = "empty"
  /\ UNCHANGED <<chans, rc, rcloneCh, value>> /\ UpStep

UpClose ==
  /\ up = "closing"
  /\ Close /\ up' = "returning"
  /\ UNCHANGED <<errCh, rc, rcloneCh, rcloneErr, value, ret>> /\ UpStep

UpReturn ==
  /\ up = "returning"
  /\ errCh' = ret["up"] /\ up' = "none"
  /\ UNCHANGED <<progressCh, rc, rcloneCh, rcloneErr, value, ret>> /\ UpStep

ToDrive == UpStart \/ UpSend \/ UpWaited \/ UpClose \/ UpReturn

--------------------------------------------------------------------------------
(* The worker in Process.                                                     *)

WorkerStep == UNCHANGED <<canceled, rclone, rc, value, ret, rcloneCh, rcloneErr>>

Fresh == progressCh' = Open /\ errCh' = "empty" /\ shown' = 0

\* mutant: one attempt too many
BeginOnceMore ==
  /\ proc = "ready" /\ ~canceled /\ attempts <= MaxAttempts
  /\ attempts' = attempts + 1 /\ outcome' = "none"
  /\ proc' = "download" /\ Fresh /\ dl' = "request"
  /\ UNCHANGED <<canceled, disk, upload, value, ret, rclone>>

Return(o) == proc' = "returning" /\ outcome' = o

\* Process up to runDownload's go statement, unless EnsureDir fails; an unknown
\* type of task is an error of the goroutine
Begin ==
  /\ proc = "ready" /\ ~canceled /\ attempts < MaxAttempts
  /\ attempts' = attempts + 1
  /\ Fresh
  /\ \/ proc' = "download" /\ outcome' = "none" /\ dl' = "request" /\ UNCHANGED ret
     \/ proc' = "download" /\ outcome' = "none" /\ DlReturns("error")
     \/ Return("retry") /\ UNCHANGED <<dl, ret>>
  /\ UNCHANGED <<canceled, disk, upload, value, rclone>>

\* Retry's look at the context, and its last attempt
GiveUp ==
  /\ proc = "ready" /\ (canceled \/ attempts = MaxAttempts)
  /\ proc' = "done"
  /\ UNCHANGED <<attempts, outcome, disk, shown, chans, dl, up>> /\ WorkerStep

\* for prog := range progressCh: a message with an error is not shown
Show ==
  /\ proc \in {"download", "upload"} /\ progressCh.buf # <<>>
  /\ progressCh' = [progressCh EXCEPT !.buf = Tail(@)]
  /\ shown' = IF Head(progressCh.buf).err THEN shown ELSE Head(progressCh.buf).done
  /\ UNCHANGED <<worker, disk, errCh, dl, up>> /\ WorkerStep

Drained == progressCh.closed /\ progressCh.buf = <<>>

\* mutant: the channel closed is taken for a success
DownloadedUnread ==
  /\ proc = "download" /\ Drained
  /\ proc' = "between" /\ errCh' = "empty"
  /\ UNCHANGED <<attempts, outcome, disk, shown, progressCh, dl, up>> /\ WorkerStep

\* <-errCh, after the range has ended
Downloaded ==
  /\ proc = "download" /\ Drained /\ errCh # "empty"
  /\ errCh' = "empty"
  /\ IF errCh = "ok" THEN proc' = "between" /\ UNCHANGED outcome ELSE Return("retry")
  /\ UNCHANGED <<attempts, disk, shown, progressCh, dl, up>> /\ WorkerStep

\* the file is too large, or the user not logged in
Refused ==
  /\ proc = "between"
  /\ Return("final")
  /\ UNCHANGED <<attempts, disk, shown, chans, dl, up>> /\ WorkerStep

StartUpload ==
  /\ proc = "between"
  /\ proc' = "upload" /\ Fresh /\ up' = "start"
  /\ UNCHANGED <<attempts, outcome, disk, dl>> /\ WorkerStep

Uploaded ==
  /\ proc = "upload" /\ Drained /\ errCh # "empty"
  /\ errCh' = "empty"
  /\ IF errCh = "ok" THEN proc' = "finish" /\ UNCHANGED outcome ELSE Return("retry")
  /\ UNCHANGED <<attempts, disk, shown, progressCh, dl, up>> /\ WorkerStep

\* Without a client, or when every ListPage failed, there is no result; neither is
\* there one when no entry of the folder has the name looked for.
FinishBlind ==
  /\ proc = "finish"
  /\ Return("completed")
  /\ UNCHANGED <<attempts, disk, shown, chans, dl, up>> /\ WorkerStep

\* findUploadedFile, asked for FileName: the file on disk, and so the one rclone
\* made of it, is called LocalName
FinishFound ==
  /\ proc = "finish" /\ ~canceled
  /\ Return("completed")
  /\ result' = drive \cap {FileName}
  /\ UNCHANGED <<attempts, file, framed, drive, shown, chans, dl, up>> /\ WorkerStep

\* the deferred os.Remove; Retry calls Process again only after a retryable error
Leave ==
  /\ proc = "returning"
  /\ file' = -1
  /\ proc' = IF outcome = "retry" THEN "ready" ELSE "done"
  /\ UNCHANGED <<attempts, outcome, framed, drive, result, shown, chans, dl, up>> /\ WorkerStep

Finish == FinishBlind \/ FinishFound

\* all that the worker does without a call of Drive
Proceed == \/ Begin \/ GiveUp \/ Show \/ Downloaded \/ Refused
           \/ StartUpload \/ Uploaded \/ Leave

Process == Proceed \/ Finish

Done == proc = "done" /\ UNCHANGED vars

Next == \/ Cancel \/ Process \/ Download \/ ToDrive \/ Rclone
        \/ RcloneWrites \/ RcloneAgain \/ RcloneCopied \/ RcloneFails \/ Done

Spec == Init /\ [][Next]_vars

\* Every goroutine that can go on does, and calls of MongoDB and of Telegram's bot
\* API return.  A source that answers, an rclone that works and a Drive that answers
\* are not assumed: link.go:27, drive/client.go:27 and the refresh of a token have no
\* timeout.  What a done context does to a request and to rclone is.
Fairness ==
  /\ WF_vars(Proceed) /\ WF_vars(ToDrive) /\ WF_vars(Rclone)
  /\ WF_vars(DlSend \/ DlClose \/ DlReturn)
  /\ WF_vars(canceled /\ (DlRequest \/ DlFails)) /\ WF_vars(canceled /\ RcloneFails)
  /\ WF_vars(canceled /\ Finish)

FairSpec == Spec /\ Fairness

--------------------------------------------------------------------------------
Results == {"empty", "ok", "error"}

TypeOK ==
  /\ proc \in {"ready", "download", "between", "upload", "finish", "returning", "done"}
  /\ attempts \in 0..MaxAttempts /\ outcome \in {"none", "retry", "final", "completed"}
  /\ canceled \in BOOLEAN /\ long \in BOOLEAN
  /\ file \in -1..Size /\ framed \in BOOLEAN /\ drive \subseteq {FileName, LocalName}
  /\ result \subseteq drive
  /\ shown \in 0..Size
  /\ progressCh \in [buf : Seq(Progress), closed : BOOLEAN] /\ Len(progressCh.buf) <= Buffer
  /\ errCh \in Results /\ rcloneErr \in Results /\ rcloneCh \in {"open", "closed"}
  /\ dl \in {"none", "request", "reading", "sending", "closing", "returning"}
  /\ up \in {"none", "start", "receiving", "sending", "closing", "returning"}
  /\ rc \in {"none", "start", "scanning", "offering", "waiting", "last", "closing", "returning"}
  /\ value \in [Senders -> Progress] /\ ret \in [Senders -> {"ok", "error"}]
  /\ process \in {"none", "running", "ok", "error"}
  /\ sent \in 0..Size /\ pipe \in Seq(0..Size) /\ Len(pipe) <= Pipe
  /\ again \in 0..MaxAgain

\* What the download's last report says was received is what rclone reads: while it
\* runs nobody writes to the local file, which is of this attempt's download, read
\* to its end without an error, and so is whole if the response told where the end
\* is; whatever is canceled, and however earlier attempts ended.  If the response
\* did not tell, a body cut short is uploaded and passes for the file
\* (telegram.go:107 does not compare done with total).
UploadReadsAllReceived ==
  process = "running" =>
    /\ dl = "none" /\ value["dl"] = [done |-> file, last |-> TRUE, err |-> FALSE]
    /\ framed => file = Size

\* When Process returns, its goroutines have ended, rclone is gone and so is the
\* local file: nothing of one attempt writes to the file or the channels of the
\* next.  A channel that is closed is closed by its last sender.
NobodyLeftBehind ==
  /\ proc \in {"ready", "done"} => /\ dl = "none" /\ up = "none" /\ rc = "none"
                                   /\ process = "none" /\ file = -1
  /\ progressCh.closed => dl \in {"none", "returning"} /\ up \in {"none", "returning"}

\* The progress a stage shows never goes back, but for the last report of an
\* upload, which shows an empty bar (rclone.go:162), and after rclone has started
\* the copy over.
ShownInOrder ==
  [][shown' < shown => \/ proc' # proc
                       \/ proc = "upload" /\ (again > 0 \/ Head(progressCh.buf).last)]_vars

SourceHangs == dl \in {"request", "reading"}
RcloneHangs == process = "running" /\ (Len(pipe) < Pipe \/ sent = file)
DriveHangs  == proc = "finish"

\* The worker, its goroutines and rclone never wait for one another in a circle: a
\* task is done, or the source, rclone or Drive does not go on; unless rclone wrote a
\* line the scanner has no room for and waits for ever for somebody to read the rest.
EndsUnlessPeerHangs ==
  <>(proc = "done") \/ <>[](SourceHangs \/ RcloneHangs \/ DriveHangs) \/ <>long

\* A task whose context is canceled ends, wherever it is and whoever hangs.
CancelEnds == canceled ~> proc = "done"

\* What a comment says; the run shows what the code does.  processor.go:142:
\* "finish locates the newly-uploaded Drive file by name and replaces the status
\* message with the standard file menu".
FinishFindsUpload ==
  [][FinishFound => result' = {LocalName}]_vars
================================================================================
