----------------------------- MODULE TransferProofs -----------------------------
(* Proofs about Transfer, for files of any size, any capacity of progressCh   *)
(* and of the pipe, and any number of attempts.                               *)
EXTENDS Transfer, TLAPS

--------------------------------------------------------------------------------
\* What UploadReadsAllReceived and NobodyLeftBehind rest on.

\* a goroutine runs only in its stage, the inner one only while the outer one
\* receives, and rclone only under the inner one; an error is in its channel only
\* after the goroutine that sent it has ended
Nested ==
  /\ proc # "download" => dl = "none"
  /\ proc # "upload" => up = "none"
  /\ up \notin {"receiving", "sending"} => rc = "none"
  /\ rc \notin {"scanning", "offering", "waiting"} => process = "none"
  /\ errCh # "empty" => dl = "none" /\ up = "none"
  /\ rcloneErr # "empty" => rc = "none"
  /\ progressCh.closed => dl \in {"none", "returning"} /\ up \in {"none", "returning"}

\* the file is there while it is written to
Created == dl \in {"reading", "sending"} => file >= 0

\* the last report is of all that the file has, which is all there was if the
\* response said where it ends
Complete == /\ value["dl"] = [done |-> file, last |-> TRUE, err |-> FALSE]
            /\ framed => file = Size

\* success is reported, from the last report on, only of a file that is complete
ReceivedFile ==
  /\ proc \in {"ready", "done"} => file = -1
  /\ proc \in {"between", "upload"} => Complete
  /\ dl = "sending" /\ value["dl"].last => Complete
  /\ dl \in {"closing", "returning"} /\ ret["dl"] = "ok" => Complete
  /\ proc = "download" /\ errCh = "ok" => Complete

--------------------------------------------------------------------------------
(* Types.                                                                     *)

ControlTypes ==
  /\ proc \in {"ready", "download", "between", "upload", "finish", "returning", "done"}
  /\ attempts \in 0..MaxAttempts /\ outcome \in {"none", "retry", "final", "completed"}
  /\ canceled \in BOOLEAN
  /\ errCh \in Results /\ rcloneErr \in Results /\ rcloneCh \in {"open", "closed"}
  /\ dl \in {"none", "request", "reading", "sending", "closing", "returning"}
  /\ up \in {"none", "start", "receiving", "sending", "closing", "returning"}
  /\ rc \in {"none", "start", "scanning", "offering", "waiting", "last", "closing", "returning"}
  /\ ret \in [Senders -> {"ok", "error"}] /\ process \in {"none", "running", "ok", "error"}

FileTypes ==
  /\ file \in -1..Size /\ framed \in BOOLEAN
  /\ drive \subseteq {FileName, LocalName} /\ result \subseteq drive

Lines == 0..Size

PipeTypes ==
  /\ sent \in Lines /\ pipe \in Seq(Lines) /\ Len(pipe) <= Pipe /\ long \in BOOLEAN
  /\ again \in 0..MaxAgain

MessageTypes ==
  /\ shown \in 0..Size /\ value \in [Senders -> Progress]
  /\ progressCh \in [buf : Seq(Progress), closed : BOOLEAN] /\ Len(progressCh.buf) <= Buffer

LEMMA Types == TypeOK <=> ControlTypes /\ FileTypes /\ PipeTypes /\ MessageTypes
  BY DEF TypeOK, ControlTypes, FileTypes, PipeTypes, Lines, MessageTypes

LEMMA Messages ==
  \A n \in 0..Size : /\ [done |-> n, last |-> TRUE, err |-> FALSE] \in Progress
                     /\ [done |-> n, last |-> TRUE, err |-> TRUE] \in Progress
                     /\ Report(n) \in Progress
  BY DEF Progress, Report

LEMMA EmptyChannel == Open \in [buf : Seq(Progress), closed : BOOLEAN] /\ Open.buf = <<>>
  BY DEF Open

LEMMA TransferTypesInit == Init => TypeOK
<1> SUFFICES ASSUME Init PROVE TypeOK
  OBVIOUS
<1>0. /\ 0 \in 0..Size /\ 0 \in 0..MaxAttempts /\ 0 \in 0..MaxAgain
      /\ 0 <= Pipe /\ 0 <= Buffer /\ -1 \in -1..Size
  BY TransferAssumption DEF TransferAssumption
<1>1. ControlTypes
  BY <1>0 DEF Init, ControlTypes, Results
<1>2. FileTypes
  BY <1>0 DEF Init, FileTypes
<1>4. PipeTypes
  <2>1. 0 \in Lines
    BY <1>0 DEF Lines
  <2>2. sent \in Lines /\ pipe = <<>> /\ long \in BOOLEAN /\ again \in 0..MaxAgain
    BY <1>0, <2>1 DEF Init
  <2> QED BY <1>0, <2>2 DEF PipeTypes
<1>3. MessageTypes
  BY <1>0, Messages, EmptyChannel DEF Init, MessageTypes, Nothing
<1> QED BY <1>1, <1>2, <1>3, <1>4, Types

LEMMA ControlStep == ControlTypes /\ [Next]_vars => ControlTypes'
<1> SUFFICES ASSUME ControlTypes, [Next]_vars PROVE ControlTypes'
  OBVIOUS
<1> USE DEF ControlTypes, Results, Senders, worker, disk, chans, upload, rclone
<1>1. CASE Download
  BY <1>1 DEF Download, DlRequest, DlChunk, DlEof, DlFails, DlSend, DlClose, DlReturn,
     DlReturns, DlStep
<1>2. CASE ToDrive
  BY <1>2 DEF ToDrive, UpStart, UpSend, UpWaited, UpClose, UpReturn, UpStep
<1>3. CASE RcStart \/ Scan \/ Offer
  BY <1>3 DEF RcStart, Scan, Offer, RcReturns, RcStep
<1>4. CASE Wait \/ SendLast \/ RcClose \/ RcReturn
  BY <1>4 DEF Wait, SendLast, RcClose, RcReturn, RcStep
<1>5. CASE Process
  BY <1>5, TransferAssumption
  DEF TransferAssumption, Process, Proceed, Finish, Begin, GiveUp, Show, Downloaded, Refused,
      StartUpload, Uploaded, FinishBlind, FinishFound, Leave, Return, DlReturns, Fresh,
      WorkerStep
<1>6. CASE \/ Cancel \/ RcloneWrites \/ RcloneAgain \/ RcloneCopied \/ RcloneFails
           \/ Done \/ UNCHANGED vars
  BY <1>6 DEF Cancel, RcloneWrites, RcloneAgain, RcloneCopied, RcloneFails, Done, vars, RcStep
<1> QED BY <1>1, <1>2, <1>3, <1>4, <1>5, <1>6 DEF Next, Rclone

LEMMA FileStep == FileTypes /\ [Next]_vars => FileTypes'
<1> SUFFICES ASSUME FileTypes, [Next]_vars PROVE FileTypes'
  OBVIOUS
<1> USE TransferAssumption DEF TransferAssumption, FileTypes, worker, disk, chans, upload, rclone
<1>1. CASE Download
  BY <1>1 DEF Download, DlRequest, DlChunk, DlEof, DlFails, DlSend, DlClose, DlReturn, DlStep
<1>2. CASE ToDrive
  BY <1>2 DEF ToDrive, UpStart, UpSend, UpWaited, UpClose, UpReturn, UpStep
<1>3. CASE Rclone
  BY <1>3 DEF Rclone, RcStart, Scan, Offer, Wait, SendLast, RcClose, RcReturn, RcStep
<1>4. CASE Process
  BY <1>4
  DEF Process, Proceed, Finish, Begin, GiveUp, Show, Downloaded, Refused, StartUpload,
      Uploaded, FinishBlind, FinishFound, Leave, WorkerStep
<1>5. CASE \/ Cancel \/ RcloneWrites \/ RcloneAgain \/ RcloneCopied \/ RcloneFails
           \/ Done \/ UNCHANGED vars
  BY <1>5 DEF Cancel, RcloneWrites, RcloneAgain, RcloneCopied, RcloneFails, Done, vars, RcStep
<1> QED BY <1>1, <1>2, <1>3, <1>4, <1>5 DEF Next

LEMMA PipeStep == FileTypes /\ PipeTypes /\ [Next]_vars => PipeTypes'
<1> SUFFICES ASSUME FileTypes, PipeTypes, [Next]_vars PROVE PipeTypes'
  OBVIOUS
<1>a. 0 \in Lines /\ 0 <= Pipe /\ 0 \in 0..MaxAgain
  BY TransferAssumption DEF TransferAssumption, Lines
<1> USE DEF PipeTypes, rclone
<1>1. CASE RcStart \/ Wait
  <2>1. /\ sent' = sent \/ sent' = 0
        /\ pipe' = pipe \/ pipe' = <<>>
        /\ long' = long /\ (again' = again \/ again' = 0)
    BY <1>1 DEF RcStart, Wait
  <2>2. pipe' \in Seq(Lines) /\ Len(pipe') <= Pipe
    <3>1. CASE pipe' = pipe
      BY <3>1
    <3>2. CASE pipe' = <<>>
      BY <1>a, <3>2
    <3> QED BY <2>1, <3>1, <3>2
  <2> QED BY <1>a, <2>1, <2>2
<1>2. CASE Scan
  <2>1. UNCHANGED <<sent, again, long>> /\ (pipe' = pipe \/ (pipe # <<>> /\ pipe' = Tail(pipe)))
    BY <1>2 DEF Scan
  <2> QED BY <2>1, TransferAssumption DEF TransferAssumption
<1>3. CASE RcloneWrites
  <2>1. sent' \in Lines
    BY <1>3, TransferAssumption DEF TransferAssumption, RcloneWrites, Lines, FileTypes
  <2>2. pipe' = Append(pipe, sent') \/ pipe' = Append(pipe, 0)
    BY <1>3 DEF RcloneWrites
  <2>3. pipe' \in Seq(Lines) /\ Len(pipe') = Len(pipe) + 1
    BY <1>a, <2>1, <2>2
  <2>4. long' \in BOOLEAN /\ again' = again /\ Len(pipe) < Pipe
    BY <1>3 DEF RcloneWrites
  <2> QED BY <2>1, <2>3, <2>4, TransferAssumption DEF TransferAssumption
<1>4. CASE UNCHANGED rclone
  BY <1>4
<1>5. CASE SendLast \/ RcClose \/ RcReturn \/ Offer \/ Process \/ Download \/ ToDrive \/ Cancel \/ Done
           \/ UNCHANGED vars
  BY <1>5
  DEF SendLast, RcClose, RcReturn, Offer, RcStep, Process, Proceed, Finish, Begin, GiveUp,
      Show, Downloaded, Refused, StartUpload, Uploaded, FinishBlind, FinishFound, Leave,
      WorkerStep, Download, DlRequest, DlChunk, DlEof, DlFails, DlSend, DlClose, DlReturn,
      DlStep, ToDrive, UpStart, UpSend, UpWaited, UpClose, UpReturn, UpStep, Cancel, Done, vars
<1>6. CASE RcloneCopied \/ RcloneFails
  BY <1>6 DEF RcloneCopied, RcloneFails
<1>7. CASE RcloneAgain
  BY <1>7, <1>a, TransferAssumption DEF TransferAssumption, RcloneAgain
<1> QED BY <1>1, <1>2, <1>3, <1>4, <1>5, <1>6, <1>7 DEF Next, Rclone

\* A send keeps the channel's buffer a sequence of messages within its capacity.
LEMMA SendTypes ==
  ASSUME MessageTypes, NEW s \in Senders, Send(s)
  PROVE  /\ progressCh' \in [buf : Seq(Progress), closed : BOOLEAN]
         /\ Len(progressCh'.buf) <= Buffer
<1>1. /\ value[s] \in Progress /\ progressCh.buf \in Seq(Progress) /\ progressCh.closed \in BOOLEAN
      /\ progressCh' = [buf |-> Append(progressCh.buf, value[s]), closed |-> progressCh.closed]
      /\ Len(progressCh.buf) < Buffer
  BY DEF MessageTypes, Send
<1>2. /\ Append(progressCh.buf, value[s]) \in Seq(Progress)
      /\ Len(Append(progressCh.buf, value[s])) = Len(progressCh.buf) + 1
  BY <1>1
<1> QED BY <1>1, <1>2, TransferAssumption DEF TransferAssumption

LEMMA CloseTypes ==
  ASSUME MessageTypes, Close
  PROVE  /\ progressCh' \in [buf : Seq(Progress), closed : BOOLEAN]
         /\ progressCh'.buf = progressCh.buf
  BY DEF MessageTypes, Close

LEMMA ChannelFields ==
  ASSUME MessageTypes
  PROVE  /\ \A s \in Senders : Send(s) => progressCh'.closed = progressCh.closed
         /\ Show => progressCh'.closed = progressCh.closed
         /\ Fresh => progressCh'.closed = FALSE
  BY DEF MessageTypes, Send, Show, Fresh, Open

LEMMA NestedStep == ControlTypes /\ MessageTypes /\ Nested /\ [Next]_vars => Nested'
<1> SUFFICES ASSUME ControlTypes, MessageTypes, Nested, [Next]_vars PROVE Nested'
  OBVIOUS
<1> USE DEF Nested, Senders, worker, disk, chans, upload, rclone
<1>1. CASE DlRequest \/ DlChunk \/ DlEof \/ DlFails
  BY <1>1 DEF DlRequest, DlChunk, DlEof, DlFails, DlReturns, DlStep
<1>2. CASE DlSend \/ DlClose \/ DlReturn
  BY <1>2, ChannelFields DEF DlSend, DlClose, DlReturn, DlReturns, DlStep
<1>3. CASE UpStart \/ UpWaited \/ UpClose
  BY <1>3 DEF UpStart, UpWaited, UpClose, UpStep
<1>4. CASE UpSend \/ UpReturn
  BY <1>4, ChannelFields DEF UpSend, UpReturn, UpStep
<1>5. CASE RcStart \/ Scan \/ Wait
  BY <1>5 DEF RcStart, Scan, Wait, RcReturns, RcStep
<1>6. CASE Offer \/ SendLast \/ RcClose \/ RcReturn
  BY <1>6 DEF Offer, SendLast, RcClose, RcReturn, RcStep
<1>7. CASE Begin \/ StartUpload
  BY <1>7, ChannelFields DEF Begin, StartUpload, Fresh, Return, DlReturns, WorkerStep
<1>8. CASE Show
  BY <1>8, ChannelFields DEF Show, WorkerStep
<1>9. CASE Downloaded \/ Uploaded
  BY <1>9 DEF Downloaded, Uploaded, Return, WorkerStep
<1>10. CASE GiveUp \/ Refused \/ FinishBlind \/ FinishFound \/ Leave
  BY <1>10 DEF GiveUp, Refused, FinishBlind, FinishFound, Leave, Return, WorkerStep
<1>11. CASE RcloneWrites \/ RcloneAgain \/ RcloneCopied \/ RcloneFails
  BY <1>11 DEF RcloneWrites, RcloneAgain, RcloneCopied, RcloneFails, RcStep
<1>12. CASE Cancel \/ Done \/ UNCHANGED vars
  BY <1>12 DEF Cancel, Done, vars
<1> QED BY <1>1, <1>2, <1>3, <1>4, <1>5, <1>6, <1>7, <1>8, <1>9, <1>10, <1>11, <1>12
        DEF Next, Download, ToDrive, Rclone, Process, Proceed, Finish

LEMMA CreatedStep == FileTypes /\ Nested /\ Created /\ [Next]_vars => Created'
<1> SUFFICES ASSUME FileTypes, Nested, Created, [Next]_vars PROVE Created'
  OBVIOUS
<1> USE DEF Created, worker, disk, chans, upload, rclone
<1>1. CASE DlRequest \/ DlEof \/ DlFails
  BY <1>1 DEF DlRequest, DlEof, DlFails, DlReturns, DlStep
<1>2. CASE DlChunk
  BY <1>2 DEF DlChunk, DlStep, FileTypes
<1>3. CASE DlSend \/ DlClose \/ DlReturn
  BY <1>3 DEF DlSend, DlClose, DlReturn, DlReturns, DlStep
<1>4. CASE ToDrive
  BY <1>4 DEF ToDrive, UpStart, UpSend, UpWaited, UpClose, UpReturn, UpStep
<1>5. CASE Rclone
  BY <1>5 DEF Rclone, RcStart, Scan, Offer, Wait, SendLast, RcClose, RcReturn, RcStep
<1>6. CASE Begin \/ GiveUp \/ Show \/ Downloaded \/ Refused \/ StartUpload \/ Uploaded
  BY <1>6 DEF Nested, Begin, GiveUp, Show, Downloaded, Refused, StartUpload, Uploaded,
     DlReturns, WorkerStep
<1>7. CASE FinishBlind \/ FinishFound \/ Leave
  BY <1>7 DEF Nested, FinishBlind, FinishFound, Leave, WorkerStep
<1>8. CASE \/ Cancel \/ RcloneWrites \/ RcloneAgain \/ RcloneCopied \/ RcloneFails
           \/ Done \/ UNCHANGED vars
  BY <1>8 DEF Cancel, RcloneWrites, RcloneAgain, RcloneCopied, RcloneFails, Done, vars, RcStep
<1> QED BY <1>1, <1>2, <1>3, <1>4, <1>5, <1>6, <1>7, <1>8
        DEF Next, Download, Process, Proceed, Finish

LEMMA MessageStep ==
  ControlTypes /\ FileTypes /\ PipeTypes /\ MessageTypes /\ Created /\ [Next]_vars => MessageTypes'
<1> SUFFICES ASSUME ControlTypes, FileTypes, PipeTypes, MessageTypes, Created, [Next]_vars
             PROVE  MessageTypes'
  OBVIOUS
<1>a. 0 \in 0..Size /\ Senders = {"dl", "up", "rc"}
  BY TransferAssumption DEF TransferAssumption, Senders
<1> USE DEF worker, disk, chans, upload, rclone
<1>1. CASE DlSend
  BY <1>a, <1>1, SendTypes DEF DlSend, DlStep, MessageTypes
<1>2. CASE UpSend
  BY <1>a, <1>2, SendTypes DEF UpSend, UpStep, MessageTypes
<1>3. CASE DlClose \/ UpClose
  BY <1>3, CloseTypes DEF DlClose, UpClose, DlStep, UpStep, MessageTypes
<1>4. CASE DlChunk
  <2>1. file' \in 0..Size
    BY <1>4, TransferAssumption DEF TransferAssumption, DlChunk, FileTypes
  <2> QED BY <1>4, <2>1, Messages DEF DlChunk, DlStep, MessageTypes
<1>5. CASE DlEof
  <2>1. file \in 0..Size
    BY <1>5, TransferAssumption DEF TransferAssumption, DlEof, FileTypes, Created
  <2> QED BY <1>5, <2>1, Messages DEF DlEof, DlStep, MessageTypes
<1>6. CASE Scan
  <2>1. pipe # <<>> => Head(pipe) \in Lines
    BY DEF PipeTypes
  <2> QED BY <1>6, <2>1, Messages DEF Scan, RcStep, MessageTypes, Lines
<1>7. CASE Offer \/ SendLast
  BY <1>a, <1>7 DEF Offer, SendLast, MessageTypes
<1>8. CASE Wait
  <2>1. CASE process = "error"
    BY <1>a, <1>8, <2>1, Messages DEF Wait, RcStep, MessageTypes
  <2>2. CASE process # "error"
    BY <1>a, <1>8, <2>2, Messages DEF Wait, RcStep, MessageTypes
  <2> QED BY <2>1, <2>2
<1>9. CASE Show
  <2>1. /\ progressCh.buf \in Seq(Progress) /\ progressCh.buf # <<>>
        /\ Len(progressCh.buf) <= Buffer /\ progressCh.closed \in BOOLEAN
        /\ progressCh' = [buf |-> Tail(progressCh.buf), closed |-> progressCh.closed]
    BY <1>9 DEF Show, MessageTypes
  <2>2. /\ Head(progressCh.buf) \in Progress /\ Tail(progressCh.buf) \in Seq(Progress)
        /\ Len(Tail(progressCh.buf)) <= Buffer
    BY <2>1, TransferAssumption DEF TransferAssumption
  <2>3. shown' \in 0..Size
    BY <1>9, <2>2 DEF Show, MessageTypes, Progress
  <2> QED BY <1>9, <2>1, <2>2, <2>3 DEF Show, WorkerStep, MessageTypes
<1>10. CASE Begin \/ StartUpload
  <2>1. \/ progressCh' = Open /\ shown' = 0 /\ value' = value
        \/ UNCHANGED <<progressCh, shown, value>>
    BY <1>10 DEF Begin, StartUpload, Fresh, WorkerStep
  <2>2. Len(Open.buf) <= Buffer
    BY EmptyChannel, TransferAssumption DEF TransferAssumption
  <2> QED BY <1>a, <2>1, <2>2, EmptyChannel DEF MessageTypes
<1>11. ASSUME UNCHANGED <<progressCh, shown, value>>
       PROVE  MessageTypes'
  BY <1>11 DEF MessageTypes
<1>12. CASE DlRequest \/ DlFails \/ DlReturn \/ UpStart \/ UpWaited \/ UpReturn \/ RcStart \/ RcClose
            \/ RcReturn
  BY <1>11, <1>12 DEF DlRequest, DlFails, DlReturn, DlStep, UpStart, UpWaited, UpReturn,
     UpStep, RcStart, RcClose, RcReturn, RcStep
<1>13. CASE GiveUp \/ Downloaded \/ Refused \/ Uploaded \/ FinishBlind \/ FinishFound \/ Leave
  BY <1>11, <1>13 DEF GiveUp, Downloaded, Refused, Uploaded, FinishBlind, FinishFound, Leave,
     WorkerStep
<1>14. CASE \/ Cancel \/ RcloneWrites \/ RcloneAgain \/ RcloneCopied \/ RcloneFails
            \/ Done \/ UNCHANGED vars
  BY <1>11, <1>14 DEF Cancel, RcloneWrites, RcloneAgain, RcloneCopied, RcloneFails, Done, vars,
     RcStep
<1> QED BY <1>1, <1>2, <1>3, <1>4, <1>5, <1>6, <1>7, <1>8, <1>9, <1>10, <1>12, <1>13, <1>14
        DEF Next, Download, ToDrive, Rclone, Process, Proceed, Finish

LEMMA TypedInvariant == Spec => [](TypeOK /\ Nested /\ Created)
<1>1. Init => Nested /\ Created
  BY DEF Init, Nested, Created, Open
<1>2. TypeOK /\ Nested /\ Created /\ [Next]_vars => TypeOK' /\ Nested' /\ Created'
  <2>1. TypeOK <=> ControlTypes /\ FileTypes /\ PipeTypes /\ MessageTypes
    BY Types
  <2>2. TypeOK' <=> ControlTypes' /\ FileTypes' /\ PipeTypes' /\ MessageTypes'
    BY DEF TypeOK, ControlTypes, FileTypes, PipeTypes, Lines, MessageTypes
  <2> QED BY <2>1, <2>2, ControlStep, FileStep, PipeStep, MessageStep, NestedStep, CreatedStep
<1> QED BY <1>1, <1>2, TransferTypesInit, PTL DEF Spec

\* Every variable keeps its type: no channel or pipe is filled past its capacity,
\* and no message reports more than the file has.
THEOREM TransferTyped == Spec => []TypeOK
  BY TypedInvariant, PTL

--------------------------------------------------------------------------------
(* The order of a transfer.                                                   *)

LEMMA ReceivedFileStep ==
  ControlTypes /\ FileTypes /\ MessageTypes /\ Nested /\ ReceivedFile /\ [Next]_vars => ReceivedFile'
<1> SUFFICES ASSUME ControlTypes, FileTypes, MessageTypes, Nested, ReceivedFile, [Next]_vars
             PROVE  ReceivedFile'
  OBVIOUS
<1>a. Senders = {"dl", "up", "rc"} /\ ret \in [Senders -> {"ok", "error"}]
      /\ value \in [Senders -> Progress]
  BY DEF Senders, ControlTypes, MessageTypes
<1>b. ASSUME file' = file, framed' = framed, value'["dl"] = value["dl"]
      PROVE  Complete' <=> Complete
  BY <1>b DEF Complete
<1> USE DEF ReceivedFile, worker, disk, chans, upload, rclone
<1>1. CASE DlRequest \/ DlFails
  BY <1>a, <1>1 DEF Nested, DlRequest, DlFails, DlReturns, DlStep
<1>2. CASE DlChunk
  BY <1>a, <1>2 DEF Nested, DlChunk, Report, DlStep
<1>3. CASE DlEof
  <2>1. /\ value'["dl"] = [done |-> file, last |-> TRUE, err |-> FALSE]
        /\ file' = file /\ framed' = framed /\ (file = Size \/ ~framed)
    BY <1>a, <1>3 DEF DlEof
  <2>2. Complete'
    BY <2>1 DEF Complete
  <2> QED BY <1>a, <1>3, <2>2 DEF Nested, DlEof, DlStep
<1>4. CASE DlSend \/ DlClose \/ DlReturn
  <2>1. Complete' <=> Complete
    BY <1>4, <1>b DEF DlSend, DlClose, DlReturn
  <2> QED BY <1>a, <1>4, <2>1 DEF Nested, DlSend, DlClose, DlReturn, DlReturns, DlStep
<1>5. CASE ToDrive
  <2>1. /\ UNCHANGED <<proc, file, framed, dl>> /\ value' = value /\ ret'["dl"] = ret["dl"]
        /\ errCh' = errCh \/ proc = "upload"
    BY <1>a, <1>5 DEF Nested, ToDrive, UpStart, UpSend, UpWaited, UpClose, UpReturn, UpStep
  <2> QED BY <2>1, <1>b
<1>6. CASE Rclone
  <2>1. /\ UNCHANGED <<proc, file, framed, dl, errCh>>
        /\ value'["dl"] = value["dl"] /\ ret'["dl"] = ret["dl"]
    BY <1>a, <1>6 DEF Rclone, RcStart, Scan, Offer, Wait, SendLast, RcClose, RcReturn,
       RcReturns, RcStep
  <2> QED BY <2>1, <1>b
<1>7. CASE Begin
  BY <1>a, <1>7 DEF Nested, Begin, Fresh, Return, DlReturns, WorkerStep
<1>8. CASE Downloaded
  <2>1. Complete' <=> Complete
    BY <1>8, <1>b DEF Downloaded, WorkerStep
  <2> QED BY <1>8, <2>1 DEF Nested, Downloaded, Return, WorkerStep
<1>9. CASE StartUpload \/ Uploaded \/ Refused \/ Show
  <2>1. Complete' <=> Complete
    BY <1>9, <1>b DEF StartUpload, Uploaded, Refused, Show, WorkerStep
  <2> QED BY <1>9, <2>1 DEF Nested, StartUpload, Uploaded, Refused, Show, Fresh, Return, WorkerStep
<1>10. CASE GiveUp \/ FinishBlind \/ FinishFound \/ Leave
  BY <1>10 DEF Nested, GiveUp, FinishBlind, FinishFound, Leave, Return, WorkerStep
<1>11. CASE \/ Cancel \/ RcloneWrites \/ RcloneAgain \/ RcloneCopied \/ RcloneFails
            \/ Done \/ UNCHANGED vars
  <2>1. /\ UNCHANGED <<proc, file, framed, dl, errCh, value, ret>>
    BY <1>11 DEF Cancel, RcloneWrites, RcloneAgain, RcloneCopied, RcloneFails, Done, vars,
       RcStep
  <2> QED BY <2>1, <1>b
<1> QED BY <1>1, <1>2, <1>3, <1>4, <1>5, <1>6, <1>7, <1>8, <1>9, <1>10, <1>11
        DEF Next, Download, Process, Proceed, Finish

LEMMA TransferInvariant == Spec => [](Nested /\ ReceivedFile)
<1>1. Init => ReceivedFile
  BY DEF Init, ReceivedFile
<1>2. TypeOK => ControlTypes /\ FileTypes /\ MessageTypes
  BY Types
<1> QED BY <1>1, <1>2, ReceivedFileStep, TypedInvariant, PTL DEF Spec

\* rclone runs only beside a local file that a download of the same attempt has read
\* to the end, and that nobody writes to any more.
THEOREM RcloneReadsAllReceived == Spec => []UploadReadsAllReceived
<1>1. Nested /\ ReceivedFile => UploadReadsAllReceived
  BY DEF Nested, ReceivedFile, Complete, UploadReadsAllReceived
<1> QED BY <1>1, TransferInvariant, PTL

\* Process leaves no goroutine, no rclone and no file behind, and a channel is
\* closed by its last sender: a send on a closed channel, a panic in Go, cannot
\* happen.
THEOREM NothingIsLeftBehind == Spec => []NobodyLeftBehind
<1>1. Nested /\ ReceivedFile => NobodyLeftBehind
  BY DEF Nested, ReceivedFile, NobodyLeftBehind
<1> QED BY <1>1, TransferInvariant, PTL

--------------------------------------------------------------------------------
(* The order of the progress shown.                                           *)

Buf == progressCh.buf

\* numbers that must not go back: the last report of an upload has none, and they do
\* once rclone has started over
Counts(m) == proc = "download" \/ (~m.last /\ again = 0)

\* x is not before anything shown or on its way to the worker, nor before what
\* ToDrive is about to send, nor before what rclone's reader is about to offer
PastSent(x)    == shown <= x /\ \A i \in 1..Len(Buf) : Buf[i].done <= x
PastToDrive(x) == PastSent(x) /\ (up = "sending" => value["up"].done <= x)
PastOffer(x)   == PastToDrive(x) /\ (rc = "offering" => value["rc"].done <= x)

\* Along the way of a number, from its source to the message, none is before one
\* that is further on.
ShowOrder ==
  /\ \A i \in 1..Len(Buf) : Counts(Buf[i]) => shown <= Buf[i].done
  /\ \A i, j \in 1..Len(Buf) : i < j /\ Counts(Buf[j]) => Buf[i].done <= Buf[j].done

DownloadOrder ==
  /\ dl = "request" => PastSent(0)
  /\ dl \in {"reading", "sending"} => file >= 0 /\ PastSent(file)
  /\ dl = "sending" => value["dl"].done = file

PipeOrder ==
  again = 0 =>
    /\ \A k \in 1..Len(pipe) : pipe[k] <= sent
    /\ \A k, l \in 1..Len(pipe) : k < l /\ pipe[l] # 0 => pipe[k] <= pipe[l]

UploadOrder ==
  /\ up = "start" => PastSent(0)
  /\ rc = "start" => up = "receiving" /\ PastSent(0)
  /\ again = 0 /\ up = "sending" /\ ~value["up"].last => PastSent(value["up"].done)
  /\ again = 0 /\ rc = "offering" => ~value["rc"].last /\ PastToDrive(value["rc"].done)
  /\ rc = "last" => value["rc"].last
  /\ again = 0 /\ rc \in {"scanning", "offering"} =>
       /\ PastOffer(sent)
       /\ \A k \in 1..Len(pipe) : pipe[k] # 0 => PastOffer(pipe[k])

Order == ShowOrder /\ DownloadOrder /\ PipeOrder /\ UploadOrder

LEMMA OrderInit == Init => Order
  BY DEF Init, Order, ShowOrder, DownloadOrder, PipeOrder, UploadOrder, PastSent, Buf, Open

LEMMA Appended ==
  ASSUME NEW S, NEW q \in Seq(S), NEW m \in S
  PROVE  /\ Append(q, m) \in Seq(S) /\ Len(q) \in Nat /\ Len(Append(q, m)) = Len(q) + 1
         /\ Append(q, m)[Len(q) + 1] = m
         /\ \A i \in 1..Len(q) : Append(q, m)[i] = q[i] /\ q[i] \in S
  OBVIOUS

LEMMA WithoutHead ==
  ASSUME NEW S, NEW q \in Seq(S), q # <<>>
  PROVE  /\ Tail(q) \in Seq(S) /\ Len(q) \in Nat /\ Len(q) > 0 /\ Len(Tail(q)) = Len(q) - 1
         /\ Head(q) = q[1] /\ Head(q) \in S
         /\ \A i \in 1..Len(Tail(q)) : Tail(q)[i] = q[i + 1]
  OBVIOUS

LEMMA Sent ==
  ASSUME MessageTypes, NEW s \in Senders, Send(s)
  PROVE  /\ Len(Buf') = Len(Buf) + 1 /\ Buf'[Len(Buf) + 1] = value[s]
         /\ \A i \in 1..Len(Buf) : Buf'[i] = Buf[i]
         /\ Buf \in Seq(Progress) /\ Buf' \in Seq(Progress) /\ Len(Buf) \in Nat
<1>1. /\ Buf \in Seq(Progress) /\ value[s] \in Progress
      /\ Buf' = Append(Buf, value[s])
  BY DEF MessageTypes, Send, Buf
<1> QED BY <1>1

LEMMA Taken ==
  ASSUME MessageTypes, Show
  PROVE  /\ Len(Buf) \in Nat /\ Len(Buf) > 0 /\ Len(Buf') = Len(Buf) - 1
         /\ \A i \in 1..Len(Buf') : Buf'[i] = Buf[i + 1]
         /\ Head(Buf) = Buf[1] /\ shown' \in {shown, Buf[1].done}
         /\ Buf \in Seq(Progress) /\ Buf' \in Seq(Progress)
<1>1. /\ Buf \in Seq(Progress) /\ Buf # <<>> /\ Buf' = Tail(Buf)
      /\ shown' \in {shown, Head(Buf).done}
  BY DEF MessageTypes, Show, Buf
<1> QED BY <1>1

\* A message keeps the place of those around it when it is sent and when it is
\* shown.
LEMMA StaysPast ==
  ASSUME MessageTypes, NEW x \in Int, PastSent(x),
         \/ Show
         \/ \E s \in Senders : Send(s) /\ value[s].done <= x /\ shown' = shown
         \/ shown' = shown /\ Buf' = Buf
  PROVE  shown' <= x /\ \A i \in 1..Len(Buf') : Buf'[i].done <= x
<1>1. CASE Show
  BY <1>1, Taken DEF PastSent
<1>2. ASSUME NEW s \in Senders, Send(s), value[s].done <= x, shown' = shown
      PROVE  shown' <= x /\ \A i \in 1..Len(Buf') : Buf'[i].done <= x
  BY <1>2, Sent DEF PastSent
<1>3. CASE shown' = shown /\ Buf' = Buf
  BY <1>3 DEF PastSent
<1> QED BY <1>1, <1>2, <1>3

\* A start of rclone is all that takes back its starting over.
LEMMA AgainStep ==
  PipeTypes /\ [Next]_vars => again' = again \/ again' # 0 \/ (RcStart /\ process' = "running")
<1> SUFFICES ASSUME PipeTypes, [Next]_vars
             PROVE  again' = again \/ again' # 0 \/ (RcStart /\ process' = "running")
  OBVIOUS
<1> USE DEF rclone
<1>1. CASE RcloneAgain
  BY <1>1, TransferAssumption DEF RcloneAgain, PipeTypes, TransferAssumption
<1>2. CASE Rclone
  BY <1>2 DEF Rclone, RcStart, Scan, Offer, Wait, SendLast, RcClose, RcReturn
<1>3. CASE Download
  BY <1>3 DEF Download, DlRequest, DlChunk, DlEof, DlFails, DlSend, DlClose, DlReturn, DlStep
<1>4. CASE ToDrive
  BY <1>4 DEF ToDrive, UpStart, UpSend, UpWaited, UpClose, UpReturn, UpStep
<1>5. CASE Process
  BY <1>5 DEF Process, Proceed, Finish, Begin, GiveUp, Show, Downloaded, Refused, StartUpload,
     Uploaded, FinishBlind, FinishFound, Leave, WorkerStep
<1>6. CASE \/ RcloneWrites \/ RcloneCopied \/ RcloneFails
           \/ Cancel \/ Done \/ UNCHANGED vars
  BY <1>6 DEF RcloneWrites, RcloneCopied, RcloneFails, Cancel, Done, vars
<1> QED BY <1>1, <1>2, <1>3, <1>4, <1>5, <1>6 DEF Next

LEMMA PipeOrderStep == FileTypes /\ PipeTypes /\ PipeOrder /\ [Next]_vars => PipeOrder'
<1> SUFFICES ASSUME FileTypes, PipeTypes, PipeOrder, [Next]_vars PROVE PipeOrder'
  OBVIOUS
<1> USE DEF PipeOrder, PipeTypes
<1>0. again' # 0 => PipeOrder'
  OBVIOUS
<1>1. ASSUME UNCHANGED <<sent, pipe, again>> PROVE PipeOrder'
  BY <1>1
<1>2. ASSUME RcloneWrites, again = 0 PROVE PipeOrder'
  <2>1. PICK m \in {sent + 1, 0} : pipe' = Append(pipe, m) /\ sent' = sent + 1 /\ m \in Lines
    BY <1>2, TransferAssumption DEF RcloneWrites, TransferAssumption, FileTypes, Lines
  <2>2. /\ Len(pipe) \in Nat /\ Len(pipe') = Len(pipe) + 1 /\ pipe'[Len(pipe) + 1] = m
        /\ \A k \in 1..Len(pipe) : pipe'[k] = pipe[k] /\ pipe[k] \in Lines
    BY <2>1, Appended
  <2>3. sent \in Nat /\ sent + 1 > 0 /\ Lines \subseteq Int
    BY DEF Lines
  <2>4. ASSUME NEW k \in 1..Len(pipe') PROVE pipe'[k] <= sent'
    <3>1. CASE k = Len(pipe) + 1
      <4>1. m <= sent + 1
        BY <2>1, <2>3
      <4> QED BY <2>1, <2>2, <3>1, <4>1
    <3>2. CASE k \in 1..Len(pipe)
      <4>1. pipe'[k] = pipe[k] /\ pipe[k] \in Int /\ pipe[k] <= sent
        BY <1>2, <2>2, <2>3, <3>2
      <4> QED BY <2>1, <2>3, <4>1
    <3> QED BY <2>2, <3>1, <3>2
  <2>5. ASSUME NEW k \in 1..Len(pipe'), NEW l \in 1..Len(pipe'), k < l, pipe'[l] # 0
        PROVE  pipe'[k] <= pipe'[l]
    <3>1. CASE l = Len(pipe) + 1
      <4>1. k \in 1..Len(pipe) /\ pipe'[l] = sent + 1
        BY <2>1, <2>2, <2>5, <3>1
      <4>2. pipe'[k] = pipe[k] /\ pipe[k] \in Int /\ pipe[k] <= sent
        BY <1>2, <2>2, <2>3, <4>1
      <4> QED BY <2>3, <4>1, <4>2
    <3>2. CASE l \in 1..Len(pipe)
      BY <1>2, <2>2, <2>5, <3>2
    <3> QED BY <2>2, <3>1, <3>2
  <2> QED BY <2>4, <2>5
<1>3. ASSUME Scan, again = 0 PROVE PipeOrder'
  <2>1. /\ UNCHANGED <<sent, again>>
        /\ pipe' = pipe \/ (pipe # <<>> /\ pipe' = Tail(pipe))
    BY <1>3 DEF Scan
  <2>2. ASSUME pipe # <<>>, pipe' = Tail(pipe)
        PROVE  PipeOrder'
    <3>1. /\ Len(pipe) \in Nat /\ Len(pipe') = Len(pipe) - 1
          /\ \A k \in 1..Len(pipe') : pipe'[k] = pipe[k + 1]
      BY <2>2, WithoutHead
    <3>2. \A k \in 1..Len(pipe') : k + 1 \in 1..Len(pipe)
      BY <3>1
    <3>3. \A k, l \in 1..Len(pipe') : k < l => k + 1 < l + 1
      BY <3>1
    <3> QED BY <1>3, <2>1, <3>1, <3>2, <3>3
  <2> QED BY <1>1, <2>1, <2>2
<1>4. CASE RcStart \/ Wait
  <2>1. UNCHANGED <<sent, pipe, again>> \/ pipe' = <<>>
    BY <1>4 DEF RcStart, Wait
  <2>2. pipe' = <<>> => PipeOrder'
    OBVIOUS
  <2> QED BY <1>1, <2>1, <2>2
<1>5. CASE Offer \/ SendLast \/ RcClose \/ RcReturn
  BY <1>1, <1>5 DEF Offer, SendLast, RcClose, RcReturn, rclone
<1>6. CASE RcloneCopied \/ RcloneFails
  BY <1>1, <1>6 DEF RcloneCopied, RcloneFails
<1>7. CASE Download
  BY <1>1, <1>7 DEF Download, DlRequest, DlChunk, DlEof, DlFails, DlSend, DlClose, DlReturn,
     DlStep, rclone
<1>8. CASE ToDrive
  BY <1>1, <1>8 DEF ToDrive, UpStart, UpSend, UpWaited, UpClose, UpReturn, UpStep, rclone
<1>9. CASE Process
  BY <1>1, <1>9 DEF Process, Proceed, Finish, Begin, GiveUp, Show, Downloaded, Refused,
     StartUpload, Uploaded, FinishBlind, FinishFound, Leave, WorkerStep, rclone
<1>10. CASE Cancel \/ Done \/ UNCHANGED vars
  BY <1>1, <1>10 DEF Cancel, Done, vars, rclone
<1>11. CASE again' = again \/ RcStart
  <2>1. CASE RcloneAgain
    BY <1>0, <2>1, TransferAssumption DEF RcloneAgain, TransferAssumption
  <2>2. CASE again # 0 /\ again' = again
    BY <1>0, <2>2
  <2> QED BY <1>2, <1>3, <1>4, <1>5, <1>6, <1>7, <1>8, <1>9, <1>10, <1>11, <2>1, <2>2
          DEF Next, Rclone
<1> QED BY <1>0, <1>11, AgainStep

\* The steps that neither send nor show, and begin no stage.
LEMMA QuietSteps ==
  ASSUME MessageTypes, [Next]_vars, ~Show, ~DlSend, ~UpSend, ~Begin, ~StartUpload
  PROVE  shown' = shown /\ Buf' = Buf /\ (proc' = "download" => proc = "download")
<1> USE DEF Buf, worker, chans, upload, rclone
<1>1. CASE DlRequest \/ DlChunk \/ DlEof \/ DlFails \/ DlReturn
  BY <1>1 DEF DlRequest, DlChunk, DlEof, DlFails, DlReturn, DlStep
<1>2. CASE DlClose \/ UpClose
  BY <1>2 DEF DlClose, UpClose, Close, DlStep, UpStep, MessageTypes
<1>3. CASE Rclone
  BY <1>3 DEF Rclone, RcStart, Scan, Offer, Wait, SendLast, RcClose, RcReturn, RcStep
<1>4. CASE UpStart \/ UpWaited \/ UpReturn
  BY <1>4 DEF UpStart, UpWaited, UpReturn, UpStep
<1>5. CASE GiveUp \/ Downloaded \/ Refused \/ Uploaded \/ FinishBlind \/ FinishFound \/ Leave
  BY <1>5 DEF GiveUp, Downloaded, Refused, Uploaded, FinishBlind, FinishFound, Leave, Return
<1>6. CASE RcloneWrites \/ RcloneAgain \/ RcloneCopied \/ RcloneFails
  BY <1>6 DEF RcloneWrites, RcloneAgain, RcloneCopied, RcloneFails, RcStep
<1>7. CASE Cancel \/ Done \/ UNCHANGED vars
  BY <1>7 DEF Cancel, Done, vars
<1> QED BY <1>1, <1>2, <1>3, <1>4, <1>5, <1>6, <1>7 DEF Next, Download, ToDrive, Process, Proceed, Finish

\* What is sent comes after everything sent before.
LEMMA SentInOrder ==
  ControlTypes /\ MessageTypes /\ Nested /\ DownloadOrder /\ UploadOrder =>
    /\ DlSend => /\ Send("dl") /\ UNCHANGED <<shown, proc, again>>
                 /\ PastSent(value["dl"].done)
    /\ UpSend => /\ Send("up") /\ UNCHANGED <<shown, proc, again>>
                 /\ Counts(value["up"]) => PastSent(value["up"].done)
  BY DEF DlSend, UpSend, DlStep, UpStep, worker, rclone, DownloadOrder, UploadOrder, Counts,
     Nested

LEMMA ShowOrderStep ==
  ControlTypes /\ PipeTypes /\ MessageTypes /\ Nested /\ Order /\ [Next]_vars => ShowOrder'
<1> SUFFICES ASSUME ControlTypes, PipeTypes, MessageTypes, Nested, Order, [Next]_vars
             PROVE  ShowOrder'
  OBVIOUS
<1> USE DEF Order, ShowOrder
<1>1. ASSUME ~Show, ~DlSend, ~UpSend, ~Begin, ~StartUpload PROVE ShowOrder'
  <2>1. shown' = shown /\ Buf' = Buf /\ (proc' = "download" => proc = "download")
    BY <1>1, QuietSteps
  <2>2. ASSUME again' = again \/ again' # 0 PROVE ShowOrder'
    <3>1. \A m : Counts(m)' => Counts(m)
      BY <2>1, <2>2 DEF Counts
    <3> QED BY <2>1, <3>1
  <2>3. CASE RcStart
    <3>1. PastSent(0)
      BY <2>3 DEF RcStart, UploadOrder
    <3>2. shown \in Nat /\ \A i \in 1..Len(Buf) : Buf[i].done \in Nat
      <4>1. Buf \in Seq(Progress)
        BY DEF MessageTypes, Buf
      <4>2. \A i \in 1..Len(Buf) : Buf[i] \in Progress
        BY <4>1
      <4> QED BY <4>2 DEF MessageTypes, Progress
    <3>3. shown = 0 /\ \A i \in 1..Len(Buf) : Buf[i].done = 0
      BY <3>1, <3>2 DEF PastSent
    <3> QED BY <2>1, <3>3
  <2> QED BY <2>2, <2>3, AgainStep
<1>2. CASE Show
  <2>1. proc' = proc /\ again' = again
    BY <1>2 DEF Show, worker, WorkerStep, rclone
  <2>2. /\ Len(Buf) \in Nat /\ Len(Buf) > 0 /\ Len(Buf') = Len(Buf) - 1
        /\ \A i \in 1..Len(Buf') : i + 1 \in 1..Len(Buf) /\ 1 < i + 1 /\ Buf'[i] = Buf[i + 1]
        /\ 1 \in 1..Len(Buf) /\ shown' \in {shown, Buf[1].done}
    BY <1>2, Taken
  <2>3. ASSUME NEW i \in 1..Len(Buf'), Counts(Buf[i + 1])
        PROVE  shown' <= Buf'[i].done
    BY <2>2, <2>3
  <2>4. ASSUME NEW i \in 1..Len(Buf'), NEW j \in 1..Len(Buf'), i < j, Counts(Buf[j + 1])
        PROVE  Buf'[i].done <= Buf'[j].done
    <3>1. i + 1 < j + 1
      BY <2>2, <2>4
    <3> QED BY <2>2, <2>4, <3>1
  <2> QED BY <2>1, <2>2, <2>3, <2>4 DEF Counts
<1>3. ASSUME NEW s \in Senders, Send(s), UNCHANGED <<shown, proc, again>>,
             Counts(value[s]) => PastSent(value[s].done)
      PROVE  ShowOrder'
  <2>1. /\ Len(Buf) \in Nat /\ Len(Buf') = Len(Buf) + 1 /\ Buf'[Len(Buf) + 1] = value[s]
        /\ \A i \in 1..Len(Buf) : Buf'[i] = Buf[i]
    BY <1>3, Sent
  <2>2. ASSUME NEW i \in 1..Len(Buf'), Counts(Buf'[i])
        PROVE  shown <= Buf'[i].done
    BY <1>3, <2>1, <2>2 DEF PastSent
  <2>3. ASSUME NEW i \in 1..Len(Buf'), NEW j \in 1..Len(Buf'), i < j, Counts(Buf'[j])
        PROVE  Buf'[i].done <= Buf'[j].done
    <3>1. i \in 1..Len(Buf)
      BY <2>1, <2>3
    <3> QED BY <1>3, <2>1, <2>3, <3>1 DEF PastSent
  <2> QED BY <1>3, <2>2, <2>3 DEF Counts
<1>4. CASE DlSend \/ UpSend
  BY <1>3, <1>4, SentInOrder DEF Senders
<1>5. CASE Begin \/ StartUpload
  <2>1. Len(Buf') = 0
    BY <1>5 DEF Begin, StartUpload, Fresh, Open, Buf
  <2> QED BY <2>1
<1> QED BY <1>1, <1>2, <1>4, <1>5

LEMMA DownloadOrderStep ==
  ControlTypes /\ FileTypes /\ MessageTypes /\ Nested /\ Order /\ [Next]_vars => DownloadOrder'
<1> SUFFICES ASSUME ControlTypes, FileTypes, MessageTypes, Nested, Order, [Next]_vars
             PROVE  DownloadOrder'
  OBVIOUS
<1>a. file \in Int /\ 0 \in Int
  BY DEF FileTypes
<1>b. ASSUME NEW x \in Int, PastSent(x), shown' = shown, Buf' = Buf
      PROVE  shown' <= x /\ \A i \in 1..Len(Buf') : Buf'[i].done <= x
  BY <1>b DEF PastSent
<1> USE DEF Order, DownloadOrder
<1>1. CASE DlRequest
  BY <1>1 DEF DlRequest, DlReturns, DlStep, PastSent, Buf
<1>2. CASE DlChunk
  <2>1. file' = file + 1 /\ dl = "reading" /\ UNCHANGED <<shown, progressCh>>
    BY <1>2 DEF DlChunk, DlStep
  <2>2. /\ file + 1 \in Int /\ file + 1 >= 0 /\ shown <= file + 1
        /\ \A i \in 1..Len(Buf) : Buf[i].done <= file + 1
    <3>1. shown \in Int /\ Buf \in Seq(Progress)
      BY DEF MessageTypes, Buf
    <3>2. \A i \in 1..Len(Buf) : Buf[i] \in Progress
      BY <3>1
    <3>3. \A i \in 1..Len(Buf) : Buf[i].done \in Int
      BY <3>2 DEF Progress
    <3> QED BY <1>a, <2>1, <3>1, <3>3 DEF PastSent
  <2>3. dl' = "sending" => value'["dl"].done = file'
    BY <1>2 DEF DlChunk, Report, MessageTypes, Senders
  <2>4. dl' # "request"
    BY <1>2 DEF DlChunk
  <2> QED BY <2>1, <2>2, <2>3, <2>4 DEF PastSent, Buf
<1>3. CASE DlEof
  BY <1>3 DEF DlEof, DlStep, MessageTypes, Senders, PastSent, Buf
<1>4. CASE DlFails \/ DlClose \/ DlReturn
  BY <1>4 DEF DlFails, DlClose, DlReturn, DlReturns
<1>5. CASE DlSend
  <2>1. /\ Send("dl") /\ shown' = shown /\ file' = file /\ dl' # "request" /\ dl' # "sending"
        /\ dl = "sending"
    BY <1>5 DEF DlSend, DlReturns, DlStep, disk
  <2>2. value["dl"].done <= file
    BY <1>a, <2>1
  <2>3. shown' <= file /\ \A i \in 1..Len(Buf') : Buf'[i].done <= file
    BY <1>a, <2>1, <2>2, StaysPast DEF Senders
  <2> QED BY <2>1, <2>3 DEF PastSent
<1>6. CASE Show
  <2>1. UNCHANGED <<dl, file, value>>
    BY <1>6 DEF Show, WorkerStep, disk
  <2> QED BY <1>6, <1>a, <2>1, StaysPast DEF PastSent
<1>7. CASE Begin
  BY <1>7 DEF Begin, DlReturns, Return, Fresh, Open, PastSent, Buf, Nested
<1>8. ASSUME dl' = "none" PROVE DownloadOrder'
  BY <1>8
<1>9. CASE ToDrive \/ Rclone
  BY <1>8, <1>9 DEF Nested, ToDrive, UpStart, UpSend, UpWaited, UpClose, UpReturn, UpStep,
     Rclone, RcStart, Scan, Offer, Wait, SendLast, RcClose, RcReturn, RcStep
<1>10. CASE \/ Downloaded \/ Refused \/ StartUpload \/ Uploaded \/ FinishBlind \/ FinishFound \/ Leave
             \/ GiveUp
  BY <1>8, <1>10 DEF Nested, Downloaded, Refused, StartUpload, Uploaded, FinishBlind,
     FinishFound, Leave, GiveUp
<1>11. CASE \/ RcloneWrites \/ RcloneAgain \/ RcloneCopied \/ RcloneFails
            \/ Cancel \/ Done \/ UNCHANGED vars
  BY <1>11 DEF RcloneWrites, RcloneAgain, RcloneCopied, RcloneFails, RcStep, Cancel, Done,
     vars, disk, chans, PastSent, Buf
<1> QED BY <1>1, <1>2, <1>3, <1>4, <1>5, <1>6, <1>7, <1>9, <1>10, <1>11
        DEF Next, Download, Process, Proceed, Finish


LEMMA UploadOrderStep ==
  /\ ControlTypes /\ FileTypes /\ PipeTypes /\ MessageTypes /\ Nested /\ Order /\ [Next]_vars
  => UploadOrder'
<1> SUFFICES ASSUME ControlTypes, FileTypes, PipeTypes, MessageTypes, Nested, Order, [Next]_vars
             PROVE  UploadOrder'
  OBVIOUS
<1>a. /\ sent \in Int /\ 0 \in Int /\ Len(pipe) \in Nat /\ \A k \in 1..Len(pipe) : pipe[k] \in Int
      /\ value["up"].done \in Int /\ value["rc"].done \in Int
  <2>1. pipe \in Seq(Lines) /\ Lines \subseteq Int
    BY DEF PipeTypes, Lines
  <2>2. Len(pipe) \in Nat /\ \A k \in 1..Len(pipe) : pipe[k] \in Int
    <3>1. Len(pipe) \in Nat /\ \A k \in 1..Len(pipe) : pipe[k] \in Lines
      BY ONLY <2>1
    <3> QED BY ONLY <2>1, <3>1
  <2>3. value["up"] \in Progress /\ value["rc"] \in Progress
    BY DEF MessageTypes, Senders
  <2>4. \A m \in Progress : m.done \in Int
    BY DEF Progress
  <2>5. sent \in Int
    BY DEF PipeTypes, Lines
  <2> QED BY <2>2, <2>3, <2>4, <2>5
<1>b. \A x \in Int :
        /\ PastSent(x)
        /\ Show \/ (Send("up") /\ value["up"].done <= x /\ shown' = shown) \/ (shown' = shown /\ Buf' = Buf)
        => shown' <= x /\ \A i \in 1..Len(Buf') : Buf'[i].done <= x
  BY StaysPast DEF Senders
<1> USE DEF Order, UploadOrder, PastSent, PastToDrive, PastOffer
<1>1. ASSUME up' = "none", rc' = "none" PROVE UploadOrder'
  BY <1>1
<1>2. CASE Download
  BY <1>1, <1>2 DEF Nested, Download, DlRequest, DlChunk, DlEof, DlFails, DlSend, DlClose,
     DlReturn, DlStep, upload
<1>3. CASE Begin \/ Downloaded \/ Refused \/ FinishBlind \/ FinishFound \/ Leave
  BY <1>1, <1>3 DEF Nested, Begin, Downloaded, Refused, FinishBlind, FinishFound, Leave,
     WorkerStep, upload
<1>4. CASE GiveUp
  BY <1>1, <1>4 DEF Nested, GiveUp, WorkerStep
<1>5. CASE Uploaded
  BY <1>1, <1>5 DEF Nested, Uploaded, WorkerStep
<1>6. CASE StartUpload
  BY <1>6 DEF Nested, StartUpload, Fresh, Open, Buf, WorkerStep
<1>7. CASE Show
  <2>1. UNCHANGED <<up, rc, value, sent, pipe, again>>
    BY <1>7 DEF Show, WorkerStep, rclone
  <2> QED BY <1>7, <1>a, <1>b, <2>1
<1>8. CASE UpStart
  BY <1>8 DEF UpStart, UpStep, chans, rclone, Nested, Buf
<1>9. CASE UpSend
  <2>1. /\ up = "sending" /\ up' = "receiving" /\ Send("up")
        /\ UNCHANGED <<shown, rc, value, sent, pipe, again>>
    BY <1>9 DEF UpSend, UpStep, rclone
  <2> QED BY <1>a, <1>b, <2>1
<1>10. CASE UpWaited \/ UpClose \/ UpReturn
  <2>1. up' \notin {"start", "receiving", "sending"} /\ rc' = rc
    BY <1>10 DEF UpWaited, UpClose, UpReturn
  <2>2. rc = "none"
    BY <1>10 DEF UpWaited, UpClose, UpReturn, Nested
  <2> QED BY <2>1, <2>2
<1>11. CASE RcStart
  <2>1. up = "receiving" /\ PastSent(0) /\ UNCHANGED <<up, shown, progressCh>>
    BY <1>11 DEF RcStart, RcStep, chans
  <2>2. \/ rc' = "scanning" /\ sent' = 0 /\ pipe' = <<>>
        \/ rc' = "closing"
    BY <1>11 DEF RcStart, RcReturns
  <2> QED BY <2>1, <2>2 DEF Buf
<1>12. ASSUME Scan, again = 0 PROVE UploadOrder'
  <2>1. UNCHANGED <<up, shown, progressCh, sent, again>> /\ rc = "scanning"
    BY <1>12 DEF Scan, RcStep, chans
  <2>2. CASE rc' = "waiting"
    BY <1>12, <2>1, <2>2 DEF Scan, Buf
  <2>3. CASE rc' = "offering"
    <3>1. /\ pipe # <<>> /\ Head(pipe) # 0 /\ pipe' = Tail(pipe)
          /\ value' = [value EXCEPT !["rc"] = Report(Head(pipe))]
      BY <1>12, <2>3 DEF Scan
    <3>2. /\ Len(pipe') = Len(pipe) - 1 /\ Head(pipe) = pipe[1] /\ 1 \in 1..Len(pipe)
          /\ \A k \in 1..Len(pipe') : pipe'[k] = pipe[k + 1]
      BY <3>1, WithoutHead DEF PipeTypes
    <3>3. /\ value'["rc"] = Report(pipe[1]) /\ value'["up"] = value["up"]
      BY <3>1, <3>2 DEF MessageTypes, Senders
    <3>4. \A k \in 1..Len(pipe') : k + 1 \in 1..Len(pipe) /\ 1 < k + 1
      BY <1>a, <3>2
    <3>5. /\ pipe[1] <= sent
          /\ \A k \in 1..Len(pipe') : pipe'[k] # 0 => pipe[1] <= pipe'[k]
      BY <1>12, <3>2, <3>4 DEF PipeOrder
    <3>6. /\ PastOffer(sent) /\ PastOffer(pipe[1])
          /\ \A k \in 1..Len(pipe') : pipe'[k] # 0 => PastOffer(pipe'[k])
      BY <1>12, <2>1, <3>1, <3>2, <3>4
    <3> QED BY <2>1, <2>3, <3>3, <3>5, <3>6 DEF Report, Buf
  <2> QED BY <1>12, <2>2, <2>3 DEF Scan
<1>13. CASE Offer
  <2>1. UNCHANGED <<shown, progressCh, sent, pipe, again>> /\ rc = "offering" /\ rc' = "scanning"
    BY <1>13 DEF Offer, chans, rclone
  <2>2. \/ UNCHANGED <<up, value>>
        \/ up = "receiving" /\ up' = "sending" /\ value'["up"] = value["rc"]
    BY <1>13 DEF Offer, MessageTypes, Senders
  <2> QED BY <2>1, <2>2 DEF Buf
<1>14. CASE Wait
  <2>1. UNCHANGED <<up, shown, progressCh, again>> /\ rc' = "last" /\ value'["rc"].last
        /\ value'["up"] = value["up"]
    BY <1>14 DEF Wait, RcStep, chans, MessageTypes, Senders
  <2> QED BY <2>1 DEF Buf
<1>15. CASE SendLast
  <2>1. UNCHANGED <<shown, progressCh>> /\ rc' = "closing" /\ up' = "sending"
        /\ value'["up"] = value["rc"] /\ value["rc"].last
    BY <1>15 DEF SendLast, chans, MessageTypes, Senders
  <2> QED BY <2>1
<1>16. CASE RcClose \/ RcReturn
  BY <1>16 DEF RcClose, RcReturn, RcStep, chans, rclone, Buf
<1>17. ASSUME RcloneWrites, again = 0 PROVE UploadOrder'
  <2>1. /\ UNCHANGED <<up, rc, value, shown, progressCh, again>> /\ sent' = sent + 1
        /\ pipe' = Append(pipe, sent') \/ pipe' = Append(pipe, 0)
    BY <1>17 DEF RcloneWrites, RcStep, chans
  <2>2. PICK m \in {sent + 1, 0} : pipe' = Append(pipe, m) /\ m \in Lines
    BY <1>17, <2>1, TransferAssumption
    DEF RcloneWrites, TransferAssumption, FileTypes, PipeTypes, Lines
  <2>3. /\ Len(pipe') = Len(pipe) + 1 /\ pipe'[Len(pipe) + 1] = m
        /\ \A k \in 1..Len(pipe) : pipe'[k] = pipe[k]
    BY <2>2, Appended DEF PipeTypes
  <2>4. PastOffer(sent) => PastOffer(sent + 1)
    <3>1. shown \in Int /\ Buf \in Seq(Progress)
      BY DEF MessageTypes, Buf
    <3>2. \A i \in 1..Len(Buf) : Buf[i] \in Progress
      BY <3>1
    <3>3. \A i \in 1..Len(Buf) : Buf[i].done \in Int
      BY <3>2 DEF Progress
    <3> QED BY <1>a, <3>1, <3>3
  <2>5. \A k \in 1..Len(pipe') : k \in 1..Len(pipe) \/ k = Len(pipe) + 1
    BY <1>a, <2>3
  <2>6. rc \in {"scanning", "offering"} =>
          /\ PastOffer(sent + 1)
          /\ \A k \in 1..Len(pipe') : pipe'[k] # 0 => PastOffer(pipe'[k])
    BY <1>17, <2>2, <2>3, <2>4, <2>5
  <2> QED BY <1>17, <2>1, <2>6 DEF Buf
<1>18. CASE RcloneCopied \/ RcloneFails
  BY <1>18 DEF RcloneCopied, RcloneFails, RcStep, chans, Buf
<1>19. CASE Cancel \/ Done \/ UNCHANGED vars
  BY <1>19 DEF Cancel, Done, vars, upload, rclone, chans, Buf
<1>20. ASSUME Scan \/ RcloneWrites \/ RcloneAgain, again' # 0 PROVE UploadOrder'
  <2>1. UNCHANGED <<up, shown, progressCh>> /\ value'["up"] = value["up"]
    BY <1>20 DEF Scan, RcloneWrites, RcloneAgain, RcStep, chans, MessageTypes, Senders
  <2>2. rc' \notin {"start", "last"} \/ UNCHANGED <<rc, value>>
    BY <1>20 DEF Scan, RcloneWrites, RcloneAgain
  <2> QED BY <1>20, <2>1, <2>2 DEF Buf
<1>21. Scan \/ RcloneWrites => again' = again
  BY DEF Scan, RcloneWrites
<1>22. RcloneAgain => again' # 0
  BY TransferAssumption DEF RcloneAgain, PipeTypes, TransferAssumption
<1>23. Scan \/ RcloneWrites \/ RcloneAgain => UploadOrder'
  BY <1>12, <1>17, <1>20, <1>21, <1>22
<1> QED BY <1>2, <1>3, <1>4, <1>5, <1>6, <1>7, <1>8, <1>9, <1>10, <1>11, <1>13, <1>14, <1>15,
           <1>16, <1>18, <1>19, <1>23 DEF Next, ToDrive, Rclone, Process, Proceed, Finish

LEMMA OrderInvariant == Spec => []Order
<1>1. TypeOK => ControlTypes /\ FileTypes /\ PipeTypes /\ MessageTypes
  BY Types
<1>2. ControlTypes /\ FileTypes /\ PipeTypes /\ MessageTypes /\ Nested /\ Order /\ [Next]_vars
      => Order'
  BY PipeOrderStep, ShowOrderStep, DownloadOrderStep, UploadOrderStep DEF Order
<1> QED BY <1>1, <1>2, OrderInit, TransferTyped, TransferInvariant, PTL DEF Spec

\* What the worker shows of a stage never goes back, but for the last report of an
\* upload, and after rclone has started over: the messages are shown in the order
\* sent, and each sender counts up.
THEOREM ProgressInOrder == Spec => ShownInOrder
<1>1. PipeTypes /\ MessageTypes /\ Order /\ [Next]_vars
      => [shown' < shown => \/ proc' # proc
                            \/ proc = "upload" /\ (again > 0 \/ Head(progressCh.buf).last)]_vars
  <2> SUFFICES ASSUME PipeTypes, MessageTypes, Order, Next, shown' < shown
               PROVE  \/ proc' # proc
                      \/ proc = "upload" /\ (again > 0 \/ Head(progressCh.buf).last)
    BY DEF vars
  <2>a. shown \in Int
    BY DEF MessageTypes
  <2>1. CASE Show
    <3>1. shown' \in {shown, Buf[1].done} /\ Head(Buf) = Buf[1] /\ 1 \in 1..Len(Buf)
      BY <2>1, Taken
    <3>2. proc \in {"download", "upload"}
      BY <2>1 DEF Show
    <3>3. ~Counts(Buf[1])
      BY <2>a, <3>1 DEF Order, ShowOrder
    <3>4. again # 0 => again > 0
      BY TransferAssumption DEF PipeTypes, TransferAssumption
    <3> QED BY <3>1, <3>2, <3>3, <3>4 DEF Counts, Buf
  <2>2. CASE Begin \/ StartUpload
    BY <2>2 DEF Begin, StartUpload, Return
  <2>3. CASE DlSend \/ UpSend
    BY <2>a, <2>3 DEF DlSend, UpSend, DlStep, UpStep
  <2>4. ASSUME ~Show, ~DlSend, ~UpSend, ~Begin, ~StartUpload PROVE FALSE
    BY <2>a, <2>4, QuietSteps
  <2> QED BY <2>1, <2>2, <2>3, <2>4
<1>2. TypeOK => PipeTypes /\ MessageTypes
  BY Types
<1> QED BY <1>1, <1>2, OrderInvariant, TransferTyped, PTL DEF Spec, ShownInOrder
================================================================================
