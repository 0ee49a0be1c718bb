----------------------------- MODULE QueueCleaner ------------------------------
(* The queue and what deletes files of the download directory beside it: the  *)
(* periodic Cleaner (src/internal/bot/cleaner.go), which lists the directory, *)
(* then asks MongoDB which tasks are active, then removes one file after the  *)
(* other, and /clean (src/internal/handlers/ownercommands.go), which removes  *)
(* the directory without asking.                                              *)
EXTENDS TaskQueue

CONSTANT MaxCleans   \* bound: calls of /clean

ASSUME CleanerAssumption == MaxCleans \in Nat

VARIABLES
  cpc,      \* the cleaner: "idle", "listed" or "removing"
  listing,  \* tasks whose file os.ReadDir returned and run has not yet handled
  active,   \* the task IDs activeTaskIDs returned
  cleans

cvars   == <<cpc, listing, active, cleans>>
allvars == <<vars, cvars>>

CleanerInit ==
  /\ Init
  /\ cpc = "idle" /\ listing = {} /\ active = {} /\ cleans = 0

\* A step of the queue; the cleaner's goroutine dies with the process.
Queue ==
  /\ Next
  /\ IF phase' = "down" THEN cpc' = "idle" /\ listing' = {} /\ active' = {}
                        ELSE UNCHANGED <<cpc, listing, active>>
  /\ UNCHANGED cleans

\* the ticker fired: os.ReadDir
ListDir ==
  /\ phase = "running" /\ cpc = "idle"
  /\ cpc' = "listed" /\ listing' = files
  /\ UNCHANGED <<vars, active, cleans>>

\* mutant: uploads are not active
QueryDownloading ==
  /\ cpc = "listed"
  /\ active' = {t \in Pending : status[t] = "downloading"}
  /\ cpc' = "removing"
  /\ UNCHANGED <<vars, listing, cleans>>

\* mutant: every task ever submitted is active
QueryAll ==
  /\ cpc = "listed"
  /\ active' = {t \in Tasks : status[t] # "absent"}
  /\ cpc' = "removing"
  /\ UNCHANGED <<vars, listing, cleans>>

\* activeTaskIDs: Pending without the queued ones, and the empty map when the
\* query fails
QueryActive ==
  /\ cpc = "listed"
  /\ \/ /\ active' = {t \in Pending : status[t] \in {"downloading", "uploading"}}
        /\ UNCHANGED faults
     \/ /\ faults < MaxDbFaults
        /\ faults' = faults + 1
        /\ active' = {}
  /\ cpc' = "removing"
  /\ UNCHANGED <<db, world, mgr, wk, crashes, resizes, listing, cleans>>

\* one round of the loop over the entries
CheckEntry(t) ==
  /\ cpc = "removing" /\ t \in listing
  /\ listing' = listing \ {t}
  /\ files' = IF t \in active THEN files ELSE files \ {t}
  /\ UNCHANGED <<db, uploaded, mgr, wk, crashes, resizes, faults, cpc, active, cleans>>

CleanDone ==
  /\ cpc = "removing" /\ listing = {}
  /\ cpc' = "idle" /\ active' = {}
  /\ UNCHANGED <<vars, listing, cleans>>

\* /clean: os.RemoveAll, which may stop at an error
Clean ==
  /\ phase = "running" /\ cleans < MaxCleans
  /\ cleans' = cleans + 1
  /\ files' \in SUBSET files
  /\ UNCHANGED <<db, uploaded, mgr, wk, crashes, resizes, faults, cpc, listing, active>>

CleanerStep == QueryActive \/ (\E t \in Tasks : CheckEntry(t)) \/ CleanDone

CleanerNext == Queue \/ ListDir \/ CleanerStep \/ Clean

CleanerSpec == CleanerInit /\ [][CleanerNext]_allvars

\* The process is started again and Resume's loop goes on; the ticker fires
\* again and again, and a round the cleaner began goes on.
CleanerFairSpec ==
  /\ CleanerSpec
  /\ WF_allvars(Queue /\ (Start \/ ResumeDone \/ \E t \in Tasks : ResumePush(t)))
  /\ WF_allvars(ListDir) /\ WF_allvars(CleanerStep)

--------------------------------------------------------------------------------
\* cleaner.go:17: "It only removes files whose associated tasks are in a
\* terminal state ... so in-progress downloads are never interrupted": a round
\* of the cleaner never takes the file of a first attempt that still uses it.
\* (A later attempt makes a file of the same name as the one listed for removal.)
CleanerSparesActive ==
  [][\A t \in Tasks : CheckEntry(t) /\ t \in files \ files' =>
       ~\E w \in Workers :
           /\ job[w] = t /\ attempt[w] = 1
           /\ pc[w] \in {"streaming", "downloaded", "uploading", "sending"}]_allvars

\* The file a crash left behind goes, once its task is settled: the removal that
\* never ran (processor.go:51) is made up for.
GarbageIsRemoved ==
  \A t \in Tasks :
    (t \in files /\ status[t] \in TerminalStatus /\ t \notin Owned)
      ~> (t \notin files)
================================================================================
