------------------------------ MODULE TaskLedger -------------------------------
(* What the queue promises of a task, whatever its goroutines do: MongoDB is  *)
(* a ledger only the live tasks' entries of which change, "completed" is for  *)
(* ever, and a task leaves the live ones with its entry settled, unless it is *)
(* known to be stranded; after a restart the live ones are those pending.     *)
CONSTANT Tasks

VARIABLES
  ledger,    \* per task: "absent", "pending", "failed" or "completed"
  live,      \* tasks the process works on or will
  stranded,  \* tasks whose entry may be stale until the next restart
  up         \* whether the process runs

lvars == <<ledger, live, stranded, up>>

Entry == {"pending", "failed", "completed"}

Outstanding == {t \in Tasks : ledger[t] = "pending"}

LedgerInit ==
  /\ ledger = [t \in Tasks |-> "absent"]
  /\ live = {} /\ stranded = {} /\ up = FALSE

\* A user's task is written to the ledger; when the acknowledgement is lost
\* nobody works on it before the next restart.
Submit(t) ==
  /\ up /\ ledger[t] = "absent"
  /\ ledger' = [ledger EXCEPT ![t] = "pending"]
  /\ \/ live' = live \cup {t} /\ UNCHANGED stranded
     \/ stranded' = stranded \cup {t} /\ UNCHANGED live
  /\ UNCHANGED up

\* Work on a live task changes its entry, or fails to, and may end there.
Work(t) ==
  /\ up /\ t \in live
  /\ \E e \in Entry :
       /\ ledger[t] = "completed" => e = "completed"
       /\ ledger' = [ledger EXCEPT ![t] = e]
  /\ stranded' \in {stranded \cup {t}, stranded \ {t}}
  /\ \/ UNCHANGED live
     \/ live' = live \ {t} /\ (ledger'[t] # "pending" \/ t \in stranded')
  /\ UNCHANGED up

\* The process ends and only the ledger stays.
End == up /\ up' = FALSE /\ live' = {} /\ stranded' = {} /\ UNCHANGED ledger

\* The next one makes every outstanding task live, or none when it cannot read
\* the ledger.
Recover ==
  /\ ~up /\ up' = TRUE
  /\ \/ live' = Outstanding /\ UNCHANGED stranded
     \/ stranded' = Outstanding /\ UNCHANGED live
  /\ UNCHANGED ledger

LedgerNext == (\E t \in Tasks : Submit(t) \/ Work(t)) \/ End \/ Recover

LedgerSpec == LedgerInit /\ [][LedgerNext]_lvars
================================================================================
