----------------------------- MODULE UploadIntake ------------------------------
(* How a user's messages become tasks: IncomingFile and IncomingText          *)
(* (src/internal/handlers/upload.go) with the limit on the tasks of one user, *)
(* composed with the queue.  A handler counts the user's pending documents,   *)
(* replies, and only then calls Enqueue, which inserts one more.  The tasks   *)
(* are those of one user who is not the owner, whom nothing limits.           *)
EXTENDS TaskQueue

CONSTANT Limit   \* maxConcurrentPerUser

ASSUME IntakeAssumption == Limit \in Nat \ {0} /\ IsFiniteSet(Tasks)

VARIABLES
  intake,   \* per task: "new", "admitted" once counted, or "gone"
  extra     \* history: tasks the limit was not asked about in time: the count
            \* failed, another insert of the user came between their count and
            \* their insert, or they are back after an attempt failed

ivars == <<intake, extra>>

InProgress == Cardinality(Pending)
Admitted   == {t \in Tasks : intake[t] = "admitted" /\ handler[t] = "new"}

IntakeInit ==
  /\ Init
  /\ intake = [t \in Tasks |-> "new"] /\ extra = {}

Leave(t) == intake' = [intake EXCEPT ![t] = "gone"]

\* What keeps a message from the queue before the limit is looked at: the text is
\* taken by the login or a prompt, or is no link; there is no file in the message;
\* the user is not logged in.
TurnedAway(t) ==
  /\ phase = "running" /\ intake[t] = "new"
  /\ Leave(t)
  /\ UNCHANGED <<vars, extra>>

\* mutant: off by one
CheckLimitLate(t) ==
  /\ phase = "running" /\ intake[t] = "new"
  /\ IF InProgress > Limit THEN Leave(t)
                           ELSE intake' = [intake EXCEPT ![t] = "admitted"]
  /\ UNCHANGED <<vars, extra>>

\* mutant: only queued tasks are counted
CheckLimitQueued(t) ==
  /\ phase = "running" /\ intake[t] = "new"
  /\ IF Cardinality({u \in Tasks : status[u] = "queued"}) >= Limit
     THEN Leave(t) ELSE intake' = [intake EXCEPT ![t] = "admitted"]
  /\ UNCHANGED <<vars, extra>>

\* checkUserQueueLimit; a count that fails admits
CheckLimit(t) ==
  /\ phase = "running" /\ intake[t] = "new"
  /\ \/ /\ IF InProgress >= Limit THEN Leave(t)
                                  ELSE intake' = [intake EXCEPT ![t] = "admitted"]
        /\ UNCHANGED <<faults, extra>>
     \/ /\ faults < MaxDbFaults
        /\ faults' = faults + 1
        /\ intake' = [intake EXCEPT ![t] = "admitted"]
        /\ extra' = extra \cup {t}
  /\ UNCHANGED <<db, world, mgr, wk, crashes, resizes>>

\* without the message "Queued" to edit later there is no task
ReplyFails(t) ==
  /\ t \in Admitted
  /\ Leave(t)
  /\ UNCHANGED <<vars, extra>>

\* A step of the queue.  A crash takes the handlers on their way to it.
Queue ==
  /\ Next
  /\ \A t \in Tasks : handler'[t] # handler[t] /\ handler[t] = "new" => t \in Admitted
  /\ intake' = [t \in Tasks |-> IF t \in Admitted /\ (phase' = "down" \/ handler'[t] # "new")
                                THEN "gone" ELSE intake[t]]
  /\ extra' = extra
       \cup {t \in Tasks : status[t] = "failed" /\ status'[t] \in PendingStatus}
       \cup {t \in Admitted : /\ handler'[t] = "new"
                              /\ \E u \in Tasks : status[u] = "absent" /\ status'[u] = "queued"}

\* every message is handled and every job done
IntakeQuiescent ==
  /\ phase = "running" /\ pool = "run" /\ jobs = <<>>
  /\ \A t \in Tasks : intake[t] = "gone" /\ handler[t] \in {"new", "done"}
  /\ \A w \in Workers : pc[w] \in Parked
  /\ UNCHANGED <<vars, ivars>>

IntakeNext ==
  \/ \E t \in Tasks : TurnedAway(t) \/ CheckLimit(t) \/ ReplyFails(t)
  \/ Queue \/ IntakeQuiescent

IntakeSpec == IntakeInit /\ [][IntakeNext]_<<vars, ivars>>

IntakeFairSpec == IntakeSpec /\ Fairness

--------------------------------------------------------------------------------
\* upload.go:15, "limits how many tasks a non-owner can queue simultaneously": a
\* user has at most Limit tasks in progress, in every life of the process, but for
\* those let in while another one of his was on its way from its count to its
\* insert, those whose count failed, and those that had left the count between two
\* attempts and are back.
LimitHolds == Cardinality(Pending \ extra) <= Limit
================================================================================
