------------------------------ MODULE WorkerPool -------------------------------
(* Manager.Start, Stop and Resize (src/internal/queue/worker.go) as steps of  *)
(* concurrent callers: the dispatcher runs every /setworkers in a goroutine   *)
(* of its own, /shutdown calls Stop from another, and neither workerCancel    *)
(* nor the WaitGroup is protected by the mutex.  Jobs are only counted.       *)
EXTENDS Integers, FiniteSets

CONSTANTS
  Callers,    \* goroutines that may call Resize or Stop at the same time
  Workers,    \* slots for worker goroutines
  Sizes,      \* the pool sizes asked for
  NumJobs,    \* bound: jobs the workers get to process
  MaxCalls    \* bound: calls of Resize and Stop

ASSUME PoolAssumption ==
  /\ IsFiniteSet(Workers)
  /\ Sizes \subseteq Nat \ {0} /\ Sizes # {}
  /\ NumJobs \in Nat /\ MaxCalls \in Nat

VARIABLES
  contexts,      \* worker contexts created so far; the n-th is context n
  dead,          \* the canceled ones
  workerCancel,  \* the context the field workerCancel cancels
  counter,       \* workerWG: running workers
  waiters,       \* workerWG: callers asleep in Wait
  wpc,           \* worker slots: "none", "idle" (in the select) or "busy"
  wctx,          \* the context of the worker in each slot
  cpc,           \* callers: see the actions
  size,          \* the argument of a caller's Resize, 0 when it called Stop
  spawned,       \* workers the caller's Start has started
  mine,          \* the context the caller's Start made
  queued,        \* jobs not yet taken
  calls,
  overlapped     \* history: a call began while another one was on its way

pool    == <<contexts, dead, workerCancel>>
wg      == <<counter, waiters>>
workers == <<wpc, wctx>>
callers == <<cpc, size, spawned, mine>>
vars    == <<pool, wg, workers, callers, queued, calls, overlapped>>

--------------------------------------------------------------------------------
Live == {w \in Workers : wpc[w] # "none"}

\* bot.Run's own Start(n) is over
Init ==
  /\ contexts = 1 /\ dead = {} /\ workerCancel = 1
  /\ \E n \in Sizes :
       \E first \in {S \in SUBSET Workers : Cardinality(S) = n} :
         /\ wpc = [w \in Workers |-> IF w \in first THEN "idle" ELSE "none"]
         /\ counter = n
  /\ wctx = [w \in Workers |-> 1]
  /\ waiters = {}
  /\ cpc = [c \in Callers |-> "ready"]
  /\ size = [c \in Callers |-> 0]
  /\ spawned = [c \in Callers |-> 0]
  /\ mine = [c \in Callers |-> 0]
  /\ queued = NumJobs /\ calls = 0 /\ overlapped = FALSE

At(c, l)   == cpc[c] = l
Goto(c, l) == cpc' = [cpc EXCEPT ![c] = l]

--------------------------------------------------------------------------------
\* /setworkers n calls Resize(n); /shutdown calls Stop, here size 0
Call(c) ==
  /\ At(c, "ready") /\ calls < MaxCalls
  /\ \E n \in Sizes \cup {0} : size' = [size EXCEPT ![c] = n]
  /\ calls' = calls + 1
  /\ overlapped' = (overlapped \/ \E d \in Callers : ~At(d, "ready"))
  /\ Goto(c, "cancel")
  /\ UNCHANGED <<pool, wg, workers, spawned, mine, queued>>

\* m.workerCancel()
CancelWorkers(c) ==
  /\ At(c, "cancel")
  /\ dead' = dead \cup {workerCancel}
  /\ Goto(c, "wait")
  /\ UNCHANGED <<contexts, workerCancel, wg, workers, size, spawned, mine, queued,
                 calls, overlapped>>

Stopped(c) == IF size[c] = 0 THEN "ready" ELSE "start"

\* mutant: Stop does not wait
WaitNot(c) ==
  /\ At(c, "wait")
  /\ Goto(c, Stopped(c))
  /\ UNCHANGED <<pool, wg, workers, size, spawned, mine, queued, calls, overlapped>>

\* workerWG.Wait: return at once, or sleep until the counter is 0
Wait(c) ==
  /\ At(c, "wait")
  /\ IF counter = 0
     THEN Goto(c, Stopped(c)) /\ UNCHANGED waiters
     ELSE Goto(c, "asleep") /\ waiters' = waiters \cup {c}
  /\ UNCHANGED <<pool, counter, workers, size, spawned, mine, queued, calls, overlapped>>

\* Wait panics when the WaitGroup is in use again before it returns.  The
\* dispatcher recovers the panic and the command is over.
WakeUp(c) ==
  /\ At(c, "awake")
  /\ Goto(c, IF counter = 0 /\ waiters = {} THEN Stopped(c) ELSE "ready")
  /\ UNCHANGED <<pool, wg, workers, size, spawned, mine, queued, calls, overlapped>>

\* Start: a new context, and the field that cancels it
StartContext(c) ==
  /\ At(c, "start")
  /\ contexts' = contexts + 1
  /\ workerCancel' = contexts'
  /\ mine' = [mine EXCEPT ![c] = contexts']
  /\ spawned' = [spawned EXCEPT ![c] = 0]
  /\ Goto(c, "spawn")
  /\ UNCHANGED <<dead, wg, workers, size, queued, calls, overlapped>>

\* mutant: workerWG.Add is missing
SpawnUncounted(c) ==
  /\ At(c, "spawn") /\ spawned[c] < size[c]
  /\ \E w \in Workers :
       /\ wpc[w] = "none"
       /\ wpc' = [wpc EXCEPT ![w] = "idle"]
       /\ wctx' = [wctx EXCEPT ![w] = mine[c]]
  /\ spawned' = [spawned EXCEPT ![c] = @ + 1]
  /\ UNCHANGED <<pool, wg, cpc, size, mine, queued, calls, overlapped>>

\* one round of Start's loop
Spawn(c) ==
  /\ At(c, "spawn") /\ spawned[c] < size[c]
  /\ \E w \in Workers :
       /\ wpc[w] = "none"
       /\ wpc' = [wpc EXCEPT ![w] = "idle"]
       /\ wctx' = [wctx EXCEPT ![w] = mine[c]]
  /\ counter' = counter + 1
  /\ spawned' = [spawned EXCEPT ![c] = @ + 1]
  /\ UNCHANGED <<pool, waiters, cpc, size, mine, queued, calls, overlapped>>

Resized(c) ==
  /\ At(c, "spawn") /\ spawned[c] = size[c]
  /\ Goto(c, "ready")
  /\ UNCHANGED <<pool, wg, workers, size, spawned, mine, queued, calls, overlapped>>

Caller(c) == CancelWorkers(c) \/ Wait(c) \/ WakeUp(c) \/ StartContext(c) \/ Spawn(c)
             \/ Resized(c)

--------------------------------------------------------------------------------
TakeJob(w) ==
  /\ wpc[w] = "idle" /\ queued > 0
  /\ queued' = queued - 1
  /\ wpc' = [wpc EXCEPT ![w] = "busy"]
  /\ UNCHANGED <<pool, wg, wctx, callers, calls, overlapped>>

FinishJob(w) ==
  /\ wpc[w] = "busy"
  /\ wpc' = [wpc EXCEPT ![w] = "idle"]
  /\ UNCHANGED <<pool, wg, wctx, callers, queued, calls, overlapped>>

\* mutant: Done is deferred and called
ExitDoneTwice(w) ==
  /\ wpc[w] = "idle" /\ wctx[w] \in dead
  /\ wpc' = [wpc EXCEPT ![w] = "none"]
  /\ counter' = counter - 2
  /\ UNCHANGED <<pool, waiters, wctx, callers, queued, calls, overlapped>>

\* mutant: nobody is woken
ExitSilent(w) ==
  /\ wpc[w] = "idle" /\ wctx[w] \in dead
  /\ wpc' = [wpc EXCEPT ![w] = "none"]
  /\ counter' = counter - 1
  /\ UNCHANGED <<pool, waiters, wctx, callers, queued, calls, overlapped>>

\* ctx.Done: the worker returns, and the last one to do so wakes all waiters
Exit(w) ==
  /\ wpc[w] = "idle" /\ wctx[w] \in dead
  /\ wpc' = [wpc EXCEPT ![w] = "none"]
  /\ counter' = counter - 1
  /\ IF counter' = 0
     THEN /\ cpc' = [c \in Callers |-> IF c \in waiters THEN "awake" ELSE cpc[c]]
          /\ waiters' = {}
     ELSE UNCHANGED <<cpc, waiters>>
  /\ UNCHANGED <<pool, wctx, size, spawned, mine, queued, calls, overlapped>>

Worker(w) == TakeJob(w) \/ FinishJob(w) \/ Exit(w)

\* nothing to do but to wait for the next command
Rest ==
  /\ calls = MaxCalls /\ (queued = 0 \/ Live = {})
  /\ \A c \in Callers : At(c, "ready")
  /\ \A w \in Live : wpc[w] = "idle" /\ wctx[w] \notin dead
  /\ UNCHANGED vars

Next == (\E c \in Callers : Call(c) \/ Caller(c)) \/ (\E w \in Workers : Worker(w)) \/ Rest

Spec == Init /\ [][Next]_vars

\* A handler that began goes on, a worker that can run does, and every job ends.
Fairness == /\ \A c \in Callers : WF_vars(Caller(c))
            /\ \A w \in Workers : WF_vars(Worker(w))

--------------------------------------------------------------------------------
TypeOK ==
  /\ contexts \in 1..(1 + MaxCalls) /\ dead \subseteq 1..contexts
  /\ workerCancel \in 1..contexts
  /\ counter \in 0..Cardinality(Workers) /\ waiters \subseteq Callers
  /\ wpc \in [Workers -> {"none", "idle", "busy"}]
  /\ wctx \in [Workers -> 1..contexts]
  /\ cpc \in [Callers -> {"ready", "cancel", "wait", "asleep", "awake", "start", "spawn"}]
  /\ size \in [Callers -> Sizes \cup {0}]
  /\ spawned \in [Callers -> Nat] /\ mine \in [Callers -> 0..contexts]
  /\ queued \in 0..NumJobs /\ calls \in 0..MaxCalls
  /\ overlapped \in BOOLEAN

\* The WaitGroup counts the workers, and nobody sleeps on one that is zero: a
\* wake-up cannot be missed, whoever calls.
WaitGroupCounts ==
  /\ counter = Cardinality(Live)
  /\ waiters = {c \in Callers : At(c, "asleep")}
  /\ counter = 0 => waiters = {}

\* While the commands come one after the other:

\* No worker of an older pool runs beside a new one, and every worker can be
\* stopped: it runs under the context workerCancel cancels or under one that is
\* canceled.  A worker that cannot keeps every later Stop in workerWG.Wait.
OnePool ==
  ~overlapped => /\ \A v, w \in Live : wctx[v] = wctx[w]
                 /\ \A w \in Live : wctx[w] = workerCancel \/ wctx[w] \in dead

\* Under Fairness every command comes back, also one that waits for busy workers.
CallsReturn ==
  \A c \in Callers : At(c, "cancel") ~> (At(c, "ready") \/ overlapped)
================================================================================
