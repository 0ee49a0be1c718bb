----------------------------- MODULE SettingsProofs ----------------------------
(* Proofs about Settings and the WorkerPool it resizes, for every finite set  *)
(* of workers, every set of callers and sizes, and every number of commands,  *)
(* jobs, faults and restarts.                                                 *)
EXTENDS Settings, FiniteSetTheorems, TLAPS

--------------------------------------------------------------------------------
(* The pool.                                                                  *)

\* the parts of TypeOK the proofs need: no bound on the number of contexts
PoolTypes ==
  /\ contexts \in Nat \ {0} /\ dead \subseteq 1..contexts /\ workerCancel \in 1..contexts
  /\ wpc \in [Workers -> {"none", "idle", "busy"}] /\ wctx \in [Workers -> Nat]
  /\ cpc \in [Callers -> {"ready", "cancel", "wait", "asleep", "awake", "start", "spawn"}]
  /\ size \in [Callers -> Nat] /\ spawned \in [Callers -> Nat] /\ mine \in [Callers -> Nat]

\* What a step does to the pool.
LEMMA PoolPart ==
  ASSUME [SettingsNext]_allvars
  PROVE  \/ \E c \in Callers : Call(c) \/ Caller(c)
         \/ \E w \in Workers : Worker(w)
         \/ Restart \/ UNCHANGED vars
  BY DEF SettingsNext, Command, Find, InsertSeed, Replace, Shutdown, ReadSettings, Pool,
     SettingsRest, allvars

LEMMA PoolTypesInit == SettingsInit => PoolTypes
<1> SUFFICES ASSUME SettingsInit PROVE PoolTypes
  OBVIOUS
<1>1. PICK first \in SUBSET Workers : wpc = [w \in Workers |-> IF w \in first THEN "idle" ELSE "none"]
  BY DEF SettingsInit, Init
<1> QED BY <1>1 DEF SettingsInit, Init, PoolTypes

LEMMA PoolTypesStep == PoolTypes /\ [SettingsNext]_allvars => PoolTypes'
<1> SUFFICES ASSUME PoolTypes, [SettingsNext]_allvars PROVE PoolTypes'
  OBVIOUS
<1> USE DEF PoolTypes
<1>1. ASSUME NEW c \in Callers, Call(c) \/ Caller(c)
      PROVE  PoolTypes'
  <2> USE DEF At, Goto, pool, wg, workers
  <2>1. CASE Call(c)
    BY <2>1, PoolAssumption DEF PoolAssumption, Call
  <2>2. CASE CancelWorkers(c)
    BY <2>2 DEF CancelWorkers
  <2>3. CASE Wait(c) \/ WakeUp(c)
    BY <2>3 DEF Wait, WakeUp, Stopped
  <2>4. CASE StartContext(c)
    BY <2>4 DEF StartContext
  <2>5. CASE Spawn(c)
    BY <2>5 DEF Spawn
  <2>6. CASE Resized(c)
    BY <2>6 DEF Resized
  <2> QED BY <1>1, <2>1, <2>2, <2>3, <2>4, <2>5, <2>6 DEF Caller
<1>2. ASSUME NEW w \in Workers, Worker(w)
      PROVE  PoolTypes'
  BY <1>2 DEF Worker, TakeJob, FinishJob, Exit, pool, wg, callers
<1>3. CASE Restart
  <2>1. PICK first \in SUBSET Workers :
          wpc' = [w \in Workers |-> IF w \in first THEN "idle" ELSE "none"]
    BY <1>3 DEF Restart
  <2> QED BY <1>3, <2>1 DEF Restart
<1>4. CASE UNCHANGED vars
  BY <1>4 DEF vars, pool, workers, callers
<1> QED BY <1>1, <1>2, <1>3, <1>4, PoolPart

LEMMA LiveIsFinite ==
  ASSUME PoolTypes
  PROVE  /\ IsFiniteSet(Live) /\ Cardinality(Live) \in Nat
         /\ Cardinality(Live) = 0 <=> Live = {}
  BY PoolAssumption, FS_Subset, FS_CardinalityType, FS_EmptySet DEF PoolAssumption, Live

\* A pool just started has as many workers as it was asked for.
LEMMA FreshPool ==
  ASSUME NEW first \in SUBSET Workers, NEW p,
         p = [w \in Workers |-> IF w \in first THEN "idle" ELSE "none"]
  PROVE  {w \in Workers : p[w] # "none"} = first
  OBVIOUS

LEMMA WaitGroupInit == SettingsInit => WaitGroupCounts
<1> SUFFICES ASSUME SettingsInit PROVE WaitGroupCounts
  OBVIOUS
<1>1. PICK first \in SUBSET Workers :
        /\ Cardinality(first) = counter
        /\ wpc = [w \in Workers |-> IF w \in first THEN "idle" ELSE "none"]
  BY DEF SettingsInit, Init
<1>2. Live = first
  BY <1>1, FreshPool DEF Live
<1> QED BY <1>1, <1>2 DEF SettingsInit, Init, WaitGroupCounts, At

\* The WaitGroup is right whatever the callers do, and when.
LEMMA WaitGroupStep == PoolTypes /\ WaitGroupCounts /\ [SettingsNext]_allvars => WaitGroupCounts'
<1> SUFFICES ASSUME PoolTypes, WaitGroupCounts, [SettingsNext]_allvars PROVE WaitGroupCounts'
  OBVIOUS
<1>a. IsFiniteSet(Live) /\ counter \in Nat /\ cpc \in [Callers -> {"ready", "cancel", "wait",
        "asleep", "awake", "start", "spawn"}] /\ wpc \in [Workers -> {"none", "idle", "busy"}]
  BY LiveIsFinite DEF WaitGroupCounts, PoolTypes
<1> USE DEF WaitGroupCounts, At, Goto
<1>1. ASSUME NEW c \in Callers, Call(c) \/ CancelWorkers(c) \/ WakeUp(c) \/ StartContext(c)
                                \/ Resized(c)
      PROVE  WaitGroupCounts'
  <2>1. /\ UNCHANGED <<counter, waiters, wpc>> /\ cpc[c] # "asleep"
        /\ \E l : l # "asleep" /\ cpc' = [cpc EXCEPT ![c] = l]
    BY <1>1 DEF Call, CancelWorkers, WakeUp, StartContext, Resized, Stopped, wg, workers
  <2> QED BY <1>a, <2>1 DEF Live
<1>2. ASSUME NEW c \in Callers, Wait(c)
      PROVE  WaitGroupCounts'
  <2>1. UNCHANGED <<counter, Live>> /\ cpc[c] = "wait"
    BY <1>2 DEF Wait, workers, Live
  <2>2. CASE counter = 0
    BY <1>a, <1>2, <2>1, <2>2 DEF Wait, Stopped
  <2>3. CASE counter # 0
    BY <1>a, <1>2, <2>1, <2>3 DEF Wait
  <2> QED BY <2>2, <2>3
<1>3. ASSUME NEW c \in Callers, Spawn(c)
      PROVE  WaitGroupCounts'
  <2>1. PICK w \in Workers : wpc[w] = "none" /\ wpc' = [wpc EXCEPT ![w] = "idle"]
    BY <1>3 DEF Spawn
  <2>2. Live' = Live \cup {w} /\ w \notin Live
    BY <1>a, <2>1 DEF Live
  <2>3. Cardinality(Live') = Cardinality(Live) + 1
    BY <1>a, <2>2, FS_AddElement
  <2> QED BY <1>a, <1>3, <2>3 DEF Spawn
<1>4. ASSUME NEW w \in Workers, TakeJob(w) \/ FinishJob(w)
      PROVE  WaitGroupCounts'
  <2>1. Live' = Live /\ UNCHANGED <<counter, waiters, cpc>>
    BY <1>a, <1>4 DEF TakeJob, FinishJob, Live, wg, callers
  <2> QED BY <2>1
<1>5. ASSUME NEW w \in Workers, Exit(w)
      PROVE  WaitGroupCounts'
  <2>1. Live' = Live \ {w} /\ w \in Live
    BY <1>a, <1>5 DEF Exit, Live
  <2>2. Cardinality(Live') = Cardinality(Live) - 1
    BY <1>a, <2>1, FS_RemoveElement
  <2>3. counter' = Cardinality(Live')
    BY <1>5, <2>2 DEF Exit
  <2>4. CASE counter' = 0
    BY <1>a, <1>5, <2>3, <2>4 DEF Exit
  <2>5. CASE counter' # 0
    BY <1>5, <2>3, <2>5 DEF Exit
  <2> QED BY <2>4, <2>5
<1>6. CASE Restart
  <2>1. PICK n \in Sizes, first \in SUBSET Workers :
          /\ counter' = n /\ Cardinality(first) = n
          /\ wpc' = [w \in Workers |-> IF w \in first THEN "idle" ELSE "none"]
    BY <1>6 DEF Restart
  <2>2. Live' = first
    BY <2>1, FreshPool DEF Live
  <2> QED BY <1>6, <2>1, <2>2 DEF Restart
<1>7. CASE UNCHANGED vars
  BY <1>7 DEF vars, wg, workers, callers, Live
<1> QED BY <1>1, <1>2, <1>3, <1>4, <1>5, <1>6, <1>7, PoolPart DEF Caller, Worker

LEMMA PoolTypesInvariant == SettingsFairSpec => []PoolTypes
  BY PoolTypesInit, PoolTypesStep, PTL DEF SettingsFairSpec

\* Whatever calls overlap, the WaitGroup counts the workers, and nobody sleeps on
\* one that is zero.
THEOREM WaitGroupIsRight == SettingsFairSpec => []WaitGroupCounts
  BY WaitGroupInit, WaitGroupStep, PoolTypesInvariant, PTL DEF SettingsFairSpec

--------------------------------------------------------------------------------
(* Calls that do not overlap.                                                 *)

\* OnePool and what makes it inductive: one call at a time; it creates the new
\* context only when the old pool is gone, and starts workers only under the one
\* that workerCancel cancels.
OneCall ==
  /\ \A c, d \in Callers : cpc[c] # "ready" /\ cpc[d] # "ready" => c = d
  /\ \A v, w \in Live : wctx[v] = wctx[w]
  /\ \A w \in Live : wctx[w] = workerCancel \/ wctx[w] \in dead
  /\ \A c \in Callers :
       /\ cpc[c] = "start" => Live = {}
       /\ cpc[c] = "spawn" => mine[c] = workerCancel /\ \A w \in Live : wctx[w] = mine[c]

OneCallInv == ~overlapped => OneCall

LEMMA OneCallInit == SettingsInit => OneCallInv
<1> SUFFICES ASSUME SettingsInit PROVE OneCall
  BY DEF OneCallInv
<1> QED BY DEF SettingsInit, Init, OneCall, Live

\* Nobody gets past workerWG.Wait while a worker runs.
LEMMA StartAfterWait ==
  ASSUME PoolTypes, WaitGroupCounts, NEW c \in Callers, Wait(c) \/ WakeUp(c), cpc'[c] = "start"
  PROVE  Live = {}
<1>1. counter = 0
  BY DEF Wait, WakeUp, Goto, At, PoolTypes
<1> QED BY <1>1, LiveIsFinite DEF WaitGroupCounts

LEMMA OneCallStep ==
  PoolTypes /\ WaitGroupCounts /\ OneCallInv /\ [SettingsNext]_allvars => OneCallInv'
<1> SUFFICES ASSUME PoolTypes, WaitGroupCounts, OneCallInv, [SettingsNext]_allvars, ~overlapped'
             PROVE  OneCall'
  BY DEF OneCallInv
<1>a. /\ wpc \in [Workers -> {"none", "idle", "busy"}] /\ wctx \in [Workers -> Nat]
      /\ cpc \in [Callers -> {"ready", "cancel", "wait", "asleep", "awake", "start", "spawn"}]
      /\ mine \in [Callers -> Nat]
  BY DEF PoolTypes
<1> USE DEF At, Goto
<1>1. ASSUME NEW c \in Callers, Call(c)
      PROVE  OneCall'
  <2>1. ~overlapped /\ \A d \in Callers : cpc[d] = "ready"
    BY <1>1 DEF Call
  <2>2. OneCall
    BY <2>1 DEF OneCallInv
  <2> QED BY <1>a, <1>1, <2>1, <2>2 DEF Call, OneCall, Live, pool, workers
<1>2. ASSUME NEW c \in Callers, Caller(c)
      PROVE  OneCall'
  <2>1. OneCall
    BY <1>2 DEF Caller, CancelWorkers, Wait, WakeUp, StartContext, Spawn, Resized, OneCallInv
  <2>2. CASE CancelWorkers(c)
    BY <1>a, <2>1, <2>2 DEF CancelWorkers, OneCall, Live, workers
  <2>3. CASE Wait(c) \/ WakeUp(c)
    <3>1. /\ UNCHANGED <<Live, wctx, workerCancel, dead, mine>> /\ cpc[c] # "ready"
          /\ \E l : l # "spawn" /\ cpc' = [cpc EXCEPT ![c] = l]
      BY <2>3 DEF Wait, WakeUp, Stopped, Live, pool, workers
    <3>2. cpc'[c] = "start" => Live = {}
      BY <2>3, StartAfterWait
    <3> QED BY <1>a, <2>1, <3>1, <3>2 DEF OneCall
  <2>4. CASE StartContext(c)
    <3>1. Live = {} /\ Live' = Live
      BY <2>1, <2>4 DEF StartContext, OneCall, Live, workers
    <3> QED BY <1>a, <2>1, <2>4, <3>1 DEF StartContext, OneCall
  <2>5. CASE Spawn(c)
    <3>1. PICK w \in Workers : /\ wpc[w] = "none"
                               /\ wpc' = [wpc EXCEPT ![w] = "idle"]
                               /\ wctx' = [wctx EXCEPT ![w] = mine[c]]
      BY <2>5 DEF Spawn
    <3>2. /\ Live' = Live \cup {w} /\ w \notin Live
          /\ wctx'[w] = mine[c] /\ \A v \in Live : wctx'[v] = wctx[v]
      BY <1>a, <3>1 DEF Live
    <3>3. UNCHANGED <<dead, workerCancel, cpc, mine>> /\ cpc[c] = "spawn"
      BY <2>5 DEF Spawn, pool
    <3> QED BY <2>1, <3>2, <3>3 DEF OneCall
  <2>6. CASE Resized(c)
    BY <1>a, <2>1, <2>6 DEF Resized, OneCall, Live, pool, workers
  <2> QED BY <1>2, <2>2, <2>3, <2>4, <2>5, <2>6 DEF Caller
<1>3. ASSUME NEW w \in Workers, Worker(w)
      PROVE  OneCall'
  <2>1. OneCall /\ Live' \subseteq Live /\ UNCHANGED <<wctx, workerCancel, dead, mine>>
    BY <1>a, <1>3 DEF Worker, TakeJob, FinishJob, Exit, OneCallInv, Live, pool, callers
  <2>2. \A c \in Callers : /\ cpc'[c] = cpc[c] \/ cpc[c] # "ready"
                           /\ cpc'[c] \in {"start", "spawn"} => cpc'[c] = cpc[c]
    <3>1. CASE cpc' = cpc
      BY <3>1
    <3>2. CASE cpc' = [c \in Callers |-> IF c \in waiters THEN "awake" ELSE cpc[c]]
      BY <3>2 DEF WaitGroupCounts
    <3> QED BY <1>3, <3>1, <3>2 DEF Worker, TakeJob, FinishJob, Exit, callers
  <2> QED BY <2>1, <2>2 DEF OneCall
<1>4. CASE Restart
  BY <1>4 DEF Restart, OneCall, Live
<1>5. CASE UNCHANGED vars
  BY <1>5 DEF vars, pool, workers, callers, OneCallInv, OneCall, Live
<1> QED BY <1>1, <1>2, <1>3, <1>4, <1>5, PoolPart

\* While commands do not overlap, no old worker runs beside a new one, and every
\* worker can be stopped.
THEOREM OnePoolAtATime == SettingsFairSpec => []OnePool
<1>1. OneCallInv => OnePool
  BY DEF OneCallInv, OneCall, OnePool
<1> QED BY <1>1, OneCallInit, OneCallStep, PoolTypesInvariant, WaitGroupIsRight, PTL
        DEF SettingsFairSpec

--------------------------------------------------------------------------------
(* The document.                                                              *)

LEMMA UpdatesKeptStep == UpdatesKept /\ [SettingsNext]_allvars => UpdatesKept'
<1> SUFFICES ASSUME UpdatesKept, [SettingsNext]_allvars, ~clobbered' PROVE stored' = asked'
  BY DEF UpdatesKept
<1> USE DEF UpdatesKept
<1>1. ASSUME NEW c \in Callers, Command(c) \/ Find(c) \/ InsertSeed(c) \/ Shutdown(c)
      PROVE  stored' = asked'
  BY <1>1 DEF Command, Find, InsertSeed, Shutdown
<1>2. ASSUME NEW c \in Callers, Replace(c)
      PROVE  stored' = asked'
  <2>1. CASE UNCHANGED <<stored, asked, clobbered>>
    BY <2>1
  <2>2. CASE /\ stored' = Mutated(copy[c], cmd[c]) /\ asked' = Mutated(asked, cmd[c])
             /\ clobbered' = (clobbered \/ stored # copy[c])
    BY <2>2
  <2> QED BY <1>2, <2>1, <2>2 DEF Replace
<1>3. CASE ReadSettings \/ Restart \/ Pool \/ SettingsRest \/ UNCHANGED allvars
  BY <1>3 DEF ReadSettings, Restart, Pool, SettingsRest, svars, allvars
<1> QED BY <1>1, <1>2, <1>3 DEF SettingsNext

\* Every command changes its own field and no other, across faults and restarts,
\* unless one wrote between another's read and write.
THEOREM NoUpdateIsLost == SettingsFairSpec => []UpdatesKept
<1>1. SettingsInit => UpdatesKept
  BY DEF SettingsInit, UpdatesKept
<1> QED BY <1>1, UpdatesKeptStep, PTL DEF SettingsFairSpec

\* the parts of SettingsTypeOK the proof needs
DocumentTypes ==
  /\ stored \in Document \cup {Absent}
  /\ spc \in [Callers -> {"ready", "find", "seed", "write", "exiting"}]
  /\ cmd \in [Callers -> Arguments \cup {Absent}]
  /\ copy \in [Callers -> Document \cup {Absent}]
  /\ \A c \in Callers : /\ spc[c] \in {"find", "seed", "write"} => cmd[c] \in Arguments
                        /\ spc[c] = "write" => copy[c] \in Document

LEMMA SeedIsDocument == \A n \in Sizes : Seed(n) \in Document /\ Seed(n).workers = n
  BY DEF Seed, Document

\* What a command makes of a document.
LEMMA MutatedIsDocument ==
  ASSUME NEW doc \in Document, NEW a \in Arguments
  PROVE  /\ Mutated(doc, a) \in Document
         /\ a[1] = "workers" => a[2] \in Sizes /\ Mutated(doc, a).workers = a[2]
         /\ a[1] # "workers" => Mutated(doc, a).workers = doc.workers
  BY DEF Mutated, Document, Arguments

LEMMA DocumentTypesInit == SettingsInit => DocumentTypes
  BY SettingsAssumption, SeedIsDocument DEF SettingsAssumption, SettingsInit, DocumentTypes

LEMMA DocumentTypesStep == DocumentTypes /\ [SettingsNext]_allvars => DocumentTypes'
<1> SUFFICES ASSUME DocumentTypes, [SettingsNext]_allvars PROVE DocumentTypes'
  OBVIOUS
<1> USE DEF DocumentTypes, SGoto, Abort
<1>1. ASSUME NEW c \in Callers, Command(c)
      PROVE  DocumentTypes'
  <2>1. PICK a \in Arguments : cmd' = [cmd EXCEPT ![c] = a]
    BY <1>1 DEF Command
  <2> QED BY <1>1, <2>1 DEF Command
<1>2. ASSUME NEW c \in Callers, Find(c)
      PROVE  DocumentTypes'
  BY <1>2 DEF Find
<1>3. ASSUME NEW c \in Callers, InsertSeed(c)
      PROVE  DocumentTypes'
  BY <1>3, SettingsAssumption, SeedIsDocument DEF SettingsAssumption, InsertSeed
<1>4. ASSUME NEW c \in Callers, Replace(c)
      PROVE  DocumentTypes'
  <2>1. stored' = stored \/ stored' = Mutated(copy[c], cmd[c])
    BY <1>4 DEF Replace
  <2>2. stored' \in Document \cup {Absent}
    BY <1>4, <2>1, MutatedIsDocument DEF Replace
  <2> QED BY <1>4, <2>2 DEF Replace
<1>5. ASSUME NEW c \in Callers, Shutdown(c)
      PROVE  DocumentTypes'
  BY <1>5 DEF Shutdown
<1>6. CASE ReadSettings \/ Restart
  BY <1>6, SettingsAssumption, SeedIsDocument DEF SettingsAssumption, ReadSettings, Restart, scallers
<1>7. CASE Pool \/ SettingsRest \/ UNCHANGED allvars
  BY <1>7 DEF Pool, SettingsRest, svars, allvars, scallers
<1> QED BY <1>1, <1>2, <1>3, <1>4, <1>5, <1>6, <1>7 DEF SettingsNext

LEMMA DocumentTypesInvariant == SettingsFairSpec => []DocumentTypes
  BY DocumentTypesInit, DocumentTypesStep, PTL DEF SettingsFairSpec

--------------------------------------------------------------------------------
(* The pool and the document.                                                 *)

Settled(c) == cpc[c] = "ready" /\ spc[c] # "exiting"

\* PoolMatchesSettings and what makes it inductive: one command at a time writes
\* from a fresh copy, resizes to the number it wrote, and starts to count from an
\* empty pool.
Matching ==
  /\ ~overlapped /\ stored \in Document
  /\ \A c, d \in Callers : ~Idle(c) /\ ~Idle(d) => c = d
  /\ \A c \in Callers :
       /\ spc[c] # "seed"
       /\ spc[c] \in {"find", "write"} => cpc[c] = "ready"
       /\ spc[c] = "write" => copy[c] = stored
       /\ ~Settled(c) => spc[c] = "exiting" \/ size[c] = stored.workers
       /\ cpc[c] \in {"awake", "start"} => counter = 0
       /\ cpc[c] = "spawn" => counter = spawned[c] /\ mine[c] \notin dead
  /\ (\A c \in Callers : Settled(c)) =>
       counter = stored.workers /\ \A w \in Live : wctx[w] \notin dead

MatchInv == ~mixed => Matching

LEMMA MatchInit == SettingsInit => MatchInv
<1> SUFFICES ASSUME SettingsInit, ~mixed PROVE Matching
  BY DEF MatchInv
<1> QED BY SettingsAssumption, SeedIsDocument
        DEF SettingsAssumption, SettingsInit, Init, Matching, Settled, Idle, At

\* A command begins: it is the only one.
LEMMA MatchCommand ==
  ASSUME PoolTypes, DocumentTypes, MatchInv, ~mixed', NEW c \in Callers, Command(c) \/ Shutdown(c)
  PROVE  Matching'
<1>1. ~mixed /\ Quiet /\ Matching
  BY DEF Command, Shutdown, MatchInv
<1>2. \A d \in Callers : cpc[d] = "ready" /\ spc[d] = "ready"
  BY <1>1 DEF Quiet, Idle, At
<1>3. CASE Command(c)
  <2>1. /\ UNCHANGED <<stored, copy, overlapped, cpc, size, counter, spawned, mine, dead, wctx, wpc>>
        /\ spc' = [spc EXCEPT ![c] = "find"]
    BY <1>3 DEF Command, SGoto, vars, pool, wg, workers, callers
  <2> QED BY <1>1, <1>2, <2>1 DEF Matching, Settled, Idle, At, Live, DocumentTypes
<1>4. CASE Shutdown(c)
  <2>1. UNCHANGED <<stored, copy>> /\ spc' = [spc EXCEPT ![c] = "exiting"]
        /\ cpc' = [cpc EXCEPT ![c] = "cancel"] /\ ~overlapped'
    BY <1>1, <1>2, <1>4 DEF Shutdown, SGoto, Call, Goto, At, Matching
  <2> QED BY <1>1, <1>2, <2>1 DEF Matching, Settled, Idle, At, DocumentTypes, PoolTypes
<1> QED BY <1>3, <1>4

\* It reads, writes what it has read with its own change, and calls Resize.
LEMMA MatchWrite ==
  ASSUME PoolTypes, DocumentTypes, MatchInv, ~mixed', NEW c \in Callers,
         Find(c) \/ InsertSeed(c) \/ Replace(c)
  PROVE  Matching'
<1> USE DEF SGoto, Abort
<1>1. ~mixed /\ Matching
  <2>1. CASE Find(c) \/ InsertSeed(c)
    BY <2>1 DEF Find, InsertSeed, MatchInv
  <2>2. CASE Replace(c)
    <3>1. CASE mixed' = mixed
      BY <3>1 DEF MatchInv
    <3>2. CASE mixed' = (mixed \/ cmd[c][1] = "workers")
      BY <3>2 DEF MatchInv
    <3> QED BY <2>2, <3>1, <3>2 DEF Replace
  <2> QED BY <2>1, <2>2
<1>2. /\ ~Idle(c) /\ cpc[c] = "ready" /\ spc[c] \in {"find", "write"}
      /\ \A d \in Callers : d # c => Idle(d)
  BY <1>1 DEF Find, InsertSeed, Replace, Matching, Idle
<1>3. /\ \A d \in Callers : Settled(d) /\ cpc[d] = "ready" /\ (d # c => spc[d] = "ready")
      /\ counter = stored.workers /\ \A w \in Live : wctx[w] \notin dead
  BY <1>1, <1>2 DEF Matching, Settled, Idle, At
<1>4. CASE Find(c)
  <2>1. UNCHANGED <<stored, overlapped, cpc, size, counter, spawned, mine, dead, wctx, Live>>
    BY <1>4 DEF Find, vars, pool, wg, workers, callers, Live
  <2>2. \/ /\ spc' = [spc EXCEPT ![c] = "write"] /\ copy' = [copy EXCEPT ![c] = stored]
        \/ spc' = [spc EXCEPT ![c] = "ready"]
    BY <1>1, <1>4, AbsentAssumption DEF Find, Matching
  <2> QED BY <1>1, <1>3, <2>1, <2>2 DEF Matching, Settled, Idle, At, DocumentTypes
<1>5. CASE Replace(c)
  <2>1. spc' = [spc EXCEPT ![c] = "ready"]
    BY <1>5 DEF Replace
  <2>2. spc[c] = "write" /\ copy[c] = stored /\ stored \in Document /\ cmd[c] \in Arguments
    BY <1>1, <1>5 DEF Replace, Matching, DocumentTypes
  <2>3. CASE UNCHANGED vars
    <3>1. UNCHANGED <<overlapped, cpc, size, counter, spawned, mine, dead, wctx, Live>>
      BY <2>3 DEF vars, pool, wg, workers, callers, Live
    <3>2. \/ stored' = stored
          \/ stored' = Mutated(copy[c], cmd[c]) /\ cmd[c][1] # "workers"
      <4>1. CASE cmd[c][1] # "workers"
        BY <1>5, <4>1 DEF Replace
      <4>2. CASE cmd[c][1] = "workers"
        <5>1. ~Call(c)
          BY <2>3, <1>3 DEF Call, At, Goto, vars, callers, PoolTypes
        <5> QED BY <1>5, <4>2, <5>1 DEF Replace
      <4> QED BY <4>1, <4>2
    <3>3. stored' \in Document /\ stored'.workers = stored.workers
      BY <2>2, <3>2, MutatedIsDocument
    <3> QED BY <1>1, <1>3, <2>1, <3>1, <3>3 DEF Matching, Settled, Idle, At, DocumentTypes
  <2>4. CASE /\ cmd[c][1] = "workers" /\ stored' = Mutated(copy[c], cmd[c])
             /\ Call(c) /\ size'[c] = cmd[c][2]
    <3>1. stored' \in Document /\ stored'.workers = size'[c]
      BY <2>2, <2>4, MutatedIsDocument
    <3>2. cpc' = [cpc EXCEPT ![c] = "cancel"] /\ ~overlapped'
      BY <1>1, <1>3, <2>4 DEF Call, Goto, At, Matching
    <3> QED BY <1>1, <1>3, <2>1, <3>1, <3>2 DEF Matching, Settled, Idle, At, DocumentTypes, PoolTypes
  <2> QED BY <1>5, <2>3, <2>4 DEF Replace
<1> QED BY <1>1, <1>4, <1>5 DEF InsertSeed, Matching

\* A step of the pool: of the one call there is, or of a worker.
LEMMA MatchPool ==
  ASSUME PoolTypes, WaitGroupCounts, OneCallInv, DocumentTypes, MatchInv, ~mixed', Pool
  PROVE  Matching'
<1> USE DEF At, Goto
<1>1. /\ Matching /\ OneCall /\ UNCHANGED <<stored, spc, copy>>
  BY DEF Pool, svars, scallers, MatchInv, OneCallInv, Matching
<1>2. ASSUME NEW c \in Callers, Caller(c)
      PROVE  Matching'
  <2>1. /\ cpc[c] # "ready" /\ spc[c] \notin {"find", "seed", "write"} /\ ~Settled(c)
        /\ \A d \in Callers : d # c => cpc[d] = "ready" /\ spc[d] = "ready"
        /\ spc[c] = "exiting" \/ size[c] = stored.workers
    BY <1>1, <1>2 DEF Caller, CancelWorkers, Wait, WakeUp, StartContext, Spawn, Resized, Matching,
       Settled, Idle
  <2>2. stored.workers # 0
    BY <1>1, PoolAssumption DEF PoolAssumption, Matching, Document
  <2>3. cpc[c] = "awake" => counter = 0 /\ waiters = {}
    BY <1>1, <2>1 DEF Matching, WaitGroupCounts
  <2>4. UNCHANGED <<size, overlapped>>
    BY <1>2 DEF Caller, CancelWorkers, Wait, WakeUp, StartContext, Spawn, Resized, callers
  <2>5. PICK l : cpc' = [cpc EXCEPT ![c] = l]
    <3>1. CASE Spawn(c)
      BY <3>1 DEF Spawn, PoolTypes
    <3> QED BY <1>2, <3>1 DEF Caller, CancelWorkers, Wait, WakeUp, StartContext, Resized
  <2>6. /\ cpc'[c] = l /\ \A d \in Callers : d # c => cpc'[d] = "ready"
    BY <2>1, <2>5 DEF PoolTypes
  <2>7. /\ l \in {"awake", "start"} => counter' = 0
        /\ l = "spawn" => counter' = spawned'[c] /\ mine'[c] \notin dead'
        /\ l = "ready" /\ spc[c] # "exiting" =>
             counter' = stored.workers /\ \A w \in Live' : wctx'[w] \notin dead'
    <3>1. CASE CancelWorkers(c)
      BY <2>6, <3>1 DEF CancelWorkers, PoolTypes
    <3>2. CASE Wait(c)
      BY <1>1, <2>2, <2>1, <2>6, <3>2 DEF Wait, Stopped, PoolTypes
    <3>3. CASE WakeUp(c)
      BY <1>1, <2>2, <2>1, <2>6, <2>3, <3>3 DEF WakeUp, Stopped, PoolTypes, wg
    <3>4. CASE StartContext(c)
      BY <1>1, <2>6, <3>4 DEF StartContext, PoolTypes, Matching, wg
    <3>5. CASE Spawn(c)
      BY <1>1, <2>6, <3>5 DEF Spawn, PoolTypes, Matching, pool
    <3>6. CASE Resized(c)
      <4>1. \A w \in Live : wctx[w] = mine[c] /\ mine[c] \notin dead
        BY <1>1, <3>6 DEF Resized, OneCall, Matching
      <4> QED BY <1>1, <2>1, <2>6, <3>6, <4>1 DEF Resized, Matching, PoolTypes, pool, wg, workers, Live
    <3> QED BY <1>2, <3>1, <3>2, <3>3, <3>4, <3>5, <3>6 DEF Caller
  <2> QED BY <1>1, <2>1, <2>4, <2>6, <2>7 DEF Matching, Settled, Idle
<1>3. ASSUME NEW w \in Workers, TakeJob(w) \/ FinishJob(w)
      PROVE  Matching'
  <2>1. UNCHANGED <<Live, wctx, cpc, size, spawned, mine, dead, counter, overlapped>>
    BY <1>3 DEF TakeJob, FinishJob, Live, pool, wg, callers, PoolTypes
  <2> QED BY <1>1, <2>1 DEF Matching, Settled, Idle
<1>4. ASSUME NEW w \in Workers, Exit(w)
      PROVE  Matching'
  <2>1. w \in Live /\ wctx[w] \in dead /\ counter # 0
    BY <1>4, LiveIsFinite DEF Exit, Live, WaitGroupCounts
  <2>2. PICK c \in Callers : ~Settled(c)
    BY <1>1, <2>1 DEF Matching
  <2>3. /\ \A d \in Callers : d # c => cpc[d] = "ready" /\ spc[d] = "ready"
        /\ spc[c] \notin {"find", "seed", "write"}
        /\ cpc[c] \notin {"awake", "start", "spawn"}
    BY <1>1, <2>1, <2>2 DEF Matching, Settled, Idle, OneCall
  <2>4. /\ UNCHANGED <<size, spawned, mine, dead, overlapped>>
        /\ \A d \in Callers : d # c => cpc'[d] = "ready"
        /\ cpc'[c] = cpc[c] \/ (cpc'[c] = "awake" /\ cpc[c] = "asleep" /\ counter' = 0)
    BY <1>4, <2>3 DEF Exit, WaitGroupCounts, pool
  <2>5. ~Settled(c)'
    BY <1>1, <2>2, <2>4 DEF Settled
  <2> QED BY <1>1, <2>2, <2>3, <2>4, <2>5 DEF Matching, Settled, Idle
<1> QED BY <1>2, <1>3, <1>4 DEF Pool, Worker

LEMMA MatchStep ==
  PoolTypes /\ WaitGroupCounts /\ OneCallInv /\ DocumentTypes /\ MatchInv
    /\ [SettingsNext]_allvars => MatchInv'
<1> SUFFICES ASSUME PoolTypes, WaitGroupCounts, OneCallInv, DocumentTypes, MatchInv,
                    [SettingsNext]_allvars, ~mixed'
             PROVE  Matching'
  BY DEF MatchInv
<1>1. CASE ReadSettings
  BY <1>1, AbsentAssumption DEF ReadSettings, MatchInv, Matching
<1>2. CASE Restart
  <2>1. PICK n \in Sizes : /\ n = stored'.workers /\ counter' = n
                           /\ stored' = IF stored = Absent THEN Seed(Configured) ELSE stored
    BY <1>2 DEF Restart
  <2>2. stored' \in Document
    BY <2>1, SettingsAssumption, SeedIsDocument DEF SettingsAssumption, DocumentTypes
  <2> QED BY <1>2, <2>1, <2>2 DEF Restart, Matching, Settled, Idle, At
<1>3. CASE SettingsRest \/ UNCHANGED allvars
  BY <1>3 DEF SettingsRest, allvars, vars, pool, wg, workers, callers, svars, scallers, MatchInv,
     Matching, Settled, Idle, At, Live
<1> QED BY <1>1, <1>2, <1>3, MatchCommand, MatchWrite, MatchPool DEF SettingsNext

\* Between commands that did not overlap the pool has the size the document says,
\* so that a restart starts the same pool.
THEOREM PoolIsAsStored == SettingsFairSpec => []PoolMatchesSettings
<1>1. MatchInv /\ WaitGroupCounts => PoolMatchesSettings
  BY DEF MatchInv, Matching, WaitGroupCounts, PoolMatchesSettings, Quiet, Idle, At, Settled
<1>2. SettingsFairSpec => []OneCallInv
  BY OneCallInit, OneCallStep, PoolTypesInvariant, WaitGroupIsRight, PTL DEF SettingsFairSpec
<1> QED BY <1>1, <1>2, MatchInit, MatchStep, PoolTypesInvariant, WaitGroupIsRight,
           DocumentTypesInvariant, PTL DEF SettingsFairSpec

--------------------------------------------------------------------------------
(* Types.  Every context is that of one call, of which there are MaxCalls.    *)

\* calls that are yet to make their context
Pending == {c \in Callers : cpc[c] \in {"cancel", "wait", "asleep", "awake", "start"}}

PoolBounds ==
  /\ IsFiniteSet(Pending) /\ contexts + Cardinality(Pending) <= 1 + calls
  /\ calls \in 0..MaxCalls /\ queued \in 0..NumJobs /\ overlapped \in BOOLEAN
  /\ size \in [Callers -> Sizes \cup {0}]
  /\ wctx \in [Workers -> 1..contexts] /\ mine \in [Callers -> 0..contexts]
  /\ \A c \in Callers : cpc[c] = "spawn" => mine[c] # 0

LEMMA PoolBoundsInit == SettingsInit => PoolBounds
<1> SUFFICES ASSUME SettingsInit PROVE PoolBounds
  OBVIOUS
<1>1. Pending = {}
  BY DEF SettingsInit, Init, Pending
<1>2. IsFiniteSet(Pending) /\ Cardinality(Pending) = 0
  BY <1>1, FS_EmptySet
<1>3. /\ contexts = 1 /\ calls = 0 /\ queued = NumJobs /\ overlapped = FALSE
      /\ size = [c \in Callers |-> 0] /\ mine = [c \in Callers |-> 0]
      /\ cpc = [c \in Callers |-> "ready"] /\ wctx = [w \in Workers |-> 1]
  BY DEF SettingsInit, Init
<1>4. NumJobs \in 0..NumJobs /\ 0 \in 0..MaxCalls
  BY PoolAssumption DEF PoolAssumption
<1>5. /\ size \in [Callers -> Sizes \cup {0}] /\ mine \in [Callers -> 0..contexts]
      /\ wctx \in [Workers -> 1..contexts] /\ \A c \in Callers : cpc[c] # "spawn"
  BY <1>3
<1>6. contexts + Cardinality(Pending) <= 1 + calls
  BY <1>2, <1>3
<1> QED BY <1>2, <1>3, <1>4, <1>5, <1>6 DEF PoolBounds

LEMMA ContextIsCounted ==
  ASSUME PoolTypes, PoolBounds
  PROVE  /\ Cardinality(Pending) \in Nat /\ contexts \in Nat \ {0} /\ calls \in Nat
         /\ contexts + Cardinality(Pending) <= 1 + calls
  BY FS_CardinalityType DEF PoolTypes, PoolBounds

LEMMA PoolBoundsCall ==
  ASSUME PoolTypes, PoolBounds, NEW c \in Callers, Call(c)
  PROVE  PoolBounds'
<1>1. /\ cpc[c] = "ready" /\ cpc' = [cpc EXCEPT ![c] = "cancel"] /\ calls' = calls + 1
      /\ calls' \in 0..MaxCalls /\ overlapped' \in BOOLEAN
      /\ size' \in [Callers -> Sizes \cup {0}]
      /\ UNCHANGED <<contexts, wctx, mine, queued>>
  BY PoolAssumption DEF PoolAssumption, Call, At, Goto, PoolBounds, PoolTypes, pool, workers
<1>2. Pending' = Pending \cup {c} /\ c \notin Pending
  BY <1>1 DEF Pending, PoolTypes
<1>3. IsFiniteSet(Pending') /\ Cardinality(Pending') = Cardinality(Pending) + 1
  BY <1>2, FS_AddElement DEF PoolBounds
<1>4. contexts' + Cardinality(Pending') <= 1 + calls'
  BY <1>1, <1>3, ContextIsCounted
<1>5. \A d \in Callers : cpc'[d] = "spawn" => mine'[d] # 0
  BY <1>1 DEF PoolTypes, PoolBounds
<1> QED BY <1>1, <1>3, <1>4, <1>5 DEF PoolBounds

\* Steps of a call that make no context.
LEMMA PoolBoundsKept ==
  ASSUME PoolTypes, PoolBounds, Pending' \subseteq Pending,
         queued' \in 0..NumJobs, wctx' \in [Workers -> 1..contexts],
         \A c \in Callers : cpc'[c] = "spawn" => cpc[c] = "spawn",
         UNCHANGED <<contexts, calls, overlapped, size, mine>>
  PROVE  PoolBounds'
<1>1. IsFiniteSet(Pending') /\ Cardinality(Pending') <= Cardinality(Pending)
      /\ Cardinality(Pending') \in Nat
  BY FS_Subset, FS_CardinalityType DEF PoolBounds
<1>2. contexts' + Cardinality(Pending') <= 1 + calls'
  BY <1>1, ContextIsCounted
<1> QED BY <1>1, <1>2 DEF PoolBounds

LEMMA PoolBoundsCaller ==
  ASSUME PoolTypes, PoolBounds, NEW c \in Callers, Caller(c)
  PROVE  PoolBounds'
<1> USE DEF At, Goto
<1>1. CASE CancelWorkers(c) \/ Wait(c) \/ WakeUp(c) \/ Resized(c)
  <2>1. PICK l \in {"ready", "wait", "asleep", "start"} : cpc' = [cpc EXCEPT ![c] = l]
    BY <1>1 DEF CancelWorkers, Wait, WakeUp, Resized, Stopped
  <2>2. cpc[c] \in {"cancel", "wait", "awake"} \/ l = "ready"
    BY <1>1, <2>1 DEF CancelWorkers, Wait, WakeUp, Resized, PoolTypes
  <2>3. Pending' \subseteq Pending
    BY <2>1, <2>2 DEF Pending, PoolTypes
  <2>4. \A d \in Callers : cpc'[d] = "spawn" => cpc[d] = "spawn"
    BY <2>1 DEF PoolTypes
  <2>5. UNCHANGED <<contexts, calls, overlapped, size, mine, queued, wctx>>
    BY <1>1 DEF CancelWorkers, Wait, WakeUp, Resized, pool, workers
  <2> QED BY <2>3, <2>4, <2>5, PoolBoundsKept DEF PoolBounds
<1>2. CASE StartContext(c)
  <2>1. /\ cpc[c] = "start" /\ cpc' = [cpc EXCEPT ![c] = "spawn"] /\ contexts' = contexts + 1
        /\ mine' = [mine EXCEPT ![c] = contexts']
        /\ UNCHANGED <<calls, overlapped, size, queued, wctx>>
    BY <1>2 DEF StartContext, workers
  <2>2. Pending' = Pending \ {c} /\ c \in Pending
    BY <2>1 DEF Pending, PoolTypes
  <2>3. IsFiniteSet(Pending') /\ Cardinality(Pending') = Cardinality(Pending) - 1
    BY <2>2, FS_RemoveElement DEF PoolBounds
  <2>4. contexts' + Cardinality(Pending') <= 1 + calls' /\ contexts \in Nat /\ contexts' \in Nat
    BY <2>1, <2>3, ContextIsCounted
  <2>5. mine' \in [Callers -> 0..contexts'] /\ wctx' \in [Workers -> 1..contexts']
    BY <2>1, <2>4 DEF PoolBounds
  <2>6. \A d \in Callers : cpc'[d] = "spawn" => mine'[d] # 0
    BY <2>1, <2>4 DEF PoolBounds, PoolTypes
  <2> QED BY <2>1, <2>3, <2>4, <2>5, <2>6 DEF PoolBounds
<1>3. CASE Spawn(c)
  <2>1. PICK w \in Workers : wctx' = [wctx EXCEPT ![w] = mine[c]]
    BY <1>3 DEF Spawn
  <2>2. mine[c] \in 1..contexts
    BY <1>3 DEF Spawn, PoolBounds, PoolTypes
  <2>3. wctx' \in [Workers -> 1..contexts]
    BY <2>1, <2>2 DEF PoolBounds
  <2>4. UNCHANGED <<contexts, calls, overlapped, size, mine, queued, cpc>>
    BY <1>3 DEF Spawn, pool
  <2>5. Pending' = Pending
    BY <2>4 DEF Pending
  <2> QED BY <2>3, <2>4, <2>5, PoolBoundsKept DEF PoolBounds
<1> QED BY <1>1, <1>2, <1>3 DEF Caller

LEMMA PoolBoundsWorker ==
  ASSUME PoolTypes, WaitGroupCounts, PoolBounds, NEW w \in Workers, Worker(w)
  PROVE  PoolBounds'
<1>1. UNCHANGED <<contexts, calls, overlapped, size, mine, wctx>> /\ queued' \in 0..NumJobs
  BY PoolAssumption
     DEF PoolAssumption, Worker, TakeJob, FinishJob, Exit, pool, callers, PoolBounds
<1>2. \A c \in Callers : cpc'[c] = cpc[c] \/ (cpc[c] = "asleep" /\ cpc'[c] = "awake")
  <2>1. CASE cpc' = cpc
    BY <2>1
  <2>2. CASE cpc' = [c \in Callers |-> IF c \in waiters THEN "awake" ELSE cpc[c]]
    BY <2>2 DEF WaitGroupCounts, At
  <2> QED BY <2>1, <2>2 DEF Worker, TakeJob, FinishJob, Exit, callers
<1>3. Pending' \subseteq Pending /\ \A c \in Callers : cpc'[c] = "spawn" => cpc[c] = "spawn"
  BY <1>2 DEF Pending
<1> QED BY <1>1, <1>3, PoolBoundsKept DEF PoolBounds

LEMMA PoolBoundsStep ==
  PoolTypes /\ WaitGroupCounts /\ PoolBounds /\ [SettingsNext]_allvars => PoolBounds'
<1> SUFFICES ASSUME PoolTypes, WaitGroupCounts, PoolBounds, [SettingsNext]_allvars PROVE PoolBounds'
  OBVIOUS
<1>1. CASE Restart
  <2>1. Pending' = {}
    BY <1>1 DEF Restart, Pending
  <2>2. IsFiniteSet(Pending') /\ Cardinality(Pending') = 0
    BY <2>1, FS_EmptySet
  <2>3. /\ contexts' = 1 /\ UNCHANGED <<calls, queued>> /\ overlapped' = FALSE
        /\ size' = [c \in Callers |-> 0] /\ mine' = [c \in Callers |-> 0]
        /\ cpc' = [c \in Callers |-> "ready"] /\ wctx' = [w \in Workers |-> 1]
    BY <1>1 DEF Restart
  <2>4. /\ size' \in [Callers -> Sizes \cup {0}] /\ mine' \in [Callers -> 0..contexts']
        /\ wctx' \in [Workers -> 1..contexts'] /\ \A c \in Callers : cpc'[c] # "spawn"
    BY <2>3
  <2>5. contexts' + Cardinality(Pending') <= 1 + calls'
    BY <2>2, <2>3, ContextIsCounted
  <2> QED BY <2>2, <2>3, <2>4, <2>5 DEF PoolBounds
<1>2. CASE UNCHANGED vars
  <2>1. UNCHANGED <<contexts, calls, overlapped, size, mine, queued, wctx, cpc>>
    BY <1>2 DEF vars, pool, workers, callers
  <2>2. Pending' = Pending
    BY <2>1 DEF Pending
  <2> QED BY <2>1, <2>2, PoolBoundsKept DEF PoolBounds
<1> QED BY <1>1, <1>2, PoolBoundsCall, PoolBoundsCaller, PoolBoundsWorker, PoolPart

\* Between commands a caller holds no argument and no copy; when it writes there
\* is a document.
CommandTypes ==
  /\ asked \in Document \cup {Absent} /\ (asked = Absent <=> stored = Absent)
  /\ \A c \in Callers : /\ spc[c] \notin {"find", "seed", "write"} => cmd[c] = Absent
                        /\ spc[c] # "write" => copy[c] = Absent
                        /\ spc[c] = "write" => stored # Absent
  /\ commands \in 0..MaxCommands /\ faults \in 0..MaxFaults /\ restarts \in 0..MaxRestarts
  /\ clobbered \in BOOLEAN /\ mixed \in BOOLEAN

LEMMA CommandTypesInit == SettingsInit => CommandTypes
<1> SUFFICES ASSUME SettingsInit PROVE CommandTypes
  OBVIOUS
<1>1. Seed(Configured) \in Document
  BY SettingsAssumption, SeedIsDocument DEF SettingsAssumption
<1>2. MaxCommands \in Nat /\ MaxFaults \in Nat /\ MaxRestarts \in Nat
  BY SettingsAssumption, PoolAssumption DEF SettingsAssumption, PoolAssumption
<1>3. /\ \/ stored = Seed(Configured) /\ faults = 0 /\ mixed = FALSE
         \/ stored = Absent /\ faults = 1 /\ faults <= MaxFaults /\ mixed = TRUE
      /\ spc = [c \in Callers |-> "ready"] /\ cmd = [c \in Callers |-> Absent]
      /\ copy = [c \in Callers |-> Absent] /\ commands = 0 /\ restarts = 0
      /\ asked = stored /\ clobbered = FALSE
  BY DEF SettingsInit
<1>4. stored \in Document \cup {Absent} /\ mixed \in BOOLEAN
  BY <1>1, <1>3
<1>5. faults \in 0..MaxFaults /\ commands \in 0..MaxCommands /\ restarts \in 0..MaxRestarts
  BY <1>2, <1>3
<1> QED BY <1>3, <1>4, <1>5 DEF CommandTypes

LEMMA CommandTypesStep == DocumentTypes /\ CommandTypes /\ [SettingsNext]_allvars => CommandTypes'
<1> SUFFICES ASSUME DocumentTypes, CommandTypes, [SettingsNext]_allvars PROVE CommandTypes'
  OBVIOUS
<1>a. /\ MaxCommands \in Nat /\ MaxFaults \in Nat /\ MaxRestarts \in Nat
      /\ \A n \in {Configured, BuiltIn} : Seed(n) \in Document /\ Seed(n) # Absent
  <2>1. {Configured, BuiltIn} \subseteq Sizes
    BY SettingsAssumption DEF SettingsAssumption
  <2>2. \A n \in {Configured, BuiltIn} : Seed(n) \in Document /\ Seed(n) # Absent
    BY <2>1, AbsentAssumption, SeedIsDocument
  <2>3. MaxCommands \in Nat /\ MaxFaults \in Nat /\ MaxRestarts \in Nat
    BY SettingsAssumption, PoolAssumption DEF SettingsAssumption, PoolAssumption
  <2> QED BY <2>2, <2>3
<1>b. ASSUME Fault PROVE faults' \in 0..MaxFaults
  BY <1>a, <1>b DEF Fault, CommandTypes
<1>c. /\ spc \in [Callers -> {"ready", "find", "seed", "write", "exiting"}]
      /\ cmd \in [Callers -> Arguments \cup {Absent}] /\ copy \in [Callers -> Document \cup {Absent}]
      /\ stored \in Document \cup {Absent}
  BY DEF DocumentTypes
<1>1. ASSUME NEW c \in Callers, Command(c)
      PROVE  CommandTypes'
  <2>1. /\ commands' \in 0..MaxCommands /\ spc[c] = "ready" /\ spc' = [spc EXCEPT ![c] = "find"]
        /\ mixed' \in BOOLEAN /\ \E a : cmd' = [cmd EXCEPT ![c] = a]
        /\ UNCHANGED <<stored, copy, faults, restarts, asked, clobbered>>
    BY <1>a, <1>1 DEF Command, SGoto, Idle, CommandTypes
  <2> QED BY <1>c, <2>1 DEF CommandTypes
<1>2. ASSUME NEW c \in Callers, Find(c)
      PROVE  CommandTypes'
  BY <1>b, <1>c, <1>2 DEF Find, SGoto, Abort, CommandTypes
<1>3. ASSUME NEW c \in Callers, InsertSeed(c)
      PROVE  CommandTypes'
  BY <1>a, <1>b, <1>c, <1>3 DEF InsertSeed, SGoto, Abort, CommandTypes
<1>4. ASSUME NEW c \in Callers, Replace(c)
      PROVE  CommandTypes'
  <2>1. /\ spc[c] = "write" /\ Abort(c) /\ UNCHANGED <<commands, restarts>>
        /\ faults' \in 0..MaxFaults /\ clobbered' \in BOOLEAN /\ mixed' \in BOOLEAN
        /\ \/ UNCHANGED <<stored, asked>>
           \/ stored' = Mutated(copy[c], cmd[c]) /\ asked' = Mutated(asked, cmd[c])
    BY <1>b, <1>4 DEF Replace, CommandTypes
  <2>2. cmd[c] \in Arguments /\ copy[c] \in Document /\ asked \in Document
    BY <2>1 DEF DocumentTypes, CommandTypes
  <2>3. Mutated(copy[c], cmd[c]) \in Document /\ Mutated(asked, cmd[c]) \in Document
    BY <2>2, MutatedIsDocument
  <2>4. /\ asked' \in Document \cup {Absent} /\ (asked' = Absent <=> stored' = Absent)
        /\ stored # Absent => stored' # Absent
    BY <2>1, <2>3, AbsentAssumption DEF CommandTypes
  <2>5. /\ spc' = [spc EXCEPT ![c] = "ready"] /\ cmd' = [cmd EXCEPT ![c] = Absent]
        /\ copy' = [copy EXCEPT ![c] = Absent]
    BY <2>1 DEF Abort, SGoto
  <2> QED BY <1>c, <2>1, <2>4, <2>5 DEF CommandTypes
<1>5. ASSUME NEW c \in Callers, Shutdown(c)
      PROVE  CommandTypes'
  <2>1. /\ commands' \in 0..MaxCommands /\ spc[c] = "ready" /\ spc' = [spc EXCEPT ![c] = "exiting"]
        /\ mixed' \in BOOLEAN /\ UNCHANGED <<stored, cmd, copy, faults, restarts, asked, clobbered>>
    BY <1>a, <1>5 DEF Shutdown, SGoto, Idle, CommandTypes
  <2> QED BY <1>c, <2>1 DEF CommandTypes
<1>6. CASE ReadSettings
  BY <1>a, <1>6 DEF ReadSettings, scallers, CommandTypes
<1>7. CASE Restart
  <2>1. /\ restarts' \in 0..MaxRestarts /\ UNCHANGED <<commands, clobbered>>
        /\ spc' = [c \in Callers |-> "ready"] /\ cmd' = [c \in Callers |-> Absent]
        /\ copy' = [c \in Callers |-> Absent]
    BY <1>a, <1>7 DEF Restart, CommandTypes
  <2>2. /\ faults' \in 0..MaxFaults /\ mixed' \in BOOLEAN
    BY <1>b, <1>7 DEF Restart, CommandTypes
  <2>3. \/ UNCHANGED <<stored, asked>>
        \/ stored' = Seed(Configured) /\ asked' = Seed(Configured)
    BY <1>7 DEF Restart, CommandTypes
  <2>4. asked' \in Document \cup {Absent} /\ (asked' = Absent <=> stored' = Absent)
    BY <1>a, <2>3 DEF CommandTypes
  <2> QED BY <2>1, <2>2, <2>4 DEF CommandTypes
<1>8. CASE Pool \/ SettingsRest \/ UNCHANGED allvars
  BY <1>8 DEF Pool, SettingsRest, allvars, svars, scallers, CommandTypes
<1> QED BY <1>1, <1>2, <1>3, <1>4, <1>5, <1>6, <1>7, <1>8 DEF SettingsNext

\* Every variable of the settings and of the pool holds a value of its kind: the
\* workers fit their slots, contexts are as many as calls, and a caller holds an
\* argument and a copy of the document exactly while its command is under way.
THEOREM SettingsTyped == SettingsFairSpec => []SettingsTypeOK
<1>1. PoolTypes /\ WaitGroupCounts /\ PoolBounds => TypeOK
  <2> SUFFICES ASSUME PoolTypes, WaitGroupCounts, PoolBounds PROVE TypeOK
    OBVIOUS
  <2>1. contexts \in 1..(1 + MaxCalls)
    BY ContextIsCounted, PoolAssumption DEF PoolBounds, PoolAssumption
  <2>2. counter \in 0..Cardinality(Workers)
    <3>1. Live \subseteq Workers
      BY DEF Live
    <3>2. Cardinality(Live) <= Cardinality(Workers) /\ Cardinality(Workers) \in Nat
      BY <3>1, PoolAssumption, FS_Subset, FS_CardinalityType DEF PoolAssumption
    <3> QED BY <3>2, LiveIsFinite DEF WaitGroupCounts
  <2>3. waiters \subseteq Callers
    BY DEF WaitGroupCounts
  <2> QED BY <2>1, <2>2, <2>3 DEF PoolTypes, PoolBounds, TypeOK
<1>2. DocumentTypes /\ CommandTypes /\ TypeOK => SettingsTypeOK
  BY AbsentAssumption DEF DocumentTypes, CommandTypes, SettingsTypeOK
<1> QED BY <1>1, <1>2, PoolBoundsInit, PoolBoundsStep, CommandTypesInit, CommandTypesStep,
        PoolTypesInvariant, WaitGroupIsRight, DocumentTypesInvariant, PTL DEF SettingsFairSpec
================================================================================
