-------------------------------- MODULE Settings -------------------------------
(* The settings document (src/internal/database/settings.go) under the        *)
(* owner's commands (src/internal/handlers/ownercommands.go), composed with   *)
(* the pool they resize: every command reads the whole document, changes one  *)
(* field of its copy and replaces the document; /setworkers then calls        *)
(* Resize.  A start of the process reads the document for the size of its     *)
(* pool (src/internal/bot/bot.go).  Of the other fields one stands for all.   *)
EXTENDS WorkerPool

CONSTANTS
  Absent,          \* no document
  Configured,      \* DEFAULT_WORKERS
  BuiltIn,         \* the workers Update seeds the document with
  MaxCommands,     \* bound: commands
  MaxFaults,       \* bound: calls of MongoDB that fail
  MaxRestarts      \* bound: ends of the process

ASSUME SettingsAssumption ==
  /\ {Configured, BuiltIn} \subseteq Sizes
  /\ MaxCommands \in 0..MaxCalls /\ MaxFaults \in Nat /\ MaxRestarts \in Nat

VARIABLES
  stored,      \* the document
  spc,         \* callers, until the resize: "ready", "find", "seed", "write", "exiting"
  cmd,         \* the field and value of a caller's command
  copy,        \* the document it has read
  commands, faults, restarts,
  \* history
  asked,       \* the document if every command had changed just its field
  clobbered,   \* a document was replaced that another command had changed since
  mixed        \* the pool may not be that of the document: see PoolMatchesSettings

scallers == <<spc, cmd, copy>>
svars    == <<stored, scallers, commands, faults, restarts, asked, clobbered, mixed>>
allvars  == <<vars, svars>>

Document == [workers : Sizes, limit : {0, 1}]

\* the fields and values the commands set
Arguments == ({"workers"} \X Sizes) \cup ({"limit"} \X {0, 1})

ASSUME AbsentAssumption == Absent \notin Document \cup Arguments

Seed(n)  == [workers |-> n, limit |-> 0]
Idle(c)  == spc[c] = "ready" /\ At(c, "ready")
Quiet    == \A c \in Callers : Idle(c)

SGoto(c, l) == spc' = [spc EXCEPT ![c] = l]
Fault       == faults < MaxFaults /\ faults' = faults + 1

--------------------------------------------------------------------------------
\* bot.Run: GetOrCreate with the configured defaults, which the pool also gets when
\* that fails
SettingsInit ==
  /\ Init /\ counter = Configured
  /\ \/ stored = Seed(Configured) /\ faults = 0 /\ mixed = FALSE
     \/ stored = Absent /\ faults = 1 /\ faults <= MaxFaults /\ mixed = TRUE
  /\ spc = [c \in Callers |-> "ready"]
  /\ cmd = [c \in Callers |-> Absent] /\ copy = [c \in Callers |-> Absent]
  /\ commands = 0 /\ restarts = 0
  /\ asked = stored /\ clobbered = FALSE

\* /setworkers, /setqueue and the rest, with a valid argument
Command(c) ==
  /\ Idle(c) /\ commands < MaxCommands
  /\ commands' = commands + 1
  /\ cmd' \in {[cmd EXCEPT ![c] = a] : a \in Arguments}
  /\ SGoto(c, "find")
  /\ mixed' = (mixed \/ ~Quiet)
  /\ UNCHANGED <<vars, stored, copy, faults, restarts, asked, clobbered>>

\* the command is over, with an error of Update
Abort(c) == /\ SGoto(c, "ready")
            /\ cmd' = [cmd EXCEPT ![c] = Absent] /\ copy' = [copy EXCEPT ![c] = Absent]

\* GetOrCreate: FindOne
Find(c) ==
  /\ spc[c] = "find"
  /\ \/ /\ stored # Absent
        /\ copy' = [copy EXCEPT ![c] = stored] /\ SGoto(c, "write")
        /\ UNCHANGED <<cmd, faults>>
     \/ /\ stored = Absent
        /\ SGoto(c, "seed")
        /\ UNCHANGED <<cmd, copy, faults>>
     \/ Fault /\ Abort(c)
  /\ UNCHANGED <<vars, stored, commands, restarts, asked, clobbered, mixed>>

\* GetOrCreate: InsertOne, of values of its own; it fails when another call has
\* inserted the document
InsertSeed(c) ==
  /\ spc[c] = "seed"
  /\ \/ /\ stored = Absent
        /\ stored' = Seed(BuiltIn) /\ asked' = Seed(BuiltIn)
        /\ copy' = [copy EXCEPT ![c] = Seed(BuiltIn)] /\ SGoto(c, "write")
        /\ UNCHANGED <<cmd, faults>>
     \/ stored # Absent /\ Abort(c) /\ UNCHANGED <<stored, asked, faults>>
     \/ Fault /\ Abort(c) /\ UNCHANGED <<stored, asked>>
  /\ UNCHANGED <<vars, commands, restarts, clobbered, mixed>>

Mutated(doc, a) == IF a[1] = "workers" THEN [doc EXCEPT !.workers = a[2]]
                                       ELSE [doc EXCEPT !.limit = a[2]]

\* mutant: the error of Update is not looked at
ReplaceOrNot(c) ==
  /\ spc[c] = "write"
  /\ \/ stored' = Mutated(copy[c], cmd[c]) /\ UNCHANGED faults
     \/ Fault /\ UNCHANGED stored
  /\ asked' = asked /\ clobbered' = TRUE
  /\ IF cmd[c][1] = "workers" THEN Call(c) /\ size'[c] = cmd[c][2] ELSE UNCHANGED vars
  /\ Abort(c)
  /\ UNCHANGED <<commands, restarts, mixed>>

\* mutant: the document written has the changed field and defaults
ReplacePartial(c) ==
  /\ spc[c] = "write"
  /\ stored' = Mutated(Seed(copy[c].workers), cmd[c])
  /\ asked' = Mutated(asked, cmd[c])
  /\ clobbered' = (clobbered \/ stored # copy[c])
  /\ IF cmd[c][1] = "workers" THEN Call(c) /\ size'[c] = cmd[c][2] ELSE UNCHANGED vars
  /\ Abort(c)
  /\ UNCHANGED <<commands, faults, restarts, mixed>>

\* ReplaceOne, and Resize when that was for /setworkers.  An error ends the
\* command, also when only the answer was lost.
Replace(c) ==
  /\ spc[c] = "write"
  /\ \/ /\ stored' = Mutated(copy[c], cmd[c])
        /\ asked' = Mutated(asked, cmd[c])
        /\ clobbered' = (clobbered \/ stored # copy[c])
        /\ UNCHANGED <<faults, mixed>>
        /\ IF cmd[c][1] = "workers" THEN Call(c) /\ size'[c] = cmd[c][2]
                                    ELSE UNCHANGED vars
     \/ /\ Fault
        /\ \/ UNCHANGED <<stored, asked, clobbered, mixed>>
           \/ /\ stored' = Mutated(copy[c], cmd[c])
              /\ asked' = Mutated(asked, cmd[c])
              /\ clobbered' = (clobbered \/ stored # copy[c])
              /\ mixed' = (mixed \/ cmd[c][1] = "workers")
        /\ UNCHANGED vars
  /\ Abort(c)
  /\ UNCHANGED <<commands, restarts>>

\* settings and /settings: GetOrCreate with the configured defaults
ReadSettings ==
  /\ stored = Absent
  /\ stored' = Seed(Configured) /\ asked' = stored'
  /\ UNCHANGED <<vars, scallers, commands, faults, restarts, clobbered, mixed>>

\* /shutdown: Stop, and then the process ends
Shutdown(c) ==
  /\ Idle(c) /\ commands < MaxCommands
  /\ commands' = commands + 1
  /\ Call(c) /\ size'[c] = 0
  /\ SGoto(c, "exiting")
  /\ mixed' = (mixed \/ ~Quiet)
  /\ UNCHANGED <<stored, cmd, copy, faults, restarts, asked, clobbered>>

\* The process ends and the next one starts a pool of the size stored.
Restart ==
  /\ restarts < MaxRestarts
  /\ restarts' = restarts + 1
  /\ \E n \in Sizes :
       /\ \/ /\ stored' = IF stored = Absent THEN Seed(Configured) ELSE stored
             /\ asked' = IF stored = Absent THEN stored' ELSE asked
             /\ n = stored'.workers /\ mixed' = FALSE /\ UNCHANGED faults
          \/ Fault /\ n = Configured /\ mixed' = TRUE /\ UNCHANGED <<stored, asked>>
       /\ counter' = n
       /\ \E first \in {S \in SUBSET Workers : Cardinality(S) = n} :
            wpc' = [w \in Workers |-> IF w \in first THEN "idle" ELSE "none"]
  /\ contexts' = 1 /\ dead' = {} /\ workerCancel' = 1 /\ waiters' = {}
  /\ wctx' = [w \in Workers |-> 1]
  /\ cpc' = [c \in Callers |-> "ready"] /\ size' = [c \in Callers |-> 0]
  /\ spawned' = [c \in Callers |-> 0] /\ mine' = [c \in Callers |-> 0]
  /\ spc' = [c \in Callers |-> "ready"]
  /\ cmd' = [c \in Callers |-> Absent] /\ copy' = [c \in Callers |-> Absent]
  /\ overlapped' = FALSE
  /\ UNCHANGED <<queued, calls, commands, clobbered>>

\* a step of the pool
Pool ==
  /\ (\E c \in Callers : Caller(c)) \/ (\E w \in Workers : Worker(w))
  /\ UNCHANGED svars

SettingsRest ==
  /\ commands = MaxCommands /\ Quiet /\ (queued = 0 \/ Live = {})
  /\ \A w \in Live : wpc[w] = "idle" /\ wctx[w] \notin dead
  /\ UNCHANGED allvars

SettingsNext ==
  \/ \E c \in Callers : Command(c) \/ Find(c) \/ InsertSeed(c) \/ Replace(c) \/ Shutdown(c)
  \/ ReadSettings \/ Restart \/ Pool \/ SettingsRest

SettingsFairSpec == SettingsInit /\ [][SettingsNext]_allvars /\ Fairness

--------------------------------------------------------------------------------
SettingsTypeOK ==
  /\ TypeOK
  /\ stored \in Document \cup {Absent} /\ asked \in Document \cup {Absent}
  /\ spc \in [Callers -> {"ready", "find", "seed", "write", "exiting"}]
  /\ \A c \in Callers :
       /\ spc[c] \in {"find", "seed", "write"} <=> cmd[c] # Absent
       /\ copy[c] \in Document <=> spc[c] = "write"
  /\ commands \in 0..MaxCommands /\ faults \in 0..MaxFaults /\ restarts \in 0..MaxRestarts
  /\ clobbered \in BOOLEAN /\ mixed \in BOOLEAN

\* Between commands the pool has the size the document says, whatever failed, so a
\* restart changes nothing: unless commands overlapped, the answer to a write was
\* lost, or the document could not be read when the process started.
PoolMatchesSettings ==
  Quiet /\ ~mixed => Cardinality(Live) = stored.workers

\* settings.go:40, "Update applies a partial update": a command changes its own
\* field only, and none is forgotten, unless one wrote between another's read and
\* write.
UpdatesKept == ~clobbered => stored = asked
================================================================================
