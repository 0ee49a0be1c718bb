------------------------------- MODULE AuthGuard -------------------------------
(* Who may use the bot: middleware.Guard (src/internal/middleware/auth.go)    *)
(* with the cache it keeps of MongoDB's users (src/internal/cache/cache.go,   *)
(* src/internal/database/users.go), against the owner's /auth and /unauth     *)
(* (src/internal/handlers/ownercommands.go).  Users are independent of one    *)
(* another, so this is one user, not the owner, several of whose updates are  *)
(* checked at once, each in a goroutine of its own.                           *)
EXTENDS Integers, FiniteSets

CONSTANTS
  Updates,       \* goroutines that check an update of the user
  Commands,      \* goroutines that run /auth or /unauth
  TTL,           \* authCacheTTL, in ticks
  MaxCommands,   \* bound: /auth and /unauth
  MaxFaults,     \* bound: failing calls of MongoDB and Redis
  MaxCrashes     \* bound: ends of the process

ASSUME GuardAssumption ==
  /\ TTL \in Nat \ {0}
  /\ MaxCommands \in Nat /\ MaxFaults \in Nat /\ MaxCrashes \in Nat

VARIABLES
  redis,    \* the cache is Redis, which outlives the process, not the memory cache
  exists,   \* the user's document is in MongoDB
  authed,   \* its is_authed
  cached,   \* the cache has an entry for the user
  entry,    \* that entry: the value, ticks to its expiry, and (history) whether a
            \* command passed it by: is_authed was written between the filler's read
            \* and its Set, or the command's Invalidate failed or never ran
  pc,       \* updates: where IsAuthorized is
  val,      \* updates: the value read from MongoDB
  overtaken,\* updates (history): is_authed was written since that read
  cpc,      \* commands: "ready", "ensure", "write" or "invalidate"
  grant,    \* commands: /auth rather than /unauth
  issued, faults, crashes

user  == <<exists, authed>>
cache == <<redis, cached, entry>>
upd   == <<pc, val, overtaken>>
cmd   == <<cpc, grant>>
vars  == <<user, cache, upd, cmd, issued, faults, crashes>>

NoEntry == [value |-> FALSE, left |-> 0, overtaken |-> FALSE]

\* mutant: the entry is kept for longer than asked for
FreshTooLong(v, o) == [value |-> v, left |-> TTL + 1, overtaken |-> o]

\* a fresh entry, as Set(..., authCacheTTL) makes it
Fresh(v, o) == [value |-> v, left |-> TTL, overtaken |-> o]

\* a command ended without taking the entry away
PassedBy == [entry EXCEPT !.overtaken = cached]

Expired == cached /\ entry.left = 0

Init ==
  /\ redis \in BOOLEAN
  /\ exists = FALSE /\ authed = FALSE
  /\ cached = FALSE /\ entry = NoEntry
  /\ pc = [u \in Updates |-> "ready"]
  /\ val = [u \in Updates |-> FALSE]
  /\ overtaken = [u \in Updates |-> FALSE]
  /\ cpc = [c \in Commands |-> "ready"]
  /\ grant = [c \in Commands |-> FALSE]
  /\ issued = 0 /\ faults = 0 /\ crashes = 0

Goto(u, l) == pc' = [pc EXCEPT ![u] = l]
Answer(v)  == IF v THEN "allowed" ELSE "denied"

\* a call may fail
Fault == faults < MaxFaults /\ faults' = faults + 1

--------------------------------------------------------------------------------
(* Guard.RequireAuth of one update.                                           *)

Receive(u) ==
  /\ pc[u] = "ready"
  /\ Goto(u, "check")
  /\ UNCHANGED <<user, cache, val, overtaken, cmd, issued, faults, crashes>>

\* mutant: Get leaves expiry to the janitor
HitExpired(u) ==
  /\ pc[u] = "check" /\ cached
  /\ Goto(u, Answer(entry.value))
  /\ UNCHANGED <<user, cache, val, overtaken, cmd, issued, faults, crashes>>

\* cache.Get.  The memory cache reads an expired entry under one lock and
\* deletes whatever is there under another; a failing Get is a miss.
Hit(u) ==
  /\ pc[u] = "check" /\ cached /\ ~Expired
  /\ Goto(u, Answer(entry.value))
  /\ UNCHANGED <<user, cache, val, overtaken, cmd, issued, faults, crashes>>

Miss(u) ==
  /\ pc[u] = "check"
  /\ \/ ~cached /\ Goto(u, "ensure") /\ UNCHANGED faults
     \/ Expired /\ Goto(u, IF redis THEN "ensure" ELSE "expired") /\ UNCHANGED faults
     \/ Fault /\ Goto(u, "ensure")
  /\ UNCHANGED <<user, cache, val, overtaken, cmd, issued, crashes>>

DropExpired(u) ==
  /\ pc[u] = "expired"
  /\ cached' = FALSE /\ entry' = NoEntry
  /\ Goto(u, "ensure")
  /\ UNCHANGED <<user, redis, val, overtaken, cmd, issued, faults, crashes>>

\* Users.EnsureExists: the upsert, then the read; an error denies the update
Upsert(u) ==
  /\ pc[u] = "ensure"
  /\ \/ exists' = TRUE /\ Goto(u, "read") /\ UNCHANGED faults
     \/ Fault /\ Goto(u, "denied") /\ UNCHANGED exists
  /\ UNCHANGED <<authed, cache, val, overtaken, cmd, issued, crashes>>

Read(u) ==
  /\ pc[u] = "read"
  /\ \/ /\ val' = [val EXCEPT ![u] = authed]
        /\ overtaken' = [overtaken EXCEPT ![u] = FALSE]
        /\ Goto(u, "fill")
        /\ UNCHANGED faults
     \/ Fault /\ Goto(u, "denied") /\ UNCHANGED <<val, overtaken>>
  /\ UNCHANGED <<user, cache, cmd, issued, crashes>>

\* cache.Set, whose error is ignored
Fill(u) ==
  /\ pc[u] = "fill"
  /\ \/ cached' = TRUE /\ entry' = Fresh(val[u], overtaken[u]) /\ UNCHANGED faults
     \/ Fault /\ UNCHANGED <<cached, entry>>
  /\ Goto(u, Answer(val[u]))
  /\ val' = [val EXCEPT ![u] = FALSE]
  /\ overtaken' = [overtaken EXCEPT ![u] = FALSE]
  /\ UNCHANGED <<user, redis, cmd, issued, crashes>>

\* the handler runs, or the denial is sent
Handled(u) ==
  /\ pc[u] \in {"allowed", "denied"}
  /\ Goto(u, "ready")
  /\ UNCHANGED <<user, cache, val, overtaken, cmd, issued, faults, crashes>>

Check(u) == Hit(u) \/ Miss(u) \/ DropExpired(u) \/ Upsert(u) \/ Read(u) \/ Fill(u)
            \/ Handled(u)

--------------------------------------------------------------------------------
(* Deps.Authorize and Deps.Unauth; only the former makes the document.        *)

Issue(c) ==
  /\ cpc[c] = "ready" /\ issued < MaxCommands
  /\ issued' = issued + 1
  /\ \E g \in BOOLEAN :
       /\ grant' = [grant EXCEPT ![c] = g]
       /\ cpc' = [cpc EXCEPT ![c] = IF g THEN "ensure" ELSE "write"]
  /\ UNCHANGED <<user, cache, upd, faults, crashes>>

\* an error of a step ends the command there
CommandFails(c) ==
  /\ cpc[c] \in {"ensure", "write"} /\ Fault
  /\ cpc' = [cpc EXCEPT ![c] = "ready"]
  /\ UNCHANGED <<user, cache, upd, grant, issued, crashes>>

EnsureTarget(c) ==
  /\ cpc[c] = "ensure"
  /\ exists' = TRUE
  /\ cpc' = [cpc EXCEPT ![c] = "write"]
  /\ UNCHANGED <<authed, cache, upd, grant, issued, faults, crashes>>

\* mutant: /unauth forgets to invalidate
SetAuthedOnly(c) ==
  /\ cpc[c] = "write"
  /\ authed' = IF exists THEN grant[c] ELSE authed
  /\ overtaken' = [u \in Updates |-> overtaken[u] \/ pc[u] = "fill"]
  /\ cpc' = [cpc EXCEPT ![c] = IF grant[c] THEN "invalidate" ELSE "ready"]
  /\ UNCHANGED <<exists, cache, pc, val, grant, issued, faults, crashes>>

\* Users.SetAuthed, an update without upsert; when only its acknowledgement is
\* lost, the command ends as if it had failed
SetAuthed(c) ==
  /\ cpc[c] = "write"
  /\ authed' = IF exists THEN grant[c] ELSE authed
  /\ overtaken' = [u \in Updates |-> overtaken[u] \/ pc[u] = "fill"]
  /\ \/ cpc' = [cpc EXCEPT ![c] = "invalidate"] /\ UNCHANGED <<entry, faults>>
     \/ Fault /\ cpc' = [cpc EXCEPT ![c] = "ready"] /\ entry' = PassedBy
  /\ UNCHANGED <<exists, redis, cached, pc, val, grant, issued, crashes>>

\* Guard.Invalidate, whose error is ignored
Invalidate(c) ==
  /\ cpc[c] = "invalidate"
  /\ \/ cached' = FALSE /\ entry' = NoEntry /\ UNCHANGED faults
     \/ Fault /\ entry' = PassedBy /\ UNCHANGED cached
  /\ cpc' = [cpc EXCEPT ![c] = "ready"]
  /\ UNCHANGED <<user, redis, upd, grant, issued, crashes>>

Command(c) == EnsureTarget(c) \/ SetAuthed(c) \/ Invalidate(c) \/ CommandFails(c)

--------------------------------------------------------------------------------
Tick ==
  /\ cached /\ entry.left > 0
  /\ entry' = [entry EXCEPT !.left = @ - 1]
  /\ UNCHANGED <<user, redis, cached, upd, cmd, issued, faults, crashes>>

\* the memory cache's janitor, or Redis' own expiry
Janitor ==
  /\ Expired
  /\ cached' = FALSE /\ entry' = NoEntry
  /\ UNCHANGED <<user, redis, upd, cmd, issued, faults, crashes>>

Crash ==
  /\ crashes < MaxCrashes /\ crashes' = crashes + 1
  /\ pc' = [u \in Updates |-> "ready"]
  /\ val' = [u \in Updates |-> FALSE]
  /\ overtaken' = [u \in Updates |-> FALSE]
  /\ cpc' = [c \in Commands |-> "ready"]
  /\ IF redis
     THEN /\ entry' = IF \E c \in Commands : cpc[c] = "invalidate" THEN PassedBy ELSE entry
          /\ UNCHANGED cached
     ELSE cached' = FALSE /\ entry' = NoEntry
  /\ UNCHANGED <<user, redis, grant, issued, faults>>

Next ==
  \/ \E u \in Updates : Receive(u) \/ Check(u)
  \/ \E c \in Commands : Issue(c) \/ Command(c)
  \/ Tick \/ Janitor \/ Crash

Spec == Init /\ [][Next]_vars

\* A goroutine that began goes on, and time passes.
Fairness == /\ \A u \in Updates : WF_vars(Check(u))
            /\ \A c \in Commands : WF_vars(Command(c))
            /\ WF_vars(Tick)

FairSpec == Spec /\ Fairness

--------------------------------------------------------------------------------
TypeOK ==
  /\ redis \in BOOLEAN /\ exists \in BOOLEAN /\ authed \in BOOLEAN /\ cached \in BOOLEAN
  /\ entry \in [value : BOOLEAN, left : 0..TTL, overtaken : BOOLEAN]
  /\ pc \in [Updates -> {"ready", "check", "expired", "ensure", "read", "fill",
                         "allowed", "denied"}]
  /\ val \in [Updates -> BOOLEAN] /\ overtaken \in [Updates -> BOOLEAN]
  /\ cpc \in [Commands -> {"ready", "ensure", "write", "invalidate"}]
  /\ grant \in [Commands -> BOOLEAN]
  /\ issued \in 0..MaxCommands /\ faults \in 0..MaxFaults /\ crashes \in 0..MaxCrashes

\* No command has written is_authed without having invalidated the cache.
Settled == \A c \in Commands : cpc[c] # "invalidate"

\* Between commands the cache agrees with MongoDB, unless the entry was filled
\* by a check that read is_authed before a command wrote it, or that command did
\* not get to Invalidate: the order of SetAuthed before Invalidate leaves no
\* other way to a stale entry.
OnlyOvertakenIsStale ==
  cached /\ Settled /\ ~entry.overtaken => entry.value = authed

\* Revoking works in the end, whatever races, fails or crashes: if the user
\* stays unauthorized, from some time on no update is allowed.
RevocationTakesEffect ==
  <>[](~authed) => <>[](\A u \in Updates : pc[u] # "allowed")
================================================================================
