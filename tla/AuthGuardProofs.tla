----------------------------- MODULE AuthGuardProofs ----------------------------
(* Proofs about AuthGuard, for every number of updates checked at once and of *)
(* commands, every TTL, and every bound on faults and crashes.                *)
EXTENDS AuthGuard, TLAPS

--------------------------------------------------------------------------------
Entry == [value : BOOLEAN, left : 0..TTL, overtaken : BOOLEAN]

\* What is put into the cache is an entry.
LEMMA Entries ==
  /\ NoEntry \in Entry
  /\ \A v, o \in BOOLEAN : Fresh(v, o) \in Entry
<1>1. 0 \in 0..TTL /\ TTL \in 0..TTL
  BY GuardAssumption DEF GuardAssumption
<1> QED BY <1>1 DEF NoEntry, Fresh, Entry

LEMMA PassedByIsEntry == TypeOK => PassedBy \in Entry
  BY DEF TypeOK, PassedBy, Entry

LEMMA GuardTypesInit == Init => TypeOK
<1> SUFFICES ASSUME Init PROVE TypeOK
  OBVIOUS
<1>1. 0 \in 0..MaxCommands /\ 0 \in 0..MaxFaults /\ 0 \in 0..MaxCrashes
  BY GuardAssumption DEF GuardAssumption
<1>2. entry \in Entry
  BY Entries DEF Init
<1>3. /\ redis \in BOOLEAN /\ exists \in BOOLEAN /\ authed \in BOOLEAN /\ cached \in BOOLEAN
      /\ val \in [Updates -> BOOLEAN] /\ overtaken \in [Updates -> BOOLEAN]
      /\ grant \in [Commands -> BOOLEAN]
  BY Zenon DEF Init
<1> QED BY <1>1, <1>2, <1>3 DEF Init, TypeOK, Entry

\* What the actions of the guard and of the commands leave typed.
LEMMA CheckTypes == ASSUME TypeOK, NEW u \in Updates, Receive(u) \/ Check(u) PROVE TypeOK'
<1> USE DEF TypeOK, Goto, Answer, user, cache, cmd
<1>1. CASE Receive(u) \/ Hit(u) \/ Handled(u)
  BY <1>1 DEF Receive, Hit, Handled
<1>2. ASSUME Fault
      PROVE  faults' \in 0..MaxFaults
  BY <1>2, GuardAssumption DEF GuardAssumption, Fault
<1>3. CASE Miss(u)
  BY <1>2, <1>3 DEF Miss
<1>4. CASE DropExpired(u)
  BY <1>4, Entries DEF DropExpired, Entry
<1>5. CASE Upsert(u)
  BY <1>2, <1>5 DEF Upsert
<1>6. CASE Read(u)
  <2>1. \/ UNCHANGED <<val, overtaken>>
        \/ /\ val' = [val EXCEPT ![u] = authed]
           /\ overtaken' = [overtaken EXCEPT ![u] = FALSE]
    BY <1>6 DEF Read
  <2>2. val' \in [Updates -> BOOLEAN]
    BY <2>1, Zenon
  <2>3. overtaken' \in [Updates -> BOOLEAN]
    BY <2>1, Zenon
  <2> QED BY <1>2, <1>6, <2>2, <2>3 DEF Read
<1>7. CASE Fill(u)
  <2>1. val' \in [Updates -> BOOLEAN] /\ overtaken' \in [Updates -> BOOLEAN]
    BY <1>7, Zenon DEF Fill
  <2>2. entry' \in Entry /\ cached' \in BOOLEAN
    BY <1>7, Entries DEF Fill, Entry
  <2> QED BY <1>2, <1>7, <2>1, <2>2 DEF Fill, Entry
<1> QED BY <1>1, <1>3, <1>4, <1>5, <1>6, <1>7 DEF Check

LEMMA CommandTypes == ASSUME TypeOK, NEW c \in Commands, Issue(c) \/ Command(c) PROVE TypeOK'
<1> USE DEF TypeOK, user, cache, upd
<1>1. CASE Issue(c)
  <2>1. grant' \in [Commands -> BOOLEAN]
    BY <1>1 DEF Issue
  <2>2. issued' \in 0..MaxCommands
    BY <1>1, GuardAssumption DEF GuardAssumption, Issue
  <2> QED BY <1>1, <2>1, <2>2 DEF Issue
<1>2. ASSUME Fault
      PROVE  faults' \in 0..MaxFaults
  BY <1>2, GuardAssumption DEF GuardAssumption, Fault
<1>3. CASE EnsureTarget(c)
  BY <1>3 DEF EnsureTarget
<1>4. CASE SetAuthed(c)
  <2>1. overtaken' \in [Updates -> BOOLEAN]
    BY <1>4, Zenon DEF SetAuthed
  <2>2. entry' \in Entry
    BY <1>4, PassedByIsEntry DEF SetAuthed, Entry
  <2>3. authed' \in BOOLEAN /\ cached' \in BOOLEAN
    BY <1>4 DEF SetAuthed
  <2> QED BY <1>2, <1>4, <2>1, <2>2, <2>3 DEF SetAuthed, Entry
<1>5. CASE Invalidate(c)
  <2>1. entry' \in Entry /\ cached' \in BOOLEAN
    BY <1>5, PassedByIsEntry, Entries DEF Invalidate, Entry
  <2> QED BY <1>2, <1>5, <2>1 DEF Invalidate, Entry
<1>6. CASE CommandFails(c)
  BY <1>2, <1>6 DEF CommandFails
<1> QED BY <1>1, <1>3, <1>4, <1>5, <1>6 DEF Command

LEMMA GuardTypesStep == TypeOK /\ [Next]_vars => TypeOK'
<1> SUFFICES ASSUME TypeOK, [Next]_vars PROVE TypeOK'
  OBVIOUS
<1>1. CASE Tick
  <2>1. entry' \in Entry
    BY <1>1, GuardAssumption DEF GuardAssumption, Tick, TypeOK, Entry
  <2> QED BY <1>1, <2>1 DEF TypeOK, Tick, Entry, user, upd, cmd
<1>2. CASE Janitor
  BY <1>2, Entries DEF TypeOK, Janitor, Entry, user, upd, cmd
<1>3. CASE Crash
  <2>1. val' \in [Updates -> BOOLEAN] /\ overtaken' \in [Updates -> BOOLEAN]
    BY <1>3, Zenon DEF Crash
  <2>2. entry' \in Entry /\ cached' \in BOOLEAN
    BY <1>3, Entries, PassedByIsEntry DEF Crash, TypeOK, Entry
  <2>3. crashes' \in 0..MaxCrashes
    BY <1>3, GuardAssumption DEF GuardAssumption, Crash, TypeOK
  <2> QED BY <1>3, <2>1, <2>2, <2>3 DEF TypeOK, Crash, Entry, user
<1>4. CASE UNCHANGED vars
  BY <1>4 DEF TypeOK, vars, user, cache, upd, cmd
<1> QED BY <1>1, <1>2, <1>3, <1>4, CheckTypes, CommandTypes DEF Next

\* Every variable keeps its type.
THEOREM GuardTyped == Spec => []TypeOK
  BY GuardTypesInit, GuardTypesStep, PTL DEF Spec

--------------------------------------------------------------------------------
\* The value a check carries to its Set is MongoDB's, or a command has written
\* is_authed since: what OnlyOvertakenIsStale needs when the entry is filled.
CarriedIsFresh ==
  \A u \in Updates : pc[u] = "fill" /\ ~overtaken[u] => val[u] = authed

FreshInv == OnlyOvertakenIsStale /\ CarriedIsFresh

LEMMA FreshStep == TypeOK /\ FreshInv /\ [Next]_vars => FreshInv'
<1> SUFFICES ASSUME TypeOK, FreshInv, [Next]_vars PROVE FreshInv'
  OBVIOUS
<1> USE DEF FreshInv, OnlyOvertakenIsStale, CarriedIsFresh, Settled
<1>1. ASSUME NEW u \in Updates, Receive(u) \/ Hit(u) \/ Miss(u) \/ Upsert(u) \/ Handled(u)
      PROVE  FreshInv'
  <2>1. /\ UNCHANGED <<cached, entry, authed, overtaken, val, cpc>>
        /\ \E l : l # "fill" /\ pc' = [pc EXCEPT ![u] = l]
    BY <1>1 DEF Receive, Hit, Miss, Upsert, Handled, Goto, Answer, user, cache, cmd
  <2> QED BY <2>1 DEF TypeOK
<1>2. ASSUME NEW u \in Updates, DropExpired(u)
      PROVE  FreshInv'
  BY <1>2 DEF DropExpired, Goto, user, cmd, TypeOK
<1>3. ASSUME NEW u \in Updates, Read(u)
      PROVE  FreshInv'
  BY <1>3 DEF Read, Goto, user, cache, cmd, TypeOK
<1>4. ASSUME NEW u \in Updates, Fill(u)
      PROVE  FreshInv'
  <2>1. /\ pc[u] = "fill" /\ UNCHANGED <<authed, cpc>>
        /\ \/ entry' = Fresh(val[u], overtaken[u])
           \/ UNCHANGED <<cached, entry>>
    BY <1>4 DEF Fill, user, cmd
  <2>2. OnlyOvertakenIsStale'
    <3>1. CASE UNCHANGED <<cached, entry>>
      BY <2>1, <3>1
    <3>2. CASE entry' = Fresh(val[u], overtaken[u])
      <4>1. entry'.value = val[u] /\ entry'.overtaken = overtaken[u]
        BY <3>2 DEF Fresh
      <4>2. ~entry'.overtaken => entry'.value = authed'
        BY <2>1, <4>1, Zenon
      <4> QED BY <4>2
    <3> QED BY <2>1, <3>1, <3>2
  <2>3. pc' = [pc EXCEPT ![u] = Answer(val[u])] /\ Answer(val[u]) # "fill"
        /\ \A v \in Updates : v # u => val'[v] = val[v] /\ overtaken'[v] = overtaken[v]
    BY <1>4 DEF Fill, Goto, Answer, TypeOK
  <2>4. CarriedIsFresh'
    BY <2>1, <2>3 DEF TypeOK
  <2> QED BY <2>2, <2>4
<1>5. ASSUME NEW c \in Commands, Issue(c) \/ EnsureTarget(c) \/ CommandFails(c)
      PROVE  FreshInv'
  <2>1. /\ UNCHANGED <<cached, entry, authed, overtaken, val, pc>>
        /\ \E l : cpc[c] # "invalidate" /\ cpc' = [cpc EXCEPT ![c] = l]
    BY <1>5 DEF Issue, EnsureTarget, CommandFails, user, cache, upd
  <2>2. Settled' => Settled
    BY <2>1 DEF TypeOK
  <2> QED BY <2>1, <2>2
<1>6. ASSUME NEW c \in Commands, SetAuthed(c)
      PROVE  FreshInv'
  <2>1. CarriedIsFresh'
    BY <1>6 DEF SetAuthed, TypeOK
  <2>2. OnlyOvertakenIsStale'
    <3>1. CASE cpc' = [cpc EXCEPT ![c] = "invalidate"]
      BY <3>1 DEF TypeOK
    <3>2. CASE entry' = PassedBy /\ cached' = cached
      BY <3>2 DEF PassedBy, TypeOK
    <3> QED BY <1>6, <3>1, <3>2 DEF SetAuthed
  <2> QED BY <2>1, <2>2
<1>7. ASSUME NEW c \in Commands, Invalidate(c)
      PROVE  FreshInv'
  <2>1. UNCHANGED <<authed, overtaken, val, pc>>
    BY <1>7 DEF Invalidate, user, upd
  <2>2. ~cached' \/ (entry' = PassedBy /\ cached' = cached)
    BY <1>7 DEF Invalidate
  <2> QED BY <2>1, <2>2 DEF PassedBy, TypeOK
<1>8. CASE Tick \/ Janitor
  BY <1>8 DEF Tick, Janitor, user, upd, cmd, TypeOK
<1>9. CASE Crash
  <2>1. CarriedIsFresh'
    BY <1>9 DEF Crash
  <2>2. CASE Settled
    BY <1>9, <2>2 DEF Crash, user
  <2>3. CASE ~Settled
    BY <1>9, <2>3 DEF Crash, PassedBy, TypeOK
  <2> QED BY <2>1, <2>2, <2>3
<1>10. CASE UNCHANGED vars
  BY <1>10 DEF vars, user, cache, upd, cmd
<1> QED BY <1>1, <1>2, <1>3, <1>4, <1>5, <1>6, <1>7, <1>8, <1>9, <1>10 DEF Next, Check, Command

\* Between commands a cache entry no command has passed by says what MongoDB
\* says, however checks, commands, faults and crashes interleave.
THEOREM CacheIsFresh == Spec => []OnlyOvertakenIsStale
<1>1. Init => FreshInv
  BY DEF Init, FreshInv, OnlyOvertakenIsStale, CarriedIsFresh
<1>2. FreshInv => OnlyOvertakenIsStale
  BY DEF FreshInv
<1> QED BY <1>1, <1>2, FreshStep, GuardTyped, PTL DEF Spec
================================================================================
