---------------------------- MODULE CredentialsProofs --------------------------
(* Proofs about Credentials, for every set of codes and handlers and every    *)
(* number of logins, updates, failures and crashes.                           *)
EXTENDS Credentials, TLAPS

\* What a handler has seen is what its next step takes.
SeenOK ==
  \A h \in Handlers : /\ pc[h] = "put" => seen[h] \in PendingLogin
                      /\ pc[h] \in LoggingIn => seen[h] \in Codes
                      /\ pc[h] = "use" => seen[h] \in Token

CredTypeInv == TypeOK /\ SeenOK

\* Unless raced, nobody uses a token for another account than the stored one, and
\* without a document nobody uses any.
UseInv ==
  /\ ~raced =>
       /\ token # None => token.refresh = token.access
       /\ \A h \in Using : /\ token # None
                           /\ seen[h].refresh = seen[h].access
                           /\ seen[h].refresh = token.refresh
  /\ ~hasDocument => token = None /\ Using = {}

Agree   == remote = IF named THEN token.refresh ELSE None
Lone(h) == h \in Connecting \ rival

\* A login or logout without a rival is the only one, and knows what it has done
\* to the remote; nobody else makes MongoDB and rclone differ.
StoresInv ==
  /\ \A h \in Handlers : Lone(h) => Connecting = {h}
  /\ \A h \in Handlers : Lone(h) /\ pc[h] = "save" => remote = seen[h]
  /\ hasDocument /\ ~mixed =>
       /\ \A h \in Handlers : Lone(h) /\ pc[h] = "clear" => remote = None
       /\ (\A h \in Handlers : pc[h] \notin {"save", "clear"}) => Agree

--------------------------------------------------------------------------------
(* Typing.                                                                    *)

LEMMA CredTypeInit == Init => CredTypeInv
<1> SUFFICES ASSUME Init PROVE CredTypeInv
  OBVIOUS
<1>1. hasDocument \in BOOLEAN /\ named \in BOOLEAN /\ mixed \in BOOLEAN /\ raced \in BOOLEAN
  BY CredentialsAssumption DEF CredentialsAssumption, Init
<1>2. SeenOK
  BY DEF Init, SeenOK, LoggingIn
<1>3. pc \in [Handlers -> Steps]
  BY DEF Init, Steps
<1> QED BY <1>1, <1>2, <1>3, CredentialsAssumption
        DEF CredentialsAssumption, Init, CredTypeInv, TypeOK

\* The history variables stay Booleans where they are written.
LEMMA HistoryType ==
  ASSUME CredTypeInv, NEW h \in Handlers, SaveToken(h) \/ RemoveRemote(h) \/ ClearToken(h)
  PROVE  mixed' \in BOOLEAN /\ raced' \in BOOLEAN
<1>1. mixed \in BOOLEAN /\ raced \in BOOLEAN
  BY DEF CredTypeInv, TypeOK
<1>2. CASE SaveToken(h)
  <2>1. mixed' = (h \in rival) \/ mixed' = TRUE
    BY <1>2, Zenon DEF SaveToken
  <2>2. raced' = raced \/ raced' = (Using # {})
    BY <1>2, Zenon DEF SaveToken
  <2>3. (h \in rival) \in BOOLEAN /\ (Using # {}) \in BOOLEAN
    OBVIOUS
  <2> QED BY <1>1, <2>1, <2>2, <2>3, Zenon
<1>3. CASE RemoveRemote(h)
  BY <1>1, <1>3 DEF RemoveRemote
<1>4. CASE ClearToken(h)
  <2>1. mixed' = (mixed \/ h \in rival) \/ mixed' = TRUE
    BY <1>4, Zenon DEF ClearToken
  <2>3. (mixed \/ h \in rival) \in BOOLEAN /\ (Using # {}) \in BOOLEAN
    BY Zenon
  <2>2. raced' = raced \/ raced' = (Using # {})
    BY <1>4, Zenon DEF ClearToken
  <2> QED BY <1>1, <2>1, <2>2, <2>3, Zenon
<1> QED BY <1>2, <1>3, <1>4

LEMMA CredTypeStep == CredTypeInv /\ [Next]_vars => CredTypeInv'
<1> SUFFICES ASSUME CredTypeInv, [Next]_vars PROVE CredTypeInv'
  OBVIOUS
<1> USE CredentialsAssumption
    DEF CredentialsAssumption, CredTypeInv, TypeOK, SeenOK, Steps, Connecting, LoggingIn,
        LoggingOut, document, login, history, bounds, Goto, Done, Works, Fails, Begin,
        BeginConnecting, PendingLogin, Token
<1>1. CASE Login
  BY <1>1 DEF Login
<1>2. CASE Expire
  BY <1>2 DEF Expire
<1>3. ASSUME NEW h \in Handlers, Message(h) PROVE CredTypeInv'
  BY <1>3 DEF Message
<1>4. ASSUME NEW h \in Handlers, PutCode(h) PROVE CredTypeInv'
  BY <1>4 DEF PutCode
<1>5. ASSUME NEW h \in Handlers, DropPending(h) PROVE CredTypeInv'
  BY <1>5 DEF DropPending
<1>6. ASSUME NEW h \in Handlers, Continue(h) PROVE CredTypeInv'
  BY <1>6 DEF Continue
<1>7. ASSUME NEW h \in Handlers, Exchange(h) PROVE CredTypeInv'
  BY <1>7 DEF Exchange
<1>8. ASSUME NEW h \in Handlers, CreateRemote(h) PROVE CredTypeInv'
  BY <1>8 DEF CreateRemote
<1>9. ASSUME NEW h \in Handlers, SaveToken(h) PROVE CredTypeInv'
  <2>1. mixed' \in BOOLEAN /\ raced' \in BOOLEAN
    BY <1>9, HistoryType
  <2>2. token' \in Token \cup {None}
    BY <1>9 DEF SaveToken, AccessTokens
  <2>3. SeenOK'
    BY <1>9 DEF SaveToken
  <2>4. rival' \subseteq Connecting' /\ pc' \in [Handlers -> Steps]
    BY <1>9 DEF SaveToken
  <2>5. seen' \in [Handlers -> PendingLogin \cup Token \cup Codes \cup {None}]
    BY <1>9 DEF SaveToken
  <2>6. faults' \in 0..MaxFaults
    BY <1>9 DEF SaveToken
  <2>7. named' \in BOOLEAN
    BY <1>9, Zenon DEF SaveToken
  <2>8. UNCHANGED <<hasDocument, remote, pending, logins, expired, spent, handled, crashes>>
    BY <1>9, Zenon DEF SaveToken
  <2>9. TypeOK'
    BY <2>1, <2>2, <2>4, <2>5, <2>6, <2>7, <2>8
  <2> QED BY <2>3, <2>9
<1>10. ASSUME NEW h \in Handlers, Logout(h) PROVE CredTypeInv'
  BY <1>10 DEF Logout
<1>11. ASSUME NEW h \in Handlers, RemoveRemote(h) PROVE CredTypeInv'
  <2>1. mixed' \in BOOLEAN /\ raced' \in BOOLEAN
    BY <1>11, HistoryType
  <2>3. SeenOK'
    BY <1>11 DEF RemoveRemote
  <2>4. rival' \subseteq Connecting' /\ pc' \in [Handlers -> Steps]
    BY <1>11 DEF RemoveRemote
  <2>5. seen' \in [Handlers -> PendingLogin \cup Token \cup Codes \cup {None}]
    BY <1>11 DEF RemoveRemote
  <2>6. TypeOK'
    BY <1>11, <2>4, <2>5, <2>1 DEF RemoveRemote
  <2> QED BY <2>3, <2>6
<1>12. ASSUME NEW h \in Handlers, ClearToken(h) PROVE CredTypeInv'
  <2>1. mixed' \in BOOLEAN /\ raced' \in BOOLEAN
    BY <1>12, HistoryType
  <2>3. SeenOK'
    BY <1>12 DEF ClearToken
  <2>4. rival' \subseteq Connecting' /\ pc' \in [Handlers -> Steps]
    BY <1>12 DEF ClearToken
  <2>5. seen' \in [Handlers -> PendingLogin \cup Token \cup Codes \cup {None}]
    BY <1>12 DEF ClearToken
  <2>6. faults' \in 0..MaxFaults /\ token' \in Token \cup {None}
    BY <1>12 DEF ClearToken
  <2>7. named' \in BOOLEAN
    BY <1>12, Zenon DEF ClearToken
  <2>8. UNCHANGED <<hasDocument, remote, pending, logins, expired, spent, handled, crashes>>
    BY <1>12, Zenon DEF ClearToken
  <2>9. TypeOK'
    BY <2>1, <2>4, <2>5, <2>6, <2>7, <2>8
  <2> QED BY <2>3, <2>9
<1>13. ASSUME NEW h \in Handlers, Use(h) PROVE CredTypeInv'
  BY <1>13 DEF Use
<1>14. ASSUME NEW h \in Handlers, StoreAccess(h) PROVE CredTypeInv'
  <2>1. mixed' \in BOOLEAN /\ raced' \in BOOLEAN
    BY <1>14 DEF StoreAccess
  <2>2. token' \in Token \cup {None}
    BY <1>14 DEF StoreAccess, AccessTokens
  <2>3. SeenOK'
    BY <1>14 DEF StoreAccess
  <2>4. TypeOK'
    BY <1>14, <2>1, <2>2 DEF StoreAccess
  <2> QED BY <2>3, <2>4
<1>15. ASSUME NEW h \in Handlers, UseFails(h) PROVE CredTypeInv'
  BY <1>15 DEF UseFails
<1>16. CASE Crash
  BY <1>16 DEF Crash
<1>17. CASE UNCHANGED vars
  BY <1>17 DEF vars
<1> QED BY <1>1, <1>2, <1>3, <1>4, <1>5, <1>6, <1>7, <1>8, <1>9, <1>10, <1>11, <1>12,
           <1>13, <1>14, <1>15, <1>16, <1>17 DEF Next, Handle, Rest

LEMMA CredTypeInvariant == Spec => []CredTypeInv
  BY CredTypeInit, CredTypeStep, PTL DEF Spec

\* Every variable keeps its type.
THEOREM CredentialsTyped == Spec => []TypeOK
  BY CredTypeInvariant, PTL DEF CredTypeInv

--------------------------------------------------------------------------------
(* The token.                                                                 *)

LEMMA UseInit == Init => UseInv /\ NoUploadOnLeftovers
  BY DEF Init, UseInv, Using, NoUploadOnLeftovers

\* What writes no token only ends uses of it.
LEMMA UseFrame ==
  ASSUME UNCHANGED <<hasDocument, token, raced>>,
         \A h \in Handlers : pc'[h] = "use" => pc[h] = "use" /\ seen'[h] = seen[h],
         UseInv
  PROVE  UseInv'
  BY DEF UseInv, Using

LEMMA UseStep == CredTypeInv /\ UseInv /\ [Next]_vars => UseInv'
<1> SUFFICES ASSUME CredTypeInv, UseInv, [Next]_vars PROVE UseInv'
  OBVIOUS
<1> DEFINE Frame == /\ UNCHANGED <<hasDocument, token, raced>>
                    /\ \A g \in Handlers : pc'[g] = "use" => pc[g] = "use" /\ seen'[g] = seen[g]
<1>a. pc \in [Handlers -> Steps] /\ seen \in [Handlers -> PendingLogin \cup Token \cup Codes \cup {None}]
  BY DEF CredTypeInv, TypeOK
<1>1. CASE Login \/ Expire \/ Crash \/ UNCHANGED vars
  <2>1. Frame
    BY <1>a, <1>1 DEF Login, Expire, Crash, vars, document, history, login
  <2> QED BY <2>1, UseFrame
<1>2. ASSUME NEW h \in Handlers,
             \/ Message(h) \/ PutCode(h) \/ DropPending(h) \/ Continue(h) \/ Exchange(h)
             \/ CreateRemote(h) \/ Logout(h) \/ RemoveRemote(h) \/ UseFails(h)
      PROVE  UseInv'
  <2>1. \/ UNCHANGED <<pc, seen>>
        \/ \E l \in Steps \ {"use"} : pc' = [pc EXCEPT ![h] = l]
             /\ \A g \in Handlers : g # h => seen'[g] = seen[g]
    BY <1>a, <1>2 DEF Message, PutCode, DropPending, Continue, Exchange, CreateRemote, Logout,
       RemoveRemote, UseFails, Begin, BeginConnecting, Goto, Done, Steps, LoggingIn, LoggingOut
  <2>2. UNCHANGED <<hasDocument, token, raced>>
    BY <1>2 DEF Message, PutCode, DropPending, Continue, Exchange, CreateRemote, Logout,
       RemoveRemote, UseFails, BeginConnecting, document, history
  <2> QED BY <1>a, <2>1, <2>2, UseFrame
<1>3. ASSUME NEW h \in Handlers, Use(h)
      PROVE  UseInv'
  <2>1. /\ token # None /\ UNCHANGED <<hasDocument, token, raced>>
        /\ pc' = [pc EXCEPT ![h] = "use"] /\ seen' = [seen EXCEPT ![h] = token]
    BY <1>3 DEF Use, Begin, document, history
  <2> QED BY <1>a, <2>1 DEF UseInv, Using
<1>4. ASSUME NEW h \in Handlers, StoreAccess(h)
      PROVE  UseInv'
  <2>1. /\ pc[h] = "use" /\ UNCHANGED <<hasDocument, raced>>
        /\ pc' = [pc EXCEPT ![h] = "ready"] /\ seen' = [seen EXCEPT ![h] = None]
    BY <1>4 DEF StoreAccess, Done
  <2>2. CASE UNCHANGED token
    BY <1>a, <2>1, <2>2, UseFrame
  <2>3. ASSUME NEW a \in AccessTokens(seen[h]), ~raced, token # None,
               token' = [token EXCEPT !.access = a]
        PROVE  UseInv'
    <3>1. a = token.refresh
      BY <2>1, <2>3 DEF UseInv, Using, AccessTokens
    <3>2. token \in Token
      BY <2>3 DEF CredTypeInv, TypeOK
    <3>3. token'.refresh = token.refresh /\ token'.access = token.refresh /\ token' \in Token
      BY <2>3, <3>1, <3>2, CredTypeInv DEF Token, AccessTokens
    <3>4. hasDocument
      BY <2>3 DEF UseInv
    <3> QED BY <1>a, <2>1, <2>3, <3>3, <3>4, NoTokenAssumption DEF NoTokenAssumption, UseInv, Using
  <2>4. raced \/ (~raced /\ token # None)
    BY <2>1 DEF UseInv, Using
  <2>5. CASE raced
    BY <1>a, <2>1, <2>5 DEF UseInv, Using
  <2>6. \/ UNCHANGED token
        \/ token = None
        \/ \E a \in AccessTokens(seen[h]) : token' = [token EXCEPT !.access = a]
    BY <1>4, Zenon DEF StoreAccess
  <2> QED BY <2>2, <2>3, <2>4, <2>5, <2>6, Zenon
<1>5. ASSUME NEW h \in Handlers, SaveToken(h) \/ ClearToken(h)
      PROVE  UseInv'
  <2>1. /\ pc' \in {[pc EXCEPT ![h] = "delete"], [pc EXCEPT ![h] = "ready"]}
        /\ \A g \in Handlers : g # h => seen'[g] = seen[g]
    BY <1>a, <1>5 DEF SaveToken, ClearToken, Done
  <2>2. UNCHANGED hasDocument /\ pc[h] \in {"save", "clear"}
    BY <1>5 DEF SaveToken, ClearToken
  <2>3. \/ UNCHANGED <<token, raced>>
        \/ /\ raced' = (Using # {})
           /\ \/ token' = None
              \/ hasDocument /\ token' = [refresh |-> seen[h], access |-> seen[h]]
    <3>1. CASE SaveToken(h)
      BY <3>1 DEF SaveToken, UseInv
    <3>2. CASE ClearToken(h)
      BY <3>2 DEF ClearToken
    <3> QED BY <1>5, <3>1, <3>2
  <2>4. Using' = Using /\ \A g \in Using : seen'[g] = seen[g]
    BY <1>a, <2>1, <2>2 DEF Using
  <2>5. CASE UNCHANGED <<token, raced>>
    BY <2>2, <2>4, <2>5 DEF UseInv
  <2>6. CASE raced' = (Using # {}) /\ token' = None
    BY <2>2, <2>4, <2>6 DEF UseInv
  <2>7. CASE /\ raced' = (Using # {}) /\ hasDocument
             /\ token' = [refresh |-> seen[h], access |-> seen[h]]
    <3>1. token'.refresh = token'.access
      BY <2>7
    <3> QED BY <2>2, <2>4, <2>7, <3>1 DEF UseInv
  <2> QED BY <2>3, <2>5, <2>6, <2>7
<1> QED BY <1>1, <1>2, <1>3, <1>4, <1>5 DEF Next, Handle, Rest

LEMMA UseInvariant == Spec => []UseInv
  BY UseInit, UseStep, CredTypeInvariant, PTL DEF Spec

\* A token's refresh token and its access token are for one account, unless a
\* use of Drive ran beside the login or logout that wrote the document.
THEOREM TokenStaysWhole == Spec => []TokenIsWhole
<1>1. UseInv => TokenIsWhole
  BY DEF UseInv, TokenIsWhole
<1> QED BY <1>1, UseInvariant, PTL

LEMMA NameStep ==
  CredTypeInv /\ NoUploadOnLeftovers /\ [Next]_vars => NoUploadOnLeftovers'
<1> SUFFICES ASSUME CredTypeInv, NoUploadOnLeftovers, [Next]_vars, named'
             PROVE  token' # None /\ token'.refresh # None
  BY DEF NoUploadOnLeftovers
<1>1. CASE UNCHANGED <<token, named>>
  BY <1>1 DEF NoUploadOnLeftovers
<1>2. ASSUME NEW h \in Handlers, SaveToken(h), ~UNCHANGED <<token, named>>
      PROVE  token' # None /\ token'.refresh # None
  <2>1. token' = [refresh |-> seen[h], access |-> seen[h]] /\ seen[h] \in Codes
    BY <1>2 DEF SaveToken, CredTypeInv, SeenOK, LoggingIn
  <2>2. token' \in Token /\ token'.refresh = seen[h]
    BY <2>1 DEF Token
  <2> QED BY <2>1, <2>2, CredentialsAssumption, NoTokenAssumption
          DEF CredentialsAssumption, NoTokenAssumption
<1>3. ASSUME NEW h \in Handlers, ClearToken(h), ~UNCHANGED <<token, named>>
      PROVE  ~named'
  BY <1>3 DEF ClearToken
<1>4. ASSUME NEW h \in Handlers, StoreAccess(h), ~UNCHANGED <<token, named>>
      PROVE  token' # None /\ token'.refresh # None
  <2>1. named /\ token # None /\ token.refresh # None /\ token \in Token
    BY <1>4 DEF StoreAccess, NoUploadOnLeftovers, CredTypeInv, TypeOK
  <2>2. seen[h] \in Token
    BY <1>4 DEF StoreAccess, CredTypeInv, SeenOK
  <2>3. PICK a \in AccessTokens(seen[h]) : token' = [token EXCEPT !.access = a]
    BY <1>4, <2>1, Zenon DEF StoreAccess
  <2>4. token' \in Token /\ token'.refresh = token.refresh
    BY <2>1, <2>2, <2>3 DEF Token, AccessTokens
  <2> QED BY <2>1, <2>4, NoTokenAssumption DEF NoTokenAssumption
<1>5. \/ UNCHANGED <<token, named>>
      \/ \E h \in Handlers : SaveToken(h) \/ ClearToken(h) \/ StoreAccess(h)
  BY DEF Next, Handle, Rest, vars, document, Login, Expire, Crash, Message, PutCode,
     DropPending, Continue, Exchange, CreateRemote, Logout, RemoveRemote, Use, UseFails
<1> QED BY <1>1, <1>2, <1>3, <1>4, <1>5

\* A named remote goes with a whole login: no upload is tried on what a late use
\* of Drive left of a token.
THEOREM UploadsNeedALogin == Spec => []NoUploadOnLeftovers
  BY UseInit, NameStep, CredTypeInvariant, PTL DEF Spec

--------------------------------------------------------------------------------
(* The two stores.                                                            *)

LEMMA StoresInit == Init => StoresInv
  BY DEF Init, StoresInv, Lone, Connecting, LoggingIn, LoggingOut, Agree

\* Where a handler is, as far as the stores are concerned.
LEMMA Places ==
  ASSUME CredTypeInv
  PROVE  /\ pc \in [Handlers -> Steps]
         /\ seen \in [Handlers -> PendingLogin \cup Token \cup Codes \cup {None}]
         /\ rival \subseteq Connecting /\ Connecting \subseteq Handlers
         /\ \A h \in Handlers : h \in Connecting <=>
              pc[h] \in {"exchange", "remote", "save", "remove", "clear"}
  BY DEF CredTypeInv, TypeOK, Connecting, LoggingIn, LoggingOut

\* A step beside every login and logout, which keeps the account of a named remote.
LEMMA StoresBeside ==
  ASSUME CredTypeInv, StoresInv, NEW h \in Handlers, h \notin Connecting,
         UNCHANGED <<hasDocument, remote, named, mixed>>,
         NEW l \in Steps, pc' = [pc EXCEPT ![h] = l], l \notin LoggingIn \cup LoggingOut,
         \A g \in Handlers : g # h => seen'[g] = seen[g],
         rival' \in {rival, rival \ {h}},
         named => token'.refresh = token.refresh
  PROVE  StoresInv'
<1>1. Connecting' = Connecting /\ rival' = rival
      /\ \A g \in Connecting : pc'[g] = pc[g] /\ seen'[g] = seen[g]
  BY Places DEF Connecting
<1>2. \A g \in Handlers : /\ Lone(g)' <=> Lone(g)
                          /\ pc'[g] \in {"save", "clear"} => g \in Connecting
                          /\ pc[g] \in {"save", "clear"} => g \in Connecting
  BY <1>1, Places DEF Lone, Connecting, LoggingIn, LoggingOut
<1>3. Agree => Agree'
  BY DEF Agree
<1> QED BY <1>1, <1>2, <1>3 DEF StoresInv, Lone

\* A login or logout that begins is a rival of those under way.
LEMMA StoresBegin ==
  ASSUME CredTypeInv, StoresInv, NEW h \in Handlers, Continue(h) \/ Logout(h)
  PROVE  StoresInv'
<1>1. /\ pc[h] = "ready"
      /\ UNCHANGED <<hasDocument, remote, named, mixed, token>>
      /\ \/ pc' = [pc EXCEPT ![h] = "exchange"] \/ pc' = [pc EXCEPT ![h] = "remove"]
         \/ pc' = [pc EXCEPT ![h] = "clear"] /\ ~named
      /\ rival' = IF Connecting = {} THEN rival ELSE rival \cup Connecting \cup {h}
  BY DEF Continue, Logout, BeginConnecting, Begin, document
<1>2. Connecting' = Connecting \cup {h} /\ h \notin Connecting
      /\ \A g \in Handlers : g # h => pc'[g] = pc[g]
  BY <1>1, Places DEF Connecting, LoggingIn, LoggingOut
<1>3. CASE Connecting = {}
  <2>1. \A g \in Handlers : Lone(g)' => g = h
    BY <1>2, <1>3 DEF Lone
  <2>2. \A g \in Handlers : pc[g] \notin {"save", "clear"}
    BY <1>3, Places
  <2>3. pc'[h] # "save" /\ (pc'[h] = "clear" => ~named)
    BY <1>1, Places
  <2>4. Agree' <=> Agree
    BY <1>1 DEF Agree
  <2> QED BY <1>1, <1>2, <1>3, <2>1, <2>2, <2>3, <2>4 DEF StoresInv, Agree
<1>4. CASE Connecting # {}
  <2>1. \A g \in Handlers : ~Lone(g)'
    BY <1>1, <1>2, <1>4 DEF Lone
  <2>2. (\A g \in Handlers : pc'[g] \notin {"save", "clear"})
          => (\A g \in Handlers : pc[g] \notin {"save", "clear"})
    BY <1>1, <1>2
  <2>3. Agree' <=> Agree
    BY <1>1 DEF Agree
  <2> QED BY <1>1, <2>1, <2>2, <2>3 DEF StoresInv
<1> QED BY <1>3, <1>4

\* A login or logout under way, that leaves its place or ends.
Leaves(h) == /\ h \in Connecting
             /\ \/ UNCHANGED <<seen, rival>>
                \/ /\ rival' = rival \ {h}
                   /\ \A g \in Handlers : g # h => seen'[g] = seen[g]
             /\ \E l \in Steps : pc' = [pc EXCEPT ![h] = l]
             /\ rival' = rival \/ pc'[h] \notin LoggingIn \cup LoggingOut

LEMMA LoneLeaves ==
  ASSUME CredTypeInv, StoresInv, NEW h \in Handlers, Leaves(h)
  PROVE  /\ \A g \in Handlers : Lone(g)' => Lone(g) /\ Connecting' = {g}
         /\ \A g \in Handlers : g # h => pc'[g] = pc[g] /\ seen'[g] = seen[g]
         /\ \A g \in Handlers : Lone(g) /\ g # h => FALSE
<1>1. /\ \A g \in Handlers : g # h => pc'[g] = pc[g] /\ seen'[g] = seen[g]
      /\ Connecting' \subseteq Connecting
      /\ \A g \in Handlers : Lone(g)' => Lone(g)
  BY Places DEF Leaves, Lone, Connecting
<1>2. \A g \in Handlers : Lone(g) => g = h
  BY DEF Leaves, StoresInv
<1> QED BY <1>1, <1>2 DEF StoresInv, Lone

LEMMA StoresExchange ==
  ASSUME CredTypeInv, StoresInv, NEW h \in Handlers, Exchange(h)
  PROVE  StoresInv'
<1>1. /\ pc[h] = "exchange"
      /\ UNCHANGED <<hasDocument, remote, named, mixed, token>>
      /\ pc' = [pc EXCEPT ![h] = "remote"] \/ pc' = [pc EXCEPT ![h] = "ready"]
      /\ Leaves(h)
  BY Places DEF Exchange, Goto, Done, document, Leaves, Steps, LoggingIn, LoggingOut
<1>2. \A g \in Handlers : Lone(g)' => Connecting' = {g} /\ pc'[g] \notin {"save", "clear"}
  BY <1>1, LoneLeaves, Places
<1>3. (\A g \in Handlers : pc'[g] \notin {"save", "clear"})
        => (\A g \in Handlers : pc[g] \notin {"save", "clear"})
  BY <1>1, LoneLeaves
<1>4. Agree' <=> Agree
  BY <1>1 DEF Agree
<1> QED BY <1>1, <1>2, <1>3, <1>4 DEF StoresInv

LEMMA StoresCreate ==
  ASSUME CredTypeInv, StoresInv, NEW h \in Handlers, CreateRemote(h)
  PROVE  StoresInv'
<1>1. /\ pc[h] = "remote"
      /\ UNCHANGED <<hasDocument, named, mixed, token>>
      /\ \/ /\ pc' = [pc EXCEPT ![h] = "save"] /\ remote' = seen[h] /\ UNCHANGED seen
         \/ /\ pc' = [pc EXCEPT ![h] = "ready"] /\ UNCHANGED remote
      /\ Leaves(h)
  BY Places DEF CreateRemote, Goto, Done, document, Leaves, Steps, LoggingIn, LoggingOut
<1>2. \A g \in Handlers : Lone(g)' => /\ Connecting' = {g} /\ g = h
                                      /\ pc'[g] # "clear"
                                      /\ pc'[g] = "save" => remote' = seen'[g]
  BY <1>1, LoneLeaves, Places
<1>3. CASE pc' = [pc EXCEPT ![h] = "save"]
  <2>1. pc'[h] = "save"
    BY <1>3, Places
  <2> QED BY <1>1, <1>2, <2>1 DEF StoresInv
<1>4. CASE pc' = [pc EXCEPT ![h] = "ready"] /\ UNCHANGED remote
  <2>1. (\A g \in Handlers : pc'[g] \notin {"save", "clear"})
          => (\A g \in Handlers : pc[g] \notin {"save", "clear"})
    BY <1>1, LoneLeaves
  <2>2. Agree' <=> Agree
    BY <1>1, <1>4 DEF Agree
  <2> QED BY <1>1, <1>2, <2>1, <2>2 DEF StoresInv
<1> QED BY <1>1, <1>3, <1>4

\* The lone login ends with the remote and the token of its code.
LEMMA StoresSave ==
  ASSUME CredTypeInv, StoresInv, NEW h \in Handlers, SaveToken(h)
  PROVE  StoresInv'
<1>1. pc[h] = "save" /\ UNCHANGED <<hasDocument, remote>>
  BY DEF SaveToken
<1>2. /\ pc' = [pc EXCEPT ![h] = "delete"] \/ pc' = [pc EXCEPT ![h] = "ready"]
      /\ Leaves(h)
  BY Places DEF SaveToken, Done, Leaves, Steps, LoggingIn, LoggingOut
<1>3. \A g \in Handlers : ~Lone(g)'
  <2>1. \A g \in Handlers : Lone(g)' => g = h
    BY <1>2, LoneLeaves
  <2>2. h \notin Connecting'
    BY <1>2, Places DEF Connecting, LoggingIn, LoggingOut
  <2> QED BY <2>1, <2>2 DEF Lone
<1>4. ASSUME hasDocument, ~mixed'
      PROVE  Agree'
  <2>1. /\ mixed' = (h \in rival)
        /\ token' = [refresh |-> seen[h], access |-> seen[h]] /\ named' = TRUE
    BY <1>4, Zenon DEF SaveToken
  <2>2. Lone(h)
    BY <1>1, <1>4, <2>1, Places DEF Lone
  <2>3. remote' = seen[h]
    BY <1>1, <2>2 DEF StoresInv
  <2> QED BY <2>1, <2>3 DEF Agree
<1> QED BY <1>1, <1>3, <1>4 DEF StoresInv

LEMMA StoresRemove ==
  ASSUME CredTypeInv, StoresInv, NEW h \in Handlers, RemoveRemote(h)
  PROVE  StoresInv'
<1>1. /\ pc[h] = "remove" /\ UNCHANGED <<hasDocument, named, token>>
      /\ remote' = None \/ mixed'
      /\ pc' = [pc EXCEPT ![h] = "clear"]
      /\ Leaves(h)
  BY Places DEF RemoveRemote, Goto, document, Leaves, Steps, LoggingIn, LoggingOut
<1>2. pc'[h] = "clear"
  BY <1>1, Places
<1>3. \A g \in Handlers : Lone(g)' => Connecting' = {g} /\ g = h
  BY <1>1, LoneLeaves
<1> QED BY <1>1, <1>2, <1>3 DEF StoresInv

\* The lone logout ends without a remote and without a token.
LEMMA StoresClear ==
  ASSUME CredTypeInv, StoresInv, NEW h \in Handlers, ClearToken(h)
  PROVE  StoresInv'
<1>1. pc[h] = "clear" /\ UNCHANGED <<hasDocument, remote>>
  BY DEF ClearToken
<1>2. pc' = [pc EXCEPT ![h] = "ready"] /\ Leaves(h)
  BY Places DEF ClearToken, Done, Leaves, Steps, LoggingIn, LoggingOut
<1>3. \A g \in Handlers : ~Lone(g)'
  <2>1. \A g \in Handlers : Lone(g)' => g = h
    BY <1>2, LoneLeaves
  <2>2. h \notin Connecting'
    BY <1>2, Places DEF Connecting, LoggingIn, LoggingOut
  <2> QED BY <2>1, <2>2 DEF Lone
<1>4. ASSUME hasDocument, ~mixed'
      PROVE  Agree'
  <2>1. mixed' = (mixed \/ h \in rival) /\ named' = FALSE
    BY <1>4, Zenon DEF ClearToken
  <2>2. Lone(h) /\ ~mixed
    BY <1>1, <1>4, <2>1, Places DEF Lone
  <2>3. remote' = None
    BY <1>1, <1>4, <2>2 DEF StoresInv
  <2> QED BY <2>1, <2>3 DEF Agree
<1> QED BY <1>1, <1>3, <1>4 DEF StoresInv

LEMMA StoresRest ==
  ASSUME CredTypeInv, StoresInv, Login \/ Expire \/ Crash \/ UNCHANGED vars
  PROVE  StoresInv'
<1>1. CASE Login \/ Expire \/ UNCHANGED vars
  <2>1. UNCHANGED <<hasDocument, token, named, remote, pc, seen, rival, mixed>>
    BY <1>1 DEF Login, Expire, vars, document, history
  <2>2. UNCHANGED <<Connecting, Agree>> /\ \A g \in Handlers : Lone(g)' <=> Lone(g)
    BY <2>1 DEF Connecting, Agree, Lone
  <2> QED BY <2>1, <2>2 DEF StoresInv
<1>2. CASE Crash
  <2>1. /\ UNCHANGED <<hasDocument, token, named, remote>>
        /\ \A g \in Handlers : pc'[g] = "ready"
        /\ ~mixed' => ~mixed /\ \A g \in Handlers : pc[g] \notin {"save", "clear"}
    BY <1>2 DEF Crash, document
  <2>2. \A g \in Handlers : ~Lone(g)'
    BY <2>1 DEF Lone, Connecting, LoggingIn, LoggingOut
  <2>3. Agree' <=> Agree
    BY <2>1 DEF Agree
  <2> QED BY <2>1, <2>2, <2>3 DEF StoresInv
<1> QED BY <1>1, <1>2

LEMMA StoresStep == CredTypeInv /\ NoUploadOnLeftovers /\ StoresInv /\ [Next]_vars => StoresInv'
<1> SUFFICES ASSUME CredTypeInv, NoUploadOnLeftovers, StoresInv, [Next]_vars PROVE StoresInv'
  OBVIOUS
<1>1. ASSUME NEW h \in Handlers,
             \/ Message(h) \/ PutCode(h) \/ DropPending(h) \/ Use(h) \/ UseFails(h)
      PROVE  StoresInv'
  <2>1. /\ UNCHANGED <<hasDocument, token, remote, named, mixed>>
        /\ pc[h] \in Steps \ (LoggingIn \cup LoggingOut)
        /\ \E l \in Steps \ (LoggingIn \cup LoggingOut) : pc' = [pc EXCEPT ![h] = l]
        /\ rival' \in {rival, rival \ {h}}
    BY <1>1 DEF Message, PutCode, DropPending, Use, UseFails, Begin, Done, document, history,
       Steps, LoggingIn, LoggingOut
  <2>2. \A g \in Handlers : g # h => seen'[g] = seen[g]
    BY <1>1, Places DEF Message, PutCode, DropPending, Use, UseFails, Begin, Done
  <2> QED BY <2>1, <2>2, StoresBeside DEF Connecting
<1>2. ASSUME NEW h \in Handlers, StoreAccess(h)
      PROVE  StoresInv'
  <2>1. /\ UNCHANGED <<hasDocument, remote, named, mixed>>
        /\ pc[h] = "use" /\ pc' = [pc EXCEPT ![h] = "ready"]
        /\ rival' = rival \ {h} /\ seen' = [seen EXCEPT ![h] = None]
    BY <1>2 DEF StoreAccess, Done
  <2>2. \A g \in Handlers : g # h => seen'[g] = seen[g]
    BY <2>1, Places
  <2>3. ASSUME named PROVE token'.refresh = token.refresh
    <3>1. token # None /\ token \in Token
      BY <2>3 DEF NoUploadOnLeftovers, CredTypeInv, TypeOK
    <3>2. token' = token \/ \E a \in AccessTokens(seen[h]) : token' = [token EXCEPT !.access = a]
      BY <1>2, <3>1, Zenon DEF StoreAccess
    <3> QED BY <3>1, <3>2 DEF Token
  <2> QED BY <2>1, <2>2, <2>3, StoresBeside DEF Connecting, Steps, LoggingIn, LoggingOut
<1> QED BY <1>1, <1>2, StoresBegin, StoresExchange, StoresCreate, StoresSave, StoresRemove,
           StoresClear, StoresRest DEF Next, Handle, Rest

LEMMA StoresInvariant == Spec => []StoresInv
  BY StoresInit, StoresStep, UploadsNeedALogin, CredTypeInvariant, PTL DEF Spec

\* Once a login or logout has run alone and without failure, MongoDB and rclone
\* agree about the user's account until one next fails or runs beside another.
THEOREM StoresAgree == Spec => []TokenAndRemoteAgree
<1>1. CredTypeInv /\ StoresInv => TokenAndRemoteAgree
  <2> SUFFICES ASSUME CredTypeInv, StoresInv, Connecting = {}
               PROVE  \A g \in Handlers : pc[g] \notin {"save", "clear"}
    BY DEF StoresInv, TokenAndRemoteAgree, Agree
  <2> QED BY Places
<1> QED BY <1>1, StoresInvariant, CredTypeInvariant, PTL
================================================================================
