------------------------------ MODULE Credentials ------------------------------
(* One user's connection to Google Drive: the token and the name of the       *)
(* rclone remote in the user document (src/internal/database/users.go), the   *)
(* remote in rclone's configuration (src/internal/rclone/rclone.go), and the  *)
(* pending login (src/internal/database/state.go) that /login, the pasted     *)
(* code and the Continue button work on (src/internal/handlers/login.go).     *)
(* Every update of the user is handled in a goroutine of its own, and each    *)
(* call to MongoDB, to Google or of rclone is a step.  A code stands for the  *)
(* Google account the user grants access to with it.                          *)
EXTENDS Integers, FiniteSets

CONSTANTS
  Codes,        \* authorization codes Google hands out, each good for one exchange
  None,         \* no code, no token, no document
  Handlers,     \* updates handled at a time
  Documents,    \* whether the user has a document: the owner need not (auth.go:42)
  MaxLogins,    \* bound: /login commands
  MaxHandled,   \* bound: messages, presses, /logout commands and uses of Drive
  MaxFaults,    \* bound: calls that fail
  MaxCrashes    \* bound: ends of the process

ASSUME CredentialsAssumption ==
  /\ None \notin Codes /\ Documents \subseteq BOOLEAN
  /\ MaxLogins \in Nat /\ MaxHandled \in Nat /\ MaxFaults \in Nat /\ MaxCrashes \in Nat

VARIABLES
  hasDocument,  \* the user document exists
  token,        \* its google_token: None, or the account of each of its two tokens
  named,        \* its rclone_remote is set; the name never changes
  remote,       \* rclone's configuration: the account of the remote, or None
  pending,      \* the pending login: which /login it is from, and the code
  logins,       \* /login commands so far
  expired,      \* the first so many of them have expired
  spent,        \* codes Google has exchanged
  pc,           \* how far each handler is
  seen,         \* what it has read: a pending login, a code or a token
  \* history
  rival,        \* handlers whose login or logout ran beside another one
  mixed,        \* token and remote may differ: see TokenAndRemoteAgree
  raced,        \* the token was written over under a use of Drive
  handled, faults, crashes

document == <<hasDocument, token, named>>
login    == <<pending, logins, expired, spent>>
history  == <<rival, mixed, raced>>
bounds   == <<handled, faults, crashes>>
vars     == <<document, remote, login, pc, seen, history, bounds>>

--------------------------------------------------------------------------------
\* the two stores are written by a login and by a logout
LoggingIn  == {"exchange", "remote", "save"}
LoggingOut == {"remove", "clear"}
Connecting == {h \in Handlers : pc[h] \in LoggingIn \cup LoggingOut}
Using      == {h \in Handlers : pc[h] = "use"}

PendingLogin == [login : 1..MaxLogins, code : Codes \cup {None}]
Token        == [refresh : Codes \cup {None}, access : Codes]

ASSUME NoTokenAssumption == None \notin Token

Expired(p)   == p.login <= expired

Init ==
  /\ hasDocument \in Documents
  /\ token = None /\ named = FALSE /\ remote = None
  /\ pending = None /\ logins = 0 /\ expired = 0 /\ spent = {}
  /\ pc = [h \in Handlers |-> "ready"]
  /\ seen = [h \in Handlers |-> None]
  /\ rival = {} /\ mixed = FALSE /\ raced = FALSE
  /\ handled = 0 /\ faults = 0 /\ crashes = 0

\* a handler starts with a read, and goes on with what it saw
Begin(h, l, what) ==
  /\ pc[h] = "ready" /\ handled < MaxHandled
  /\ handled' = handled + 1
  /\ pc' = [pc EXCEPT ![h] = l]
  /\ seen' = [seen EXCEPT ![h] = what]
  /\ UNCHANGED <<faults, crashes>>

BeginConnecting(h, l, what) ==
  /\ Begin(h, l, what)
  /\ rival' = IF Connecting = {} THEN rival ELSE rival \cup Connecting \cup {h}
  /\ UNCHANGED <<mixed, raced>>

Goto(h, l) == pc' = [pc EXCEPT ![h] = l] /\ UNCHANGED <<seen, rival>>

Done(h) == /\ pc' = [pc EXCEPT ![h] = "ready"]
           /\ seen' = [seen EXCEPT ![h] = None]
           /\ rival' = rival \ {h}

Works == UNCHANGED bounds
Fails == faults < MaxFaults /\ faults' = faults + 1 /\ UNCHANGED <<handled, crashes>>

--------------------------------------------------------------------------------
\* /login: the last of it, the Upsert of a new pending login
Login ==
  /\ logins < MaxLogins
  /\ logins' = logins + 1
  /\ pending' = [login |-> logins', code |-> None]
  /\ UNCHANGED <<document, remote, expired, spent, pc, seen, history, bounds>>

\* fifteen minutes later
Expire ==
  /\ expired < logins
  /\ expired' = expired + 1
  /\ UNCHANGED <<document, remote, pending, logins, spent, pc, seen, history, bounds>>

\* HandleLoginMessage up to the read; without a pending login the text goes on to
\* the next gate, and a text that is no code changes nothing
Message(h) ==
  /\ pending # None
  /\ \/ Expired(pending) /\ Begin(h, "drop", None)
     \/ /\ ~Expired(pending)
        /\ \E c \in Codes : Begin(h, "put", [pending EXCEPT !.code = c])
  /\ UNCHANGED <<document, remote, login, history>>

\* the document read goes back as a whole, with the code
PutCode(h) ==
  /\ pc[h] = "put"
  /\ \/ Works /\ pending' = seen[h]
     \/ Fails /\ UNCHANGED pending
  /\ Done(h)
  /\ UNCHANGED <<document, remote, logins, expired, spent, mixed, raced>>

\* Delete's error is ignored, by CompleteLogin too
DropPending(h) ==
  /\ pc[h] \in {"drop", "delete"}
  /\ \/ Works /\ pending' = None
     \/ Fails /\ UNCHANGED pending
  /\ Done(h)
  /\ UNCHANGED <<document, remote, logins, expired, spent, mixed, raced>>

--------------------------------------------------------------------------------
(* CompleteLogin, behind the Continue button.                                 *)

\* it does not ask whether the pending login has expired
Continue(h) ==
  /\ pending # None /\ pending.code # None
  /\ BeginConnecting(h, "exchange", pending.code)
  /\ UNCHANGED <<document, remote, login>>

\* Google refuses a code it has exchanged; its answer may also be lost
Exchange(h) ==
  /\ pc[h] = "exchange"
  /\ \/ seen[h] \notin spent /\ Works /\ Goto(h, "remote") /\ spent' = spent \cup {seen[h]}
     \/ seen[h] \in spent /\ Works /\ Done(h) /\ UNCHANGED spent
     \/ Fails /\ Done(h) /\ spent' \in {spent, spent \cup {seen[h]}}
  /\ UNCHANGED <<document, remote, pending, logins, expired, mixed, raced>>

CreateRemote(h) ==
  /\ pc[h] = "remote"
  /\ \/ Works /\ Goto(h, "save") /\ remote' = seen[h]
     \/ Fails /\ Done(h) /\ UNCHANGED remote
  /\ UNCHANGED <<document, login, mixed, raced>>

\* mutant: the name of the remote is not saved
SaveTokenOnly(h) ==
  /\ pc[h] = "save" /\ Works
  /\ token' = IF hasDocument THEN [refresh |-> seen[h], access |-> seen[h]] ELSE token
  /\ mixed' = (h \in rival) /\ raced' = (Using # {})
  /\ pc' = [pc EXCEPT ![h] = "delete"] /\ rival' = rival \ {h}
  /\ UNCHANGED <<hasDocument, named, remote, login, seen>>

\* SaveGoogleToken, an update without upsert: without a document it matches
\* nothing and succeeds.  Then the button's message says that login is complete.
SaveToken(h) ==
  /\ pc[h] = "save"
  /\ \/ /\ Works
        /\ IF hasDocument
           THEN /\ token' = [refresh |-> seen[h], access |-> seen[h]]
                /\ named' = TRUE
           ELSE UNCHANGED <<token, named>>
        /\ mixed' = (h \in rival)
        /\ raced' = (Using # {})
        /\ pc' = [pc EXCEPT ![h] = "delete"] /\ rival' = rival \ {h} /\ UNCHANGED seen
     \/ Fails /\ Done(h) /\ mixed' = TRUE /\ UNCHANGED <<token, named, raced>>
  /\ UNCHANGED <<hasDocument, remote, login>>

--------------------------------------------------------------------------------
(* Logout.                                                                    *)

\* without a token the user is told that he is not logged in
Logout(h) ==
  /\ token # None
  /\ BeginConnecting(h, IF named THEN "remove" ELSE "clear", None)
  /\ UNCHANGED <<document, remote, login>>

\* the error is ignored
RemoveRemote(h) ==
  /\ pc[h] = "remove"
  /\ \/ Works /\ remote' = None /\ UNCHANGED mixed
     \/ Fails /\ mixed' = TRUE /\ UNCHANGED remote
  /\ Goto(h, "clear")
  /\ UNCHANGED <<document, login, raced>>

\* mutant: only the access token and the name are unset
ClearAccess(h) ==
  /\ pc[h] = "clear" /\ Works
  /\ token' = IF token = None THEN None ELSE [token EXCEPT !.refresh = None]
  /\ named' = FALSE
  /\ mixed' = (mixed \/ h \in rival) /\ raced' = (Using # {})
  /\ Done(h)
  /\ UNCHANGED <<hasDocument, remote, login>>

\* mutant: the name of the remote stays
ClearTokenOnly(h) ==
  /\ pc[h] = "clear" /\ Works
  /\ token' = None
  /\ mixed' = (mixed \/ h \in rival) /\ raced' = (Using # {})
  /\ Done(h)
  /\ UNCHANGED <<hasDocument, named, remote, login>>

\* ClearGoogleToken
ClearToken(h) ==
  /\ pc[h] = "clear"
  /\ \/ /\ Works
        /\ token' = None /\ named' = FALSE
        /\ mixed' = (mixed \/ h \in rival)
        /\ raced' = (Using # {})
     \/ Fails /\ mixed' = TRUE /\ UNCHANGED <<token, named, raced>>
  /\ Done(h)
  /\ UNCHANGED <<hasDocument, remote, login>>

--------------------------------------------------------------------------------
(* A use of Drive: /myfiles, a press in the explorer, the end of an upload.   *)

\* DriveClientFor asks for a token only, not for its refresh token
Use(h) ==
  /\ token # None
  /\ Begin(h, "use", token)
  /\ UNCHANGED <<document, remote, login, history>>

\* mutant: an empty refresh token is used all the same
AccessTokensUnchecked(t) == {t.access, t.refresh}

\* Token hands out the access token read, or a new one when that has expired
AccessTokens(t) == {t.access, t.refresh} \ {None}

\* UpdateAccessToken, called after every Token and with its error ignored.  It
\* sets a field of google_token, and so makes one where there is none.
StoreAccess(h) ==
  /\ pc[h] = "use"
  /\ \/ /\ Works
        /\ \E a \in AccessTokens(seen[h]) :
             token' = IF token = None THEN [refresh |-> None, access |-> a]
                      ELSE [token EXCEPT !.access = a]
     \/ Fails /\ UNCHANGED token
  /\ Done(h)
  /\ UNCHANGED <<hasDocument, named, remote, login, mixed, raced>>

\* Token fails when it has to refresh and there is nothing to refresh with, or
\* Google says no; the handler's error ends it
UseFails(h) ==
  /\ pc[h] = "use"
  /\ \/ seen[h].refresh = None /\ Works
     \/ Fails
  /\ Done(h)
  /\ UNCHANGED <<document, remote, login, mixed, raced>>

--------------------------------------------------------------------------------
\* A login or logout that has written one of the stores never writes the other.
Crash ==
  /\ crashes < MaxCrashes
  /\ crashes' = crashes + 1
  /\ pc' = [h \in Handlers |-> "ready"]
  /\ seen' = [h \in Handlers |-> None]
  /\ rival' = {}
  /\ mixed' = (mixed \/ \E h \in Handlers : pc[h] \in {"save", "clear"})
  /\ UNCHANGED <<document, remote, login, raced, handled, faults>>

Handle(h) ==
  \/ Message(h) \/ PutCode(h) \/ DropPending(h)
  \/ Continue(h) \/ Exchange(h) \/ CreateRemote(h) \/ SaveToken(h)
  \/ Logout(h) \/ RemoveRemote(h) \/ ClearToken(h)
  \/ Use(h) \/ StoreAccess(h) \/ UseFails(h)

\* every update is handled: the bot waits for the next one
Rest == (\A h \in Handlers : pc[h] = "ready") /\ UNCHANGED vars

Next == Login \/ Expire \/ (\E h \in Handlers : Handle(h)) \/ Crash \/ Rest

Spec == Init /\ [][Next]_vars

--------------------------------------------------------------------------------
Steps == {"ready", "put", "drop", "delete", "use"} \cup LoggingIn \cup LoggingOut

TypeOK ==
  /\ hasDocument \in BOOLEAN /\ named \in BOOLEAN
  /\ token \in Token \cup {None}
  /\ remote \in Codes \cup {None}
  /\ pending \in PendingLogin \cup {None}
  /\ logins \in 0..MaxLogins /\ expired \in 0..logins
  /\ spent \subseteq Codes
  /\ pc \in [Handlers -> Steps]
  /\ seen \in [Handlers -> PendingLogin \cup Token \cup Codes \cup {None}]
  /\ rival \subseteq Connecting
  /\ mixed \in BOOLEAN /\ raced \in BOOLEAN
  /\ handled \in 0..MaxHandled /\ faults \in 0..MaxFaults /\ crashes \in 0..MaxCrashes

\* The account a user's uploads go to, by rclone's remote, is the one the token in
\* MongoDB is for, and without a login there is no remote: whatever happened
\* before, once a login ran without failure and with no other login or logout
\* beside it, and until one of these next fails half-way or runs beside another.
TokenAndRemoteAgree ==
  hasDocument /\ ~mixed /\ Connecting = {}
    => remote = IF named THEN token.refresh ELSE None

\* A token has a refresh token, for the account its access token is for ("login
\* only once", oauth.go:112), unless a use of Drive was under way while a login
\* or logout wrote the document.
TokenIsWhole ==
  token # None /\ ~raced => token.refresh = token.access

\* Uploads ask for both fields (processor.go:74): a token without a refresh token,
\* as a late StoreAccess leaves one after /logout, never goes with a named remote.
NoUploadOnLeftovers == named => token # None /\ token.refresh # None

\* What a comment says; the run shows what happens to a user without a document.
\* users.go:78: "SaveGoogleToken persists the OAuth token + rclone remote name
\* after a successful /login".
CompleteLoginIsSaved ==
  [][\A h \in Handlers : pc[h] = "save" /\ pc'[h] = "delete"
       => token' # None /\ named']_vars
================================================================================
