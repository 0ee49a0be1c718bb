-------------------------------- MODULE Explorer -------------------------------
(* The /myfiles browser (src/internal/explorer/explorer.go): one message, the *)
(* navigation state MongoDB keeps for it (src/internal/database/state.go),    *)
(* the cached listings, and the button presses (src/internal/callbacks) and   *)
(* text replies (src/internal/handlers/upload.go, myfiles.go) that change     *)
(* them, each handled in a goroutine of its own that reads the whole state,   *)
(* changes it and replaces it.                                                *)
EXTENDS Integers, Sequences, SequencesExt

CONSTANTS
  Root,         \* the root folder
  Folders,      \* the other folders; each is shown in every listing
  Query,        \* the text searched for
  None,         \* no search
  NumPages,     \* pages Drive has of every listing
  Handlers,     \* goroutines
  MaxDepth,     \* bound: length of the breadcrumb
  MaxPresses,   \* bound: presses and messages
  MaxFaults,    \* bound: failing calls of Drive, MongoDB and Telegram
  MaxCrashes    \* bound: ends of the process

ASSUME ExplorerAssumption ==
  /\ Root \notin Folders /\ Query # None
  \* a button that opens a folder is none of the others
  /\ Folders \cap {"none", "open", "back", "home", "refresh", "search", "clearsearch",
                   "prevpage", "nextpage", "file", "fileback", "rename", "delete",
                   "delconfirm", "delcancel", "text", "query", "newname"} = {}
  /\ NumPages \in Nat \ {0} /\ MaxDepth \in Nat \ {0}
  /\ MaxPresses \in Nat /\ MaxFaults \in Nat /\ MaxCrashes \in Nat

VARIABLES
  state,      \* the ExplorerState document, NoState before Open
  cache,      \* per folder, search and page number: the page of Drive's listing
              \* that is cached for it, or Nothing
  view,       \* what the message shows
  pc, op,     \* handlers: where they are and what they were asked for
  loc,        \* handlers: the document as they read and changed it
  got,        \* handlers: the page of Drive's listing they have
  \* history
  asked,      \* prompts the user asked for and has not answered
  overlapped, \* two handlers were at work at a time
  skipped,    \* a page was turned to that Drive gave no token for
  presses, faults, crashes

handlers == <<pc, op, loc, got>>
history  == <<asked, overlapped, skipped>>
bounds   == <<presses, faults, crashes>>
vars     == <<state, cache, view, handlers, history, bounds>>

--------------------------------------------------------------------------------
PageNumbers == 1..(MaxPresses + 2)
Keys        == (Folders \cup {Root}) \X {Query, None} \X PageNumbers
\* the pages of Drive's listings; a token leads to one of them and stands for it
DrivePages  == (Folders \cup {Root}) \X {Query, None} \X (1..NumPages)
Nothing     == <<>>
NoTokens    == [p \in PageNumbers |-> Nothing]
EmptyCache  == [k \in Keys |-> Nothing]

Document == [crumbs : Seq(Folders \cup {Root}), folder : Folders \cup {Root},
             page : PageNumbers, query : {Query, None},
             tokens : [PageNumbers -> DrivePages \cup {Nothing}],
             rename : BOOLEAN, search : BOOLEAN]

Opened == [crumbs |-> <<Root>>, folder |-> Root, page |-> 1, query |-> None,
           tokens |-> NoTokens, rename |-> FALSE, search |-> FALSE]

NoState == [Opened EXCEPT !.crumbs = <<>>]

\* a view that is no listing: a menu, a prompt or a confirmation
Menu(k) == [kind |-> k, folder |-> Root, query |-> None, page |-> 1, listed |-> Nothing,
            next |-> FALSE]

Key(d) == <<d.folder, d.query, d.page>>

\* the first page of another listing
Fresh(d, f, q) == [d EXCEPT !.folder = f, !.query = q, !.page = 1, !.tokens = NoTokens]

Init ==
  /\ state = NoState /\ cache = EmptyCache
  /\ view = Menu("none")
  /\ pc = [h \in Handlers |-> "ready"]
  /\ op = [h \in Handlers |-> "none"]
  /\ loc = [h \in Handlers |-> NoState]
  /\ got = [h \in Handlers |-> Nothing]
  /\ asked = {} /\ overlapped = FALSE /\ skipped = FALSE
  /\ presses = 0 /\ faults = 0 /\ crashes = 0

--------------------------------------------------------------------------------
(* What a user can do: press a button of what the message shows, or write.    *)

Buttons ==
  CASE view.kind = "list" ->
         {"back", "home", "refresh", "search", "file"}
         \cup (IF Len(state.crumbs) < MaxDepth THEN Folders ELSE {})
         \cup (IF view.page > 1 THEN {"prevpage"} ELSE {})
         \cup (IF view.next THEN {"nextpage"} ELSE {})
         \cup (IF view.query # None THEN {"clearsearch"} ELSE {})
    [] view.kind = "file"   -> {"rename", "delete", "fileback"}
    [] view.kind = "rename" -> {"fileback"}
    [] view.kind = "delete" -> {"delconfirm", "delcancel"}
    [] OTHER                -> {}

\* where the handler of each starts
Entry(a) == CASE a \in {"file", "delete", "delcancel"} -> "edit"
              [] a = "delconfirm" -> "purge"
              [] a = "text"       -> "find"
              [] OTHER            -> "read"

Goto(h, l) == pc' = [pc EXCEPT ![h] = l] /\ UNCHANGED op

\* a handler returns: what it had read goes with it
Return(h) ==
  /\ pc'  = [pc EXCEPT ![h] = "ready"] /\ op' = [op EXCEPT ![h] = "none"]
  /\ loc' = [loc EXCEPT ![h] = NoState] /\ got' = [got EXCEPT ![h] = Nothing]

Begin(h, a) ==
  /\ pc[h] = "ready" /\ presses < MaxPresses
  /\ presses' = presses + 1
  /\ op' = [op EXCEPT ![h] = a] /\ pc' = [pc EXCEPT ![h] = Entry(a)]
  /\ overlapped' = (overlapped \/ \E g \in Handlers : pc[g] # "ready")
  /\ UNCHANGED <<state, cache, view, loc, got, asked, skipped, faults, crashes>>

\* Dispatch: the button decides the handler
Press(h) == \E a \in Buttons : Begin(h, a)

\* IncomingText, of a text that is not part of a login
Text(h) == state # NoState /\ Begin(h, "text")

\* /myfiles, once: its message is a new one, nobody else touches its document
Open(h) ==
  /\ state = NoState /\ pc[h] = "ready"
  /\ state' = Opened /\ loc' = [loc EXCEPT ![h] = Opened]
  /\ op' = [op EXCEPT ![h] = "open"] /\ pc' = [pc EXCEPT ![h] = "render"]
  /\ UNCHANGED <<cache, view, got, history, bounds>>

--------------------------------------------------------------------------------
(* The buttons that navigate: read the document, change it, replace it.       *)

\* mutant: Prev has no floor
ChangedUnclamped(a, d) ==
  CASE a = "prevpage" -> [d EXCEPT !.page = @ - 1]
    [] a = "nextpage" -> [d EXCEPT !.page = @ + 1]
    [] a = "search"   -> [d EXCEPT !.search = TRUE]
    [] a = "rename"   -> [d EXCEPT !.rename = TRUE]
    [] OTHER          -> d

\* mutant: opening a folder keeps the page tokens
ChangedKeepsTokens(a, d) ==
  CASE a \in Folders   -> [d EXCEPT !.crumbs = Append(@, a), !.folder = a, !.page = 1]
    [] a = "back"      -> LET up == IF Len(d.crumbs) > 1 THEN Front(d.crumbs) ELSE d.crumbs
                          IN  [d EXCEPT !.crumbs = up, !.folder = Last(up), !.page = 1]
    [] a = "nextpage"  -> [d EXCEPT !.page = @ + 1]
    [] OTHER           -> d

\* mutant: Back leaves the folder as it was
ChangedBackStays(a, d) ==
  CASE a \in Folders -> [Fresh(d, a, None) EXCEPT !.crumbs = Append(@, a)]
    [] a = "back" /\ Len(d.crumbs) > 1 -> [d EXCEPT !.crumbs = Front(@)]
    [] OTHER -> d

\* OpenFolder, Back, Home, Page, Search, ClearSearch, AwaitSearch, AwaitRename:
\* the document each makes of the one it read
Changed(a, d) ==
  CASE a \in Folders -> [Fresh(d, a, None) EXCEPT !.crumbs = Append(@, a)]
    [] a = "back" -> LET up == IF Len(d.crumbs) > 1 THEN Front(d.crumbs) ELSE d.crumbs
                     IN  [Fresh(d, Last(up), None) EXCEPT !.crumbs = up]
    [] a = "home"        -> [Fresh(d, Root, None) EXCEPT !.crumbs = SubSeq(@, 1, 1)]
    [] a = "nextpage"    -> [d EXCEPT !.page = @ + 1]
    [] a = "prevpage"    -> [d EXCEPT !.page = IF @ > 1 THEN @ - 1 ELSE 1]
    [] a = "query"       -> Fresh(d, d.folder, Query)
    [] a = "clearsearch" -> Fresh(d, d.folder, None)
    [] a = "search"      -> [d EXCEPT !.search = TRUE]
    [] a = "rename"      -> [d EXCEPT !.rename = TRUE]
    [] OTHER             -> d

\* mustState
Read(h) ==
  /\ pc[h] = "read"
  /\ loc' = [loc EXCEPT ![h] = Changed(op[h], state)]
  /\ Goto(h, CASE op[h] = "refresh" -> "invalidate"
               [] op[h] \in {"fileback", "delconfirm"} -> "render"
               [] OTHER -> "write")
  /\ UNCHANGED <<state, cache, view, got, history, bounds>>

\* the prompts a handler asks for
Asks(h) == {op[h]} \cap {"search", "rename"}

Upserted(h) ==
  /\ state' = loc[h]
  /\ asked' = asked \cup Asks(h)
  /\ skipped' = (skipped \/ (op[h] = "nextpage" /\ loc[h].tokens[loc[h].page] = Nothing))

\* mutant: a page that is cached is shown without the document being saved
WriteUncached(h) ==
  /\ pc[h] = "write"
  /\ IF op[h] = "back" /\ cache[Key(loc[h])] # Nothing
     THEN UNCHANGED <<state, asked, skipped>> ELSE Upserted(h)
  /\ Goto(h, IF Asks(h) # {} THEN "edit" ELSE "render")
  /\ UNCHANGED <<cache, view, loc, got, overlapped, bounds>>

\* Upsert
Write(h) ==
  /\ pc[h] = "write"
  /\ Upserted(h)
  /\ Goto(h, IF Asks(h) # {} THEN "edit" ELSE "render")
  /\ UNCHANGED <<cache, view, loc, got, overlapped, bounds>>

\* InvalidatePrefix, which ignores an error of Redis
DropListings ==
  \/ cache' = EmptyCache /\ UNCHANGED faults
  \/ faults < MaxFaults /\ faults' = faults + 1 /\ UNCHANGED cache

\* mutant: Refresh renders what is cached
InvalidateNothing(h) ==
  /\ pc[h] = "invalidate"
  /\ Goto(h, "render")
  /\ UNCHANGED <<state, cache, view, loc, got, history, bounds>>

\* Refresh drops the listings of its message
Invalidate(h) ==
  /\ pc[h] = "invalidate"
  /\ DropListings
  /\ Goto(h, "render")
  /\ UNCHANGED <<state, view, loc, got, history, presses, crashes>>

\* delconfirm: the file is deleted, every listing dropped, then RenderCurrent
Purge(h) ==
  /\ pc[h] = "purge"
  /\ DropListings
  /\ Goto(h, "read")
  /\ UNCHANGED <<state, view, loc, got, history, presses, crashes>>

--------------------------------------------------------------------------------
(* A text: an explorer message waiting for one takes it.                      *)

\* FindAwaiting; a text nobody waits for goes to the next gate
Find(h) ==
  /\ pc[h] = "find"
  /\ IF state.rename \/ state.search
     THEN loc' = [loc EXCEPT ![h] = state] /\ Goto(h, "clear") /\ UNCHANGED got
     ELSE Return(h)
  /\ UNCHANGED <<state, cache, view, history, bounds>>

\* the document without the flag that is found first
Cleared(d) == IF d.rename THEN [d EXCEPT !.rename = FALSE] ELSE [d EXCEPT !.search = FALSE]

\* which of the two fires
Prompt(d) == IF d.rename THEN "rename" ELSE "search"

\* mutant: the flag is not cleared
ClearNot(h) ==
  /\ pc[h] = "clear"
  /\ asked' = asked \ {Prompt(loc[h])}
  /\ op' = [op EXCEPT ![h] = IF loc[h].rename THEN "newname" ELSE "query"]
  /\ pc' = [pc EXCEPT ![h] = IF loc[h].rename THEN "apply" ELSE "read"]
  /\ UNCHANGED <<state, cache, view, loc, got, overlapped, skipped, bounds>>

\* the end of FindPending: Upsert; applyRename or applySearch is next
Clear(h) ==
  /\ pc[h] = "clear"
  /\ state' = Cleared(loc[h])
  /\ asked' = asked \ {Prompt(loc[h])}
  /\ op' = [op EXCEPT ![h] = IF loc[h].rename THEN "newname" ELSE "query"]
  /\ pc' = [pc EXCEPT ![h] = IF loc[h].rename THEN "apply" ELSE "read"]
  /\ UNCHANGED <<cache, view, loc, got, overlapped, skipped, bounds>>

\* applyRename
Apply(h) ==
  /\ pc[h] = "apply"
  /\ DropListings
  /\ Return(h)
  /\ UNCHANGED <<state, view, history, presses, crashes>>

--------------------------------------------------------------------------------
(* render, and the edit of the message.                                       *)

\* the page of Drive's listing ListPage returns
Listed(d) ==
  IF d.tokens[d.page] = Nothing THEN <<d.folder, d.query, 1>> ELSE d.tokens[d.page]

\* a page the cache still has
Hit(h) ==
  /\ pc[h] = "render" /\ cache[Key(loc[h])] # Nothing
  /\ got' = [got EXCEPT ![h] = cache[Key(loc[h])]]
  /\ Goto(h, "edit")
  /\ UNCHANGED <<state, cache, view, loc, history, bounds>>

\* ListPage, for a page that was never cached or is older than two minutes (the
\* cache drops it when it is asked for)
Miss(h) ==
  /\ pc[h] = "render"
  /\ cache' = [cache EXCEPT ![Key(loc[h])] = Nothing]
  /\ got' = [got EXCEPT ![h] = Listed(loc[h])]
  /\ Goto(h, "fill")
  /\ UNCHANGED <<state, view, loc, history, bounds>>

\* cache.Set, whose error is ignored, and the token of the next page
Fill(h) ==
  /\ pc[h] = "fill"
  /\ \/ cache' = [cache EXCEPT ![Key(loc[h])] = got[h]] /\ UNCHANGED faults
     \/ faults < MaxFaults /\ faults' = faults + 1 /\ UNCHANGED cache
  /\ IF got[h][3] < NumPages
     THEN /\ loc' = [loc EXCEPT ![h].tokens[loc[h].page + 1] = [got[h] EXCEPT ![3] = @ + 1]]
          /\ Goto(h, "save")
     ELSE Goto(h, "edit") /\ UNCHANGED loc
  /\ UNCHANGED <<state, view, got, history, presses, crashes>>

\* the second Upsert, whose error is ignored
Save(h) ==
  /\ pc[h] = "save"
  /\ \/ state' = loc[h] /\ UNCHANGED faults
     \/ faults < MaxFaults /\ faults' = faults + 1 /\ UNCHANGED state
  /\ Goto(h, "edit")
  /\ UNCHANGED <<cache, view, loc, got, history, presses, crashes>>

\* renderText and renderKeyboard
Listing(d, l) == [kind |-> "list", folder |-> d.folder, query |-> d.query,
                  page |-> d.page, listed |-> l, next |-> d.tokens[d.page + 1] # Nothing]

\* editView, editPlain
Edit(h) ==
  /\ pc[h] = "edit"
  /\ view' = CASE op[h] \in {"file", "delcancel"} -> Menu("file")
               [] op[h] \in {"search", "rename", "delete"} -> Menu(op[h])
               [] OTHER -> Listing(loc[h], got[h])
  /\ Return(h)
  /\ UNCHANGED <<state, cache, history, bounds>>

\* An error of Drive, MongoDB or Telegram that ends the handler; a failing
\* Upsert may have replaced the document.
HandlerFails(h) ==
  /\ pc[h] \in {"read", "write", "purge", "find", "clear", "apply", "render", "edit"}
  /\ faults < MaxFaults /\ faults' = faults + 1
  /\ \/ UNCHANGED <<state, asked, skipped>>
     \/ pc[h] = "write" /\ Upserted(h)
     \/ pc[h] = "clear" /\ state' = Cleared(loc[h]) /\ UNCHANGED <<asked, skipped>>
  /\ cache' = IF pc[h] = "render" THEN [cache EXCEPT ![Key(loc[h])] = Nothing] ELSE cache
  /\ Return(h)
  /\ UNCHANGED <<view, overlapped, presses, crashes>>

Handle(h) ==
  \/ Read(h) \/ Write(h) \/ Invalidate(h) \/ Purge(h)
  \/ Find(h) \/ Clear(h) \/ Apply(h)
  \/ Hit(h) \/ Miss(h) \/ Fill(h) \/ Save(h) \/ Edit(h) \/ HandlerFails(h)

\* The process ends and is started again; Redis keeps the cache.
Crash ==
  /\ crashes < MaxCrashes /\ crashes' = crashes + 1
  /\ pc' = [h \in Handlers |-> "ready"] /\ op' = [h \in Handlers |-> "none"]
  /\ loc' = [h \in Handlers |-> NoState] /\ got' = [h \in Handlers |-> Nothing]
  /\ cache' \in {cache, EmptyCache}
  /\ UNCHANGED <<state, view, history, presses, faults>>

\* nobody presses anything
Idle == (\A h \in Handlers : pc[h] = "ready") /\ presses = MaxPresses /\ UNCHANGED vars

Next ==
  \/ \E h \in Handlers : Press(h) \/ Text(h) \/ Open(h) \/ Handle(h)
  \/ Crash \/ Idle

Spec == Init /\ [][Next]_vars

--------------------------------------------------------------------------------
TypeOK ==
  /\ state \in Document \cup {NoState}
  /\ cache \in [Keys -> DrivePages \cup {Nothing}]
  /\ view.page \in PageNumbers
  /\ pc \in [Handlers -> {"ready", "read", "write", "invalidate", "purge", "find",
                          "clear", "apply", "render", "fill", "save", "edit"}]
  /\ \A h \in Handlers : loc[h] \in Document \cup {NoState} /\ got[h] \in DrivePages \cup {Nothing}
  /\ asked \subseteq {"rename", "search"}
  /\ presses \in 0..MaxPresses /\ faults \in 0..MaxFaults /\ crashes \in 0..MaxCrashes

\* Whatever handlers overwrite one another's document (explorer.go:75-89 read,
\* change and replace the whole of it), the folder it lists is the last of a
\* breadcrumb that starts at the root, so Back never indexes an empty one.
CrumbsLeadToFolder ==
  state # NoState =>
    /\ state.crumbs # <<>>
    /\ Head(state.crumbs) = Root /\ Last(state.crumbs) = state.folder

\* The entries above "Page n" (explorer.go:313) are those of Drive's page n of the
\* folder and search the message names, whatever is cached, whichever tokens are
\* stored and however handlers overlap, unless Next was pressed past the pages
\* there is a token for.
PageShownIsListed ==
  (~skipped /\ view.kind = "list") => view.listed = Key(view)

\* explorer.go:203-205: FindPending clears the flag "so it only fires once": a
\* text is never taken for the answer to a prompt already answered or never
\* shown, unless two handlers were at work at a time.
PromptFiresOnce ==
  [][\A h \in Handlers :
       (pc[h] = "clear" /\ pc'[h] \in {"apply", "read"}) =>
         (Prompt(loc[h]) \in asked \/ overlapped)]_vars

\* explorer.go:171 and 339: what Refresh shows offers Next exactly if Drive has
\* another page, though a cached page comes without the token.  (Once a page was
\* turned to without a token, a token that was stored for the page after it stays.)
RefreshOffersNext ==
  [][\A h \in Handlers :
       (pc[h] = "edit" /\ view' # view /\ op[h] = "refresh"
          /\ ~overlapped /\ ~skipped /\ faults = 0) =>
         view'.next = (view'.listed[3] < NumPages)]_vars

\* The message "gets edited in place as the user navigates" (explorer.go:5):
\* when presses came one at a time and nothing failed, a listing it shows is the
\* one the stored document stands for, so the next button acts on what is seen.
ViewFollowsState ==
  (~overlapped /\ faults = 0 /\ crashes = 0 /\ view.kind = "list"
     /\ \A h \in Handlers : pc[h] = "ready") =>
    view.folder = state.folder /\ view.query = state.query /\ view.page = state.page
================================================================================
