----------------------------- MODULE ExplorerProofs -----------------------------
(* Proofs about Explorer, for all folders, any number of pages and of         *)
(* handlers, and all bounds.                                                  *)
EXTENDS Explorer, SequenceTheorems, FiniteSetTheorems, TLAPS

--------------------------------------------------------------------------------
(* What each handler can be at.                                               *)

Prompts    == {"search", "rename"}
Menus      == Prompts \cup {"file", "delete", "delcancel"}
Navigation == Folders \cup {"back", "home", "nextpage", "prevpage", "query", "clearsearch"}
Rendering  == Navigation \cup {"refresh", "fileback", "delconfirm"}

\* the operations whose handler can be at l
Stage(l) ==
  CASE l = "ready"      -> {"none"}
    [] l = "read"       -> Rendering \cup Prompts
    [] l = "write"      -> Navigation \cup Prompts
    [] l = "invalidate" -> {"refresh"}
    [] l = "purge"      -> {"delconfirm"}
    [] l = "find"       -> {"text"}
    [] l = "clear"      -> {"text"}
    [] l = "apply"      -> {"newname"}
    [] l = "edit"       -> Rendering \cup Menus \cup {"open"}
    [] OTHER            -> Rendering \cup {"open"}

OpInv == op \in [Handlers -> Rendering \cup Menus \cup {"none", "open", "text", "newname"}]
         /\ \A h \in Handlers : op[h] \in Stage(pc[h])

Views == [kind : {"none", "list", "file", "search", "rename", "delete"},
          folder : Folders \cup {Root}, query : {Query, None}, page : PageNumbers,
          listed : DrivePages \cup {Nothing}, next : BOOLEAN]

\* handlers that are yet to turn to the next page
Turning == {h \in Handlers : pc[h] = "read" /\ op[h] = "nextpage"}

\* Each press of Next turns one page, so no page beyond PageNumbers is reached.
PageInv ==
  /\ IsFiniteSet(Turning)
  /\ state.page + Cardinality(Turning) <= presses + 1
  /\ \A h \in Handlers : loc[h].page + Cardinality(Turning) <= presses + 1

\* a handler past the cache has a page
GotInv == \A h \in Handlers :
            pc[h] \in {"fill", "save"} \/ (pc[h] = "edit" /\ op[h] \notin Menus) => got[h] \in DrivePages

TypeInv == /\ TypeOK /\ OpInv /\ PageInv /\ GotInv
           /\ loc \in [Handlers -> Document] /\ got \in [Handlers -> DrivePages \cup {Nothing}]
           /\ view \in Views /\ overlapped \in BOOLEAN /\ skipped \in BOOLEAN

--------------------------------------------------------------------------------
(* The breadcrumb.                                                            *)

Trail(d) == d.crumbs # <<>> /\ Head(d.crumbs) = Root /\ Last(d.crumbs) = d.folder

\* handlers that hold a document they have read
Holding(h) == \/ pc[h] \in {"write", "invalidate", "clear", "render", "fill", "save"}
              \/ pc[h] = "edit" /\ op[h] \notin Menus \ Prompts

CrumbInv ==
  /\ state = NoState => view.kind = "none" /\ \A h \in Handlers : pc[h] = "ready"
  /\ state # NoState => Trail(state)
  /\ \A h \in Handlers : Holding(h) => Trail(loc[h])

--------------------------------------------------------------------------------
(* Tokens, cached pages and what is shown.                                    *)

\* every token of the document is for the page it is stored under
TokensRight(d) ==
  \A p \in PageNumbers : d.tokens[p] # Nothing => d.tokens[p] = <<d.folder, d.query, p>>

\* and there is one for each page up to page n
TokensUpTo(d, n) == \A p \in PageNumbers : 1 < p /\ p <= n => d.tokens[p] # Nothing

\* the handler holds a page that Next turned to and has not saved it
Unsaved(h) == pc[h] = "write" /\ op[h] = "nextpage"

ListInv ==
  ~skipped =>
    /\ TokensRight(state) /\ TokensUpTo(state, state.page)
    /\ \A h \in Handlers :
         /\ TokensRight(loc[h])
         /\ TokensUpTo(loc[h], IF Unsaved(h) THEN loc[h].page - 1 ELSE loc[h].page)
         /\ pc[h] \in {"fill", "save"} => got[h] = Key(loc[h])
         /\ pc[h] = "edit" /\ op[h] \notin Menus => got[h] = Key(loc[h])
    /\ \A k \in Keys : cache[k] # Nothing => cache[k] = k
    /\ view.kind = "list" => view.listed = Key(view)

--------------------------------------------------------------------------------
(* One handler at a time.                                                     *)

Sole == ~overlapped =>
          \A g, h \in Handlers : pc[g] # "ready" /\ pc[h] # "ready" => g = h

\* the same listing
Same(d, e) == d.folder = e.folder /\ d.query = e.query /\ d.page = e.page

\* the handler is about to show what it has stored
Showing(h) == pc[h] \in {"invalidate", "render", "fill", "save", "edit"} /\ op[h] \notin Menus

\* When one handler follows the other and nothing fails, the message shows what
\* is stored, but while a handler is about to show something else.
FollowInv ==
  ~overlapped /\ faults = 0 /\ crashes = 0 =>
    /\ \A h \in Handlers : Showing(h) => Same(loc[h], state)
    /\ \A h \in Handlers : pc[h] = "clear" => loc[h] = state
    /\ view.kind = "list" /\ (\A h \in Handlers : pc[h] \notin {"render", "fill", "save", "edit"}) =>
         Same(view, state)

FlagsAsked(d) == (d.rename => "rename" \in asked) /\ (d.search => "search" \in asked)

\* A flag is set only for a prompt that was asked for.
PromptInv ==
  ~overlapped =>
    /\ FlagsAsked(state)
    /\ \A h \in Handlers :
         /\ pc[h] \in {"invalidate", "clear", "render", "fill", "save"} => FlagsAsked(loc[h])
         /\ pc[h] = "clear" => loc[h].rename \/ loc[h].search
         /\ pc[h] = "write" => /\ loc[h].rename => "rename" \in asked \cup {op[h]}
                               /\ loc[h].search => "search" \in asked \cup {op[h]}

\* What Refresh renders was not in the cache, and its next page has a token.
RefreshInv ==
  ~overlapped /\ ~skipped /\ faults = 0 =>
    \A h \in Handlers : op[h] = "refresh" =>
      /\ pc[h] = "render" => cache[Key(loc[h])] = Nothing
      /\ pc[h] \in {"save", "edit"} /\ got[h][3] < NumPages =>
           loc[h].tokens[loc[h].page + 1] # Nothing

--------------------------------------------------------------------------------
(* The operators on documents and pages.                                      *)

LEMMA PageType ==
  ASSUME NEW p \in DrivePages
  PROVE  /\ p # Nothing /\ p = <<p[1], p[2], p[3]>>
         /\ p[3] \in 1..NumPages /\ p[3] \in Nat
  BY ExplorerAssumption DEF DrivePages, Nothing, ExplorerAssumption

LEMMA NextPageType ==
  ASSUME NEW p \in DrivePages, p[3] < NumPages
  PROVE  /\ [p EXCEPT ![3] = @ + 1] = <<p[1], p[2], p[3] + 1>>
         /\ [p EXCEPT ![3] = @ + 1] \in DrivePages
<1>1. p = <<p[1], p[2], p[3]>> /\ p[3] \in 1..NumPages
  BY PageType
<1>2. [p EXCEPT ![3] = @ + 1] = <<p[1], p[2], p[3] + 1>>
  BY <1>1
<1>3. p[3] + 1 \in 1..NumPages
  BY <1>1, ExplorerAssumption DEF ExplorerAssumption
<1> QED BY <1>1, <1>2, <1>3 DEF DrivePages

LEMMA OpenedType ==
  /\ Opened \in Document /\ NoState \in Document
  /\ NoState.crumbs = <<>> /\ NoState.page = 1 /\ Opened.page = 1
  /\ Opened.tokens = NoTokens /\ NoState.tokens = NoTokens
  /\ ~Opened.rename /\ ~Opened.search /\ Opened # NoState
  /\ Trail(Opened) /\ ~Trail(NoState)
<1>1. 1 \in PageNumbers /\ NoTokens \in [PageNumbers -> DrivePages \cup {Nothing}]
  BY ExplorerAssumption DEF PageNumbers, NoTokens, ExplorerAssumption
<1>2. <<Root>> \in Seq(Folders \cup {Root}) /\ <<>> \in Seq(Folders \cup {Root})
      /\ <<Root>> # <<>> /\ Head(<<Root>>) = Root /\ <<Root>>[1] = Root /\ Len(<<Root>>) = 1
  OBVIOUS
<1> QED BY <1>1, <1>2 DEF Opened, NoState, Document, Trail, Last

LEMMA NotEmpty ==
  ASSUME NEW S, NEW s \in Seq(S), Len(s) > 0
  PROVE  s # <<>> /\ Head(s) = s[1]
<1>1. s # <<>>
  BY EmptySeq
<1> QED BY <1>1

LEMMA TrailBack ==
  ASSUME NEW s \in Seq(Folders \cup {Root}), s # <<>>, Head(s) = Root
  PROVE  /\ Last(s) \in Folders \cup {Root}
         /\ SubSeq(s, 1, 1) \in Seq(Folders \cup {Root}) /\ SubSeq(s, 1, 1) # <<>>
         /\ Head(SubSeq(s, 1, 1)) = Root /\ Last(SubSeq(s, 1, 1)) = Root
         /\ Len(s) > 1 => /\ Front(s) \in Seq(Folders \cup {Root}) /\ Front(s) # <<>>
                          /\ Head(Front(s)) = Root /\ Last(Front(s)) \in Folders \cup {Root}
<1>1. Len(s) \in Nat \ {0} /\ s[1] = Root /\ \A i \in 1..Len(s) : s[i] \in Folders \cup {Root}
  OBVIOUS
<1>2. Last(s) \in Folders \cup {Root}
  BY <1>1 DEF Last
<1>3. /\ SubSeq(s, 1, 1) \in Seq(Folders \cup {Root}) /\ SubSeq(s, 1, 1) # <<>>
      /\ Head(SubSeq(s, 1, 1)) = Root /\ Last(SubSeq(s, 1, 1)) = Root
  <2> DEFINE v == SubSeq(s, 1, 1)
  <2>1. v \in Seq(Folders \cup {Root}) /\ Len(v) = 1 /\ v[1] = Root
    <3>1. /\ SubSeq(s, 1, 1) \in Seq(Folders \cup {Root}) /\ Len(SubSeq(s, 1, 1)) = 1
          /\ SubSeq(s, 1, 1)[1] = s[1]
      BY <1>1, SubSeqProperties
    <3> QED BY <1>1, <3>1
  <2> HIDE DEF v
  <2>2. v # <<>> /\ Head(v) = v[1]
    BY <2>1, NotEmpty
  <2>3. Last(v) = v[1]
    BY <2>1 DEF Last
  <2> QED BY <2>1, <2>2, <2>3 DEF v
<1>4. ASSUME Len(s) > 1
      PROVE  /\ Front(s) \in Seq(Folders \cup {Root}) /\ Front(s) # <<>>
             /\ Head(Front(s)) = Root /\ Last(Front(s)) \in Folders \cup {Root}
  <2> DEFINE n == Len(s) - 1
  <2>1. n \in Nat \ {0} /\ \A i \in 1..n : s[i] \in Folders \cup {Root}
    BY <1>1, <1>4
  <2>2. Front(s) = SubSeq(s, 1, n)
    BY DEF Front
  <2> HIDE DEF n
  <2>3. /\ SubSeq(s, 1, n) \in Seq(Folders \cup {Root}) /\ Len(SubSeq(s, 1, n)) = n
        /\ \A i \in 1..n : SubSeq(s, 1, n)[i] = s[i]
    BY <2>1, SubSeqProperties
  <2> DEFINE u == SubSeq(s, 1, n)
  <2>4. u \in Seq(Folders \cup {Root}) /\ Len(u) = n /\ \A i \in 1..n : u[i] = s[i]
    BY <2>3
  <2> HIDE DEF u
  <2>5. u # <<>> /\ Head(u) = u[1]
    BY <2>1, <2>4
  <2>6. u[1] = Root /\ u[n] \in Folders \cup {Root}
    BY <1>1, <2>1, <2>4
  <2>7. Front(s) = u
    BY <2>2 DEF u
  <2> QED BY <2>4, <2>5, <2>6, <2>7 DEF Last
<1> QED BY <1>2, <1>3, <1>4

LEMMA TrailOn ==
  ASSUME NEW s \in Seq(Folders \cup {Root}), s # <<>>, Head(s) = Root, NEW f \in Folders
  PROVE  /\ Append(s, f) \in Seq(Folders \cup {Root}) /\ Append(s, f) # <<>>
         /\ Head(Append(s, f)) = Root /\ Last(Append(s, f)) = f
  BY AppendProperties, HeadTailAppend DEF Last

\* The first page of another listing.
LEMMA FreshType ==
  ASSUME NEW d \in Document, NEW f \in Folders \cup {Root}, NEW q \in {Query, None}
  PROVE  /\ Fresh(d, f, q) \in Document /\ Fresh(d, f, q).page = 1
         /\ Fresh(d, f, q).crumbs = d.crumbs /\ Fresh(d, f, q).folder = f
         /\ Fresh(d, f, q).tokens = NoTokens
         /\ Fresh(d, f, q).rename = d.rename /\ Fresh(d, f, q).search = d.search
<1>1. 1 \in PageNumbers /\ NoTokens \in [PageNumbers -> DrivePages \cup {Nothing}]
  BY ExplorerAssumption DEF PageNumbers, NoTokens, ExplorerAssumption
<1> QED BY <1>1 DEF Fresh, Document

LEMMA CrumbsType ==
  ASSUME NEW d \in Document, NEW c \in Seq(Folders \cup {Root}),
         c # <<>>, Head(c) = Root, Last(c) = d.folder
  PROVE  LET e == [d EXCEPT !.crumbs = c]
         IN  /\ e \in Document /\ Trail(e) /\ e.page = d.page /\ e.tokens = d.tokens
             /\ e.rename = d.rename /\ e.search = d.search
  BY DEF Document, Trail

\* What a button makes of a document: the first page of another listing, another
\* page of the same, the same with a prompt, or the same.
Turned(a, d) == [d EXCEPT !.page = IF a = "nextpage" THEN @ + 1
                                   ELSE IF @ > 1 THEN @ - 1 ELSE 1]

LEMMA ChangedCases ==
  ASSUME NEW d \in Document, Trail(d), NEW a \in Rendering \cup Prompts
  PROVE  \/ /\ a \in Navigation \ {"nextpage", "prevpage"}
            /\ Changed(a, d) \in Document /\ Trail(Changed(a, d))
            /\ Changed(a, d).page = 1 /\ Changed(a, d).tokens = NoTokens
            /\ Changed(a, d).rename = d.rename /\ Changed(a, d).search = d.search
         \/ a \in {"nextpage", "prevpage"} /\ Changed(a, d) = Turned(a, d)
         \/ a = "search" /\ Changed(a, d) = [d EXCEPT !.search = TRUE]
         \/ a = "rename" /\ Changed(a, d) = [d EXCEPT !.rename = TRUE]
         \/ a \in {"refresh", "fileback", "delconfirm"} /\ Changed(a, d) = d
<1>1. /\ d.crumbs \in Seq(Folders \cup {Root}) /\ d.crumbs # <<>> /\ Head(d.crumbs) = Root
      /\ Last(d.crumbs) = d.folder /\ d.folder \in Folders \cup {Root}
  BY DEF Trail, Document
<1> DEFINE Other(e) == /\ e \in Document /\ Trail(e) /\ e.page = 1 /\ e.tokens = NoTokens
                       /\ e.rename = d.rename /\ e.search = d.search
<1>2. ASSUME NEW f \in Folders \cup {Root}, NEW c \in Seq(Folders \cup {Root}),
             c # <<>>, Head(c) = Root, Last(c) = f
      PROVE  Other([Fresh(d, f, None) EXCEPT !.crumbs = c])
  BY <1>2, FreshType, CrumbsType
<1> HIDE DEF Other
<1>3. CASE a \in Folders
  <2>1. Changed(a, d) = [Fresh(d, a, None) EXCEPT !.crumbs = Append(d.crumbs, a)]
    <3>1. Fresh(d, a, None).crumbs = d.crumbs
      BY <1>3, FreshType
    <3> QED BY <1>3, <3>1, ExplorerAssumption DEF Changed, ExplorerAssumption
  <2>2. /\ Append(d.crumbs, a) \in Seq(Folders \cup {Root}) /\ Append(d.crumbs, a) # <<>>
        /\ Head(Append(d.crumbs, a)) = Root /\ Last(Append(d.crumbs, a)) = a
    BY <1>1, <1>3, TrailOn
  <2>3. Other(Changed(a, d))
    BY <1>2, <1>3, <2>1, <2>2
  <2> QED BY <1>3, <2>3, ExplorerAssumption DEF Other, Navigation, ExplorerAssumption
<1>4. CASE a = "back"
  <2> DEFINE up == IF Len(d.crumbs) > 1 THEN Front(d.crumbs) ELSE d.crumbs
  <2>1. Changed(a, d) = [Fresh(d, Last(up), None) EXCEPT !.crumbs = up]
    BY <1>4, ExplorerAssumption DEF Changed, ExplorerAssumption
  <2>2. up \in Seq(Folders \cup {Root}) /\ up # <<>> /\ Head(up) = Root
        /\ Last(up) \in Folders \cup {Root}
    BY <1>1, TrailBack
  <2> HIDE DEF up
  <2>3. Other(Changed(a, d))
    BY <1>2, <2>1, <2>2
  <2> QED BY <1>4, <2>3 DEF Other, Navigation
<1>5. CASE a = "home"
  <2>1. Changed(a, d) = [Fresh(d, Root, None) EXCEPT !.crumbs = SubSeq(d.crumbs, 1, 1)]
    <3>1. Fresh(d, Root, None).crumbs = d.crumbs
      BY FreshType
    <3> QED BY <1>5, <3>1, ExplorerAssumption DEF Changed, ExplorerAssumption
  <2> DEFINE first == SubSeq(d.crumbs, 1, 1)
  <2>2. first \in Seq(Folders \cup {Root}) /\ first # <<>> /\ Head(first) = Root /\ Last(first) = Root
    BY <1>1, TrailBack
  <2> HIDE DEF first
  <2>3. Changed(a, d) = [Fresh(d, Root, None) EXCEPT !.crumbs = first]
    BY <2>1 DEF first
  <2>4. Other(Changed(a, d))
    BY <1>2, <2>2, <2>3
  <2> QED BY <1>5, <2>4 DEF Other, Navigation
<1>6. CASE a \in {"query", "clearsearch"}
  <2>1. \E q \in {Query, None} : Changed(a, d) = Fresh(d, d.folder, q)
    BY <1>6, ExplorerAssumption DEF Changed, ExplorerAssumption
  <2>2. Other(Changed(a, d))
    BY <1>1, <2>1, FreshType DEF Other, Trail
  <2> QED BY <1>6, <2>2 DEF Other, Navigation
<1>7. CASE a \in {"nextpage", "prevpage"}
  BY <1>7, ExplorerAssumption DEF Changed, Turned, ExplorerAssumption
<1>8. CASE a \in Prompts \cup {"refresh", "fileback", "delconfirm"}
  BY <1>8, ExplorerAssumption DEF Changed, Prompts, ExplorerAssumption
<1> QED BY <1>3, <1>4, <1>5, <1>6, <1>7, <1>8 DEF Rendering, Navigation, Prompts

LEMMA TurnedType ==
  ASSUME NEW d \in Document, NEW a \in {"nextpage", "prevpage"},
         a = "nextpage" => d.page + 1 \in PageNumbers
  PROVE  LET e == Turned(a, d)
         IN  /\ e \in Document /\ e.crumbs = d.crumbs /\ e.folder = d.folder
             /\ e.query = d.query /\ e.tokens = d.tokens
             /\ e.rename = d.rename /\ e.search = d.search
             /\ a = "nextpage" => e.page = d.page + 1
             /\ a = "prevpage" => e.page <= d.page
<1>1. /\ 1 \in PageNumbers /\ d.page \in Nat \ {0} /\ (d.page > 1 => d.page - 1 \in PageNumbers)
  BY ExplorerAssumption DEF PageNumbers, ExplorerAssumption, Document
<1> QED BY <1>1 DEF Turned, Document

\* Whatever a button makes of a document, it keeps its type and its trail.
LEMMA ChangedType ==
  ASSUME NEW d \in Document, Trail(d), NEW a \in Rendering \cup Prompts,
         a = "nextpage" => d.page + 1 \in PageNumbers
  PROVE  /\ Changed(a, d) \in Document /\ Trail(Changed(a, d))
         /\ a = "nextpage" => Changed(a, d).page = d.page + 1
         /\ a # "nextpage" => Changed(a, d).page <= d.page
<1>1. d.page \in Nat \ {0}
  BY DEF Document, PageNumbers
<1>2. CASE a \in {"nextpage", "prevpage"}
  <2>1. Changed(a, d) = Turned(a, d)
    BY <1>2, ChangedCases DEF Navigation, Prompts
  <2> QED BY <1>2, <2>1, TurnedType DEF Trail
<1>3. CASE a \notin {"nextpage", "prevpage"}
  <2>1. CASE Changed(a, d) \in Document /\ Trail(Changed(a, d)) /\ Changed(a, d).page = 1
    BY <1>1, <1>3, <2>1
  <2>2. CASE Changed(a, d) \in {d, [d EXCEPT !.search = TRUE], [d EXCEPT !.rename = TRUE]}
    <3>1. ASSUME NEW e \in {d, [d EXCEPT !.search = TRUE], [d EXCEPT !.rename = TRUE]}
          PROVE  e \in Document /\ Trail(e) /\ e.page = d.page
      <4>1. e \in Document /\ e.crumbs = d.crumbs /\ e.folder = d.folder /\ e.page = d.page
        BY DEF Document
      <4> QED BY <4>1 DEF Trail
    <3>2. Changed(a, d) \in Document /\ Trail(Changed(a, d)) /\ Changed(a, d).page = d.page
      BY <2>2, <3>1
    <3> QED BY <1>1, <1>3, <3>2
  <2> QED BY <1>3, <2>1, <2>2, ChangedCases
<1> QED BY <1>2, <1>3

LEMMA ClearedType ==
  ASSUME NEW d \in Document
  PROVE  /\ Cleared(d) \in Document /\ Cleared(d).crumbs = d.crumbs
         /\ Cleared(d).folder = d.folder /\ Cleared(d).query = d.query
         /\ Cleared(d).page = d.page /\ Cleared(d).tokens = d.tokens
         /\ Prompt(d) = "rename" => ~Cleared(d).rename /\ Cleared(d).search = d.search
         /\ Prompt(d) = "search" => ~Cleared(d).rename /\ ~Cleared(d).search
         /\ Prompt(d) \in {"rename", "search"}
  BY DEF Cleared, Prompt, Document

LEMMA DocumentType ==
  ASSUME NEW d \in Document
  PROVE  /\ d.page \in Nat \ {0} /\ d.page \in PageNumbers /\ Key(d) \in Keys
         /\ d.folder \in Folders \cup {Root} /\ d.query \in {Query, None}
         /\ d.tokens \in [PageNumbers -> DrivePages \cup {Nothing}]
         /\ d.rename \in BOOLEAN /\ d.search \in BOOLEAN
         /\ Listed(d) \in DrivePages
<1>1. 1 \in 1..NumPages
  BY ExplorerAssumption DEF ExplorerAssumption
<1>2. /\ d.page \in PageNumbers
      /\ d.folder \in Folders \cup {Root} /\ d.query \in {Query, None}
      /\ d.tokens \in [PageNumbers -> DrivePages \cup {Nothing}]
      /\ d.rename \in BOOLEAN /\ d.search \in BOOLEAN
  BY DEF Document
<1>3. d.page \in Nat \ {0}
  BY <1>2 DEF PageNumbers
<1>4. Key(d) \in Keys
  BY <1>2 DEF Key, Keys
<1>5. <<d.folder, d.query, 1>> \in DrivePages
  BY <1>1, <1>2 DEF DrivePages
<1>6. d.tokens[d.page] \in DrivePages \cup {Nothing}
  BY <1>2
<1> QED BY <1>2, <1>3, <1>4, <1>5, <1>6 DEF Listed

--------------------------------------------------------------------------------
(* Types, and the breadcrumb: Back and Home need it not to be empty.          *)

LEMMA PageBounds ==
  ASSUME TypeInv
  PROVE  /\ Cardinality(Turning) \in Nat
         /\ state \in Document /\ state.page \in Nat /\ state.page <= presses + 1
         /\ presses \in Nat /\ presses <= MaxPresses
         /\ \A h \in Handlers :
              /\ loc[h] \in Document /\ loc[h].page \in Nat /\ loc[h].page <= presses + 1
              /\ loc[h].page + 1 \in PageNumbers
              /\ pc[h] = "read" /\ op[h] = "nextpage" => state.page + 1 \in PageNumbers
<1>1. Cardinality(Turning) \in Nat
  BY FS_CardinalityType DEF TypeInv, PageInv
<1>2. state \in Document /\ \A h \in Handlers : loc[h] \in Document
  BY OpenedType DEF TypeInv, TypeOK
<1>3. /\ state.page \in Nat /\ \A h \in Handlers : loc[h].page \in Nat /\ loc[h].page >= 1
      /\ state.page >= 1
  BY <1>2, DocumentType
<1>4. presses \in Nat /\ presses <= MaxPresses /\ MaxPresses \in Nat
  BY ExplorerAssumption DEF TypeInv, TypeOK, ExplorerAssumption
<1>5. ASSUME NEW h \in Handlers, pc[h] = "read", op[h] = "nextpage"
      PROVE  state.page + 1 \in PageNumbers
  <2>1. h \in Turning
    BY <1>5 DEF Turning
  <2>2. Cardinality(Turning) # 0
    BY <2>1, FS_EmptySet DEF TypeInv, PageInv
  <2> QED BY <1>1, <1>3, <1>4, <2>2 DEF TypeInv, PageInv, PageNumbers
<1>6. /\ state.page <= presses + 1
      /\ \A h \in Handlers : loc[h].page <= presses + 1
  BY <1>1, <1>3, <1>4 DEF TypeInv, PageInv
<1> QED BY <1>1, <1>2, <1>3, <1>4, <1>5, <1>6 DEF PageNumbers

\* No step but a press of Next, and the reading that turns the page, counts.
LEMMA PageKept ==
  ASSUME TypeInv, Turning' \subseteq Turning, presses' \in Nat, presses <= presses',
         state'.page \in Nat, \A g \in Handlers : loc'[g].page \in Nat,
         state'.page <= state.page \/ \E i \in Handlers : state'.page <= loc[i].page,
         \A g \in Handlers : \/ loc'[g].page <= state.page
                             \/ \E i \in Handlers : loc'[g].page <= loc[i].page
  PROVE  PageInv'
<1>1. /\ IsFiniteSet(Turning') /\ Cardinality(Turning') \in Nat
      /\ Cardinality(Turning') <= Cardinality(Turning) /\ Cardinality(Turning) \in Nat
  BY FS_Subset, FS_CardinalityType DEF TypeInv, PageInv
<1>2. /\ state.page \in Nat /\ presses \in Nat
      /\ \A i \in Handlers : loc[i].page \in Nat
  BY PageBounds
<1> QED BY <1>1, <1>2 DEF TypeInv, PageInv

Places == {"ready", "read", "write", "invalidate", "purge", "find",
           "clear", "apply", "render", "fill", "save", "edit"}

\* A handler moves to a place its operation can be at.
LEMMA Moved ==
  ASSUME TypeInv, NEW h \in Handlers, NEW l \in Places, NEW o \in Stage(l),
         NEW d \in Document, NEW p \in DrivePages \cup {Nothing},
         l \in {"fill", "save"} \/ (l = "edit" /\ o \notin Menus) => p \in DrivePages,
         pc' = [pc EXCEPT ![h] = l], op' = [op EXCEPT ![h] = o],
         loc' = [loc EXCEPT ![h] = d], got' = [got EXCEPT ![h] = p],
         state' \in Document, cache' \in [Keys -> DrivePages \cup {Nothing}], view' \in Views,
         asked' \subseteq Prompts, presses' \in 0..MaxPresses, faults' \in 0..MaxFaults,
         crashes' \in 0..MaxCrashes, overlapped' \in BOOLEAN, skipped' \in BOOLEAN,
         PageInv'
  PROVE  TypeInv'
<1>1. o \in Rendering \cup Menus \cup {"none", "open", "text", "newname"}
  BY DEF Places, Stage, Rendering, Menus, Navigation, Prompts
<1>2. OpInv'
  BY <1>1 DEF TypeInv, OpInv, TypeOK, Places
<1>3. TypeOK'
  BY DEF TypeInv, TypeOK, Views, Places, Prompts
<1>4. GotInv'
  BY DEF TypeInv, TypeOK, OpInv, GotInv
<1> QED BY <1>2, <1>3, <1>4 DEF TypeInv

LEMMA Unchanged ==
  ASSUME TypeInv, NEW h \in Handlers
  PROVE  /\ pc = [pc EXCEPT ![h] = pc[h]] /\ op = [op EXCEPT ![h] = op[h]]
         /\ loc = [loc EXCEPT ![h] = loc[h]] /\ got = [got EXCEPT ![h] = got[h]]
         /\ loc[h] \in Document /\ got[h] \in DrivePages \cup {Nothing}
         /\ pc[h] \in Places /\ op[h] \in Stage(pc[h])
  BY DEF TypeInv, TypeOK, OpInv, Places

\* A handler that begins or ends turns no page.
LEMMA TypeBegin ==
  ASSUME TypeInv, NEW h \in Handlers, NEW a, a \in Stage(Entry(a)), Begin(h, a)
  PROVE  TypeInv'
<1>1. /\ Entry(a) \in Places /\ presses' = presses + 1 /\ presses' \in 0..MaxPresses
      /\ pc[h] = "ready"
  BY ExplorerAssumption DEF Begin, Entry, Places, TypeInv, TypeOK, ExplorerAssumption
<1>2. /\ pc' = [pc EXCEPT ![h] = Entry(a)] /\ op' = [op EXCEPT ![h] = a]
      /\ UNCHANGED <<state, cache, view, loc, got, asked, skipped, faults, crashes>>
      /\ overlapped' \in BOOLEAN
  BY DEF Begin, TypeInv
<1>3. PageInv'
  <2>1. Turning' = Turning \cup {h} \/ Turning' = Turning
    BY <1>1, <1>2 DEF Turning, TypeInv, TypeOK, OpInv
  <2>2. h \notin Turning
    BY <1>1 DEF Turning
  <2>3. /\ IsFiniteSet(Turning') /\ Cardinality(Turning') \in Nat
        /\ Cardinality(Turning') <= Cardinality(Turning) + 1
    <3>1. IsFiniteSet(Turning) /\ Cardinality(Turning) \in Nat
      BY FS_CardinalityType DEF TypeInv, PageInv
    <3>2. /\ IsFiniteSet(Turning \cup {h})
          /\ Cardinality(Turning \cup {h}) = Cardinality(Turning) + 1
      BY <2>2, <3>1, FS_AddElement
    <3>3. CASE Turning' = Turning
      BY <3>1, <3>3
    <3>4. CASE Turning' = Turning \cup {h}
      BY <3>1, <3>2, <3>4
    <3> QED BY <2>1, <3>3, <3>4
  <2> QED BY <1>1, <1>2, <2>3, PageBounds DEF TypeInv, PageInv
<1>4. /\ state' \in Document /\ cache' \in [Keys -> DrivePages \cup {Nothing}] /\ view' \in Views
      /\ asked' \subseteq Prompts /\ presses' \in 0..MaxPresses /\ faults' \in 0..MaxFaults
      /\ crashes' \in 0..MaxCrashes /\ overlapped' \in BOOLEAN /\ skipped' \in BOOLEAN
  BY <1>1, <1>2, PageBounds DEF TypeInv, TypeOK, Prompts
<1>5. /\ Entry(a) \in {"fill", "save"} \/ (Entry(a) = "edit" /\ a \notin Menus)
           => got[h] \in DrivePages
  BY DEF Entry, Menus
<1>6. /\ loc' = [loc EXCEPT ![h] = loc[h]] /\ got' = [got EXCEPT ![h] = got[h]]
      /\ loc[h] \in Document /\ got[h] \in DrivePages \cup {Nothing}
  BY <1>2, Unchanged
<1> DEFINE l == Entry(a)
<1> HIDE DEF l
<1>7. /\ l \in Places /\ a \in Stage(l)
      /\ pc' = [pc EXCEPT ![h] = l] /\ op' = [op EXCEPT ![h] = a]
      /\ l \in {"fill", "save"} \/ (l = "edit" /\ a \notin Menus) => got[h] \in DrivePages
  BY <1>1, <1>2, <1>5 DEF l
<1> QED BY <1>3, <1>4, <1>6, <1>7, Moved

LEMMA TypeReturn ==
  ASSUME TypeInv, NEW h \in Handlers, Return(h),
         state' \in Document, state'.page <= state.page \/ state'.page <= loc[h].page,
         cache' \in [Keys -> DrivePages \cup {Nothing}], view' \in Views,
         asked' \subseteq Prompts, faults' \in 0..MaxFaults, skipped' \in BOOLEAN,
         UNCHANGED <<presses, crashes, overlapped>>
  PROVE  TypeInv'
<1>1. PageInv'
  <2>1. \A g \in Handlers : pc'[g] = "read" => pc[g] = "read" /\ op'[g] = op[g]
    BY DEF Return, TypeInv, TypeOK, OpInv
  <2>2. Turning' \subseteq Turning
    BY <2>1 DEF Turning
  <2>3. \A g \in Handlers : loc'[g] = loc[g] \/ loc'[g] = NoState
    BY DEF Return, TypeInv
  <2>4. state'.page \in Nat /\ state.page >= 1
    BY PageBounds, DocumentType
  <2>5. \A g \in Handlers : /\ loc'[g].page \in Nat
                            /\ loc'[g].page <= state.page \/ loc'[g].page <= loc[g].page
    BY <2>3, <2>4, OpenedType, PageBounds
  <2> QED BY <2>2, <2>4, <2>5, PageBounds, PageKept DEF TypeInv, TypeOK
<1>2. "none" \in Stage("ready") /\ "ready" \in Places
  BY DEF Stage, Places
<1> QED BY <1>1, <1>2, Moved, OpenedType DEF Return, TypeInv, TypeOK

\* A handler that goes on with documents no later in the listing than there are.
LEMMA TypeGoesOn ==
  ASSUME TypeInv, NEW h \in Handlers, NEW l \in Places, NEW o \in Stage(l),
         pc' = [pc EXCEPT ![h] = l], op' = [op EXCEPT ![h] = o], l # "read" \/ o # "nextpage",
         NEW d \in Document, loc' = [loc EXCEPT ![h] = d],
         d.page <= state.page \/ d.page <= loc[h].page,
         NEW p \in DrivePages \cup {Nothing}, got' = [got EXCEPT ![h] = p],
         l \in {"fill", "save"} \/ (l = "edit" /\ o \notin Menus) => p \in DrivePages,
         state' \in Document, state'.page <= state.page \/ state'.page <= loc[h].page,
         cache' \in [Keys -> DrivePages \cup {Nothing}],
         asked' \subseteq Prompts, faults' \in 0..MaxFaults, skipped' \in BOOLEAN,
         UNCHANGED <<view, presses, crashes, overlapped>>
  PROVE  TypeInv'
<1>1. PageInv'
  <2>1. Turning' \subseteq Turning
    <3>1. \A g \in Handlers : (pc'[g] = "read" /\ op'[g] = "nextpage") =>
                                 (pc[g] = "read" /\ op[g] = "nextpage")
      BY DEF TypeInv, TypeOK, OpInv
    <3> QED BY <3>1 DEF Turning
  <2>2. \A g \in Handlers : loc'[g] = loc[g] \/ (loc'[g] = d /\ g = h)
    BY DEF TypeInv
  <2>3. d.page \in Nat /\ state'.page \in Nat
    BY DocumentType
  <2> QED BY <2>1, <2>2, <2>3, PageBounds, PageKept DEF TypeInv, TypeOK
<1> QED BY <1>1, Moved DEF TypeInv, TypeOK

LEMMA AtWork ==
  ASSUME TypeInv, CrumbInv, NEW h \in Handlers, pc[h] # "ready"
  PROVE  /\ state \in Document /\ Trail(state) /\ loc[h] \in Document
         /\ got[h] \in DrivePages \cup {Nothing} /\ loc[h].page + 1 \in PageNumbers
         /\ Key(loc[h]) \in Keys /\ Listed(loc[h]) \in DrivePages
         /\ op[h] \in Stage(pc[h])
         /\ cache \in [Keys -> DrivePages \cup {Nothing}] /\ view \in Views /\ asked \subseteq Prompts
         /\ faults \in 0..MaxFaults /\ skipped \in BOOLEAN
         /\ EmptyCache \in [Keys -> DrivePages \cup {Nothing}]
         /\ Holding(h) => Trail(loc[h])
<1>1. state # NoState /\ Trail(state) /\ (Holding(h) => Trail(loc[h]))
  BY DEF CrumbInv
<1>2. EmptyCache \in [Keys -> DrivePages \cup {Nothing}]
  BY DEF EmptyCache
<1> QED BY <1>1, <1>2, PageBounds, DocumentType DEF TypeInv, TypeOK, OpInv, Prompts

\* The breadcrumb of the document and of the handler that moves decide.
LEMMA CrumbKept ==
  ASSUME TypeInv, CrumbInv, NEW h \in Handlers, Trail(state'),
         NEW l, pc' = [pc EXCEPT ![h] = l], NEW o, op' = [op EXCEPT ![h] = o],
         NEW d, loc' = [loc EXCEPT ![h] = d],
         l \in {"ready", "read", "purge", "find", "apply"} \/ (l = "edit" /\ o \in Menus \ Prompts)
           \/ Trail(d)
  PROVE  CrumbInv'
<1>1. state' # NoState
  BY OpenedType
<1>2. ASSUME NEW g \in Handlers, Holding(g)'
      PROVE  Trail(loc'[g])
  <2>1. CASE g = h
    BY <1>2, <2>1 DEF Holding, TypeInv, TypeOK, OpInv
  <2>2. CASE g # h
    <3>1. pc'[g] = pc[g] /\ op'[g] = op[g] /\ loc'[g] = loc[g]
      BY <2>2 DEF TypeInv, TypeOK, OpInv
    <3>2. Holding(g)
      BY <1>2, <3>1 DEF Holding
    <3> QED BY <3>1, <3>2 DEF CrumbInv
  <2> QED BY <2>1, <2>2
<1> QED BY <1>1, <1>2 DEF CrumbInv

\* A handler begins only for a message whose document there is.
LEMMA Pressed ==
  ASSUME TypeInv, CrumbInv, NEW h \in Handlers, Press(h) \/ Text(h)
  PROVE  /\ state # NoState
         /\ \E a \in Rendering \cup Menus \cup {"text"} :
              /\ Begin(h, a) /\ a \in Stage(Entry(a))
              /\ \/ Entry(a) \in {"read", "purge", "find"}
                 \/ Entry(a) = "edit" /\ a \in Menus \ Prompts
<1>1. CASE Press(h)
  <2>1. PICK a \in Buttons : Begin(h, a)
    BY <1>1 DEF Press
  <2>2. view.kind # "none"
    BY <2>1 DEF Buttons
  <2>3. a \in Folders \cup {"back", "home", "refresh", "search", "clearsearch", "prevpage",
                            "nextpage", "file", "fileback", "rename", "delete", "delconfirm",
                            "delcancel"}
    BY <2>1 DEF Buttons
  <2>4. /\ a \in Rendering \cup Menus \cup {"text"} /\ a \in Stage(Entry(a))
        /\ \/ Entry(a) \in {"read", "purge", "find"}
           \/ Entry(a) = "edit" /\ a \in Menus \ Prompts
    <3>1. CASE a \in Folders
      <4>1. Entry(a) = "read"
        BY <3>1, ExplorerAssumption DEF Entry, ExplorerAssumption
      <4> QED BY <3>1, <4>1 DEF Stage, Rendering, Navigation
    <3>2. CASE a \notin Folders
      BY <2>3, <3>2 DEF Entry, Stage, Rendering, Navigation, Menus, Prompts
    <3> QED BY <3>1, <3>2
  <2> QED BY <2>1, <2>2, <2>4 DEF CrumbInv
<1>2. CASE Text(h)
  BY <1>2 DEF Text, Entry, Stage
<1> QED BY <1>1, <1>2

LEMMA CrumbBegin ==
  ASSUME TypeInv, CrumbInv, NEW h \in Handlers, Press(h) \/ Text(h)
  PROVE  TypeInv' /\ CrumbInv'
<1>1. PICK a \in Rendering \cup Menus \cup {"text"} :
        /\ Begin(h, a) /\ a \in Stage(Entry(a))
        /\ \/ Entry(a) \in {"read", "purge", "find"}
           \/ Entry(a) = "edit" /\ a \in Menus \ Prompts
  BY Pressed
<1>2. TypeInv'
  BY <1>1, TypeBegin
<1>3. Trail(state') /\ loc' = [loc EXCEPT ![h] = loc[h]]
  BY <1>1, Pressed, Unchanged DEF Begin, CrumbInv
<1>4. CrumbInv'
  BY <1>1, <1>3, CrumbKept DEF Begin
<1> QED BY <1>2, <1>4

LEMMA CrumbOpen ==
  ASSUME TypeInv, CrumbInv, NEW h \in Handlers, Open(h)
  PROVE  TypeInv' /\ CrumbInv'
<1>1. /\ pc' = [pc EXCEPT ![h] = "render"] /\ op' = [op EXCEPT ![h] = "open"]
      /\ loc' = [loc EXCEPT ![h] = Opened] /\ state' = Opened /\ pc[h] = "ready"
      /\ state = NoState
      /\ UNCHANGED <<cache, view, got, history, bounds>>
  BY DEF Open
<1>2. PageInv'
  <2>1. \A g \in Handlers : pc'[g] = "read" => pc[g] = "read" /\ op'[g] = op[g]
    BY <1>1 DEF TypeInv, TypeOK, OpInv
  <2>2. Turning' \subseteq Turning
    BY <2>1 DEF Turning
  <2>3. \A g \in Handlers : loc'[g] = loc[g] \/ loc'[g] = Opened
    BY <1>1 DEF TypeInv
  <2>4. state.page \in Nat /\ state.page >= 1 /\ presses' = presses /\ presses \in Nat
    BY <1>1, PageBounds, DocumentType DEF bounds
  <2>5. \A g \in Handlers : /\ loc'[g].page \in Nat
                            /\ loc'[g].page <= state.page \/ loc'[g].page <= loc[g].page
    BY <2>3, <2>4, OpenedType, PageBounds
  <2>6. state'.page \in Nat /\ state'.page <= state.page
    BY <1>1, <2>4, OpenedType
  <2> QED BY <2>2, <2>4, <2>5, <2>6, PageKept
<1>3. "open" \in Stage("render") /\ "render" \in Places
  BY DEF Stage, Places
<1>4. got' = [got EXCEPT ![h] = got[h]] /\ got[h] \in DrivePages \cup {Nothing}
  BY <1>1, Unchanged
<1>5. TypeInv'
  <2>1. /\ state' \in Document /\ cache' \in [Keys -> DrivePages \cup {Nothing}] /\ view' \in Views
        /\ asked' \subseteq Prompts /\ presses' \in 0..MaxPresses /\ faults' \in 0..MaxFaults
        /\ crashes' \in 0..MaxCrashes /\ overlapped' \in BOOLEAN /\ skipped' \in BOOLEAN
    BY <1>1, OpenedType DEF TypeInv, TypeOK, history, bounds, Prompts
  <2> QED BY <1>1, <1>2, <1>3, <1>4, <2>1, Moved, OpenedType
<1>6. CrumbInv'
  BY <1>1, CrumbKept, OpenedType
<1> QED BY <1>5, <1>6

LEMMA GoesOn ==
  ASSUME TypeInv, CrumbInv, NEW h \in Handlers, NEW l \in Places, NEW o \in Stage(l),
         pc' = [pc EXCEPT ![h] = l], op' = [op EXCEPT ![h] = o], l # "read" \/ o # "nextpage",
         NEW d \in Document, loc' = [loc EXCEPT ![h] = d],
         d.page <= state.page \/ d.page <= loc[h].page,
         NEW p \in DrivePages \cup {Nothing}, got' = [got EXCEPT ![h] = p],
         l \in {"fill", "save"} \/ (l = "edit" /\ o \notin Menus) => p \in DrivePages,
         state' \in Document, state'.page <= state.page \/ state'.page <= loc[h].page,
         Trail(state'), l \in {"read", "apply"} \/ Trail(d),
         cache' \in [Keys -> DrivePages \cup {Nothing}],
         asked' \subseteq Prompts, faults' \in 0..MaxFaults, skipped' \in BOOLEAN,
         UNCHANGED <<view, presses, crashes, overlapped>>
  PROVE  TypeInv' /\ CrumbInv'
<1>1. TypeInv'
  BY TypeGoesOn
<1>2. CrumbInv'
  BY CrumbKept
<1> QED BY <1>1, <1>2

LEMMA Returns ==
  ASSUME TypeInv, CrumbInv, NEW h \in Handlers, Return(h),
         state' \in Document, state'.page <= state.page \/ state'.page <= loc[h].page,
         Trail(state'), cache' \in [Keys -> DrivePages \cup {Nothing}], view' \in Views,
         asked' \subseteq Prompts, faults' \in 0..MaxFaults, skipped' \in BOOLEAN,
         UNCHANGED <<presses, crashes, overlapped>>
  PROVE  TypeInv' /\ CrumbInv'
<1>1. TypeInv'
  BY TypeReturn
<1>2. CrumbInv'
  BY CrumbKept DEF Return
<1> QED BY <1>1, <1>2

LEMMA CrumbRead ==
  ASSUME TypeInv, CrumbInv, NEW h \in Handlers, Read(h)
  PROVE  TypeInv' /\ CrumbInv'
<1> DEFINE d == Changed(op[h], state)
           l == CASE op[h] = "refresh" -> "invalidate"
                  [] op[h] \in {"fileback", "delconfirm"} -> "render"
                  [] OTHER -> "write"
<1>1. /\ pc[h] = "read" /\ pc' = [pc EXCEPT ![h] = l] /\ op' = op
      /\ loc' = [loc EXCEPT ![h] = d]
      /\ UNCHANGED <<state, cache, view, got, asked, overlapped, skipped, presses, faults, crashes>>
  BY DEF Read, Goto, history, bounds
<1>2. op[h] \in Rendering \cup Prompts /\ Trail(state) /\ state \in Document
  BY <1>1, AtWork DEF Stage
<1>3. /\ l \in Places /\ l \notin {"read", "edit", "fill", "save"} /\ op[h] \in Stage(l)
  BY <1>2, ExplorerAssumption DEF Places, Stage, Rendering, Navigation, Prompts, ExplorerAssumption
<1>4. /\ d \in Document /\ Trail(d)
      /\ op[h] = "nextpage" => d.page = state.page + 1
      /\ op[h] # "nextpage" => d.page <= state.page
  BY <1>1, <1>2, ChangedType, PageBounds
<1> HIDE DEF d, l
<1>5. PageInv'
  <2>1. \A g \in Handlers : loc'[g] = loc[g] \/ (loc'[g] = d /\ g = h)
    BY <1>1 DEF TypeInv
  <2>2. Turning' = Turning \ {h}
    BY <1>1, <1>3 DEF Turning, TypeInv, TypeOK
  <2>3. d.page \in Nat
    BY <1>4, DocumentType
  <2>4. CASE op[h] = "nextpage"
    <3>1. h \in Turning
      BY <1>1, <2>4 DEF Turning
    <3>2. /\ IsFiniteSet(Turning') /\ Cardinality(Turning') = Cardinality(Turning) - 1
      BY <2>2, <3>1, FS_RemoveElement DEF TypeInv, PageInv
    <3> QED BY <1>1, <1>4, <2>1, <2>3, <2>4, <3>2, PageBounds DEF TypeInv, PageInv
  <2>5. CASE op[h] # "nextpage"
    BY <1>1, <1>4, <2>1, <2>2, <2>3, <2>5, PageBounds, PageKept
  <2> QED BY <2>4, <2>5
<1>6. TypeInv'
  <2>1. op' = [op EXCEPT ![h] = op[h]] /\ got' = [got EXCEPT ![h] = got[h]]
        /\ got[h] \in DrivePages \cup {Nothing}
    BY <1>1, Unchanged
  <2>2. /\ state' \in Document /\ cache' \in [Keys -> DrivePages \cup {Nothing}] /\ view' \in Views
        /\ asked' \subseteq Prompts /\ presses' \in 0..MaxPresses /\ faults' \in 0..MaxFaults
        /\ crashes' \in 0..MaxCrashes /\ overlapped' \in BOOLEAN /\ skipped' \in BOOLEAN
    BY <1>1, <1>2 DEF TypeInv, TypeOK, Prompts
  <2> QED BY <1>1, <1>3, <1>4, <1>5, <2>1, <2>2, Moved
<1>7. CrumbInv'
  BY <1>1, <1>2, <1>4, CrumbKept, Unchanged
<1> QED BY <1>6, <1>7

\* Errors that Redis' cache.Set and InvalidatePrefix hide count as faults.
LEMMA DropType ==
  ASSUME TypeInv, DropListings
  PROVE  cache' \in [Keys -> DrivePages \cup {Nothing}] /\ faults' \in 0..MaxFaults
<1>1. EmptyCache \in [Keys -> DrivePages \cup {Nothing}]
  BY DEF EmptyCache
<1> QED BY <1>1, ExplorerAssumption DEF DropListings, TypeInv, TypeOK, ExplorerAssumption

LEMMA CrumbWrite ==
  ASSUME TypeInv, CrumbInv, NEW h \in Handlers, Write(h)
  PROVE  TypeInv' /\ CrumbInv'
<1> DEFINE l == IF Asks(h) # {} THEN "edit" ELSE "render"
<1>1. /\ pc[h] = "write" /\ pc' = [pc EXCEPT ![h] = l] /\ op' = op /\ state' = loc[h]
      /\ asked' = asked \cup Asks(h) /\ skipped' \in BOOLEAN
      /\ UNCHANGED <<cache, view, loc, got, overlapped, presses, faults, crashes>>
  BY DEF Write, Upserted, Goto, bounds
<1>2. op[h] \in Navigation \cup Prompts /\ Trail(loc[h]) /\ loc[h] \in Document
  BY <1>1, AtWork DEF Stage, Holding
<1>3. /\ l \in Places /\ l \in {"edit", "render"} /\ op[h] \in Stage(l)
      /\ l = "edit" => op[h] \in Menus
  BY <1>2 DEF Asks, Places, Stage, Rendering, Menus, Prompts
<1> HIDE DEF l
<1>4. /\ op' = [op EXCEPT ![h] = op[h]] /\ got' = [got EXCEPT ![h] = got[h]]
      /\ loc' = [loc EXCEPT ![h] = loc[h]] /\ got[h] \in DrivePages \cup {Nothing}
  BY <1>1, Unchanged
<1>5. /\ cache' \in [Keys -> DrivePages \cup {Nothing}] /\ asked' \subseteq Prompts
      /\ faults' \in 0..MaxFaults
  BY <1>1, AtWork DEF Asks, Prompts
<1>6. loc[h].page <= loc[h].page
  BY <1>2, DocumentType
<1>7. state' = loc[h] /\ pc' = [pc EXCEPT ![h] = l] /\ UNCHANGED <<view, presses, crashes, overlapped>>
  BY <1>1
<1>8. skipped' \in BOOLEAN
  BY <1>1
<1> QED BY <1>2, <1>3, <1>4, <1>5, <1>6, <1>7, <1>8, GoesOn

LEMMA CrumbInvalidate ==
  ASSUME TypeInv, CrumbInv, NEW h \in Handlers, Invalidate(h)
  PROVE  TypeInv' /\ CrumbInv'
<1>1. /\ pc[h] = "invalidate" /\ pc' = [pc EXCEPT ![h] = "render"] /\ DropListings
      /\ UNCHANGED <<op, state, view, loc, got, asked, overlapped, skipped, presses, crashes>>
  BY DEF Invalidate, Goto, history
<1>2. op[h] \in Stage("render") /\ "render" \in Places /\ Trail(loc[h]) /\ Trail(state)
  BY <1>1, AtWork DEF Stage, Holding, Places, Rendering
<1>3. /\ op' = [op EXCEPT ![h] = op[h]] /\ got' = [got EXCEPT ![h] = got[h]]
      /\ loc' = [loc EXCEPT ![h] = loc[h]] /\ got[h] \in DrivePages \cup {Nothing}
      /\ loc[h] \in Document
  BY <1>1, Unchanged
<1>4. /\ cache' \in [Keys -> DrivePages \cup {Nothing}] /\ faults' \in 0..MaxFaults
  BY <1>1, DropType
<1>5. /\ loc[h].page <= loc[h].page /\ state'.page <= state.page /\ state' \in Document
      /\ asked' \subseteq Prompts /\ skipped' \in BOOLEAN /\ Trail(state')
      /\ UNCHANGED <<view, presses, crashes, overlapped>> /\ pc' = [pc EXCEPT ![h] = "render"]
  BY <1>1, <1>2, PageBounds DEF TypeInv, TypeOK, Prompts
<1> QED BY <1>2, <1>3, <1>4, <1>5, GoesOn

LEMMA CrumbPurge ==
  ASSUME TypeInv, CrumbInv, NEW h \in Handlers, Purge(h)
  PROVE  TypeInv' /\ CrumbInv'
<1>1. /\ pc[h] = "purge" /\ pc' = [pc EXCEPT ![h] = "read"] /\ DropListings
      /\ UNCHANGED <<op, state, view, loc, got, asked, overlapped, skipped, presses, crashes>>
  BY DEF Purge, Goto, history
<1>2. /\ op[h] \in Stage("read") /\ op[h] # "nextpage" /\ "read" \in Places /\ Trail(state)
  BY <1>1, AtWork DEF Stage, Places, Rendering
<1>3. /\ op' = [op EXCEPT ![h] = op[h]] /\ got' = [got EXCEPT ![h] = got[h]]
      /\ loc' = [loc EXCEPT ![h] = loc[h]] /\ got[h] \in DrivePages \cup {Nothing}
      /\ loc[h] \in Document
  BY <1>1, Unchanged
<1>4. /\ cache' \in [Keys -> DrivePages \cup {Nothing}] /\ faults' \in 0..MaxFaults
  BY <1>1, DropType
<1>5. /\ loc[h].page <= loc[h].page /\ state'.page <= state.page /\ state' \in Document
      /\ asked' \subseteq Prompts /\ skipped' \in BOOLEAN /\ Trail(state')
      /\ UNCHANGED <<view, presses, crashes, overlapped>> /\ pc' = [pc EXCEPT ![h] = "read"]
  BY <1>1, <1>2, PageBounds DEF TypeInv, TypeOK, Prompts
<1> QED BY <1>2, <1>3, <1>4, <1>5, GoesOn

LEMMA CrumbFind ==
  ASSUME TypeInv, CrumbInv, NEW h \in Handlers, Find(h)
  PROVE  TypeInv' /\ CrumbInv'
<1>1. /\ pc[h] = "find"
      /\ UNCHANGED <<state, cache, view, asked, overlapped, skipped, presses, faults, crashes>>
  BY DEF Find, history, bounds
<1>2. Trail(state) /\ op[h] \in Stage("clear") /\ "clear" \in Places /\ state \in Document
  BY <1>1, AtWork DEF Stage, Places
<1>3. /\ state.page <= state.page /\ state'.page <= state.page /\ state' \in Document
      /\ asked' \subseteq Prompts /\ skipped' \in BOOLEAN /\ Trail(state') /\ view' \in Views
      /\ UNCHANGED <<view, presses, crashes, overlapped>>
      /\ cache' \in [Keys -> DrivePages \cup {Nothing}] /\ faults' \in 0..MaxFaults
  BY <1>1, <1>2, AtWork, PageBounds
<1>4. CASE loc' = [loc EXCEPT ![h] = state] /\ Goto(h, "clear") /\ UNCHANGED got
  <2>1. /\ op' = [op EXCEPT ![h] = op[h]] /\ got' = [got EXCEPT ![h] = got[h]]
        /\ got[h] \in DrivePages \cup {Nothing} /\ pc' = [pc EXCEPT ![h] = "clear"]
    BY <1>4, Unchanged DEF Goto
  <2>2. loc' = [loc EXCEPT ![h] = state]
    BY <1>4
  <2> QED BY <1>2, <1>3, <2>1, <2>2, GoesOn
<1>5. CASE Return(h)
  BY <1>3, <1>5, Returns
<1> QED BY <1>4, <1>5 DEF Find

LEMMA CrumbClear ==
  ASSUME TypeInv, CrumbInv, NEW h \in Handlers, Clear(h)
  PROVE  TypeInv' /\ CrumbInv'
<1> DEFINE l == IF loc[h].rename THEN "apply" ELSE "read"
           o == IF loc[h].rename THEN "newname" ELSE "query"
<1>1. /\ pc[h] = "clear" /\ pc' = [pc EXCEPT ![h] = l] /\ op' = [op EXCEPT ![h] = o]
      /\ state' = Cleared(loc[h]) /\ asked' = asked \ {Prompt(loc[h])}
      /\ UNCHANGED <<cache, view, loc, got, overlapped, skipped, presses, faults, crashes>>
  BY DEF Clear, bounds
<1>2. Trail(loc[h]) /\ loc[h] \in Document
  BY <1>1, AtWork DEF Holding
<1>3. /\ l \in Places /\ l \in {"read", "apply"} /\ o \in Stage(l) /\ o # "nextpage"
  BY DEF Places, Stage, Rendering, Navigation
<1> HIDE DEF l, o
<1>4. /\ got' = [got EXCEPT ![h] = got[h]] /\ loc' = [loc EXCEPT ![h] = loc[h]]
      /\ got[h] \in DrivePages \cup {Nothing}
  BY <1>1, Unchanged
<1>5. state' \in Document /\ Trail(state') /\ state'.page <= loc[h].page /\ loc[h].page <= loc[h].page
  BY <1>1, <1>2, ClearedType, DocumentType DEF Trail
<1>6. /\ pc' = [pc EXCEPT ![h] = l] /\ op' = [op EXCEPT ![h] = o]
      /\ UNCHANGED <<view, presses, crashes, overlapped>> /\ skipped' \in BOOLEAN
      /\ cache' \in [Keys -> DrivePages \cup {Nothing}] /\ faults' \in 0..MaxFaults
      /\ asked' \subseteq Prompts
  BY <1>1, AtWork
<1> QED BY <1>2, <1>3, <1>4, <1>5, <1>6, GoesOn

LEMMA CrumbApply ==
  ASSUME TypeInv, CrumbInv, NEW h \in Handlers, Apply(h)
  PROVE  TypeInv' /\ CrumbInv'
<1>1. /\ pc[h] = "apply" /\ Return(h) /\ DropListings
      /\ UNCHANGED <<state, view, asked, overlapped, skipped, presses, crashes>>
  BY DEF Apply, history
<1>2. /\ cache' \in [Keys -> DrivePages \cup {Nothing}] /\ faults' \in 0..MaxFaults
  BY <1>1, DropType
<1>3. /\ Trail(state') /\ state' \in Document /\ state'.page <= state.page
      /\ asked' \subseteq Prompts /\ skipped' \in BOOLEAN /\ view' \in Views
  BY <1>1, AtWork, PageBounds
<1>4. Return(h) /\ UNCHANGED <<presses, crashes, overlapped>>
  BY <1>1
<1> QED BY <1>2, <1>3, <1>4, Returns

\* A handler that renders stays with its document.
LEMMA StaysOn ==
  ASSUME TypeInv, CrumbInv, NEW h \in Handlers, pc[h] \in {"render", "fill", "save"},
         NEW l \in {"fill", "save", "edit"}, pc' = [pc EXCEPT ![h] = l], op' = op,
         NEW d \in Document, loc' = [loc EXCEPT ![h] = d], d.page <= loc[h].page, Trail(d),
         NEW p \in DrivePages, got' = [got EXCEPT ![h] = p],
         state' \in {state, loc[h]}, cache' \in [Keys -> DrivePages \cup {Nothing}],
         faults' \in 0..MaxFaults,
         UNCHANGED <<view, asked, skipped, presses, crashes, overlapped>>
  PROVE  TypeInv' /\ CrumbInv'
<1>1. op[h] \in Stage(l) /\ l \in Places /\ p \in DrivePages \cup {Nothing} /\ l # "read"
  BY AtWork DEF Stage, Places
<1>2. op' = [op EXCEPT ![h] = op[h]]
  BY Unchanged
<1>3. /\ Trail(state') /\ state' \in Document
      /\ state'.page <= state.page \/ state'.page <= loc[h].page
  BY AtWork, PageBounds DEF Holding
<1>4. asked' \subseteq Prompts /\ skipped' \in BOOLEAN
  BY AtWork
<1>5. UNCHANGED <<view, presses, crashes, overlapped>>
  OBVIOUS
<1> QED BY <1>1, <1>2, <1>3, <1>4, <1>5, GoesOn

LEMMA CrumbHit ==
  ASSUME TypeInv, CrumbInv, NEW h \in Handlers, Hit(h)
  PROVE  TypeInv' /\ CrumbInv'
<1>1. /\ pc[h] = "render" /\ cache[Key(loc[h])] # Nothing
      /\ pc' = [pc EXCEPT ![h] = "edit"] /\ op' = op
      /\ got' = [got EXCEPT ![h] = cache[Key(loc[h])]]
      /\ UNCHANGED <<state, cache, view, loc, asked, overlapped, skipped, presses, faults, crashes>>
  BY DEF Hit, Goto, history, bounds
<1>2. cache[Key(loc[h])] \in DrivePages
  BY <1>1, AtWork
<1>3. loc' = [loc EXCEPT ![h] = loc[h]] /\ loc[h] \in Document /\ Trail(loc[h])
      /\ loc[h].page <= loc[h].page
  BY <1>1, Unchanged, AtWork, DocumentType DEF Holding
<1>4. /\ cache' \in [Keys -> DrivePages \cup {Nothing}] /\ faults' \in 0..MaxFaults
      /\ state' \in {state, loc[h]}
  BY <1>1, AtWork
<1>5. /\ pc[h] = "render" /\ pc' = [pc EXCEPT ![h] = "edit"] /\ op' = op
      /\ got' = [got EXCEPT ![h] = cache[Key(loc[h])]]
      /\ UNCHANGED <<view, asked, skipped, presses, crashes, overlapped>>
  BY <1>1
<1> QED BY <1>2, <1>3, <1>4, <1>5, StaysOn

LEMMA CrumbMiss ==
  ASSUME TypeInv, CrumbInv, NEW h \in Handlers, Miss(h)
  PROVE  TypeInv' /\ CrumbInv'
<1>1. /\ pc[h] = "render"
      /\ pc' = [pc EXCEPT ![h] = "fill"] /\ op' = op
      /\ got' = [got EXCEPT ![h] = Listed(loc[h])]
      /\ cache' = [cache EXCEPT ![Key(loc[h])] = Nothing]
      /\ UNCHANGED <<state, view, loc, asked, overlapped, skipped, presses, faults, crashes>>
  BY DEF Miss, Goto, history, bounds
<1>2. loc' = [loc EXCEPT ![h] = loc[h]] /\ loc[h] \in Document /\ Trail(loc[h])
      /\ loc[h].page <= loc[h].page /\ Listed(loc[h]) \in DrivePages
  BY <1>1, Unchanged, AtWork, DocumentType DEF Holding
<1>3. /\ cache' \in [Keys -> DrivePages \cup {Nothing}] /\ faults' \in 0..MaxFaults
      /\ state' \in {state, loc[h]}
  BY <1>1, AtWork
<1>4. /\ pc[h] = "render" /\ pc' = [pc EXCEPT ![h] = "fill"] /\ op' = op
      /\ got' = [got EXCEPT ![h] = Listed(loc[h])]
      /\ UNCHANGED <<view, asked, skipped, presses, crashes, overlapped>>
  BY <1>1
<1> QED BY <1>2, <1>3, <1>4, StaysOn

\* The token of the next page, stored in the document.
WithToken(d, p) == [d EXCEPT !.tokens[d.page + 1] = [p EXCEPT ![3] = @ + 1]]

LEMMA TokenType ==
  ASSUME NEW d \in Document, d.page + 1 \in PageNumbers, NEW p \in DrivePages, p[3] < NumPages
  PROVE  /\ WithToken(d, p) \in Document
         /\ WithToken(d, p).tokens = [d.tokens EXCEPT ![d.page + 1] = <<p[1], p[2], p[3] + 1>>]
         /\ WithToken(d, p).page = d.page /\ WithToken(d, p).folder = d.folder
         /\ WithToken(d, p).query = d.query /\ WithToken(d, p).crumbs = d.crumbs
         /\ WithToken(d, p).rename = d.rename /\ WithToken(d, p).search = d.search
         /\ <<p[1], p[2], p[3] + 1>> \in DrivePages
<1> DEFINE t == [p EXCEPT ![3] = @ + 1]
<1>1. t \in DrivePages /\ t = <<p[1], p[2], p[3] + 1>>
  BY NextPageType
<1>2. WithToken(d, p) = [d EXCEPT !.tokens[d.page + 1] = t]
  BY DEF WithToken
<1> HIDE DEF t
<1>3. /\ [d EXCEPT !.tokens[d.page + 1] = t] \in Document
      /\ [d EXCEPT !.tokens[d.page + 1] = t].tokens = [d.tokens EXCEPT ![d.page + 1] = t]
      /\ \A e : e = [d EXCEPT !.tokens[d.page + 1] = t] =>
           /\ e.page = d.page /\ e.folder = d.folder /\ e.query = d.query /\ e.crumbs = d.crumbs
           /\ e.rename = d.rename /\ e.search = d.search
  BY <1>1 DEF Document
<1> QED BY <1>1, <1>2, <1>3

LEMMA CrumbFill ==
  ASSUME TypeInv, CrumbInv, NEW h \in Handlers, Fill(h)
  PROVE  TypeInv' /\ CrumbInv'
<1>1. /\ pc[h] = "fill" /\ UNCHANGED <<state, view, got, asked, overlapped, skipped, presses, crashes>>
      /\ op' = op
  BY DEF Fill, Goto, history
<1>2. loc[h] \in Document /\ Trail(loc[h]) /\ loc[h].page + 1 \in PageNumbers
      /\ loc[h].page <= loc[h].page /\ Key(loc[h]) \in Keys
  BY <1>1, AtWork, DocumentType DEF Holding
<1>3. got[h] \in DrivePages /\ got' = [got EXCEPT ![h] = got[h]]
  BY <1>1, Unchanged DEF TypeInv, GotInv
<1>4. /\ cache' \in [Keys -> DrivePages \cup {Nothing}] /\ faults' \in 0..MaxFaults
  BY <1>1, <1>2, <1>3, AtWork, ExplorerAssumption DEF Fill, ExplorerAssumption
<1>5. /\ state' \in {state, loc[h]} /\ pc[h] \in {"render", "fill", "save"}
      /\ UNCHANGED <<view, asked, skipped, presses, crashes, overlapped>>
  BY <1>1
<1>6. CASE got[h][3] < NumPages
  <2>1. /\ pc' = [pc EXCEPT ![h] = "save"]
        /\ loc' = [loc EXCEPT ![h] = WithToken(loc[h], got[h])]
    BY <1>6 DEF Fill, Goto, WithToken
  <2>2. /\ WithToken(loc[h], got[h]) \in Document /\ Trail(WithToken(loc[h], got[h]))
        /\ WithToken(loc[h], got[h]).page <= loc[h].page
    BY <1>2, <1>3, <1>6, TokenType DEF Trail
  <2> QED BY <1>1, <1>3, <1>4, <1>5, <2>1, <2>2, StaysOn
<1>7. CASE ~(got[h][3] < NumPages)
  <2>1. pc' = [pc EXCEPT ![h] = "edit"] /\ loc' = [loc EXCEPT ![h] = loc[h]]
    BY <1>7, Unchanged DEF Fill, Goto
  <2> QED BY <1>1, <1>2, <1>3, <1>4, <1>5, <2>1, StaysOn
<1> QED BY <1>6, <1>7

LEMMA CrumbSave ==
  ASSUME TypeInv, CrumbInv, NEW h \in Handlers, Save(h)
  PROVE  TypeInv' /\ CrumbInv'
<1>1. /\ pc[h] = "save" /\ UNCHANGED <<cache, view, loc, got, asked, overlapped, skipped, presses, crashes>>
      /\ op' = op /\ pc' = [pc EXCEPT ![h] = "edit"] /\ state' \in {state, loc[h]}
  BY DEF Save, Goto, history
<1>2. loc[h] \in Document /\ Trail(loc[h]) /\ loc[h].page <= loc[h].page
  BY <1>1, AtWork, DocumentType DEF Holding
<1>3. /\ got[h] \in DrivePages /\ got' = [got EXCEPT ![h] = got[h]]
      /\ loc' = [loc EXCEPT ![h] = loc[h]]
  BY <1>1, Unchanged DEF TypeInv, GotInv
<1>4. /\ cache' \in [Keys -> DrivePages \cup {Nothing}] /\ faults' \in 0..MaxFaults
  BY <1>1, AtWork, ExplorerAssumption DEF Save, ExplorerAssumption
<1>5. /\ state' \in {state, loc[h]} /\ pc[h] \in {"render", "fill", "save"}
      /\ pc' = [pc EXCEPT ![h] = "edit"] /\ op' = op
      /\ UNCHANGED <<view, asked, skipped, presses, crashes, overlapped>>
  BY <1>1
<1> QED BY <1>2, <1>3, <1>4, <1>5, StaysOn

LEMMA CrumbEdit ==
  ASSUME TypeInv, CrumbInv, NEW h \in Handlers, Edit(h)
  PROVE  TypeInv' /\ CrumbInv'
<1>1. /\ pc[h] = "edit" /\ Return(h)
      /\ UNCHANGED <<state, cache, asked, overlapped, skipped, presses, faults, crashes>>
      /\ view' = CASE op[h] \in {"file", "delcancel"} -> Menu("file")
                   [] op[h] \in {"search", "rename", "delete"} -> Menu(op[h])
                   [] OTHER -> Listing(loc[h], got[h])
  BY DEF Edit, history, bounds
<1>2. /\ \A k \in {"file", "search", "rename", "delete"} : Menu(k) \in Views
  BY ExplorerAssumption DEF Menu, Views, PageNumbers, ExplorerAssumption
<1>3. Listing(loc[h], got[h]) \in Views
  BY <1>1, AtWork, DocumentType DEF Listing, Views
<1>4. view' \in Views
  BY <1>1, <1>2, <1>3
<1>5. /\ Trail(state') /\ state' \in Document /\ state'.page <= state.page
      /\ asked' \subseteq Prompts /\ skipped' \in BOOLEAN
      /\ cache' \in [Keys -> DrivePages \cup {Nothing}] /\ faults' \in 0..MaxFaults
  BY <1>1, AtWork, PageBounds
<1>6. Return(h) /\ UNCHANGED <<presses, crashes, overlapped>>
  BY <1>1
<1> QED BY <1>4, <1>5, <1>6, Returns

LEMMA CrumbHandlerFails ==
  ASSUME TypeInv, CrumbInv, NEW h \in Handlers, HandlerFails(h)
  PROVE  TypeInv' /\ CrumbInv'
<1>1. /\ pc[h] # "ready" /\ Return(h) /\ faults' \in 0..MaxFaults
      /\ cache' = IF pc[h] = "render" THEN [cache EXCEPT ![Key(loc[h])] = Nothing] ELSE cache
      /\ UNCHANGED <<view, presses, crashes, overlapped>>
  BY ExplorerAssumption DEF HandlerFails, TypeInv, TypeOK, ExplorerAssumption
<1>2. /\ cache' \in [Keys -> DrivePages \cup {Nothing}] /\ view' \in Views
  BY <1>1, AtWork
<1>3. state \in Document /\ Trail(state) /\ loc[h] \in Document /\ asked \subseteq Prompts
      /\ skipped \in BOOLEAN
  BY <1>1, AtWork
<1>4. /\ Trail(state') /\ state' \in Document
      /\ state'.page <= state.page \/ state'.page <= loc[h].page
      /\ asked' \subseteq Prompts /\ skipped' \in BOOLEAN
  <2>1. CASE UNCHANGED <<state, asked, skipped>>
    BY <1>3, <2>1, PageBounds
  <2>2. CASE pc[h] = "write" /\ Upserted(h)
    <3>1. state' = loc[h] /\ asked' \subseteq Prompts /\ skipped' \in BOOLEAN /\ Trail(loc[h])
      BY <1>3, <2>2, AtWork DEF Upserted, Asks, Prompts, Holding
    <3> QED BY <1>3, <3>1, PageBounds
  <2>3. CASE pc[h] = "clear" /\ state' = Cleared(loc[h]) /\ UNCHANGED <<asked, skipped>>
    <3>1. Trail(loc[h])
      BY <2>3, AtWork DEF Holding
    <3>2. /\ state' \in Document /\ Trail(state') /\ state'.page = loc[h].page
      BY <1>3, <2>3, <3>1, ClearedType DEF Trail
    <3> QED BY <1>3, <2>3, <3>2, PageBounds
  <2> QED BY <2>1, <2>2, <2>3 DEF HandlerFails
<1> QED BY <1>1, <1>2, <1>4, Returns

LEMMA CrumbCrash ==
  ASSUME TypeInv, CrumbInv, Crash
  PROVE  TypeInv' /\ CrumbInv'
<1>1. /\ crashes' \in 0..MaxCrashes
      /\ pc' = [h \in Handlers |-> "ready"] /\ op' = [h \in Handlers |-> "none"]
      /\ loc' = [h \in Handlers |-> NoState] /\ got' = [h \in Handlers |-> Nothing]
      /\ cache' \in {cache, EmptyCache}
      /\ UNCHANGED <<state, view, asked, overlapped, skipped, presses, faults>>
  BY ExplorerAssumption DEF Crash, history, TypeInv, TypeOK, ExplorerAssumption
<1>2. PageInv'
  <2>1. Turning' = {}
    BY <1>1 DEF Turning
  <2>2. IsFiniteSet(Turning') /\ Cardinality(Turning') = 0
    BY <2>1, FS_EmptySet
  <2>3. /\ state'.page \in Nat /\ state'.page <= presses + 1 /\ presses' = presses /\ presses \in Nat
    BY <1>1, PageBounds
  <2>4. \A h \in Handlers : loc'[h].page = 1
    BY <1>1, OpenedType
  <2> QED BY <2>2, <2>3, <2>4 DEF PageInv
<1>3. OpInv'
  BY <1>1 DEF OpInv, Stage
<1>4. /\ cache' \in [Keys -> DrivePages \cup {Nothing}]
  BY <1>1 DEF EmptyCache, TypeInv, TypeOK
<1>5. /\ loc' \in [Handlers -> Document] /\ got' \in [Handlers -> DrivePages \cup {Nothing}]
  BY <1>1, OpenedType
<1>6. TypeOK'
  BY <1>1, <1>4, <1>5 DEF TypeInv, TypeOK
<1>7. TypeInv'
  BY <1>1, <1>2, <1>3, <1>5, <1>6 DEF TypeInv, GotInv
<1>8. CrumbInv'
  BY <1>1 DEF CrumbInv, Holding
<1> QED BY <1>7, <1>8

LEMMA CrumbStutter ==
  ASSUME TypeInv, CrumbInv, UNCHANGED vars
  PROVE  TypeInv' /\ CrumbInv'
<1>1. UNCHANGED <<state, cache, view, pc, op, loc, got, asked, overlapped, skipped,
                  presses, faults, crashes>>
  BY DEF vars, handlers, history, bounds
<1>2. Turning' = Turning
  BY <1>1 DEF Turning
<1>3. PageInv'
  BY <1>1, <1>2 DEF TypeInv, PageInv
<1>4. TypeInv'
  BY <1>1, <1>3 DEF TypeInv, TypeOK, OpInv, GotInv
<1>5. CrumbInv'
  BY <1>1 DEF CrumbInv, Holding
<1> QED BY <1>4, <1>5

LEMMA InitType ==
  ASSUME Init
  PROVE  TypeInv /\ CrumbInv
<1>1. PageInv
  <2>1. Turning = {}
    BY DEF Init, Turning
  <2>2. IsFiniteSet(Turning) /\ Cardinality(Turning) = 0
    BY <2>1, FS_EmptySet
  <2> QED BY <2>2, OpenedType DEF Init, PageInv
<1>2. OpInv
  BY DEF Init, OpInv, Stage
<1>3. view \in Views
  BY ExplorerAssumption DEF Init, Views, Menu, PageNumbers, ExplorerAssumption
<1>4. cache \in [Keys -> DrivePages \cup {Nothing}]
  BY DEF Init, EmptyCache
<1>5. /\ loc \in [Handlers -> Document] /\ got \in [Handlers -> DrivePages \cup {Nothing}]
  BY OpenedType DEF Init
<1>6. TypeOK
  BY <1>3, <1>4, <1>5, ExplorerAssumption DEF Init, TypeOK, Views, ExplorerAssumption
<1>7. CrumbInv
  BY DEF Init, CrumbInv, Menu, Holding
<1> QED BY <1>1, <1>2, <1>3, <1>5, <1>6, <1>7 DEF Init, TypeInv, GotInv

LEMMA StepType ==
  ASSUME TypeInv, CrumbInv, [Next]_vars
  PROVE  TypeInv' /\ CrumbInv'
<1>1. ASSUME NEW h \in Handlers, Press(h) \/ Text(h) \/ Open(h) \/ Handle(h)
      PROVE  TypeInv' /\ CrumbInv'
  BY <1>1, CrumbBegin, CrumbOpen, CrumbRead, CrumbWrite, CrumbInvalidate, CrumbPurge,
     CrumbFind, CrumbClear, CrumbApply, CrumbHit, CrumbMiss, CrumbFill, CrumbSave, CrumbEdit,
     CrumbHandlerFails DEF Handle
<1> QED BY <1>1, CrumbCrash, CrumbStutter DEF Next, Idle

\* Every variable of the browser holds a value of its kind; no handler turns to a
\* page there is no number for.
THEOREM ExplorerTypeCorrect == Spec => []TypeOK
<1>1. Init => TypeInv /\ CrumbInv
  BY InitType
<1>2. TypeInv /\ CrumbInv /\ [Next]_vars => TypeInv' /\ CrumbInv'
  BY StepType
<1>3. TypeInv => TypeOK
  BY DEF TypeInv
<1> QED BY <1>1, <1>2, <1>3, PTL DEF Spec

\* However the goroutines overwrite one another's documents, the folder the
\* document lists is the last of a breadcrumb that starts at the root.
THEOREM BackNeverFails == Spec => []CrumbsLeadToFolder
<1>1. Init => TypeInv /\ CrumbInv
  BY InitType
<1>2. TypeInv /\ CrumbInv /\ [Next]_vars => TypeInv' /\ CrumbInv'
  BY StepType
<1>3. CrumbInv => CrumbsLeadToFolder
  BY DEF CrumbInv, CrumbsLeadToFolder, Trail
<1> QED BY <1>1, <1>2, <1>3, PTL DEF Spec

--------------------------------------------------------------------------------
(* What is listed.                                                            *)

RightUpTo(d, n) == TokensRight(d) /\ TokensUpTo(d, n)

LEMMA Skips ==
  ASSUME [Next]_vars, TypeInv, ~skipped'
  PROVE  ~skipped
<1>1. ASSUME NEW h \in Handlers, Write(h) \/ HandlerFails(h)
      PROVE  ~skipped
  BY <1>1 DEF Write, HandlerFails, Upserted
<1>2. ASSUME NEW h \in Handlers, Press(h) \/ Text(h) \/ Open(h) \/ Handle(h)
      PROVE  ~skipped
  BY <1>1, <1>2 DEF Handle, Press, Text, Begin, Open, Read, Invalidate, Purge, Find, Clear, Apply,
     Hit, Miss, Fill, Save, Edit, history
<1> QED BY <1>2 DEF Next, Crash, Idle, vars, history

\* the conditions on a handler at l with operation o
Lists(l, o, d, p) ==
  /\ RightUpTo(d, IF l = "write" /\ o = "nextpage" THEN d.page - 1 ELSE d.page)
  /\ l \in {"fill", "save"} \/ (l = "edit" /\ o \notin Menus) => p = Key(d)

LEMMA ListHolds ==
  ASSUME ListInv, ~skipped
  PROVE  /\ RightUpTo(state, state.page)
         /\ \A h \in Handlers : Lists(pc[h], op[h], loc[h], got[h])
         /\ \A k \in Keys : cache[k] # Nothing => cache[k] = k
         /\ view.kind = "list" => view.listed = Key(view)
  BY DEF ListInv, Lists, RightUpTo, Unsaved

\* What decides is the document and the handler that moves.
LEMMA ListKept ==
  ASSUME TypeInv, ListInv, ~skipped, NEW h \in Handlers,
         NEW l, pc' = [pc EXCEPT ![h] = l], NEW o, op' = [op EXCEPT ![h] = o],
         NEW d, loc' = [loc EXCEPT ![h] = d], NEW p, got' = [got EXCEPT ![h] = p],
         Lists(l, o, d, p), RightUpTo(state', state'.page),
         \A k \in Keys : cache'[k] # Nothing => cache'[k] = k,
         view'.kind = "list" => view'.listed = Key(view')
  PROVE  ListInv'
<1>1. ASSUME NEW g \in Handlers
      PROVE  Lists(pc'[g], op'[g], loc'[g], got'[g])
  <2>1. CASE g = h
    BY <2>1 DEF TypeInv, TypeOK, OpInv
  <2>2. CASE g # h
    <3>1. pc'[g] = pc[g] /\ op'[g] = op[g] /\ loc'[g] = loc[g] /\ got'[g] = got[g]
      BY <2>2 DEF TypeInv, TypeOK, OpInv
    <3> QED BY <3>1, ListHolds
  <2> QED BY <2>1, <2>2
<1>2. /\ TokensRight(state') /\ TokensUpTo(state', state'.page)
  BY DEF RightUpTo
<1>3. /\ TokensRight(state)' /\ TokensUpTo(state, state.page)'
  BY <1>2 DEF TokensRight, TokensUpTo
<1>4. ASSUME NEW g \in Handlers
      PROVE  /\ TokensRight(loc[g])'
             /\ TokensUpTo(loc[g], IF Unsaved(g) THEN loc[g].page - 1 ELSE loc[g].page)'
             /\ (pc[g] \in {"fill", "save"} => got[g] = Key(loc[g]))'
             /\ (pc[g] = "edit" /\ op[g] \notin Menus => got[g] = Key(loc[g]))'
  <2>1. Lists(pc'[g], op'[g], loc'[g], got'[g])
    BY <1>1
  <2> QED BY <2>1 DEF Lists, RightUpTo, TokensRight, TokensUpTo, Unsaved, Key
<1>5. (view.kind = "list" => view.listed = Key(view))'
  BY DEF Key
<1> QED BY <1>3, <1>4, <1>5 DEF ListInv

LEMMA RightFresh ==
  ASSUME NEW d \in Document, d.tokens = NoTokens, d.page = 1
  PROVE  RightUpTo(d, d.page)
  BY DEF RightUpTo, TokensRight, TokensUpTo, NoTokens, PageNumbers

\* Whichever button, the tokens of the document are right.
LEMMA ChangedRight ==
  ASSUME NEW d \in Document, Trail(d), NEW a \in Rendering \cup Prompts,
         a = "nextpage" => d.page + 1 \in PageNumbers, RightUpTo(d, d.page)
  PROVE  RightUpTo(Changed(a, d), IF a = "nextpage" THEN Changed(a, d).page - 1
                                                    ELSE Changed(a, d).page)
<1>1. CASE a \in {"nextpage", "prevpage"}
  <2> DEFINE e == Turned(a, d)
  <2>1. Changed(a, d) = e
    BY <1>1, ChangedCases DEF Navigation, Prompts
  <2>2. /\ e.folder = d.folder /\ e.query = d.query /\ e.tokens = d.tokens
        /\ a = "nextpage" => e.page = d.page + 1
        /\ a = "prevpage" => e.page <= d.page
        /\ e.page \in Nat /\ d.page \in Nat
    BY <1>1, TurnedType, DocumentType
  <2> HIDE DEF e
  <2>3. TokensRight(e)
    BY <2>2 DEF TokensRight, RightUpTo
  <2>4. TokensUpTo(e, IF a = "nextpage" THEN e.page - 1 ELSE e.page)
    <3>1. CASE a = "nextpage"
      <4>1. e.page - 1 = d.page
        BY <2>2, <3>1
      <4> QED BY <2>2, <3>1, <4>1 DEF TokensUpTo, RightUpTo
    <3>2. CASE a = "prevpage"
      <4>1. \A n \in PageNumbers : n <= e.page => n <= d.page
        BY <2>2, <3>2 DEF PageNumbers
      <4> QED BY <2>2, <3>2, <4>1 DEF TokensUpTo, RightUpTo
    <3> QED BY <1>1, <3>1, <3>2
  <2> QED BY <2>1, <2>3, <2>4 DEF RightUpTo
<1>2. CASE a \notin {"nextpage", "prevpage"}
  <2>1. CASE /\ Changed(a, d) \in Document /\ Changed(a, d).page = 1
             /\ Changed(a, d).tokens = NoTokens
    BY <1>2, <2>1, RightFresh
  <2>2. CASE Changed(a, d) \in {d, [d EXCEPT !.search = TRUE], [d EXCEPT !.rename = TRUE]}
    <3>1. ASSUME NEW e \in {d, [d EXCEPT !.search = TRUE], [d EXCEPT !.rename = TRUE]}
          PROVE  RightUpTo(e, e.page)
      <4>1. e.page = d.page /\ e.folder = d.folder /\ e.query = d.query /\ e.tokens = d.tokens
        BY DEF Document
      <4> QED BY <4>1 DEF RightUpTo, TokensRight, TokensUpTo
    <3> QED BY <1>2, <2>2, <3>1
  <2> QED BY <1>2, <2>1, <2>2, ChangedCases
<1> QED BY <1>1, <1>2

\* The page that Drive is asked for is the one the document names.
LEMMA ListedRight ==
  ASSUME NEW d \in Document, RightUpTo(d, d.page)
  PROVE  Listed(d) = Key(d)
<1>1. d.page \in PageNumbers /\ d.page \in Nat \ {0}
  BY DocumentType
<1>2. CASE d.tokens[d.page] # Nothing
  BY <1>1, <1>2 DEF RightUpTo, TokensRight, Listed, Key
<1>3. CASE d.tokens[d.page] = Nothing
  <2>1. d.page = 1
    BY <1>1, <1>3 DEF RightUpTo, TokensUpTo
  <2> QED BY <1>3, <2>1 DEF Listed, Key
<1> QED BY <1>2, <1>3

LEMMA WithTokenRight ==
  ASSUME NEW d \in Document, d.page + 1 \in PageNumbers, RightUpTo(d, d.page),
         Key(d) \in DrivePages, Key(d)[3] < NumPages
  PROVE  RightUpTo(WithToken(d, Key(d)), WithToken(d, Key(d)).page)
<1> DEFINE e == WithToken(d, Key(d))
<1>1. /\ e.tokens = [d.tokens EXCEPT ![d.page + 1] = <<d.folder, d.query, d.page + 1>>]
      /\ e.page = d.page /\ e.folder = d.folder /\ e.query = d.query
      /\ <<d.folder, d.query, d.page + 1>> \in DrivePages
  BY TokenType DEF Key
<1>2. /\ d.tokens \in [PageNumbers -> DrivePages \cup {Nothing}] /\ d.page \in Nat
      /\ <<d.folder, d.query, d.page + 1>> # Nothing
  BY <1>1, DocumentType, PageType
<1> HIDE DEF e
<1>3. TokensRight(e)
  BY <1>1, <1>2 DEF RightUpTo, TokensRight
<1>4. TokensUpTo(e, e.page)
  BY <1>1, <1>2 DEF RightUpTo, TokensUpTo
<1> QED BY <1>3, <1>4 DEF RightUpTo, e

\* A handler that returns leaves nothing behind but what it did.
LEMMA ListReturns ==
  ASSUME TypeInv, ListInv, ~skipped, NEW h \in Handlers, Return(h),
         RightUpTo(state', state'.page),
         \A k \in Keys : cache'[k] # Nothing => cache'[k] = k,
         view'.kind = "list" => view'.listed = Key(view')
  PROVE  ListInv'
<1>1. Lists("ready", "none", NoState, Nothing)
  BY RightFresh, OpenedType DEF Lists
<1> QED BY <1>1, ListKept DEF Return

LEMMA ListBegin ==
  ASSUME TypeInv, CrumbInv, ListInv, ~skipped, NEW h \in Handlers, Press(h) \/ Text(h)
  PROVE  ListInv'
<1>1. PICK a \in Rendering \cup Menus \cup {"text"} :
        /\ Begin(h, a) /\ a \in Stage(Entry(a))
        /\ \/ Entry(a) \in {"read", "purge", "find"}
           \/ Entry(a) = "edit" /\ a \in Menus \ Prompts
  BY Pressed
<1>2. /\ pc[h] = "ready" /\ pc' = [pc EXCEPT ![h] = Entry(a)] /\ op' = [op EXCEPT ![h] = a]
      /\ UNCHANGED <<state, cache, view, loc, got>>
  BY <1>1 DEF Begin
<1>3. Lists(Entry(a), a, loc[h], got[h])
  BY <1>1, <1>2, ListHolds DEF Lists
<1>4. /\ loc' = [loc EXCEPT ![h] = loc[h]] /\ got' = [got EXCEPT ![h] = got[h]]
  BY <1>2, Unchanged
<1>5. /\ RightUpTo(state', state'.page)
      /\ \A k \in Keys : cache'[k] # Nothing => cache'[k] = k
      /\ view'.kind = "list" => view'.listed = Key(view')
  BY <1>2, ListHolds
<1>6. pc' = [pc EXCEPT ![h] = Entry(a)] /\ op' = [op EXCEPT ![h] = a]
  BY <1>2
<1> QED BY <1>3, <1>4, <1>5, <1>6, ListKept

LEMMA ListOpen ==
  ASSUME TypeInv, ListInv, ~skipped, NEW h \in Handlers, Open(h)
  PROVE  ListInv'
<1>1. /\ pc' = [pc EXCEPT ![h] = "render"] /\ op' = [op EXCEPT ![h] = "open"]
      /\ loc' = [loc EXCEPT ![h] = Opened] /\ state' = Opened
      /\ UNCHANGED <<cache, view, got>>
  BY DEF Open
<1>2. Lists("render", "open", Opened, got[h]) /\ RightUpTo(state', state'.page)
  BY <1>1, RightFresh, OpenedType DEF Lists
<1>3. got' = [got EXCEPT ![h] = got[h]]
  BY <1>1, Unchanged
<1>4. /\ \A k \in Keys : cache'[k] # Nothing => cache'[k] = k
      /\ view'.kind = "list" => view'.listed = Key(view')
  BY <1>1, ListHolds
<1>5. pc' = [pc EXCEPT ![h] = "render"] /\ op' = [op EXCEPT ![h] = "open"]
      /\ loc' = [loc EXCEPT ![h] = Opened]
  BY <1>1
<1> QED BY <1>2, <1>3, <1>4, <1>5, ListKept

LEMMA ListRead ==
  ASSUME TypeInv, CrumbInv, ListInv, ~skipped, NEW h \in Handlers, Read(h)
  PROVE  ListInv'
<1> DEFINE d == Changed(op[h], state)
           l == CASE op[h] = "refresh" -> "invalidate"
                  [] op[h] \in {"fileback", "delconfirm"} -> "render"
                  [] OTHER -> "write"
<1>1. /\ pc[h] = "read" /\ pc' = [pc EXCEPT ![h] = l] /\ op' = op
      /\ loc' = [loc EXCEPT ![h] = d] /\ UNCHANGED <<state, cache, view, got>>
  BY DEF Read, Goto
<1>2. op[h] \in Rendering \cup Prompts /\ Trail(state) /\ state \in Document
  BY <1>1, AtWork DEF Stage
<1>3. RightUpTo(d, IF op[h] = "nextpage" THEN d.page - 1 ELSE d.page)
  BY <1>1, <1>2, ChangedRight, ListHolds, PageBounds
<1>4. l \notin {"fill", "save", "edit"} /\ (op[h] = "nextpage" => l = "write")
  OBVIOUS
<1> HIDE DEF d, l
<1>5. Lists(l, op[h], d, got[h])
  <2>1. CASE op[h] = "nextpage"
    BY <1>3, <1>4, <2>1 DEF Lists
  <2>2. CASE op[h] # "nextpage"
    BY <1>3, <1>4, <2>2 DEF Lists
  <2> QED BY <2>1, <2>2
<1>6. op' = [op EXCEPT ![h] = op[h]] /\ got' = [got EXCEPT ![h] = got[h]]
  BY <1>1, Unchanged
<1>7. /\ RightUpTo(state', state'.page)
      /\ \A k \in Keys : cache'[k] # Nothing => cache'[k] = k
      /\ view'.kind = "list" => view'.listed = Key(view')
  BY <1>1, ListHolds
<1>8. pc' = [pc EXCEPT ![h] = l] /\ loc' = [loc EXCEPT ![h] = d]
  BY <1>1
<1> QED BY <1>5, <1>6, <1>7, <1>8, ListKept

\* What a handler stores, unless Next was pressed without a token, has the token
\* of its own page.
LEMMA UpsertedRight ==
  ASSUME TypeInv, CrumbInv, ListInv, ~skipped, NEW h \in Handlers, pc[h] = "write",
         Upserted(h), ~skipped'
  PROVE  state' = loc[h] /\ RightUpTo(loc[h], loc[h].page)
<1>1. /\ state' = loc[h] /\ (op[h] = "nextpage" => loc[h].tokens[loc[h].page] # Nothing)
  BY DEF Upserted
<1>2. loc[h] \in Document /\ loc[h].page \in Nat
  BY AtWork, DocumentType
<1>3. RightUpTo(loc[h], IF op[h] = "nextpage" THEN loc[h].page - 1 ELSE loc[h].page)
  BY ListHolds DEF Lists
<1>4. \A n \in PageNumbers : n <= loc[h].page => n <= loc[h].page - 1 \/ n = loc[h].page
  BY <1>2 DEF PageNumbers
<1> QED BY <1>1, <1>3, <1>4 DEF RightUpTo, TokensUpTo

LEMMA ListWrite ==
  ASSUME TypeInv, CrumbInv, ListInv, ~skipped, ~skipped', NEW h \in Handlers, Write(h)
  PROVE  ListInv'
<1> DEFINE l == IF Asks(h) # {} THEN "edit" ELSE "render"
<1>1. /\ pc[h] = "write" /\ pc' = [pc EXCEPT ![h] = l] /\ op' = op
      /\ Upserted(h) /\ UNCHANGED <<cache, view, loc, got>>
  BY DEF Write, Goto
<1>2. l \in {"edit", "render"} /\ (l = "edit" => op[h] \in Menus)
  BY DEF Asks, Menus, Prompts
<1> HIDE DEF l
<1>3. state' = loc[h] /\ RightUpTo(loc[h], loc[h].page)
  BY <1>1, UpsertedRight
<1>4. Lists(l, op[h], loc[h], got[h])
  BY <1>2, <1>3 DEF Lists
<1>5. /\ op' = [op EXCEPT ![h] = op[h]] /\ got' = [got EXCEPT ![h] = got[h]]
      /\ loc' = [loc EXCEPT ![h] = loc[h]] /\ pc' = [pc EXCEPT ![h] = l]
  BY <1>1, Unchanged
<1>6. /\ RightUpTo(state', state'.page)
      /\ \A k \in Keys : cache'[k] # Nothing => cache'[k] = k
      /\ view'.kind = "list" => view'.listed = Key(view')
  BY <1>1, <1>3, ListHolds
<1> QED BY <1>4, <1>5, <1>6, ListKept

LEMMA ListDrop ==
  ASSUME TypeInv, ListInv, ~skipped, DropListings
  PROVE  \A k \in Keys : cache'[k] # Nothing => cache'[k] = k
  BY ListHolds DEF DropListings, EmptyCache

\* Refresh and delconfirm, once they have dropped the listings
LEMMA ListDrops ==
  ASSUME TypeInv, CrumbInv, ListInv, ~skipped, NEW h \in Handlers, Invalidate(h) \/ Purge(h)
  PROVE  ListInv'
<1>1. PICK l \in {"render", "read"} :
        /\ pc[h] \in {"invalidate", "purge"} /\ pc' = [pc EXCEPT ![h] = l] /\ op' = op
        /\ DropListings /\ UNCHANGED <<state, view, loc, got>>
  BY DEF Invalidate, Purge, Goto
<1>2. Lists(l, op[h], loc[h], got[h])
  BY <1>1, ListHolds DEF Lists
<1>3. /\ op' = [op EXCEPT ![h] = op[h]] /\ got' = [got EXCEPT ![h] = got[h]]
      /\ loc' = [loc EXCEPT ![h] = loc[h]] /\ pc' = [pc EXCEPT ![h] = l]
  BY <1>1, Unchanged
<1>4. /\ RightUpTo(state', state'.page)
      /\ \A k \in Keys : cache'[k] # Nothing => cache'[k] = k
      /\ view'.kind = "list" => view'.listed = Key(view')
  BY <1>1, ListDrop, ListHolds
<1> QED BY <1>2, <1>3, <1>4, ListKept

LEMMA ListFind ==
  ASSUME TypeInv, CrumbInv, ListInv, ~skipped, NEW h \in Handlers, Find(h)
  PROVE  ListInv'
<1>1. pc[h] = "find" /\ UNCHANGED <<state, cache, view>>
  BY DEF Find
<1>2. /\ RightUpTo(state', state'.page) /\ RightUpTo(state, state.page)
      /\ \A k \in Keys : cache'[k] # Nothing => cache'[k] = k
      /\ view'.kind = "list" => view'.listed = Key(view')
  BY <1>1, ListHolds
<1>3. CASE loc' = [loc EXCEPT ![h] = state] /\ Goto(h, "clear") /\ UNCHANGED got
  <2>1. Lists("clear", op[h], state, got[h])
    BY <1>2 DEF Lists
  <2>2. /\ op' = [op EXCEPT ![h] = op[h]] /\ got' = [got EXCEPT ![h] = got[h]]
        /\ loc' = [loc EXCEPT ![h] = state] /\ pc' = [pc EXCEPT ![h] = "clear"]
    BY <1>3, Unchanged DEF Goto
  <2> QED BY <1>2, <2>1, <2>2, ListKept
<1>4. CASE Return(h)
  BY <1>2, <1>4, ListReturns
<1> QED BY <1>3, <1>4 DEF Find

LEMMA ClearedRight ==
  ASSUME NEW d \in Document, NEW n, RightUpTo(d, n)
  PROVE  RightUpTo(Cleared(d), n)
  BY ClearedType DEF RightUpTo, TokensRight, TokensUpTo

LEMMA ListClear ==
  ASSUME TypeInv, CrumbInv, ListInv, ~skipped, NEW h \in Handlers, Clear(h)
  PROVE  ListInv'
<1> DEFINE l == IF loc[h].rename THEN "apply" ELSE "read"
           o == IF loc[h].rename THEN "newname" ELSE "query"
<1>1. /\ pc[h] = "clear" /\ pc' = [pc EXCEPT ![h] = l] /\ op' = [op EXCEPT ![h] = o]
      /\ state' = Cleared(loc[h]) /\ UNCHANGED <<cache, view, loc, got>>
  BY DEF Clear
<1>2. l \in {"read", "apply"}
  OBVIOUS
<1> HIDE DEF l, o
<1>3. RightUpTo(loc[h], loc[h].page) /\ loc[h] \in Document
  BY <1>1, ListHolds, AtWork DEF Lists
<1>4. Lists(l, o, loc[h], got[h])
  BY <1>2, <1>3 DEF Lists
<1>5. /\ got' = [got EXCEPT ![h] = got[h]] /\ loc' = [loc EXCEPT ![h] = loc[h]]
      /\ pc' = [pc EXCEPT ![h] = l] /\ op' = [op EXCEPT ![h] = o]
  BY <1>1, Unchanged
<1>6. /\ RightUpTo(state', state'.page)
      /\ \A k \in Keys : cache'[k] # Nothing => cache'[k] = k
      /\ view'.kind = "list" => view'.listed = Key(view')
  BY <1>1, <1>3, ListHolds, ClearedRight, ClearedType
<1> QED BY <1>4, <1>5, <1>6, ListKept

LEMMA ListApply ==
  ASSUME TypeInv, CrumbInv, ListInv, ~skipped, NEW h \in Handlers, Apply(h)
  PROVE  ListInv'
<1>1. DropListings /\ Return(h) /\ UNCHANGED <<state, view>>
  BY DEF Apply
<1>2. /\ RightUpTo(state', state'.page)
      /\ view'.kind = "list" => view'.listed = Key(view')
  BY <1>1, ListHolds
<1> QED BY <1>1, <1>2, ListDrop, ListReturns

LEMMA ListHit ==
  ASSUME TypeInv, CrumbInv, ListInv, ~skipped, NEW h \in Handlers, Hit(h)
  PROVE  ListInv'
<1> DEFINE p == cache[Key(loc[h])]
<1>1. /\ pc[h] = "render" /\ p # Nothing /\ pc' = [pc EXCEPT ![h] = "edit"] /\ op' = op
      /\ got' = [got EXCEPT ![h] = p] /\ UNCHANGED <<state, cache, view, loc>>
  BY DEF Hit, Goto
<1>2. p = Key(loc[h])
  BY <1>1, AtWork, ListHolds
<1> HIDE DEF p
<1>3. Lists("edit", op[h], loc[h], p)
  BY <1>1, <1>2, ListHolds DEF Lists
<1>4. /\ op' = [op EXCEPT ![h] = op[h]] /\ got' = [got EXCEPT ![h] = p]
      /\ loc' = [loc EXCEPT ![h] = loc[h]] /\ pc' = [pc EXCEPT ![h] = "edit"]
  BY <1>1, Unchanged
<1>5. /\ RightUpTo(state', state'.page)
      /\ \A k \in Keys : cache'[k] # Nothing => cache'[k] = k
      /\ view'.kind = "list" => view'.listed = Key(view')
  BY <1>1, ListHolds
<1> QED BY <1>3, <1>4, <1>5, ListKept

LEMMA ListMiss ==
  ASSUME TypeInv, CrumbInv, ListInv, ~skipped, NEW h \in Handlers, Miss(h)
  PROVE  ListInv'
<1>1. /\ pc[h] = "render" /\ pc' = [pc EXCEPT ![h] = "fill"] /\ op' = op
      /\ got' = [got EXCEPT ![h] = Listed(loc[h])]
      /\ cache' = [cache EXCEPT ![Key(loc[h])] = Nothing] /\ UNCHANGED <<state, view, loc>>
  BY DEF Miss, Goto
<1>2. RightUpTo(loc[h], loc[h].page) /\ Listed(loc[h]) = Key(loc[h])
  BY <1>1, ListHolds, ListedRight, AtWork DEF Lists
<1>3. Lists("fill", op[h], loc[h], Listed(loc[h]))
  BY <1>2 DEF Lists
<1>4. /\ op' = [op EXCEPT ![h] = op[h]] /\ got' = [got EXCEPT ![h] = Listed(loc[h])]
      /\ loc' = [loc EXCEPT ![h] = loc[h]] /\ pc' = [pc EXCEPT ![h] = "fill"]
  BY <1>1, Unchanged
<1>5. /\ RightUpTo(state', state'.page)
      /\ \A k \in Keys : cache'[k] # Nothing => cache'[k] = k
      /\ view'.kind = "list" => view'.listed = Key(view')
  BY <1>1, ListHolds, AtWork DEF TypeInv, TypeOK
<1> QED BY <1>3, <1>4, <1>5, ListKept

LEMMA ListFill ==
  ASSUME TypeInv, CrumbInv, ListInv, ~skipped, NEW h \in Handlers, Fill(h)
  PROVE  ListInv'
<1>1. pc[h] = "fill" /\ op' = op /\ UNCHANGED <<state, view, got>>
      /\ cache' \in {cache, [cache EXCEPT ![Key(loc[h])] = got[h]]}
  BY DEF Fill, Goto
<1>2. /\ RightUpTo(loc[h], loc[h].page) /\ got[h] = Key(loc[h]) /\ loc[h] \in Document
      /\ got[h] \in DrivePages /\ loc[h].page + 1 \in PageNumbers /\ Key(loc[h]) \in Keys
  BY <1>1, ListHolds, AtWork DEF Lists, TypeInv, GotInv
<1>3. /\ op' = [op EXCEPT ![h] = op[h]] /\ got' = [got EXCEPT ![h] = got[h]]
  BY <1>1, Unchanged
<1>4. /\ RightUpTo(state', state'.page)
      /\ \A k \in Keys : cache'[k] # Nothing => cache'[k] = k
      /\ view'.kind = "list" => view'.listed = Key(view')
  BY <1>1, <1>2, ListHolds DEF TypeInv, TypeOK
<1>5. CASE got[h][3] < NumPages
  <2> DEFINE d == WithToken(loc[h], got[h])
  <2>1. pc' = [pc EXCEPT ![h] = "save"] /\ loc' = [loc EXCEPT ![h] = d]
    BY <1>5 DEF Fill, Goto, WithToken
  <2>2. RightUpTo(d, d.page)
    BY <1>2, <1>5, WithTokenRight
  <2>3. d.folder = loc[h].folder /\ d.query = loc[h].query /\ d.page = loc[h].page
    BY <1>2, <1>5, TokenType
  <2> HIDE DEF d
  <2>4. Lists("save", op[h], d, got[h])
    BY <1>2, <2>2, <2>3 DEF Lists, Key
  <2> QED BY <1>3, <1>4, <2>1, <2>4, ListKept
<1>6. CASE ~(got[h][3] < NumPages)
  <2>1. pc' = [pc EXCEPT ![h] = "edit"] /\ loc' = [loc EXCEPT ![h] = loc[h]]
    BY <1>6, Unchanged DEF Fill, Goto
  <2>2. Lists("edit", op[h], loc[h], got[h])
    BY <1>2 DEF Lists
  <2> QED BY <1>3, <1>4, <2>1, <2>2, ListKept
<1> QED BY <1>5, <1>6

LEMMA ListSave ==
  ASSUME TypeInv, CrumbInv, ListInv, ~skipped, NEW h \in Handlers, Save(h)
  PROVE  ListInv'
<1>1. /\ pc[h] = "save" /\ pc' = [pc EXCEPT ![h] = "edit"] /\ op' = op
      /\ state' \in {state, loc[h]} /\ UNCHANGED <<cache, view, loc, got>>
  BY DEF Save, Goto
<1>2. RightUpTo(loc[h], loc[h].page) /\ got[h] = Key(loc[h])
  BY <1>1, ListHolds DEF Lists
<1>3. Lists("edit", op[h], loc[h], got[h])
  BY <1>2 DEF Lists
<1>4. /\ op' = [op EXCEPT ![h] = op[h]] /\ got' = [got EXCEPT ![h] = got[h]]
      /\ loc' = [loc EXCEPT ![h] = loc[h]] /\ pc' = [pc EXCEPT ![h] = "edit"]
  BY <1>1, Unchanged
<1>5. /\ RightUpTo(state', state'.page)
      /\ \A k \in Keys : cache'[k] # Nothing => cache'[k] = k
      /\ view'.kind = "list" => view'.listed = Key(view')
  BY <1>1, <1>2, ListHolds
<1> QED BY <1>3, <1>4, <1>5, ListKept

LEMMA ListEdit ==
  ASSUME TypeInv, CrumbInv, ListInv, ~skipped, NEW h \in Handlers, Edit(h)
  PROVE  ListInv'
<1>1. /\ pc[h] = "edit" /\ Return(h) /\ UNCHANGED <<state, cache>>
      /\ view' = CASE op[h] \in {"file", "delcancel"} -> Menu("file")
                   [] op[h] \in {"search", "rename", "delete"} -> Menu(op[h])
                   [] OTHER -> Listing(loc[h], got[h])
  BY DEF Edit
<1>2. view'.kind = "list" => view'.listed = Key(view')
  <2>1. CASE op[h] \in Menus
    BY <1>1, <2>1 DEF Menus, Prompts, Menu
  <2>2. CASE op[h] \notin Menus
    <3>1. got[h] = Key(loc[h])
      BY <1>1, <2>2, ListHolds DEF Lists
    <3>2. view' = Listing(loc[h], got[h])
      BY <1>1, <2>2 DEF Menus, Prompts
    <3> QED BY <3>1, <3>2 DEF Listing, Key
  <2> QED BY <2>1, <2>2
<1>3. /\ RightUpTo(state', state'.page)
      /\ \A k \in Keys : cache'[k] # Nothing => cache'[k] = k
  BY <1>1, ListHolds
<1> QED BY <1>1, <1>2, <1>3, ListReturns

LEMMA ListHandlerFails ==
  ASSUME TypeInv, CrumbInv, ListInv, ~skipped, ~skipped', NEW h \in Handlers, HandlerFails(h)
  PROVE  ListInv'
<1>1. /\ pc[h] # "ready" /\ Return(h) /\ UNCHANGED view
      /\ cache' = IF pc[h] = "render" THEN [cache EXCEPT ![Key(loc[h])] = Nothing] ELSE cache
  BY DEF HandlerFails
<1>2. /\ \A k \in Keys : cache'[k] # Nothing => cache'[k] = k
      /\ view'.kind = "list" => view'.listed = Key(view')
  BY <1>1, ListHolds, AtWork DEF TypeInv, TypeOK
<1>3. RightUpTo(state', state'.page)
  <2>1. CASE UNCHANGED <<state, asked, skipped>>
    BY <2>1, ListHolds
  <2>2. CASE pc[h] = "write" /\ Upserted(h)
    BY <2>2, UpsertedRight
  <2>3. CASE pc[h] = "clear" /\ state' = Cleared(loc[h])
    <3>1. RightUpTo(loc[h], loc[h].page) /\ loc[h] \in Document
      BY <2>3, ListHolds, AtWork DEF Lists
    <3> QED BY <2>3, <3>1, ClearedRight, ClearedType
  <2> QED BY <2>1, <2>2, <2>3 DEF HandlerFails
<1> QED BY <1>1, <1>2, <1>3, ListReturns

LEMMA ListCrash ==
  ASSUME TypeInv, ListInv, ~skipped, Crash
  PROVE  ListInv'
<1>1. /\ pc' = [h \in Handlers |-> "ready"] /\ op' = [h \in Handlers |-> "none"]
      /\ loc' = [h \in Handlers |-> NoState] /\ got' = [h \in Handlers |-> Nothing]
      /\ cache' \in {cache, EmptyCache} /\ UNCHANGED <<state, view>>
  BY DEF Crash
<1>2. /\ TokensRight(state)' /\ TokensUpTo(state, state.page)'
  BY <1>1, ListHolds DEF RightUpTo, TokensRight, TokensUpTo
<1>3. \A h \in Handlers :
        /\ TokensRight(loc[h])'
        /\ TokensUpTo(loc[h], IF Unsaved(h) THEN loc[h].page - 1 ELSE loc[h].page)'
  BY <1>1, OpenedType, RightFresh DEF RightUpTo, TokensRight, TokensUpTo, Unsaved
<1>4. \A k \in Keys : cache'[k] # Nothing => cache'[k] = k
  BY <1>1, ListHolds DEF EmptyCache
<1>5. (view.kind = "list" => view.listed = Key(view))'
  BY <1>1, ListHolds DEF Key
<1> QED BY <1>1, <1>2, <1>3, <1>4, <1>5 DEF ListInv

LEMMA ListStutter ==
  ASSUME ListInv, UNCHANGED vars
  PROVE  ListInv'
<1>1. UNCHANGED <<state, cache, view, pc, op, loc, got, skipped>>
  BY DEF vars, handlers, history, bounds
<1> QED BY <1>1 DEF ListInv, TokensRight, TokensUpTo, Unsaved, Key

LEMMA InitList ==
  ASSUME Init
  PROVE  ListInv
<1>1. RightUpTo(NoState, NoState.page) /\ RightUpTo(state, state.page)
      /\ \A h \in Handlers : RightUpTo(loc[h], loc[h].page)
  BY RightFresh, OpenedType DEF Init
<1> QED BY <1>1 DEF Init, ListInv, RightUpTo, Unsaved, EmptyCache, Menu

LEMMA StepList ==
  ASSUME TypeInv, CrumbInv, ListInv, [Next]_vars
  PROVE  ListInv'
<1>1. CASE skipped'
  BY <1>1 DEF ListInv
<1>2. CASE ~skipped'
  <2>1. ~skipped
    BY <1>2, Skips
  <2>2. ASSUME NEW h \in Handlers, Press(h) \/ Text(h) \/ Open(h) \/ Handle(h)
        PROVE  ListInv'
    BY <1>2, <2>1, <2>2, ListBegin, ListOpen, ListRead, ListWrite, ListDrops, ListFind,
       ListClear, ListApply, ListHit, ListMiss, ListFill, ListSave, ListEdit, ListHandlerFails
       DEF Handle
  <2> QED BY <2>1, <2>2, ListCrash, ListStutter DEF Next, Idle
<1> QED BY <1>1, <1>2

\* The entries above "Page n" are those of Drive's page n of the folder and search
\* the message names, whatever is cached, whichever tokens are stored and however
\* handlers overlap and fail, unless Next was pressed past the tokens.
THEOREM PageIsTheOneNamed == Spec => []PageShownIsListed
<1>1. Init => TypeInv /\ CrumbInv /\ ListInv
  BY InitType, InitList
<1>2. TypeInv /\ CrumbInv /\ ListInv /\ [Next]_vars => TypeInv' /\ CrumbInv' /\ ListInv'
  BY StepType, StepList
<1>3. ListInv => PageShownIsListed
  BY DEF ListInv, PageShownIsListed
<1> QED BY <1>1, <1>2, <1>3, PTL DEF Spec

--------------------------------------------------------------------------------
(* Presses that come one at a time.                                           *)

\* A step is the ending of the process, nothing, or a handler's.
LEMMA Mover ==
  ASSUME TypeInv, CrumbInv, Sole, [Next]_vars, ~overlapped'
  PROVE  /\ ~overlapped
         /\ \/ Crash
            \/ UNCHANGED vars
            \/ \E h \in Handlers : /\ Press(h) \/ Text(h) \/ Open(h) \/ Handle(h)
                                   /\ \A g \in Handlers : g # h => pc[g] = "ready"
<1>1. CASE Crash
  BY <1>1 DEF Crash, history
<1>2. CASE UNCHANGED vars
  BY <1>2 DEF vars, history
<1>3. ASSUME NEW h \in Handlers, Press(h) \/ Text(h)
      PROVE  ~overlapped /\ \A g \in Handlers : pc[g] = "ready"
  BY <1>3 DEF Press, Text, Begin
<1>4. ASSUME NEW h \in Handlers, Open(h)
      PROVE  ~overlapped /\ \A g \in Handlers : pc[g] = "ready"
  BY <1>4 DEF Open, history, CrumbInv
<1>5. ASSUME NEW h \in Handlers, Handle(h)
      PROVE  ~overlapped /\ \A g \in Handlers : g # h => pc[g] = "ready"
  <2>1. ~overlapped
    BY <1>5 DEF Handle, Read, Write, Invalidate, Purge, Find, Clear, Apply, Hit, Miss, Fill, Save,
       Edit, HandlerFails, history
  <2>2. pc[h] # "ready"
    BY <1>5 DEF Handle, Read, Write, Invalidate, Purge, Find, Clear, Apply, Hit, Miss, Fill, Save,
       Edit, HandlerFails
  <2> QED BY <2>1, <2>2 DEF Sole
<1> QED BY <1>1, <1>2, <1>3, <1>4, <1>5 DEF Next, Idle

LEMMA MovesOne ==
  ASSUME TypeInv, NEW h \in Handlers, Press(h) \/ Text(h) \/ Open(h) \/ Handle(h)
  PROVE  \A g \in Handlers : g # h => pc'[g] = pc[g] /\ op'[g] = op[g] /\ loc'[g] = loc[g]
<1>1. CASE Press(h) \/ Text(h) \/ Open(h)
  BY <1>1 DEF Press, Text, Begin, Open, TypeInv, TypeOK, OpInv
<1>2. CASE Handle(h)
  <2>1. CASE Read(h) \/ Write(h) \/ Invalidate(h) \/ Purge(h) \/ Clear(h) \/ Hit(h) \/ Miss(h)
               \/ Fill(h) \/ Save(h)
    BY <2>1 DEF Read, Write, Invalidate, Purge, Clear, Hit, Miss, Fill, Save, Goto, TypeInv,
       TypeOK, OpInv
  <2>2. CASE Find(h) \/ Apply(h) \/ Edit(h) \/ HandlerFails(h)
    BY <2>2 DEF Find, Apply, Edit, HandlerFails, Return, Goto, TypeInv, TypeOK, OpInv
  <2> QED BY <1>2, <2>1, <2>2 DEF Handle
<1> QED BY <1>1, <1>2

LEMMA StepSole ==
  ASSUME TypeInv, CrumbInv, Sole, [Next]_vars
  PROVE  Sole'
<1> SUFFICES ASSUME ~overlapped'
             PROVE  \A g, h \in Handlers : pc'[g] # "ready" /\ pc'[h] # "ready" => g = h
  BY DEF Sole
<1>1. CASE Crash
  BY <1>1 DEF Crash
<1>2. CASE UNCHANGED vars
  BY <1>2, Mover DEF vars, handlers, Sole
<1>3. ASSUME NEW h \in Handlers, Press(h) \/ Text(h) \/ Open(h) \/ Handle(h),
             \A g \in Handlers : g # h => pc[g] = "ready"
      PROVE  \A g \in Handlers : g # h => pc'[g] = "ready"
  BY <1>3, MovesOne
<1> QED BY <1>1, <1>2, <1>3, Mover

--------------------------------------------------------------------------------
(* The message follows the document.                                          *)

Quiet == ~overlapped /\ faults = 0 /\ crashes = 0

LEMMA FollowHolds ==
  ASSUME FollowInv, Quiet
  PROVE  /\ \A h \in Handlers : Showing(h) => Same(loc[h], state)
         /\ \A h \in Handlers : pc[h] = "clear" => loc[h] = state
         /\ view.kind = "list" /\ (\A h \in Handlers : pc[h] \notin {"render", "fill", "save", "edit"}) =>
              Same(view, state)
  BY DEF FollowInv, Quiet

LEMMA WasQuiet ==
  ASSUME TypeInv, CrumbInv, Sole, [Next]_vars, Quiet'
  PROVE  Quiet /\ ~Crash /\ \A h \in Handlers : ~HandlerFails(h)
<1>1. ~overlapped /\ faults \in Nat /\ crashes \in Nat /\ faults' = 0 /\ crashes' = 0
  BY Mover, ExplorerAssumption DEF Quiet, TypeInv, TypeOK, ExplorerAssumption
<1>2. ~Crash
  BY <1>1 DEF Crash
<1>3. \A h \in Handlers : ~HandlerFails(h)
  BY <1>1 DEF HandlerFails
<1>4. ASSUME NEW h \in Handlers, Press(h) \/ Text(h) \/ Open(h) \/ Handle(h)
      PROVE  faults = 0 /\ crashes = 0
  BY <1>1, <1>3, <1>4 DEF Press, Text, Begin, Open, Handle, Read, Write, Invalidate, Purge, Find,
     Clear, Apply, Hit, Miss, Fill, Save, Edit, DropListings, bounds
<1>5. faults = 0 /\ crashes = 0
  BY <1>1, <1>2, <1>4 DEF Next, Idle, vars, bounds
<1> QED BY <1>1, <1>2, <1>3, <1>5 DEF Quiet

\* When the others are ready, the one that moves decides.
LEMMA FollowKept ==
  ASSUME TypeInv, NEW h \in Handlers, \A g \in Handlers : g # h => pc'[g] = "ready",
         Showing(h)' => Same(loc'[h], state'),
         pc'[h] = "clear" => loc'[h] = state',
         view'.kind = "list" /\ pc'[h] \notin {"render", "fill", "save", "edit"} =>
           Same(view', state')
  PROVE  FollowInv'
<1>1. \A g \in Handlers : g # h => ~Showing(g)'
  BY DEF Showing
<1>2. \A g \in Handlers : Showing(g)' => Same(loc[g], state)'
  BY <1>1 DEF Same
<1>3. \A g \in Handlers : pc'[g] = "clear" => loc'[g] = state'
  OBVIOUS
<1>4. view'.kind = "list" /\ (\A g \in Handlers : pc'[g] \notin {"render", "fill", "save", "edit"}) =>
        Same(view, state)'
  BY DEF Same
<1> QED BY <1>2, <1>3, <1>4 DEF FollowInv

\* the steps of one handler, with nobody else at work
LEMMA FollowHandle ==
  ASSUME TypeInv, CrumbInv, FollowInv, Quiet, Quiet', NEW h \in Handlers,
         Press(h) \/ Text(h) \/ Open(h) \/ Handle(h), ~HandlerFails(h),
         \A g \in Handlers : g # h => pc[g] = "ready"
  PROVE  FollowInv'
<1>1. \A g \in Handlers : g # h => pc'[g] = "ready"
  BY MovesOne
<1>2. \A o, l, d : /\ pc' = [pc EXCEPT ![h] = l] => pc'[h] = l
                   /\ op' = [op EXCEPT ![h] = o] => op'[h] = o
                   /\ loc' = [loc EXCEPT ![h] = d] => loc'[h] = d
  BY DEF TypeInv, TypeOK, OpInv
<1>3. /\ Showing(h) => Same(loc[h], state)
      /\ pc[h] = "clear" => loc[h] = state
      /\ view.kind = "list" /\ pc[h] \notin {"render", "fill", "save", "edit"} => Same(view, state)
  BY FollowHolds
<1>4. CASE Press(h) \/ Text(h)
  <2>1. PICK a \in Rendering \cup Menus \cup {"text"} :
          /\ Begin(h, a)
          /\ \/ Entry(a) \in {"read", "purge", "find"}
             \/ Entry(a) = "edit" /\ a \in Menus \ Prompts
    BY <1>4, Pressed
  <2>2. /\ pc[h] = "ready" /\ pc'[h] = Entry(a) /\ op'[h] = a /\ UNCHANGED <<state, view>>
    BY <1>2, <2>1 DEF Begin
  <2> QED BY <1>1, <1>3, <2>1, <2>2, FollowKept DEF Showing
<1>5. CASE Open(h)
  <2>1. pc'[h] = "render" /\ loc'[h] = state'
    BY <1>2, <1>5 DEF Open
  <2> QED BY <1>1, <2>1, FollowKept DEF Same
<1>6. CASE Read(h)
  <2>1. /\ pc[h] = "read" /\ loc'[h] = Changed(op[h], state) /\ op'[h] = op[h]
        /\ UNCHANGED <<state, view>>
        /\ pc'[h] = CASE op[h] = "refresh" -> "invalidate"
                      [] op[h] \in {"fileback", "delconfirm"} -> "render"
                      [] OTHER -> "write"
    BY <1>2, <1>6 DEF Read, Goto
  <2>2. op[h] \in {"refresh", "fileback", "delconfirm"} => loc'[h] = state
    BY <2>1, ExplorerAssumption DEF Changed, ExplorerAssumption
  <2>3. pc'[h] # "clear" /\ (Showing(h)' => op[h] \in {"refresh", "fileback", "delconfirm"})
    BY <2>1 DEF Showing
  <2> QED BY <1>1, <1>3, <2>1, <2>2, <2>3, FollowKept DEF Same
<1>7. CASE Write(h)
  <2>1. /\ pc[h] = "write" /\ loc'[h] = state' /\ op'[h] = op[h]
        /\ pc'[h] = IF Asks(h) # {} THEN "edit" ELSE "render"
    BY <1>2, <1>7 DEF Write, Upserted, Goto
  <2> QED BY <1>1, <2>1, FollowKept DEF Same
<1>8. CASE Invalidate(h)
  <2>1. /\ pc[h] = "invalidate" /\ pc'[h] = "render" /\ op'[h] = op[h] /\ loc'[h] = loc[h]
        /\ UNCHANGED state
    BY <1>2, <1>8 DEF Invalidate, Goto
  <2> QED BY <1>1, <1>3, <2>1, FollowKept DEF Showing
<1>9. CASE Purge(h)
  <2>1. pc[h] = "purge" /\ pc'[h] = "read" /\ UNCHANGED <<state, view>>
    BY <1>2, <1>9 DEF Purge, Goto
  <2> QED BY <1>1, <1>3, <2>1, FollowKept DEF Showing
<1>10. CASE Find(h)
  <2>1. pc[h] = "find" /\ UNCHANGED <<state, view>>
    BY <1>10 DEF Find
  <2>2. \/ pc'[h] = "clear" /\ loc'[h] = state
        \/ pc'[h] = "ready"
    BY <1>2, <1>10 DEF Find, Goto, Return
  <2> QED BY <1>1, <1>3, <2>1, <2>2, FollowKept DEF Showing
<1>11. CASE Clear(h)
  <2>1. /\ pc[h] = "clear" /\ pc'[h] \in {"apply", "read"} /\ state' = Cleared(loc[h])
        /\ UNCHANGED view
    BY <1>2, <1>11 DEF Clear
  <2>2. Same(state', state)
    BY <1>3, <2>1, ClearedType, AtWork DEF Same
  <2> QED BY <1>1, <1>3, <2>1, <2>2, FollowKept DEF Showing, Same
<1>12. CASE Apply(h)
  <2>1. pc[h] = "apply" /\ pc'[h] = "ready" /\ UNCHANGED <<state, view>>
    BY <1>2, <1>12 DEF Apply, Return
  <2> QED BY <1>1, <1>3, <2>1, FollowKept DEF Showing
<1>13. CASE Hit(h) \/ Miss(h)
  <2>1. /\ pc[h] = "render" /\ pc'[h] \in {"fill", "edit"} /\ op'[h] = op[h] /\ loc'[h] = loc[h]
        /\ UNCHANGED state
    BY <1>2, <1>13 DEF Hit, Miss, Goto
  <2> QED BY <1>1, <1>3, <2>1, FollowKept DEF Showing
<1>14. CASE Fill(h)
  <2>1. pc[h] = "fill" /\ pc'[h] \in {"save", "edit"} /\ op'[h] = op[h] /\ UNCHANGED state
    BY <1>2, <1>14 DEF Fill, Goto
  <2>2. Same(loc'[h], loc[h])
    <3>1. /\ loc[h] \in Document /\ loc[h].page + 1 \in PageNumbers /\ got[h] \in DrivePages
      BY <2>1, AtWork DEF TypeInv, GotInv
    <3>2. CASE got[h][3] < NumPages
      <4> DEFINE d == WithToken(loc[h], got[h])
      <4>1. d.folder = loc[h].folder /\ d.query = loc[h].query /\ d.page = loc[h].page
        BY <3>1, <3>2, TokenType
      <4>2. loc'[h] = d
        BY <1>2, <1>14, <3>2 DEF Fill, WithToken
      <4> QED BY <4>1, <4>2 DEF Same
    <3>3. CASE ~(got[h][3] < NumPages)
      BY <1>14, <3>3 DEF Fill, Same
    <3> QED BY <3>2, <3>3
  <2> QED BY <1>1, <1>3, <2>1, <2>2, FollowKept DEF Showing, Same
<1>15. CASE Save(h)
  <2>1. pc[h] = "save" /\ pc'[h] = "edit" /\ loc'[h] = loc[h] /\ UNCHANGED op
    BY <1>2, <1>15 DEF Save, Goto
  <2>2. state' = loc[h]
    BY <1>15, ExplorerAssumption DEF Save, Quiet, TypeInv, TypeOK, ExplorerAssumption
  <2> QED BY <1>1, <2>1, <2>2, FollowKept DEF Same
<1>16. CASE Edit(h)
  <2>1. /\ pc[h] = "edit" /\ pc'[h] = "ready" /\ UNCHANGED state
        /\ view' = CASE op[h] \in {"file", "delcancel"} -> Menu("file")
                     [] op[h] \in {"search", "rename", "delete"} -> Menu(op[h])
                     [] OTHER -> Listing(loc[h], got[h])
    BY <1>2, <1>16 DEF Edit, Return
  <2>2. view'.kind = "list" => Same(view', state')
    <3>1. CASE op[h] \in Menus
      BY <2>1, <3>1 DEF Menus, Prompts, Menu
    <3>2. CASE op[h] \notin Menus
      <4>1. Same(loc[h], state)
        BY <1>3, <2>1, <3>2 DEF Showing
      <4>2. view' = Listing(loc[h], got[h])
        BY <2>1, <3>2 DEF Menus, Prompts
      <4> QED BY <2>1, <4>1, <4>2 DEF Listing, Same
    <3> QED BY <3>1, <3>2
  <2> QED BY <1>1, <2>1, <2>2, FollowKept DEF Showing
<1> QED BY <1>4, <1>5, <1>6, <1>7, <1>8, <1>9, <1>10, <1>11, <1>12, <1>13, <1>14, <1>15, <1>16
    DEF Handle

LEMMA StepFollow ==
  ASSUME TypeInv, CrumbInv, Sole, FollowInv, [Next]_vars
  PROVE  FollowInv'
<1>1. CASE ~Quiet'
  BY <1>1 DEF FollowInv, Quiet
<1>2. CASE Quiet'
  <2>1. /\ Quiet /\ ~Crash /\ \A h \in Handlers : ~HandlerFails(h)
    BY <1>2, WasQuiet
  <2>2. CASE UNCHANGED vars
    <3>1. UNCHANGED <<state, view, pc, op, loc, overlapped, faults, crashes>>
      BY <2>2 DEF vars, handlers, history, bounds
    <3> QED BY <3>1 DEF FollowInv, Showing, Same
  <2>3. ASSUME NEW h \in Handlers, Press(h) \/ Text(h) \/ Open(h) \/ Handle(h),
               \A g \in Handlers : g # h => pc[g] = "ready"
        PROVE  FollowInv'
    BY <1>2, <2>1, <2>3, FollowHandle
  <2>4. ~overlapped'
    BY <1>2 DEF Quiet
  <2> QED BY <2>1, <2>2, <2>3, <2>4, Mover
<1> QED BY <1>1, <1>2

LEMMA InitFollow ==
  ASSUME Init
  PROVE  Sole /\ FollowInv
  BY DEF Init, Sole, FollowInv, Showing, Menu

\* When presses come one at a time and nothing fails, the listing that is shown is
\* the one the stored document stands for: the next button acts on what is seen.
THEOREM ButtonsActOnWhatIsSeen == Spec => []ViewFollowsState
<1>1. Init => TypeInv /\ CrumbInv /\ Sole /\ FollowInv
  BY InitType, InitFollow
<1>2. TypeInv /\ CrumbInv /\ Sole /\ FollowInv /\ [Next]_vars
        => TypeInv' /\ CrumbInv' /\ Sole' /\ FollowInv'
  BY StepType, StepSole, StepFollow
<1>3. FollowInv => ViewFollowsState
  BY DEF FollowInv, ViewFollowsState, Same
<1> QED BY <1>1, <1>2, <1>3, PTL DEF Spec

--------------------------------------------------------------------------------
(* Prompts.                                                                   *)

\* what a handler at l with operation o may hold
Flags(l, o, d) ==
  /\ l \in {"invalidate", "clear", "render", "fill", "save"} => FlagsAsked(d)
  /\ l = "clear" => d.rename \/ d.search
  /\ l = "write" => /\ d.rename => "rename" \in asked \cup {o}
                    /\ d.search => "search" \in asked \cup {o}

LEMMA PromptHolds ==
  ASSUME PromptInv, ~overlapped
  PROVE  FlagsAsked(state) /\ \A h \in Handlers : Flags(pc[h], op[h], loc[h])
  BY DEF PromptInv, Flags

LEMMA PromptKept ==
  ASSUME NEW h \in Handlers, \A g \in Handlers : g # h => pc'[g] = "ready",
         FlagsAsked(state)', Flags(pc[h], op[h], loc[h])'
  PROVE  PromptInv'
  BY DEF PromptInv, Flags, FlagsAsked

LEMMA ChangedFlags ==
  ASSUME NEW d \in Document, Trail(d), NEW a \in Rendering \cup Prompts,
         a = "nextpage" => d.page + 1 \in PageNumbers
  PROVE  /\ Changed(a, d).rename => d.rename \/ a = "rename"
         /\ Changed(a, d).search => d.search \/ a = "search"
<1>1. CASE a \in {"nextpage", "prevpage"}
  <2>1. Changed(a, d) = Turned(a, d)
    BY <1>1, ChangedCases DEF Navigation, Prompts
  <2> QED BY <1>1, <2>1, TurnedType
<1>2. CASE a \in Prompts
  <2>1. /\ [d EXCEPT !.search = TRUE].rename = d.rename
        /\ [d EXCEPT !.rename = TRUE].search = d.search
    BY DEF Document
  <2>2. \/ a = "search" /\ Changed(a, d) = [d EXCEPT !.search = TRUE]
        \/ a = "rename" /\ Changed(a, d) = [d EXCEPT !.rename = TRUE]
    BY <1>2, ExplorerAssumption DEF Changed, Prompts, ExplorerAssumption
  <2> QED BY <2>1, <2>2
<1>3. CASE a \notin Prompts \cup {"nextpage", "prevpage"}
  BY <1>3, ChangedCases DEF Prompts
<1> QED BY <1>1, <1>2, <1>3

LEMMA PromptHandle ==
  ASSUME TypeInv, CrumbInv, PromptInv, ~overlapped, NEW h \in Handlers,
         Press(h) \/ Text(h) \/ Open(h) \/ Handle(h),
         \A g \in Handlers : g # h => pc[g] = "ready"
  PROVE  PromptInv'
<1>1. \A g \in Handlers : g # h => pc'[g] = "ready"
  BY MovesOne
<1>2. \A o, l, d : /\ pc' = [pc EXCEPT ![h] = l] => pc'[h] = l
                   /\ op' = [op EXCEPT ![h] = o] => op'[h] = o
                   /\ loc' = [loc EXCEPT ![h] = d] => loc'[h] = d
  BY DEF TypeInv, TypeOK, OpInv
<1>3. FlagsAsked(state) /\ Flags(pc[h], op[h], loc[h])
  BY PromptHolds
<1>4. \* a step that asks for nothing, from a handler that keeps no document
      ASSUME UNCHANGED <<state, asked>>, pc'[h] \in {"ready", "read", "purge", "find", "apply", "edit"}
      PROVE  PromptInv'
  <2>1. FlagsAsked(state)' /\ Flags(pc[h], op[h], loc[h])'
    BY <1>3, <1>4 DEF FlagsAsked, Flags
  <2> QED BY <1>1, <2>1, PromptKept
<1>5. \* and from one that keeps its document
      ASSUME UNCHANGED asked, state' \in {state, loc[h]},
             pc[h] \in {"invalidate", "render", "fill", "save"},
             pc'[h] \in {"render", "fill", "save", "edit"},
             loc'[h].rename = loc[h].rename, loc'[h].search = loc[h].search
      PROVE  PromptInv'
  <2>1. FlagsAsked(state)' /\ Flags(pc[h], op[h], loc[h])'
    BY <1>3, <1>5 DEF FlagsAsked, Flags
  <2> QED BY <1>1, <2>1, PromptKept
<1>6. \* what is stored was asked for
      ASSUME pc[h] = "write", Upserted(h)
      PROVE  FlagsAsked(state)' /\ state' = loc[h]
    BY <1>3, <1>6 DEF Upserted, Asks, FlagsAsked, Flags
<1>7. CASE Press(h) \/ Text(h)
  <2>1. PICK a \in Rendering \cup Menus \cup {"text"} :
          Begin(h, a) /\ Entry(a) \in {"read", "purge", "find", "edit"}
    BY <1>7, Pressed
  <2> QED BY <1>2, <1>4, <2>1 DEF Begin
<1>8. CASE Open(h)
  <2>1. pc'[h] = "render" /\ loc'[h] = Opened /\ state' = Opened
    BY <1>2, <1>8 DEF Open
  <2>2. FlagsAsked(state)' /\ Flags(pc[h], op[h], loc[h])'
    BY <2>1, OpenedType DEF FlagsAsked, Flags
  <2> QED BY <1>1, <2>2, PromptKept
<1>9. CASE Read(h)
  <2>1. /\ pc[h] = "read" /\ loc'[h] = Changed(op[h], state) /\ op'[h] = op[h]
        /\ UNCHANGED <<state, asked>>
        /\ pc'[h] = CASE op[h] = "refresh" -> "invalidate"
                      [] op[h] \in {"fileback", "delconfirm"} -> "render"
                      [] OTHER -> "write"
    BY <1>2, <1>9 DEF Read, Goto, history
  <2>2. op[h] \in Rendering \cup Prompts
    BY <2>1, AtWork DEF Stage
  <2>3. /\ loc'[h].rename => state.rename \/ op[h] = "rename"
        /\ loc'[h].search => state.search \/ op[h] = "search"
    BY <2>1, <2>2, AtWork, ChangedFlags, PageBounds
  <2>4. FlagsAsked(state)' /\ Flags(pc[h], op[h], loc[h])'
    BY <1>3, <2>1, <2>3 DEF FlagsAsked, Flags
  <2> QED BY <1>1, <2>4, PromptKept
<1>10. CASE Write(h)
  <2>1. /\ pc[h] = "write" /\ loc'[h] = loc[h] /\ Upserted(h) /\ pc'[h] \in {"edit", "render"}
    BY <1>2, <1>10 DEF Write, Goto
  <2>2. FlagsAsked(state)' /\ Flags(pc[h], op[h], loc[h])'
    BY <1>6, <2>1 DEF FlagsAsked, Flags
  <2> QED BY <1>1, <2>2, PromptKept
<1>11. CASE Invalidate(h)
  BY <1>2, <1>5, <1>11 DEF Invalidate, Goto, history
<1>12. CASE Purge(h)
  BY <1>2, <1>4, <1>12 DEF Purge, Goto, history
<1>13. CASE Find(h)
  <2>1. pc[h] = "find" /\ UNCHANGED <<state, asked>>
    BY <1>13 DEF Find, history
  <2>2. CASE state.rename \/ state.search
    <3>1. pc'[h] = "clear" /\ loc'[h] = state
      BY <1>2, <1>13, <2>2 DEF Find, Goto
    <3>2. FlagsAsked(state)' /\ Flags(pc[h], op[h], loc[h])'
      BY <1>3, <2>1, <2>2, <3>1 DEF FlagsAsked, Flags
    <3> QED BY <1>1, <3>2, PromptKept
  <2>3. CASE ~(state.rename \/ state.search)
    <3>1. pc'[h] = "ready"
      BY <1>2, <1>13, <2>3 DEF Find, Return
    <3> QED BY <1>4, <2>1, <3>1
  <2> QED BY <2>2, <2>3
<1>14. CASE Clear(h)
  <2>1. /\ pc[h] = "clear" /\ pc'[h] \in {"apply", "read"} /\ state' = Cleared(loc[h])
        /\ asked' = asked \ {Prompt(loc[h])}
    BY <1>2, <1>14 DEF Clear
  <2>2. FlagsAsked(loc[h])
    BY <1>3, <2>1 DEF Flags
  <2>3. FlagsAsked(state)'
    BY <2>1, <2>2, ClearedType, AtWork DEF FlagsAsked
  <2>4. Flags(pc[h], op[h], loc[h])'
    BY <2>1 DEF Flags
  <2> QED BY <1>1, <2>3, <2>4, PromptKept
<1>15. CASE Apply(h)
  BY <1>2, <1>4, <1>15 DEF Apply, Return, history
<1>16. CASE Hit(h) \/ Miss(h)
  BY <1>2, <1>5, <1>16 DEF Hit, Miss, Goto, history
<1>17. CASE Fill(h)
  <2>1. /\ pc[h] = "fill" /\ pc'[h] \in {"save", "edit"} /\ UNCHANGED <<state, asked>>
    BY <1>2, <1>17 DEF Fill, Goto, history
  <2>2. loc'[h].rename = loc[h].rename /\ loc'[h].search = loc[h].search
    <3>1. /\ loc[h] \in Document /\ loc[h].page + 1 \in PageNumbers /\ got[h] \in DrivePages
      BY <2>1, AtWork DEF TypeInv, GotInv
    <3>2. CASE got[h][3] < NumPages
      <4> DEFINE d == WithToken(loc[h], got[h])
      <4>1. d.rename = loc[h].rename /\ d.search = loc[h].search
        BY <3>1, <3>2, TokenType
      <4>2. loc'[h] = d
        BY <1>2, <1>17, <3>2 DEF Fill, WithToken
      <4> QED BY <4>1, <4>2
    <3>3. CASE ~(got[h][3] < NumPages)
      BY <1>17, <3>3 DEF Fill
    <3> QED BY <3>2, <3>3
  <2> QED BY <1>5, <2>1, <2>2
<1>18. CASE Save(h)
  <2>1. /\ pc[h] = "save" /\ pc'[h] = "edit" /\ UNCHANGED <<asked, loc>> /\ state' \in {state, loc[h]}
    BY <1>2, <1>18 DEF Save, Goto, history
  <2> QED BY <1>5, <2>1
<1>19. CASE Edit(h)
  BY <1>2, <1>4, <1>19 DEF Edit, Return, history
<1>20. CASE HandlerFails(h)
  <2>1. pc'[h] = "ready"
    BY <1>2, <1>20 DEF HandlerFails, Return
  <2>2. CASE UNCHANGED <<state, asked, skipped>>
    BY <1>4, <2>1, <2>2
  <2>3. CASE pc[h] = "write" /\ Upserted(h)
    <3>1. FlagsAsked(state)' /\ Flags(pc[h], op[h], loc[h])'
      BY <1>6, <2>1, <2>3 DEF Flags
    <3> QED BY <1>1, <3>1, PromptKept
  <2>4. CASE pc[h] = "clear" /\ state' = Cleared(loc[h]) /\ UNCHANGED <<asked, skipped>>
    <3>1. FlagsAsked(loc[h])
      BY <1>3, <2>4 DEF Flags
    <3>2. FlagsAsked(state)'
      BY <2>4, <3>1, ClearedType, AtWork DEF FlagsAsked
    <3>3. Flags(pc[h], op[h], loc[h])'
      BY <2>1 DEF Flags
    <3> QED BY <1>1, <3>2, <3>3, PromptKept
  <2> QED BY <1>20, <2>2, <2>3, <2>4 DEF HandlerFails
<1> QED BY <1>7, <1>8, <1>9, <1>10, <1>11, <1>12, <1>13, <1>14, <1>15, <1>16, <1>17, <1>18,
           <1>19, <1>20 DEF Handle

LEMMA StepPrompt ==
  ASSUME TypeInv, CrumbInv, Sole, PromptInv, [Next]_vars
  PROVE  PromptInv'
<1>1. CASE overlapped'
  BY <1>1 DEF PromptInv
<1>2. CASE ~overlapped'
  <2>1. ~overlapped
    BY <1>2, Mover
  <2>2. CASE Crash
    <3>1. /\ \A h \in Handlers : pc'[h] = "ready"
          /\ UNCHANGED <<state, asked>>
      BY <2>2 DEF Crash, history
    <3> QED BY <2>1, <3>1 DEF PromptInv, FlagsAsked
  <2>3. CASE UNCHANGED vars
    <3>1. UNCHANGED <<state, pc, op, loc, asked, overlapped>>
      BY <2>3 DEF vars, handlers, history
    <3> QED BY <3>1 DEF PromptInv, FlagsAsked
  <2> QED BY <1>2, <2>1, <2>2, <2>3, Mover, PromptHandle
<1> QED BY <1>1, <1>2

LEMMA InitPrompt ==
  ASSUME Init
  PROVE  PromptInv
  BY OpenedType DEF Init, PromptInv, FlagsAsked, NoState, Opened

\* A text is taken only for the answer to a prompt that was shown and has not been
\* answered, unless two handlers were at work at a time.
THEOREM PromptFiresForItsAnswer == Spec => PromptFiresOnce
<1>1. Init => TypeInv /\ CrumbInv /\ Sole /\ PromptInv
  BY InitType, InitFollow, InitPrompt
<1>2. TypeInv /\ CrumbInv /\ Sole /\ PromptInv /\ [Next]_vars
        => TypeInv' /\ CrumbInv' /\ Sole' /\ PromptInv'
  BY StepType, StepSole, StepPrompt
<1>3. PromptInv =>
        [\A h \in Handlers :
           (pc[h] = "clear" /\ pc'[h] \in {"apply", "read"}) =>
             (Prompt(loc[h]) \in asked \/ overlapped)]_vars
  BY DEF PromptInv, FlagsAsked, Prompt
<1> QED BY <1>1, <1>2, <1>3, PTL DEF Spec, PromptFiresOnce

--------------------------------------------------------------------------------
(* Refresh.                                                                   *)

Undisturbed == ~overlapped /\ ~skipped /\ faults = 0

\* what Refresh knows at l
Refreshed(l, d, p) ==
  /\ l = "render" => cache[Key(d)] = Nothing
  /\ l \in {"save", "edit"} /\ p[3] < NumPages => d.tokens[d.page + 1] # Nothing

LEMMA RefreshKept ==
  ASSUME OpInv', NEW h \in Handlers, \A g \in Handlers : g # h => pc'[g] = "ready",
         op'[h] = "refresh" => Refreshed(pc[h], loc[h], got[h])'
  PROVE  RefreshInv'
<1>1. \A g \in Handlers : op'[g] = "refresh" => pc'[g] # "ready"
  BY DEF OpInv, Stage
<1> QED BY <1>1 DEF RefreshInv, Refreshed, Key

LEMMA WasUndisturbed ==
  ASSUME TypeInv, CrumbInv, Sole, [Next]_vars, Undisturbed'
  PROVE  Undisturbed /\ \A h \in Handlers : ~HandlerFails(h)
<1>1. ~overlapped /\ ~skipped /\ faults \in Nat /\ faults' = 0
  BY Mover, Skips, ExplorerAssumption DEF Undisturbed, TypeInv, TypeOK, ExplorerAssumption
<1>2. \A h \in Handlers : ~HandlerFails(h)
  BY <1>1 DEF HandlerFails
<1>3. ASSUME NEW h \in Handlers, Press(h) \/ Text(h) \/ Open(h) \/ Handle(h)
      PROVE  faults = 0
  BY <1>1, <1>2, <1>3 DEF Press, Text, Begin, Open, Handle, Read, Write, Invalidate, Purge, Find,
     Clear, Apply, Hit, Miss, Fill, Save, Edit, DropListings, bounds
<1>4. faults = 0
  BY <1>1, <1>3 DEF Next, Crash, Idle, vars, bounds
<1> QED BY <1>1, <1>2, <1>4 DEF Undisturbed

LEMMA RefreshHandle ==
  ASSUME TypeInv, CrumbInv, RefreshInv, Undisturbed, Undisturbed', TypeInv', NEW h \in Handlers,
         Press(h) \/ Text(h) \/ Open(h) \/ Handle(h), ~HandlerFails(h),
         \A g \in Handlers : g # h => pc[g] = "ready"
  PROVE  RefreshInv'
<1>1. OpInv' /\ \A g \in Handlers : g # h => pc'[g] = "ready"
  BY MovesOne DEF TypeInv
<1>2. \A o, l, d : /\ pc' = [pc EXCEPT ![h] = l] => pc'[h] = l
                   /\ op' = [op EXCEPT ![h] = o] => op'[h] = o
                   /\ loc' = [loc EXCEPT ![h] = d] => loc'[h] = d
  BY DEF TypeInv, TypeOK, OpInv
<1>3. op[h] = "refresh" => Refreshed(pc[h], loc[h], got[h])
  BY DEF RefreshInv, Undisturbed, Refreshed
<1>4. ASSUME pc'[h] \notin {"render", "save", "edit"} \/ op'[h] # "refresh"
      PROVE  RefreshInv'
  BY <1>1, <1>4, RefreshKept DEF Refreshed
<1>5. CASE Press(h) \/ Text(h)
  <2>1. PICK a \in Rendering \cup Menus \cup {"text"} :
          /\ Begin(h, a)
          /\ \/ Entry(a) \in {"read", "purge", "find"}
             \/ Entry(a) = "edit" /\ a \in Menus \ Prompts
    BY <1>5, Pressed
  <2>2. pc'[h] = Entry(a) /\ op'[h] = a
    BY <1>2, <2>1 DEF Begin
  <2> QED BY <1>4, <2>1, <2>2 DEF Menus, Prompts
<1>6. CASE Open(h)
  BY <1>2, <1>4, <1>6 DEF Open
<1>7. CASE Read(h)
  <2>1. /\ op'[h] = op[h]
        /\ pc'[h] = CASE op[h] = "refresh" -> "invalidate"
                      [] op[h] \in {"fileback", "delconfirm"} -> "render"
                      [] OTHER -> "write"
    BY <1>2, <1>7 DEF Read, Goto
  <2> QED BY <1>4, <2>1
<1>8. CASE Write(h)
  <2>1. op'[h] = op[h] /\ op[h] \in Navigation \cup Prompts
    BY <1>8, AtWork DEF Write, Goto, Stage
  <2>2. op[h] # "refresh"
    BY <2>1, ExplorerAssumption DEF Navigation, Prompts, ExplorerAssumption
  <2> QED BY <1>4, <2>1, <2>2
<1>9. CASE Invalidate(h)
  <2>1. pc[h] = "invalidate" /\ pc'[h] = "render" /\ loc'[h] = loc[h] /\ cache' = EmptyCache
    BY <1>2, <1>9 DEF Invalidate, DropListings, Goto, Undisturbed, TypeInv, TypeOK
  <2>2. Key(loc[h]) \in Keys
    BY <2>1, AtWork
  <2>3. Refreshed(pc[h], loc[h], got[h])'
    BY <2>1, <2>2 DEF Refreshed, EmptyCache, Key
  <2> QED BY <1>1, <2>3, RefreshKept
<1>10. CASE Purge(h) \/ Find(h) \/ Clear(h) \/ Apply(h) \/ Miss(h) \/ Edit(h)
  <2>1. pc'[h] \in {"read", "clear", "apply", "fill", "ready"}
    BY <1>2, <1>10 DEF Purge, Find, Clear, Apply, Miss, Edit, Return, Goto
  <2> QED BY <1>4, <2>1
<1>11. CASE Hit(h)
  <2>1. op[h] # "refresh" /\ op' = op
    BY <1>3, <1>11 DEF Hit, Goto, Refreshed
  <2> QED BY <1>4, <2>1
<1>12. CASE Fill(h)
  <2>1. pc[h] = "fill" /\ got' = got
    BY <1>12 DEF Fill
  <2>2. /\ loc[h] \in Document /\ loc[h].page + 1 \in PageNumbers /\ got[h] \in DrivePages
    BY <2>1, AtWork DEF TypeInv, GotInv
  <2>3. CASE got[h][3] < NumPages
    <3> DEFINE d == WithToken(loc[h], got[h])
               t == <<got[h][1], got[h][2], got[h][3] + 1>>
    <3>1. pc'[h] = "save" /\ loc'[h] = d
      BY <1>2, <1>12, <2>3 DEF Fill, Goto, WithToken
    <3>2. /\ d.tokens = [loc[h].tokens EXCEPT ![loc[h].page + 1] = t]
          /\ d.page = loc[h].page /\ t \in DrivePages
      BY <2>2, <2>3, TokenType
    <3>3. t # Nothing /\ loc[h].tokens \in [PageNumbers -> DrivePages \cup {Nothing}]
      BY <2>2, <3>2, PageType, DocumentType
    <3> HIDE DEF d, t
    <3>4. d.tokens[d.page + 1] # Nothing
      BY <2>2, <3>2, <3>3
    <3>5. Refreshed(pc[h], loc[h], got[h])'
      BY <3>1, <3>4 DEF Refreshed
    <3> QED BY <1>1, <3>5, RefreshKept
  <2>4. CASE ~(got[h][3] < NumPages)
    <3>1. pc'[h] = "edit"
      BY <1>2, <1>12, <2>4 DEF Fill, Goto
    <3>2. Refreshed(pc[h], loc[h], got[h])'
      BY <2>1, <2>4, <3>1 DEF Refreshed
    <3> QED BY <1>1, <3>2, RefreshKept
  <2> QED BY <2>3, <2>4
<1>13. CASE Save(h)
  <2>1. pc[h] = "save" /\ pc'[h] = "edit" /\ op' = op /\ loc' = loc /\ got' = got
    BY <1>2, <1>13 DEF Save, Goto
  <2>2. op'[h] = "refresh" => Refreshed(pc[h], loc[h], got[h])'
    BY <1>3, <2>1 DEF Refreshed
  <2> QED BY <1>1, <2>2, RefreshKept
<1> QED BY <1>5, <1>6, <1>7, <1>8, <1>9, <1>10, <1>11, <1>12, <1>13 DEF Handle

LEMMA StepRefresh ==
  ASSUME TypeInv, CrumbInv, Sole, RefreshInv, [Next]_vars
  PROVE  RefreshInv'
<1>1. CASE ~Undisturbed'
  BY <1>1 DEF RefreshInv, Undisturbed
<1>2. CASE Undisturbed'
  <2>1. Undisturbed /\ ~overlapped' /\ \A h \in Handlers : ~HandlerFails(h)
    BY <1>2, WasUndisturbed DEF Undisturbed
  <2>2. CASE Crash
    <3>1. \A h \in Handlers : op'[h] = "none"
      BY <2>2 DEF Crash
    <3> QED BY <3>1 DEF RefreshInv
  <2>3. CASE UNCHANGED vars
    <3>1. UNCHANGED <<pc, op, loc, got, cache, overlapped, skipped, faults>>
      BY <2>3 DEF vars, handlers, history, bounds
    <3> QED BY <3>1 DEF RefreshInv, Key
  <2>4. ASSUME NEW h \in Handlers, Press(h) \/ Text(h) \/ Open(h) \/ Handle(h),
               \A g \in Handlers : g # h => pc[g] = "ready"
        PROVE  RefreshInv'
    BY <1>2, <2>1, <2>4, RefreshHandle, StepType
  <2> QED BY <2>1, <2>2, <2>3, <2>4, Mover
<1> QED BY <1>1, <1>2

LEMMA InitRefresh ==
  ASSUME Init
  PROVE  RefreshInv
  BY DEF Init, RefreshInv

\* What Refresh shows has the button Next exactly if there is another page.
LEMMA RefreshShows ==
  ASSUME TypeInv, CrumbInv, ListInv, Sole, RefreshInv, [Next]_vars, Undisturbed,
         NEW h \in Handlers, pc[h] = "edit", view' # view, op[h] = "refresh"
  PROVE  view'.next = (view'.listed[3] < NumPages)
<1>1. PICK g \in Handlers : Edit(g)
  BY DEF Next, Crash, Idle, vars, Press, Text, Begin, Open, Handle, Read, Write, Invalidate, Purge,
     Find, Clear, Apply, Hit, Miss, Fill, Save, HandlerFails, history
<1>2. g = h
  BY <1>1 DEF Edit, Sole, Undisturbed
<1>3. view' = Listing(loc[h], got[h])
  BY <1>1, <1>2 DEF Edit
<1>4. /\ got[h] = Key(loc[h]) /\ RightUpTo(loc[h], loc[h].page) /\ loc[h] \in Document
      /\ loc[h].page + 1 \in PageNumbers
  BY ListHolds, AtWork DEF Lists, Menus, Prompts, Undisturbed
<1>5. view'.listed[3] = loc[h].page
  BY <1>3, <1>4 DEF Listing, Key
<1>6. loc[h].page < NumPages => loc[h].tokens[loc[h].page + 1] # Nothing
  <2>1. got[h][3] < NumPages => loc[h].tokens[loc[h].page + 1] # Nothing
    BY DEF RefreshInv, Undisturbed
  <2> QED BY <1>4, <2>1 DEF Key
<1>7. ASSUME loc[h].tokens[loc[h].page + 1] # Nothing
      PROVE  loc[h].page < NumPages
  <2> DEFINE t == loc[h].tokens[loc[h].page + 1]
  <2>1. t = <<loc[h].folder, loc[h].query, loc[h].page + 1>>
    BY <1>4, <1>7 DEF RightUpTo, TokensRight
  <2>2. t \in DrivePages
    BY <1>4, <1>7, DocumentType
  <2>3. t[3] \in 1..NumPages
    BY <2>2, PageType
  <2>4. loc[h].page + 1 \in 1..NumPages
    BY <2>1, <2>3
  <2>5. loc[h].page \in Nat
    BY <1>4, DocumentType
  <2> QED BY <2>4, <2>5, ExplorerAssumption DEF ExplorerAssumption
<1>8. view'.next = (loc[h].tokens[loc[h].page + 1] # Nothing)
  BY <1>3 DEF Listing
<1> QED BY <1>5, <1>6, <1>7, <1>8

\* When one handler follows the other, nothing fails and Next was pressed only
\* where there was a token, what Refresh shows offers Next exactly if Drive has
\* another page, though a page from the cache comes without its token.
THEOREM RefreshShowsNext == Spec => RefreshOffersNext
<1>1. Init => TypeInv /\ CrumbInv /\ ListInv /\ Sole /\ RefreshInv
  BY InitType, InitList, InitFollow, InitRefresh
<1>2. TypeInv /\ CrumbInv /\ ListInv /\ Sole /\ RefreshInv /\ [Next]_vars
        => TypeInv' /\ CrumbInv' /\ ListInv' /\ Sole' /\ RefreshInv'
  BY StepType, StepList, StepSole, StepRefresh
<1>3. TypeInv /\ CrumbInv /\ ListInv /\ Sole /\ RefreshInv /\ [Next]_vars =>
        [\A h \in Handlers :
           (pc[h] = "edit" /\ view' # view /\ op[h] = "refresh"
              /\ ~overlapped /\ ~skipped /\ faults = 0) =>
             view'.next = (view'.listed[3] < NumPages)]_vars
  BY RefreshShows DEF Undisturbed
<1> QED BY <1>1, <1>2, <1>3, PTL DEF Spec, RefreshOffersNext
================================================================================
