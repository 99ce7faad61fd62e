----------------------------- MODULE FrameTree -----------------------------
(***************************************************************************)
(* The frames of a tab as the bridge sees them (bg/cdp-bridge.js): two     *)
(* listings of the page, of the debugger and of chrome.webNavigation, are  *)
(* matched by address; a command names a frame in one of several ways; and *)
(* its place on the screen is found by asking each document above it.  The *)
(* page may change between any two answers.                                *)
(***************************************************************************)
EXTENDS Arrays, SequencesExt

CONSTANTS
  Frame,     \* frames below the main frame; each is attached at most once
  Top,       \* the main frame
  Url,       \* addresses of documents
  Blank,     \* about:blank, one of them
  NoUrl,     \* the empty src, part of every address
  FrameName,
  NoFrame,   \* no frame, no name, no answer yet
  Specs,     \* the ways frames are named in the model (see FrameSpec)
  MaxChanges \* bound of the model: changes of the page during one call

AllFrames == Frame \cup {Top}
Failures  == {"error", "FRAME_NOT_FOUND", "FRAME_AMBIGUOUS"}

\* A path of segments, each of which is looked up in the document above it; a
\* selector outside a path is a path of one.
Segment ==
  {[by |-> "selector"]} \cup {[by |-> "name", is |-> n] : n \in FrameName}
  \cup {[by |-> "index", is |-> i] : i \in 1 .. Cardinality(Frame)}
  \cup {[by |-> "url", is |-> u] : u \in Url}

FrameSpec ==
  {[by |-> "nothing"]}
  \cup {[by |-> b, is |-> f] : b \in {"cdpFrameId", "frameId"}, f \in AllFrames}
  \cup {[by |-> "frameName", is |-> n] : n \in FrameName}
  \cup {[by |-> "frameUrl", is |-> u] : u \in Url}
  \cup {[by |-> "frameIndex", is |-> i] : i \in 1 .. Cardinality(Frame)}
  \cup {[by |-> "framePath", is |-> s] :
           s \in UNION {[1 .. n -> Segment] : n \in 1 .. Cardinality(Frame)}}

Page ==
  [kids : [AllFrames -> Seq(Frame)], dom : [AllFrames -> Seq(Frame)],
   src  : [AllFrames -> Url \cup {NoUrl, NoFrame}],
   name : [AllFrames -> FrameName \cup {NoFrame}],
   url  : [AllFrames -> Url \cup {NoFrame}]]

Listing == [tree : Page, ids : [AllFrames -> AllFrames \cup {NoFrame}], mixed : BOOLEAN]

ASSUME FrameAssumption ==
  /\ IsFiniteSet(Frame) /\ Top \notin Frame
  /\ NoFrame \notin AllFrames \cup FrameName \cup Url \cup Page \cup Listing
  /\ Failures \cap (AllFrames \cup {NoFrame}) = {}
  /\ Blank \in Url /\ NoUrl \notin Url \cup {NoFrame} /\ MaxChanges \in Nat
  /\ Specs \subseteq FrameSpec

VARIABLES
  page,           \* what Chrome shows
  frameTreeCache, \* the last listing, NoFrame when there is none
  call            \* the call under way, and what it has found

frameVars == <<page, frameTreeCache, call>>

\* "kids": the children of each frame as the debugger lists them, in the order
\* they were attached; "dom": the elements that hold them, in document order;
\* "src": of the element, NoFrame until it has been attached; "url": of the
\* document, while the frame is there.
Live(p) == {f \in AllFrames : p.url[f] # NoFrame}
Parent(p, f) == CHOOSE g \in AllFrames : f \in ToSet(p.kids[g])
IndexIn(s, f) == CHOOSE i \in DOMAIN s : s[i] = f
Includes(u, part) == part = u \/ part = NoUrl

EmptyPage ==
  [kids |-> [f \in AllFrames |-> <<>>], dom |-> [f \in AllFrames |-> <<>>],
   src  |-> [f \in AllFrames |-> NoFrame], name |-> [f \in AllFrames |-> NoFrame],
   url  |-> [f \in AllFrames |-> IF f = Top THEN Blank ELSE NoFrame]]

Nothing == [EmptyPage EXCEPT !.url[Top] = NoFrame]

NoCall ==
  [step |-> "idle", spec |-> [by |-> "nothing"], tree |-> NoFrame, nav |-> NoFrame, left |-> <<>>,
   at |-> NoFrame, meant |-> <<>>, offset |-> <<>>, result |-> NoFrame, changes |-> 0]

FrameInit == page = EmptyPage /\ frameTreeCache = NoFrame /\ call = NoCall

----------------------------------------------------------------------------
(* The page *)

Closed(p, S) == \A f \in S : ToSet(p.kids[f]) \subseteq S

\* The frames within f: those in every set that has its children, and theirs.
Below(p, f) ==
  {g \in AllFrames :
     \A S \in SUBSET AllFrames : ToSet(p.kids[f]) \subseteq S /\ Closed(p, S) => g \in S}

Without(p, gone) ==
  [p EXCEPT !.kids = [f \in AllFrames |-> Kept(p.kids[f], AllFrames \ gone)],
            !.dom  = [f \in AllFrames |-> Kept(p.dom[f], AllFrames \ gone)],
            !.url  = [f \in AllFrames |-> IF f \in gone THEN NoFrame ELSE p.url[f]]]

\* A change comes between two answers of a call under way, or between two calls.
Changed(cache) ==
  /\ frameTreeCache' = cache
  /\ IF call.step \in {"idle", "found"} THEN call' = NoCall
     ELSE call.changes < MaxChanges /\ call' = [call EXCEPT !.changes = @ + 1]

\* An element may be put before its older siblings.  The worker is told of a
\* document that is loaded, not of a frame that stays blank.
Attach(f, g, src, name, i) ==
  /\ page.src[f] = NoFrame /\ g \in Live(page) /\ i \in 1 .. Len(page.dom[g]) + 1
  /\ page' = [page EXCEPT !.kids[g] = Append(@, f), !.dom[g] = InsertAt(@, i, f),
                          !.src[f] = src, !.name[f] = name,
                          !.url[f] = IF src = NoUrl THEN Blank ELSE src]
  /\ Changed(IF src = NoUrl THEN frameTreeCache ELSE NoFrame)

\* The listener drops the listing at every navigation and every detachment.  (A
\* navigation of the main frame is the detachment of all others.)
frameNavigated(f, u) ==
  /\ f \in Live(page) /\ u # page.url[f]
  /\ page' = [Without(page, Below(page, f)) EXCEPT !.url[f] = u]
  /\ Changed(NoFrame)

frameDetached(f) ==
  /\ f \in Live(page)
  /\ page' = Without(page, {f} \cup Below(page, f))
  /\ Changed(NoFrame)

----------------------------------------------------------------------------
(* The two listings *)

\* In preorder: what is listed so far, and what is to be visited, the next first.
Visits(p) ==
  LET visit[n \in 0 .. Cardinality(AllFrames)] ==
        IF n = 0 THEN [out |-> <<>>, todo |-> <<Top>>]
        ELSE LET v == visit[n - 1]
             IN  IF v.todo = <<>> THEN v
                 ELSE [out  |-> Append(v.out, Head(v.todo)),
                       todo |-> p.kids[Head(v.todo)] \o Tail(v.todo)]
  IN  visit

flattenCdpFrameTree(p) == Visits(p)[Cardinality(AllFrames)].out

\* The frames of the second listing that a frame of the first may be.
Candidates(ids, tree, nav, f) ==
  LET parent == ids[Parent(tree, f)]
  IN  {n \in Live(nav) :
         /\ \A g \in AllFrames : ids[g] # n
         /\ nav.url[n] = tree.url[f]
         /\ parent = NoFrame \/ (n # Top /\ Parent(nav, n) = parent)}

\* Mutant: the first of several candidates is as good as the only one.
MatchFirst(ids, tree, nav, f) ==
  LET found == Candidates(ids, tree, nav, f)
  IN  IF found # {} THEN [ids EXCEPT ![f] = CHOOSE n \in found : TRUE] ELSE ids

Match(ids, tree, nav, f) ==
  LET found == Candidates(ids, tree, nav, f)
  IN  IF Cardinality(found) = 1 THEN [ids EXCEPT ![f] = CHOOSE n \in found : TRUE] ELSE ids

\* The main frames are matched by their number, the others by their address
\* among the children of a matched parent, from the root down.
Merged(tree, nav) ==
  LET flat == flattenCdpFrameTree(tree)
      ids[n \in 0 .. Len(flat)] ==
        IF n = 0 THEN [f \in AllFrames |-> IF f = Top /\ Top \in Live(nav) THEN Top ELSE NoFrame]
        ELSE IF flat[n] = Top THEN ids[n - 1]
        ELSE Match(ids[n - 1], tree, nav, flat[n])
  IN  ids

mergeNavigationFrames(tree, nav) == Merged(tree, nav)[Len(flattenCdpFrameTree(tree))]

----------------------------------------------------------------------------
(* Naming a frame *)

ListedFrames(list) == ToSet(flattenCdpFrameTree(list.tree))
Children(list, f) == ToSet(list.tree.kids[f])

requireSingleFrame(found) ==
  IF Cardinality(found) = 1 THEN CHOOSE f \in found : TRUE
  ELSE IF found = {} THEN "FRAME_NOT_FOUND" ELSE "FRAME_AMBIGUOUS"

\* The ways that need no look at the page.
Named(spec, list) ==
  CASE spec.by = "cdpFrameId" -> requireSingleFrame(ListedFrames(list) \cap {spec.is})
    [] spec.by = "frameId"    -> requireSingleFrame({f \in ListedFrames(list) : list.ids[f] = spec.is})
    [] spec.by = "frameName"  -> requireSingleFrame({f \in ListedFrames(list) : list.tree.name[f] = spec.is})
    [] spec.by = "frameUrl"   ->
         requireSingleFrame({f \in ListedFrames(list) : Includes(list.tree.url[f], spec.is)})
    [] spec.by = "frameIndex" ->
         requireSingleFrame({f \in Children(list, Top) : IndexIn(list.tree.kids[Top], f) = spec.is})
    [] OTHER -> Top

\* find: the first of a sequence that is in S.
FirstOf(s, S) ==
  LET found == {i \in DOMAIN s : s[i] \in S} IN IF found = {} THEN NoFrame ELSE s[Min(found)]

\* The element a segment picks in the document of f; a selector may pick any.
resolveFrameElementInParent(f, segment) ==
  LET dom == page.dom[f]
  IN  CASE segment.by = "selector" -> ToSet(dom) \cup {NoFrame}
        [] segment.by = "name"  -> {FirstOf(dom, {g \in Frame : page.name[g] = segment.is})}
        [] segment.by = "index" -> {IF segment.is \in DOMAIN dom THEN dom[segment.is] ELSE NoFrame}
        [] segment.by = "url"   -> {FirstOf(dom, {g \in Frame : Includes(page.src[g], segment.is)})}

\* The listed child that an element of the document of f is taken for: the one
\* of its position, else of its name, else of its address.
resolveChildFrameFromParent(list, f, el) ==
  LET index   == IndexIn(page.dom[f], el)
      byIndex == {g \in Children(list, f) : IndexIn(list.tree.kids[f], g) = index}
      byName  == {g \in Children(list, f) :
                    page.name[el] # NoFrame /\ list.tree.name[g] = page.name[el]}
      byUrl   == {g \in Children(list, f) :
                    page.src[el] # NoUrl /\ Includes(list.tree.url[g], page.src[el])}
  IN  IF Cardinality(byIndex) = 1 THEN requireSingleFrame(byIndex)
      ELSE IF Cardinality(byName) = 1 THEN requireSingleFrame(byName)
      ELSE requireSingleFrame(byIndex \cup byName \cup byUrl)

----------------------------------------------------------------------------
(* Where a frame is *)

\* From a frame up to the main one.
Ascent(p, f) ==
  LET up[n \in 0 .. Cardinality(AllFrames)] ==
        IF n = 0 THEN <<f>>
        ELSE IF up[n - 1][1] = Top THEN up[n - 1]
        ELSE <<Parent(p, up[n - 1][1])>> \o up[n - 1]
  IN  up

\* The frames from the main one to f; none when f is not listed any more.
getFrameChain(list, f) ==
  IF f \in ListedFrames(list) THEN Ascent(list.tree, f)[Cardinality(AllFrames)] ELSE <<>>

\* The element whose rectangle is taken for that of the listed frame g: the one
\* of its position, unless another fits its name or its address better.
getChildFrameElementRect(list, f, g) ==
  LET dom   == page.dom[f]
      index == IndexIn(list.tree.kids[f], g)
      name  == list.tree.name[g]
      url   == list.tree.url[g]
      Or(found, other) == IF found # NoFrame THEN found ELSE other
      first  == IF index \in DOMAIN dom THEN dom[index] ELSE NoFrame
      second == IF name = NoFrame \/ (first # NoFrame /\ page.name[first] = name) THEN first
                ELSE Or(FirstOf(dom, {h \in Frame : page.name[h] = name}), first)
  IN  IF second # NoFrame /\ page.src[second] = url THEN second
      ELSE Or(FirstOf(dom, {h \in Frame : Includes(url, page.src[h])}), second)

----------------------------------------------------------------------------
(* A call: the frame is resolved; a handler of clicks then asks for its offset *)

Ends(c, result) == [c EXCEPT !.step = "idle", !.tree = NoFrame, !.result = result]

\* With the listing at hand: what is known at once, or the first look.
Resolve(c, list) ==
  IF c.spec.by = "framePath"
  THEN [c EXCEPT !.step = "path", !.at = Top, !.left = c.spec.is, !.tree = list]
  ELSE LET f == Named(c.spec, list)
       IN  IF f \in AllFrames THEN [c EXCEPT !.step = "found", !.at = f] ELSE Ends(c, f)

Chain(c, list) ==
  LET chain == getFrameChain(list, c.at)
  IN  IF Len(chain) < 2 THEN Ends(c, c.at)
      ELSE [c EXCEPT !.step = "offset", !.left = chain, !.tree = list]

WithListing(c, list) == IF c.step = "resolving" THEN Resolve(c, list) ELSE Chain(c, list)

\* listFrameContexts: the listing kept, or two questions.
Lists(c) ==
  /\ UNCHANGED <<page, frameTreeCache>>
  /\ call' = IF frameTreeCache # NoFrame THEN WithListing(c, frameTreeCache)
             ELSE [c EXCEPT !.tree = NoFrame]

resolveFrameTarget(spec) ==
  /\ call.step = "idle"
  /\ Lists([NoCall EXCEPT !.step = "resolving", !.spec = spec])

getFrameViewportOffset == call.step = "found" /\ Lists([call EXCEPT !.step = "chaining"])

\* One of the answers; with both the listing is made and kept.
ListingAnswered(tree, nav) ==
  LET list == [tree |-> tree, ids |-> mergeNavigationFrames(tree, nav), mixed |-> tree # nav]
  IN  /\ call.step \in {"resolving", "chaining"} /\ UNCHANGED page
      /\ IF tree # NoFrame /\ nav # NoFrame
         THEN /\ frameTreeCache' = list
              /\ call' = WithListing([call EXCEPT !.tree = NoFrame, !.nav = NoFrame], list)
         ELSE /\ call' = [call EXCEPT !.tree = tree, !.nav = nav]
              /\ UNCHANGED frameTreeCache

TreeAnswers == call.tree = NoFrame /\ ListingAnswered(page, call.nav)

\* getAllFrames may fail: then no frame has a number.
GetAllFramesAnswers ==
  call.nav = NoFrame /\ \E nav \in {page, Nothing} : ListingAnswered(call.tree, nav)

\* The document that is asked must still be there.
Look ==
  /\ call.step \in {"path", "offset"} /\ UNCHANGED <<page, frameTreeCache>>
  /\ LET asked == IF call.step = "path" THEN call.at ELSE call.left[1]
     IN  IF asked \notin Live(page) THEN call' = Ends(call, "error")
         ELSE IF call.step = "path"
         THEN \E el \in resolveFrameElementInParent(asked, call.left[1]) :
                LET f == IF el = NoFrame THEN "FRAME_NOT_FOUND"
                         ELSE resolveChildFrameFromParent(call.tree, asked, el)
                    c == [call EXCEPT !.meant = Append(@, el), !.at = f, !.left = Tail(@)]
                IN  call' = IF f \notin AllFrames THEN Ends(c, f)
                            ELSE IF c.left = <<>> THEN [c EXCEPT !.step = "found", !.tree = NoFrame]
                            ELSE c
         ELSE LET el == getChildFrameElementRect(call.tree, asked, call.left[2])
                  c  == [call EXCEPT !.offset = Append(@, el), !.left = Tail(@)]
              IN  call' = IF el = NoFrame THEN Ends(c, "FRAME_NOT_FOUND")
                          ELSE IF Len(c.left) < 2 THEN Ends(c, c.at) ELSE c

FrameNext ==
  \/ \E f \in Frame, g \in AllFrames, src \in (Url \ {Blank}) \cup {NoUrl},
        name \in FrameName \cup {NoFrame}, i \in 1 .. Cardinality(Frame) : Attach(f, g, src, name, i)
  \/ \E f \in Frame : frameDetached(f) \/ \E u \in Url : frameNavigated(f, u)
  \/ \E spec \in Specs : resolveFrameTarget(spec)
  \/ getFrameViewportOffset \/ TreeAnswers \/ GetAllFramesAnswers \/ Look

FramesSpec == FrameInit /\ [][FrameNext]_frameVars

----------------------------------------------------------------------------
(* Properties *)

FrameTypeOK ==
  /\ call.step \in {"idle", "resolving", "path", "found", "chaining", "offset"}
  /\ call.spec \in Specs \cup {NoCall.spec} /\ call.changes \in 0 .. MaxChanges
  /\ call.result \in AllFrames \cup {NoFrame, "error", "FRAME_NOT_FOUND", "FRAME_AMBIGUOUS"}
  /\ frameTreeCache # NoFrame => frameTreeCache.ids \in [AllFrames -> AllFrames \cup {NoFrame}]

\* The number the bridge gives a frame is its own, and no two frames have one
\* number, although the two listings share no key: a frame that cannot be told
\* from its siblings gets none, and one that can gets its own.  This is so when
\* the page did not change between the two answers.
NumbersAreTrue ==
  LET list == frameTreeCache
  IN  list # NoFrame =>
        /\ \A f, g \in AllFrames : list.ids[f] = list.ids[g] /\ list.ids[f] # NoFrame => f = g
        /\ ~list.mixed => \A f \in ListedFrames(list) :
             /\ list.ids[f] \in {f, NoFrame}
             /\ f # Top /\ list.ids[Parent(list.tree, f)] # NoFrame
                /\ (\A g \in Children(list, Parent(list.tree, f)) \ {f} :
                      list.tree.url[g] # list.tree.url[f])
                => list.ids[f] = f

\* The listing kept over several calls is the page as it is, but for frames that
\* were added and are still blank.
ListingIsCurrent ==
  LET list == frameTreeCache
  IN  list # NoFrame /\ ~list.mixed =>
        /\ \A f \in ListedFrames(list) : page.url[f] = list.tree.url[f]
        /\ \A f \in Live(page) \ ListedFrames(list) : page.url[f] = Blank

\* While nothing changes, a call knows the page.
Undisturbed ==
  call.changes = 0 /\ frameTreeCache # NoFrame /\ frameTreeCache.tree = page

\* The element of a frame has the place among its siblings that the frame has.
Placed(f) ==
  LET g == Parent(page, f) IN IndexIn(page.kids[g], f) = IndexIn(page.dom[g], f)

\* A path leads to the frame whose element its last segment picked.
PathLeadsThere ==
  call.meant # <<>> /\ Undisturbed
  /\ (\A i \in DOMAIN call.meant : call.meant[i] # NoFrame => Placed(call.meant[i]))
  => call.at = IF Last(call.meant) = NoFrame THEN "FRAME_NOT_FOUND" ELSE Last(call.meant)

\* No other element of its document could be taken for that of f.
Unmistakable(f) ==
  \/ page.src[f] = page.url[f]
  \/ \A h \in ToSet(page.dom[Parent(page, f)]) \ {f} : ~Includes(page.url[f], page.src[h])

\* The offset of a frame is the sum of the places of its own element and of
\* those of the frames above it.
OffsetIsItsOwn ==
  call.step = "idle" /\ call.result \in AllFrames /\ Undisturbed =>
    LET chain == Tail(getFrameChain(frameTreeCache, call.result))
    IN  /\ call.result = call.at
        /\ (\A i \in DOMAIN chain : Placed(chain[i]) /\ Unmistakable(chain[i]))
           => call.offset = chain

\* Commands for a frame reach the frame that was named and are aimed at it.
FramesSafe ==
  FrameTypeOK /\ NumbersAreTrue /\ ListingIsCurrent /\ PathLeadsThere /\ OffsetIsItsOwn
=============================================================================
