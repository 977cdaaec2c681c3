------------------------------ MODULE EpubReader ------------------------------
(***************************************************************************)
(* Reading an EPUB (EpubReaderActivity): the main task turns pages, jumps, *)
(* changes the layout and builds sections in the background; the render    *)
(* task opens the section, builds what is missing, draws the page and      *)
(* saves the progress.  Whatever resets the section waits for the          *)
(* rendering mutex; the page number is changed without it.                 *)
(*                                                                         *)
(* Left out: automatic page turning, percent jumps on books without a      *)
(* size, the sync with KOReader, and what is drawn over the page.          *)
(***************************************************************************)
EXTENDS SectionCache, Sequences

CONSTANTS
    Anchor,      \* units that links, chapter lists and bookmarks lead to
    Percent,     \* what jumpToPercent() leaves of the percentage for the chapter
    MaxDepth,    \* MAX_FOOTNOTE_DEPTH
    Margin,      \* PARTIAL_REBUILD_START_MARGIN
    Window,      \* BUILD_WINDOW_AHEAD
    MaxRetries,  \* MAX_PAGE_LOAD_RETRIES
    MaxAsked     \* bound: what the user asks for, all in all

ASSUME ReaderAssumption ==
    /\ Anchor \subseteq Nat /\ Percent \subseteq 0 .. 100
    /\ MaxDepth \in Nat /\ Margin \in Nat /\ Window \in Nat /\ MaxRetries \in Nat
    /\ MaxAsked \in Nat

\* Section::pageCount is a uint16_t; no chapter has more pages than that.
ASSUME PageCountAssumption == \A s \in Spine, l \in Layout : Pages(s, l) <= 65535

VARIABLES
    open,          \* the reader is the current activity
    layout,        \* the layout the settings ask for
    currentSpine,  \* currentSpineIndex
    nextPage,      \* nextPageNumber
    jump,          \* pendingPageJump (last), pendingAnchor, pendingOffsetJump, pendingPercentJump
    cached,        \* cachedSpineIndex, cachedChapterTotalPageCount, cachedVisibleTextOffset
    saved,         \* savedPositions, the first footnoteDepth of them
    lastSaved,     \* lastSavedSpineIndex, lastSavedPage, lastSavedPageCount
    retries,       \* pageLoadRetryCount
    startFailed,   \* partialRebuildStartFailed
    pageOffset,    \* currentPageVisibleOffset
    requested,     \* an update was asked for
    rpc,           \* where the render task is
    goal,          \* renderBook()'s offsetJump
    mpc,           \* where the main task is
    asked,         \* how much the user has asked for
    progress,      \* progress.bin
    saving,        \* what is in progress.bin.tmp while progress.bin is removed
    place,         \* history: where in the text the next page drawn has to be, and why
    origins        \* history: the places and layouts of savedPositions

position == <<currentSpine, nextPage, jump, cached>>
memory   == <<saved, lastSaved, retries, startFailed, pageOffset>>
cards    == <<progress, saving>>
history  == <<place, origins>>
control  == <<open, layout, requested, rpc, goal, mpc>>
sections == <<bin, section>>
vars     == <<position, memory, cards, history, control, sections, asked>>

NoJump == [last |-> FALSE, anchor |-> None, offset |-> None, percent |-> None]
NoProgress == [spine |-> 0, page |-> 0, count |-> 0, offset |-> None]
NoPlace == [spine |-> 0, offset |-> 0, by |-> "none"]

cp == section.currentPage
Free == rpc = "idle" /\ mpc = "idle"
Reading == open /\ Free
Asked == Reading /\ ~requested      \* what is asked for on a page that has been drawn
Lapsed(c) == [c EXCEPT !.count = 0, !.offset = None]      \* clearDeferredReposition()
Deferred(s) == cached.spine = s /\ cached # Lapsed(cached)

\* Unit o of spine item s has to be on the next page drawn; a jump left over spoils that.
At(s, o, why) == IF Length[s] = 0 THEN NoPlace
                 ELSE [spine |-> s, offset |-> Least(o, Length[s] - 1), by |-> why]
Promise(s, o) == At(s, o, IF jump = NoJump THEN "promised" ELSE "leftover")
OnPage(pl) == pl.spine = section.spine /\ pl.offset \div PerPage[PageLayout(cp)] = cp
-----------------------------------------------------------------------------
FreshRam ==
    /\ currentSpine' = 0 /\ nextPage' = 0 /\ jump' = NoJump
    /\ cached' = [spine |-> 0, count |-> 0, offset |-> None]
    /\ saved' = <<>> /\ lastSaved' = None /\ retries' = 0 /\ startFailed' = FALSE /\ pageOffset' = None
    /\ requested' = FALSE /\ rpc' = "idle" /\ goal' = None /\ mpc' = "idle"
    /\ origins' = <<>>

Init ==
    /\ open = FALSE /\ layout \in Layout
    /\ currentSpine = 0 /\ nextPage = 0 /\ jump = NoJump
    /\ cached = [spine |-> 0, count |-> 0, offset |-> None]
    /\ saved = <<>> /\ lastSaved = None /\ retries = 0 /\ startFailed = FALSE /\ pageOffset = None
    /\ requested = FALSE /\ rpc = "idle" /\ goal = None /\ mpc = "idle"
    /\ progress = NoProgress /\ saving = None
    /\ bin = [s \in Spine |-> NoFile] /\ section = NoSection
    /\ place = NoPlace /\ origins = <<>> /\ asked = 0

\* loadBook()
OpenBook ==
    /\ ~open
    /\ open' = TRUE /\ requested' = TRUE
    /\ currentSpine' = progress.spine /\ nextPage' = progress.page
    /\ cached' = [spine |-> progress.spine, count |-> progress.count, offset |-> progress.offset]
    /\ UNCHANGED <<layout, jump, rpc, goal, mpc, memory, cards, history, sections>>

\* The settings change while the book is closed.
ChangeSettings ==
    /\ ~open
    /\ \E l \in Layout \ {layout} :
        /\ layout' = l
        /\ place' = IF place.by = "shown" /\ progress.offset = None THEN [place EXCEPT !.by = "origin"] ELSE place
    /\ UNCHANGED <<position, memory, cards, origins, sections,
                   open, requested, rpc, goal, mpc>>
-----------------------------------------------------------------------------
(* The render task: ReaderActivity::render(), renderBook().                *)

RenderBegins ==
    /\ open /\ requested /\ rpc = "idle" /\ mpc \notin {"reposition", "deleting", "closing"}
    /\ requested' = FALSE
    /\ rpc' = IF currentSpine = SpineCount THEN "idle" ELSE IF section = NoSection THEN "open" ELSE "extend"
    /\ UNCHANGED <<position, memory, cards, place, origins, sections,
                   open, layout, goal, mpc>>

\* showBuildError(); the section is gone and stays so until the next update.
BuildError ==
    /\ BuildFails
    /\ rpc' = "idle" /\ place' = NoPlace
    /\ UNCHANGED <<jump, cached, goal>>

OpenSection ==
    /\ rpc = "open"
    /\ LoadSectionFile(currentSpine, layout)
    /\ startFailed' = FALSE
    /\ cached' = IF Matches(currentSpine, layout) THEN Lapsed(cached) ELSE cached
    /\ rpc' = "plan"
    /\ UNCHANGED <<currentSpine, nextPage, jump, saved, lastSaved, retries, pageOffset, cards, history,
                   open, layout, requested, goal, mpc>>

OffsetJump == IF jump.offset # None THEN jump.offset
              ELSE IF jump.last \/ jump.anchor # None \/ currentSpine # cached.spine THEN None
              ELSE cached.offset
Target == IF jump.last THEN 65535 ELSE nextPage
WholeOnCard == bin[section.spine].whole
CoversTarget == /\ IsPartial /\ jump.percent = None
                /\ IF jump.anchor # None THEN AnchorOnCard(jump.anchor) # None
                   ELSE Target + Margin < section.pageCount
Plan ==
    /\ rpc = "plan"
    /\ \/ /\ WholeOnCard \/ CoversTarget
          /\ rpc' = "place" /\ goal' = OffsetJump
          /\ UNCHANGED <<sections, place, jump, cached>>
       \/ /\ ~WholeOnCard /\ ~CoversTarget
          /\ StartBuild(layout)
          /\ rpc' = "reach" /\ goal' = OffsetJump
          /\ UNCHANGED <<place, jump, cached>>
       \/ /\ ~WholeOnCard /\ ~CoversTarget
          /\ BuildError
    /\ UNCHANGED <<currentSpine, nextPage, memory, cards, origins,
                   open, layout, requested, mpc>>

Reached == \/ section.complete
           \/ IF jump.percent # None THEN FALSE
              ELSE IF jump.anchor # None THEN FindAnchor(jump.anchor) # None
              ELSE IF goal # None THEN ReachedOffset(goal)
              ELSE section.pageCount > Target
Reach ==
    /\ rpc = "reach" /\ ~Reached
    /\ \/ BuildSomeMore /\ UNCHANGED <<rpc, place, jump, cached, goal>>
       \/ BuildError
    /\ UNCHANGED <<currentSpine, nextPage, memory, cards, origins,
                   open, layout, requested, mpc>>

\* Which page that is: of the pending jumps the last in this list that finds one.
OffsetPage == IF goal = None THEN None ELSE PageForOffset(goal)
AnchorPage == IF jump.anchor = None THEN None ELSE FindAnchor(jump.anchor)
PercentPage == IF jump.percent = None \/ section.pageCount = 0 THEN None
               ELSE Least((jump.percent * section.pageCount) \div 100, section.pageCount - 1)
PlacedPage == IF PercentPage # None THEN PercentPage ELSE IF AnchorPage # None THEN AnchorPage
              ELSE IF OffsetPage # None THEN OffsetPage ELSE Target
Place ==
    /\ rpc = "place" \/ (rpc = "reach" /\ Reached)
    /\ section' = [section EXCEPT !.currentPage = PlacedPage]
    /\ cached' = IF OffsetPage # None \/ jump.offset # None THEN Lapsed(cached) ELSE cached
    /\ jump' = [NoJump EXCEPT !.percent = IF section.pageCount = 0 THEN jump.percent ELSE None]
    /\ rpc' = "extend" /\ goal' = None
    /\ UNCHANGED <<bin, currentSpine, nextPage, memory, cards, history, open, layout, requested, mpc>>

\* Pages the partial file does not have are built first.
Short == cp >= section.pageCount
Extend ==
    /\ rpc = "extend" /\ Short /\ (IsPartial \/ IsBuilding)
    /\ \/ /\ IF IsBuilding THEN BuildSomeMore ELSE StartBuild(layout)
          /\ UNCHANGED <<rpc, place, jump, cached, goal>>
       \/ BuildError
    /\ UNCHANGED <<currentSpine, nextPage, memory, cards, origins,
                   open, layout, requested, mpc>>

\* applyDeferredReposition(), from page p: by the offset, or else in proportion.
IsDeferred == ~IsBuilding /\ (cached.offset # None \/ cached.count # 0)
MappedPage(p) ==
    LET o == IF cached.offset = None THEN None ELSE PageForOffset(cached.offset) IN
    IF o # None THEN o
    ELSE IF cached.count > 0 /\ section.pageCount # cached.count THEN (p * section.pageCount) \div cached.count
    ELSE p
Clamped(p) == IF section.pageCount > 0 /\ Short /\ ~IsBuilding THEN section.pageCount - 1 ELSE p
Within(p) == IF section.pageCount > 0 THEN Least(p, section.pageCount - 1) ELSE p
Repositioned(p) == IF IsDeferred /\ currentSpine = cached.spine THEN Within(MappedPage(p)) ELSE p

\* An empty chapter, or a page out of bounds, has a message instead.
Fit ==
    /\ rpc = "extend" /\ ~(Short /\ (IsPartial \/ IsBuilding))
    /\ LET p == Repositioned(Clamped(cp)) IN
       /\ section' = [section EXCEPT !.currentPage = p]
       /\ rpc' = IF p < section.pageCount THEN "load" ELSE "idle"
    /\ cached' = IF IsDeferred THEN Lapsed(cached) ELSE cached
    /\ UNCHANGED <<bin, currentSpine, nextPage, jump, memory, cards, place, origins,
                   open, layout, requested, goal, mpc>>

Draw ==
    /\ rpc = "load" /\ PageLayout(cp) # None
    /\ rpc' = "save" /\ retries' = 0
    /\ pageOffset' = StartOf(cp, PageLayout(cp))
    /\ place' = At(section.spine, StartOf(cp, PageLayout(cp)), "drawn")
    /\ UNCHANGED <<position, saved, lastSaved, startFailed, cards, origins, sections,
                   open, layout, requested, goal, mpc>>

\* The page cannot be read: the layout is made anew, a few times.
LoadFails ==
    /\ rpc = "load"
    /\ DiscardSection
    /\ rpc' = "idle" /\ place' = NoPlace
    /\ IF retries + 1 > MaxRetries
       THEN retries' = 0 /\ UNCHANGED requested
       ELSE retries' = retries + 1 /\ requested' = TRUE
    /\ UNCHANGED <<position, saved, lastSaved, startFailed, pageOffset, cards, origins,
                   open, layout, goal, mpc>>

\* estimatedTotalPages(); the estimate is taken to be right
EstimatedTotalPages == IF IsBuilding \/ IsPartial THEN Greatest(section.pageCount, Pages(section.spine, layout))
                       ELSE section.pageCount
SaveNeeded == lastSaved = None \/ lastSaved # <<currentSpine, cp, section.pageCount>>

Record(s, p, n, o) == [spine |-> s, page |-> p, count |-> n, offset |-> o]
OffsetToSave(s, p) ==
    IF section = NoSection \/ s # currentSpine \/ p >= section.pageCount THEN None
    ELSE IF p = cp /\ pageOffset # None THEN pageOffset ELSE OffsetOfPage(p)

\* The page on the screen, unless a turn has already gone on from it.
Saved(why) == IF place.by = "drawn" THEN [place EXCEPT !.by = why] ELSE place

SkipSave ==
    /\ rpc = "save" /\ ~SaveNeeded
    /\ rpc' = "idle"
    /\ place' = Saved(IF progress.page = cp /\ progress.offset = place.offset THEN "shown" ELSE "unsaved")
    /\ UNCHANGED <<position, memory, cards, origins, sections,
                   open, layout, requested, goal, mpc>>

\* ProgressFile::writeAtomic(): the temporary file is written and the old file removed, ...
SaveProgress ==
    /\ rpc = "save" /\ SaveNeeded
    /\ \/ /\ saving' = Record(currentSpine, cp, EstimatedTotalPages, OffsetToSave(currentSpine, cp))
          /\ progress' = NoProgress
          /\ rpc' = "replace"
          /\ UNCHANGED place
       \/ /\ rpc' = "idle" /\ place' = Saved("unsaved")   \* it could not be written
          /\ UNCHANGED cards
    /\ UNCHANGED <<position, memory, origins, sections,
                   open, layout, requested, goal, mpc>>

\* ... and the new one renamed.
ReplaceProgress ==
    /\ rpc = "replace"
    /\ rpc' = "idle" /\ saving' = None
    /\ \/ /\ progress' = saving
          /\ lastSaved' = <<currentSpine, cp, saving.count>>
          /\ place' = Saved("shown")
       \/ /\ place' = Saved("unsaved")
          /\ UNCHANGED <<progress, lastSaved>>
    /\ UNCHANGED <<position, saved, retries, startFailed, pageOffset, origins, sections,
                   open, layout, requested, goal, mpc>>

Render == RenderBegins \/ OpenSection \/ Plan \/ Reach \/ Place \/ Extend \/ Fit
          \/ Draw \/ LoadFails \/ SkipSave \/ SaveProgress \/ ReplaceProgress
-----------------------------------------------------------------------------
(* The main task, when the render task does not hold the rendering mutex.  *)

Leap(s, page, j, to) ==
    /\ currentSpine' = s /\ nextPage' = page /\ jump' = j
    /\ cached' = Lapsed(cached)
    /\ ResetSection
    /\ requested' = TRUE /\ place' = to

\* pageTurn(): no page is being drawn when the button is handled, ...  (Bound: no turn from a page
\* that is still to be built.)
TurnStarts ==
    /\ Reading /\ currentSpine < SpineCount /\ section # NoSection
    /\ cp < section.pageCount \/ ~IsBuilding
    /\ mpc' = "lock"
    /\ UNCHANGED <<position, memory, cards, history, sections, open, layout, requested, rpc, goal>>

\* ... the mutex is taken and given back, ...
TurnLocks ==
    /\ mpc = "lock" /\ rpc = "idle"
    /\ mpc' = "turning" /\ cached' = Lapsed(cached)
    /\ UNCHANGED <<currentSpine, nextPage, jump, memory, cards, history, sections,
                   open, layout, requested, rpc, goal>>

\* ... and the page number changes whatever the render task does meanwhile: a section that is being opened again
\* gets its page number afterwards, and what was deferred may still move the page.
Reopening == rpc \in {"open", "plan", "reach", "place"}
TurnWithin(p) ==
    /\ section' = [section EXCEPT !.currentPage = p]
    /\ place' = IF Reopening \/ (rpc = "extend" /\ Deferred(currentSpine)) THEN NoPlace
                ELSE Promise(currentSpine, StartOf(p, layout))
    /\ requested' = TRUE
    /\ UNCHANGED <<bin, position>>

\* Where the build that should have gone on did not start, the rest of the chapter is passed over.
Rest == IF IsPartial THEN NoPlace ELSE Promise(currentSpine + 1, 0)
TurnForward ==
    \/ (cp < section.pageCount - 1 \/ IsBuilding) /\ TurnWithin(cp + 1)
    \/ /\ ~(cp < section.pageCount - 1 \/ IsBuilding)
       /\ IF currentSpine + 1 < SpineCount
          THEN rpc = "idle" /\ Leap(currentSpine + 1, 0, jump, Rest)
          ELSE /\ currentSpine' = SpineCount /\ requested' = TRUE
               /\ place' = IF IsPartial \/ Reopening THEN NoPlace ELSE Promise(currentSpine, StartOf(cp, layout))
               /\ UNCHANGED <<nextPage, jump, cached, sections>>
TurnBack ==
    \/ cp > 0 /\ TurnWithin(cp - 1)
    \/ /\ cp <= 0 /\ currentSpine > 0 /\ rpc = "idle"
       /\ Leap(currentSpine - 1, 0, [jump EXCEPT !.last = TRUE],
               Promise(currentSpine - 1, Length[currentSpine - 1]))
    \/ /\ cp <= 0 /\ currentSpine = 0
       /\ requested' = TRUE
       /\ UNCHANGED <<position, place, sections>>
TurnMoves ==
    /\ mpc = "turning" /\ section # NoSection
    /\ mpc' = "idle"
    /\ TurnForward \/ TurnBack
    /\ UNCHANGED <<memory, cards, origins, open, layout, rpc, goal>>

\* skipPages(); the number of the page is set without the mutex.
SkipForward ==
    /\ Asked /\ currentSpine < SpineCount /\ section # NoSection
    /\ currentSpine' = currentSpine + 1 /\ nextPage' = 0 /\ requested' = TRUE
    /\ ResetSection
    /\ place' = IF currentSpine + 1 \in Spine THEN Promise(currentSpine + 1, 0) ELSE NoPlace
    /\ UNCHANGED <<jump, cached, memory, cards, origins,
                   open, layout, rpc, goal, mpc>>
SkipBack ==
    /\ open /\ mpc = "idle" /\ currentSpine < SpineCount /\ section # NoSection
    /\ \/ /\ cp > 0 /\ TurnWithin(0)
       \/ /\ cp <= 0 /\ currentSpine > 0 /\ rpc = "idle"
          /\ currentSpine' = currentSpine - 1 /\ nextPage' = 0 /\ requested' = TRUE
          /\ ResetSection
          /\ place' = Promise(currentSpine - 1, 0)
          /\ UNCHANGED <<jump, cached>>
    /\ UNCHANGED <<memory, cards, origins, open, layout, rpc, goal, mpc>>

\* onReturnFromEndOfBook(): the section of the last chapter may still be there, at the page that was
\* turned, and the jump stays; a reposition deferred before is not cancelled.
ReturnFromEndOfBook ==
    /\ Asked /\ currentSpine = SpineCount
    /\ currentSpine' = SpineCount - 1 /\ nextPage' = 0 /\ jump' = [jump EXCEPT !.last = TRUE]
    /\ requested' = TRUE
    /\ place' = IF section # NoSection THEN place
                ELSE IF Deferred(SpineCount - 1) THEN NoPlace
                ELSE Promise(SpineCount - 1, Length[SpineCount - 1])
    /\ UNCHANGED <<cached, memory, cards, origins, sections,
                   open, layout, rpc, goal, mpc>>
-----------------------------------------------------------------------------
\* A new orientation or text setting; and the chapter list, whose cancelling comes back to the same layout.
\* faulty: the page is remembered by its number only
RememberPage ==
    /\ cached' = [spine |-> currentSpine, count |-> section.pageCount, offset |-> None]
    /\ nextPage' = cp

Remember ==
    /\ cached' = [spine |-> currentSpine, count |-> section.pageCount,
                  offset |-> IF cp < section.pageCount THEN OffsetOfPage(cp) ELSE None]
    /\ nextPage' = cp

\* What it goes back to is the start of the page that has the place, which may not have been drawn yet.
StillThere(l) ==
    IF place.by \notin {"promised", "shown", "unsaved"} THEN NoPlace
    ELSE IF section = NoSection THEN (IF l = layout THEN place ELSE NoPlace)
    ELSE IF cp >= section.pageCount THEN NoPlace
    ELSE Promise(place.spine, StartOf(PageOf(place.offset, layout), layout))
Relayout(l) ==
    /\ Reading
    /\ layout' = l
    /\ IF section # NoSection THEN Remember ELSE UNCHANGED <<cached, nextPage>>
    /\ ResetSection
    /\ requested' = TRUE /\ place' = StillThere(l)
    /\ UNCHANGED <<currentSpine, jump, memory, cards, origins, open, rpc, goal, mpc>>

AnchorPlace(s, a) == Promise(s, IF a = None \/ a >= Length[s] THEN 0 ELSE a)
SelectChapter(s, a) ==
    /\ Asked
    /\ Leap(s, 0, [jump EXCEPT !.anchor = a], AnchorPlace(s, a))
    /\ UNCHANGED <<memory, cards, origins, open, layout, rpc, goal, mpc>>

CanSaveAny == section # NoSection       \* faulty: however deep
CanSave == section # NoSection /\ Len(saved) < MaxDepth

\* A footnote, or a link on the page.
NavigateToHref(s, a) ==
    /\ Asked /\ currentSpine < SpineCount
    /\ IF CanSave
       THEN /\ saved' = Append(saved, [spine |-> currentSpine, page |-> cp])
            /\ origins' = Append(origins, [spine |-> currentSpine, offset |-> StartOf(cp, layout), layout |-> layout])
       ELSE UNCHANGED <<saved, origins>>
    /\ Leap(s, 0, [jump EXCEPT !.anchor = a], AnchorPlace(s, a))
    /\ UNCHANGED <<lastSaved, retries, startFailed, pageOffset, cards,
                   open, layout, rpc, goal, mpc>>

\* An address that leads nowhere takes back what was saved for it, or else what was saved before; from the list of
\* footnotes an update is asked for.
HrefUnresolved ==
    /\ Asked /\ currentSpine < SpineCount
    /\ LET rest == IF CanSave THEN Len(saved) ELSE Greatest(Len(saved) - 1, 0) IN
       saved' = SubSeq(saved, 1, rest) /\ origins' = SubSeq(origins, 1, rest)
    /\ requested' \in BOOLEAN
    /\ UNCHANGED <<position, lastSaved, retries, startFailed, pageOffset, cards, place, sections,
                   open, layout, rpc, goal, mpc>>

\* Saved positions are page numbers: they are worth nothing in another layout.
Origin(at, why) == At(at.spine, at.offset, IF at.layout = layout THEN why ELSE "origin")
RestoreSavedPosition ==
    /\ Asked /\ saved # <<>>
    /\ LET top == Len(saved) IN
       /\ saved' = SubSeq(saved, 1, top - 1) /\ origins' = SubSeq(origins, 1, top - 1)
       /\ Leap(saved[top].spine, saved[top].page, jump,
               IF jump = NoJump THEN Origin(origins[top], "promised") ELSE NoPlace)
    /\ UNCHANGED <<lastSaved, retries, startFailed, pageOffset, cards,
                   open, layout, rpc, goal, mpc>>

\* A bookmark at unit o, made in layout l.
OpenBookmark(s, o, l) ==
    /\ Asked
    /\ IF section # NoSection /\ currentSpine = s
       THEN /\ cached' = Lapsed(cached) /\ requested' = TRUE
            /\ section' = [section EXCEPT !.currentPage =
                               IF PageForOffset(o) = None THEN PageOf(o, l) ELSE PageForOffset(o)]
            /\ place' = IF l = layout \/ PageForOffset(o) # None THEN Promise(s, o) ELSE NoPlace
            /\ UNCHANGED <<bin, currentSpine, nextPage, jump>>
       ELSE Leap(s, PageOf(o, l), [jump EXCEPT !.offset = o], IF l = layout THEN Promise(s, o) ELSE NoPlace)
    /\ UNCHANGED <<memory, cards, origins, open, layout, rpc, goal, mpc>>

JumpToPercent(s, q) ==
    /\ Asked
    /\ Leap(s, 0, [jump EXCEPT !.percent = q], NoPlace)
    /\ UNCHANGED <<memory, cards, origins, open, layout, rpc, goal, mpc>>
-----------------------------------------------------------------------------
(* loop(): what is built while nothing is drawn.                           *)

ExtendsPartial ==
    /\ Reading /\ section # NoSection /\ ~IsBuilding /\ IsPartial /\ ~startFailed
    /\ cp + Margin >= section.pageCount
    /\ \/ StartBuild(layout) /\ UNCHANGED <<startFailed, place>>
       \/ StartBuildFails /\ startFailed' = TRUE /\ place' = IF section'.pageCount = 0 THEN NoPlace ELSE place
    /\ UNCHANGED <<position, saved, lastSaved, retries, pageOffset, cards, origins, control>>

BackgroundBuild ==
    /\ Reading /\ IsBuilding /\ (IsPartial \/ section.pageCount < cp + Window)
    /\ \/ PageLaidOut /\ UNCHANGED <<mpc, requested, place>>
       \/ BuildCompletes /\ mpc' = "reposition" /\ UNCHANGED <<requested, place>>
       \/ BuildFails /\ requested' = TRUE /\ place' = NoPlace /\ UNCHANGED mpc
    /\ UNCHANGED <<position, memory, cards, origins, open, layout, rpc, goal>>

\* The page may get another number now that there are more of them: in proportion, where nothing better
\* was known, and the reader finds himself elsewhere.
Reposition ==
    /\ mpc = "reposition"
    /\ place' = IF Repositioned(cp) = cp THEN place ELSE NoPlace
    /\ section' = [section EXCEPT !.currentPage = Repositioned(cp)]
    /\ cached' = IF IsDeferred THEN Lapsed(cached) ELSE cached
    /\ requested' = (requested \/ Repositioned(cp) # cp)
    /\ mpc' = "idle"
    /\ UNCHANGED <<bin, currentSpine, nextPage, jump, memory, cards, origins, open, layout, rpc, goal>>
-----------------------------------------------------------------------------
\* The layouts go, and progress.bin with them, which is then written anew.
DeleteCache ==
    /\ Asked /\ section # NoSection
    /\ section' = NoSection /\ bin' = [s \in Spine |-> NoFile]
    /\ progress' = NoProgress /\ saving' = Record(currentSpine, cp, section.pageCount, None)
    /\ mpc' = "deleting" /\ place' = NoPlace
    /\ UNCHANGED <<position, memory, origins, open, layout, requested, rpc, goal>>
DeleteFinishes ==
    /\ mpc = "deleting"
    /\ mpc' = "leaving" /\ saving' = None /\ progress' \in {saving, NoProgress}
    /\ UNCHANGED <<position, memory, history, sections, open, layout, requested, rpc, goal>>

Left(where) ==
    /\ open' = FALSE /\ saving' = None /\ ResetSection
    /\ FreshRam
    /\ place' = where
    /\ UNCHANGED layout

\* ~EpubReaderActivity(): from a footnote, the book opens where the first link was followed.
CloseBook ==
    /\ open /\ rpc = "idle" /\ mpc \in {"idle", "leaving"}
    /\ IF saved = <<>>
       THEN Left(IF place.by = "shown" THEN place ELSE NoPlace) /\ UNCHANGED progress
       ELSE /\ saving' = Record(saved[1].spine, saved[1].page, 0, OffsetToSave(saved[1].spine, saved[1].page))
            /\ progress' = NoProgress
            /\ mpc' = "closing"
            /\ UNCHANGED <<position, memory, history, sections, open, layout, requested, rpc, goal>>
CloseFinishes ==
    /\ mpc = "closing"
    /\ \/ progress' = saving
          /\ Left(Origin(origins[1], IF saving.offset \in {None, origins[1].offset} THEN "shown" ELSE "origin"))
       \/ UNCHANGED progress /\ Left(NoPlace)

\* Any time; and a turn that finds the section gone reads through a null pointer.
PowerLoss ==
    /\ open
    /\ open' = FALSE /\ saving' = None /\ SectionLost
    /\ place' = IF Free /\ place.by = "shown" THEN place ELSE NoPlace
    /\ FreshRam
    /\ UNCHANGED <<layout, progress>>
-----------------------------------------------------------------------------
Operation ==
    \/ TurnStarts \/ SkipForward \/ SkipBack \/ ReturnFromEndOfBook
    \/ HrefUnresolved \/ RestoreSavedPosition \/ DeleteCache \/ CloseBook
    \/ \E l \in Layout : Relayout(l)
    \/ \E s \in Spine :
        \/ \E a \in Anchor \cup {None} : SelectChapter(s, a) \/ NavigateToHref(s, a)
        \/ \E o \in Anchor, l \in Layout : o < Length[s] /\ OpenBookmark(s, o, l)
        \/ \E q \in Percent : JumpToPercent(s, q)
Main == \/ OpenBook \/ ChangeSettings \/ TurnLocks \/ TurnMoves
        \/ ExtendsPartial \/ BackgroundBuild \/ Reposition \/ DeleteFinishes \/ CloseFinishes

Next == \/ asked < MaxAsked /\ asked' = asked + 1 /\ Operation
        \/ (Main \/ Render \/ PowerLoss) /\ UNCHANGED asked

Spec == Init /\ [][Next]_vars

\* The render task is never starved: the main task sleeps in every round of its loop.
FairSpec == Spec /\ WF_vars(Render /\ UNCHANGED asked)
-----------------------------------------------------------------------------
Jump == [last : BOOLEAN, anchor : Nat \cup {None}, offset : Nat \cup {None}, percent : 0 .. 100 \cup {None}]
SavedProgress == [spine : 0 .. SpineCount, page : Int, count : Nat, offset : Nat \cup {None}]
PlaceType == [spine : Spine, offset : Nat,
              by : {"none", "promised", "leftover", "drawn", "shown", "unsaved", "origin"}]

\* The reader's variables stay within what their C++ types are used for.
TypeOK ==
    /\ SectionTypeOK
    /\ open \in BOOLEAN /\ asked \in 0 .. MaxAsked /\ layout \in Layout /\ requested \in BOOLEAN
    /\ currentSpine \in 0 .. SpineCount /\ nextPage \in Int /\ jump \in Jump
    /\ cached \in [spine : 0 .. SpineCount, count : Nat, offset : Nat \cup {None}]
    /\ saved \in Seq([spine : Spine, page : Int]) /\ Len(saved) <= MaxDepth
    /\ retries \in 0 .. MaxRetries /\ startFailed \in BOOLEAN /\ pageOffset \in Nat \cup {None}
    /\ rpc \in {"idle", "open", "plan", "reach", "place", "extend", "load", "save", "replace"}
    /\ mpc \in {"idle", "lock", "turning", "reposition", "deleting", "leaving", "closing"}
    /\ goal \in Nat \cup {None} /\ progress \in SavedProgress /\ saving \in SavedProgress \cup {None}
    /\ place \in PlaceType

\* What is drawn is where the reader was sent, or where the reading was left: after a turn, a link, a
\* bookmark, a chapter, a change of layout, closing, or a loss of power once the progress is on the card.
KeepsPlace == [][Draw /\ place.by \in {"promised", "shown"} => OnPage(place)]_vars

\* renderBook(): a page is never drawn from a section file laid out for other settings.
LayoutIsCurrent == rpc = "load" => PageLayout(cp) \in {layout, None}

\* renderBook() comes to its end: neither loop that builds a missing page runs for ever.
RenderEnds == rpc # "idle" ~> rpc = "idle"
=============================================================================
