----------------------------- MODULE SectionCache -----------------------------
(***************************************************************************)
(* The laid-out pages of a book's spine items, kept on the card            *)
(* (lib/Epub/Epub/Section.cpp): one file per spine item, for one layout,   *)
(* whole or with the first pages only.  A build writes a temporary file    *)
(* that takes the file's place when it is complete or suspended.           *)
(*                                                                         *)
(* Text is counted in units; a layout is known by the units it puts on a   *)
(* page.  The temporary file means nothing after a reset: startBuild()     *)
(* removes it.                                                             *)
(***************************************************************************)
EXTENDS Integers

CONSTANTS
    SpineCount,   \* number of spine items
    Length,       \* Length[s]: units of visible text in spine item s
    Layout,       \* what ReaderRenderSpec can be
    PerPage,      \* PerPage[l]: units on a page in layout l
    None

Spine == 0 .. SpineCount - 1

ASSUME BookAssumption == SpineCount \in Nat \ {0} /\ Length \in [Spine -> Nat]
ASSUME LayoutAssumption == PerPage \in [Layout -> Nat \ {0}] /\ None \notin Layout
ASSUME NoneAssumption == None \notin Int

Pages(s, l) == (Length[s] + PerPage[l] - 1) \div PerPage[l]
PageOf(o, l) == o \div PerPage[l]
StartOf(p, l) == p * PerPage[l]

VARIABLES
    bin,       \* bin[s]: the section file of spine item s
    section    \* the Section object of the reader

NoFile == [layout |-> None, pages |-> 0, whole |-> FALSE]
NoSection == [spine |-> None, currentPage |-> 0, pageCount |-> 0, partialPages |-> 0,
              build |-> None, built |-> 0, complete |-> FALSE]

\* partialPages is 0 unless isPartial(); build is the layout of the build under way.
IsPartial == section.partialPages > 0
IsBuilding == section.build # None
Least(a, b) == IF a < b THEN a ELSE b
Greatest(a, b) == IF a > b THEN a ELSE b

Remove(s) == bin' = [bin EXCEPT ![s] = NoFile]
-----------------------------------------------------------------------------
MatchesAny(s, l) == bin[s].layout # None   \* faulty: the layout is not compared

\* What is on the card is of use only in the layout asked for.
Matches(s, l) == bin[s].layout = l

Opened(s, file) == [NoSection EXCEPT !.spine = s, !.pageCount = file.pages,
                                     !.partialPages = IF file.whole THEN 0 ELSE file.pages]
LoadSectionFile(s, l) ==
    IF Matches(s, l)
    THEN /\ section' = Opened(s, bin[s])
         /\ UNCHANGED bin
    ELSE /\ section' = [NoSection EXCEPT !.spine = s]
         /\ Remove(s)

\* The pages of a partial file stay readable while the build lays them out again.
StartBuild(l) ==
    /\ section' = [section EXCEPT !.build = l, !.built = 0, !.complete = FALSE,
                                  !.pageCount = section.partialPages]
    /\ UNCHANGED bin

\* No HTML, no memory; or the parser does not start, and abandonBuild() drops the file.
StartBuildFails ==
    /\ ~IsBuilding
    /\ \/ /\ section' = [section EXCEPT !.complete = FALSE, !.built = 0, !.pageCount = section.partialPages]
          /\ UNCHANGED bin
       \/ /\ section' = [section EXCEPT !.complete = FALSE, !.built = 0, !.pageCount = 0, !.partialPages = 0]
          /\ Remove(section.spine)

\* onPageComplete()
PageLaidOut ==
    /\ IsBuilding /\ section.built + 1 < Pages(section.spine, section.build)
    /\ section' = [section EXCEPT !.built = @ + 1, !.pageCount = Greatest(@, section.built + 1)]
    /\ UNCHANGED bin

EndedUnread(count) == [section EXCEPT !.build = None, !.built = count, !.pageCount = count,
                                      !.complete = TRUE]             \* faulty: the watermark stays
EndedPartial(count) == [section EXCEPT !.build = None, !.built = count, !.pageCount = count,
                                       !.partialPages = count, !.complete = TRUE]   \* faulty: still partial
Ended(count) == [section EXCEPT !.build = None, !.built = count, !.pageCount = count,
                                !.partialPages = 0, !.complete = TRUE]

\* finalizeBuild(): the text is parsed to its end and the trailing page is laid out.
BuildCompletes ==
    /\ IsBuilding /\ section.built + 1 >= Pages(section.spine, section.build)
    /\ bin' = [bin EXCEPT ![section.spine] = [layout |-> section.build, whole |-> TRUE,
                                              pages |-> Pages(section.spine, section.build)]]
    /\ section' = Ended(Pages(section.spine, section.build))

\* buildSomeMore()
BuildSomeMore == PageLaidOut \/ BuildCompletes

\* startBuild() or buildSomeMore() returns false and the caller lets the section go.  The file is kept
\* (no HTML, no memory, a page that was not written), or gone (a parse error, the swap).
BuildFails ==
    /\ section' = NoSection
    /\ \/ UNCHANGED bin
       \/ Remove(section.spine)

WorthKeepingAny == section.built > 0       \* faulty: not compared with the partial file

\* suspendBuild(): fewer pages never replace more of them.
WorthKeeping == section.built > 0 /\ section.built > section.partialPages

Suspended == [layout |-> section.build, pages |-> section.built, whole |-> FALSE]

\* ~Section(); committing what was built may fail.
ResetSection ==
    /\ section' = NoSection
    /\ IF IsBuilding /\ WorthKeeping
       THEN bin' \in {bin, [bin EXCEPT ![section.spine] = NoFile], [bin EXCEPT ![section.spine] = Suspended]}
       ELSE UNCHANGED bin

\* clearCache() after abandonBuild(), and the object goes.
DiscardSection == section' = NoSection /\ Remove(section.spine)

\* RAM is lost, perhaps between the removal of the old file and the renaming of the new one.
SectionLost ==
    /\ section' = NoSection
    /\ \/ UNCHANGED bin
       \/ IsBuilding /\ Remove(section.spine)
-----------------------------------------------------------------------------
(* What the open section answers.                                          *)

Unlaid(p) == p >= (IF IsPartial THEN section.partialPages ELSE IF IsBuilding THEN 0 ELSE section.pageCount)

\* loadPage(): the layout page p is read in, or None.  The build comes first, then the file.
PageLayout(p) == IF IsBuilding /\ p < section.built THEN section.build
                 ELSE IF Unlaid(p) \/ p >= bin[section.spine].pages THEN None
                 ELSE bin[section.spine].layout

\* getVisibleTextOffsetForPage()
OffsetOfPage(p) == IF IsBuilding /\ p < section.built THEN StartOf(p, section.build)
                   ELSE LET f == bin[section.spine] IN
                        IF p < f.pages THEN StartOf(p, f.layout) ELSE None

\* getPageForVisibleTextOffset(): beyond the last page a partial file has, it does not say.
PageForOffset(o) ==
    IF IsBuilding /\ section.built > 0 /\ o <= StartOf(section.built - 1, section.build)
    THEN PageOf(o, section.build)
    ELSE LET f == bin[section.spine] IN
         IF f.pages = 0 \/ (~f.whole /\ o > StartOf(f.pages - 1, f.layout)) THEN None
         ELSE Least(PageOf(o, f.layout), f.pages - 1)

\* buildReachedVisibleTextOffset()
ReachedOffset(o) == IsBuilding /\ section.built > 0 /\ o <= StartOf(section.built - 1, section.build)

\* findAnchor(): in the build, then in the file.  An anchor is the unit it stands before; there may be none.
AnchorOnCard(a) == LET f == bin[section.spine] IN
                   IF a < Length[section.spine] /\ f.layout # None /\ PageOf(a, f.layout) < f.pages
                   THEN PageOf(a, f.layout) ELSE None
FindAnchor(a) == IF IsBuilding /\ a < StartOf(section.built, section.build) THEN PageOf(a, section.build)
                 ELSE AnchorOnCard(a)
-----------------------------------------------------------------------------
File == [layout : Layout \cup {None}, pages : Nat, whole : BOOLEAN]
SectionType == [spine : Spine \cup {None}, currentPage : Int, pageCount : Nat, partialPages : Nat,
                build : Layout \cup {None}, built : Nat, complete : BOOLEAN]
SectionTypeOK == bin \in [Spine -> File] /\ section \in SectionType

\* Every page the reader is told of can be read, from the build or the card, and all in one layout.
PagesAreReadable == section.spine # None =>
    \A p \in 0 .. section.pageCount - 1 : \A q \in 0 .. p :
        PageLayout(p) # None /\ PageLayout(q) = PageLayout(p)

\* Pages on the card are given up only for more of them, for another layout, or for none: a shorter
\* build never takes the place of a longer one.
CoverageGrows == [][\A s \in Spine : bin'[s].layout = bin[s].layout /\ bin[s].layout # None
                        => bin'[s].pages >= bin[s].pages /\ (bin[s].whole => bin'[s].whole)]_<<bin, section>>
=============================================================================
