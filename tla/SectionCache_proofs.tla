------------------------- MODULE SectionCache_proofs -------------------------
(***************************************************************************)
(* The section file and the Section object, for any book and any layouts:  *)
(* what each operation of Section makes of the two.                        *)
(***************************************************************************)
EXTENDS SectionCache, TLAPS

USE BookAssumption, LayoutAssumption, NoneAssumption

-----------------------------------------------------------------------------
(* Pages, units and offsets.                                               *)

LEMMA QuotientIsNat ==
    ASSUME NEW a \in Nat, NEW d \in Nat \ {0}
    PROVE  a \div d \in Nat /\ d * (a \div d) <= a /\ a < d * (a \div d) + d
OBVIOUS

LEMMA ProductIsNat ==
    ASSUME NEW a \in Nat, NEW b \in Nat
    PROVE  a * b \in Nat
OBVIOUS

LEMMA PageNumbers ==
    ASSUME NEW l \in Layout
    PROVE  /\ \A s \in Spine : Pages(s, l) \in Nat
           /\ \A o \in Nat : PageOf(o, l) \in Nat
           /\ \A p \in Nat : StartOf(p, l) \in Nat
<1>1. PerPage[l] \in Nat \ {0}
  OBVIOUS
<1>2. ASSUME NEW s \in Spine PROVE Pages(s, l) \in Nat
  <2>1. Length[s] + PerPage[l] - 1 \in Nat
    BY <1>1
  <2> QED  BY <1>1, <2>1, QuotientIsNat DEF Pages
<1>3. ASSUME NEW o \in Nat PROVE PageOf(o, l) \in Nat
  BY <1>1, QuotientIsNat DEF PageOf
<1>4. ASSUME NEW p \in Nat PROVE StartOf(p, l) \in Nat
  BY <1>1, ProductIsNat DEF StartOf
<1> QED  BY <1>2, <1>3, <1>4

LEMMA LeastIsNat ==
    ASSUME NEW a \in Nat, NEW b \in Nat
    PROVE  /\ Least(a, b) \in Nat /\ Least(a, b) <= a /\ Least(a, b) <= b
           /\ Greatest(a, b) \in Nat /\ a <= Greatest(a, b) /\ b <= Greatest(a, b)
BY DEF Least, Greatest

-----------------------------------------------------------------------------
(* The invariant, of the files b, the section x and the layout l that the  *)
(* settings ask for.                                                       *)

\* A file has no more pages than its text needs.
FileFits(s, f) == IF f.layout = None THEN f = NoFile ELSE f.pages <= Pages(s, f.layout)

\* While nothing is built, the section is as its file says; a build leaves the file as it is, and
\* the pages it can answer for are those of the file and its own.
SectionFits(x, f, l) ==
    /\ f.layout \in {l, None} /\ x.build \in {l, None}
    /\ x.build = None => x.pageCount = f.pages /\ x.partialPages = IF f.whole THEN 0 ELSE f.pages
    /\ x.build # None => /\ ~f.whole /\ x.partialPages = f.pages /\ x.built <= Pages(x.spine, l)
                         /\ x.pageCount = Greatest(x.partialPages, x.built)

FilesFit(b) == b \in [Spine -> File] /\ \A s \in Spine : FileFits(s, b[s])

CacheFits(b, x, l) ==
    /\ FilesFit(b)
    /\ x \in SectionType
    /\ IF x.spine = None THEN x = NoSection ELSE SectionFits(x, b[x.spine], l)

\* What CoverageGrows says of a step.
Grows == \A s \in Spine : bin'[s].layout = bin[s].layout /\ bin[s].layout # None
                              => bin'[s].pages >= bin[s].pages /\ (bin[s].whole => bin'[s].whole)

LEMMA NoFileFits == NoFile \in File /\ \A s : FileFits(s, NoFile)
BY DEF NoFile, File, FileFits

LEMMA NoSectionFits ==
    /\ NoSection \in SectionType /\ NoSection.spine = None /\ NoSection.build = None
    /\ NoSection.currentPage = 0 /\ NoSection.pageCount = 0 /\ NoSection.partialPages = 0
    /\ \A b, l : FilesFit(b) => CacheFits(b, NoSection, l)
<1>1. /\ NoSection \in SectionType /\ NoSection.spine = None /\ NoSection.build = None
      /\ NoSection.currentPage = 0 /\ NoSection.pageCount = 0 /\ NoSection.partialPages = 0
  BY DEF NoSection, SectionType
<1> QED  BY <1>1 DEF CacheFits

LEMMA CacheFacts ==
    ASSUME NEW l \in Layout, CacheFits(bin, section, l)
    PROVE  /\ FilesFit(bin) /\ section \in SectionType
           /\ section.spine = None => section = NoSection
           /\ section.spine # None =>
                /\ section.spine \in Spine /\ bin[section.spine] \in File
                /\ SectionFits(section, bin[section.spine], l) /\ Pages(section.spine, l) \in Nat
BY PageNumbers DEF CacheFits, FilesFit, SectionType

\* A file is written, or removed.
LEMMA FileWritten ==
    ASSUME FilesFit(bin), NEW s \in Spine, NEW f \in File, FileFits(s, f), bin' = [bin EXCEPT ![s] = f]
    PROVE  FilesFit(bin') /\ bin'[s] = f /\ \A t \in Spine : t # s => bin'[t] = bin[t]
BY DEF FilesFit

LEMMA FileRemoved ==
    ASSUME FilesFit(bin), NEW s \in Spine \cup {None}, Remove(s)
    PROVE  /\ FilesFit(bin') /\ Grows
           /\ s # None => bin'[s] = NoFile
<1>1. CASE s \in Spine
  <2>1. FilesFit(bin') /\ bin'[s] = NoFile /\ \A t \in Spine : t # s => bin'[t] = bin[t]
    BY <1>1, NoFileFits, FileWritten DEF Remove
  <2>2. NoFile.layout = None
    BY DEF NoFile
  <2>3. Grows
    BY <2>1, <2>2 DEF Grows, FilesFit, File
  <2> QED  BY <2>1, <2>3
<1>2. CASE s \notin Spine
  <2>1. bin' = bin
    BY <1>2 DEF Remove, FilesFit
  <2>2. Grows
    BY <2>1 DEF Grows, FilesFit, File
  <2> QED  BY <1>2, <2>1, <2>2
<1> QED  BY <1>1, <1>2

LEMMA FilesKept == FilesFit(bin) /\ UNCHANGED bin => FilesFit(bin') /\ Grows
<1> SUFFICES ASSUME FilesFit(bin), UNCHANGED bin PROVE FilesFit(bin') /\ Grows
  OBVIOUS
<1>1. \A s \in Spine : bin[s].pages \in Nat
  BY DEF FilesFit, File
<1> QED  BY <1>1 DEF Grows

-----------------------------------------------------------------------------
(* The operations.                                                         *)

\* The page number is free: nothing here depends on it.
LEMMA PageChosen ==
    ASSUME NEW l \in Layout, CacheFits(bin, section, l), section.spine # None, NEW p \in Int,
           section' = [section EXCEPT !.currentPage = p], UNCHANGED bin
    PROVE  CacheFits(bin', section', l) /\ Grows
<1>1. /\ section' \in SectionType /\ section'.spine = section.spine /\ section'.build = section.build
      /\ section'.built = section.built /\ section'.pageCount = section.pageCount
      /\ section'.partialPages = section.partialPages
  BY DEF CacheFits, SectionType
<1>2. SectionFits(section', bin'[section'.spine], l)
  BY <1>1, CacheFacts DEF SectionFits
<1> QED  BY <1>1, <1>2, FilesKept DEF CacheFits

LEMMA SectionOpened ==
    ASSUME NEW l \in Layout, FilesFit(bin), NEW s \in Spine, LoadSectionFile(s, l)
    PROVE  CacheFits(bin', section', l) /\ Grows /\ section'.spine = s /\ section'.build = None
           /\ section'.currentPage = 0
<1>1. bin[s] \in File /\ s # None
  BY DEF FilesFit, Spine
<1>2. CASE Matches(s, l)
  <2>1. section' = Opened(s, bin[s]) /\ UNCHANGED bin
    BY <1>2 DEF LoadSectionFile
  <2>2. /\ section' \in SectionType /\ section'.spine = s /\ section'.build = None /\ section'.currentPage = 0
        /\ section'.pageCount = bin[s].pages
        /\ section'.partialPages = IF bin[s].whole THEN 0 ELSE bin[s].pages
    <3> DEFINE n == bin[s].pages
               k == IF bin[s].whole THEN 0 ELSE bin[s].pages
    <3>1. section' = [NoSection EXCEPT !.spine = s, !.pageCount = n, !.partialPages = k]
      BY <2>1 DEF Opened
    <3>2. n \in Nat /\ k \in Nat
      BY <1>1 DEF File
    <3> HIDE DEF n, k
    <3>3. /\ section' \in SectionType /\ section'.spine = s /\ section'.build = None /\ section'.currentPage = 0
          /\ section'.pageCount = n /\ section'.partialPages = k
      BY <3>1, <3>2, NoSectionFits DEF SectionType
    <3> QED  BY <3>3 DEF n, k
  <2>3. SectionFits(section', bin'[s], l)
    BY <1>2, <2>1, <2>2 DEF SectionFits, Matches
  <2> QED  BY <1>1, <2>1, <2>2, <2>3, FilesKept DEF CacheFits
<1>3. CASE ~Matches(s, l)
  <2>1. section' = [NoSection EXCEPT !.spine = s] /\ Remove(s)
    BY <1>3 DEF LoadSectionFile
  <2>2. /\ section' \in SectionType /\ section'.spine = s /\ section'.build = None /\ section'.currentPage = 0
        /\ section'.pageCount = 0 /\ section'.partialPages = 0
    BY <2>1, NoSectionFits DEF SectionType
  <2>3. FilesFit(bin') /\ Grows /\ bin'[s] = NoFile
    BY <1>1, <2>1, FileRemoved
  <2>4. SectionFits(section', bin'[s], l)
    BY <2>2, <2>3 DEF SectionFits, NoFile
  <2> QED  BY <1>1, <2>2, <2>3, <2>4 DEF CacheFits
<1> QED  BY <1>2, <1>3

LEMMA BuildStarted ==
    ASSUME NEW l \in Layout, CacheFits(bin, section, l), section.spine # None, section.build = None,
           ~bin[section.spine].whole, StartBuild(l)
    PROVE  CacheFits(bin', section', l) /\ Grows /\ section'.currentPage = section.currentPage
<1>1. /\ section \in SectionType /\ section.spine \in Spine /\ FilesFit(bin)
      /\ bin[section.spine] \in File /\ SectionFits(section, bin[section.spine], l)
      /\ Pages(section.spine, l) \in Nat
  BY CacheFacts
<1>2. /\ section' = [section EXCEPT !.build = l, !.built = 0, !.complete = FALSE,
                                    !.pageCount = section.partialPages]
      /\ UNCHANGED bin
  BY DEF StartBuild
<1>3. /\ section' \in SectionType /\ section'.spine = section.spine /\ section'.build = l
      /\ section'.built = 0 /\ section'.pageCount = section.partialPages
      /\ section'.partialPages = section.partialPages /\ section'.currentPage = section.currentPage
  BY <1>1, <1>2 DEF SectionType
<1>4. section.partialPages \in Nat /\ section.partialPages = bin[section.spine].pages
  BY <1>1 DEF SectionFits, SectionType
<1>5. SectionFits(section', bin'[section'.spine], l)
  BY <1>1, <1>2, <1>3, <1>4 DEF SectionFits, Greatest
<1> QED  BY <1>1, <1>2, <1>3, <1>5, FilesKept DEF CacheFits

\* startBuild() fails where the section goes on with what its partial file has.
LEMMA BuildNotStarted ==
    ASSUME NEW l \in Layout, CacheFits(bin, section, l), IsPartial, StartBuildFails
    PROVE  CacheFits(bin', section', l) /\ Grows /\ section'.currentPage = section.currentPage
<1>1. section.spine # None /\ section.build = None
  BY CacheFacts DEF IsPartial, StartBuildFails, IsBuilding, NoSection
<1>2. /\ section \in SectionType /\ section.spine \in Spine /\ FilesFit(bin)
      /\ bin[section.spine] \in File /\ SectionFits(section, bin[section.spine], l)
      /\ section.partialPages \in Nat
  BY <1>1, CacheFacts DEF SectionType
<1>3. ~bin[section.spine].whole /\ section.partialPages = bin[section.spine].pages
  BY <1>1, <1>2 DEF SectionFits, IsPartial
<1>4. CASE /\ section' = [section EXCEPT !.complete = FALSE, !.built = 0, !.pageCount = section.partialPages]
           /\ UNCHANGED bin
  <2>1. /\ section' \in SectionType /\ section'.spine = section.spine /\ section'.build = None
        /\ section'.pageCount = section.partialPages /\ section'.partialPages = section.partialPages
        /\ section'.currentPage = section.currentPage
    BY <1>1, <1>2, <1>4 DEF SectionType
  <2>2. SectionFits(section', bin'[section'.spine], l)
    BY <1>2, <1>3, <1>4, <2>1 DEF SectionFits
  <2> QED  BY <1>1, <1>2, <1>4, <2>1, <2>2, FilesKept DEF CacheFits
<1>5. CASE /\ section' = [section EXCEPT !.complete = FALSE, !.built = 0, !.pageCount = 0, !.partialPages = 0]
           /\ Remove(section.spine)
  <2>1. /\ section' \in SectionType /\ section'.spine = section.spine /\ section'.build = None
        /\ section'.pageCount = 0 /\ section'.partialPages = 0
        /\ section'.currentPage = section.currentPage
    BY <1>1, <1>2, <1>5 DEF SectionType
  <2>2. FilesFit(bin') /\ Grows /\ bin'[section.spine] = NoFile
    BY <1>1, <1>2, <1>5, FileRemoved
  <2>3. SectionFits(section', bin'[section'.spine], l)
    BY <2>1, <2>2 DEF SectionFits, NoFile
  <2> QED  BY <1>1, <2>1, <2>2, <2>3 DEF CacheFits
<1> QED  BY <1>4, <1>5 DEF StartBuildFails

LEMMA BuildingFacts ==
    ASSUME NEW l \in Layout, CacheFits(bin, section, l), IsBuilding
    PROVE  /\ section \in SectionType /\ section.spine \in Spine /\ FilesFit(bin) /\ section.build = l
           /\ bin[section.spine] \in File /\ Pages(section.spine, l) \in Nat
           /\ bin[section.spine].layout \in {l, None} /\ ~bin[section.spine].whole
           /\ section.partialPages = bin[section.spine].pages
           /\ section.pageCount = Greatest(section.partialPages, section.built)
           /\ section.built \in Nat /\ section.partialPages \in Nat
           /\ section.built <= Pages(section.spine, l)
<1>1. section.spine # None
  BY CacheFacts DEF IsBuilding, NoSection
<1> QED  BY <1>1, CacheFacts DEF SectionFits, IsBuilding, SectionType

LEMMA PageAdded ==
    ASSUME NEW l \in Layout, CacheFits(bin, section, l), PageLaidOut
    PROVE  CacheFits(bin', section', l) /\ Grows /\ section'.currentPage = section.currentPage
<1> DEFINE built == section.built + 1
           count == Greatest(section.pageCount, built)
<1>1. /\ IsBuilding /\ section.built + 1 < Pages(section.spine, section.build)
      /\ section' = [section EXCEPT !.built = built, !.pageCount = count] /\ UNCHANGED bin
  BY DEF PageLaidOut
<1>2. section.spine # None
  BY <1>1, BuildingFacts DEF Spine
<1>3. built \in Nat /\ count \in Nat /\ built <= Pages(section.spine, l)
      /\ count = Greatest(section.partialPages, built)
  BY <1>1, BuildingFacts DEF Greatest
<1> HIDE DEF built, count
<1>4. /\ section' \in SectionType /\ section'.spine = section.spine /\ section'.build = l
      /\ section'.built = built /\ section'.pageCount = count
      /\ section'.partialPages = section.partialPages /\ section'.currentPage = section.currentPage
  BY <1>1, <1>3, BuildingFacts DEF SectionType
<1>5. SectionFits(section', bin'[section'.spine], l)
  BY <1>1, <1>3, <1>4, BuildingFacts DEF SectionFits
<1> QED  BY <1>1, <1>2, <1>4, <1>5, BuildingFacts, FilesKept DEF CacheFits

LEMMA BuildCompleted ==
    ASSUME NEW l \in Layout, CacheFits(bin, section, l), BuildCompletes
    PROVE  CacheFits(bin', section', l) /\ Grows /\ section'.currentPage = section.currentPage
<1> DEFINE s == section.spine
           n == Pages(s, l)
           f == [layout |-> l, whole |-> TRUE, pages |-> n]
<1>1. IsBuilding
  BY DEF BuildCompletes
<1>2. s \in Spine /\ s # None /\ n \in Nat /\ FilesFit(bin) /\ section \in SectionType /\ section.build = l
  BY <1>1, BuildingFacts DEF Spine
<1>3. bin' = [bin EXCEPT ![s] = f] /\ section' = Ended(n)
  BY <1>2 DEF BuildCompletes
<1>4. f \in File /\ FileFits(s, f)
  BY <1>2 DEF File, FileFits
<1>5. FilesFit(bin') /\ bin'[s] = f /\ \A t \in Spine : t # s => bin'[t] = bin[t]
  BY <1>2, <1>3, <1>4, FileWritten
<1>6. /\ section' \in SectionType /\ section'.spine = s /\ section'.build = None
      /\ section'.pageCount = n /\ section'.partialPages = 0 /\ section'.currentPage = section.currentPage
  <2> HIDE DEF n
  <2> QED  BY <1>2, <1>3 DEF Ended, SectionType
<1>7. CacheFits(bin', section', l)
  <2> HIDE DEF n
  <2>1. SectionFits(section', bin'[section'.spine], l)
    BY <1>5, <1>6 DEF SectionFits
  <2> QED  BY <1>2, <1>5, <1>6, <2>1 DEF CacheFits
<1>8. Grows
  <2>1. ASSUME NEW t \in Spine, bin'[t].layout = bin[t].layout, bin[t].layout # None
        PROVE  bin'[t].pages >= bin[t].pages /\ (bin[t].whole => bin'[t].whole)
    <3>1. bin[t].pages \in Nat
      BY <1>2 DEF FilesFit, File
    <3>2. CASE t = s
      <4>1. FileFits(s, bin[s]) /\ bin[s].layout = l
        BY <1>2, <1>5, <2>1, <3>2 DEF FilesFit
      <4>2. bin[s].pages <= n
        BY <2>1, <3>2, <4>1 DEF FileFits
      <4>3. bin'[s].pages = n /\ bin'[s].whole
        BY <1>5
      <4> QED  BY <1>2, <3>1, <3>2, <4>2, <4>3
    <3>3. CASE t # s
      BY <1>5, <3>1, <3>3
    <3> QED  BY <3>2, <3>3
  <2> QED  BY <2>1 DEF Grows
<1> QED  BY <1>6, <1>7, <1>8

LEMMA MoreBuilt ==
    ASSUME NEW l \in Layout, CacheFits(bin, section, l), BuildSomeMore
    PROVE  CacheFits(bin', section', l) /\ Grows /\ section'.currentPage = section.currentPage
BY PageAdded, BuildCompleted DEF BuildSomeMore

LEMMA SpineOfSection == section \in SectionType => section.spine \in Spine \cup {None}
BY DEF SectionType

LEMMA BuildGivenUp ==
    ASSUME NEW l \in Layout, CacheFits(bin, section, l), BuildFails
    PROVE  FilesFit(bin') /\ Grows /\ section' = NoSection
BY CacheFacts, SpineOfSection, FilesKept, FileRemoved DEF BuildFails

LEMMA SectionDiscarded ==
    ASSUME NEW l \in Layout, CacheFits(bin, section, l), DiscardSection
    PROVE  FilesFit(bin') /\ Grows /\ section' = NoSection
BY CacheFacts, SpineOfSection, FileRemoved DEF DiscardSection

LEMMA RamLost ==
    ASSUME NEW l \in Layout, CacheFits(bin, section, l), SectionLost
    PROVE  FilesFit(bin') /\ Grows /\ section' = NoSection
BY CacheFacts, SpineOfSection, FilesKept, FileRemoved DEF SectionLost

\* suspendBuild(): what takes the file's place has more pages than it.
LEMMA SectionReset ==
    ASSUME NEW l \in Layout, CacheFits(bin, section, l), ResetSection
    PROVE  FilesFit(bin') /\ Grows /\ section' = NoSection
<1>1. section' = NoSection /\ FilesFit(bin)
  BY CacheFacts DEF ResetSection
<1>2. CASE UNCHANGED bin
  BY <1>1, <1>2, FilesKept
<1>3. CASE bin' # bin
  <2> DEFINE s == section.spine
             f == Suspended
  <2>1. IsBuilding /\ WorthKeeping /\ (Remove(s) \/ bin' = [bin EXCEPT ![s] = f])
    BY <1>3 DEF ResetSection, Remove
  <2>2. s \in Spine /\ bin[s] \in File /\ ~bin[s].whole /\ section.partialPages = bin[s].pages
        /\ section.built \in Nat /\ section.build = l /\ section.built <= Pages(s, l)
    BY <2>1, BuildingFacts
  <2>3. CASE Remove(s)
    BY <1>1, <2>2, <2>3, FileRemoved
  <2>4. CASE bin' = [bin EXCEPT ![s] = f]
    <3>1. f \in File /\ f.layout = l /\ f.pages = section.built /\ ~f.whole
      BY <2>2 DEF Suspended, File
    <3>2. FileFits(s, f)
      BY <2>2, <3>1 DEF FileFits
    <3>3. FilesFit(bin') /\ bin'[s] = f /\ \A t \in Spine : t # s => bin'[t] = bin[t]
      BY <1>1, <2>2, <2>4, <3>1, <3>2, FileWritten
    <3>4. bin'[s].pages >= bin[s].pages
      BY <2>1, <2>2, <3>1, <3>3 DEF WorthKeeping, File
    <3>5. \A t \in Spine : bin[t].pages \in Nat
      BY <1>1 DEF FilesFit, File
    <3>6. Grows
      BY <2>2, <3>3, <3>4, <3>5 DEF Grows
    <3> QED  BY <1>1, <3>3, <3>6
  <2> QED  BY <2>1, <2>3, <2>4
<1> QED  BY <1>2, <1>3

-----------------------------------------------------------------------------
(* What the open section answers.                                          *)

\* A page that is read in is in the layout of the settings, and no section answers for nothing.
LEMMA PagesAreCurrent ==
    ASSUME NEW l \in Layout, CacheFits(bin, section, l), NEW p \in Nat
    PROVE  PageLayout(p) \in {l, None} /\ (PageLayout(p) # None => section.spine \in Spine)
<1>1. CASE section.spine = None
  <2>1. section = NoSection
    BY <1>1, CacheFacts
  <2>2. ~IsBuilding /\ Unlaid(p)
    BY <2>1, NoSectionFits DEF IsBuilding, Unlaid, IsPartial
  <2> QED  BY <2>2 DEF PageLayout
<1>2. CASE section.spine # None
  BY <1>2, CacheFacts DEF PageLayout, SectionFits, IsBuilding
<1> QED  BY <1>1, <1>2

LEMMA PagesAreThere ==
    ASSUME NEW l \in Layout, CacheFits(bin, section, l), section.spine # None,
           NEW p \in Nat, p < section.pageCount
    PROVE  PageLayout(p) = l
<1>1. /\ section.spine \in Spine /\ bin[section.spine] \in File /\ section \in SectionType
      /\ SectionFits(section, bin[section.spine], l) /\ FileFits(section.spine, bin[section.spine])
  BY CacheFacts DEF FilesFit
<1>2. bin[section.spine].pages \in Nat /\ section.partialPages \in Nat /\ section.built \in Nat
      /\ section.pageCount \in Nat
  BY <1>1 DEF File, SectionType
<1>3. bin[section.spine].pages > 0 => bin[section.spine].layout = l
  BY <1>1 DEF FileFits, NoFile, SectionFits
<1>4. CASE IsBuilding
  BY <1>1, <1>2, <1>3, <1>4 DEF PageLayout, Unlaid, IsPartial, IsBuilding, SectionFits, Greatest
<1>5. CASE ~IsBuilding
  BY <1>1, <1>2, <1>3, <1>5 DEF PageLayout, Unlaid, IsPartial, IsBuilding, SectionFits
<1> QED  BY <1>4, <1>5

\* Section promises no page that cannot be read, whatever is being built.
LEMMA Readable ==
    ASSUME NEW l \in Layout, CacheFits(bin, section, l)
    PROVE  PagesAreReadable
<1> SUFFICES ASSUME section.spine # None, NEW p \in 0 .. section.pageCount - 1, NEW q \in 0 .. p
             PROVE  PageLayout(p) # None /\ PageLayout(q) = PageLayout(p)
  BY DEF PagesAreReadable
<1>1. section.pageCount \in Nat
  BY CacheFacts DEF SectionType
<1>2. p \in Nat /\ q \in Nat /\ p < section.pageCount /\ q < section.pageCount
  BY <1>1
<1>3. PageLayout(p) = l /\ PageLayout(q) = l
  BY <1>2, PagesAreThere
<1> QED  BY <1>3

\* A page number is a number, and so is an offset.
LEMMA AnswersAreNumbers ==
    ASSUME NEW l \in Layout, CacheFits(bin, section, l), section.spine # None
    PROVE  /\ \A p \in Nat : OffsetOfPage(p) \in Nat \cup {None}
           /\ \A o \in Nat : PageForOffset(o) \in Nat \cup {None} /\ FindAnchor(o) \in Nat \cup {None}
           /\ \A p \in Nat : PageLayout(p) # None => StartOf(p, PageLayout(p)) \in Nat
<1> DEFINE f == bin[section.spine]
<1>1. /\ section.spine \in Spine /\ f \in File /\ section.build \in {l, None}
      /\ f.layout \in {l, None} /\ f.pages \in Nat /\ (f.pages > 0 => f.layout = l)
  BY CacheFacts DEF FilesFit, FileFits, NoFile, SectionFits, File
<1>2. ASSUME NEW p \in Nat PROVE OffsetOfPage(p) \in Nat \cup {None}
  <2>1. p < f.pages => f.layout = l
    BY <1>1
  <2> HIDE DEF f
  <2> QED  BY <1>1, <2>1, PageNumbers DEF OffsetOfPage, IsBuilding, f
<1>3. ASSUME NEW o \in Nat PROVE PageForOffset(o) \in Nat \cup {None}
  <2>1. PageOf(o, l) \in Nat
    BY PageNumbers
  <2>2. CASE IsBuilding /\ section.built > 0 /\ o <= StartOf(section.built - 1, section.build)
    BY <1>1, <2>1, <2>2 DEF PageForOffset, IsBuilding
  <2>3. CASE ~(IsBuilding /\ section.built > 0 /\ o <= StartOf(section.built - 1, section.build))
    <3>1. PageForOffset(o) = IF f.pages = 0 \/ (~f.whole /\ o > StartOf(f.pages - 1, f.layout)) THEN None
                             ELSE Least(PageOf(o, f.layout), f.pages - 1)
      BY <2>3 DEF PageForOffset
    <3>2. CASE f.pages = 0
      BY <3>1, <3>2
    <3>3. CASE f.pages # 0
      <4>1. f.layout = l /\ f.pages - 1 \in Nat
        BY <1>1, <3>3
      <4>2. Least(PageOf(o, f.layout), f.pages - 1) \in Nat
        BY <2>1, <4>1, LeastIsNat
      <4> QED  BY <3>1, <4>2
    <3> QED  BY <3>2, <3>3
  <2> QED  BY <2>2, <2>3
<1>4. ASSUME NEW o \in Nat PROVE FindAnchor(o) \in Nat \cup {None}
  <2>1. PageOf(o, l) \in Nat
    BY PageNumbers
  <2>2. AnchorOnCard(o) \in Nat \cup {None}
    BY <1>1, <2>1 DEF AnchorOnCard
  <2> QED  BY <1>1, <2>1, <2>2 DEF FindAnchor, IsBuilding
<1>5. ASSUME NEW p \in Nat, PageLayout(p) # None PROVE StartOf(p, PageLayout(p)) \in Nat
  BY <1>5, PagesAreCurrent, PageNumbers
<1> QED  BY <1>2, <1>3, <1>4, <1>5

-----------------------------------------------------------------------------
(* Pages and the text: every unit is on one page, and every page but the   *)
(* last is full.                                                           *)

LEMMA QuotientIs ==
    ASSUME NEW a \in Nat, NEW d \in Nat \ {0}, NEW q \in Nat, d * q <= a, a < d * q + d
    PROVE  a \div d = q
OBVIOUS

LEMMA ProductGrows ==
    ASSUME NEW d \in Nat, NEW a \in Nat, NEW b \in Nat, a <= b
    PROVE  d * a <= d * b
<1>1. PICK c \in Nat : b = a + c
  <2>1. b - a \in Nat /\ b = a + (b - a)
    OBVIOUS
  <2> QED  BY <2>1
<1>2. d * b = d * a + d * c
  BY <1>1
<1>3. d * c \in Nat /\ d * a \in Nat
  BY ProductIsNat
<1> QED  BY <1>2, <1>3

\* The last page is the one with the last unit.
LEMMA LastPage ==
    ASSUME NEW s \in Spine, NEW l \in Layout, Length[s] > 0
    PROVE  /\ Pages(s, l) \in Nat \ {0} /\ Length[s] \in Nat
           /\ StartOf(Pages(s, l) - 1, l) < Length[s] /\ Length[s] <= StartOf(Pages(s, l), l)
<1> DEFINE n == Length[s]
           d == PerPage[l]
           N == Pages(s, l)
<1>1. n \in Nat \ {0} /\ d \in Nat \ {0} /\ N \in Nat
  BY PageNumbers
<1>2. N = (n + d - 1) \div d
  BY DEF Pages
<1>3. n + d - 1 \in Nat
  BY <1>1
<1>4. d * N <= n + d - 1 /\ n + d - 1 < d * N + d
  BY <1>1, <1>2, <1>3, QuotientIsNat
<1>5. StartOf(N, l) = d * N /\ StartOf(N - 1, l) = d * (N - 1) /\ d * N \in Nat
  BY <1>1, ProductIsNat DEF StartOf
<1> HIDE DEF n, d, N
<1>6. N # 0
  BY <1>1, <1>4
<1>7. d * (N - 1) = d * N - d
  BY <1>1
<1> QED  BY <1>1, <1>4, <1>5, <1>6, <1>7 DEF n, N

LEMMA PageOfStart ==
    ASSUME NEW l \in Layout, NEW p \in Nat
    PROVE  PageOf(StartOf(p, l), l) = p
<1> DEFINE d == PerPage[l]
<1>1. d \in Nat \ {0}
  OBVIOUS
<1>2. d * p \in Nat /\ p * d = d * p
  BY <1>1, ProductIsNat
<1> HIDE DEF d
<1>3. (d * p) \div d = p
  BY <1>1, <1>2, QuotientIs
<1> QED  BY <1>2, <1>3 DEF PageOf, StartOf, d

\* What is not after the start of a page is on that page or before it.
LEMMA PagesInOrder ==
    ASSUME NEW l \in Layout, NEW o \in Nat, NEW p \in Nat
    PROVE  /\ o <= StartOf(p, l) => PageOf(o, l) <= p
           /\ o < StartOf(p, l) => PageOf(o, l) < p
           /\ StartOf(p, l) <= o => p <= PageOf(o, l)
           /\ StartOf(PageOf(o, l), l) <= o
<1> DEFINE d == PerPage[l]
           q == PageOf(o, l)
<1>1. d \in Nat \ {0} /\ q \in Nat
  BY PageNumbers
<1>2. d * q <= o /\ o < d * q + d
  BY <1>1, QuotientIsNat DEF PageOf
<1>3. StartOf(p, l) = d * p /\ StartOf(q, l) = d * q /\ d * p \in Nat /\ d * q \in Nat
  BY <1>1, ProductIsNat DEF StartOf
<1> HIDE DEF d, q
<1>4. p < q => d * p + d <= d * q
  <2>1. p + 1 <= q => d * (p + 1) <= d * q
    BY <1>1, ProductGrows
  <2>2. d * (p + 1) = d * p + d
    BY <1>1
  <2> QED  BY <1>1, <2>1, <2>2
<1>5. q < p => d * q + d <= d * p
  <2>1. q + 1 <= p => d * (q + 1) <= d * p
    BY <1>1, ProductGrows
  <2>2. d * (q + 1) = d * q + d
    BY <1>1
  <2> QED  BY <1>1, <2>1, <2>2
<1>6. p = q => d * p = d * q
  OBVIOUS
<1> QED  BY <1>1, <1>2, <1>3, <1>4, <1>5, <1>6 DEF q

\* A unit of the text is on a page there is; and a page there is begins in the text.
LEMMA UnitsHavePages ==
    ASSUME NEW s \in Spine, NEW l \in Layout
    PROVE  /\ \A o \in Nat : o < Length[s] => PageOf(o, l) < Pages(s, l)
           /\ \A p \in Nat : p < Pages(s, l) => StartOf(p, l) < Length[s]
<1>1. Length[s] \in Nat /\ Pages(s, l) \in Nat
  BY PageNumbers
<1>2. CASE Length[s] = 0
  <2>1. PerPage[l] \in Nat \ {0} /\ Pages(s, l) = (PerPage[l] - 1) \div PerPage[l]
    BY <1>2 DEF Pages
  <2>2. Pages(s, l) = 0
    <3> DEFINE d == PerPage[l]
    <3>1. d \in Nat \ {0} /\ d - 1 \in Nat /\ d * 0 = 0
      BY <2>1
    <3> HIDE DEF d
    <3>2. (d - 1) \div d = 0
      BY <3>1, QuotientIs
    <3> QED  BY <2>1, <3>2 DEF d
  <2> QED  BY <1>2, <2>2
<1>3. CASE Length[s] > 0
  <2>1. ASSUME NEW o \in Nat, o < Length[s] PROVE PageOf(o, l) < Pages(s, l)
    <3>1. o < StartOf(Pages(s, l), l) /\ StartOf(Pages(s, l), l) \in Nat
      BY <1>1, <1>3, <2>1, LastPage, PageNumbers
    <3> QED  BY <1>1, <3>1, PagesInOrder
  <2>2. ASSUME NEW p \in Nat, p < Pages(s, l) PROVE StartOf(p, l) < Length[s]
    <3>1. Pages(s, l) - 1 \in Nat /\ p <= Pages(s, l) - 1 /\ PerPage[l] \in Nat
      BY <1>1, <2>2
    <3>2. PerPage[l] * p <= PerPage[l] * (Pages(s, l) - 1)
      BY <3>1, ProductGrows
    <3>3. StartOf(p, l) <= StartOf(Pages(s, l) - 1, l)
      BY <3>1, <3>2 DEF StartOf
    <3>4. StartOf(p, l) \in Nat /\ StartOf(Pages(s, l) - 1, l) \in Nat
      BY <3>1, PageNumbers
    <3> QED  BY <1>1, <1>3, <3>3, <3>4, LastPage
  <2> QED  BY <2>1, <2>2
<1> QED  BY <1>1, <1>2, <1>3

\* The start of page p, kept within the text, is on page p, kept within the pages.
LEMMA StartHits ==
    ASSUME NEW s \in Spine, NEW l \in Layout, NEW p \in Nat, Length[s] > 0
    PROVE  LET o == Least(StartOf(p, l), Length[s] - 1)
           IN  o \in Nat /\ o < Length[s] /\ Least(p, Pages(s, l) - 1) = PageOf(o, l)
<1> DEFINE n == Length[s]
           N == Pages(s, l)
           t == StartOf(p, l)
<1>1. n \in Nat \ {0} /\ N \in Nat \ {0} /\ t \in Nat
  BY LastPage, PageNumbers
<1>2. CASE p < N
  <2>1. t < n
    BY <1>2, UnitsHavePages
  <2>2. Least(t, n - 1) = t /\ Least(p, N - 1) = p
    <3> HIDE DEF n, N, t
    <3> QED  BY <1>1, <1>2, <2>1 DEF Least
  <2>3. PageOf(t, l) = p
    BY PageOfStart
  <2> QED  BY <1>1, <2>1, <2>2, <2>3
<1>3. CASE p >= N
  <2>1. StartOf(N, l) <= t /\ StartOf(N, l) \in Nat
    <3>1. PerPage[l] * N <= PerPage[l] * p /\ PerPage[l] \in Nat
      BY <1>1, <1>3, ProductGrows
    <3> QED  BY <1>1, <3>1, PageNumbers DEF StartOf
  <2>2. n <= t /\ n - 1 \in Nat
    BY <1>1, <2>1, LastPage
  <2>3. Least(t, n - 1) = n - 1 /\ Least(p, N - 1) = N - 1
    <3> HIDE DEF n, N, t
    <3> QED  BY <1>1, <1>3, <2>2 DEF Least
  <2>4. PageOf(n - 1, l) = N - 1
    <3>1. StartOf(N - 1, l) <= n - 1 /\ StartOf(N - 1, l) \in Nat /\ N - 1 \in Nat
      <4>1. N - 1 \in Nat
        BY <1>1
      <4>2. StartOf(N - 1, l) \in Nat /\ StartOf(N - 1, l) < n
        BY <4>1, LastPage, PageNumbers
      <4> QED  BY <1>1, <4>1, <4>2
    <3>2. N - 1 <= PageOf(n - 1, l)
      BY <2>2, <3>1, PagesInOrder
    <3>3. PageOf(n - 1, l) < N /\ PageOf(n - 1, l) \in Nat
      BY <1>1, <2>2, UnitsHavePages, PageNumbers
    <3> HIDE DEF n, N
    <3> QED  BY <1>1, <3>2, <3>3
  <2> QED  BY <1>1, <2>2, <2>3, <2>4
<1>4. p < N \/ p >= N
  BY <1>1
<1> QED  BY <1>2, <1>3, <1>4

-----------------------------------------------------------------------------
(* The answers are about the text.                                         *)

\* A file that is whole has all its pages.
FilesWhole == \A s \in Spine : bin[s].whole => bin[s].pages = Pages(s, bin[s].layout)

LEMMA WholeKept ==
    ASSUME FilesFit(bin), FilesWhole, NEW s, NEW f, f.whole => f.pages = Pages(s, f.layout),
           bin' = [bin EXCEPT ![s] = f]
    PROVE  FilesWhole'
BY DEF FilesWhole, FilesFit

LEMMA RemovedWhole == ASSUME FilesFit(bin), FilesWhole, NEW s, Remove(s) PROVE FilesWhole'
<1>1. ~NoFile.whole
  BY DEF NoFile
<1> QED  BY <1>1, WholeKept DEF Remove

\* No operation of Section takes a file for whole that is not.
LEMMA WholeStep ==
    ASSUME FilesFit(bin), FilesWhole,
           \/ UNCHANGED bin
           \/ \E s : Remove(s)
           \/ \E s, l : LoadSectionFile(s, l)
           \/ \E l : StartBuild(l)
           \/ StartBuildFails
           \/ BuildSomeMore
           \/ BuildFails
           \/ ResetSection
           \/ DiscardSection
           \/ SectionLost
    PROVE  FilesWhole'
<1>1. UNCHANGED bin => FilesWhole'
  BY DEF FilesWhole
<1>2. BuildCompletes => FilesWhole'
  <2> DEFINE f == [layout |-> section.build, whole |-> TRUE, pages |-> Pages(section.spine, section.build)]
  <2>1. BuildCompletes => bin' = [bin EXCEPT ![section.spine] = f]
    BY DEF BuildCompletes
  <2>2. f.pages = Pages(section.spine, f.layout)
    OBVIOUS
  <2> HIDE DEF f
  <2> QED  BY <2>1, <2>2, WholeKept
<1>3. ResetSection => FilesWhole'
  <2>1. ResetSection => \/ UNCHANGED bin
                        \/ Remove(section.spine)
                        \/ bin' = [bin EXCEPT ![section.spine] = Suspended]
    BY DEF ResetSection, Remove
  <2>2. ~Suspended.whole
    BY DEF Suspended
  <2> QED  BY <1>1, <2>1, <2>2, WholeKept, RemovedWhole
<1> QED
  BY <1>1, <1>2, <1>3, RemovedWhole
  DEF LoadSectionFile, StartBuild, StartBuildFails, BuildSomeMore, PageLaidOut, BuildFails,
      DiscardSection, SectionLost

\* Of the section that is let go, the file that stays is in the layout it was opened in.
LEMMA LayoutsKept ==
    ASSUME NEW l \in Layout, CacheFits(bin, section, l), ResetSection \/ SectionLost
    PROVE  /\ section.spine # None => bin'[section.spine].layout \in {l, None}
           /\ \A s \in Spine : s # section.spine => bin'[s] = bin[s]
           /\ section.spine = None /\ ResetSection => bin' = bin
           /\ \A s \in Spine : bin'[s].layout \in {bin[s].layout, l, None}
<1> DEFINE t == section.spine
<1>1. FilesFit(bin) /\ t \in Spine \cup {None}
  BY CacheFacts, SpineOfSection
<1>2. \/ UNCHANGED bin
      \/ IsBuilding /\ (bin' = [bin EXCEPT ![t] = NoFile] \/ bin' = [bin EXCEPT ![t] = Suspended])
  BY DEF ResetSection, SectionLost, Remove
<1>3. CASE UNCHANGED bin
  BY <1>1, <1>3, CacheFacts DEF SectionFits
<1>4. CASE ~UNCHANGED bin
  <2>1. IsBuilding /\ t \in Spine /\ t # None
    BY <1>2, <1>4, BuildingFacts, SpineOfSection DEF Spine
  <2>2. NoFile.layout = None /\ Suspended.layout = l
    BY <2>1, BuildingFacts DEF NoFile, Suspended
  <2> QED  BY <1>1, <1>2, <1>4, <2>1, <2>2 DEF FilesFit
<1> QED  BY <1>3, <1>4

\* What the file of the open section says.
LEMMA FileFacts ==
    ASSUME NEW l \in Layout, CacheFits(bin, section, l), section.spine # None, FilesWhole
    PROVE  LET f == bin[section.spine] IN
           /\ f.pages \in Nat /\ f.pages <= Pages(section.spine, l) /\ f.layout \in {l, None}
           /\ f.pages > 0 => f.layout = l
           /\ f.whole => f.layout = l /\ f.pages = Pages(section.spine, l) /\ section.build = None
                         /\ section.partialPages = 0 /\ section.pageCount = Pages(section.spine, l)
           /\ f.pages <= section.pageCount /\ section.pageCount <= Pages(section.spine, l)
           /\ section.build = None => section.pageCount = f.pages
           /\ section.partialPages > 0 => f.pages > 0 /\ section.partialPages = f.pages /\ ~f.whole
<1> DEFINE f == bin[section.spine]
<1>1. /\ section.spine \in Spine /\ f \in File /\ section \in SectionType /\ FileFits(section.spine, f)
      /\ SectionFits(section, f, l) /\ Pages(section.spine, l) \in Nat
  BY CacheFacts DEF FilesFit
<1>2. /\ f.pages \in Nat /\ section.pageCount \in Nat /\ section.partialPages \in Nat /\ section.built \in Nat
      /\ f.whole \in BOOLEAN
  BY <1>1 DEF File, SectionType
<1>3. f.whole => f.pages = Pages(section.spine, f.layout)
  BY <1>1 DEF FilesWhole
<1>4. f.layout = None => f.pages = 0 /\ ~f.whole
  BY <1>1 DEF FileFits, NoFile
<1>5. f.layout # None => f.layout = l /\ f.pages <= Pages(section.spine, l)
  BY <1>1 DEF FileFits, SectionFits
<1> HIDE DEF f
<1>6. /\ section.build = None => section.pageCount = f.pages /\ section.partialPages = IF f.whole THEN 0 ELSE f.pages
      /\ section.build # None => /\ ~f.whole /\ section.partialPages = f.pages
                                 /\ section.built <= Pages(section.spine, l)
                                 /\ section.pageCount = Greatest(section.partialPages, section.built)
  BY <1>1 DEF SectionFits
<1>7. f.pages <= section.pageCount /\ section.pageCount <= Pages(section.spine, l)
  BY <1>1, <1>2, <1>4, <1>5, <1>6 DEF Greatest
<1> QED  BY <1>1, <1>2, <1>3, <1>4, <1>5, <1>6, <1>7 DEF f

\* getPageForVisibleTextOffset(): the page it names is the page of the offset; a whole file always names one.
LEMMA PageForOffsetFacts ==
    ASSUME NEW l \in Layout, CacheFits(bin, section, l), section.spine # None, FilesWhole,
           NEW o \in Nat, o < Length[section.spine]
    PROVE  /\ PageForOffset(o) # None => PageForOffset(o) = PageOf(o, l)
           /\ bin[section.spine].whole \/ ReachedOffset(o) => PageForOffset(o) # None
<1> DEFINE f == bin[section.spine]
           q == PageOf(o, l)
<1>1. /\ section.spine \in Spine /\ section.build \in {l, None} /\ section.built \in Nat
      /\ q \in Nat /\ q < Pages(section.spine, l) /\ q # None /\ Pages(section.spine, l) \in Nat
  BY CacheFacts, UnitsHavePages, PageNumbers DEF SectionFits, SectionType
<1>2. /\ f.pages \in Nat /\ f.layout \in {l, None} /\ (f.pages > 0 => f.layout = l)
      /\ (f.whole => f.layout = l /\ f.pages = Pages(section.spine, l) /\ section.build = None)
  BY FileFacts
<1>3. CASE IsBuilding /\ section.built > 0 /\ o <= StartOf(section.built - 1, section.build)
  BY <1>1, <1>3 DEF PageForOffset, IsBuilding
<1>4. CASE ~(IsBuilding /\ section.built > 0 /\ o <= StartOf(section.built - 1, section.build))
  <2>1. PageForOffset(o) = IF f.pages = 0 \/ (~f.whole /\ o > StartOf(f.pages - 1, f.layout)) THEN None
                           ELSE Least(PageOf(o, f.layout), f.pages - 1)
    BY <1>4 DEF PageForOffset
  <2>2. ~ReachedOffset(o)
    BY <1>4 DEF ReachedOffset
  <2>3. CASE f.whole
    <3>1. f.pages > 0 /\ q <= f.pages - 1 /\ f.layout = l
      BY <1>1, <1>2, <2>3
    <3>2. PageForOffset(o) = Least(q, f.pages - 1)
      BY <2>1, <2>3, <3>1
    <3>3. Least(q, f.pages - 1) = q
      <4> HIDE DEF f, q
      <4> QED  BY <1>1, <1>2, <3>1 DEF Least
    <3> QED  BY <1>1, <3>2, <3>3
  <2>4. CASE ~f.whole /\ PageForOffset(o) # None
    <3>1. f.pages > 0 /\ ~(o > StartOf(f.pages - 1, f.layout)) /\ f.layout = l /\ f.pages - 1 \in Nat
      BY <1>2, <2>1, <2>4
    <3>2. StartOf(f.pages - 1, l) \in Nat
      BY <3>1, PageNumbers
    <3>3. o <= StartOf(f.pages - 1, l)
      BY <3>1, <3>2
    <3>4. q <= f.pages - 1
      BY <3>1, <3>3, PagesInOrder
    <3>5. PageForOffset(o) = Least(q, f.pages - 1)
      BY <2>1, <3>1, <2>4
    <3>6. Least(q, f.pages - 1) = q
      <4> HIDE DEF f, q
      <4> QED  BY <1>1, <1>2, <3>4 DEF Least
    <3> QED  BY <2>4, <3>5, <3>6
  <2> QED  BY <2>2, <2>3, <2>4
<1> QED  BY <1>3, <1>4

\* A build has not yet laid out the page it ends with.
BuildAhead == section.build # None => section.built = 0 \/ section.built < Pages(section.spine, section.build)

\* findAnchor(): the page it names is that of an anchor in the text; a whole file knows every one.
LEMMA FindAnchorFacts ==
    ASSUME NEW l \in Layout, CacheFits(bin, section, l), section.spine # None, FilesWhole, BuildAhead, NEW a \in Nat
    PROVE  /\ FindAnchor(a) # None => FindAnchor(a) = PageOf(a, l) /\ a < Length[section.spine]
           /\ AnchorOnCard(a) # None => FindAnchor(a) # None
           /\ bin[section.spine].whole /\ a < Length[section.spine] => FindAnchor(a) # None
<1> DEFINE f == bin[section.spine]
           q == PageOf(a, l)
           n == Length[section.spine]
<1>1. /\ section.spine \in Spine /\ section.build \in {l, None} /\ section.built \in Nat
      /\ q \in Nat /\ q # None /\ Pages(section.spine, l) \in Nat /\ l # None /\ n \in Nat
  BY CacheFacts, PageNumbers DEF SectionFits, SectionType
<1>2. /\ f.pages \in Nat /\ f.layout \in {l, None} /\ (f.pages > 0 => f.layout = l)
      /\ (f.whole => f.layout = l /\ f.pages = Pages(section.spine, l))
  BY FileFacts
<1>3. AnchorOnCard(a) # None => AnchorOnCard(a) = q /\ a < n
  BY <1>1, <1>2 DEF AnchorOnCard
<1>4. f.whole /\ a < n => AnchorOnCard(a) # None
  <2>1. a < n => q < Pages(section.spine, l)
    BY <1>1, UnitsHavePages
  <2> QED  BY <1>1, <1>2, <2>1 DEF AnchorOnCard
<1>5. CASE IsBuilding /\ a < StartOf(section.built, section.build)
  <2>1. FindAnchor(a) = q /\ section.build = l
    BY <1>1, <1>5 DEF FindAnchor, IsBuilding
  <2>2. section.built = 0 \/ section.built < Pages(section.spine, l)
    BY <1>5, <2>1 DEF BuildAhead, IsBuilding
  <2>3. StartOf(section.built, l) \in Nat
    BY <1>1, PageNumbers
  <2>4. section.built = 0 => StartOf(section.built, l) = 0
    <3>1. PerPage[l] \in Nat
      OBVIOUS
    <3> QED  BY <3>1 DEF StartOf
  <2>5. section.built < Pages(section.spine, l) => StartOf(section.built, l) < n
    BY <1>1, UnitsHavePages
  <2>6. a < StartOf(section.built, l)
    BY <1>5, <2>1
  <2>7. a < n
    <3> HIDE DEF n
    <3> QED  BY <1>1, <2>2, <2>3, <2>4, <2>5, <2>6
  <2> QED  BY <1>1, <2>1, <2>7
<1>6. CASE ~(IsBuilding /\ a < StartOf(section.built, section.build))
  <2>1. FindAnchor(a) = AnchorOnCard(a)
    BY <1>6 DEF FindAnchor
  <2> QED  BY <1>1, <1>3, <1>4, <2>1
<1> QED  BY <1>5, <1>6

\* getVisibleTextOffsetForPage(), loadPage(): of the pages there are, where they begin; of no others.
LEMMA PagesBegin ==
    ASSUME NEW l \in Layout, CacheFits(bin, section, l), section.spine # None, FilesWhole, NEW p \in Nat
    PROVE  /\ p < section.pageCount => OffsetOfPage(p) = StartOf(p, l)
           /\ PageLayout(p) # None => PageLayout(p) = l /\ p < section.pageCount
<1> DEFINE f == bin[section.spine]
<1>1. /\ section.build \in {l, None} /\ section.built \in Nat /\ section.pageCount \in Nat
      /\ section.partialPages \in Nat
      /\ section.build # None => section.partialPages = f.pages
                                 /\ section.pageCount = Greatest(section.partialPages, section.built)
  BY CacheFacts DEF SectionFits, SectionType
<1>2. /\ f.pages \in Nat /\ (f.pages > 0 => f.layout = l) /\ f.pages <= section.pageCount
      /\ (section.build = None => section.pageCount = f.pages)
  BY FileFacts
<1>3. p < f.pages => f.layout = l
  BY <1>2
<1> HIDE DEF f
<1>4. p < section.pageCount => OffsetOfPage(p) = StartOf(p, l)
  BY <1>1, <1>2, <1>3 DEF OffsetOfPage, IsBuilding, Greatest, f
<1>5. ASSUME PageLayout(p) # None PROVE PageLayout(p) = l /\ p < section.pageCount
  <2>1. PageLayout(p) = l
    BY <1>5, PagesAreCurrent
  <2>2. CASE IsBuilding /\ p < section.built
    BY <1>1, <2>1, <2>2 DEF Greatest, IsBuilding
  <2>3. CASE ~(IsBuilding /\ p < section.built)
    <3>1. ~(p >= f.pages)
      BY <1>5, <2>3 DEF PageLayout, f
    <3> QED  BY <1>1, <1>2, <2>1, <3>1
  <2> QED  BY <2>1, <2>2, <2>3
<1> QED  BY <1>4, <1>5
=============================================================================
