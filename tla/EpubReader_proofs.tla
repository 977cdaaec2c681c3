-------------------------- MODULE EpubReader_proofs --------------------------
(***************************************************************************)
(* The reader, for any book, layouts, links and depth of links, however    *)
(* long it is read and wherever either task is when the other acts.        *)
(***************************************************************************)
EXTENDS EpubReader, SectionCache_proofs, SequenceTheorems

USE BookAssumption, LayoutAssumption, NoneAssumption, ReaderAssumption

-----------------------------------------------------------------------------
(* The invariant.  Pages are counted from zero, which the int they are kept*)
(* in does not say.                                                        *)

CachedType == [spine : 0 .. SpineCount, count : Nat, offset : Nat \cup {None}]
ProgressType == [spine : 0 .. SpineCount, page : Nat, count : Nat, offset : Nat \cup {None}]
SavedType == [spine : Spine, page : Nat]
OriginType == [spine : Spine, offset : Nat, layout : Layout]
Why == {"none", "promised", "leftover", "drawn", "shown", "unsaved", "origin"}

PositionOK == currentSpine \in 0 .. SpineCount /\ nextPage \in Nat /\ jump \in Jump /\ cached \in CachedType
MemoryOK == /\ saved \in Seq(SavedType) /\ Len(saved) <= MaxDepth
            /\ retries \in 0 .. MaxRetries /\ startFailed \in BOOLEAN /\ pageOffset \in Nat \cup {None}
CardsOK == progress \in ProgressType /\ saving \in ProgressType \cup {None}
OriginsOK == origins \in Seq(OriginType) /\ Len(origins) = Len(saved)
ControlOK ==
    /\ open \in BOOLEAN /\ layout \in Layout /\ requested \in BOOLEAN /\ goal \in Nat \cup {None}
    /\ rpc \in {"idle", "open", "plan", "reach", "place", "extend", "load", "save", "replace"}
    /\ mpc \in {"idle", "lock", "turning", "reposition", "deleting", "leaving", "closing"}
SectionOK == CacheFits(bin, section, layout) /\ section.currentPage \in Nat

\* Who has the section, and what is being written.
TurnsOK ==
    /\ ~open => section = NoSection /\ rpc = "idle" /\ mpc = "idle"
    /\ rpc = "open" => section = NoSection /\ currentSpine \in Spine
    /\ rpc \notin {"idle", "open"} => section.spine # None
    /\ rpc = "plan" => section.build = None
    /\ mpc \in {"lock", "turning"} => currentSpine \in Spine
    /\ mpc = "reposition" => section.spine # None /\ rpc = "idle"
    /\ mpc = "closing" => saved # <<>>
    /\ mpc \in {"closing", "deleting"} => saving \in ProgressType /\ rpc = "idle"
    /\ rpc = "replace" => saving \in ProgressType

ReaderOK == /\ PositionOK /\ MemoryOK /\ CardsOK /\ OriginsOK /\ ControlOK /\ SectionOK /\ TurnsOK
            /\ place \in PlaceType

-----------------------------------------------------------------------------
(* What the operators return.                                              *)

LEMMA Kept ==
    /\ PositionOK /\ UNCHANGED position => PositionOK'
    /\ MemoryOK /\ UNCHANGED memory => MemoryOK'
    /\ CardsOK /\ UNCHANGED cards => CardsOK'
    /\ OriginsOK /\ UNCHANGED <<origins, saved>> => OriginsOK'
    /\ ControlOK /\ UNCHANGED control => ControlOK'
    /\ SectionOK /\ UNCHANGED <<sections, layout>> => SectionOK' /\ Grows
<1>1. SectionOK /\ UNCHANGED <<sections, layout>> => SectionOK' /\ Grows
  BY FilesKept DEF SectionOK, sections, CacheFits
<1> QED
  BY <1>1 DEF PositionOK, MemoryOK, CardsOK, OriginsOK, ControlOK, position, memory, cards, control

LEMMA Empties ==
    /\ NoJump \in Jump /\ NoProgress \in ProgressType /\ NoPlace \in PlaceType
    /\ 0 \in Spine /\ 0 \in 0 .. SpineCount
    /\ \A c \in CachedType : Lapsed(c) \in CachedType /\ Lapsed(c).spine = c.spine
<1>1. 0 \in Spine /\ 0 \in 0 .. SpineCount
  BY DEF Spine
<1> QED  BY <1>1 DEF NoJump, Jump, NoProgress, ProgressType, NoPlace, PlaceType, Lapsed, CachedType

LEMMA SpinesAreSpines == \A s \in Spine : s \in 0 .. SpineCount /\ s # None
BY DEF Spine

LEMMA Places ==
    ASSUME NEW s \in Spine, NEW o \in Nat, NEW why \in Why
    PROVE  At(s, o, why) \in PlaceType
<1>1. CASE Length[s] = 0
  BY <1>1, Empties DEF At
<1>2. CASE Length[s] # 0
  <2>1. Length[s] - 1 \in Nat
    BY <1>2
  <2>2. Least(o, Length[s] - 1) \in Nat
    BY <2>1, LeastIsNat
  <2> QED  BY <1>2, <2>2 DEF At, PlaceType, Why
<1> QED  BY <1>1, <1>2

LEMMA NothingSaved == <<>> \in Seq(SavedType) /\ <<>> \in Seq(OriginType) /\ Len(<<>>) = 0
BY EmptySeq

LEMMA Promises == ASSUME NEW s \in Spine, NEW o \in Nat PROVE Promise(s, o) \in PlaceType
BY Places DEF Promise, Why

LEMMA SavedPlaces == ASSUME place \in PlaceType, NEW why \in Why PROVE Saved(why) \in PlaceType
BY DEF Saved, PlaceType, Why

LEMMA Origins ==
    ASSUME NEW at \in OriginType, NEW why \in Why PROVE Origin(at, why) \in PlaceType
BY Places DEF Origin, OriginType, Why

LEMMA Records ==
    ASSUME NEW s \in Spine, NEW p \in Nat, NEW n \in Nat, NEW o \in Nat \cup {None}
    PROVE  Record(s, p, n, o) \in ProgressType /\ Record(s, p, n, o).offset = o
BY SpinesAreSpines DEF Record, ProgressType

LEMMA Ends ==
    ASSUME NEW S, NEW s \in Seq(S), s # <<>>
    PROVE  /\ s[1] \in S /\ s[Len(s)] \in S /\ Len(s) \in Nat \ {0}
           /\ SubSeq(s, 1, Len(s) - 1) \in Seq(S) /\ Len(SubSeq(s, 1, Len(s) - 1)) = Len(s) - 1
<1>1. Len(s) \in Nat \ {0}
  OBVIOUS
<1>2. s[1] \in S /\ s[Len(s)] \in S
  BY <1>1
<1> DEFINE n == Len(s) - 1
<1>3. n \in Nat /\ \A i \in 1 .. n : s[i] \in S
  BY <1>1
<1> HIDE DEF n
<1>4. /\ SubSeq(s, 1, n) \in Seq(S)
      /\ Len(SubSeq(s, 1, n)) = IF 1 <= n THEN n - 1 + 1 ELSE 0
  BY <1>3, SubSeqProperties
<1>5. Len(SubSeq(s, 1, n)) = n
  BY <1>3, <1>4
<1> QED  BY <1>1, <1>2, <1>4, <1>5 DEF n

LEMMA Appended ==
    ASSUME NEW S, NEW s \in Seq(S), NEW e \in S
    PROVE  Append(s, e) \in Seq(S) /\ Len(Append(s, e)) = Len(s) + 1 /\ Len(s) \in Nat
OBVIOUS

LEMMA Cut ==
    ASSUME NEW S, NEW s \in Seq(S), NEW n \in 0 .. Len(s)
    PROVE  /\ SubSeq(s, 1, n) \in Seq(S) /\ Len(SubSeq(s, 1, n)) = n
           /\ \A i \in 1 .. n : SubSeq(s, 1, n)[i] = s[i]
<1>1. n \in Nat /\ \A i \in 1 .. n : s[i] \in S
  OBVIOUS
<1>2. /\ SubSeq(s, 1, n) \in Seq(S)
      /\ Len(SubSeq(s, 1, n)) = IF 1 <= n THEN n - 1 + 1 ELSE 0
  BY <1>1, SubSeqProperties
<1>3. Len(SubSeq(s, 1, n)) = n
  BY <1>1, <1>2
<1>4. \A i \in 1 .. n : SubSeq(s, 1, n)[i] = s[i]
  BY <1>1, <1>3, SubSeqProperties
<1> QED  BY <1>2, <1>3, <1>4

LEMMA SectionFacts ==
    ASSUME ReaderOK
    PROVE  /\ layout \in Layout /\ CacheFits(bin, section, layout) /\ FilesFit(bin)
           /\ cp \in Nat /\ section.pageCount \in Nat /\ section.partialPages \in Nat
           /\ section # NoSection <=> section.spine # None
           /\ section.spine # None => section.spine \in Spine
<1>1. layout \in Layout /\ CacheFits(bin, section, layout) /\ cp \in Nat
  BY DEF ReaderOK, ControlOK, SectionOK, cp
<1>2. section \in SectionType /\ FilesFit(bin)
  BY <1>1, CacheFacts
<1>3. section # NoSection <=> section.spine # None
  BY <1>1, CacheFacts, NoSectionFits
<1> QED  BY <1>1, <1>2, <1>3, CacheFacts DEF SectionType

LEMMA OffsetsSaved ==
    ASSUME ReaderOK, NEW s, NEW p \in Nat
    PROVE  OffsetToSave(s, p) \in Nat \cup {None}
BY SectionFacts, AnswersAreNumbers DEF OffsetToSave, ReaderOK, MemoryOK

LEMMA PagesChosen ==
    ASSUME ReaderOK, section.spine # None
    PROVE  PlacedPage \in Nat
<1>1. PositionOK /\ goal \in Nat \cup {None} /\ section.pageCount \in Nat
  BY SectionFacts DEF ReaderOK, ControlOK
<1>2. Target \in Nat
  BY <1>1 DEF PositionOK, Target
<1>3. OffsetPage \in Nat \cup {None}
  BY <1>1, SectionFacts, AnswersAreNumbers DEF OffsetPage
<1>4. AnchorPage \in Nat \cup {None}
  BY <1>1, SectionFacts, AnswersAreNumbers DEF AnchorPage, PositionOK, Jump
<1>5. PercentPage \in Nat \cup {None}
  <2>1. CASE jump.percent = None \/ section.pageCount = 0
    BY <2>1 DEF PercentPage
  <2>2. CASE jump.percent # None /\ section.pageCount # 0
    <3>1. jump.percent \in Nat /\ section.pageCount - 1 \in Nat
      BY <1>1, <2>2 DEF PositionOK, Jump
    <3>2. (jump.percent * section.pageCount) \div 100 \in Nat
      BY <1>1, <3>1, ProductIsNat
    <3> QED  BY <2>2, <3>1, <3>2, LeastIsNat DEF PercentPage
  <2> QED  BY <2>1, <2>2
<1> QED  BY <1>2, <1>3, <1>4, <1>5 DEF PlacedPage

LEMMA PagesMoved ==
    ASSUME ReaderOK, section.spine # None, NEW p \in Nat
    PROVE  Clamped(p) \in Nat /\ Repositioned(p) \in Nat
<1>1. section.pageCount \in Nat /\ cached \in CachedType
  BY SectionFacts DEF ReaderOK, PositionOK
<1>2. cached.count \in Nat /\ cached.offset \in Nat \cup {None}
  BY <1>1 DEF CachedType
<1>3. section.pageCount > 0 => section.pageCount - 1 \in Nat
  BY <1>1
<1>4. Clamped(p) \in Nat
  BY <1>1, <1>3 DEF Clamped
<1>5. MappedPage(p) \in Nat
  <2> DEFINE o == IF cached.offset = None THEN None ELSE PageForOffset(cached.offset)
  <2>1. o \in Nat \cup {None}
    BY <1>2, SectionFacts, AnswersAreNumbers
  <2>2. cached.count > 0 => (p * section.pageCount) \div cached.count \in Nat
    <3>1. p * section.pageCount \in Nat
      BY <1>1, ProductIsNat
    <3> QED  BY <1>2, <3>1, QuotientIsNat
  <2>3. MappedPage(p) = IF o # None THEN o
                        ELSE IF cached.count > 0 /\ section.pageCount # cached.count
                             THEN (p * section.pageCount) \div cached.count ELSE p
    BY DEF MappedPage
  <2> HIDE DEF o
  <2> QED  BY <2>1, <2>2, <2>3
<1>6. Within(MappedPage(p)) \in Nat
  BY <1>3, <1>5, LeastIsNat DEF Within
<1> QED  BY <1>4, <1>6 DEF Repositioned

LEMMA Unfolded ==
    ASSUME ReaderOK
    PROVE  /\ PositionOK /\ MemoryOK /\ CardsOK /\ OriginsOK /\ ControlOK /\ SectionOK /\ TurnsOK
           /\ place \in PlaceType
BY DEF ReaderOK

LEMMA Folded ==
    ASSUME PositionOK', MemoryOK', CardsOK', OriginsOK', ControlOK', SectionOK', TurnsOK', place' \in PlaceType
    PROVE  ReaderOK'
BY DEF ReaderOK

LEMMA SectionGone ==
    ASSUME FilesFit(bin'), section' = NoSection
    PROVE  SectionOK' /\ section'.spine = None
BY NoSectionFits DEF SectionOK

LEMMA PageSet ==
    ASSUME ReaderOK, section.spine # None, NEW p \in Nat, section' = [section EXCEPT !.currentPage = p],
           UNCHANGED <<bin, layout>>
    PROVE  SectionOK' /\ Grows /\ section'.spine = section.spine /\ section'.build = section.build
<1>1. section \in SectionType /\ p \in Int
  BY SectionFacts, CacheFacts
<1>2. section'.currentPage = p /\ section'.spine = section.spine /\ section'.build = section.build
  BY <1>1 DEF SectionType
<1>3. CacheFits(bin', section', layout) /\ Grows
  BY <1>1, SectionFacts, PageChosen
<1> QED  BY <1>2, <1>3 DEF SectionOK

\* An operation of Section that leaves the page number alone.
LEMMA SectionStep ==
    ASSUME ReaderOK, section.spine # None, UNCHANGED layout,
           \/ BuildSomeMore
           \/ section.build = None /\ ~bin[section.spine].whole /\ StartBuild(layout)
           \/ IsPartial /\ StartBuildFails
    PROVE  SectionOK' /\ Grows /\ section'.spine = section.spine
<1>1. CacheFits(bin', section', layout) /\ Grows /\ section'.currentPage = cp
  BY SectionFacts, MoreBuilt, BuildStarted, BuildNotStarted DEF cp
<1>2. SectionOK'
  BY <1>1, SectionFacts DEF SectionOK
<1>3. section \in SectionType
  BY SectionFacts, CacheFacts
<1>4. section'.spine = section.spine
  BY <1>3 DEF BuildSomeMore, PageLaidOut, BuildCompletes, Ended, StartBuild, StartBuildFails, SectionType
<1> QED  BY <1>1, <1>2, <1>4

-----------------------------------------------------------------------------
(* The render task.                                                        *)

LEMMA RenderBeginsStep == ASSUME ReaderOK, RenderBegins PROVE ReaderOK' /\ Grows
<1>1. /\ open /\ rpc = "idle" /\ mpc \notin {"reposition", "deleting", "closing"} /\ requested' = FALSE
      /\ rpc' = IF currentSpine = SpineCount THEN "idle" ELSE IF section = NoSection THEN "open" ELSE "extend"
      /\ UNCHANGED <<position, memory, cards, place, origins, sections, open, layout, goal, mpc>>
  BY DEF RenderBegins
<1>2. PositionOK' /\ MemoryOK' /\ CardsOK' /\ OriginsOK' /\ SectionOK' /\ Grows
  BY <1>1, Unfolded, Kept DEF memory
<1>3. ControlOK'
  BY <1>1, Unfolded DEF ControlOK
<1>4. currentSpine # SpineCount => currentSpine \in Spine
  BY Unfolded DEF PositionOK, Spine
<1>5. UNCHANGED <<currentSpine, saved, saving, section>>
  BY <1>1 DEF position, memory, cards, sections
<1>6. TurnsOK'
  BY <1>1, <1>4, <1>5, Unfolded, SectionFacts DEF TurnsOK
<1> QED  BY <1>1, <1>2, <1>3, <1>6, Unfolded, Folded

LEMMA OpenSectionStep == ASSUME ReaderOK, OpenSection PROVE ReaderOK' /\ Grows
<1>1. /\ rpc = "open" /\ LoadSectionFile(currentSpine, layout) /\ startFailed' = FALSE /\ rpc' = "plan"
      /\ cached' = cached \/ cached' = Lapsed(cached)
      /\ UNCHANGED <<currentSpine, nextPage, jump, saved, lastSaved, retries, pageOffset, cards, history,
                     open, layout, requested, goal, mpc>>
  BY DEF OpenSection
<1>2. PositionOK'
  BY <1>1, Unfolded, Empties DEF PositionOK
<1>3. MemoryOK'
  BY <1>1, Unfolded DEF MemoryOK
<1>4. CardsOK' /\ OriginsOK' /\ place' \in PlaceType
  BY <1>1, Unfolded, Kept DEF history
<1>5. ControlOK'
  BY <1>1, Unfolded DEF ControlOK
<1>6. currentSpine \in Spine /\ mpc \notin {"reposition", "closing", "deleting"} /\ open
  BY <1>1, Unfolded DEF TurnsOK
<1>7. CacheFits(bin', section', layout) /\ Grows /\ section'.spine = currentSpine /\ section'.build = None
      /\ section'.currentPage = 0
  BY <1>1, <1>6, SectionFacts, SectionOpened
<1>8. SectionOK'
  BY <1>1, <1>7 DEF SectionOK
<1>9. TurnsOK'
  BY <1>1, <1>6, <1>7, Unfolded, SpinesAreSpines DEF TurnsOK
<1> QED  BY <1>2, <1>3, <1>4, <1>5, <1>7, <1>8, <1>9, Folded

\* BuildError, and the same of a page that cannot be read.
LEMMA BuildErrorStep ==
    ASSUME ReaderOK, BuildFails \/ DiscardSection, rpc # "idle", rpc' = "idle", place' = NoPlace,
           requested' \in BOOLEAN, retries' \in 0 .. MaxRetries,
           UNCHANGED <<currentSpine, nextPage, jump, cached, saved, startFailed, pageOffset,
                       cards, origins, open, layout, goal, mpc>>
    PROVE  ReaderOK' /\ Grows
<1>1. FilesFit(bin') /\ Grows /\ section' = NoSection
  BY SectionFacts, BuildGivenUp, SectionDiscarded
<1>2. SectionOK'
  BY <1>1, SectionGone
<1>3. PositionOK' /\ MemoryOK' /\ ControlOK'
  BY Unfolded DEF PositionOK, MemoryOK, ControlOK
<1>4. CardsOK' /\ OriginsOK' /\ place' \in PlaceType
  BY Unfolded, Kept, Empties
<1>5. mpc \notin {"reposition", "closing", "deleting"} /\ open
  BY Unfolded DEF TurnsOK
<1>6. TurnsOK'
  BY <1>5, Unfolded DEF TurnsOK
<1> QED  BY <1>1, <1>2, <1>3, <1>4, <1>6, Folded

\* The building steps of renderBook().
LEMMA BuildingStep ==
    ASSUME ReaderOK, rpc \in {"plan", "reach", "extend"}, rpc' \in {"reach", "place", "extend"},
           goal' \in Nat \cup {None},
           \/ UNCHANGED sections
           \/ BuildSomeMore
           \/ section.build = None /\ ~bin[section.spine].whole /\ StartBuild(layout),
           UNCHANGED <<position, memory, cards, place, origins, open, layout, requested, mpc>>
    PROVE  ReaderOK' /\ Grows
<1>1. section.spine # None /\ mpc \notin {"reposition", "closing", "deleting"} /\ open
  BY Unfolded DEF TurnsOK
<1>2. SectionOK' /\ Grows /\ section'.spine = section.spine
  BY <1>1, Unfolded, Kept, SectionStep DEF sections
<1>3. PositionOK' /\ MemoryOK' /\ CardsOK' /\ OriginsOK'
  BY Unfolded, Kept DEF memory
<1>4. ControlOK'
  BY Unfolded DEF ControlOK
<1>5. UNCHANGED <<currentSpine, saved, saving>>
  BY DEF position, memory, cards
<1>6. TurnsOK'
  BY <1>1, <1>2, <1>5, Unfolded DEF TurnsOK
<1> QED  BY <1>2, <1>3, <1>4, <1>6, Unfolded, Folded

LEMMA PlanStep == ASSUME ReaderOK, Plan PROVE ReaderOK' /\ Grows
<1>1. rpc = "plan" /\ UNCHANGED <<currentSpine, nextPage, memory, cards, origins, open, layout, requested, mpc>>
  BY DEF Plan
<1>2. section.build = None
  BY <1>1, Unfolded DEF TurnsOK
<1>3. OffsetJump \in Nat \cup {None}
  BY Unfolded DEF OffsetJump, PositionOK, Jump, CachedType
<1>4. CASE BuildError
  <2>1. BuildFails /\ rpc' = "idle" /\ place' = NoPlace /\ UNCHANGED <<jump, cached, goal>>
    BY <1>4 DEF BuildError
  <2>2. UNCHANGED <<saved, startFailed, pageOffset>> /\ requested' \in BOOLEAN /\ retries' \in 0 .. MaxRetries
    BY <1>1, Unfolded DEF memory, MemoryOK, ControlOK
  <2> QED  BY <1>1, <2>1, <2>2, BuildErrorStep
<1>5. CASE ~BuildError
  <2>1. /\ rpc' \in {"reach", "place"} /\ goal' = OffsetJump /\ UNCHANGED <<place, jump, cached>>
        /\ UNCHANGED sections \/ (~bin[section.spine].whole /\ StartBuild(layout))
    BY <1>5 DEF Plan, WholeOnCard
  <2>2. UNCHANGED position
    BY <1>1, <2>1 DEF position
  <2> QED  BY <1>1, <1>2, <1>3, <2>1, <2>2, BuildingStep
<1> QED  BY <1>4, <1>5

LEMMA ReachStep == ASSUME ReaderOK, Reach PROVE ReaderOK' /\ Grows
<1>1. rpc = "reach" /\ UNCHANGED <<currentSpine, nextPage, memory, cards, origins, open, layout, requested, mpc>>
  BY DEF Reach
<1>4. CASE BuildError
  <2>1. BuildFails /\ rpc' = "idle" /\ place' = NoPlace /\ UNCHANGED <<jump, cached, goal>>
    BY <1>4 DEF BuildError
  <2>2. UNCHANGED <<saved, startFailed, pageOffset>> /\ requested' \in BOOLEAN /\ retries' \in 0 .. MaxRetries
    BY <1>1, Unfolded DEF memory, MemoryOK, ControlOK
  <2> QED  BY <1>1, <2>1, <2>2, BuildErrorStep
<1>5. CASE ~BuildError
  <2>1. BuildSomeMore /\ UNCHANGED <<rpc, place, jump, cached, goal>>
    BY <1>5 DEF Reach
  <2>2. UNCHANGED position /\ goal' \in Nat \cup {None}
    BY <1>1, <2>1, Unfolded DEF position, ControlOK
  <2> QED  BY <1>1, <2>1, <2>2, BuildingStep
<1> QED  BY <1>4, <1>5

LEMMA ExtendStep == ASSUME ReaderOK, Extend PROVE ReaderOK' /\ Grows
<1>1. /\ rpc = "extend" /\ (IsPartial \/ IsBuilding)
      /\ UNCHANGED <<currentSpine, nextPage, memory, cards, origins, open, layout, requested, mpc>>
  BY DEF Extend
<1>4. CASE BuildError
  <2>1. BuildFails /\ rpc' = "idle" /\ place' = NoPlace /\ UNCHANGED <<jump, cached, goal>>
    BY <1>4 DEF BuildError
  <2>2. UNCHANGED <<saved, startFailed, pageOffset>> /\ requested' \in BOOLEAN /\ retries' \in 0 .. MaxRetries
    BY <1>1, Unfolded DEF memory, MemoryOK, ControlOK
  <2> QED  BY <1>1, <2>1, <2>2, BuildErrorStep
<1>5. CASE ~BuildError
  <2>1. /\ IF IsBuilding THEN BuildSomeMore ELSE StartBuild(layout)
        /\ UNCHANGED <<rpc, place, jump, cached, goal>>
    BY <1>5 DEF Extend
  <2>2. UNCHANGED position /\ goal' \in Nat \cup {None}
    BY <1>1, <2>1, Unfolded DEF position, ControlOK
  <2>3. section.spine # None
    BY <1>1, Unfolded DEF TurnsOK
  <2>4. ~IsBuilding => section.build = None /\ ~bin[section.spine].whole
    BY <1>1, <2>3, SectionFacts, CacheFacts DEF IsBuilding, IsPartial, SectionFits
  <2> QED  BY <1>1, <2>1, <2>2, <2>4, BuildingStep
<1> QED  BY <1>4, <1>5

LEMMA PlaceStep == ASSUME ReaderOK, Place PROVE ReaderOK' /\ Grows
<1>1. /\ rpc \in {"place", "reach"} /\ section' = [section EXCEPT !.currentPage = PlacedPage]
      /\ cached' = cached \/ cached' = Lapsed(cached)
      /\ jump' = [NoJump EXCEPT !.percent = IF section.pageCount = 0 THEN jump.percent ELSE None]
      /\ rpc' = "extend" /\ goal' = None
      /\ UNCHANGED <<bin, currentSpine, nextPage, memory, cards, history, open, layout, requested, mpc>>
  BY DEF Place
<1>2. section.spine # None /\ mpc \notin {"reposition", "closing", "deleting"} /\ open
  BY <1>1, Unfolded DEF TurnsOK
<1>3. SectionOK' /\ Grows /\ section'.spine = section.spine
  BY <1>1, <1>2, PagesChosen, PageSet
<1>4. jump' \in Jump
  BY <1>1, Unfolded DEF PositionOK, Jump, NoJump
<1>5. PositionOK'
  BY <1>1, <1>4, Unfolded, Empties DEF PositionOK
<1>6. MemoryOK' /\ CardsOK' /\ OriginsOK' /\ place' \in PlaceType
  BY <1>1, Unfolded, Kept DEF history, memory
<1>7. ControlOK'
  BY <1>1, Unfolded DEF ControlOK
<1>8. TurnsOK'
  BY <1>1, <1>2, <1>3, Unfolded DEF TurnsOK, memory, cards
<1> QED  BY <1>3, <1>5, <1>6, <1>7, <1>8, Folded

LEMMA FitStep == ASSUME ReaderOK, Fit PROVE ReaderOK' /\ Grows
<1> DEFINE p == Repositioned(Clamped(cp))
<1>1. /\ rpc = "extend" /\ section' = [section EXCEPT !.currentPage = p]
      /\ rpc' \in {"load", "idle"}
      /\ cached' = cached \/ cached' = Lapsed(cached)
      /\ UNCHANGED <<bin, currentSpine, nextPage, jump, memory, cards, place, origins,
                     open, layout, requested, goal, mpc>>
  BY DEF Fit
<1>2. section.spine # None /\ mpc \notin {"reposition", "closing", "deleting"} /\ open
  BY <1>1, Unfolded DEF TurnsOK
<1>3. p \in Nat
  BY <1>2, SectionFacts, PagesMoved
<1> HIDE DEF p
<1>4. SectionOK' /\ Grows /\ section'.spine = section.spine
  BY <1>1, <1>2, <1>3, PageSet
<1>5. PositionOK'
  BY <1>1, Unfolded, Empties DEF PositionOK
<1>6. MemoryOK' /\ CardsOK' /\ OriginsOK' /\ place' \in PlaceType
  BY <1>1, Unfolded, Kept DEF memory
<1>7. ControlOK'
  BY <1>1, Unfolded DEF ControlOK
<1>8. TurnsOK'
  BY <1>1, <1>2, <1>4, Unfolded DEF TurnsOK, memory, cards
<1> QED  BY <1>4, <1>5, <1>6, <1>7, <1>8, Folded

LEMMA DrawStep == ASSUME ReaderOK, Draw PROVE ReaderOK' /\ Grows
<1>1. /\ rpc = "load" /\ PageLayout(cp) # None /\ rpc' = "save" /\ retries' = 0
      /\ pageOffset' = StartOf(cp, PageLayout(cp))
      /\ place' = At(section.spine, StartOf(cp, PageLayout(cp)), "drawn")
      /\ UNCHANGED <<position, saved, lastSaved, startFailed, cards, origins, sections,
                     open, layout, requested, goal, mpc>>
  BY DEF Draw
<1>2. section.spine # None /\ mpc \notin {"reposition", "closing", "deleting"} /\ open
  BY <1>1, Unfolded DEF TurnsOK
<1>3. section.spine \in Spine /\ StartOf(cp, PageLayout(cp)) \in Nat
  BY <1>1, <1>2, SectionFacts, AnswersAreNumbers
<1>4. place' \in PlaceType
  BY <1>1, <1>3, Places DEF Why
<1>5. MemoryOK'
  BY <1>1, <1>3, Unfolded DEF MemoryOK
<1>6. PositionOK' /\ CardsOK' /\ OriginsOK' /\ SectionOK' /\ Grows
  BY <1>1, Unfolded, Kept
<1>7. ControlOK'
  BY <1>1, Unfolded DEF ControlOK
<1>8. TurnsOK'
  BY <1>1, <1>2, Unfolded DEF TurnsOK, sections, position, cards
<1> QED  BY <1>4, <1>5, <1>6, <1>7, <1>8, Folded

LEMMA LoadFailsStep == ASSUME ReaderOK, LoadFails PROVE ReaderOK' /\ Grows
<1>1. /\ rpc = "load" /\ DiscardSection /\ rpc' = "idle" /\ place' = NoPlace
      /\ IF retries + 1 > MaxRetries
         THEN retries' = 0 /\ UNCHANGED requested
         ELSE retries' = retries + 1 /\ requested' = TRUE
      /\ UNCHANGED <<position, saved, lastSaved, startFailed, pageOffset, cards, origins,
                     open, layout, goal, mpc>>
  BY DEF LoadFails
<1>2. requested' \in BOOLEAN
  BY <1>1, Unfolded DEF ControlOK
<1>3. retries' \in 0 .. MaxRetries
  <2>1. retries \in 0 .. MaxRetries /\ MaxRetries \in Nat
    BY Unfolded DEF MemoryOK
  <2>2. retries' = IF retries + 1 > MaxRetries THEN 0 ELSE retries + 1
    BY <1>1
  <2> QED  BY <2>1, <2>2
<1> QED  BY <1>1, <1>2, <1>3, BuildErrorStep DEF position

\* A step of saving: nothing but the files of the progress and what is kept of it changes.
LEMMA SavingStep ==
    ASSUME ReaderOK, rpc \in {"save", "replace"}, CardsOK', place' \in PlaceType,
           rpc' = "idle" \/ (rpc' = "replace" /\ saving' \in ProgressType),
           UNCHANGED <<position, saved, retries, startFailed, pageOffset, origins, sections,
                       open, layout, requested, goal, mpc>>
    PROVE  ReaderOK' /\ Grows
<1>1. mpc \notin {"reposition", "closing", "deleting"} /\ open /\ section.spine # None
  BY Unfolded DEF TurnsOK
<1>2. PositionOK' /\ OriginsOK' /\ SectionOK' /\ Grows
  BY Unfolded, Kept
<1>3. MemoryOK' /\ ControlOK'
  BY Unfolded DEF MemoryOK, ControlOK
<1>4. TurnsOK'
  BY <1>1, Unfolded DEF TurnsOK, sections, position
<1> QED  BY <1>2, <1>3, <1>4, Folded

LEMMA SkipSaveStep == ASSUME ReaderOK, SkipSave PROVE ReaderOK' /\ Grows
<1>1. /\ rpc = "save" /\ rpc' = "idle" /\ place' \in {Saved("shown"), Saved("unsaved")}
      /\ UNCHANGED <<position, memory, cards, origins, sections, open, layout, requested, goal, mpc>>
  BY DEF SkipSave
<1>2. place' \in PlaceType
  BY <1>1, Unfolded, SavedPlaces DEF Why
<1>3. CardsOK'
  BY <1>1, Unfolded, Kept
<1> QED  BY <1>1, <1>2, <1>3, SavingStep DEF memory

LEMMA SaveProgressStep == ASSUME ReaderOK, SaveProgress PROVE ReaderOK' /\ Grows
<1> DEFINE o == OffsetToSave(currentSpine, cp)
<1>1. /\ rpc = "save"
      /\ UNCHANGED <<position, memory, origins, sections, open, layout, requested, goal, mpc>>
      /\ \/ /\ saving' = Record(currentSpine, cp, EstimatedTotalPages, o)
            /\ progress' = NoProgress /\ rpc' = "replace" /\ UNCHANGED place
         \/ rpc' = "idle" /\ place' = Saved("unsaved") /\ UNCHANGED cards
  BY DEF SaveProgress
<1>2. section.spine # None
  BY <1>1, Unfolded DEF TurnsOK
<1>3. EstimatedTotalPages \in Nat
  <2>1. Pages(section.spine, layout) \in Nat /\ section.pageCount \in Nat
    BY <1>2, SectionFacts, PageNumbers
  <2> QED  BY <2>1, LeastIsNat DEF EstimatedTotalPages
<1>4. o \in Nat \cup {None} /\ cp \in Nat
  BY SectionFacts, OffsetsSaved
<1> HIDE DEF o
<1>5. Record(currentSpine, cp, EstimatedTotalPages, o) \in ProgressType
  BY <1>3, <1>4, Unfolded DEF Record, ProgressType, PositionOK
<1>6. CASE saving' = Record(currentSpine, cp, EstimatedTotalPages, o) /\ progress' = NoProgress
           /\ rpc' = "replace" /\ UNCHANGED place
  <2>1. CardsOK' /\ saving' \in ProgressType /\ place' \in PlaceType
    BY <1>5, <1>6, Unfolded, Empties DEF CardsOK
  <2> QED  BY <1>1, <1>6, <2>1, SavingStep DEF memory
<1>7. CASE rpc' = "idle" /\ place' = Saved("unsaved") /\ UNCHANGED cards
  <2>1. CardsOK' /\ place' \in PlaceType
    BY <1>7, Unfolded, Kept, SavedPlaces DEF Why
  <2> QED  BY <1>1, <1>7, <2>1, SavingStep DEF memory
<1> QED  BY <1>1, <1>6, <1>7

LEMMA ReplaceProgressStep == ASSUME ReaderOK, ReplaceProgress PROVE ReaderOK' /\ Grows
<1>1. /\ rpc = "replace" /\ rpc' = "idle" /\ saving' = None /\ progress' \in {saving, progress}
      /\ place' \in {Saved("shown"), Saved("unsaved")}
      /\ UNCHANGED <<position, saved, retries, startFailed, pageOffset, origins, sections,
                     open, layout, requested, goal, mpc>>
  BY DEF ReplaceProgress
<1>2. place' \in PlaceType
  BY <1>1, Unfolded, SavedPlaces DEF Why
<1>3. CardsOK'
  BY <1>1, Unfolded DEF CardsOK, TurnsOK
<1> QED  BY <1>1, <1>2, <1>3, SavingStep

LEMMA RenderStep == ASSUME ReaderOK, Render PROVE ReaderOK' /\ Grows
BY RenderBeginsStep, OpenSectionStep, PlanStep, ReachStep, PlaceStep, ExtendStep, FitStep, DrawStep,
   LoadFailsStep, SkipSaveStep, SaveProgressStep, ReplaceProgressStep DEF Render

-----------------------------------------------------------------------------
(* The main task: turning pages.                                           *)

\* The section is let go, to be opened again where the reader is sent.
LEMMA SentStep ==
    ASSUME ReaderOK, open, rpc = "idle", ResetSection, PositionOK', MemoryOK', OriginsOK', place' \in PlaceType,
           requested' \in BOOLEAN, layout' \in Layout, mpc' = "idle", UNCHANGED <<cards, open, rpc, goal>>
    PROVE  ReaderOK' /\ Grows
<1>1. FilesFit(bin') /\ Grows /\ section' = NoSection
  BY SectionFacts, SectionReset
<1>2. SectionOK'
  BY <1>1, SectionGone
<1>3. CardsOK'
  BY Unfolded, Kept
<1>4. ControlOK'
  BY Unfolded DEF ControlOK
<1>5. TurnsOK'
  BY DEF TurnsOK
<1> QED  BY <1>1, <1>2, <1>3, <1>4, <1>5, Folded

LEMMA LeapStep ==
    ASSUME ReaderOK, open, rpc = "idle", NEW s \in Spine, NEW page \in Nat, NEW j \in Jump, NEW to \in PlaceType,
           Leap(s, page, j, to), MemoryOK', OriginsOK', mpc' = "idle", UNCHANGED <<cards, open, layout, rpc, goal>>
    PROVE  ReaderOK' /\ Grows
<1>1. /\ currentSpine' = s /\ nextPage' = page /\ jump' = j /\ cached' = Lapsed(cached)
      /\ ResetSection /\ requested' = TRUE /\ place' = to
  BY DEF Leap
<1>2. PositionOK'
  BY <1>1, Unfolded, Empties, SpinesAreSpines DEF PositionOK
<1>3. layout' \in Layout
  BY SectionFacts
<1> QED  BY <1>1, <1>2, <1>3, SentStep

\* The page number changes, whatever the render task is doing.
LEMMA TurnWithinStep ==
    ASSUME ReaderOK, open, section.spine # None, currentSpine \in Spine, mpc \in {"idle", "turning"},
           NEW p \in Nat, TurnWithin(p), mpc' = "idle",
           UNCHANGED <<memory, cards, origins, open, layout, rpc, goal>>
    PROVE  ReaderOK' /\ Grows
<1>1. /\ section' = [section EXCEPT !.currentPage = p] /\ requested' = TRUE /\ UNCHANGED <<bin, position>>
      /\ place' \in {NoPlace, Promise(currentSpine, StartOf(p, layout))}
  BY DEF TurnWithin
<1>2. SectionOK' /\ Grows /\ section'.spine = section.spine /\ section'.build = section.build
  BY <1>1, PageSet
<1>3. StartOf(p, layout) \in Nat
  BY SectionFacts, PageNumbers
<1>4. place' \in PlaceType
  BY <1>1, <1>3, Promises, Empties
<1>5. PositionOK' /\ MemoryOK' /\ CardsOK' /\ OriginsOK'
  BY <1>1, Unfolded, Kept DEF memory
<1>6. ControlOK'
  BY <1>1, Unfolded DEF ControlOK
<1>7. rpc # "open"
  BY SectionFacts, Unfolded DEF TurnsOK
<1>8. TurnsOK'
  BY <1>1, <1>2, <1>7, Unfolded DEF TurnsOK, memory, cards, position
<1> QED  BY <1>2, <1>4, <1>5, <1>6, <1>8, Folded

LEMMA TurnStartsStep == ASSUME ReaderOK, TurnStarts PROVE ReaderOK' /\ Grows
<1>1. /\ open /\ rpc = "idle" /\ mpc = "idle" /\ currentSpine < SpineCount /\ mpc' = "lock"
      /\ UNCHANGED <<position, memory, cards, history, sections, open, layout, requested, rpc, goal>>
  BY DEF TurnStarts, Reading, Free
<1>2. currentSpine \in Spine
  BY <1>1, Unfolded DEF PositionOK, Spine
<1>3. PositionOK' /\ MemoryOK' /\ CardsOK' /\ OriginsOK' /\ SectionOK' /\ Grows /\ place' \in PlaceType
  BY <1>1, Unfolded, Kept DEF memory, history
<1>4. ControlOK'
  BY <1>1, Unfolded DEF ControlOK
<1>5. TurnsOK'
  BY <1>1, <1>2 DEF TurnsOK, position
<1> QED  BY <1>3, <1>4, <1>5, Folded

LEMMA TurnLocksStep == ASSUME ReaderOK, TurnLocks PROVE ReaderOK' /\ Grows
<1>1. /\ mpc = "lock" /\ rpc = "idle" /\ mpc' = "turning" /\ cached' = Lapsed(cached)
      /\ UNCHANGED <<currentSpine, nextPage, jump, memory, cards, history, sections,
                     open, layout, requested, rpc, goal>>
  BY DEF TurnLocks
<1>2. PositionOK'
  BY <1>1, Unfolded, Empties DEF PositionOK
<1>3. MemoryOK' /\ CardsOK' /\ OriginsOK' /\ SectionOK' /\ Grows /\ place' \in PlaceType
  BY <1>1, Unfolded, Kept DEF memory, history
<1>4. ControlOK'
  BY <1>1, Unfolded DEF ControlOK
<1>5. TurnsOK'
  BY <1>1, Unfolded DEF TurnsOK
<1> QED  BY <1>2, <1>3, <1>4, <1>5, Folded

LEMMA TurnForwardStep ==
    ASSUME ReaderOK, mpc = "turning", section # NoSection, mpc' = "idle", TurnForward,
           UNCHANGED <<memory, cards, origins, open, layout, rpc, goal>>
    PROVE  ReaderOK' /\ Grows
<1>1. open /\ section.spine # None /\ currentSpine \in Spine /\ cp \in Nat
  BY Unfolded, SectionFacts DEF TurnsOK
<1>2. MemoryOK' /\ OriginsOK' /\ CardsOK'
  BY Unfolded, Kept DEF memory
<1>3. CASE TurnWithin(cp + 1)
  <2>1. cp + 1 \in Nat
    BY <1>1
  <2> QED  BY <1>1, <1>3, <2>1, TurnWithinStep
<1>4. CASE /\ currentSpine + 1 < SpineCount
           /\ rpc = "idle" /\ Leap(currentSpine + 1, 0, jump, Rest)
  <2>1. currentSpine + 1 \in Spine
    BY <1>1, <1>4 DEF Spine
  <2>2. Rest \in PlaceType
    BY <2>1, Promises, Empties DEF Rest
  <2>3. jump \in Jump
    BY Unfolded DEF PositionOK
  <2> QED  BY <1>1, <1>2, <1>4, <2>1, <2>2, <2>3, LeapStep
<1>5. CASE /\ currentSpine' = SpineCount /\ requested' = TRUE
           /\ place' = IF IsPartial \/ Reopening THEN NoPlace ELSE Promise(currentSpine, StartOf(cp, layout))
           /\ UNCHANGED <<nextPage, jump, cached, sections>>
  <2>1. PositionOK'
    BY <1>5, Unfolded DEF PositionOK
  <2>2. SectionOK' /\ Grows /\ place' \in PlaceType
    <3>1. StartOf(cp, layout) \in Nat
      BY <1>1, SectionFacts, PageNumbers
    <3>2. Promise(currentSpine, StartOf(cp, layout)) \in PlaceType
      BY <1>1, <3>1, Promises
    <3> QED  BY <1>5, <3>2, Unfolded, Kept, Empties
  <2>3. ControlOK'
    BY <1>5, Unfolded DEF ControlOK
  <2>4. rpc # "open"
    BY <1>1, SectionFacts, Unfolded DEF TurnsOK
  <2>5. TurnsOK'
    BY <1>1, <1>5, <2>4, Unfolded DEF TurnsOK, sections, memory, cards
  <2> QED  BY <1>2, <2>1, <2>2, <2>3, <2>5, Folded
<1> QED  BY <1>3, <1>4, <1>5 DEF TurnForward

LEMMA TurnBackStep ==
    ASSUME ReaderOK, mpc = "turning", section # NoSection, mpc' = "idle", TurnBack,
           UNCHANGED <<memory, cards, origins, open, layout, rpc, goal>>
    PROVE  ReaderOK' /\ Grows
<1>1. open /\ section.spine # None /\ currentSpine \in Spine /\ cp \in Nat
  BY Unfolded, SectionFacts DEF TurnsOK
<1>2. MemoryOK' /\ OriginsOK' /\ CardsOK'
  BY Unfolded, Kept DEF memory
<1>3. CASE cp > 0 /\ TurnWithin(cp - 1)
  <2>1. cp - 1 \in Nat
    BY <1>1, <1>3
  <2> QED  BY <1>1, <1>3, <2>1, TurnWithinStep
<1>4. CASE /\ currentSpine > 0 /\ rpc = "idle"
           /\ Leap(currentSpine - 1, 0, [jump EXCEPT !.last = TRUE],
                   Promise(currentSpine - 1, Length[currentSpine - 1]))
  <2>1. currentSpine - 1 \in Spine
    BY <1>1, <1>4 DEF Spine
  <2>2. Promise(currentSpine - 1, Length[currentSpine - 1]) \in PlaceType
    BY <2>1, Promises
  <2>3. [jump EXCEPT !.last = TRUE] \in Jump
    BY Unfolded DEF PositionOK, Jump
  <2> QED  BY <1>1, <1>2, <1>4, <2>1, <2>2, <2>3, LeapStep
<1>5. CASE requested' = TRUE /\ UNCHANGED <<position, place, sections>>
  <2>1. PositionOK' /\ SectionOK' /\ Grows /\ place' \in PlaceType
    BY <1>5, Unfolded, Kept
  <2>2. ControlOK'
    BY <1>5, Unfolded DEF ControlOK
  <2>3. TurnsOK'
    BY <1>1, <1>5, Unfolded DEF TurnsOK, sections, memory, cards, position
  <2> QED  BY <1>2, <2>1, <2>2, <2>3, Folded
<1> QED  BY <1>3, <1>4, <1>5 DEF TurnBack

LEMMA TurnMovesStep == ASSUME ReaderOK, TurnMoves PROVE ReaderOK' /\ Grows
<1>1. /\ mpc = "turning" /\ section # NoSection /\ mpc' = "idle"
      /\ UNCHANGED <<memory, cards, origins, open, layout, rpc, goal>>
  BY DEF TurnMoves
<1>2. TurnForward \/ TurnBack
  BY DEF TurnMoves
<1> QED  BY <1>1, <1>2, TurnForwardStep, TurnBackStep

LEMMA SkipForwardStep == ASSUME ReaderOK, SkipForward PROVE ReaderOK' /\ Grows
<1>1. /\ open /\ rpc = "idle" /\ mpc = "idle" /\ currentSpine < SpineCount
      /\ currentSpine' = currentSpine + 1 /\ nextPage' = 0 /\ requested' = TRUE /\ ResetSection
      /\ place' = IF currentSpine + 1 \in Spine THEN Promise(currentSpine + 1, 0) ELSE NoPlace
      /\ UNCHANGED <<jump, cached, memory, cards, origins, open, layout, rpc, goal, mpc>>
  BY DEF SkipForward, Asked, Reading, Free
<1>2. PositionOK'
  BY <1>1, Unfolded DEF PositionOK
<1>3. place' \in PlaceType
  BY <1>1, Promises, Empties
<1>4. MemoryOK' /\ OriginsOK' /\ layout' \in Layout
  BY <1>1, Unfolded, SectionFacts, Kept DEF memory
<1> QED  BY <1>1, <1>2, <1>3, <1>4, SentStep

LEMMA SkipBackStep == ASSUME ReaderOK, SkipBack PROVE ReaderOK' /\ Grows
<1>1. /\ open /\ mpc = "idle" /\ currentSpine < SpineCount /\ section # NoSection
      /\ UNCHANGED <<memory, cards, origins, open, layout, rpc, goal, mpc>>
  BY DEF SkipBack
<1>2. currentSpine \in Spine /\ section.spine # None
  BY <1>1, Unfolded, SectionFacts DEF PositionOK, Spine
<1>3. CASE TurnWithin(0)
  BY <1>1, <1>2, <1>3, TurnWithinStep
<1>4. CASE /\ currentSpine > 0 /\ rpc = "idle"
           /\ currentSpine' = currentSpine - 1 /\ nextPage' = 0 /\ requested' = TRUE
           /\ ResetSection /\ place' = Promise(currentSpine - 1, 0)
           /\ UNCHANGED <<jump, cached>>
  <2>1. currentSpine - 1 \in Spine /\ currentSpine - 1 \in 0 .. SpineCount
    BY <1>2, <1>4 DEF Spine
  <2>2. PositionOK' /\ place' \in PlaceType
    BY <1>4, <2>1, Unfolded, Promises DEF PositionOK
  <2>3. MemoryOK' /\ OriginsOK' /\ layout' \in Layout
    BY <1>1, Unfolded, SectionFacts, Kept DEF memory
  <2> QED  BY <1>1, <1>4, <2>2, <2>3, SentStep
<1> QED  BY <1>3, <1>4 DEF SkipBack

LEMMA ReturnFromEndOfBookStep == ASSUME ReaderOK, ReturnFromEndOfBook PROVE ReaderOK' /\ Grows
<1> DEFINE s == SpineCount - 1
<1>1. /\ open /\ rpc = "idle" /\ mpc = "idle"
      /\ currentSpine' = s /\ nextPage' = 0 /\ jump' = [jump EXCEPT !.last = TRUE]
      /\ requested' = TRUE /\ place' \in {place, NoPlace, Promise(s, Length[s])}
      /\ UNCHANGED <<cached, memory, cards, origins, sections, open, layout, rpc, goal, mpc>>
  BY DEF ReturnFromEndOfBook, Asked, Reading, Free
<1>2. s \in Spine
  BY DEF Spine
<1>3. [jump EXCEPT !.last = TRUE] \in Jump
  BY Unfolded DEF PositionOK, Jump
<1>4. PositionOK' /\ place' \in PlaceType
  BY <1>1, <1>2, <1>3, Unfolded, SpinesAreSpines, Promises, Empties DEF PositionOK
<1>5. MemoryOK' /\ CardsOK' /\ OriginsOK' /\ SectionOK' /\ Grows
  BY <1>1, Unfolded, Kept DEF memory
<1>6. ControlOK'
  BY <1>1, Unfolded DEF ControlOK
<1>7. TurnsOK'
  BY <1>1 DEF TurnsOK
<1> QED  BY <1>4, <1>5, <1>6, <1>7, Folded

-----------------------------------------------------------------------------
(* Going elsewhere in the book.                                            *)

LEMMA RelayoutStep == ASSUME ReaderOK, NEW l \in Layout, Relayout(l) PROVE ReaderOK' /\ Grows
<1>1. /\ open /\ rpc = "idle" /\ mpc = "idle" /\ layout' = l /\ ResetSection /\ requested' = TRUE
      /\ IF section # NoSection THEN Remember ELSE UNCHANGED <<cached, nextPage>>
      /\ place' = StillThere(l)
      /\ UNCHANGED <<currentSpine, jump, memory, cards, origins, open, rpc, goal, mpc>>
  BY DEF Relayout, Reading, Free
<1>2. place' \in PlaceType
  <2>1. place \in PlaceType /\ place.spine \in Spine /\ place.offset \in Nat /\ layout \in Layout
    BY Unfolded, SectionFacts DEF PlaceType
  <2>2. StartOf(PageOf(place.offset, layout), layout) \in Nat
    BY <2>1, PageNumbers
  <2> QED  BY <1>1, <2>1, <2>2, Empties, Promises DEF StillThere
<1>3. cached' \in CachedType /\ nextPage' \in Nat
  <2>1. CASE section = NoSection
    BY <1>1, <2>1, Unfolded DEF PositionOK
  <2>2. CASE section # NoSection
    <3> DEFINE o == IF cp < section.pageCount THEN OffsetOfPage(cp) ELSE None
    <3>1. o \in Nat \cup {None} /\ section.pageCount \in Nat /\ cp \in Nat
      BY <2>2, SectionFacts, AnswersAreNumbers
    <3>2. cached' = [spine |-> currentSpine, count |-> section.pageCount, offset |-> o] /\ nextPage' = cp
      BY <1>1, <2>2 DEF Remember
    <3> HIDE DEF o
    <3> QED  BY <3>1, <3>2, Unfolded DEF PositionOK, CachedType
  <2> QED  BY <2>1, <2>2
<1>4. PositionOK'
  BY <1>1, <1>3, Unfolded DEF PositionOK
<1>5. MemoryOK' /\ OriginsOK'
  BY <1>1, Unfolded, Kept DEF memory
<1> QED  BY <1>1, <1>2, <1>4, <1>5, SentStep

\* What is asked for on a page that has been drawn.
LEMMA AskedFacts == Asked => open /\ rpc = "idle" /\ mpc = "idle"
BY DEF Asked, Reading, Free

LEMMA Links ==
    ASSUME ReaderOK, NEW s \in Spine, NEW a \in Anchor \cup {None}
    PROVE  [jump EXCEPT !.anchor = a] \in Jump /\ AnchorPlace(s, a) \in PlaceType
<1>1. a \in Nat \cup {None}
  OBVIOUS
<1>2. [jump EXCEPT !.anchor = a] \in Jump
  BY <1>1, Unfolded DEF PositionOK, Jump
<1> QED  BY <1>1, <1>2, Promises DEF AnchorPlace

LEMMA SelectChapterStep ==
    ASSUME ReaderOK, NEW s \in Spine, NEW a \in Anchor \cup {None}, SelectChapter(s, a) PROVE ReaderOK' /\ Grows
<1>1. /\ open /\ rpc = "idle" /\ mpc = "idle"
      /\ Leap(s, 0, [jump EXCEPT !.anchor = a], AnchorPlace(s, a))
      /\ UNCHANGED <<memory, cards, origins, open, layout, rpc, goal, mpc>>
  BY AskedFacts DEF SelectChapter
<1>2. MemoryOK' /\ OriginsOK'
  BY <1>1, Unfolded, Kept DEF memory
<1> QED  BY <1>1, <1>2, Links, LeapStep

LEMMA JumpToPercentStep ==
    ASSUME ReaderOK, NEW s \in Spine, NEW q \in Percent, JumpToPercent(s, q) PROVE ReaderOK' /\ Grows
<1>1. /\ open /\ rpc = "idle" /\ mpc = "idle" /\ Leap(s, 0, [jump EXCEPT !.percent = q], NoPlace)
      /\ UNCHANGED <<memory, cards, origins, open, layout, rpc, goal, mpc>>
  BY AskedFacts DEF JumpToPercent
<1>2. MemoryOK' /\ OriginsOK'
  BY <1>1, Unfolded, Kept DEF memory
<1>3. q \in 0 .. 100
  OBVIOUS
<1>4. [jump EXCEPT !.percent = q] \in Jump
  BY <1>3, Unfolded DEF PositionOK, Jump
<1> QED  BY <1>1, <1>2, <1>4, Empties, LeapStep

LEMMA NavigateToHrefStep ==
    ASSUME ReaderOK, NEW s \in Spine, NEW a \in Anchor \cup {None}, NavigateToHref(s, a) PROVE ReaderOK' /\ Grows
<1> DEFINE e == [spine |-> currentSpine, page |-> cp]
           from == [spine |-> currentSpine, offset |-> StartOf(cp, layout), layout |-> layout]
<1>1. /\ open /\ rpc = "idle" /\ mpc = "idle" /\ currentSpine < SpineCount
      /\ IF CanSave THEN saved' = Append(saved, e) /\ origins' = Append(origins, from)
                    ELSE UNCHANGED <<saved, origins>>
      /\ Leap(s, 0, [jump EXCEPT !.anchor = a], AnchorPlace(s, a))
      /\ UNCHANGED <<lastSaved, retries, startFailed, pageOffset, cards, open, layout, rpc, goal, mpc>>
  BY AskedFacts DEF NavigateToHref
<1>2. e \in SavedType /\ from \in OriginType
  <2>1. currentSpine \in Spine
    BY <1>1, Unfolded DEF PositionOK, Spine
  <2> QED  BY <2>1, SectionFacts, PageNumbers DEF SavedType, OriginType
<1> HIDE DEF e, from
<1>3. MemoryOK' /\ OriginsOK'
  <2>1. CASE CanSave
    <3>1. Len(saved) < MaxDepth /\ saved \in Seq(SavedType) /\ origins \in Seq(OriginType)
          /\ Len(origins) = Len(saved)
      BY <2>1, Unfolded DEF CanSave, MemoryOK, OriginsOK
    <3>2. saved' = Append(saved, e) /\ origins' = Append(origins, from)
      BY <1>1, <2>1
    <3>3. saved' \in Seq(SavedType) /\ Len(saved') = Len(saved) + 1 /\ Len(saved) \in Nat
      BY <1>2, <3>1, <3>2, Appended
    <3>4. origins' \in Seq(OriginType) /\ Len(origins') = Len(origins) + 1
      BY <1>2, <3>1, <3>2, Appended
    <3>5. Len(saved') <= MaxDepth /\ Len(origins') = Len(saved')
      BY <3>1, <3>3, <3>4
    <3> QED  BY <1>1, <3>3, <3>4, <3>5, Unfolded DEF MemoryOK, OriginsOK
  <2>2. CASE ~CanSave
    BY <1>1, <2>2, Unfolded DEF MemoryOK, OriginsOK
  <2> QED  BY <2>1, <2>2
<1> QED  BY <1>1, <1>3, Links, LeapStep

\* An address that leads nowhere: how many positions are left.
LEMMA PositionsLeft ==
    ASSUME ReaderOK, HrefUnresolved
    PROVE  \E n \in 0 .. Len(saved) : saved' = SubSeq(saved, 1, n) /\ origins' = SubSeq(origins, 1, n)
<1> DEFINE n == IF CanSave THEN Len(saved) ELSE Greatest(Len(saved) - 1, 0)
<1>1. saved' = SubSeq(saved, 1, n) /\ origins' = SubSeq(origins, 1, n)
  BY DEF HrefUnresolved
<1>2. Len(saved) \in Nat
  BY Unfolded DEF MemoryOK
<1>3. n \in 0 .. Len(saved)
  BY <1>2 DEF Greatest
<1> HIDE DEF n
<1> QED  BY <1>1, <1>3

LEMMA HrefUnresolvedStep == ASSUME ReaderOK, HrefUnresolved PROVE ReaderOK' /\ Grows
<1>1. /\ open /\ rpc = "idle" /\ mpc = "idle" /\ requested' \in BOOLEAN
      /\ UNCHANGED <<position, lastSaved, retries, startFailed, pageOffset, cards, place, sections,
                     open, layout, rpc, goal, mpc>>
  BY AskedFacts DEF HrefUnresolved
<1>2. PICK n \in 0 .. Len(saved) : saved' = SubSeq(saved, 1, n) /\ origins' = SubSeq(origins, 1, n)
  BY PositionsLeft
<1>3. /\ saved \in Seq(SavedType) /\ origins \in Seq(OriginType) /\ Len(origins) = Len(saved)
      /\ Len(saved) <= MaxDepth
  BY Unfolded DEF MemoryOK, OriginsOK
<1>4. saved' \in Seq(SavedType) /\ Len(saved') = n /\ origins' \in Seq(OriginType) /\ Len(origins') = n
  BY <1>2, <1>3, Cut
<1>5. Len(saved') <= MaxDepth
  BY <1>2, <1>3, <1>4
<1>6. MemoryOK' /\ OriginsOK'
  BY <1>1, <1>4, <1>5, Unfolded DEF MemoryOK, OriginsOK
<1>7. PositionOK' /\ CardsOK' /\ SectionOK' /\ Grows /\ place' \in PlaceType
  BY <1>1, Unfolded, Kept
<1>8. ControlOK'
  BY <1>1, Unfolded DEF ControlOK
<1>9. TurnsOK'
  BY <1>1, Unfolded DEF TurnsOK, sections, cards
<1> QED  BY <1>6, <1>7, <1>8, <1>9, Folded

LEMMA RestoreSavedPositionStep == ASSUME ReaderOK, RestoreSavedPosition PROVE ReaderOK' /\ Grows
<1> DEFINE top == Len(saved)
           to == IF jump = NoJump THEN Origin(origins[top], "promised") ELSE NoPlace
<1>1. /\ open /\ rpc = "idle" /\ mpc = "idle" /\ saved # <<>>
      /\ saved' = SubSeq(saved, 1, top - 1) /\ origins' = SubSeq(origins, 1, top - 1)
      /\ Leap(saved[top].spine, saved[top].page, jump, to)
      /\ UNCHANGED <<lastSaved, retries, startFailed, pageOffset, cards, open, layout, rpc, goal, mpc>>
  BY AskedFacts DEF RestoreSavedPosition
<1>2. /\ saved \in Seq(SavedType) /\ origins \in Seq(OriginType) /\ Len(origins) = Len(saved)
      /\ Len(saved) <= MaxDepth
  BY Unfolded DEF MemoryOK, OriginsOK
<1>3. /\ saved[top] \in SavedType /\ top \in Nat \ {0}
      /\ saved' \in Seq(SavedType) /\ Len(saved') = top - 1
  BY <1>1, <1>2, Ends
<1>4. origins # <<>>
  BY <1>2, <1>3
<1>5. origins[top] \in OriginType /\ origins' \in Seq(OriginType) /\ Len(origins') = top - 1
  BY <1>1, <1>2, <1>4, Ends
<1>6. to \in PlaceType
  BY <1>5, Origins, Empties DEF Why
<1>7. saved[top].spine \in Spine /\ saved[top].page \in Nat /\ jump \in Jump
  BY <1>3, Unfolded DEF SavedType, PositionOK
<1> HIDE DEF to
<1>8. Len(saved') <= MaxDepth
  BY <1>2, <1>3
<1>9. MemoryOK' /\ OriginsOK'
  BY <1>1, <1>3, <1>5, <1>8, Unfolded DEF MemoryOK, OriginsOK
<1> QED  BY <1>1, <1>6, <1>7, <1>9, LeapStep

LEMMA OpenBookmarkStep ==
    ASSUME ReaderOK, NEW s \in Spine, NEW o \in Anchor, NEW l \in Layout, OpenBookmark(s, o, l)
    PROVE  ReaderOK' /\ Grows
<1>1. /\ open /\ rpc = "idle" /\ mpc = "idle"
      /\ UNCHANGED <<memory, cards, origins, open, layout, rpc, goal, mpc>>
  BY AskedFacts DEF OpenBookmark
<1>2. MemoryOK' /\ CardsOK' /\ OriginsOK'
  BY <1>1, Unfolded, Kept DEF memory
<1>3. o \in Nat /\ PageOf(o, l) \in Nat /\ Promise(s, o) \in PlaceType /\ NoPlace \in PlaceType
  BY PageNumbers, Promises, Empties
<1>4. CASE section # NoSection /\ currentSpine = s
  <2> DEFINE p == IF PageForOffset(o) = None THEN PageOf(o, l) ELSE PageForOffset(o)
  <2>1. /\ cached' = Lapsed(cached) /\ requested' = TRUE /\ section' = [section EXCEPT !.currentPage = p]
        /\ place' = Promise(s, o) \/ place' = NoPlace
        /\ UNCHANGED <<bin, currentSpine, nextPage, jump>>
    BY <1>4 DEF OpenBookmark
  <2>2. section.spine # None /\ p \in Nat
    BY <1>3, <1>4, SectionFacts, AnswersAreNumbers
  <2> HIDE DEF p
  <2>3. SectionOK' /\ Grows
    BY <1>1, <2>1, <2>2, PageSet
  <2>4. PositionOK'
    BY <2>1, Unfolded, Empties DEF PositionOK
  <2>5. ControlOK'
    BY <1>1, <2>1, Unfolded DEF ControlOK
  <2>6. TurnsOK'
    BY <1>1 DEF TurnsOK
  <2> QED  BY <1>2, <1>3, <2>1, <2>3, <2>4, <2>5, <2>6, Folded
<1>5. CASE ~(section # NoSection /\ currentSpine = s)
  <2> DEFINE to == IF l = layout THEN Promise(s, o) ELSE NoPlace
  <2>1. Leap(s, PageOf(o, l), [jump EXCEPT !.offset = o], to)
    BY <1>5 DEF OpenBookmark
  <2>2. [jump EXCEPT !.offset = o] \in Jump /\ to \in PlaceType
    BY <1>3, Unfolded DEF PositionOK, Jump
  <2> HIDE DEF to
  <2> QED  BY <1>1, <1>2, <1>3, <2>1, <2>2, LeapStep
<1> QED  BY <1>4, <1>5

-----------------------------------------------------------------------------
(* What loop() builds while nothing is drawn.                              *)

LEMMA ExtendsPartialStep == ASSUME ReaderOK, ExtendsPartial PROVE ReaderOK' /\ Grows
<1>1. /\ open /\ rpc = "idle" /\ mpc = "idle" /\ section # NoSection /\ ~IsBuilding /\ IsPartial
      /\ StartBuild(layout) \/ StartBuildFails
      /\ startFailed' \in {startFailed, TRUE} /\ place' \in {place, NoPlace}
      /\ UNCHANGED <<position, saved, lastSaved, retries, pageOffset, cards, origins, control>>
  BY DEF ExtendsPartial, Reading, Free
<1>2. section.spine # None /\ section.build = None /\ ~bin[section.spine].whole
  BY <1>1, SectionFacts, CacheFacts DEF IsBuilding, IsPartial, SectionFits
<1>3. SectionOK' /\ Grows
  BY <1>1, <1>2, SectionStep DEF control
<1>4. PositionOK' /\ CardsOK' /\ OriginsOK' /\ ControlOK' /\ place' \in PlaceType
  BY <1>1, Unfolded, Kept, Empties
<1>5. MemoryOK'
  BY <1>1, Unfolded DEF MemoryOK
<1>6. TurnsOK'
  BY <1>1 DEF TurnsOK, control
<1> QED  BY <1>3, <1>4, <1>5, <1>6, Folded

LEMMA BackgroundBuildStep == ASSUME ReaderOK, BackgroundBuild PROVE ReaderOK' /\ Grows
<1>1. /\ open /\ rpc = "idle" /\ mpc = "idle" /\ IsBuilding
      /\ UNCHANGED <<position, memory, cards, origins, open, layout, rpc, goal>>
      /\ \/ /\ BuildSomeMore /\ mpc' \in {"idle", "reposition"}
            /\ UNCHANGED <<requested, place>>
         \/ BuildFails /\ requested' = TRUE /\ place' = NoPlace /\ UNCHANGED mpc
  BY DEF BackgroundBuild, Reading, Free, BuildSomeMore
<1>2. PositionOK' /\ MemoryOK' /\ CardsOK' /\ OriginsOK' /\ place' \in PlaceType
  BY <1>1, Unfolded, Kept, Empties DEF memory
<1>3. ControlOK'
  BY <1>1, Unfolded DEF ControlOK
<1>4. section.spine # None
  BY <1>1, SectionFacts, BuildingFacts, SpinesAreSpines
<1>5. CASE BuildSomeMore /\ mpc' \in {"idle", "reposition"}
  <2>1. SectionOK' /\ Grows /\ section'.spine = section.spine
    BY <1>1, <1>4, <1>5, SectionStep
  <2>2. TurnsOK'
    BY <1>1, <1>4, <1>5, <2>1 DEF TurnsOK
  <2> QED  BY <1>2, <1>3, <2>1, <2>2, Folded
<1>6. CASE BuildFails /\ UNCHANGED mpc
  <2>1. FilesFit(bin') /\ Grows /\ section' = NoSection
    BY <1>6, SectionFacts, BuildGivenUp
  <2>2. SectionOK'
    BY <2>1, SectionGone
  <2>3. TurnsOK'
    BY <1>1, <1>6 DEF TurnsOK
  <2> QED  BY <1>2, <1>3, <2>1, <2>2, <2>3, Folded
<1> QED  BY <1>1, <1>5, <1>6

LEMMA RepositionStep == ASSUME ReaderOK, Reposition PROVE ReaderOK' /\ Grows
<1>1. /\ mpc = "reposition" /\ section' = [section EXCEPT !.currentPage = Repositioned(cp)]
      /\ cached' = cached \/ cached' = Lapsed(cached)
      /\ requested' \in BOOLEAN /\ mpc' = "idle" /\ place' \in {place, NoPlace}
      /\ UNCHANGED <<bin, currentSpine, nextPage, jump, memory, cards, origins, open, layout, rpc, goal>>
  <2>1. requested' \in BOOLEAN
    BY Unfolded DEF Reposition, ControlOK
  <2> QED  BY <2>1 DEF Reposition
<1>2. section.spine # None /\ rpc = "idle" /\ open
  BY <1>1, Unfolded DEF TurnsOK
<1>3. SectionOK' /\ Grows
  BY <1>1, <1>2, SectionFacts, PagesMoved, PageSet
<1>4. PositionOK'
  BY <1>1, Unfolded, Empties DEF PositionOK
<1>5. MemoryOK' /\ CardsOK' /\ OriginsOK' /\ place' \in PlaceType
  BY <1>1, Unfolded, Kept, Empties DEF memory
<1>6. ControlOK'
  BY <1>1, Unfolded DEF ControlOK
<1>7. TurnsOK'
  BY <1>1, <1>2 DEF TurnsOK
<1> QED  BY <1>3, <1>4, <1>5, <1>6, <1>7, Folded

-----------------------------------------------------------------------------
(* The book is opened and closed.                                          *)

\* What is left after the book is closed, or power was lost.
LEMMA ClosedStep ==
    ASSUME ReaderOK, open' = FALSE, saving' = None, FreshRam, place' \in PlaceType, UNCHANGED layout,
           progress' \in ProgressType, FilesFit(bin'), section' = NoSection
    PROVE  ReaderOK'
<1>1. /\ currentSpine' = 0 /\ nextPage' = 0 /\ jump' = NoJump
      /\ cached' = [spine |-> 0, count |-> 0, offset |-> None]
      /\ saved' = <<>> /\ retries' = 0 /\ startFailed' = FALSE /\ pageOffset' = None
      /\ requested' = FALSE /\ rpc' = "idle" /\ goal' = None /\ mpc' = "idle" /\ origins' = <<>>
  BY DEF FreshRam
<1>2. PositionOK'
  BY <1>1, Empties DEF PositionOK, CachedType
<1>3. MemoryOK' /\ OriginsOK'
  <2>1. saved' \in Seq(SavedType) /\ Len(saved') = 0 /\ origins' \in Seq(OriginType) /\ Len(origins') = 0
    BY <1>1, NothingSaved
  <2>2. retries' \in 0 .. MaxRetries
    BY <1>1
  <2>3. startFailed' \in BOOLEAN /\ pageOffset' \in Nat \cup {None}
    BY <1>1
  <2> QED  BY <2>1, <2>2, <2>3 DEF MemoryOK, OriginsOK
<1>4. CardsOK'
  BY DEF CardsOK
<1>5. ControlOK'
  BY <1>1, SectionFacts DEF ControlOK
<1>6. SectionOK'
  BY SectionGone
<1>7. TurnsOK'
  BY <1>1 DEF TurnsOK
<1> QED  BY <1>2, <1>3, <1>4, <1>5, <1>6, <1>7, Folded

LEMMA LeftStep ==
    ASSUME ReaderOK, NEW where \in PlaceType, Left(where), progress' \in ProgressType
    PROVE  ReaderOK' /\ Grows
<1>1. /\ open' = FALSE /\ saving' = None /\ ResetSection /\ FreshRam /\ place' = where /\ UNCHANGED layout
  BY DEF Left
<1>2. FilesFit(bin') /\ Grows /\ section' = NoSection
  BY <1>1, SectionFacts, SectionReset
<1> QED  BY <1>1, <1>2, ClosedStep

LEMMA PowerLossStep == ASSUME ReaderOK, PowerLoss PROVE ReaderOK' /\ Grows
<1>1. /\ open' = FALSE /\ saving' = None /\ SectionLost /\ FreshRam /\ place' \in {place, NoPlace}
      /\ UNCHANGED <<layout, progress>>
  BY DEF PowerLoss
<1>2. FilesFit(bin') /\ Grows /\ section' = NoSection
  BY <1>1, SectionFacts, RamLost
<1>3. place' \in PlaceType /\ progress' \in ProgressType
  BY <1>1, Unfolded, Empties DEF CardsOK
<1> QED  BY <1>1, <1>2, <1>3, ClosedStep

LEMMA OpenBookStep == ASSUME ReaderOK, OpenBook PROVE ReaderOK' /\ Grows
<1>1. /\ ~open /\ open' = TRUE /\ requested' = TRUE
      /\ currentSpine' = progress.spine /\ nextPage' = progress.page
      /\ cached' = [spine |-> progress.spine, count |-> progress.count, offset |-> progress.offset]
      /\ UNCHANGED <<layout, jump, rpc, goal, mpc, memory, cards, history, sections>>
  BY DEF OpenBook
<1>2. rpc = "idle" /\ mpc = "idle"
  BY <1>1, Unfolded DEF TurnsOK
<1>3. progress \in ProgressType
  BY Unfolded DEF CardsOK
<1>4. PositionOK'
  BY <1>1, <1>3, Unfolded DEF PositionOK, ProgressType, CachedType
<1>5. MemoryOK' /\ CardsOK' /\ OriginsOK' /\ SectionOK' /\ Grows /\ place' \in PlaceType
  BY <1>1, Unfolded, Kept DEF memory, history
<1>6. ControlOK'
  BY <1>1, Unfolded DEF ControlOK
<1>7. TurnsOK'
  BY <1>1, <1>2 DEF TurnsOK
<1> QED  BY <1>4, <1>5, <1>6, <1>7, Folded

\* The files of another layout stay until they are opened.
LEMMA ChangeSettingsStep == ASSUME ReaderOK, ChangeSettings PROVE ReaderOK' /\ Grows
<1>1. /\ ~open /\ layout' \in Layout
      /\ place' \in {place, [place EXCEPT !.by = "origin"]}
      /\ UNCHANGED <<position, memory, cards, origins, sections, open, requested, rpc, goal, mpc>>
  BY DEF ChangeSettings
<1>2. section = NoSection /\ rpc = "idle" /\ mpc = "idle"
  BY <1>1, Unfolded DEF TurnsOK
<1>3. FilesFit(bin') /\ Grows /\ section' = NoSection
  BY <1>1, <1>2, SectionFacts, FilesKept DEF sections
<1>4. SectionOK'
  BY <1>3, SectionGone
<1>5. place' \in PlaceType
  BY <1>1, Unfolded DEF PlaceType
<1>6. PositionOK' /\ MemoryOK' /\ CardsOK' /\ OriginsOK'
  BY <1>1, Unfolded, Kept DEF memory
<1>7. ControlOK'
  BY <1>1, Unfolded DEF ControlOK
<1>8. TurnsOK'
  BY <1>1, <1>2, <1>3 DEF TurnsOK
<1> QED  BY <1>3, <1>4, <1>5, <1>6, <1>7, <1>8, Folded

LEMMA DeleteCacheStep == ASSUME ReaderOK, DeleteCache PROVE ReaderOK' /\ Grows
<1>1. /\ open /\ rpc = "idle" /\ section # NoSection
      /\ section' = NoSection /\ bin' = [s \in Spine |-> NoFile]
      /\ progress' = NoProgress /\ saving' = Record(currentSpine, cp, section.pageCount, None)
      /\ mpc' = "deleting" /\ place' = NoPlace
      /\ UNCHANGED <<position, memory, origins, open, layout, requested, rpc, goal>>
  BY AskedFacts DEF DeleteCache
<1>2. FilesFit(bin')
  BY <1>1, NoFileFits DEF FilesFit
<1>3. Grows
  BY <1>1 DEF Grows, NoFile
<1>4. SectionOK'
  BY <1>1, <1>2, SectionGone
<1>5. saving' \in ProgressType
  BY <1>1, Unfolded, SectionFacts DEF Record, ProgressType, PositionOK
<1>6. CardsOK' /\ place' \in PlaceType
  BY <1>1, <1>5, Empties DEF CardsOK
<1>7. PositionOK' /\ MemoryOK' /\ OriginsOK'
  BY <1>1, Unfolded, Kept DEF memory
<1>8. ControlOK'
  BY <1>1, Unfolded DEF ControlOK
<1>9. TurnsOK'
  BY <1>1, <1>5 DEF TurnsOK
<1> QED  BY <1>3, <1>4, <1>6, <1>7, <1>8, <1>9, Folded

LEMMA DeleteFinishesStep == ASSUME ReaderOK, DeleteFinishes PROVE ReaderOK' /\ Grows
<1>1. /\ mpc = "deleting" /\ mpc' = "leaving" /\ saving' = None /\ progress' \in {saving, NoProgress}
      /\ UNCHANGED <<position, memory, history, sections, open, layout, requested, rpc, goal>>
  BY DEF DeleteFinishes
<1>2. saving \in ProgressType /\ rpc = "idle" /\ open
  BY <1>1, Unfolded DEF TurnsOK
<1>3. CardsOK'
  BY <1>1, <1>2, Empties DEF CardsOK
<1>4. PositionOK' /\ MemoryOK' /\ OriginsOK' /\ SectionOK' /\ Grows /\ place' \in PlaceType
  BY <1>1, Unfolded, Kept DEF memory, history
<1>5. ControlOK'
  BY <1>1, Unfolded DEF ControlOK
<1>6. TurnsOK'
  BY <1>1, <1>2 DEF TurnsOK
<1> QED  BY <1>3, <1>4, <1>5, <1>6, Folded

LEMMA CloseBookStep == ASSUME ReaderOK, CloseBook PROVE ReaderOK' /\ Grows
<1>1. open /\ rpc = "idle" /\ mpc \in {"idle", "leaving"}
  BY DEF CloseBook
<1>2. CASE saved = <<>>
  <2> DEFINE where == IF place.by = "shown" THEN place ELSE NoPlace
  <2>1. Left(where) /\ UNCHANGED progress
    BY <1>2 DEF CloseBook
  <2>2. where \in PlaceType /\ progress' \in ProgressType
    BY <2>1, Unfolded, Empties DEF CardsOK
  <2> HIDE DEF where
  <2> QED  BY <2>1, <2>2, LeftStep
<1>3. CASE saved # <<>>
  <2>1. /\ saving' = Record(saved[1].spine, saved[1].page, 0, OffsetToSave(saved[1].spine, saved[1].page))
        /\ progress' = NoProgress /\ mpc' = "closing"
        /\ UNCHANGED <<position, memory, history, sections, open, layout, requested, rpc, goal>>
    BY <1>3 DEF CloseBook
  <2>2. saved[1] \in SavedType
    BY <1>3, Unfolded, Ends DEF MemoryOK
  <2>3. saved[1].spine \in Spine /\ saved[1].page \in Nat
    BY <2>2 DEF SavedType
  <2>4. saving' \in ProgressType
    BY <2>1, <2>3, OffsetsSaved, Records
  <2>5. CardsOK'
    BY <2>1, <2>4, Empties DEF CardsOK
  <2>6. PositionOK' /\ MemoryOK' /\ OriginsOK' /\ SectionOK' /\ Grows /\ place' \in PlaceType
    BY <2>1, Unfolded, Kept DEF memory, history
  <2>7. ControlOK'
    BY <2>1, Unfolded DEF ControlOK
  <2>8. TurnsOK'
    BY <1>1, <1>3, <2>1, <2>4 DEF TurnsOK, memory
  <2> QED  BY <2>5, <2>6, <2>7, <2>8, Folded
<1> QED  BY <1>2, <1>3

LEMMA CloseFinishesStep == ASSUME ReaderOK, CloseFinishes PROVE ReaderOK' /\ Grows
<1>1. mpc = "closing" /\ saved # <<>> /\ saving \in ProgressType
  BY Unfolded DEF CloseFinishes, TurnsOK
<1>2. origins[1] \in OriginType
  <2>1. origins \in Seq(OriginType) /\ Len(origins) = Len(saved) /\ saved \in Seq(SavedType)
    BY Unfolded DEF OriginsOK, MemoryOK
  <2>2. Len(saved) \in Nat \ {0}
    BY <1>1, <2>1, Ends
  <2>3. origins # <<>>
    BY <2>1, <2>2
  <2> QED  BY <2>1, <2>3, Ends
<1>3. Origin(origins[1], IF saving.offset \in {None, origins[1].offset} THEN "shown" ELSE "origin") \in PlaceType
  BY <1>2, Origins DEF Why
<1>4. progress' \in ProgressType
  BY <1>1, Unfolded DEF CloseFinishes, CardsOK
<1> QED  BY <1>3, <1>4, LeftStep, Empties DEF CloseFinishes

-----------------------------------------------------------------------------
LEMMA InitReader == Init => ReaderOK
<1> SUFFICES ASSUME Init PROVE ReaderOK
  OBVIOUS
<1>1. FilesFit(bin) /\ section = NoSection
  BY NoFileFits DEF Init, FilesFit
<1>2. SectionOK
  BY <1>1, NoSectionFits DEF SectionOK
<1>3. PositionOK
  BY Empties DEF Init, PositionOK, CachedType
<1>4. MemoryOK /\ OriginsOK
  <2>1. saved \in Seq(SavedType) /\ Len(saved) = 0 /\ origins \in Seq(OriginType) /\ Len(origins) = 0
    BY NothingSaved DEF Init
  <2>2. retries \in 0 .. MaxRetries
    BY DEF Init
  <2>3. startFailed \in BOOLEAN /\ pageOffset \in Nat \cup {None}
    BY DEF Init
  <2> QED  BY <2>1, <2>2, <2>3 DEF MemoryOK, OriginsOK
<1>5. CardsOK /\ place \in PlaceType
  BY Empties DEF Init, CardsOK
<1>6. ControlOK /\ TurnsOK
  BY DEF Init, ControlOK, TurnsOK
<1> QED  BY <1>2, <1>3, <1>4, <1>5, <1>6 DEF ReaderOK

LEMMA OperationStep == ASSUME ReaderOK, Operation PROVE ReaderOK' /\ Grows
BY TurnStartsStep, SkipForwardStep, SkipBackStep, ReturnFromEndOfBookStep, HrefUnresolvedStep, RestoreSavedPositionStep,
   DeleteCacheStep, CloseBookStep, RelayoutStep, SelectChapterStep, NavigateToHrefStep, OpenBookmarkStep,
   JumpToPercentStep DEF Operation

LEMMA MainStep == ASSUME ReaderOK, Main PROVE ReaderOK' /\ Grows
BY OpenBookStep, ChangeSettingsStep, TurnLocksStep, TurnMovesStep, ExtendsPartialStep, BackgroundBuildStep,
   RepositionStep, DeleteFinishesStep, CloseFinishesStep DEF Main

LEMMA NextReader == ReaderOK /\ [Next]_vars => ReaderOK' /\ Grows
<1> SUFFICES ASSUME ReaderOK, [Next]_vars PROVE ReaderOK' /\ Grows
  OBVIOUS
<1>1. CASE Next
  BY <1>1, OperationStep, MainStep, RenderStep, PowerLossStep DEF Next
<1>2. CASE UNCHANGED vars
  <2>1. /\ UNCHANGED <<position, memory, cards, origins, place, sections>>
        /\ UNCHANGED <<open, layout, requested, rpc, goal, mpc>>
    BY <1>2 DEF vars, history, control
  <2>2. PositionOK' /\ MemoryOK' /\ CardsOK' /\ OriginsOK' /\ SectionOK' /\ Grows /\ place' \in PlaceType
    BY <2>1, Unfolded, Kept DEF memory
  <2>3. ControlOK'
    BY <2>1, Unfolded DEF ControlOK
  <2>4. TurnsOK'
    BY <2>1, Unfolded DEF TurnsOK, sections, position, memory, cards
  <2> QED  BY <2>2, <2>3, <2>4, Folded
<1> QED  BY <1>1, <1>2

LEMMA AskedBound == asked \in 0 .. MaxAsked /\ [Next]_vars => asked' \in 0 .. MaxAsked
BY DEF Next, vars

LEMMA ReaderInvariant == Spec => [](ReaderOK /\ asked \in 0 .. MaxAsked)
<1>1. Init => ReaderOK /\ asked \in 0 .. MaxAsked
  BY InitReader DEF Init
<1>2. (ReaderOK /\ asked \in 0 .. MaxAsked) /\ [Next]_vars => (ReaderOK /\ asked \in 0 .. MaxAsked)'
  BY NextReader, AskedBound
<1> QED  BY <1>1, <1>2, PTL DEF Spec

-----------------------------------------------------------------------------
(* The theorems.                                                           *)

\* EpubReaderActivity: what it keeps has its type, saved positions are no more than there is room
\* for, and what is read back from progress.bin is a position.
THEOREM ReaderTypeCorrect == Spec => []TypeOK
<1>1. ReaderOK /\ asked \in 0 .. MaxAsked => TypeOK
  <2> SUFFICES ASSUME ReaderOK, asked \in 0 .. MaxAsked PROVE TypeOK
    OBVIOUS
  <2>1. SectionTypeOK
    BY Unfolded, CacheFacts, SectionFacts DEF SectionTypeOK, FilesFit
  <2>2. saved \in Seq([spine : Spine, page : Int])
    <3>1. saved \in Seq(SavedType)
      BY Unfolded DEF MemoryOK
    <3>2. SavedType \subseteq [spine : Spine, page : Int]
      BY DEF SavedType
    <3> QED  BY <3>1, <3>2, SeqMonotonic
  <2>3. progress \in SavedProgress /\ saving \in SavedProgress \cup {None}
    BY Unfolded DEF CardsOK, ProgressType, SavedProgress
  <2>4. nextPage \in Int /\ cached \in [spine : 0 .. SpineCount, count : Nat, offset : Nat \cup {None}]
    BY Unfolded DEF PositionOK, CachedType
  <2> QED
    BY <2>1, <2>2, <2>3, <2>4, Unfolded DEF TypeOK, PositionOK, MemoryOK, ControlOK
<1> QED  BY <1>1, ReaderInvariant, PTL

\* Section::pageCount: every page below it can be loaded, from the build or the card, all in one
\* layout, whatever was built, suspended, lost or removed before.
THEOREM PagesStayReadable == Spec => []PagesAreReadable
<1>1. ReaderOK => PagesAreReadable
  BY SectionFacts, Readable
<1> QED  BY <1>1, ReaderInvariant, PTL

\* renderBook() draws no page that was laid out for other settings.
THEOREM CurrentLayoutIsDrawn == Spec => []LayoutIsCurrent
<1>1. ReaderOK => LayoutIsCurrent
  BY SectionFacts, PagesAreCurrent DEF LayoutIsCurrent
<1> QED  BY <1>1, ReaderInvariant, PTL

\* suspendBuild() and finalizeBuild(): laid-out pages on the card are never replaced by fewer.
THEOREM LaidOutPagesStay == Spec => CoverageGrows
<1>1. ReaderOK /\ [Next]_vars => Grows
  BY NextReader
<1>2. Grows => [\A s \in Spine : bin'[s].layout = bin[s].layout /\ bin[s].layout # None
                    => bin'[s].pages >= bin[s].pages /\ (bin[s].whole => bin'[s].whole)]_<<bin, section>>
  BY DEF Grows
<1> QED  BY <1>1, <1>2, ReaderInvariant, PTL DEF Spec, CoverageGrows

-----------------------------------------------------------------------------
(* Where the page to be drawn is known from, wherever the two tasks are.   *)

\* The place that has to be on the next page drawn, or is on the last one.
Held == place.by \in {"promised", "shown", "unsaved", "drawn"}

Has == section.spine # None
Here == Least(currentSpine, SpineCount - 1)

\* Page p has the place, or would if the chapter were long enough.
Hits(p) == Least(p, Pages(place.spine, layout) - 1) = PageOf(place.offset, layout)

\* The history of the saved positions is theirs.
StackKept == \A i \in 1 .. Len(saved) : /\ origins[i].spine = saved[i].spine
                                        /\ origins[i].offset = StartOf(saved[i].page, origins[i].layout)

Finding == rpc \in {"plan", "reach", "place"}

\* The section that is open is the reader's, and is what the render task takes it for.
SectionHere ==
    /\ Has => section.spine = Here
    /\ rpc = "reach" => IF section.complete THEN section.build = None /\ WholeOnCard ELSE section.build # None
    /\ rpc = "place" => section.build = None /\ (WholeOnCard \/ CoversTarget)
    /\ mpc = "reposition" => section.build = None

\* A pending jump is used up when its page is found; a percentage of nothing stays.
JumpsUsed == Has /\ ~Finding =>
    /\ jump.anchor = None /\ jump.offset = None
    /\ jump.percent = None \/ (section.pageCount = 0 /\ section.build = None /\ section.partialPages = 0)

\* A deferred reposition has an offset only until the section it is for is there, ...
OffsetWaits == cached.offset = None \/ (/\ jump.anchor = None /\ jump.percent = None
                                        /\ jump.offset # None \/ jump.last \/ currentSpine = cached.spine)

\* ... and has lapsed wherever a page could be taken for another because of it.
Repositions ==
    /\ ~Has \/ Finding => OffsetWaits
    /\ Has /\ ~Finding =>
           cached.offset = None \/ (rpc = "extend" /\ section.build = None /\ section.partialPages = 0)
    /\ mpc = "turning" \/ rpc = "place" => cached = Lapsed(cached)
    /\ rpc = "plan" /\ bin[section.spine] # NoFile => cached = Lapsed(cached)
    /\ currentSpine = SpineCount /\ Has => cached = Lapsed(cached)
    /\ rpc = "load" => section.build # None \/ cached = Lapsed(cached)
    /\ rpc \in {"reach", "place"} => goal = OffsetJump

\* The place is found by the offset of the deferred reposition, ...
ByOffset == /\ jump = NoJump /\ cached.spine = currentSpine /\ cached.offset = place.offset
            /\ IF Has
               THEN rpc # "place" /\ (rpc = "plan" => bin[currentSpine] = NoFile)
               ELSE \E l \in Layout : nextPage = PageOf(place.offset, l) /\ bin[currentSpine].layout \in {l, None}

\* ... or it is on nextPage, where nothing that was deferred interferes, or a jump leads to it.
Undisturbed == cached.spine = currentSpine => cached = Lapsed(cached)
ByPage == jump = NoJump /\ Hits(nextPage) /\ (Undisturbed \/ (cached.offset = None /\ nextPage = 0))
ByEnd == jump = [NoJump EXCEPT !.last = TRUE] /\ Undisturbed /\ place.offset = Length[currentSpine] - 1
ByAnchor == /\ jump.anchor # None /\ jump = [NoJump EXCEPT !.anchor = jump.anchor] /\ Undisturbed /\ nextPage = 0
            /\ place.offset = IF jump.anchor < Length[currentSpine] THEN jump.anchor ELSE 0
ByMark == /\ jump = [NoJump EXCEPT !.offset = place.offset] /\ Undisturbed
          /\ nextPage = PageOf(place.offset, layout)
Leads == currentSpine = place.spine /\ (ByOffset \/ ByPage \/ ByEnd \/ ByAnchor \/ ByMark)

\* The page of the section is right, and stays so until it is drawn.
Shows == /\ place.spine = section.spine /\ Hits(cp)
         /\ \/ Undisturbed
            \/ mpc = "reposition"
            \/ section.build # None /\ cp < section.pageCount
            \/ cached.offset = None /\ cp = 0

PlaceKnown == Held =>
    /\ place.offset < Length[place.spine]
    /\ open /\ ~Has /\ currentSpine # SpineCount => Leads /\ mpc \notin {"lock", "turning"}
    /\ Finding => Leads
    /\ Has /\ ~Finding => Shows

\* The page drawn, and the record of it on its way to the card.
PageDrawn ==
    /\ rpc \in {"save", "replace"} => place.by \in {"drawn", "none", "promised", "leftover"}
    /\ place.by = "drawn" =>
           /\ rpc \in {"save", "replace"} /\ cp < section.pageCount
           /\ place.offset = StartOf(cp, layout) /\ pageOffset = place.offset
           /\ rpc = "replace" => saving.page = cp /\ saving.offset = place.offset
    /\ rpc = "replace" => saving.spine \in {Here, SpineCount}
    /\ place.by \in {"drawn", "shown"} /\ Has /\ rpc # "plan" => section.pageCount > 0 \/ section.build # None

\* What progress.bin says leads back to the place.
OnCard == /\ progress.spine \in {place.spine, SpineCount}
          /\ IF progress.offset = None THEN ~Has /\ progress.count = 0 /\ Hits(progress.page)
             ELSE /\ progress.offset = place.offset
                  /\ IF Has THEN progress.page = PageOf(place.offset, layout)
                     ELSE \E l \in Layout : progress.page = PageOf(place.offset, l)
                                            /\ bin[place.spine].layout \in {l, None}
LastSavedThere == lastSaved # None /\ progress.offset # None =>
                      progress.spine \in {Least(lastSaved[1], SpineCount - 1), SpineCount}
ProgressKept ==
    /\ place.by = "shown" /\ rpc = "idle" /\ mpc # "closing" => OnCard
    /\ LastSavedThere
    /\ mpc = "deleting" => saving.offset = None /\ ~Held
    /\ mpc = "closing" =>
           /\ saving.spine = saved[1].spine /\ saving.page = saved[1].page /\ saving.count = 0
           /\ saving.offset # None => /\ saving.page < Pages(saving.spine, layout)
                                      /\ bin[saving.spine].layout \in {layout, None}
    /\ ~open => jump = NoJump /\ place.by \notin {"promised", "unsaved", "drawn"}

PlaceInv == /\ FilesWhole /\ BuildAhead /\ StackKept /\ SectionHere /\ JumpsUsed /\ Repositions
            /\ PlaceKnown /\ PageDrawn /\ ProgressKept

LEMMA PlaceUnfolded ==
    ASSUME PlaceInv
    PROVE  /\ FilesWhole /\ BuildAhead /\ StackKept /\ SectionHere /\ JumpsUsed /\ Repositions
           /\ PlaceKnown /\ PageDrawn /\ ProgressKept
BY DEF PlaceInv

LEMMA PlaceFolded ==
    ASSUME FilesWhole', BuildAhead', StackKept', SectionHere', JumpsUsed', Repositions',
           PlaceKnown', PageDrawn', ProgressKept'
    PROVE  PlaceInv'
BY DEF PlaceInv

LEMMA LapsedFacts ==
    ASSUME NEW c \in CachedType
    PROVE  /\ Lapsed(c).spine = c.spine /\ Lapsed(c).offset = None /\ Lapsed(c).count = 0
           /\ c = Lapsed(c) <=> c.count = 0 /\ c.offset = None
           /\ Lapsed(Lapsed(c)) = Lapsed(c)
BY DEF Lapsed, CachedType

LEMMA NoJumpFacts ==
    /\ NoJump.last = FALSE /\ NoJump.anchor = None /\ NoJump.offset = None /\ NoJump.percent = None
BY DEF NoJump

LEMMA HereFacts ==
    ASSUME ReaderOK
    PROVE  /\ currentSpine \in 0 .. SpineCount /\ (currentSpine # SpineCount <=> currentSpine \in Spine)
           /\ currentSpine \in Spine => Here = currentSpine
           /\ currentSpine = SpineCount => Here = SpineCount - 1
           /\ Here \in Spine /\ SpineCount - 1 \in Spine /\ SpineCount \notin Spine
<1>1. currentSpine \in 0 .. SpineCount
  BY Unfolded DEF PositionOK
<1> QED  BY <1>1 DEF Here, Spine, Least

LEMMA PlaceFacts ==
    ASSUME ReaderOK
    PROVE  /\ place.spine \in Spine /\ place.offset \in Nat /\ place.spine # SpineCount
           /\ layout \in Layout /\ Pages(place.spine, layout) \in Nat
           /\ PageOf(place.offset, layout) \in Nat
<1>1. place.spine \in Spine /\ place.offset \in Nat /\ layout \in Layout
  BY Unfolded, SectionFacts DEF PlaceType
<1>2. place.spine # SpineCount
  BY <1>1 DEF Spine
<1> QED  BY <1>1, <1>2, PageNumbers

\* Conjuncts of the invariant that a step leaves alone.
LEMMA Frames ==
    /\ FilesWhole /\ UNCHANGED bin => FilesWhole'
    /\ BuildAhead /\ section'.build = section.build /\ section'.built = section.built
           /\ section'.spine = section.spine => BuildAhead'
    /\ section'.build = None => BuildAhead'
    /\ StackKept /\ UNCHANGED <<saved, origins>> => StackKept'
BY DEF FilesWhole, BuildAhead, StackKept

\* While the render task is at work.
LEMMA RenderProgress ==
    ASSUME ReaderOK, ProgressKept, rpc # "idle", UNCHANGED <<lastSaved, progress, mpc, open>>,
           rpc' # "idle" \/ place'.by # "shown"
    PROVE  ProgressKept'
<1>1. open /\ mpc \notin {"closing", "deleting"}
  BY Unfolded DEF TurnsOK
<1> QED  BY <1>1 DEF ProgressKept, LastSavedThere

\* The section is gone, and where the reader goes is known without it.
LEMMA GonePlace ==
    ASSUME section' = NoSection, rpc' = "idle", mpc' \notin {"reposition", "deleting", "closing"}, open',
           FilesWhole', StackKept', OffsetWaits', mpc' = "turning" => cached' = Lapsed(cached'),
           place'.by # "drawn",
           Held' => /\ place'.offset < Length[place'.spine] /\ mpc' \notin {"lock", "turning"}
                    /\ currentSpine' # SpineCount => Leads',
           place'.by = "shown" => OnCard', LastSavedThere'
    PROVE  PlaceInv'
<1>1. section'.spine = None /\ section'.build = None
  BY NoSectionFits
<1>2. BuildAhead' /\ SectionHere' /\ JumpsUsed'
  BY <1>1, Frames DEF SectionHere, JumpsUsed, Has
<1>3. Repositions'
  BY <1>1 DEF Repositions, Has, Finding
<1>4. PlaceKnown'
  BY <1>1 DEF PlaceKnown, Has, Finding
<1>5. PageDrawn'
  BY <1>1 DEF PageDrawn, Has
<1>6. ProgressKept'
  BY DEF ProgressKept
<1> QED  BY <1>2, <1>3, <1>4, <1>5, <1>6, PlaceFolded

-----------------------------------------------------------------------------
(* The render task finds the page.                                         *)

LEMMA RenderBeginsPlace == ASSUME ReaderOK, PlaceInv, RenderBegins PROVE PlaceInv'
<1>1. /\ open /\ rpc = "idle" /\ mpc \notin {"reposition", "deleting", "closing"}
      /\ rpc' = IF currentSpine = SpineCount THEN "idle" ELSE IF section = NoSection THEN "open" ELSE "extend"
      /\ UNCHANGED <<position, memory, cards, place, origins, sections, open, layout, goal, mpc>>
  BY DEF RenderBegins
<1>2. /\ UNCHANGED <<bin, section, saved, origins, currentSpine, nextPage, jump, cached, lastSaved, pageOffset>>
      /\ UNCHANGED <<progress, saving, place, open, layout, goal, mpc>>
  BY <1>1 DEF position, memory, cards, sections
<1>3. rpc' \in {"idle", "open", "extend"}
  BY <1>1
<1>4. FilesWhole' /\ BuildAhead' /\ StackKept'
  BY <1>2, PlaceUnfolded, Frames
<1>5. SectionHere' /\ JumpsUsed'
  BY <1>1, <1>2, <1>3, PlaceUnfolded DEF SectionHere, JumpsUsed, Has, Here, Finding
<1>6. Repositions'
  BY <1>1, <1>2, <1>3, PlaceUnfolded DEF Repositions, OffsetWaits, Has, Finding
<1>7. PlaceKnown'
  <2>1. Held' = Held /\ Has' = Has /\ ~Finding /\ ~Finding'
    BY <1>1, <1>2, <1>3 DEF Held, Has, Finding
  <2>2. Shows => Shows'
    BY <1>2 DEF Shows, Hits, Undisturbed, cp
  <2>3. Leads /\ ~Has => Leads'
    BY <1>2 DEF Leads, ByOffset, ByPage, ByEnd, ByAnchor, ByMark, Hits, Undisturbed, Has
  <2> QED  BY <1>2, <2>1, <2>2, <2>3, PlaceUnfolded DEF PlaceKnown
<1>8. PageDrawn'
  BY <1>1, <1>2, <1>3, PlaceUnfolded DEF PageDrawn, Has, Here, cp
<1>9. ProgressKept'
  <2>1. OnCard => OnCard'
    BY <1>2 DEF OnCard, Has, Hits
  <2> QED  BY <1>1, <1>2, <2>1, PlaceUnfolded DEF ProgressKept, LastSavedThere, Held
<1> QED  BY <1>4, <1>5, <1>6, <1>7, <1>8, <1>9, PlaceFolded

LEMMA OpenSectionPlace == ASSUME ReaderOK, PlaceInv, OpenSection, ReaderOK' PROVE PlaceInv'
<1>1. /\ rpc = "open" /\ LoadSectionFile(currentSpine, layout)
      /\ cached' = IF Matches(currentSpine, layout) THEN Lapsed(cached) ELSE cached
      /\ rpc' = "plan"
      /\ UNCHANGED <<currentSpine, nextPage, jump, saved, lastSaved, retries, pageOffset, cards, history,
                     open, layout, requested, goal, mpc>>
  BY DEF OpenSection
<1>2. /\ currentSpine \in Spine /\ ~Has /\ mpc \notin {"reposition", "closing", "deleting"} /\ open
      /\ cached \in CachedType /\ currentSpine # SpineCount /\ layout # None
  BY <1>1, Unfolded, NoSectionFits, HereFacts, SectionFacts DEF TurnsOK, Has, PositionOK
<1>3. CacheFits(bin', section', layout) /\ section'.spine = currentSpine /\ section'.build = None
  BY <1>1, <1>2, SectionFacts, SectionOpened
<1>4. /\ UNCHANGED <<progress, place, origins>> /\ bin \in [Spine -> File]
      /\ Lapsed(cached).offset = None /\ Lapsed(Lapsed(cached)) = Lapsed(cached) /\ Lapsed(cached).spine = cached.spine
  BY <1>1, <1>2, LapsedFacts, SectionFacts DEF cards, history, FilesFit
<1>5. FilesWhole' /\ BuildAhead' /\ StackKept'
  BY <1>1, <1>3, <1>4, PlaceUnfolded, Frames, WholeStep, SectionFacts
<1>6. section'.spine # None
  BY <1>2, <1>3, SpinesAreSpines
<1>7. SectionHere' /\ JumpsUsed'
  BY <1>1, <1>2, <1>3, <1>6, HereFacts DEF SectionHere, JumpsUsed, Has, Here, Finding
<1>8. ~Matches(currentSpine, layout) => bin'[currentSpine] = NoFile
  BY <1>1, <1>2, <1>4 DEF LoadSectionFile, Remove
<1>9. Matches(currentSpine, layout) => bin[currentSpine].layout = layout
  BY DEF Matches
<1>10. Repositions'
  <2>1. OffsetWaits
    BY <1>2, PlaceUnfolded DEF Repositions
  <2>2. OffsetWaits'
    BY <1>1, <1>4, <2>1 DEF OffsetWaits
  <2>3. cached = Lapsed(cached) => cached' = Lapsed(cached')
    BY <1>1, <1>4
  <2>4. mpc = "turning" => cached = Lapsed(cached)
    BY PlaceUnfolded DEF Repositions
  <2>5. bin'[section'.spine] # NoFile => cached' = Lapsed(cached')
    BY <1>1, <1>3, <1>4, <1>8
  <2> QED  BY <1>1, <1>2, <1>6, <2>2, <2>3, <2>4, <2>5 DEF Repositions, Finding
<1>11. PlaceKnown'
  <2> SUFFICES ASSUME Held' PROVE place'.offset < Length[place'.spine] /\ Leads'
    BY <1>1, <1>6 DEF PlaceKnown, Has, Finding
  <2>1. Held /\ place.offset < Length[place.spine] /\ Leads
    BY <1>2, <1>4, PlaceUnfolded DEF PlaceKnown, Held
  <2>2. currentSpine = place.spine
    BY <2>1 DEF Leads
  <2>3. Undisturbed => Undisturbed'
    BY <1>1, <1>4 DEF Undisturbed
  <2>4. CASE ByOffset
    <3>1. jump = NoJump /\ cached.spine = currentSpine /\ cached.offset = place.offset
      BY <2>4 DEF ByOffset
    <3>2. PICK l \in Layout : nextPage = PageOf(place.offset, l) /\ bin[currentSpine].layout \in {l, None}
      BY <1>2, <2>4 DEF ByOffset
    <3>3. CASE Matches(currentSpine, layout)
      <4>1. nextPage = PageOf(place.offset, layout)
        BY <1>2, <1>9, <3>2, <3>3
      <4>2. nextPage <= Pages(place.spine, layout) - 1 /\ nextPage \in Nat /\ Pages(place.spine, layout) \in Nat
        BY <2>1, <4>1, PlaceFacts, UnitsHavePages
      <4>3. Hits(nextPage)
        <5>1. Least(nextPage, Pages(place.spine, layout) - 1) = nextPage
          BY <4>2 DEF Least
        <5> QED  BY <4>1, <5>1 DEF Hits
      <4>4. ByPage'
        BY <1>1, <1>4, <3>1, <3>3, <4>3 DEF ByPage, Hits, Undisturbed
      <4> QED  BY <1>1, <1>4, <2>1, <2>2, <4>4 DEF Leads
    <3>4. CASE ~Matches(currentSpine, layout)
      <4>1. ByOffset'
        BY <1>1, <1>4, <1>6, <1>8, <3>1, <3>4 DEF ByOffset, Has
      <4> QED  BY <1>1, <1>4, <2>1, <2>2, <4>1 DEF Leads
    <3> QED  BY <3>3, <3>4
  <2>5. CASE ByPage
    <3>1. ByPage'
      BY <1>1, <1>4, <2>3, <2>5 DEF ByPage, Hits
    <3> QED  BY <1>1, <1>4, <2>1, <2>2, <3>1 DEF Leads
  <2>6. CASE ByEnd \/ ByAnchor \/ ByMark
    <3>1. ByEnd' \/ ByAnchor' \/ ByMark'
      BY <1>1, <1>4, <2>3, <2>6 DEF ByEnd, ByAnchor, ByMark
    <3> QED  BY <1>1, <1>4, <2>1, <2>2, <3>1 DEF Leads
  <2> QED  BY <2>1, <2>4, <2>5, <2>6 DEF Leads
<1>12. PageDrawn'
  BY <1>1, <1>4, PlaceUnfolded DEF PageDrawn
<1>13. ProgressKept'
  BY <1>1, <1>4, PlaceUnfolded, RenderProgress
<1> QED  BY <1>5, <1>7, <1>10, <1>11, <1>12, <1>13, PlaceFolded

\* The section is given up, and nobody is sent anywhere.
LEMMA ErrorPlace ==
    ASSUME ReaderOK, PlaceInv, BuildFails \/ DiscardSection, rpc' = "idle", place' = NoPlace,
           OffsetWaits, open, mpc \notin {"reposition", "deleting", "closing"},
           UNCHANGED <<currentSpine, jump, cached, saved, origins, lastSaved, progress, mpc, open>>
    PROVE  PlaceInv'
<1>1. section' = NoSection
  BY DEF BuildFails, DiscardSection
<1>2. FilesWhole' /\ StackKept'
  BY PlaceUnfolded, WholeStep, SectionFacts, Frames
<1>3. OffsetWaits' /\ (mpc' = "turning" => cached' = Lapsed(cached')) /\ LastSavedThere'
  BY PlaceUnfolded DEF OffsetWaits, Repositions, ProgressKept, LastSavedThere
<1>4. place'.by = "none"
  BY DEF NoPlace
<1>5. ~Held'
  BY <1>4 DEF Held
<1> QED  BY <1>1, <1>2, <1>3, <1>4, <1>5, GonePlace

\* Where there is text there are pages.
LEMMA PagesOfPlace ==
    ASSUME ReaderOK, place.offset < Length[place.spine]
    PROVE  Pages(place.spine, layout) > 0
<1>1. /\ place.spine \in Spine /\ place.offset \in Nat /\ layout \in Layout
      /\ PageOf(place.offset, layout) \in Nat /\ Pages(place.spine, layout) \in Nat
  BY PlaceFacts
<1>2. PageOf(place.offset, layout) < Pages(place.spine, layout)
  BY <1>1, UnitsHavePages
<1> QED  BY <1>1, <1>2

LEMMA StartedFields ==
    ASSUME ReaderOK, StartBuild(layout)
    PROVE  /\ UNCHANGED bin /\ layout # None
           /\ section'.spine = section.spine /\ section'.currentPage = section.currentPage
           /\ section'.build = layout /\ section'.built = 0 /\ section'.complete = FALSE
           /\ section'.partialPages = section.partialPages
<1>1. section \in SectionType /\ layout # None
  BY SectionFacts, CacheFacts
<1> QED  BY <1>1 DEF StartBuild, SectionType

LEMMA MoreFields ==
    ASSUME ReaderOK, BuildSomeMore
    PROVE  /\ section.build = layout /\ layout # None
           /\ section'.spine = section.spine /\ section'.currentPage = section.currentPage
           /\ \/ /\ PageLaidOut /\ UNCHANGED bin
                 /\ section'.build = layout /\ section'.built < Pages(section.spine, layout)
                 /\ section'.complete = section.complete /\ section'.pageCount >= section.pageCount
                 /\ section'.partialPages = section.partialPages
              \/ /\ BuildCompletes
                 /\ section'.build = None /\ section'.complete = TRUE /\ section'.partialPages = 0
                 /\ section'.pageCount = Pages(section.spine, layout) /\ bin'[section.spine].whole
<1>1. /\ section \in SectionType /\ section.build = layout /\ layout # None /\ section.spine \in Spine
      /\ bin \in [Spine -> File] /\ section.built \in Nat /\ section.pageCount \in Nat
  BY SectionFacts, CacheFacts, BuildingFacts
  DEF BuildSomeMore, PageLaidOut, BuildCompletes, FilesFit, SectionType
<1>2. CASE PageLaidOut
  <2> DEFINE n == section.built + 1
             m == Greatest(section.pageCount, n)
  <2>1. section' = [section EXCEPT !.built = n, !.pageCount = m] /\ UNCHANGED bin
        /\ n < Pages(section.spine, layout)
    BY <1>1, <1>2 DEF PageLaidOut
  <2>2. m >= section.pageCount
    BY <1>1 DEF Greatest
  <2> HIDE DEF n, m
  <2>3. /\ section'.spine = section.spine /\ section'.currentPage = section.currentPage
        /\ section'.build = layout /\ section'.built = n /\ section'.complete = section.complete
        /\ section'.pageCount = m /\ section'.partialPages = section.partialPages
    BY <1>1, <2>1 DEF SectionType
  <2> QED  BY <1>1, <1>2, <2>1, <2>2, <2>3
<1>3. CASE BuildCompletes
  <2> DEFINE N == Pages(section.spine, layout)
             f == [layout |-> section.build, whole |-> TRUE, pages |-> Pages(section.spine, section.build)]
  <2>1. section' = Ended(N) /\ bin' = [bin EXCEPT ![section.spine] = f]
    BY <1>1, <1>3 DEF BuildCompletes
  <2>2. f.whole
    OBVIOUS
  <2> HIDE DEF N, f
  <2>3. /\ section'.spine = section.spine /\ section'.currentPage = section.currentPage
        /\ section'.build = None /\ section'.complete = TRUE /\ section'.partialPages = 0 /\ section'.pageCount = N
    BY <1>1, <2>1 DEF Ended, SectionType
  <2>4. bin'[section.spine].whole
    BY <1>1, <2>1, <2>2
  <2> QED  BY <1>1, <1>3, <2>3, <2>4 DEF N
<1> QED  BY <1>2, <1>3 DEF BuildSomeMore

LEMMA BuildKeeps ==
    ASSUME ReaderOK, PlaceInv, BuildSomeMore \/ StartBuild(layout), UNCHANGED <<saved, origins>>
    PROVE  FilesWhole' /\ BuildAhead' /\ StackKept'
<1>1. FilesWhole' /\ StackKept'
  BY PlaceUnfolded, WholeStep, Frames, SectionFacts
<1>2. BuildAhead'
  BY StartedFields, MoreFields DEF BuildAhead
<1> QED  BY <1>1, <1>2

\* The page is still led to while the section is being looked at.
LEMMA LeadsOn ==
    ASSUME Leads, Has, Has', UNCHANGED <<currentSpine, nextPage, jump, cached, place, layout>>,
           rpc' = "reach" \/ (rpc' = "place" /\ ~ByOffset)
    PROVE  Leads'
<1>1. UNCHANGED Undisturbed
  BY DEF Undisturbed
<1> QED  BY <1>1 DEF Leads, ByOffset, ByPage, ByEnd, ByAnchor, ByMark, Hits

LEMMA PlanPlace == ASSUME ReaderOK, PlaceInv, Plan PROVE PlaceInv'
<1>1. rpc = "plan" /\ UNCHANGED <<currentSpine, nextPage, memory, cards, origins, open, layout, requested, mpc>>
  BY DEF Plan
<1>2. /\ section.build = None /\ Has /\ mpc \notin {"reposition", "closing", "deleting"} /\ open
      /\ currentSpine \in 0 .. SpineCount
  BY <1>1, Unfolded DEF TurnsOK, Has, PositionOK
<1>3. UNCHANGED <<saved, lastSaved, pageOffset, progress, saving, origins, open, layout, mpc, currentSpine, nextPage>>
  BY <1>1 DEF memory, cards
<1>4. OffsetWaits
  BY <1>1, PlaceUnfolded DEF Repositions, Finding
<1>5. CASE BuildError
  <2>1. BuildFails /\ rpc' = "idle" /\ place' = NoPlace /\ UNCHANGED <<jump, cached, goal>>
    BY <1>5 DEF BuildError
  <2> QED  BY <1>2, <1>3, <1>4, <2>1, ErrorPlace
<1>6. CASE ~BuildError
  <2>1. /\ goal' = OffsetJump /\ UNCHANGED <<place, jump, cached>>
        /\ \/ (WholeOnCard \/ CoversTarget) /\ rpc' = "place" /\ UNCHANGED sections
           \/ rpc' = "reach" /\ StartBuild(layout)
    BY <1>6 DEF Plan
  <2>2. /\ section'.spine = section.spine /\ section'.currentPage = section.currentPage
        /\ rpc' = "reach" => section'.build # None /\ section'.complete = FALSE
    BY <2>1, StartedFields DEF sections
  <2>3. FilesWhole' /\ BuildAhead' /\ StackKept'
    BY <1>3, <2>1, PlaceUnfolded, Frames, BuildKeeps DEF sections
  <2>4. Has'
    BY <1>2, <2>2 DEF Has
  <2>5. SectionHere'
    <3>1. Here' = Here /\ section.spine = Here
      BY <1>2, <1>3, PlaceUnfolded DEF Here, SectionHere
    <3>2. rpc' = "place" => section'.build = None /\ (WholeOnCard \/ CoversTarget)'
      BY <1>2, <1>3, <2>1 DEF sections, WholeOnCard, CoversTarget, IsPartial, AnchorOnCard, Target
    <3> QED  BY <1>2, <1>3, <2>1, <2>2, <3>1, <3>2 DEF SectionHere, Has
  <2>6. JumpsUsed'
    BY <2>1 DEF JumpsUsed, Finding
  <2>7. rpc' = "place" => bin[section.spine] # NoFile
    <3>1. WholeOnCard => bin[section.spine] # NoFile
      BY DEF WholeOnCard, NoFile
    <3>2. CoversTarget => bin[section.spine] # NoFile
      BY <1>2, SectionFacts, FileFacts, PlaceUnfolded DEF CoversTarget, IsPartial, NoFile, Has
    <3> QED  BY <2>1, <3>1, <3>2
  <2>8. Repositions'
    <3>1. OffsetWaits' /\ OffsetJump' = OffsetJump
      BY <1>3, <1>4, <2>1 DEF OffsetWaits, OffsetJump
    <3> QED
      BY <1>1, <1>2, <1>3, <2>1, <2>4, <2>7, <3>1, PlaceUnfolded DEF Repositions, Finding
  <2>9. PlaceKnown'
    <3> SUFFICES ASSUME Held' PROVE place'.offset < Length[place'.spine] /\ Leads'
      BY <2>1, <2>4 DEF PlaceKnown, Finding
    <3>1. Held /\ place.offset < Length[place.spine] /\ Leads
      BY <1>1, <2>1, PlaceUnfolded DEF PlaceKnown, Held, Finding
    <3>2. rpc' = "place" => ~ByOffset
      <4>1. ByOffset => bin[currentSpine] = NoFile /\ currentSpine = place.spine
        BY <1>1, <1>2, <3>1 DEF ByOffset, Leads
      <4>2. ByOffset => section.spine = currentSpine
        BY <1>2, <4>1, PlaceUnfolded, PlaceFacts, HereFacts DEF SectionHere
      <4> QED  BY <2>7, <4>1, <4>2
    <3>3. Leads'
      BY <1>2, <1>3, <2>1, <2>4, <3>1, <3>2, LeadsOn
    <3> QED  BY <2>1, <3>1, <3>3
  <2>10. PageDrawn'
    <3>1. place.by # "drawn" /\ rpc' \in {"reach", "place"}
      BY <1>1, <2>1, PlaceUnfolded DEF PageDrawn
    <3>2. place.by = "shown" /\ rpc' = "place" => section'.pageCount > 0
      <4> SUFFICES ASSUME place.by = "shown", rpc' = "place" PROVE section'.pageCount > 0
        OBVIOUS
      <4>1. section' = section /\ (WholeOnCard \/ CoversTarget)
        BY <2>1 DEF sections
      <4>2. CASE CoversTarget
        <5>1. section.partialPages > 0 /\ section.pageCount \in Nat
          BY <4>2, SectionFacts DEF CoversTarget, IsPartial
        <5>2. section.partialPages = bin[section.spine].pages /\ section.pageCount = bin[section.spine].pages
          BY <1>2, <5>1, SectionFacts, FileFacts, PlaceUnfolded DEF Has
        <5> QED  BY <4>1, <5>1, <5>2
      <4>3. CASE WholeOnCard
        <5>1. section.pageCount = Pages(section.spine, layout)
          BY <1>2, <4>3, SectionFacts, FileFacts, PlaceUnfolded DEF Has, WholeOnCard
        <5>2. place.offset < Length[place.spine] /\ Leads
          BY <1>1, PlaceUnfolded DEF PlaceKnown, Held, Finding
        <5>3. place.spine = section.spine
          BY <1>2, <5>2, PlaceUnfolded, PlaceFacts, HereFacts DEF Leads, SectionHere
        <5> QED  BY <4>1, <5>1, <5>2, <5>3, PagesOfPlace
      <4> QED  BY <4>1, <4>2, <4>3
    <3>3. rpc' = "reach" => section'.build # None
      BY <2>2
    <3> QED  BY <1>3, <2>1, <3>1, <3>2, <3>3 DEF PageDrawn
  <2>11. ProgressKept'
    BY <1>1, <1>3, <2>1, PlaceUnfolded, RenderProgress
  <2> QED  BY <2>3, <2>5, <2>6, <2>8, <2>9, <2>10, <2>11, PlaceFolded
<1> QED  BY <1>5, <1>6

\* Where the section is of the place's chapter, its build ends with pages.
LEMMA BuildLeavesPages ==
    ASSUME ReaderOK, BuildSomeMore, Held => place.offset < Length[place.spine] /\ place.spine = section.spine
    PROVE  Held => section'.pageCount > 0 \/ section'.build # None
BY MoreFields, PagesOfPlace

LEMMA ReachPlace == ASSUME ReaderOK, PlaceInv, Reach PROVE PlaceInv'
<1>1. rpc = "reach" /\ UNCHANGED <<currentSpine, nextPage, memory, cards, origins, open, layout, requested, mpc>>
  BY DEF Reach
<1>2. Has /\ mpc \notin {"reposition", "closing", "deleting"} /\ open
  BY <1>1, Unfolded DEF TurnsOK, Has
<1>3. UNCHANGED <<saved, lastSaved, pageOffset, progress, saving, origins, open, layout, mpc, currentSpine, nextPage>>
  BY <1>1 DEF memory, cards
<1>4. OffsetWaits
  BY <1>1, PlaceUnfolded DEF Repositions, Finding
<1>5. CASE BuildError
  <2>1. BuildFails /\ rpc' = "idle" /\ place' = NoPlace /\ UNCHANGED <<jump, cached, goal>>
    BY <1>5 DEF BuildError
  <2> QED  BY <1>2, <1>3, <1>4, <2>1, ErrorPlace
<1>6. CASE ~BuildError
  <2>1. BuildSomeMore /\ UNCHANGED <<rpc, place, jump, cached, goal>>
    BY <1>6 DEF Reach
  <2>2. /\ section'.spine = section.spine /\ section.build # None
        /\ \/ section'.build # None /\ section'.complete = section.complete
           \/ section'.build = None /\ section'.complete = TRUE /\ bin'[section.spine].whole
    BY <2>1, MoreFields
  <2>3. FilesWhole' /\ BuildAhead' /\ StackKept'
    BY <1>3, <2>1, BuildKeeps
  <2>4. Has'
    BY <1>2, <2>2 DEF Has
  <2>5. SectionHere'
    BY <1>1, <1>2, <1>3, <2>1, <2>2, PlaceUnfolded DEF SectionHere, Has, Here, WholeOnCard
  <2>6. JumpsUsed'
    BY <1>1, <2>1 DEF JumpsUsed, Finding
  <2>7. Repositions'
    <3>1. OffsetWaits' /\ OffsetJump' = OffsetJump
      BY <1>3, <1>4, <2>1 DEF OffsetWaits, OffsetJump
    <3> QED  BY <1>1, <1>2, <1>3, <2>1, <2>4, <3>1, PlaceUnfolded DEF Repositions, Finding
  <2>8. Held => place.offset < Length[place.spine] /\ Leads
    BY <1>1, PlaceUnfolded DEF PlaceKnown, Finding
  <2>9. PlaceKnown'
    <3>1. Leads => Leads'
      BY <1>1, <1>2, <1>3, <2>1, <2>4, LeadsOn
    <3> QED  BY <1>1, <2>1, <2>4, <2>8, <3>1 DEF PlaceKnown, Finding, Held
  <2>10. PageDrawn'
    <3>1. Held => place.spine = section.spine
      BY <1>2, <2>8, PlaceUnfolded, PlaceFacts, HereFacts DEF Leads, SectionHere
    <3>2. Held => section'.pageCount > 0 \/ section'.build # None
      BY <2>1, <2>8, <3>1, BuildLeavesPages
    <3>3. place.by # "drawn"
      BY <1>1, PlaceUnfolded DEF PageDrawn
    <3> QED  BY <1>1, <2>1, <3>2, <3>3 DEF PageDrawn, Held
  <2>11. ProgressKept'
    BY <1>1, <1>3, <2>1, PlaceUnfolded, RenderProgress
  <2> QED  BY <2>3, <2>5, <2>6, <2>7, <2>9, <2>10, <2>11, PlaceFolded
<1> QED  BY <1>5, <1>6

LEMMA ExtendPlace == ASSUME ReaderOK, PlaceInv, Extend PROVE PlaceInv'
<1>1. /\ rpc = "extend" /\ Short /\ (IsPartial \/ IsBuilding)
      /\ UNCHANGED <<currentSpine, nextPage, memory, cards, origins, open, layout, requested, mpc>>
  BY DEF Extend
<1>2. Has /\ mpc \notin {"reposition", "closing", "deleting"} /\ open /\ ~Finding
  BY <1>1, Unfolded DEF TurnsOK, Has, Finding
<1>3. UNCHANGED <<saved, lastSaved, pageOffset, progress, saving, origins, open, layout, mpc, currentSpine, nextPage>>
  BY <1>1 DEF memory, cards
<1>4. section.build # None \/ section.partialPages # 0
  BY <1>1, SectionFacts DEF IsPartial, IsBuilding
<1>5. cached.offset = None
  BY <1>2, <1>4, PlaceUnfolded DEF Repositions
<1>6. CASE BuildError
  <2>1. BuildFails /\ rpc' = "idle" /\ place' = NoPlace /\ UNCHANGED <<jump, cached, goal>>
    BY <1>6 DEF BuildError
  <2>2. OffsetWaits
    BY <1>5 DEF OffsetWaits
  <2> QED  BY <1>2, <1>3, <2>1, <2>2, ErrorPlace
<1>7. CASE ~BuildError
  <2>1. /\ BuildSomeMore \/ StartBuild(layout)
        /\ UNCHANGED <<rpc, place, jump, cached, goal>>
    BY <1>7 DEF Extend
  <2>2. section'.spine = section.spine /\ section'.currentPage = section.currentPage
    BY <2>1, StartedFields, MoreFields
  <2>3. FilesWhole' /\ BuildAhead' /\ StackKept'
    BY <1>3, <2>1, BuildKeeps
  <2>4. Has' /\ ~Finding' /\ cp' = cp
    BY <1>2, <2>1, <2>2 DEF Has, Finding, cp
  <2>5. SectionHere'
    BY <1>1, <1>2, <1>3, <2>1, <2>2, PlaceUnfolded DEF SectionHere, Has, Here
  <2>6. JumpsUsed'
    BY <1>2, <1>4, <2>1, PlaceUnfolded DEF JumpsUsed
  <2>7. Repositions'
    BY <1>1, <1>2, <1>3, <1>5, <2>1, <2>4, PlaceUnfolded DEF Repositions
  <2>8. Held => place.offset < Length[place.spine] /\ Shows
    BY <1>2, PlaceUnfolded DEF PlaceKnown
  <2>9. PlaceKnown'
    <3>1. ~(cp < section.pageCount)
      BY <1>1, SectionFacts DEF Short
    <3>2. Shows => Shows'
      BY <1>2, <1>3, <2>1, <2>2, <2>4, <3>1 DEF Shows, Hits, Undisturbed
    <3> QED  BY <2>1, <2>4, <2>8, <3>2 DEF PlaceKnown, Held
  <2>10. PageDrawn'
    <3>1. Held => section'.pageCount > 0 \/ section'.build # None
      BY <2>1, <2>8, BuildLeavesPages, StartedFields DEF Shows
    <3>2. place.by # "drawn"
      BY <1>1, PlaceUnfolded DEF PageDrawn
    <3> QED  BY <1>1, <2>1, <3>1, <3>2 DEF PageDrawn, Held
  <2>11. ProgressKept'
    BY <1>1, <1>3, <2>1, PlaceUnfolded, RenderProgress
  <2> QED  BY <2>3, <2>5, <2>6, <2>7, <2>9, <2>10, <2>11, PlaceFolded
<1> QED  BY <1>6, <1>7

LEMMA PageSetFields ==
    ASSUME ReaderOK, NEW p \in Nat, section' = [section EXCEPT !.currentPage = p]
    PROVE  /\ section'.currentPage = p /\ section'.spine = section.spine /\ section'.build = section.build
           /\ section'.built = section.built /\ section'.complete = section.complete
           /\ section'.pageCount = section.pageCount /\ section'.partialPages = section.partialPages
<1>1. section \in SectionType
  BY SectionFacts, CacheFacts
<1> QED  BY <1>1 DEF SectionType

\* A page there is has the place if it is its page.
LEMMA RightPage ==
    ASSUME ReaderOK, place.offset < Length[place.spine]
    PROVE  /\ Hits(PageOf(place.offset, layout))
           /\ PageOf(place.offset, layout) < Pages(place.spine, layout)
<1>1. /\ place.spine \in Spine /\ place.offset \in Nat /\ layout \in Layout
      /\ PageOf(place.offset, layout) \in Nat /\ Pages(place.spine, layout) \in Nat
  BY PlaceFacts
<1>2. PageOf(place.offset, layout) < Pages(place.spine, layout)
  BY <1>1, UnitsHavePages
<1>3. Least(PageOf(place.offset, layout), Pages(place.spine, layout) - 1) = PageOf(place.offset, layout)
  BY <1>1, <1>2 DEF Least
<1> QED  BY <1>2, <1>3 DEF Hits

\* The last page has the last unit, and the first page the first.
LEMMA EndPages ==
    ASSUME ReaderOK, place.offset < Length[place.spine]
    PROVE  /\ place.offset = Length[place.spine] - 1 => Hits(65535)
           /\ place.offset = 0 => Hits(0)
<1> DEFINE n == Length[place.spine]
           N == Pages(place.spine, layout)
<1>1. /\ place.spine \in Spine /\ place.offset \in Nat /\ layout \in Layout
      /\ n \in Nat /\ N \in Nat /\ N > 0
  BY PlaceFacts, PagesOfPlace
<1>2. N <= 65535
  BY <1>1, PageCountAssumption
<1>3. ASSUME place.offset = n - 1 PROVE Hits(65535)
  <2>1. StartOf(65535, layout) \in Nat
    BY <1>1, PageNumbers
  <2>2. n <= StartOf(65535, layout)
    <3>1. n <= StartOf(N, layout) /\ StartOf(N, layout) \in Nat
      BY <1>1, LastPage, PageNumbers
    <3>2. StartOf(N, layout) <= StartOf(65535, layout)
      <4> DEFINE d == PerPage[layout]
      <4>1. d \in Nat
        BY <1>1
      <4>2. d * N <= d * 65535
        <5> HIDE DEF d, N
        <5> QED  BY <1>1, <1>2, <4>1, ProductGrows
      <4> QED  BY <1>1, <4>1, <4>2 DEF StartOf
    <3> QED  BY <1>1, <2>1, <3>1, <3>2
  <2>3. Least(StartOf(65535, layout), n - 1) = n - 1
    <3> HIDE DEF n
    <3> QED  BY <1>1, <2>1, <2>2 DEF Least
  <2>4. Least(65535, N - 1) = PageOf(n - 1, layout)
    <3>1. n > 0
      BY <1>1
    <3> QED  BY <1>1, <2>3, <3>1, StartHits
  <2> QED  BY <1>3, <2>4 DEF Hits
<1>4. ASSUME place.offset = 0 PROVE Hits(0)
  <2>1. PageOf(0, layout) = 0
    <3>1. PerPage[layout] \in Nat \ {0}
      BY <1>1
    <3> QED  BY <3>1, QuotientIs DEF PageOf
  <2> QED  BY <1>1, <1>4, <2>1, RightPage
<1> QED  BY <1>3, <1>4

\* getPageForVisibleTextOffset() and findAnchor(), of the open section.
LEMMA SectionAnswers ==
    ASSUME ReaderOK, PlaceInv, Has, NEW o \in Nat
    PROVE  /\ o < Length[section.spine] =>
                /\ PageForOffset(o) # None => PageForOffset(o) = PageOf(o, layout)
                /\ WholeOnCard \/ ReachedOffset(o) => PageForOffset(o) # None
           /\ FindAnchor(o) # None => FindAnchor(o) = PageOf(o, layout) /\ o < Length[section.spine]
           /\ AnchorOnCard(o) # None => FindAnchor(o) # None
           /\ WholeOnCard /\ o < Length[section.spine] => FindAnchor(o) # None
<1>1. FilesWhole /\ BuildAhead /\ layout \in Layout /\ CacheFits(bin, section, layout) /\ section.spine # None
  BY PlaceUnfolded, SectionFacts DEF Has
<1> QED  BY <1>1, PageForOffsetFacts, FindAnchorFacts DEF WholeOnCard

\* What is known when a page is chosen: a section that does not know its page is whole.
LEMMA PageIsKnown ==
    ASSUME ReaderOK, PlaceInv, Place
    PROVE  /\ Has /\ rpc \in {"place", "reach"} /\ goal = OffsetJump /\ OffsetWaits
           /\ rpc = "place" => cached = Lapsed(cached)
           /\ WholeOnCard => section.build = None /\ section.partialPages = 0
           /\ jump.percent # None => WholeOnCard
           /\ jump.anchor # None /\ jump.percent = None => WholeOnCard \/ FindAnchor(jump.anchor) # None
           /\ rpc = "reach" /\ goal # None /\ jump.anchor = None /\ jump.percent = None =>
                  WholeOnCard \/ (ReachedOffset(goal) /\ PageForOffset(goal) # None)
           /\ rpc = "reach" /\ goal = None /\ jump.last /\ jump.anchor = None /\ jump.percent = None => WholeOnCard
<1>1. rpc = "place" \/ (rpc = "reach" /\ Reached)
  BY DEF Place
<1>2. Has /\ section.spine \in Spine /\ section.pageCount \in Nat /\ layout \in Layout
  BY <1>1, Unfolded, SectionFacts DEF TurnsOK, Has
<1>3. goal = OffsetJump /\ OffsetWaits /\ (rpc = "place" => cached = Lapsed(cached))
  BY <1>1, PlaceUnfolded DEF Repositions, Finding
<1>4. WholeOnCard => section.build = None /\ section.partialPages = 0
  BY <1>2, PlaceUnfolded, SectionFacts, FileFacts DEF WholeOnCard, Has
<1>5. rpc = "reach" /\ section.complete => WholeOnCard
  BY PlaceUnfolded DEF SectionHere
<1>6. rpc = "place" => WholeOnCard \/ CoversTarget
  BY PlaceUnfolded DEF SectionHere
<1>7. jump.percent # None => WholeOnCard
  BY <1>1, <1>5, <1>6 DEF Reached, CoversTarget
<1>8. jump \in Jump /\ goal \in Nat \cup {None}
  BY Unfolded DEF PositionOK, ControlOK
<1>9. ASSUME jump.anchor # None, jump.percent = None PROVE WholeOnCard \/ FindAnchor(jump.anchor) # None
  <2>1. jump.anchor \in Nat
    BY <1>8, <1>9 DEF Jump
  <2>2. AnchorOnCard(jump.anchor) # None => FindAnchor(jump.anchor) # None
    BY <1>2, <2>1, SectionAnswers
  <2> QED  BY <1>1, <1>5, <1>6, <1>9, <2>2 DEF Reached, CoversTarget
<1>10. ASSUME rpc = "reach", goal # None, jump.anchor = None, jump.percent = None
       PROVE  WholeOnCard \/ (ReachedOffset(goal) /\ PageForOffset(goal) # None)
  <2>1. WholeOnCard \/ ReachedOffset(goal)
    BY <1>1, <1>5, <1>10 DEF Reached
  <2>2. ReachedOffset(goal) => PageForOffset(goal) = PageOf(goal, section.build) /\ section.build # None
    BY DEF ReachedOffset, PageForOffset, IsBuilding
  <2>3. section.build # None => section.build = layout
    BY <1>2, SectionFacts, BuildingFacts DEF IsBuilding
  <2>4. PageOf(goal, layout) \in Nat
    BY <1>2, <1>8, <1>10, PageNumbers
  <2> QED  BY <2>1, <2>2, <2>3, <2>4
<1>11. ASSUME rpc = "reach", goal = None, jump.last, jump.anchor = None, jump.percent = None PROVE WholeOnCard
  <2>1. section.complete \/ section.pageCount > 65535
    BY <1>1, <1>11 DEF Reached, Target
  <2>2. section.pageCount <= Pages(section.spine, layout) /\ Pages(section.spine, layout) \in Nat
    BY <1>2, PlaceUnfolded, SectionFacts, FileFacts, PageNumbers DEF Has
  <2>3. Pages(section.spine, layout) <= 65535
    BY <1>2, PageCountAssumption
  <2>4. ~(section.pageCount > 65535)
    BY <1>2, <2>2, <2>3
  <2> QED  BY <1>5, <1>11, <2>1, <2>4
<1> QED  BY <1>1, <1>2, <1>3, <1>4, <1>7, <1>9, <1>10, <1>11

\* The page chosen has the place, and nothing that was deferred will move it.
LEMMA PlacedRight ==
    ASSUME ReaderOK, PlaceInv, Place, Held
    PROVE  /\ place.offset < Length[place.spine] /\ place.spine = section.spine /\ Hits(PlacedPage)
           /\ \/ Undisturbed \/ OffsetPage # None \/ jump.offset # None
              \/ cached.offset = None /\ PlacedPage = 0
<1>1. /\ Has /\ rpc \in {"place", "reach"} /\ goal = OffsetJump
      /\ WholeOnCard => section.build = None
      /\ jump.anchor # None /\ jump.percent = None => WholeOnCard \/ FindAnchor(jump.anchor) # None
      /\ rpc = "reach" /\ goal # None /\ jump.anchor = None /\ jump.percent = None =>
             WholeOnCard \/ (ReachedOffset(goal) /\ PageForOffset(goal) # None)
  BY PageIsKnown
<1>2. place.offset < Length[place.spine] /\ Leads
  BY <1>1, PlaceUnfolded DEF PlaceKnown, Finding
<1>3. place.spine = section.spine /\ currentSpine = place.spine
  BY <1>1, <1>2, PlaceUnfolded, PlaceFacts, HereFacts DEF Leads, SectionHere
<1>4. place.offset \in Nat /\ nextPage \in Nat /\ jump \in Jump /\ cached \in CachedType /\ section.pageCount \in Nat
  BY PlaceFacts, Unfolded, SectionFacts DEF PositionOK
<1>5. NoJump.last = FALSE /\ NoJump.anchor = None /\ NoJump.offset = None /\ NoJump.percent = None
  BY NoJumpFacts
<1>6. Hits(PageOf(place.offset, layout))
  BY <1>2, RightPage
<1>7. CASE ByOffset
  <2>1. /\ jump = NoJump /\ cached.spine = currentSpine /\ cached.offset = place.offset /\ rpc = "reach"
    BY <1>1, <1>7 DEF ByOffset
  <2>2. goal = place.offset /\ place.offset # None
    BY <1>1, <1>4, <1>5, <2>1 DEF OffsetJump
  <2>3. PageForOffset(place.offset) # None
    <3>1. WholeOnCard \/ PageForOffset(goal) # None
      BY <1>1, <1>5, <2>1, <2>2
    <3>2. WholeOnCard => PageForOffset(place.offset) # None
      BY <1>1, <1>2, <1>3, <1>4, SectionAnswers
    <3> QED  BY <2>2, <3>1, <3>2
  <2>4. PageForOffset(place.offset) = PageOf(place.offset, layout)
    BY <1>1, <1>2, <1>3, <1>4, <2>3, SectionAnswers
  <2>5. OffsetPage = PageForOffset(place.offset)
    BY <2>2 DEF OffsetPage
  <2>6. PlacedPage = OffsetPage
    BY <1>5, <2>1, <2>3, <2>5 DEF PlacedPage, PercentPage, AnchorPage
  <2> QED  BY <1>2, <1>3, <1>6, <2>3, <2>4, <2>5, <2>6
<1>8. CASE ByPage
  <2>1. jump = NoJump /\ Hits(nextPage) /\ (Undisturbed \/ (cached.offset = None /\ nextPage = 0))
    BY <1>8 DEF ByPage
  <2>2. Undisturbed /\ currentSpine = cached.spine => cached.offset = None
    BY <1>4, LapsedFacts DEF Undisturbed
  <2>3. goal = None
    BY <1>1, <1>5, <2>1, <2>2 DEF OffsetJump
  <2>4. PlacedPage = nextPage
    BY <1>5, <2>1, <2>3 DEF PlacedPage, PercentPage, AnchorPage, OffsetPage, Target
  <2> QED  BY <1>2, <1>3, <2>1, <2>4
<1>9. CASE ByEnd
  <2>1. /\ jump.last /\ jump.anchor = None /\ jump.offset = None /\ jump.percent = None
        /\ Undisturbed /\ place.offset = Length[place.spine] - 1
    BY <1>3, <1>9 DEF ByEnd, NoJump
  <2>2. goal = None
    BY <1>1, <2>1 DEF OffsetJump
  <2>3. PlacedPage = 65535
    BY <2>1, <2>2 DEF PlacedPage, PercentPage, AnchorPage, OffsetPage, Target
  <2> QED  BY <1>2, <1>3, <2>1, <2>3, EndPages
<1>10. CASE ByAnchor
  <2> DEFINE a == jump.anchor
  <2>1. /\ a # None /\ jump.last = FALSE /\ jump.offset = None /\ jump.percent = None /\ Undisturbed /\ nextPage = 0
        /\ place.offset = IF a < Length[section.spine] THEN a ELSE 0
    BY <1>3, <1>10 DEF ByAnchor, NoJump
  <2>2. a \in Nat
    BY <1>4, <2>1 DEF Jump
  <2>3. goal = None
    BY <1>1, <2>1 DEF OffsetJump
  <2>4. PlacedPage = IF FindAnchor(a) # None THEN FindAnchor(a) ELSE 0
    BY <2>1, <2>3 DEF PlacedPage, PercentPage, AnchorPage, OffsetPage, Target
  <2>5. CASE FindAnchor(a) # None
    <3>1. FindAnchor(a) = PageOf(a, layout) /\ a < Length[section.spine]
      BY <1>1, <2>2, <2>5, SectionAnswers
    <3> QED  BY <1>2, <1>3, <1>6, <2>1, <2>4, <2>5, <3>1
  <2>6. CASE FindAnchor(a) = None
    <3>1. WholeOnCard
      BY <1>1, <2>1, <2>6
    <3>2. ~(a < Length[section.spine])
      BY <1>1, <2>2, <2>6, <3>1, SectionAnswers
    <3> QED  BY <1>2, <1>3, <2>1, <2>4, <2>6, <3>2, EndPages
  <2> QED  BY <2>5, <2>6
<1>11. CASE ByMark
  <2>1. /\ jump.last = FALSE /\ jump.anchor = None /\ jump.offset = place.offset /\ jump.percent = None
        /\ nextPage = PageOf(place.offset, layout)
    BY <1>11 DEF ByMark, NoJump
  <2>2. place.offset # None
    BY <1>4
  <2>3. goal = place.offset
    BY <1>1, <2>1, <2>2 DEF OffsetJump
  <2>4. PlacedPage = IF PageForOffset(place.offset) # None THEN PageForOffset(place.offset) ELSE nextPage
    BY <2>1, <2>2, <2>3 DEF PlacedPage, PercentPage, AnchorPage, OffsetPage, Target
  <2>5. PageForOffset(place.offset) # None => PageForOffset(place.offset) = PageOf(place.offset, layout)
    BY <1>1, <1>2, <1>3, <1>4, SectionAnswers
  <2> QED  BY <1>2, <1>3, <1>6, <2>1, <2>2, <2>4, <2>5
<1> QED  BY <1>2, <1>7, <1>8, <1>9, <1>10, <1>11 DEF Leads

LEMMA PlacePlace == ASSUME ReaderOK, PlaceInv, Place PROVE PlaceInv'
<1>1. /\ rpc \in {"place", "reach"} /\ section' = [section EXCEPT !.currentPage = PlacedPage]
      /\ cached' = IF OffsetPage # None \/ jump.offset # None THEN Lapsed(cached) ELSE cached
      /\ jump' = [NoJump EXCEPT !.percent = IF section.pageCount = 0 THEN jump.percent ELSE None]
      /\ rpc' = "extend" /\ goal' = None
      /\ UNCHANGED <<bin, currentSpine, nextPage, memory, cards, history, open, layout, requested, mpc>>
  BY DEF Place
<1>2. Has /\ mpc \notin {"reposition", "closing", "deleting"} /\ open
  BY <1>1, Unfolded DEF TurnsOK, Has
<1>3. UNCHANGED <<saved, lastSaved, pageOffset, progress, saving, place, origins>>
  BY <1>1 DEF memory, cards, history
<1>4. /\ section'.currentPage = PlacedPage /\ section'.spine = section.spine /\ section'.build = section.build
      /\ section'.built = section.built /\ section'.pageCount = section.pageCount
      /\ section'.partialPages = section.partialPages
  BY <1>1, <1>2, PagesChosen, PageSetFields DEF Has
<1>5. FilesWhole' /\ BuildAhead' /\ StackKept'
  BY <1>1, <1>3, <1>4, PlaceUnfolded, Frames
<1>6. SectionHere'
  BY <1>1, <1>2, <1>4, PlaceUnfolded DEF SectionHere, Has, Here
<1>7. cached \in CachedType /\ jump \in Jump
  BY Unfolded DEF PositionOK
<1>8. JumpsUsed'
  <2>1. jump'.anchor = None /\ jump'.offset = None
        /\ (jump'.percent # None => section.pageCount = 0 /\ jump.percent # None)
    BY <1>1 DEF NoJump
  <2>2. jump.percent # None => section.build = None /\ section.partialPages = 0
    BY PageIsKnown
  <2> QED  BY <1>4, <2>1, <2>2 DEF JumpsUsed
<1>9. cached = Lapsed(cached) => cached' = Lapsed(cached')
  BY <1>1, <1>7, LapsedFacts
<1>10. ASSUME cached'.offset # None PROVE section.build = None /\ section.partialPages = 0
  <2>1. cached' = cached /\ OffsetPage = None /\ jump.offset = None
    BY <1>1, <1>7, <1>10, LapsedFacts
  <2>2. rpc = "reach"
    BY <1>1, <1>7, <1>10, <2>1, PageIsKnown, LapsedFacts
  <2>3. jump.anchor = None /\ jump.percent = None /\ (jump.last \/ currentSpine = cached.spine)
    BY <1>10, <2>1, PageIsKnown DEF OffsetWaits
  <2>4. goal = IF jump.last THEN None ELSE cached.offset
    BY <2>1, <2>3, PageIsKnown DEF OffsetJump
  <2>5. goal # None => PageForOffset(goal) = None
    BY <2>1 DEF OffsetPage
  <2>6. WholeOnCard
    BY <1>10, <2>1, <2>2, <2>3, <2>4, <2>5, PageIsKnown
  <2> QED  BY <2>6, PageIsKnown
<1>11. Repositions'
  <2>1. currentSpine = SpineCount /\ Has => cached = Lapsed(cached)
    BY PlaceUnfolded DEF Repositions
  <2>2. mpc = "turning" => cached = Lapsed(cached)
    BY PlaceUnfolded DEF Repositions
  <2> QED  BY <1>1, <1>2, <1>4, <1>9, <1>10, <2>1, <2>2 DEF Repositions, Has, Finding
<1>12. PlaceKnown'
  <2> SUFFICES ASSUME Held' PROVE place'.offset < Length[place'.spine] /\ Shows'
    BY <1>1, <1>2, <1>4 DEF PlaceKnown, Has, Finding
  <2>1. Held
    BY <1>3 DEF Held
  <2>2. /\ place.offset < Length[place.spine] /\ place.spine = section.spine /\ Hits(PlacedPage)
        /\ \/ Undisturbed \/ OffsetPage # None \/ jump.offset # None
           \/ cached.offset = None /\ PlacedPage = 0
    BY <2>1, PlacedRight
  <2>3. cp' = PlacedPage /\ Hits(PlacedPage) = Hits(cp)'
    BY <1>1, <1>3, <1>4 DEF cp, Hits
  <2>4. Undisturbed \/ OffsetPage # None \/ jump.offset # None => Undisturbed'
    BY <1>1, <1>7, <1>9, LapsedFacts DEF Undisturbed
  <2>5. cached.offset = None => cached'.offset = None
    BY <1>1, <1>7, LapsedFacts
  <2> QED  BY <1>3, <1>4, <2>2, <2>3, <2>4, <2>5 DEF Shows
<1>13. PageDrawn'
  BY <1>1, <1>2, <1>3, <1>4, PlaceUnfolded DEF PageDrawn, Has
<1>14. ProgressKept'
  BY <1>1, <1>3, PlaceUnfolded, RenderProgress
<1> QED  BY <1>5, <1>6, <1>8, <1>11, <1>12, <1>13, <1>14, PlaceFolded

-----------------------------------------------------------------------------
(* The page is drawn and the progress saved.                               *)

\* applyDeferredReposition() leaves a page alone that nothing was deferred for, and the first page.
LEMMA NotMoved ==
    ASSUME ReaderOK, Has, NEW p \in Nat
    PROVE  /\ Undisturbed => Repositioned(p) = p
           /\ IsBuilding => Repositioned(p) = p
           /\ cached.offset = None /\ p = 0 => Repositioned(p) = p
           /\ section.pageCount > 0 /\ p < section.pageCount => Repositioned(p) < section.pageCount
<1>1. cached \in CachedType /\ section.pageCount \in Nat
  BY Unfolded, SectionFacts DEF PositionOK
<1>2. cached.count \in Nat
  BY <1>1 DEF CachedType
<1>3. ASSUME Undisturbed PROVE Repositioned(p) = p
  <2>1. cached.spine = currentSpine => cached.offset = None /\ cached.count = 0
    BY <1>1, <1>3, LapsedFacts DEF Undisturbed
  <2> QED  BY <2>1 DEF Repositioned, IsDeferred
<1>4. ASSUME cached.offset = None, p = 0 PROVE Repositioned(p) = p
  <2>1. cached.count > 0 => (0 * section.pageCount) \div cached.count = 0
    <3>1. 0 * section.pageCount = 0
      BY <1>1
    <3>2. cached.count > 0 => cached.count * 0 = 0
      BY <1>2
    <3>3. cached.count > 0 => 0 \div cached.count = 0
      BY <1>2, <3>2, QuotientIs
    <3> QED  BY <3>1, <3>3
  <2>2. MappedPage(0) = 0
    BY <1>4, <2>1 DEF MappedPage
  <2>3. Within(0) = 0
    BY <1>1 DEF Within, Least
  <2> QED  BY <1>4, <2>2, <2>3 DEF Repositioned
<1>5. ASSUME section.pageCount > 0, p < section.pageCount PROVE Repositioned(p) < section.pageCount
  <2>1. Repositioned(p) = Within(MappedPage(p)) \/ Repositioned(p) = p
    BY DEF Repositioned
  <2>2. ASSUME Repositioned(p) = Within(MappedPage(p)) PROVE Repositioned(p) < section.pageCount
    <3>1. Within(MappedPage(p)) = IF MappedPage(p) < section.pageCount - 1 THEN MappedPage(p)
                                  ELSE section.pageCount - 1
      BY <1>5 DEF Within, Least
    <3>2. Repositioned(p) \in Nat
      BY PagesMoved DEF Has
    <3> HIDE DEF MappedPage
    <3> QED  BY <1>1, <1>5, <2>2, <3>1, <3>2
  <2> QED  BY <1>5, <2>1, <2>2
<1>6. IsBuilding => Repositioned(p) = p
  BY DEF Repositioned, IsDeferred
<1> QED  BY <1>3, <1>4, <1>5, <1>6

\* A page out of bounds is the last one: neither has the place more than the other.
LEMMA ClampedRight ==
    ASSUME ReaderOK, PlaceInv, Has, place.spine = section.spine, Hits(cp),
           Short => ~IsPartial /\ ~IsBuilding
    PROVE  Hits(Clamped(cp)) /\ (cp = 0 => Clamped(cp) = 0)
<1>1. section.pageCount \in Nat /\ cp \in Nat /\ layout \in Layout /\ section.partialPages \in Nat
      /\ CacheFits(bin, section, layout) /\ section.spine # None
  BY SectionFacts DEF Has
<1>2. cp = 0 => Clamped(cp) = 0
  BY <1>1 DEF Clamped, Short
<1>3. CASE section.pageCount > 0 /\ Short
  <2>1. Clamped(cp) = section.pageCount - 1 /\ section.build = None /\ section.partialPages = 0
        /\ cp >= section.pageCount
    BY <1>1, <1>3 DEF Clamped, Short, IsPartial, IsBuilding
  <2>2. bin[section.spine].whole
    <3>1. section.pageCount = bin[section.spine].pages
          /\ section.partialPages = IF bin[section.spine].whole THEN 0 ELSE bin[section.spine].pages
      BY <1>1, <2>1, CacheFacts DEF SectionFits
    <3> QED  BY <1>1, <1>3, <2>1, <3>1
  <2>3. section.pageCount = Pages(place.spine, layout)
    BY <1>1, <2>2, FileFacts, PlaceUnfolded
  <2> DEFINE N == Pages(place.spine, layout)
  <2>4. Least(cp, N - 1) = N - 1 /\ Least(N - 1, N - 1) = N - 1
    <3>1. N = section.pageCount
      BY <2>3
    <3> HIDE DEF N
    <3> QED  BY <1>1, <1>3, <2>1, <3>1 DEF Least
  <2> QED  BY <1>2, <2>1, <2>3, <2>4 DEF Hits
<1>4. CASE ~(section.pageCount > 0 /\ Short)
  BY <1>2, <1>4 DEF Clamped
<1> QED  BY <1>3, <1>4

LEMMA FitPlace == ASSUME ReaderOK, PlaceInv, Fit PROVE PlaceInv'
<1> DEFINE p == Repositioned(Clamped(cp))
<1>1. /\ rpc = "extend" /\ ~(Short /\ (IsPartial \/ IsBuilding))
      /\ section' = [section EXCEPT !.currentPage = p]
      /\ rpc' = IF p < section.pageCount THEN "load" ELSE "idle"
      /\ cached' = IF IsDeferred THEN Lapsed(cached) ELSE cached
      /\ UNCHANGED <<bin, currentSpine, nextPage, jump, memory, cards, place, origins,
                     open, layout, requested, goal, mpc>>
  BY DEF Fit
<1>2. Has /\ mpc \notin {"reposition", "closing", "deleting"} /\ open /\ ~Finding
  BY <1>1, Unfolded DEF TurnsOK, Has, Finding
<1>3. cp \in Nat /\ Clamped(cp) \in Nat /\ p \in Nat /\ section.pageCount \in Nat /\ cached \in CachedType
      /\ jump \in Jump /\ section.partialPages \in Nat
  BY <1>2, SectionFacts, PagesMoved, Unfolded DEF Has, PositionOK
<1>4. UNCHANGED <<saved, lastSaved, pageOffset, progress, saving>>
  BY <1>1 DEF memory, cards
<1>5. IsBuilding => p = cp /\ cp < section.pageCount
  <2> SUFFICES ASSUME IsBuilding PROVE p = cp /\ cp < section.pageCount
    OBVIOUS
  <2>1. cp < section.pageCount /\ Clamped(cp) = cp
    BY <1>1, <1>3 DEF Short, Clamped
  <2> QED  BY <1>2, <1>3, <2>1, NotMoved
<1>6. section.pageCount > 0 => p < section.pageCount
  <2>1. section.pageCount > 0 => Clamped(cp) < section.pageCount
    BY <1>1, <1>3 DEF Clamped, Short
  <2> QED  BY <1>2, <1>3, <2>1, NotMoved
<1>7. Held => place.offset < Length[place.spine] /\ Shows
  BY <1>2, PlaceUnfolded DEF PlaceKnown
<1>8. Shows => Hits(p) /\ (~IsBuilding => Undisturbed \/ cached.offset = None)
  <2> SUFFICES ASSUME Shows PROVE Hits(p) /\ (~IsBuilding => Undisturbed \/ cached.offset = None)
    OBVIOUS
  <2>1. place.spine = section.spine /\ Hits(cp)
    BY DEF Shows
  <2>2. Hits(Clamped(cp)) /\ (cp = 0 => Clamped(cp) = 0)
    BY <1>1, <1>2, <2>1, ClampedRight
  <2>3. IsBuilding \/ Undisturbed \/ (cached.offset = None /\ cp = 0)
    BY <1>2 DEF Shows, IsBuilding
  <2>4. p = Clamped(cp) \/ p = cp
    BY <1>2, <1>3, <1>5, <2>2, <2>3, NotMoved
  <2> QED  BY <2>1, <2>2, <2>3, <2>4
<1> HIDE DEF p
<1>9. /\ section'.currentPage = p /\ section'.spine = section.spine /\ section'.build = section.build
      /\ section'.built = section.built /\ section'.pageCount = section.pageCount
      /\ section'.partialPages = section.partialPages
  BY <1>1, <1>3, PageSetFields
<1>10. FilesWhole' /\ BuildAhead' /\ StackKept'
  BY <1>1, <1>4, <1>9, PlaceUnfolded, Frames
<1>11. SectionHere' /\ JumpsUsed' /\ Has' /\ ~Finding'
  BY <1>1, <1>2, <1>9, PlaceUnfolded DEF SectionHere, JumpsUsed, Has, Here, Finding
<1>12. ~IsBuilding => cached' = Lapsed(cached')
  BY <1>1, <1>3, LapsedFacts DEF IsDeferred
<1>13. cached'.offset = None /\ (cached = Lapsed(cached) => cached' = Lapsed(cached')) /\ cached'.spine = cached.spine
  <2>1. IsBuilding => cached' = cached /\ cached.offset = None
    BY <1>1, <1>2, PlaceUnfolded DEF IsDeferred, Repositions, IsBuilding
  <2>2. cached' = cached \/ cached' = Lapsed(cached)
    BY <1>1
  <2> QED  BY <1>3, <1>12, <2>1, <2>2, LapsedFacts
<1>14. Repositions'
  BY <1>1, <1>2, <1>9, <1>11, <1>12, <1>13, PlaceUnfolded DEF Repositions, IsBuilding
<1>15. PlaceKnown'
  <2> SUFFICES ASSUME Held' PROVE place'.offset < Length[place'.spine] /\ Shows'
    BY <1>11 DEF PlaceKnown
  <2>1. Held /\ UNCHANGED <<place, layout>>
    BY <1>1 DEF Held
  <2>2. Hits(p) = Hits(cp)'
    BY <1>1, <1>9 DEF cp, Hits
  <2>3. ~IsBuilding => Undisturbed'
    BY <1>12 DEF Undisturbed
  <2>4. IsBuilding => section'.build # None /\ cp' < section'.pageCount
    BY <1>5, <1>9 DEF IsBuilding, cp
  <2> QED  BY <1>7, <1>8, <1>9, <2>1, <2>2, <2>3, <2>4 DEF Shows
<1>16. place.by \in {"drawn", "shown"} => section.pageCount > 0 \/ IsBuilding
  BY <1>1, <1>2, PlaceUnfolded DEF PageDrawn, IsBuilding
<1>17. PageDrawn'
  <2>1. place.by # "drawn" /\ rpc' \in {"load", "idle"}
    BY <1>1, PlaceUnfolded DEF PageDrawn
  <2> QED  BY <1>1, <1>9, <1>16, <2>1 DEF PageDrawn, IsBuilding
<1>18. ProgressKept'
  <2>1. place.by = "shown" => rpc' = "load"
    BY <1>1, <1>5, <1>6, <1>16
  <2> QED  BY <1>1, <1>4, <2>1, PlaceUnfolded, RenderProgress
<1> QED  BY <1>10, <1>11, <1>14, <1>15, <1>17, <1>18, PlaceFolded

-----------------------------------------------------------------------------
(* The page is drawn and recorded.                                         *)

\* A page there is has text of its own.
LEMMA PageHasText ==
    ASSUME ReaderOK, Has, NEW p \in Nat, p < section.pageCount
    PROVE  /\ p < Pages(section.spine, layout) /\ Pages(section.spine, layout) \in Nat
           /\ StartOf(p, layout) \in Nat /\ StartOf(p, layout) < Length[section.spine]
           /\ PageOf(StartOf(p, layout), layout) = p
<1> DEFINE f == bin[section.spine]
           N == Pages(section.spine, layout)
<1>1. /\ section.spine \in Spine /\ layout \in Layout /\ f \in File /\ section \in SectionType /\ N \in Nat
      /\ SectionFits(section, f, layout) /\ FileFits(section.spine, f)
  BY SectionFacts, CacheFacts DEF Has, FilesFit
<1>2. f.pages \in Nat /\ section.partialPages \in Nat /\ section.built \in Nat /\ section.pageCount \in Nat
  BY <1>1 DEF File, SectionType
<1>3. f.pages <= N
  <2>1. CASE f.layout = None
    BY <1>1, <2>1 DEF FileFits, NoFile
  <2>2. CASE f.layout # None
    BY <1>1, <2>2 DEF FileFits, SectionFits
  <2> QED  BY <2>1, <2>2
<1>4. section.pageCount <= N
  <2>1. CASE section.build = None
    BY <1>1, <1>3, <2>1 DEF SectionFits
  <2>2. CASE section.build # None
    <3>1. section.partialPages = f.pages /\ section.built <= N
          /\ section.pageCount = Greatest(section.partialPages, section.built)
      BY <1>1, <2>2 DEF SectionFits
    <3> HIDE DEF f, N
    <3> QED  BY <1>2, <1>3, <3>1 DEF Greatest
  <2> QED  BY <2>1, <2>2
<1>5. p < N
  <2> HIDE DEF f, N
  <2> QED  BY <1>1, <1>2, <1>4
<1> QED  BY <1>1, <1>5, PageNumbers, UnitsHavePages, PageOfStart

\* A page that is drawn is one of the section's.
LEMMA PageToDraw ==
    ASSUME ReaderOK, PlaceInv, Draw
    PROVE  Has /\ PageLayout(cp) = layout /\ cp \in Nat /\ cp < section.pageCount
<1>1. Has
  BY Unfolded DEF Draw, TurnsOK, Has
<1>2. cp \in Nat /\ layout \in Layout /\ CacheFits(bin, section, layout) /\ FilesWhole /\ PageLayout(cp) # None
  BY SectionFacts, PlaceUnfolded DEF Draw
<1> QED  BY <1>1, <1>2, PagesBegin DEF Has

LEMMA DrawsThePlace == ASSUME ReaderOK, PlaceInv, Draw, place.by \in {"promised", "shown"} PROVE OnPage(place)
<1>1. /\ Has /\ PageLayout(cp) = layout /\ cp \in Nat /\ cp < Pages(section.spine, layout)
      /\ Pages(section.spine, layout) \in Nat
  BY PageToDraw, PageHasText
<1>2. Held /\ ~Finding
  BY DEF Held, Finding, Draw
<1>3. place.spine = section.spine /\ Hits(cp)
  BY <1>1, <1>2, PlaceUnfolded DEF PlaceKnown, Shows
<1>4. cp = PageOf(place.offset, layout)
  <2> DEFINE N == Pages(section.spine, layout)
  <2>1. Least(cp, N - 1) = PageOf(place.offset, layout)
    BY <1>3 DEF Hits
  <2>2. N \in Nat /\ cp < N
    BY <1>1
  <2> HIDE DEF N
  <2>3. Least(cp, N - 1) = cp
    BY <1>1, <2>2 DEF Least
  <2> QED  BY <2>1, <2>3
<1> QED  BY <1>1, <1>3, <1>4 DEF OnPage, PageOf

LEMMA DrawPlace == ASSUME ReaderOK, PlaceInv, Draw PROVE PlaceInv'
<1> DEFINE o == StartOf(cp, layout)
<1>1. /\ Has /\ cp \in Nat /\ cp < section.pageCount /\ section.spine \in Spine
      /\ o \in Nat /\ o < Length[section.spine] /\ PageOf(o, layout) = cp
      /\ cp < Pages(section.spine, layout) /\ Pages(section.spine, layout) \in Nat
  BY PageToDraw, PageHasText, SectionFacts DEF Has
<1>2. /\ rpc = "load" /\ rpc' = "save" /\ pageOffset' = o /\ place' = At(section.spine, o, "drawn")
      /\ UNCHANGED <<position, saved, lastSaved, startFailed, cards, origins, sections,
                     open, layout, requested, goal, mpc>>
  BY PageToDraw DEF Draw
<1>3. place' = [spine |-> section.spine, offset |-> o, by |-> "drawn"]
  <2>1. Least(o, Length[section.spine] - 1) = o /\ Length[section.spine] # 0
    <3>1. Length[section.spine] \in Nat
      BY <1>1
    <3> HIDE DEF o
    <3> QED  BY <1>1, <3>1 DEF Least
  <2> QED  BY <1>2, <2>1 DEF At
<1> HIDE DEF o
<1>4. UNCHANGED <<bin, section, currentSpine, nextPage, jump, cached, progress, saving>>
  BY <1>2 DEF position, cards, sections
<1>5. FilesWhole' /\ BuildAhead' /\ StackKept'
  BY <1>2, <1>4, PlaceUnfolded, Frames
<1>6. SectionHere' /\ JumpsUsed'
  BY <1>2, <1>4, PlaceUnfolded DEF SectionHere, JumpsUsed, Has, Here, Finding
<1>8. Repositions'
  BY <1>1, <1>2, <1>4, PlaceUnfolded DEF Repositions, Has, Finding
<1>9. Shows'
  <2>1. Hits(cp)'
    <3> DEFINE N == Pages(section.spine, layout)
    <3>1. N \in Nat /\ cp < N
      BY <1>1
    <3> HIDE DEF N
    <3>2. Least(cp, N - 1) = cp
      BY <1>1, <3>1 DEF Least
    <3> QED  BY <1>1, <1>2, <1>3, <1>4, <3>2 DEF Hits, cp, N
  <2>2. cached = Lapsed(cached) => Undisturbed'
    BY <1>4 DEF Undisturbed
  <2>3. section.build # None \/ cached = Lapsed(cached)
    BY <1>2, PlaceUnfolded DEF Repositions
  <2> QED  BY <1>1, <1>3, <1>4, <2>1, <2>2, <2>3 DEF Shows, cp
<1>10. PlaceKnown'
  BY <1>1, <1>2, <1>3, <1>4, <1>9 DEF PlaceKnown, Has, Finding
<1>11. PageDrawn'
  <2>1. section.pageCount > 0
    BY <1>1, SectionFacts
  <2>2. place'.offset = StartOf(cp, layout)' /\ pageOffset' = place'.offset /\ (cp < section.pageCount)'
    BY <1>1, <1>2, <1>3, <1>4 DEF cp, o
  <2>3. place'.by = "drawn" /\ rpc' = "save" /\ section'.pageCount > 0
    BY <1>2, <1>3, <1>4, <2>1
  <2> QED  BY <2>2, <2>3 DEF PageDrawn
<1>12. ProgressKept'
  BY <1>2, <1>3, <1>4, PlaceUnfolded, RenderProgress
<1> QED  BY <1>5, <1>6, <1>8, <1>10, <1>11, <1>12, PlaceFolded

LEMMA LoadFailsPlace == ASSUME ReaderOK, PlaceInv, LoadFails PROVE PlaceInv'
<1>1. /\ rpc = "load" /\ DiscardSection /\ rpc' = "idle" /\ place' = NoPlace
      /\ UNCHANGED <<position, saved, lastSaved, cards, origins, open, mpc>>
  BY DEF LoadFails
<1>2. open /\ mpc \notin {"reposition", "deleting", "closing"} /\ Has
  BY <1>1, Unfolded DEF TurnsOK, Has
<1>3. OffsetWaits
  BY <1>1, <1>2, PlaceUnfolded DEF Repositions, Finding, OffsetWaits
<1> QED  BY <1>1, <1>2, <1>3, ErrorPlace DEF position, cards

LEMMA DrawnFacts ==
    ASSUME ReaderOK, PlaceInv, place.by = "drawn"
    PROVE  /\ Has /\ Held /\ Shows /\ section.pageCount > 0 /\ place.spine = Here /\ place.offset # None
           /\ rpc \in {"save", "replace"} /\ cp < section.pageCount /\ pageOffset = place.offset
           /\ PageOf(place.offset, layout) = cp
<1>1. rpc \in {"save", "replace"} /\ cp < section.pageCount /\ place.offset = StartOf(cp, layout)
      /\ pageOffset = place.offset
  BY PlaceUnfolded DEF PageDrawn
<1>2. Has /\ cp \in Nat /\ section.pageCount \in Nat
  BY <1>1, Unfolded, SectionFacts DEF TurnsOK, Has
<1>3. Held /\ ~Finding
  BY <1>1 DEF Held, Finding
<1>4. Shows /\ section.spine = Here
  BY <1>2, <1>3, PlaceUnfolded DEF PlaceKnown, SectionHere
<1>5. place.spine = Here
  BY <1>4 DEF Shows
<1>6. PageOf(place.offset, layout) = cp
  BY <1>1, <1>2, PageHasText
<1>7. section.pageCount > 0
  BY <1>1, <1>2
<1>8. place.offset # None
  BY PlaceFacts
<1> QED  BY <1>1, <1>2, <1>3, <1>4, <1>5, <1>6, <1>7, <1>8

\* Rendering ends with the page on the screen.
LEMMA RenderEndsPlace ==
    ASSUME ReaderOK, PlaceInv, rpc \in {"save", "replace"}, rpc' = "idle",
           place' \in {Saved("shown"), Saved("unsaved")}, place'.by = "shown" => OnCard', LastSavedThere',
           UNCHANGED <<position, saved, origins, sections, open, layout, mpc>>
    PROVE  PlaceInv'
<1>1. open /\ mpc \notin {"reposition", "closing", "deleting"} /\ Has /\ ~Finding
  BY Unfolded DEF TurnsOK, Has, Finding
<1>2. UNCHANGED <<bin, section, currentSpine, nextPage, jump, cached>>
  BY DEF position, sections
<1>3. FilesWhole' /\ BuildAhead' /\ StackKept'
  BY <1>2, PlaceUnfolded, Frames
<1>4. SectionHere' /\ JumpsUsed'
  BY <1>1, <1>2, PlaceUnfolded DEF SectionHere, JumpsUsed, Has, Here, Finding
<1>5. Repositions'
  BY <1>1, <1>2, PlaceUnfolded DEF Repositions, Has, Finding
<1>6. place.by \in {"drawn", "none", "promised", "leftover"}
  BY PlaceUnfolded DEF PageDrawn
<1>7. CASE place.by = "drawn"
  <2>1. Held /\ Shows /\ section.pageCount > 0
    BY <1>7, DrawnFacts
  <2>2. place'.spine = place.spine /\ place'.offset = place.offset /\ place'.by \in {"shown", "unsaved"}
    BY <1>7, Unfolded DEF Saved, PlaceType
  <2>3. Shows'
    BY <1>2, <2>1, <2>2 DEF Shows, Hits, Undisturbed, cp
  <2>4. place.offset < Length[place.spine]
    BY <1>1, <2>1, PlaceUnfolded DEF PlaceKnown
  <2>5. PlaceKnown'
    BY <1>1, <1>2, <2>2, <2>3, <2>4 DEF PlaceKnown, Has, Finding
  <2>6. PageDrawn'
    BY <1>1, <1>2, <2>1, <2>2 DEF PageDrawn, Has
  <2>7. ProgressKept'
    BY <1>1 DEF ProgressKept
  <2> QED  BY <1>3, <1>4, <1>5, <2>5, <2>6, <2>7, PlaceFolded
<1>8. CASE place.by \in {"none", "promised", "leftover"}
  <2>1. UNCHANGED place
    BY <1>8 DEF Saved
  <2>2. Shows => Shows'
    BY <1>2, <2>1 DEF Shows, Hits, Undisturbed, cp
  <2>3. PlaceKnown'
    BY <1>1, <1>2, <2>1, <2>2, PlaceUnfolded DEF PlaceKnown, Has, Held, Finding
  <2>4. PageDrawn'
    BY <1>8, <2>1 DEF PageDrawn
  <2>5. ProgressKept'
    BY <1>1 DEF ProgressKept
  <2> QED  BY <1>3, <1>4, <1>5, <2>3, <2>4, <2>5, PlaceFolded
<1> QED  BY <1>6, <1>7, <1>8

\* What is saved of the page drawn.
LEMMA OnCardNow ==
    ASSUME ReaderOK, PlaceInv, place.by = "drawn", place' = [place EXCEPT !.by = "shown"],
           UNCHANGED <<section, layout>>, progress'.page = cp, progress'.offset = place.offset,
           progress'.spine \in {Here, SpineCount}
    PROVE  OnCard'
<1>1. Has /\ place.spine = Here /\ place.offset # None /\ PageOf(place.offset, layout) = cp
  BY DrawnFacts
<1>2. place'.spine = place.spine /\ place'.offset = place.offset
  BY Unfolded DEF PlaceType
<1> QED  BY <1>1, <1>2 DEF OnCard, Has

LEMMA SkipSavePlace == ASSUME ReaderOK, PlaceInv, SkipSave PROVE PlaceInv'
<1> DEFINE written == progress.page = cp /\ progress.offset = place.offset
<1>1. /\ rpc = "save" /\ rpc' = "idle" /\ ~SaveNeeded
      /\ place' = Saved(IF written THEN "shown" ELSE "unsaved")
      /\ UNCHANGED <<position, memory, cards, origins, sections, open, layout, requested, goal, mpc>>
  BY DEF SkipSave
<1>2. UNCHANGED <<saved, lastSaved, progress, section>>
  BY <1>1 DEF memory, cards, sections
<1>3. LastSavedThere'
  BY <1>2, PlaceUnfolded DEF ProgressKept, LastSavedThere
<1>4. place'.by = "shown" => place.by = "drawn" /\ written
  BY <1>1, Unfolded, PlaceUnfolded DEF Saved, PlaceType, PageDrawn
<1>5. ASSUME place'.by = "shown" PROVE OnCard'
  <2>1. place.by = "drawn" /\ written /\ place' = [place EXCEPT !.by = "shown"]
    BY <1>1, <1>4, <1>5 DEF Saved
  <2>2. place.offset # None
    BY <2>1, DrawnFacts
  <2>3. lastSaved # None /\ lastSaved[1] = currentSpine
    BY <1>1 DEF SaveNeeded
  <2>4. progress.spine \in {Here, SpineCount}
    BY <2>1, <2>2, <2>3, PlaceUnfolded DEF ProgressKept, LastSavedThere, Here
  <2> QED  BY <1>1, <1>2, <2>1, <2>4, OnCardNow
<1> HIDE DEF written
<1>6. place' \in {Saved("shown"), Saved("unsaved")}
  BY <1>1
<1> QED  BY <1>1, <1>2, <1>3, <1>5, <1>6, RenderEndsPlace

LEMMA SaveProgressPlace == ASSUME ReaderOK, PlaceInv, SaveProgress PROVE PlaceInv'
<1>1. rpc = "save" /\ UNCHANGED <<position, memory, origins, sections, open, layout, requested, goal, mpc>>
  BY DEF SaveProgress
<1>2. /\ UNCHANGED <<bin, section, currentSpine, nextPage, jump, cached, saved, lastSaved, pageOffset>>
  BY <1>1 DEF position, memory, sections
<1>3. open /\ mpc \notin {"reposition", "closing", "deleting"} /\ Has /\ ~Finding
  BY <1>1, Unfolded DEF TurnsOK, Has, Finding
<1>4. CASE rpc' = "idle" /\ place' = Saved("unsaved") /\ UNCHANGED cards
  <2>1. UNCHANGED progress
    BY <1>4 DEF cards
  <2>2. LastSavedThere'
    BY <1>2, <2>1, PlaceUnfolded DEF ProgressKept, LastSavedThere
  <2>3. place'.by # "shown"
    BY <1>1, <1>4, Unfolded, PlaceUnfolded DEF Saved, PlaceType, PageDrawn
  <2> QED  BY <1>1, <1>2, <1>4, <2>2, <2>3, RenderEndsPlace
<1>5. CASE /\ saving' = Record(currentSpine, cp, EstimatedTotalPages, OffsetToSave(currentSpine, cp))
           /\ progress' = NoProgress /\ rpc' = "replace" /\ UNCHANGED place
  <2>1. saving'.spine = currentSpine /\ saving'.page = cp /\ saving'.offset = OffsetToSave(currentSpine, cp)
    BY <1>5 DEF Record
  <2>2. FilesWhole' /\ BuildAhead' /\ StackKept'
    BY <1>1, <1>2, PlaceUnfolded, Frames
  <2>3. SectionHere' /\ JumpsUsed'
    BY <1>1, <1>2, <1>3, <1>5, PlaceUnfolded DEF SectionHere, JumpsUsed, Has, Here, Finding
  <2>4. Repositions'
    BY <1>1, <1>2, <1>3, <1>5, PlaceUnfolded DEF Repositions, Has, Finding
  <2>5. PlaceKnown'
    <3>1. Shows => Shows'
      BY <1>1, <1>2, <1>5 DEF Shows, Hits, Undisturbed, cp
    <3> QED  BY <1>1, <1>2, <1>3, <1>5, <3>1, PlaceUnfolded DEF PlaceKnown, Held, Has, Finding
  <2>6. saving'.spine \in {Here, SpineCount}
    BY <2>1, HereFacts
  <2>7. place.by = "drawn" => saving'.offset = place.offset
    <3> SUFFICES ASSUME place.by = "drawn" PROVE OffsetToSave(currentSpine, cp) = place.offset
      BY <2>1
    <3>1. pageOffset = place.offset /\ place.offset # None /\ cp < section.pageCount
      BY DrawnFacts
    <3>2. section # NoSection /\ ~(cp >= section.pageCount)
      BY <1>3, <3>1, SectionFacts DEF Has
    <3> QED  BY <3>1, <3>2 DEF OffsetToSave
  <2>8. PageDrawn'
    <3>1. place.by \in {"drawn", "none", "promised", "leftover"} /\ (place.by = "drawn" => cp < section.pageCount
            /\ place.offset = StartOf(cp, layout) /\ pageOffset = place.offset /\ section.pageCount > 0)
      BY <1>1, PlaceUnfolded, DrawnFacts DEF PageDrawn
    <3> QED  BY <1>1, <1>2, <1>5, <2>1, <2>6, <2>7, <3>1 DEF PageDrawn, Has, Here, cp
  <2>9. progress'.offset = None
    BY <1>5 DEF NoProgress
  <2>10. ProgressKept'
    BY <1>1, <1>3, <1>5, <2>9 DEF ProgressKept, LastSavedThere
  <2> QED  BY <2>2, <2>3, <2>4, <2>5, <2>8, <2>10, PlaceFolded
<1> QED  BY <1>4, <1>5 DEF SaveProgress

LEMMA ReplaceProgressPlace == ASSUME ReaderOK, PlaceInv, ReplaceProgress PROVE PlaceInv'
<1>1. /\ rpc = "replace" /\ rpc' = "idle"
      /\ UNCHANGED <<position, saved, retries, startFailed, pageOffset, origins, sections,
                     open, layout, requested, goal, mpc>>
  BY DEF ReplaceProgress
<1>2. saving.spine \in {Here, SpineCount}
  BY <1>1, PlaceUnfolded DEF PageDrawn
<1>3. CASE /\ progress' = saving /\ lastSaved' = <<currentSpine, cp, saving.count>> /\ place' = Saved("shown")
  <2>1. LastSavedThere'
    <3>1. lastSaved'[1] = currentSpine
      BY <1>3
    <3> QED  BY <1>2, <1>3, <3>1 DEF LastSavedThere, Here
  <2>2. ASSUME place'.by = "shown" PROVE OnCard'
    <3>1. place.by = "drawn" /\ place' = [place EXCEPT !.by = "shown"]
      BY <1>1, <1>3, <2>2, PlaceUnfolded DEF Saved, PageDrawn
    <3>2. saving.page = cp /\ saving.offset = place.offset
      BY <1>1, <3>1, PlaceUnfolded DEF PageDrawn
    <3> QED  BY <1>1, <1>2, <1>3, <3>1, <3>2, OnCardNow DEF sections
  <2> QED  BY <1>1, <1>3, <2>1, <2>2, RenderEndsPlace
<1>4. CASE place' = Saved("unsaved") /\ UNCHANGED <<progress, lastSaved>>
  <2>1. LastSavedThere'
    BY <1>4, PlaceUnfolded DEF ProgressKept, LastSavedThere
  <2>2. place'.by # "shown"
    BY <1>1, <1>4, Unfolded, PlaceUnfolded DEF Saved, PlaceType, PageDrawn
  <2> QED  BY <1>1, <1>4, <2>1, <2>2, RenderEndsPlace
<1> QED  BY <1>3, <1>4 DEF ReplaceProgress

LEMMA RenderPlace == ASSUME ReaderOK, PlaceInv, Render, ReaderOK' PROVE PlaceInv'
BY RenderBeginsPlace, OpenSectionPlace, PlanPlace, ReachPlace, PlacePlace, ExtendPlace, FitPlace,
   DrawPlace, LoadFailsPlace, SkipSavePlace, SaveProgressPlace, ReplaceProgressPlace DEF Render

-----------------------------------------------------------------------------
(* The main task turns pages.                                              *)

LEMMA PromisedFacts ==
    ASSUME NEW s \in Spine, NEW o \in Nat
    PROVE  /\ Promise(s, o).by \in {"none", "promised", "leftover"}
           /\ Promise(s, o).by = "promised" =>
                  /\ jump = NoJump /\ Length[s] \in Nat /\ Length[s] > 0
                  /\ Promise(s, o).spine = s /\ Promise(s, o).offset = Least(o, Length[s] - 1)
                  /\ Promise(s, o).offset \in Nat /\ Promise(s, o).offset < Length[s]
<1>1. Length[s] \in Nat
  OBVIOUS
<1>2. CASE Length[s] = 0
  BY <1>2 DEF Promise, At, NoPlace
<1>3. CASE Length[s] # 0
  <2> DEFINE n == Length[s]
  <2>1. Least(o, n - 1) \in Nat /\ Least(o, n - 1) < n /\ n > 0
    <3> HIDE DEF n
    <3> QED  BY <1>1, <1>3 DEF Least, n
  <2> QED  BY <1>1, <1>3, <2>1 DEF Promise, At
<1> QED  BY <1>2, <1>3

\* A place that is the start of a page is on that page.
LEMMA PromisedPage ==
    ASSUME ReaderOK, NEW s \in Spine, NEW p \in Nat, place' = Promise(s, StartOf(p, layout)), Held'
    PROVE  /\ jump = NoJump /\ place'.by = "promised" /\ place'.spine = s /\ place'.offset < Length[s]
           /\ Least(p, Pages(s, layout) - 1) = PageOf(place'.offset, layout)
<1>1. layout \in Layout /\ StartOf(p, layout) \in Nat
  BY SectionFacts, PageNumbers
<1>2. /\ jump = NoJump /\ place'.by = "promised" /\ place'.spine = s /\ place'.offset < Length[s]
      /\ Length[s] > 0 /\ place'.offset = Least(StartOf(p, layout), Length[s] - 1)
  BY <1>1, PromisedFacts DEF Held
<1> QED  BY <1>1, <1>2, StartHits

\* What leaves the section alone, and the deferred reposition or nothing of it.
LEMMA IdleFacts ==
    ASSUME ReaderOK, PlaceInv, rpc = "idle"
    PROVE  /\ ~Finding /\ place.by # "drawn"
           /\ Has => cached.offset = None /\ section.spine = Here
           /\ ~Has => section = NoSection /\ OffsetWaits
<1>1. ~Finding /\ place.by # "drawn"
  BY PlaceUnfolded DEF Finding, PageDrawn
<1> QED  BY <1>1, PlaceUnfolded, SectionFacts DEF Repositions, SectionHere, Has

LEMMA TurnStartsPlace == ASSUME ReaderOK, PlaceInv, TurnStarts PROVE PlaceInv'
<1>1. /\ open /\ rpc = "idle" /\ mpc = "idle" /\ section # NoSection /\ mpc' = "lock"
      /\ UNCHANGED <<position, memory, cards, history, sections, open, layout, requested, rpc, goal>>
  BY DEF TurnStarts, Reading, Free
<1>2. UNCHANGED <<bin, section, currentSpine, nextPage, jump, cached, saved, origins, lastSaved, pageOffset,
                  progress, saving, place>>
  BY <1>1 DEF position, memory, cards, history, sections
<1>3. Has /\ ~Finding /\ ~Finding' /\ Has' /\ place.by # "drawn"
  BY <1>1, <1>2, IdleFacts, SectionFacts DEF Has, Finding
<1>4. FilesWhole' /\ BuildAhead' /\ StackKept'
  BY <1>2, PlaceUnfolded, Frames
<1>5. SectionHere' /\ JumpsUsed'
  BY <1>1, <1>2, <1>3, PlaceUnfolded DEF SectionHere, JumpsUsed, Here
<1>6. Repositions'
  BY <1>1, <1>2, <1>3, PlaceUnfolded DEF Repositions
<1>7. PlaceKnown'
  <2>1. Shows => Shows'
    BY <1>1, <1>2 DEF Shows, Hits, Undisturbed, cp
  <2> QED  BY <1>2, <1>3, <2>1, PlaceUnfolded DEF PlaceKnown, Held
<1>8. PageDrawn'
  BY <1>1, <1>2, <1>3, PlaceUnfolded DEF PageDrawn, Has
<1>9. ProgressKept'
  <2>1. OnCard => OnCard'
    BY <1>1, <1>2 DEF OnCard, Has, Hits
  <2> QED  BY <1>1, <1>2, <2>1, PlaceUnfolded DEF ProgressKept, LastSavedThere
<1> QED  BY <1>4, <1>5, <1>6, <1>7, <1>8, <1>9, PlaceFolded

LEMMA TurnLocksPlace == ASSUME ReaderOK, PlaceInv, TurnLocks PROVE PlaceInv'
<1>1. /\ mpc = "lock" /\ rpc = "idle" /\ mpc' = "turning" /\ cached' = Lapsed(cached)
      /\ UNCHANGED <<currentSpine, nextPage, jump, memory, cards, history, sections,
                     open, layout, requested, rpc, goal>>
  BY DEF TurnLocks
<1>2. UNCHANGED <<bin, section, saved, origins, lastSaved, pageOffset, progress, saving, place>>
  BY <1>1 DEF memory, cards, history, sections
<1>3. currentSpine \in Spine /\ open /\ cached \in CachedType
  BY <1>1, Unfolded DEF TurnsOK, PositionOK
<1>4. ~Finding /\ ~Finding' /\ place.by # "drawn" /\ Has' = Has
  BY <1>1, <1>2, IdleFacts DEF Has, Finding
<1>5. Held => Has
  BY <1>1, <1>3, <1>4, PlaceUnfolded, SpinesAreSpines, HereFacts DEF PlaceKnown
<1>6. cached'.offset = None /\ cached' = Lapsed(cached')
  BY <1>1, <1>3, LapsedFacts
<1>7. FilesWhole' /\ BuildAhead' /\ StackKept'
  BY <1>2, PlaceUnfolded, Frames
<1>8. SectionHere' /\ JumpsUsed'
  BY <1>1, <1>2, <1>4, PlaceUnfolded DEF SectionHere, JumpsUsed, Here
<1>9. Repositions'
  BY <1>1, <1>4, <1>6 DEF Repositions, OffsetWaits
<1>10. PlaceKnown'
  <2>1. Shows => Shows'
    BY <1>1, <1>2, <1>6 DEF Shows, Hits, Undisturbed, cp
  <2> QED  BY <1>2, <1>4, <1>5, <2>1, PlaceUnfolded DEF PlaceKnown, Held
<1>11. PageDrawn'
  BY <1>1, <1>2, <1>4, PlaceUnfolded DEF PageDrawn
<1>12. ProgressKept'
  <2>1. OnCard => OnCard'
    BY <1>1, <1>2 DEF OnCard, Has, Hits
  <2> QED  BY <1>1, <1>2, <1>3, <2>1, PlaceUnfolded DEF ProgressKept, LastSavedThere
<1> QED  BY <1>7, <1>8, <1>9, <1>10, <1>11, <1>12, PlaceFolded

\* The page number changes, whatever the render task is doing.
LEMMA TurnWithinPlace ==
    ASSUME ReaderOK, PlaceInv, open, Has, currentSpine \in Spine, NEW p \in Nat, TurnWithin(p),
           cached = Lapsed(cached) \/ p = 0, mpc' = "idle",
           UNCHANGED <<memory, cards, origins, open, layout, rpc, goal>>
    PROVE  PlaceInv'
<1>1. /\ section' = [section EXCEPT !.currentPage = p] /\ UNCHANGED <<bin, position>>
      /\ place' = IF Reopening \/ (rpc = "extend" /\ Deferred(currentSpine)) THEN NoPlace
                  ELSE Promise(currentSpine, StartOf(p, layout))
  BY DEF TurnWithin
<1>2. /\ UNCHANGED <<currentSpine, nextPage, jump, cached, saved, lastSaved, pageOffset, progress, saving>>
  BY <1>1 DEF position, memory, cards
<1>3. /\ section'.currentPage = p /\ section'.spine = section.spine /\ section'.build = section.build
      /\ section'.built = section.built /\ section'.complete = section.complete
      /\ section'.pageCount = section.pageCount /\ section'.partialPages = section.partialPages
  BY <1>1, PageSetFields
<1>4. FilesWhole' /\ BuildAhead' /\ StackKept'
  BY <1>1, <1>2, <1>3, PlaceUnfolded, Frames
<1>5. Has' /\ Finding' = Finding
  BY <1>3 DEF Has, Finding
<1>6. SectionHere' /\ JumpsUsed'
  <2>1. CoversTarget' = CoversTarget /\ WholeOnCard' = WholeOnCard
    BY <1>1, <1>2, <1>3 DEF CoversTarget, WholeOnCard, IsPartial, AnchorOnCard, Target
  <2> QED  BY <1>1, <1>2, <1>3, <1>5, <2>1, PlaceUnfolded DEF SectionHere, JumpsUsed, Here, Has
<1>7. Repositions'
  <2>1. OffsetWaits' = OffsetWaits /\ OffsetJump' = OffsetJump
    BY <1>2 DEF OffsetWaits, OffsetJump
  <2> QED  BY <1>1, <1>2, <1>3, <1>5, <2>1, PlaceUnfolded DEF Repositions, Has
<1>8. place'.by \in {"none", "promised", "leftover"}
  <2>1. StartOf(p, layout) \in Nat
    BY SectionFacts, PageNumbers
  <2> QED  BY <1>1, <2>1, PromisedFacts DEF NoPlace
<1>9. Held' => /\ place' = Promise(currentSpine, StartOf(p, layout)) /\ ~Finding
               /\ (rpc = "extend" => ~Deferred(currentSpine))
  BY <1>1 DEF NoPlace, Held, Reopening, Finding
<1>10. PlaceKnown'
  <2> SUFFICES ASSUME Held' PROVE place'.offset < Length[place'.spine] /\ Shows'
    BY <1>5, <1>9 DEF PlaceKnown, Finding
  <2>1. /\ place'.spine = currentSpine /\ place'.offset < Length[currentSpine]
        /\ Least(p, Pages(currentSpine, layout) - 1) = PageOf(place'.offset, layout)
    BY <1>9, PromisedPage
  <2>2. section.spine = currentSpine
    BY PlaceUnfolded, HereFacts DEF SectionHere
  <2>3. Hits(cp)'
    BY <1>3, <2>1 DEF Hits, cp
  <2>4. rpc = "extend" => Undisturbed
    BY <1>9 DEF Deferred, Undisturbed
  <2>5. rpc # "extend" => Undisturbed \/ (cached.offset = None /\ p = 0)
    BY <1>9, PlaceUnfolded DEF Repositions, Undisturbed
  <2>6. Undisturbed' = Undisturbed /\ cached' = cached /\ cp' = p
    BY <1>2, <1>3 DEF Undisturbed, cp
  <2>7. Undisturbed' \/ (cached'.offset = None /\ cp' = 0)
    BY <2>4, <2>5, <2>6
  <2> QED  BY <1>3, <2>1, <2>2, <2>3, <2>7 DEF Shows
<1>11. PageDrawn'
  BY <1>2, <1>8, PlaceUnfolded DEF PageDrawn, Here
<1>12. ProgressKept'
  BY <1>2, <1>8, PlaceUnfolded DEF ProgressKept, LastSavedThere
<1> QED  BY <1>4, <1>6, <1>7, <1>10, <1>11, <1>12, PlaceFolded

\* Leaving the section for a page elsewhere.
LEMMA LeapPlace ==
    ASSUME ReaderOK, PlaceInv, open, rpc = "idle", NEW s, NEW page, NEW j, NEW to,
           Leap(s, page, j, to), mpc' = "idle", UNCHANGED <<lastSaved, progress, open, rpc, layout>>, StackKept',
           to.by \in {"none", "promised", "leftover", "origin"},
           to.by = "promised" => to.offset < Length[to.spine] /\ (s # SpineCount => Leads')
    PROVE  PlaceInv'
<1>1. /\ currentSpine' = s /\ nextPage' = page /\ jump' = j /\ cached' = Lapsed(cached)
      /\ ResetSection /\ place' = to
  BY DEF Leap
<1>2. section' = NoSection
  BY <1>1 DEF ResetSection
<1>3. FilesWhole'
  BY <1>1, PlaceUnfolded, WholeStep, SectionFacts
<1>4. OffsetWaits'
  BY <1>1, Unfolded, LapsedFacts DEF OffsetWaits, PositionOK
<1>5. LastSavedThere'
  BY PlaceUnfolded DEF ProgressKept, LastSavedThere
<1>6. Held' => to.by = "promised"
  BY <1>1 DEF Held
<1>7. place'.by \notin {"drawn", "shown"}
  BY <1>1
<1>8. rpc' = "idle" /\ mpc' \notin {"reposition", "deleting", "closing", "turning", "lock"} /\ open'
  OBVIOUS
<1>9. Held' => place'.offset < Length[place'.spine] /\ (currentSpine' # SpineCount => Leads')
  BY <1>1, <1>6
<1> QED  BY <1>2, <1>3, <1>4, <1>5, <1>7, <1>8, <1>9, GonePlace

\* The first page of a chapter, and any other that is known by its number.
LEMMA LeapToPage ==
    ASSUME ReaderOK, PlaceInv, open, rpc = "idle", NEW s \in Spine, NEW page \in Nat, NEW to,
           Leap(s, page, jump, to), mpc' = "idle", UNCHANGED <<lastSaved, progress, open, rpc, layout>>, StackKept',
           to.by \in {"none", "promised", "leftover", "origin"},
           to.by = "promised" => /\ jump = NoJump /\ to.spine = s /\ to.offset < Length[s]
                                 /\ Least(page, Pages(s, layout) - 1) = PageOf(to.offset, layout)
    PROVE  PlaceInv'
<1>1. currentSpine' = s /\ nextPage' = page /\ jump' = jump /\ cached' = Lapsed(cached) /\ place' = to
  BY DEF Leap
<1>2. Undisturbed'
  BY <1>1, Unfolded, LapsedFacts DEF Undisturbed, PositionOK
<1>3. to.by = "promised" => to.offset < Length[to.spine] /\ Leads'
  <2> SUFFICES ASSUME to.by = "promised" PROVE to.offset < Length[to.spine] /\ Leads'
    OBVIOUS
  <2>1. Hits(nextPage)'
    BY <1>1 DEF Hits
  <2> QED  BY <1>1, <1>2, <2>1 DEF Leads, ByPage
<1> QED  BY <1>3, LeapPlace

\* The last page of a chapter.
LEMMA LeapToEnd ==
    ASSUME ReaderOK, NEW s \in Spine, currentSpine' = s, jump' = [jump EXCEPT !.last = TRUE],
           Undisturbed', place' = Promise(s, Length[s]), Held'
    PROVE  place'.by = "promised" /\ place'.spine = s /\ place'.offset < Length[s] /\ Leads'
<1>1. Length[s] \in Nat
  OBVIOUS
<1>2. /\ jump = NoJump /\ place'.by = "promised" /\ place'.spine = s /\ place'.offset < Length[s]
      /\ place'.offset = Least(Length[s], Length[s] - 1)
  BY <1>1, PromisedFacts DEF Held
<1>3. place'.offset = Length[s] - 1
  <2> DEFINE n == Length[s]
  <2>1. Least(n, n - 1) = n - 1
    <3> HIDE DEF n
    <3> QED  BY <1>1 DEF Least, n
  <2> QED  BY <1>2, <2>1
<1> QED  BY <1>2, <1>3 DEF Leads, ByEnd

LEMMA TurnForwardPlace ==
    ASSUME ReaderOK, PlaceInv, mpc = "turning", section # NoSection, mpc' = "idle", TurnForward,
           UNCHANGED <<memory, cards, origins, open, layout, rpc, goal>>
    PROVE  PlaceInv'
<1>1. open /\ Has /\ currentSpine \in Spine /\ cp \in Nat /\ section.pageCount \in Nat
  BY Unfolded, SectionFacts DEF TurnsOK, Has
<1>2. UNCHANGED <<saved, lastSaved, pageOffset, progress, saving>>
  BY DEF memory, cards
<1>3. cached = Lapsed(cached) /\ cached.offset = None
  BY PlaceUnfolded, Unfolded, LapsedFacts DEF Repositions, PositionOK
<1>4. StackKept'
  BY <1>2, PlaceUnfolded, Frames
<1>5. CASE TurnWithin(cp + 1)
  <2>1. cp + 1 \in Nat
    BY <1>1
  <2> QED  BY <1>1, <1>3, <1>5, <2>1, TurnWithinPlace
<1>6. CASE currentSpine + 1 < SpineCount /\ rpc = "idle" /\ Leap(currentSpine + 1, 0, jump, Rest)
  <2> DEFINE s == currentSpine + 1
  <2>1. s \in Spine
    BY <1>1, <1>6 DEF Spine
  <2>2. place' = Rest
    BY <1>6 DEF Leap
  <2>3. StartOf(0, layout) = 0
    BY SectionFacts DEF StartOf
  <2>4. Rest = NoPlace \/ Rest = Promise(s, StartOf(0, layout))
    BY <2>3 DEF Rest
  <2> HIDE DEF s
  <2>5. Rest.by \in {"none", "promised", "leftover"}
    BY <2>1, <2>3, <2>4, PromisedFacts DEF NoPlace
  <2>6. Rest.by = "promised" => /\ jump = NoJump /\ Rest.spine = s /\ Rest.offset < Length[s]
                                /\ Least(0, Pages(s, layout) - 1) = PageOf(Rest.offset, layout)
    <3> SUFFICES ASSUME Rest.by = "promised" PROVE /\ jump = NoJump /\ Rest.spine = s /\ Rest.offset < Length[s]
                                /\ Least(0, Pages(s, layout) - 1) = PageOf(Rest.offset, layout)
      OBVIOUS
    <3>1. Held' /\ place' = Promise(s, StartOf(0, layout))
      BY <2>2, <2>4 DEF Held, NoPlace
    <3> QED  BY <2>1, <2>2, <3>1, PromisedPage
  <2>7. Leap(s, 0, jump, Rest)
    BY <1>6 DEF s
  <2> QED  BY <1>1, <1>2, <1>4, <1>6, <2>1, <2>5, <2>6, <2>7, LeapToPage
<1>7. CASE /\ currentSpine + 1 >= SpineCount
           /\ currentSpine' = SpineCount /\ requested' = TRUE
           /\ place' = IF IsPartial \/ Reopening THEN NoPlace ELSE Promise(currentSpine, StartOf(cp, layout))
           /\ UNCHANGED <<nextPage, jump, cached, sections>>
  <2>1. UNCHANGED <<bin, section>>
    BY <1>7 DEF sections
  <2>2. currentSpine = SpineCount - 1 /\ Here' = Here
    BY <1>1, <1>7 DEF Spine, Here, Least
  <2>3. Has' /\ Finding' = Finding
    BY <1>1, <2>1 DEF Has, Finding
  <2>4. FilesWhole' /\ BuildAhead'
    BY <2>1, PlaceUnfolded, Frames
  <2>5. SectionHere' /\ JumpsUsed'
    <3>1. CoversTarget' = CoversTarget /\ WholeOnCard' = WholeOnCard
      BY <1>7, <2>1 DEF CoversTarget, WholeOnCard, IsPartial, AnchorOnCard, Target
    <3> QED  BY <1>1, <1>7, <2>1, <2>2, <2>3, <3>1, PlaceUnfolded DEF SectionHere, JumpsUsed
  <2>6. Repositions'
    <3>1. OffsetJump' = OffsetJump
      BY <1>3, <1>7 DEF OffsetJump
    <3>2. OffsetWaits'
      BY <1>3, <1>7 DEF OffsetWaits
    <3> QED  BY <1>3, <1>7, <2>1, <2>3, <3>1, <3>2, PlaceUnfolded DEF Repositions, Has
  <2>7. place'.by \in {"none", "promised", "leftover"} /\ (Finding => ~Held')
    <3>1. StartOf(cp, layout) \in Nat
      BY <1>1, SectionFacts, PageNumbers
    <3> QED  BY <1>1, <1>7, <3>1, PromisedFacts DEF NoPlace, Held, Finding, Reopening
  <2>8. PlaceKnown'
    <3> SUFFICES ASSUME Held' PROVE place'.offset < Length[place'.spine] /\ Shows'
      BY <2>3, <2>7 DEF PlaceKnown
    <3>1. place' = Promise(currentSpine, StartOf(cp, layout))
      BY <1>7 DEF Held, NoPlace
    <3>2. /\ place'.spine = currentSpine /\ place'.offset < Length[currentSpine]
          /\ Least(cp, Pages(currentSpine, layout) - 1) = PageOf(place'.offset, layout)
      BY <1>1, <3>1, PromisedPage
    <3>3. section.spine = currentSpine
      BY <1>1, PlaceUnfolded, HereFacts DEF SectionHere
    <3>4. Hits(cp)' /\ Undisturbed'
      BY <1>3, <1>7, <2>1, <3>2 DEF Hits, cp, Undisturbed
    <3> QED  BY <2>1, <3>2, <3>3, <3>4 DEF Shows
  <2>9. PageDrawn'
    BY <1>2, <2>2, <2>7, PlaceUnfolded DEF PageDrawn
  <2>10. ProgressKept'
    BY <1>1, <1>2, <2>7, PlaceUnfolded DEF ProgressKept, LastSavedThere
  <2> QED  BY <1>4, <2>4, <2>5, <2>6, <2>8, <2>9, <2>10, PlaceFolded
<1>8. ~(currentSpine + 1 < SpineCount) => currentSpine + 1 >= SpineCount
  BY <1>1 DEF Spine
<1> QED  BY <1>5, <1>6, <1>7, <1>8 DEF TurnForward

LEMMA TurnBackPlace ==
    ASSUME ReaderOK, PlaceInv, mpc = "turning", section # NoSection, mpc' = "idle", TurnBack,
           UNCHANGED <<memory, cards, origins, open, layout, rpc, goal>>
    PROVE  PlaceInv'
<1>1. open /\ Has /\ currentSpine \in Spine /\ cp \in Nat
  BY Unfolded, SectionFacts DEF TurnsOK, Has
<1>2. UNCHANGED <<saved, lastSaved, pageOffset, progress, saving>>
  BY DEF memory, cards
<1>3. cached = Lapsed(cached)
  BY PlaceUnfolded DEF Repositions
<1>4. StackKept'
  BY <1>2, PlaceUnfolded, Frames
<1>5. CASE cp > 0 /\ TurnWithin(cp - 1)
  <2>1. cp - 1 \in Nat
    BY <1>1, <1>5
  <2> QED  BY <1>1, <1>3, <1>5, <2>1, TurnWithinPlace
<1>6. CASE /\ currentSpine > 0 /\ rpc = "idle"
           /\ Leap(currentSpine - 1, 0, [jump EXCEPT !.last = TRUE],
                   Promise(currentSpine - 1, Length[currentSpine - 1]))
  <2> DEFINE s == currentSpine - 1
             j == [jump EXCEPT !.last = TRUE]
             to == Promise(s, Length[s])
  <2>1. s \in Spine
    BY <1>1, <1>6 DEF Spine
  <2>2. Leap(s, 0, j, to) /\ currentSpine' = s /\ jump' = j /\ place' = to /\ cached' = Lapsed(cached)
    BY <1>6 DEF Leap
  <2> HIDE DEF s
  <2>3. Undisturbed'
    BY <1>3, <2>2 DEF Undisturbed
  <2>4. to.by = "promised" => to.offset < Length[to.spine] /\ Leads'
    BY <2>1, <2>2, <2>3, LeapToEnd DEF Held
  <2>5. to.by \in {"none", "promised", "leftover"}
    BY <2>1, PromisedFacts
  <2> HIDE DEF to, j
  <2> QED  BY <1>1, <1>2, <1>4, <1>6, <2>2, <2>4, <2>5, LeapPlace
<1>7. CASE UNCHANGED <<position, place, sections>>
  <2>1. UNCHANGED <<bin, section, currentSpine, nextPage, jump, cached>>
    BY <1>7 DEF position, sections
  <2>2. Has' /\ Finding' = Finding
    BY <1>1, <2>1 DEF Has, Finding
  <2>3. FilesWhole' /\ BuildAhead'
    BY <2>1, PlaceUnfolded, Frames
  <2>4. SectionHere' /\ JumpsUsed'
    <3>1. CoversTarget' = CoversTarget /\ WholeOnCard' = WholeOnCard
      BY <2>1 DEF CoversTarget, WholeOnCard, IsPartial, AnchorOnCard, Target
    <3> QED  BY <1>1, <2>1, <2>2, <3>1, PlaceUnfolded DEF SectionHere, JumpsUsed, Here
  <2>5. Repositions'
    <3>1. OffsetJump' = OffsetJump /\ OffsetWaits' = OffsetWaits
      BY <2>1 DEF OffsetJump, OffsetWaits
    <3> QED  BY <1>3, <2>1, <2>2, <3>1, PlaceUnfolded DEF Repositions, Has
  <2>6. PlaceKnown'
    <3>1. Shows => Shows'
      BY <1>7, <2>1 DEF Shows, Hits, Undisturbed, cp
    <3>2. Leads => Leads' \/ ~Finding
      <4> SUFFICES ASSUME Leads, Finding PROVE Leads'
        OBVIOUS
      <4>1. UNCHANGED Undisturbed
        BY <2>1 DEF Undisturbed
      <4> QED  BY <1>1, <1>7, <2>1, <2>2, <4>1 DEF Leads, ByOffset, ByPage, ByEnd, ByAnchor, ByMark, Hits
    <3> QED  BY <1>1, <1>7, <2>2, <3>1, <3>2, PlaceUnfolded DEF PlaceKnown, Held
  <2>7. PageDrawn'
    BY <1>2, <1>7, <2>1, PlaceUnfolded DEF PageDrawn, Has, Here, cp
  <2>8. ProgressKept'
    <3>1. OnCard => OnCard'
      BY <1>2, <1>7, <2>1 DEF OnCard, Has, Hits
    <3> QED  BY <1>1, <1>2, <1>7, <3>1, PlaceUnfolded DEF ProgressKept, LastSavedThere
  <2> QED  BY <1>4, <2>3, <2>4, <2>5, <2>6, <2>7, <2>8, PlaceFolded
<1> QED  BY <1>5, <1>6, <1>7 DEF TurnBack

LEMMA TurnMovesPlace == ASSUME ReaderOK, PlaceInv, TurnMoves PROVE PlaceInv'
<1>1. /\ mpc = "turning" /\ section # NoSection /\ mpc' = "idle"
      /\ UNCHANGED <<memory, cards, origins, open, layout, rpc, goal>>
  BY DEF TurnMoves
<1>2. TurnForward \/ TurnBack
  BY DEF TurnMoves
<1> QED  BY <1>1, <1>2, TurnForwardPlace, TurnBackPlace

\* Leaving the section for the start of a chapter, where nothing is left of a deferred offset.
LEMMA SkipPlace ==
    ASSUME ReaderOK, PlaceInv, open, rpc = "idle", mpc = "idle", Has, NEW s, NEW to,
           currentSpine' = s, nextPage' = 0, ResetSection, place' = to,
           to = NoPlace \/ (s \in Spine /\ to = Promise(s, 0)),
           UNCHANGED <<jump, cached, memory, cards, origins, open, layout, rpc, mpc>>
    PROVE  PlaceInv'
<1>1. section' = NoSection /\ UNCHANGED <<saved, lastSaved, progress>>
  BY DEF ResetSection, memory, cards
<1>2. FilesWhole' /\ StackKept'
  BY <1>1, PlaceUnfolded, WholeStep, SectionFacts, Frames
<1>3. cached'.offset = None
  BY IdleFacts
<1>4. OffsetWaits' /\ LastSavedThere'
  BY <1>1, <1>3, PlaceUnfolded DEF OffsetWaits, ProgressKept, LastSavedThere
<1>5. place'.by \notin {"drawn", "shown"}
  BY PromisedFacts DEF NoPlace
<1>6. ASSUME Held' PROVE place'.offset < Length[place'.spine] /\ Leads'
  <2>1. s \in Spine /\ place' = Promise(s, StartOf(0, layout))
    BY <1>6, SectionFacts DEF Held, NoPlace, StartOf
  <2>2. /\ jump = NoJump /\ place'.spine = s /\ place'.offset < Length[s]
        /\ Least(0, Pages(s, layout) - 1) = PageOf(place'.offset, layout)
    BY <1>6, <2>1, PromisedPage
  <2>3. Hits(nextPage)'
    BY <2>2 DEF Hits
  <2> QED  BY <1>3, <2>2, <2>3 DEF Leads, ByPage
<1>7. rpc' = "idle" /\ mpc' = "idle" /\ open'
  OBVIOUS
<1> QED  BY <1>1, <1>2, <1>4, <1>5, <1>6, <1>7, GonePlace

LEMMA SkipForwardPlace == ASSUME ReaderOK, PlaceInv, SkipForward PROVE PlaceInv'
<1>1. /\ open /\ rpc = "idle" /\ mpc = "idle" /\ section # NoSection
      /\ currentSpine' = currentSpine + 1 /\ nextPage' = 0 /\ ResetSection
      /\ place' = IF currentSpine + 1 \in Spine THEN Promise(currentSpine + 1, 0) ELSE NoPlace
      /\ UNCHANGED <<jump, cached, memory, cards, origins, open, layout, rpc, mpc>>
  BY DEF SkipForward, Asked, Reading, Free
<1>2. Has
  BY <1>1, SectionFacts DEF Has
<1> DEFINE s == currentSpine + 1
           to == IF s \in Spine THEN Promise(s, 0) ELSE NoPlace
<1>3. currentSpine' = s /\ place' = to /\ (to = NoPlace \/ (s \in Spine /\ to = Promise(s, 0)))
  BY <1>1
<1> HIDE DEF s, to
<1> QED  BY <1>1, <1>2, <1>3, SkipPlace

LEMMA SkipBackPlace == ASSUME ReaderOK, PlaceInv, SkipBack PROVE PlaceInv'
<1>1. /\ open /\ mpc = "idle" /\ currentSpine < SpineCount /\ section # NoSection
      /\ UNCHANGED <<memory, cards, origins, open, layout, rpc, goal, mpc>>
  BY DEF SkipBack
<1>2. currentSpine \in Spine /\ Has
  BY <1>1, Unfolded, SectionFacts DEF PositionOK, Spine, Has
<1>3. CASE TurnWithin(0)
  BY <1>1, <1>2, <1>3, TurnWithinPlace
<1>4. CASE /\ currentSpine > 0 /\ rpc = "idle"
           /\ currentSpine' = currentSpine - 1 /\ nextPage' = 0
           /\ ResetSection /\ place' = Promise(currentSpine - 1, 0)
           /\ UNCHANGED <<jump, cached>>
  <2> DEFINE s == currentSpine - 1
             to == Promise(s, 0)
  <2>1. s \in Spine
    BY <1>2, <1>4 DEF Spine
  <2>2. currentSpine' = s /\ place' = to /\ to = Promise(s, 0)
    BY <1>4
  <2> HIDE DEF s, to
  <2> QED  BY <1>1, <1>2, <1>4, <2>1, <2>2, SkipPlace
<1> QED  BY <1>3, <1>4 DEF SkipBack

LEMMA ReturnFromEndOfBookPlace == ASSUME ReaderOK, PlaceInv, ReturnFromEndOfBook PROVE PlaceInv'
<1> DEFINE s == SpineCount - 1
<1>1. /\ open /\ rpc = "idle" /\ mpc = "idle" /\ currentSpine = SpineCount
      /\ currentSpine' = s /\ nextPage' = 0 /\ jump' = [jump EXCEPT !.last = TRUE]
      /\ place' = IF section # NoSection THEN place ELSE IF Deferred(s) THEN NoPlace ELSE Promise(s, Length[s])
      /\ UNCHANGED <<cached, memory, cards, origins, sections, open, layout, rpc, goal, mpc>>
  BY DEF ReturnFromEndOfBook, Asked, Reading, Free
<1>2. UNCHANGED <<bin, section, saved, origins, lastSaved, pageOffset, progress, saving>>
  BY <1>1 DEF memory, cards, sections
<1>3. s \in Spine /\ s # SpineCount /\ Here = s
  BY <1>1, HereFacts
<1>4. FilesWhole' /\ BuildAhead' /\ StackKept'
  BY <1>1, <1>2, PlaceUnfolded, Frames
<1>5. jump \in Jump /\ jump'.anchor = jump.anchor /\ jump'.percent = jump.percent /\ jump'.offset = jump.offset
      /\ jump'.last = TRUE
  BY <1>1, Unfolded DEF PositionOK, Jump
<1>6. ~Finding /\ ~Finding' /\ Has' = Has /\ place.by # "drawn"
  BY <1>1, <1>2, IdleFacts DEF Has, Finding
<1>7. LastSavedThere'
  BY <1>2, PlaceUnfolded DEF ProgressKept, LastSavedThere
<1>8. CASE Has
  <2>1. cached = Lapsed(cached) /\ cached.offset = None
    BY <1>1, <1>8, PlaceUnfolded, IdleFacts DEF Repositions
  <2>2. UNCHANGED place
    BY <1>1, <1>8, SectionFacts DEF Has
  <2>3. Here' = Here
    BY <1>1, <1>3 DEF Here, Least, Spine
  <2>4. SectionHere' /\ JumpsUsed'
    BY <1>1, <1>2, <1>5, <1>6, <2>3, PlaceUnfolded DEF SectionHere, JumpsUsed
  <2>5. Repositions'
    BY <1>1, <1>6, <1>8, <2>1 DEF Repositions
  <2>6. PlaceKnown'
    <3>1. Shows => Shows'
      BY <1>1, <1>2, <2>1, <2>2 DEF Shows, Hits, Undisturbed, cp
    <3> QED  BY <1>6, <1>8, <2>2, <3>1, PlaceUnfolded DEF PlaceKnown, Held
  <2>7. PageDrawn'
    BY <1>1, <1>2, <1>6, <1>8, <2>2, PlaceUnfolded DEF PageDrawn
  <2>8. ProgressKept'
    <3>1. OnCard => OnCard'
      BY <1>1, <1>2, <2>2 DEF OnCard, Has, Hits
    <3> QED  BY <1>1, <1>2, <1>7, <2>2, <3>1, PlaceUnfolded DEF ProgressKept
  <2> QED  BY <1>4, <2>4, <2>5, <2>6, <2>7, <2>8, PlaceFolded
<1>9. CASE ~Has
  <2>1. section' = NoSection /\ OffsetWaits
    BY <1>1, <1>2, <1>9, IdleFacts
  <2>2. OffsetWaits'
    BY <1>1, <1>5, <2>1 DEF OffsetWaits
  <2>3. place' = IF Deferred(s) THEN NoPlace ELSE Promise(s, Length[s])
    BY <1>1, <1>2, <2>1
  <2>4. place'.by \notin {"drawn", "shown"}
    <3>1. Length[s] \in Nat
      BY <1>3
    <3> QED  BY <1>3, <2>3, <3>1, PromisedFacts DEF NoPlace
  <2>5. Held' => place'.offset < Length[place'.spine] /\ Leads'
    <3> SUFFICES ASSUME Held' PROVE place'.offset < Length[place'.spine] /\ Leads'
      OBVIOUS
    <3>1. ~Deferred(s) /\ place' = Promise(s, Length[s])
      BY <2>3 DEF Held, NoPlace
    <3>2. Undisturbed'
      BY <1>1, <3>1 DEF Undisturbed, Deferred
    <3> HIDE DEF s
    <3> QED  BY <1>1, <1>3, <3>1, <3>2, LeapToEnd
  <2>6. rpc' = "idle" /\ mpc' = "idle" /\ open'
    BY <1>1
  <2> QED  BY <1>4, <1>7, <2>1, <2>2, <2>4, <2>5, <2>6, GonePlace
<1> QED  BY <1>8, <1>9

-----------------------------------------------------------------------------
(* Going elsewhere in the book.                                            *)

LEMMA RelayoutPlace == ASSUME ReaderOK, PlaceInv, NEW l \in Layout, Relayout(l) PROVE PlaceInv'
<1>1. /\ open /\ rpc = "idle" /\ mpc = "idle" /\ layout' = l /\ ResetSection
      /\ IF section # NoSection THEN Remember ELSE UNCHANGED <<cached, nextPage>>
      /\ place' = StillThere(l)
      /\ UNCHANGED <<currentSpine, jump, memory, cards, origins, open, rpc, goal, mpc>>
  BY DEF Relayout, Reading, Free
<1>2. section' = NoSection /\ UNCHANGED <<saved, lastSaved, progress>>
  BY <1>1 DEF ResetSection, memory, cards
<1>3. FilesWhole' /\ StackKept' /\ LastSavedThere'
  BY <1>1, <1>2, PlaceUnfolded, WholeStep, SectionFacts, Frames DEF ProgressKept, LastSavedThere
<1>4. rpc' = "idle" /\ mpc' = "idle" /\ open'
  BY <1>1
<1>5. layout \in Layout /\ CacheFits(bin, section, layout) /\ (section # NoSection <=> Has)
  BY SectionFacts DEF Has
<1>6. CASE ~Has
  <2>1. UNCHANGED <<bin, section, cached, nextPage>> /\ OffsetWaits
    BY <1>1, <1>2, <1>5, <1>6, LayoutsKept, IdleFacts DEF Has
  <2>2. OffsetWaits'
    BY <1>1, <2>1 DEF OffsetWaits
  <2>3. place'.by # "none" => UNCHANGED <<place, layout>> /\ place.by \in {"promised", "shown", "unsaved"}
    BY <1>1, <1>5, <1>6 DEF StillThere, NoPlace
  <2>4. place'.by # "drawn"
    BY <2>3
  <2>5. Held' => place'.offset < Length[place'.spine] /\ (currentSpine' # SpineCount => Leads')
    <3> SUFFICES ASSUME Held' PROVE place'.offset < Length[place'.spine] /\ (currentSpine' # SpineCount => Leads')
      OBVIOUS
    <3>1. Held /\ UNCHANGED <<place, layout>>
      BY <2>3 DEF Held
    <3>2. UNCHANGED Undisturbed /\ ~Has'
      BY <1>1, <1>6, <2>1 DEF Undisturbed, Has
    <3>3. Leads => Leads'
      BY <1>1, <1>6, <2>1, <3>1, <3>2 DEF Leads, ByOffset, ByPage, ByEnd, ByAnchor, ByMark, Hits
    <3> QED  BY <1>1, <1>6, <3>1, <3>3, PlaceUnfolded DEF PlaceKnown
  <2>6. place'.by = "shown" => OnCard'
    <3>1. place'.by = "shown" => OnCard /\ UNCHANGED <<place, layout>>
      BY <1>1, <2>3, PlaceUnfolded DEF ProgressKept
    <3> QED  BY <1>2, <2>1, <3>1 DEF OnCard, Has, Hits
  <2> QED  BY <1>2, <1>3, <1>4, <2>2, <2>4, <2>5, <2>6, GonePlace
<1>7. CASE Has
  <2>1. /\ cached' = [spine |-> currentSpine, count |-> section.pageCount,
                      offset |-> IF cp < section.pageCount THEN OffsetOfPage(cp) ELSE None]
        /\ nextPage' = cp /\ cp \in Nat /\ section.pageCount \in Nat
    BY <1>1, <1>5, <1>7, SectionFacts DEF Remember
  <2>2. jump.anchor = None /\ (jump.percent = None \/ section.pageCount = 0) /\ section.spine = Here
        /\ section.spine \in Spine /\ ~Finding
    BY <1>1, <1>7, PlaceUnfolded, IdleFacts, SectionFacts DEF JumpsUsed, Has
  <2>3. OffsetWaits'
    <3>1. cached'.spine = currentSpine /\ (cached'.offset # None => cp < section.pageCount)
      BY <2>1
    <3>2. cached'.offset # None => jump.percent = None
      BY <2>1, <2>2, <3>1
    <3> QED  BY <1>1, <2>2, <3>1, <3>2 DEF OffsetWaits
  <2>4. place' = NoPlace \/ (/\ place.by \in {"promised", "shown", "unsaved"} /\ cp < section.pageCount
                             /\ place' = Promise(place.spine, StartOf(PageOf(place.offset, layout), layout)))
    BY <1>1, <1>5, <1>7, <2>1 DEF StillThere
  <2>5. place'.by \notin {"drawn", "shown"}
    <3> DEFINE o == StartOf(PageOf(place.offset, layout), layout)
    <3>1. place.spine \in Spine /\ o \in Nat
      BY PlaceFacts, PageNumbers
    <3>2. place' = NoPlace \/ place' = Promise(place.spine, o)
      BY <2>4
    <3> HIDE DEF o
    <3>3. Promise(place.spine, o).by \in {"none", "promised", "leftover"}
      BY <3>1, PromisedFacts
    <3> QED  BY <3>2, <3>3 DEF NoPlace
  <2>6. Held' => place'.offset < Length[place'.spine] /\ (currentSpine' # SpineCount => Leads')
    <3> SUFFICES ASSUME Held' PROVE place'.offset < Length[place'.spine] /\ (currentSpine' # SpineCount => Leads')
      OBVIOUS
    <3>1. Held /\ cp < section.pageCount
          /\ place' = Promise(place.spine, StartOf(PageOf(place.offset, layout), layout))
      BY <2>4 DEF Held, NoPlace
    <3>2. place.spine = section.spine /\ Hits(cp)
      BY <1>7, <2>2, <3>1, PlaceUnfolded DEF PlaceKnown, Shows
    <3>3. /\ cp < Pages(section.spine, layout) /\ Pages(section.spine, layout) \in Nat
          /\ StartOf(cp, layout) \in Nat /\ StartOf(cp, layout) < Length[section.spine]
          /\ PageOf(StartOf(cp, layout), layout) = cp
      BY <1>7, <2>1, <3>1, PageHasText
    <3>4. PageOf(place.offset, layout) = cp
      <4> DEFINE N == Pages(section.spine, layout)
      <4>1. Least(cp, N - 1) = PageOf(place.offset, layout) /\ N \in Nat /\ cp < N
        BY <3>2, <3>3 DEF Hits
      <4> HIDE DEF N
      <4> QED  BY <2>1, <4>1 DEF Least
    <3>5. place' = Promise(section.spine, StartOf(cp, layout))
      BY <3>1, <3>2, <3>4
    <3>6. jump = NoJump /\ place'.spine = section.spine /\ place'.offset = StartOf(cp, layout)
      <4> DEFINE o == StartOf(cp, layout)
                 n == Length[section.spine]
      <4>1. jump = NoJump /\ place'.spine = section.spine /\ place'.offset = Least(o, n - 1)
        BY <2>2, <3>3, <3>5, PromisedFacts DEF Held
      <4>2. o \in Nat /\ n \in Nat /\ o < n
        BY <2>2, <3>3
      <4> HIDE DEF o, n
      <4>3. Least(o, n - 1) = o
        BY <4>2 DEF Least
      <4> QED  BY <4>1, <4>3 DEF o
    <3>7. OffsetOfPage(cp) = StartOf(cp, layout)
      BY <1>5, <1>7, <2>1, <3>1, PlaceUnfolded, PagesBegin DEF Has
    <3>8. ASSUME currentSpine # SpineCount PROVE Leads'
      <4>1. currentSpine = section.spine
        BY <2>2, <3>8, HereFacts
      <4>2. bin'[currentSpine].layout \in {layout, None}
        BY <1>1, <1>5, <1>7, <4>1, LayoutsKept DEF Has
      <4>3. cached'.spine = currentSpine /\ cached'.offset = place'.offset
        BY <2>1, <3>1, <3>6, <3>7
      <4>4. ~Has'
        BY <1>2, NoSectionFits DEF Has
      <4>5. nextPage' = PageOf(place'.offset, layout)
        BY <2>1, <3>3, <3>6
      <4>6. ByOffset'
        BY <1>1, <1>5, <3>6, <4>2, <4>3, <4>4, <4>5 DEF ByOffset
      <4> QED  BY <1>1, <3>6, <4>1, <4>6 DEF Leads
    <3> QED  BY <1>1, <3>3, <3>6, <3>8
  <2> QED  BY <1>2, <1>3, <1>4, <2>3, <2>5, <2>6, GonePlace
<1> QED  BY <1>6, <1>7

\* A chapter, or a link to an anchor in it.
LEMMA LinkPlace ==
    ASSUME ReaderOK, PlaceInv, open, rpc = "idle", NEW s \in Spine, NEW a \in Anchor \cup {None},
           Leap(s, 0, [jump EXCEPT !.anchor = a], AnchorPlace(s, a)), mpc' = "idle",
           UNCHANGED <<lastSaved, progress, open, rpc, layout>>, StackKept'
    PROVE  PlaceInv'
<1> DEFINE j == [jump EXCEPT !.anchor = a]
           o == IF a = None \/ a >= Length[s] THEN 0 ELSE a
           to == Promise(s, o)
<1>1. Leap(s, 0, j, to)
  BY DEF AnchorPlace
<1>2. currentSpine' = s /\ nextPage' = 0 /\ jump' = j /\ cached' = Lapsed(cached) /\ place' = to
  BY <1>1 DEF Leap
<1>3. (a = None \/ a \in Nat) /\ Length[s] \in Nat /\ o \in Nat
  OBVIOUS
<1>4. to.by \in {"none", "promised", "leftover"}
  BY <1>3, PromisedFacts
<1>5. Undisturbed'
  BY <1>2, Unfolded, LapsedFacts DEF Undisturbed, PositionOK
<1>6. ASSUME to.by = "promised" PROVE to.offset < Length[to.spine] /\ Leads'
  <2>1. jump = NoJump /\ to.spine = s /\ to.offset = Least(o, Length[s] - 1) /\ to.offset < Length[s] /\ Length[s] > 0
    BY <1>3, <1>6, PromisedFacts
  <2>2. to.offset = o
    <3> DEFINE n == Length[s]
    <3>1. o < n /\ n \in Nat
      BY <1>3, <2>1
    <3> HIDE DEF o, n
    <3>2. Least(o, n - 1) = o
      BY <1>3, <3>1 DEF Least
    <3> QED  BY <2>1, <3>2 DEF n
  <2>3. CASE a = None
    <3>1. jump' = NoJump
      BY <1>2, <2>1, <2>3 DEF NoJump
    <3>2. Hits(nextPage)'
      <4>1. StartOf(0, layout) = 0 /\ Held'
        BY <1>2, <1>6, SectionFacts DEF StartOf, Held
      <4>2. place' = Promise(s, StartOf(0, layout))
        BY <1>2, <2>3, <4>1
      <4>3. Least(0, Pages(s, layout) - 1) = PageOf(place'.offset, layout)
        BY <4>1, <4>2, PromisedPage
      <4> QED  BY <1>2, <2>1, <4>3 DEF Hits
    <3> QED  BY <1>2, <1>5, <2>1, <3>1, <3>2 DEF Leads, ByPage
  <2>4. CASE a # None
    <3>1. jump' = [NoJump EXCEPT !.anchor = a] /\ jump'.anchor = a
      BY <1>2, <2>1 DEF NoJump
    <3>2. to.offset = IF a < Length[s] THEN a ELSE 0
      BY <1>3, <2>2, <2>4
    <3> HIDE DEF to
    <3>3. ByAnchor'
      BY <1>2, <1>5, <2>4, <3>1, <3>2 DEF ByAnchor
    <3> QED  BY <1>2, <2>1, <3>3 DEF Leads
  <2> QED  BY <2>3, <2>4
<1> HIDE DEF to, j
<1> QED  BY <1>1, <1>4, <1>6, LeapPlace

LEMMA SelectChapterPlace ==
    ASSUME ReaderOK, PlaceInv, NEW s \in Spine, NEW a \in Anchor \cup {None}, SelectChapter(s, a) PROVE PlaceInv'
<1>1. /\ open /\ rpc = "idle" /\ mpc = "idle"
      /\ Leap(s, 0, [jump EXCEPT !.anchor = a], AnchorPlace(s, a))
      /\ UNCHANGED <<memory, cards, origins, open, layout, rpc, goal, mpc>>
  BY AskedFacts DEF SelectChapter
<1>2. StackKept' /\ UNCHANGED <<lastSaved, progress>> /\ mpc' = "idle"
  BY <1>1, PlaceUnfolded, Frames DEF memory, cards
<1> QED  BY <1>1, <1>2, LinkPlace

LEMMA JumpToPercentPlace ==
    ASSUME ReaderOK, PlaceInv, NEW s \in Spine, NEW q \in Percent, JumpToPercent(s, q) PROVE PlaceInv'
<1>1. /\ open /\ rpc = "idle" /\ mpc = "idle" /\ Leap(s, 0, [jump EXCEPT !.percent = q], NoPlace)
      /\ UNCHANGED <<memory, cards, origins, open, layout, rpc, goal, mpc>>
  BY AskedFacts DEF JumpToPercent
<1>2. StackKept' /\ UNCHANGED <<lastSaved, progress>> /\ mpc' = "idle"
  BY <1>1, PlaceUnfolded, Frames DEF memory, cards
<1>3. NoPlace.by = "none"
  BY DEF NoPlace
<1> QED  BY <1>1, <1>2, <1>3, LeapPlace

LEMMA NavigateToHrefPlace ==
    ASSUME ReaderOK, PlaceInv, NEW s \in Spine, NEW a \in Anchor \cup {None}, NavigateToHref(s, a) PROVE PlaceInv'
<1> DEFINE e == [spine |-> currentSpine, page |-> cp]
           from == [spine |-> currentSpine, offset |-> StartOf(cp, layout), layout |-> layout]
<1>1. /\ open /\ rpc = "idle" /\ mpc = "idle"
      /\ IF CanSave THEN saved' = Append(saved, e) /\ origins' = Append(origins, from)
                    ELSE UNCHANGED <<saved, origins>>
      /\ Leap(s, 0, [jump EXCEPT !.anchor = a], AnchorPlace(s, a))
      /\ UNCHANGED <<lastSaved, cards, open, layout, rpc, mpc>>
  BY AskedFacts DEF NavigateToHref
<1>2. /\ from.spine = e.spine /\ from.offset = StartOf(e.page, from.layout)
  OBVIOUS
<1> HIDE DEF e, from
<1>3. StackKept'
  <2>1. CASE CanSave
    <3>1. saved \in Seq(SavedType) /\ origins \in Seq(OriginType) /\ Len(origins) = Len(saved) /\ Len(saved) \in Nat
      BY Unfolded DEF MemoryOK, OriginsOK
    <3>2. saved' = Append(saved, e) /\ origins' = Append(origins, from)
      BY <1>1, <2>1
    <3>3. Len(saved') = Len(saved) + 1 /\ \A i \in 1 .. Len(saved) : saved'[i] = saved[i] /\ origins'[i] = origins[i]
      BY <3>1, <3>2
    <3>4. saved'[Len(saved) + 1] = e /\ origins'[Len(saved) + 1] = from
      BY <3>1, <3>2
    <3>5. ASSUME NEW i \in 1 .. Len(saved')
          PROVE  origins'[i].spine = saved'[i].spine /\ origins'[i].offset = StartOf(saved'[i].page, origins'[i].layout)
      <4>1. CASE i \in 1 .. Len(saved)
        BY <3>3, <4>1, PlaceUnfolded DEF StackKept
      <4>2. CASE i = Len(saved) + 1
        BY <1>2, <3>4, <4>2
      <4> QED  BY <3>1, <3>3, <3>5, <4>1, <4>2
    <3> QED  BY <3>5 DEF StackKept
  <2>2. CASE ~CanSave
    BY <1>1, <2>2, PlaceUnfolded, Frames
  <2> QED  BY <2>1, <2>2
<1>4. UNCHANGED <<lastSaved, progress>> /\ mpc' = "idle"
  BY <1>1 DEF cards
<1> QED  BY <1>1, <1>3, <1>4, LinkPlace

LEMMA RestoreSavedPositionPlace == ASSUME ReaderOK, PlaceInv, RestoreSavedPosition PROVE PlaceInv'
<1> DEFINE top == Len(saved)
           s == saved[top].spine
           p == saved[top].page
           at == origins[top]
           to == IF jump = NoJump THEN Origin(at, "promised") ELSE NoPlace
<1>1. /\ open /\ rpc = "idle" /\ mpc = "idle" /\ saved # <<>>
      /\ saved' = SubSeq(saved, 1, top - 1) /\ origins' = SubSeq(origins, 1, top - 1)
      /\ Leap(s, p, jump, to)
      /\ UNCHANGED <<lastSaved, cards, open, layout, rpc, mpc>>
  BY AskedFacts DEF RestoreSavedPosition
<1>2. /\ saved \in Seq(SavedType) /\ origins \in Seq(OriginType) /\ Len(origins) = Len(saved)
      /\ top \in Nat \ {0} /\ saved[top] \in SavedType
  BY <1>1, Unfolded, Ends DEF MemoryOK, OriginsOK
<1>3. s \in Spine /\ p \in Nat
  BY <1>2 DEF SavedType
<1>4. at.spine = s /\ at.offset = StartOf(p, at.layout)
  BY <1>2, PlaceUnfolded DEF StackKept
<1>5. StackKept'
  <2> HIDE DEF top
  <2>1. top - 1 \in Nat /\ \A i \in 1 .. top - 1 : saved[i] \in SavedType /\ origins[i] \in OriginType
    BY <1>2 DEF top
  <2>2. Len(saved') = top - 1 /\ \A i \in 1 .. top - 1 : saved'[i] = saved[i] /\ origins'[i] = origins[i]
    <3> DEFINE n == top - 1
    <3>1. n \in Nat /\ saved' = SubSeq(saved, 1, n) /\ origins' = SubSeq(origins, 1, n)
      BY <1>1, <2>1
    <3>2. \A i \in 1 .. n : saved[i] \in SavedType /\ origins[i] \in OriginType
      BY <2>1
    <3> HIDE DEF n
    <3> QED  BY <3>1, <3>2, SubSeqProperties DEF n
  <2>3. \A i \in 1 .. top - 1 : i \in 1 .. Len(saved)
    BY <1>2 DEF top
  <2> QED  BY <2>2, <2>3, PlaceUnfolded DEF StackKept
<1>6. UNCHANGED <<lastSaved, progress>> /\ mpc' = "idle" /\ place' = to
  BY <1>1 DEF cards, Leap
<1>7. to.by \in {"none", "promised", "origin"}
  BY DEF Origin, At, NoPlace
<1>8. ASSUME to.by = "promised"
      PROVE  /\ jump = NoJump /\ to.spine = s /\ to.offset < Length[s]
             /\ Least(p, Pages(s, layout) - 1) = PageOf(to.offset, layout)
  <2>1. jump = NoJump /\ at.layout = layout
    BY <1>8 DEF Origin, At, NoPlace
  <2>2. to = Promise(s, StartOf(p, layout))
    BY <1>4, <2>1 DEF Origin, Promise
  <2> HIDE DEF s, p, to
  <2>3. place' = Promise(s, StartOf(p, layout)) /\ Held'
    BY <1>6, <1>8, <2>2 DEF Held
  <2> QED  BY <1>3, <1>6, <2>3, PromisedPage
<1> HIDE DEF s, p, to
<1> QED  BY <1>1, <1>3, <1>5, <1>6, <1>7, <1>8, LeapToPage

\* The page stays as it is.
LEMMA HrefUnresolvedPlace == ASSUME ReaderOK, PlaceInv, HrefUnresolved PROVE PlaceInv'
<1>1. /\ open /\ rpc = "idle" /\ mpc = "idle"
      /\ UNCHANGED <<position, lastSaved, retries, startFailed, pageOffset, cards, place, sections,
                     open, layout, rpc, goal, mpc>>
  BY AskedFacts DEF HrefUnresolved
<1>2. PICK n \in 0 .. Len(saved) : saved' = SubSeq(saved, 1, n) /\ origins' = SubSeq(origins, 1, n)
  BY PositionsLeft
<1>3. StackKept'
  <2>1. saved \in Seq(SavedType) /\ origins \in Seq(OriginType) /\ Len(origins) = Len(saved)
    BY Unfolded DEF MemoryOK, OriginsOK
  <2>2. Len(saved') = n /\ \A i \in 1 .. n : saved'[i] = saved[i] /\ origins'[i] = origins[i]
    BY <1>2, <2>1, Cut
  <2>3. \A i \in 1 .. n : i \in 1 .. Len(saved)
    BY <2>1
  <2> QED  BY <2>2, <2>3, PlaceUnfolded DEF StackKept
<1>4. UNCHANGED <<bin, section, currentSpine, nextPage, jump, cached, lastSaved, pageOffset, progress, saving>>
  BY <1>1 DEF position, cards, sections
<1>5. FilesWhole' /\ BuildAhead'
  BY <1>4, PlaceUnfolded, Frames
<1>6. Has' = Has /\ ~Finding /\ ~Finding' /\ Held' = Held /\ cp' = cp
  BY <1>1, <1>4 DEF Has, Finding, Held, cp
<1>7. SectionHere' /\ JumpsUsed' /\ Repositions'
  BY <1>1, <1>4, <1>6, PlaceUnfolded DEF SectionHere, JumpsUsed, Repositions, OffsetWaits, Here
<1>8. PlaceKnown'
  <2>1. Shows => Shows'
    BY <1>1, <1>4 DEF Shows, Hits, Undisturbed, cp
  <2>2. Leads /\ ~Has => Leads'
    BY <1>1, <1>4 DEF Leads, ByOffset, ByPage, ByEnd, ByAnchor, ByMark, Hits, Undisturbed, Has
  <2> QED  BY <1>1, <1>4, <1>6, <2>1, <2>2, PlaceUnfolded DEF PlaceKnown
<1>9. PageDrawn'
  BY <1>1, <1>4, <1>6, PlaceUnfolded DEF PageDrawn, Here
<1>10. ProgressKept'
  <2>1. OnCard => OnCard'
    BY <1>1, <1>4 DEF OnCard, Has, Hits
  <2> QED  BY <1>1, <1>4, <2>1, PlaceUnfolded DEF ProgressKept, LastSavedThere
<1> QED  BY <1>3, <1>5, <1>7, <1>8, <1>9, <1>10, PlaceFolded

-----------------------------------------------------------------------------
(* The section stays, and its page changes or not, while nothing is drawn. *)

LEMMA PageChangedPlace ==
    ASSUME ReaderOK, PlaceInv, open, rpc = "idle", Has, NEW p \in Nat, section' = [section EXCEPT !.currentPage = p],
           UNCHANGED <<bin, currentSpine, nextPage, jump, memory, cards, origins, open, layout, rpc>>,
           cached' \in {cached, Lapsed(cached)}, mpc' = "idle", place'.by # "drawn",
           place'.by = "shown" => UNCHANGED place /\ mpc # "closing",
           Held' => place'.offset < Length[place'.spine] /\ Shows'
    PROVE  PlaceInv'
<1>1. /\ section'.currentPage = p /\ section'.spine = section.spine /\ section'.build = section.build
      /\ section'.built = section.built /\ section'.complete = section.complete
      /\ section'.pageCount = section.pageCount /\ section'.partialPages = section.partialPages
  BY PageSetFields
<1>2. UNCHANGED <<saved, lastSaved, pageOffset, progress, saving>>
  BY DEF memory, cards
<1>3. ~Finding /\ ~Finding' /\ Has' /\ cached.offset = None
  BY <1>1, IdleFacts DEF Finding, Has
<1>4. cached'.offset = None /\ (cached = Lapsed(cached) => cached' = Lapsed(cached'))
  BY <1>3, Unfolded, LapsedFacts DEF PositionOK
<1>5. FilesWhole' /\ BuildAhead' /\ StackKept'
  BY <1>1, <1>2, PlaceUnfolded, Frames
<1>6. SectionHere' /\ JumpsUsed'
  BY <1>1, <1>3, PlaceUnfolded DEF SectionHere, JumpsUsed, Here, Has
<1>7. Repositions'
  BY <1>3, <1>4, PlaceUnfolded DEF Repositions
<1>8. PlaceKnown'
  BY <1>3 DEF PlaceKnown
<1>9. PageDrawn'
  BY <1>1, PlaceUnfolded DEF PageDrawn, Has
<1>10. ProgressKept'
  <2>1. OnCard /\ UNCHANGED place => OnCard'
    BY <1>1, <1>2 DEF OnCard, Has, Hits
  <2> QED  BY <1>2, <2>1, PlaceUnfolded DEF ProgressKept, LastSavedThere
<1> QED  BY <1>5, <1>6, <1>7, <1>8, <1>9, <1>10, PlaceFolded

LEMMA OpenBookmarkPlace ==
    ASSUME ReaderOK, PlaceInv, NEW s \in Spine, NEW o \in Anchor, NEW l \in Layout, o < Length[s], OpenBookmark(s, o, l)
    PROVE  PlaceInv'
<1>1. /\ open /\ rpc = "idle" /\ mpc = "idle"
      /\ UNCHANGED <<memory, cards, origins, open, layout, rpc, goal, mpc>>
  BY AskedFacts DEF OpenBookmark
<1>2. o \in Nat /\ PageOf(o, l) \in Nat /\ layout \in Layout /\ PageOf(o, layout) \in Nat /\ Length[s] \in Nat
  BY PageNumbers, SectionFacts
<1>3. /\ Promise(s, o).by \in {"none", "promised", "leftover"} /\ NoPlace.by = "none"
      /\ Promise(s, o).by = "promised" => jump = NoJump /\ Promise(s, o).spine = s /\ Promise(s, o).offset = o
  <2>1. Least(o, Length[s] - 1) = o
    <3> DEFINE n == Length[s]
    <3>1. o < n /\ n \in Nat
      BY <1>2
    <3> HIDE DEF n
    <3> QED  BY <1>2, <3>1 DEF Least, n
  <2> QED  BY <1>2, <2>1, PromisedFacts DEF NoPlace
<1>4. cached' = Lapsed(cached)
  BY DEF OpenBookmark, Leap
<1>5. Undisturbed'
  BY <1>4, Unfolded, LapsedFacts DEF Undisturbed, PositionOK
<1>6. CASE section # NoSection /\ currentSpine = s
  <2> DEFINE p == IF PageForOffset(o) = None THEN PageOf(o, l) ELSE PageForOffset(o)
  <2>1. /\ section' = [section EXCEPT !.currentPage = p]
        /\ place' = IF l = layout \/ PageForOffset(o) # None THEN Promise(s, o) ELSE NoPlace
        /\ UNCHANGED <<bin, currentSpine, nextPage, jump>>
    BY <1>6 DEF OpenBookmark
  <2>2. Has /\ p \in Nat
    BY <1>2, <1>6, SectionFacts, AnswersAreNumbers DEF Has
  <2>3. section.spine = s
    BY <1>1, <1>6, <2>2, IdleFacts, HereFacts
  <2>4. l = layout \/ PageForOffset(o) # None => p = PageOf(o, layout)
    BY <1>2, <2>2, <2>3, SectionAnswers
  <2> HIDE DEF p
  <2>5. place'.by \notin {"drawn", "shown"}
    BY <1>3, <2>1
  <2>6. ASSUME Held' PROVE place'.offset < Length[place'.spine] /\ Shows'
    <3>1. place' = Promise(s, o) /\ p = PageOf(o, layout)
      BY <2>1, <2>4, <2>6 DEF Held, NoPlace
    <3>2. place'.spine = s /\ place'.offset = o
      BY <1>3, <2>6, <3>1 DEF Held
    <3>3. PageOf(o, layout) < Pages(s, layout) /\ Pages(s, layout) \in Nat
      BY <1>2, UnitsHavePages, PageNumbers
    <3>4. Least(PageOf(o, layout), Pages(s, layout) - 1) = PageOf(o, layout)
      BY <1>2, <3>3 DEF Least
    <3>5. section'.currentPage = p /\ section'.spine = s
      BY <2>1, <2>2, <2>3, PageSetFields
    <3>6. Hits(cp)'
      BY <1>1, <3>1, <3>2, <3>4, <3>5 DEF Hits, cp
    <3> QED  BY <1>5, <3>2, <3>5, <3>6 DEF Shows
  <2> QED  BY <1>1, <1>4, <2>1, <2>2, <2>5, <2>6, PageChangedPlace
<1>7. CASE ~(section # NoSection /\ currentSpine = s)
  <2> DEFINE to == IF l = layout THEN Promise(s, o) ELSE NoPlace
             j == [jump EXCEPT !.offset = o]
  <2>1. Leap(s, PageOf(o, l), j, to)
    BY <1>7 DEF OpenBookmark
  <2>2. currentSpine' = s /\ nextPage' = PageOf(o, l) /\ jump' = j /\ place' = to
    BY <2>1 DEF Leap
  <2>3. to.by \in {"none", "promised", "leftover"}
    BY <1>3
  <2>4. ASSUME to.by = "promised" PROVE to.offset < Length[to.spine] /\ Leads'
    <3>1. l = layout /\ jump = NoJump /\ to.spine = s /\ to.offset = o
      BY <1>3, <2>4
    <3>2. jump' = [NoJump EXCEPT !.offset = o]
      BY <2>2, <3>1
    <3> HIDE DEF to, j
    <3>3. ByMark'
      BY <1>1, <1>5, <2>2, <3>1, <3>2 DEF ByMark
    <3> QED  BY <2>2, <3>1, <3>3 DEF Leads
  <2>5. StackKept' /\ UNCHANGED <<lastSaved, progress>> /\ mpc' = "idle"
    BY <1>1, PlaceUnfolded, Frames DEF memory, cards
  <2> HIDE DEF to, j
  <2> QED  BY <1>1, <2>1, <2>3, <2>4, <2>5, LeapPlace
<1> QED  BY <1>6, <1>7

LEMMA RepositionPlace == ASSUME ReaderOK, PlaceInv, Reposition PROVE PlaceInv'
<1> DEFINE p == Repositioned(cp)
<1>1. /\ mpc = "reposition" /\ place' = IF p = cp THEN place ELSE NoPlace
      /\ section' = [section EXCEPT !.currentPage = p]
      /\ cached' = IF IsDeferred THEN Lapsed(cached) ELSE cached
      /\ mpc' = "idle"
      /\ UNCHANGED <<bin, currentSpine, nextPage, jump, memory, cards, origins, open, layout, rpc, goal>>
  BY DEF Reposition
<1>2. Has /\ rpc = "idle" /\ open
  BY <1>1, Unfolded DEF TurnsOK, Has
<1>3. p \in Nat
  BY <1>2, SectionFacts, PagesMoved DEF Has
<1> HIDE DEF p
<1>4. ~Finding /\ place.by # "drawn" /\ section.build = None
  BY <1>1, <1>2, IdleFacts, PlaceUnfolded DEF SectionHere
<1>5. cached' = Lapsed(cached')
  BY <1>1, <1>4, Unfolded, LapsedFacts DEF IsDeferred, IsBuilding, PositionOK, CachedType
<1>6. ASSUME Held' PROVE place'.offset < Length[place'.spine] /\ Shows'
  <2>1. UNCHANGED place /\ p = cp /\ Held
    BY <1>1, <1>6 DEF Held, NoPlace
  <2>2. place.offset < Length[place.spine] /\ place.spine = section.spine /\ Hits(cp)
    BY <1>2, <1>4, <2>1, PlaceUnfolded DEF PlaceKnown, Shows
  <2>3. section'.currentPage = cp /\ section'.spine = section.spine
    BY <1>1, <1>3, <2>1, PageSetFields
  <2>4. Hits(cp)' /\ Undisturbed'
    BY <1>1, <1>5, <2>1, <2>2, <2>3 DEF Hits, cp, Undisturbed
  <2> QED  BY <2>1, <2>2, <2>3, <2>4 DEF Shows
<1>7. place'.by # "drawn" /\ (place'.by = "shown" => UNCHANGED place /\ mpc # "closing")
  BY <1>1, <1>4 DEF NoPlace
<1>8. cached' \in {cached, Lapsed(cached)}
  BY <1>1
<1> QED  BY <1>1, <1>2, <1>3, <1>6, <1>7, <1>8, PageChangedPlace

\* The section is built on, or as much of it kept as there was.
LEMMA BuiltOnPlace ==
    ASSUME ReaderOK, PlaceInv, open, rpc = "idle", mpc = "idle", Has, FilesWhole', BuildAhead',
           section'.spine = section.spine, section'.currentPage = section.currentPage,
           UNCHANGED <<position, saved, lastSaved, pageOffset, cards, origins, open, layout, rpc, place>>,
           mpc' \in {"idle", "reposition"}, mpc' = "reposition" => section'.build = None,
           jump.percent = None,
           section.build # None =>
               mpc' = "reposition" \/ (section'.build # None /\ (cp < section.pageCount => cp' < section'.pageCount)),
           Held => section'.pageCount > 0 \/ section'.build # None
    PROVE  PlaceInv'
<1>1. UNCHANGED <<currentSpine, nextPage, jump, cached, progress, saving>>
  BY DEF position, cards
<1>2. ~Finding /\ ~Finding' /\ Has' /\ cached.offset = None /\ place.by # "drawn"
  BY IdleFacts DEF Finding, Has
<1>3. StackKept'
  BY PlaceUnfolded, Frames
<1>4. SectionHere' /\ JumpsUsed'
  BY <1>1, <1>2, PlaceUnfolded DEF SectionHere, JumpsUsed, Here, Has
<1>5. Repositions'
  BY <1>1, <1>2, PlaceUnfolded DEF Repositions
<1>6. PlaceKnown'
  <2> SUFFICES ASSUME Held PROVE place'.offset < Length[place'.spine] /\ Shows'
    BY <1>2 DEF PlaceKnown, Held
  <2>1. place.offset < Length[place.spine] /\ Shows
    BY <1>2, PlaceUnfolded DEF PlaceKnown
  <2>2. Hits(cp)' /\ cp' = cp /\ UNCHANGED Undisturbed
    BY <1>1, <2>1 DEF Shows, Hits, cp, Undisturbed
  <2>3. \/ Undisturbed'
        \/ mpc' = "reposition"
        \/ section'.build # None /\ cp' < section'.pageCount
        \/ cached'.offset = None /\ cp' = 0
    BY <1>1, <2>1, <2>2 DEF Shows
  <2> QED  BY <2>1, <2>2, <2>3 DEF Shows
<1>7. PageDrawn'
  BY <1>2 DEF PageDrawn, Held
<1>8. ProgressKept'
  <2>1. OnCard => OnCard'
    BY <1>1, <1>2 DEF OnCard, Has, Hits
  <2> QED  BY <1>1, <2>1, PlaceUnfolded DEF ProgressKept, LastSavedThere
<1> QED  BY <1>3, <1>4, <1>5, <1>6, <1>7, <1>8, PlaceFolded

LEMMA ExtendsPartialPlace == ASSUME ReaderOK, PlaceInv, ExtendsPartial PROVE PlaceInv'
<1>1. /\ open /\ rpc = "idle" /\ mpc = "idle" /\ section # NoSection /\ ~IsBuilding /\ IsPartial
      /\ \/ StartBuild(layout) /\ UNCHANGED place
         \/ StartBuildFails /\ place' = IF section'.pageCount = 0 THEN NoPlace ELSE place
      /\ UNCHANGED <<position, saved, lastSaved, pageOffset, cards, origins, control>>
  BY DEF ExtendsPartial, Reading, Free
<1>2. /\ UNCHANGED <<open, layout, rpc, mpc, currentSpine, nextPage, jump, cached, progress, saving>>
  BY <1>1 DEF control, position, cards
<1>3. Has /\ section.build = None /\ section.partialPages # 0 /\ section \in SectionType /\ section.partialPages \in Nat
  BY <1>1, SectionFacts, CacheFacts DEF Has, IsBuilding, IsPartial
<1>4. jump.percent = None /\ cached.offset = None /\ ~Finding
  BY <1>1, <1>3, PlaceUnfolded, IdleFacts DEF JumpsUsed
<1>5. FilesWhole' /\ StackKept'
  BY <1>1, PlaceUnfolded, WholeStep, Frames, SectionFacts
<1>6. CASE StartBuild(layout) /\ UNCHANGED place
  <2>1. section'.spine = section.spine /\ section'.currentPage = section.currentPage /\ section'.build # None
    BY <1>6, StartedFields
  <2>2. BuildAhead'
    BY <1>1, <1>2, <1>6, BuildKeeps
  <2> QED  BY <1>1, <1>2, <1>3, <1>4, <1>5, <1>6, <2>1, <2>2, BuiltOnPlace
<1>7. CASE /\ section' = [section EXCEPT !.complete = FALSE, !.built = 0, !.pageCount = section.partialPages]
           /\ place' = IF section'.pageCount = 0 THEN NoPlace ELSE place
  <2>1. section'.spine = section.spine /\ section'.currentPage = section.currentPage /\ section'.build = None
        /\ section'.pageCount = section.partialPages
    BY <1>3, <1>7 DEF SectionType
  <2>2. BuildAhead' /\ UNCHANGED place /\ section'.pageCount > 0
    BY <1>3, <1>7, <2>1, Frames
  <2> QED  BY <1>1, <1>2, <1>3, <1>4, <1>5, <2>1, <2>2, BuiltOnPlace
<1>8. CASE /\ section' = [section EXCEPT !.complete = FALSE, !.built = 0, !.pageCount = 0, !.partialPages = 0]
           /\ place' = IF section'.pageCount = 0 THEN NoPlace ELSE place
  <2>1. section'.spine = section.spine /\ section'.build = None /\ section'.pageCount = 0
    BY <1>3, <1>8 DEF SectionType
  <2>2. place'.by = "none" /\ BuildAhead' /\ Has' /\ ~Finding'
    BY <1>1, <1>2, <1>3, <1>8, <2>1, Frames DEF NoPlace, Has, Finding
  <2>3. SectionHere' /\ JumpsUsed'
    BY <1>1, <1>2, <1>3, <1>4, <2>1, PlaceUnfolded DEF SectionHere, JumpsUsed, Here, Has
  <2>4. Repositions'
    BY <1>1, <1>2, <1>3, <1>4, <2>2, PlaceUnfolded DEF Repositions
  <2>5. PlaceKnown' /\ PageDrawn'
    BY <1>1, <1>2, <2>2 DEF PlaceKnown, Held, PageDrawn
  <2>6. ProgressKept'
    BY <1>1, <1>2, <2>2, PlaceUnfolded DEF ProgressKept, LastSavedThere
  <2> QED  BY <1>5, <2>2, <2>3, <2>4, <2>5, <2>6, PlaceFolded
<1> QED  BY <1>1, <1>6, <1>7, <1>8 DEF StartBuildFails

LEMMA BackgroundBuildPlace == ASSUME ReaderOK, PlaceInv, BackgroundBuild PROVE PlaceInv'
<1>1. /\ open /\ rpc = "idle" /\ mpc = "idle" /\ IsBuilding
      /\ UNCHANGED <<position, memory, cards, origins, open, layout, rpc, goal>>
      /\ \/ PageLaidOut /\ UNCHANGED <<mpc, place>>
         \/ BuildCompletes /\ mpc' = "reposition" /\ UNCHANGED place
         \/ BuildFails /\ place' = NoPlace /\ UNCHANGED mpc
  BY DEF BackgroundBuild, Reading, Free
<1>2. UNCHANGED <<saved, lastSaved, pageOffset, currentSpine, jump, cached, progress>>
  BY <1>1 DEF memory, position, cards
<1>3. Has /\ section.build # None /\ ~Finding
  BY <1>1, SectionFacts, BuildingFacts, SpinesAreSpines, IdleFacts DEF Has, IsBuilding
<1>4. jump.percent = None /\ cached.offset = None
  BY <1>1, <1>3, PlaceUnfolded, IdleFacts DEF JumpsUsed
<1>5. Held => place.offset < Length[place.spine] /\ place.spine = section.spine
  BY <1>3, PlaceUnfolded DEF PlaceKnown, Shows
<1>6. CASE PageLaidOut /\ UNCHANGED <<mpc, place>>
  <2>1. BuildSomeMore
    BY <1>6 DEF BuildSomeMore
  <2>2. section'.spine = section.spine /\ section'.currentPage = section.currentPage
    BY <2>1, MoreFields
  <2>3. section'.build # None /\ (cp < section.pageCount => cp' < section'.pageCount)
    <3> DEFINE n == section.built + 1
               m == Greatest(section.pageCount, n)
    <3>1. section' = [section EXCEPT !.built = n, !.pageCount = m]
      BY <1>6 DEF PageLaidOut
    <3>2. section \in SectionType
      BY SectionFacts, CacheFacts
    <3>3. section.pageCount \in Nat /\ n \in Nat /\ cp \in Nat
      BY <3>2, SectionFacts DEF SectionType
    <3> HIDE DEF n
    <3>4. m \in Nat /\ section.pageCount <= m
      BY <3>3 DEF Greatest
    <3> HIDE DEF m
    <3>5. section'.pageCount = m /\ section'.build = section.build /\ cp' = cp
      BY <3>1, <3>2 DEF SectionType, cp
    <3> QED  BY <1>3, <3>3, <3>4, <3>5
  <2>4. FilesWhole' /\ BuildAhead'
    BY <1>1, <1>2, <2>1, BuildKeeps
  <2> QED  BY <1>1, <1>2, <1>3, <1>4, <1>6, <2>2, <2>3, <2>4, BuiltOnPlace
<1>7. CASE BuildCompletes /\ mpc' = "reposition" /\ UNCHANGED place
  <2>1. BuildSomeMore
    BY <1>7 DEF BuildSomeMore
  <2>2. section'.spine = section.spine /\ section'.currentPage = section.currentPage /\ section'.build = None
    <3>1. section \in SectionType
      BY SectionFacts, CacheFacts
    <3> QED  BY <1>7, <3>1 DEF BuildCompletes, Ended, SectionType
  <2>3. Held => section'.pageCount > 0 \/ section'.build # None
    BY <1>5, <2>1, BuildLeavesPages
  <2>4. FilesWhole' /\ BuildAhead'
    BY <1>1, <1>2, <2>1, BuildKeeps
  <2> QED  BY <1>1, <1>2, <1>3, <1>4, <1>7, <2>2, <2>3, <2>4, BuiltOnPlace
<1>8. CASE BuildFails /\ place' = NoPlace /\ UNCHANGED mpc
  <2>1. OffsetWaits
    BY <1>4 DEF OffsetWaits
  <2>2. rpc' = "idle" /\ mpc \notin {"reposition", "deleting", "closing"}
    BY <1>1
  <2> QED  BY <1>1, <1>2, <1>8, <2>1, <2>2, ErrorPlace
<1> QED  BY <1>1, <1>6, <1>7, <1>8

-----------------------------------------------------------------------------
(* The book is opened and closed.                                          *)

\* A book that is closed keeps its place on the card only.
LEMMA ClosedPlace ==
    ASSUME FilesWhole', section' = NoSection, FreshRam, ~open', place'.by \in {"none", "shown", "origin"},
           place'.by = "shown" => place'.offset < Length[place'.spine] /\ place'.spine # SpineCount /\ OnCard'
    PROVE  PlaceInv'
<1>1. /\ jump' = NoJump /\ cached' = [spine |-> 0, count |-> 0, offset |-> None]
      /\ saved' = <<>> /\ lastSaved' = None /\ rpc' = "idle" /\ mpc' = "idle" /\ origins' = <<>>
  BY DEF FreshRam
<1>2. section'.spine = None /\ section'.build = None
  BY NoSectionFits
<1>3. ~Has' /\ ~Finding' /\ cached'.offset = None
  BY <1>1, <1>2 DEF Has, Finding
<1>4. StackKept'
  <2>1. Len(saved') = 0
    BY <1>1
  <2> QED  BY <2>1 DEF StackKept
<1>5. BuildAhead' /\ SectionHere' /\ JumpsUsed'
  BY <1>1, <1>2, <1>3, Frames DEF SectionHere, JumpsUsed
<1>6. Repositions'
  BY <1>1, <1>3 DEF Repositions, OffsetWaits
<1>7. PlaceKnown'
  BY <1>3 DEF PlaceKnown, Held
<1>8. PageDrawn'
  BY <1>1, <1>3 DEF PageDrawn
<1>9. ProgressKept'
  BY <1>1 DEF ProgressKept, LastSavedThere
<1> QED  BY <1>4, <1>5, <1>6, <1>7, <1>8, <1>9, PlaceFolded

\* The record on the card is as good when the section is gone.
LEMMA OnCardStill ==
    ASSUME ReaderOK, PlaceInv, place.by = "shown", rpc = "idle", mpc # "closing",
           ResetSection \/ SectionLost, UNCHANGED <<place, layout, progress>>
    PROVE  place.offset < Length[place.spine] /\ place.spine # SpineCount /\ OnCard'
<1>1. OnCard /\ Held /\ ~Finding
  BY PlaceUnfolded, IdleFacts DEF ProgressKept, Held
<1>2. place.offset < Length[place.spine] /\ (Has => place.spine = section.spine)
  BY <1>1, PlaceUnfolded DEF PlaceKnown, Shows
<1>3. place.spine \in Spine /\ place.spine # SpineCount /\ layout \in Layout /\ CacheFits(bin, section, layout)
  BY PlaceFacts, SectionFacts
<1>4. ~Has'
  BY NoSectionFits DEF ResetSection, SectionLost, Has
<1>5. ~Has => bin'[place.spine] = bin[place.spine]
  BY <1>3, LayoutsKept, SpinesAreSpines DEF Has
<1>6. Has => bin'[place.spine].layout \in {layout, None}
  BY <1>2, <1>3, LayoutsKept DEF Has
<1>7. OnCard'
  BY <1>1, <1>3, <1>4, <1>5, <1>6 DEF OnCard, Hits
<1> QED  BY <1>2, <1>3, <1>7

LEMMA OpenBookPlace == ASSUME ReaderOK, PlaceInv, OpenBook PROVE PlaceInv'
<1>1. /\ ~open /\ open' = TRUE
      /\ currentSpine' = progress.spine /\ nextPage' = progress.page
      /\ cached' = [spine |-> progress.spine, count |-> progress.count, offset |-> progress.offset]
      /\ UNCHANGED <<layout, jump, rpc, goal, mpc, memory, cards, history, sections>>
  BY DEF OpenBook
<1>2. UNCHANGED <<bin, section, saved, lastSaved, origins, place, progress>>
  BY <1>1 DEF memory, cards, history, sections
<1>3. section = NoSection /\ rpc = "idle" /\ mpc = "idle" /\ jump = NoJump
      /\ place.by \notin {"promised", "unsaved", "drawn"} /\ progress \in ProgressType
  BY <1>1, Unfolded, PlaceUnfolded DEF TurnsOK, ProgressKept, CardsOK
<1>4. ~Has /\ ~Has'
  BY <1>2, <1>3, NoSectionFits DEF Has
<1>5. FilesWhole' /\ StackKept' /\ LastSavedThere'
  BY <1>2, PlaceUnfolded, Frames DEF ProgressKept, LastSavedThere
<1>6. OffsetWaits'
  BY <1>1, <1>3, NoJumpFacts DEF OffsetWaits
<1>7. place.by = "shown" => OnCard /\ OnCard'
  <2>1. OnCard => OnCard'
    BY <1>1, <1>2 DEF OnCard, Has, Hits
  <2> QED  BY <1>3, <2>1, PlaceUnfolded DEF ProgressKept
<1>8. ASSUME Held', currentSpine' # SpineCount PROVE Leads'
  <2>1. OnCard /\ Held
    BY <1>2, <1>3, <1>7, <1>8 DEF Held
  <2>2. currentSpine' = place'.spine
    BY <1>1, <1>2, <1>8, <2>1 DEF OnCard
  <2>3. CASE progress.offset = None
    <3>1. progress.count = 0 /\ Hits(progress.page)
      BY <2>1, <2>3 DEF OnCard
    <3>2. cached' = Lapsed(cached')
      <4>1. cached' = [spine |-> progress.spine, count |-> 0, offset |-> None]
        BY <1>1, <2>3, <3>1
      <4>2. cached' \in CachedType
        BY <4>1, Unfolded DEF CardsOK, ProgressType, CachedType
      <4>3. cached'.count = 0 /\ cached'.offset = None
        BY <4>1
      <4> QED  BY <4>2, <4>3, LapsedFacts
    <3>3. Hits(nextPage)'
      BY <1>1, <1>2, <3>1 DEF Hits
    <3>4. ByPage'
      BY <1>1, <1>3, <3>2, <3>3 DEF ByPage, Undisturbed
    <3> QED  BY <2>2, <3>4 DEF Leads
  <2>4. CASE progress.offset # None
    <3>1. progress.offset = place.offset
          /\ \E l \in Layout : progress.page = PageOf(place.offset, l) /\ bin[place.spine].layout \in {l, None}
      BY <1>4, <2>1, <2>4 DEF OnCard
    <3>2. cached'.spine = currentSpine' /\ cached'.offset = place'.offset
      BY <1>1, <1>2, <3>1
    <3>3. \E l \in Layout : nextPage' = PageOf(place'.offset, l) /\ bin'[currentSpine'].layout \in {l, None}
      BY <1>1, <1>2, <2>2, <3>1
    <3>4. ByOffset'
      BY <1>1, <1>3, <1>4, <3>2, <3>3 DEF ByOffset
    <3> QED  BY <2>2, <3>4 DEF Leads
  <2> QED  BY <2>3, <2>4
<1>9. Held' => place'.offset < Length[place'.spine]
  BY <1>2, PlaceUnfolded DEF PlaceKnown, Held
<1>10. section' = NoSection /\ rpc' = "idle" /\ mpc' = "idle" /\ open' /\ place'.by # "drawn"
  BY <1>1, <1>2, <1>3
<1> QED  BY <1>2, <1>5, <1>6, <1>7, <1>8, <1>9, <1>10, GonePlace

LEMMA ChangeSettingsPlace == ASSUME ReaderOK, PlaceInv, ChangeSettings PROVE PlaceInv'
<1>1. /\ ~open
      /\ place' = IF place.by = "shown" /\ progress.offset = None THEN [place EXCEPT !.by = "origin"] ELSE place
      /\ UNCHANGED <<position, memory, cards, origins, sections, open, requested, rpc, goal, mpc>>
  BY DEF ChangeSettings
<1>2. UNCHANGED <<bin, section, saved, lastSaved, currentSpine, jump, cached, progress, saving>>
  BY <1>1 DEF position, memory, cards, sections
<1>3. section = NoSection /\ rpc = "idle" /\ mpc = "idle"
  BY <1>1, Unfolded DEF TurnsOK
<1>4. section.spine = None /\ section.build = None /\ ~Has /\ ~Has' /\ ~Finding /\ ~Finding'
  BY <1>1, <1>2, <1>3, NoSectionFits DEF Has, Finding
<1>5. FilesWhole' /\ BuildAhead' /\ StackKept'
  BY <1>1, <1>2, PlaceUnfolded, Frames
<1>6. SectionHere' /\ JumpsUsed'
  BY <1>1, <1>3, <1>4 DEF SectionHere, JumpsUsed
<1>7. Repositions'
  BY <1>1, <1>2, <1>3, <1>4, PlaceUnfolded DEF Repositions, OffsetWaits
<1>8. place'.by # "origin" => UNCHANGED place /\ ~(place.by = "shown" /\ progress.offset = None)
  BY <1>1, Unfolded DEF PlaceType
<1>9. PlaceKnown'
  BY <1>1, <1>2, <1>4, <1>8, PlaceUnfolded DEF PlaceKnown, Held
<1>10. PageDrawn'
  BY <1>1, <1>3, <1>4, <1>8, PlaceUnfolded DEF PageDrawn
<1>11. ProgressKept'
  <2>1. place'.by = "shown" => OnCard'
    <3> SUFFICES ASSUME place'.by = "shown" PROVE OnCard'
      OBVIOUS
    <3>1. UNCHANGED place /\ place.by = "shown" /\ progress.offset # None
      BY <1>8
    <3>2. OnCard
      BY <1>3, <3>1, PlaceUnfolded DEF ProgressKept
    <3> QED  BY <1>2, <1>4, <3>1, <3>2 DEF OnCard
  <2>2. place'.by \notin {"promised", "unsaved", "drawn"}
    BY <1>1, <1>8, PlaceUnfolded DEF ProgressKept
  <2> QED  BY <1>1, <1>2, <1>3, <2>1, <2>2, PlaceUnfolded DEF ProgressKept, LastSavedThere
<1> QED  BY <1>5, <1>6, <1>7, <1>9, <1>10, <1>11, PlaceFolded

LEMMA DeleteCachePlace == ASSUME ReaderOK, PlaceInv, DeleteCache PROVE PlaceInv'
<1>1. /\ open /\ rpc = "idle" /\ mpc = "idle" /\ section # NoSection
      /\ section' = NoSection /\ bin' = [s \in Spine |-> NoFile]
      /\ progress' = NoProgress /\ saving' = Record(currentSpine, cp, section.pageCount, None)
      /\ mpc' = "deleting" /\ place' = NoPlace
      /\ UNCHANGED <<position, memory, origins, open, rpc>>
  BY AskedFacts DEF DeleteCache
<1>2. UNCHANGED <<cached, saved, lastSaved>>
  BY <1>1 DEF position, memory
<1>3. section'.spine = None /\ section'.build = None /\ ~Has' /\ ~Finding'
  BY <1>1, NoSectionFits DEF Has, Finding
<1>4. cached.offset = None
  BY <1>1, IdleFacts
<1>5. place'.by = "none" /\ progress'.offset = None /\ saving'.offset = None
  BY <1>1 DEF NoPlace, NoProgress, Record
<1>6. FilesWhole' /\ BuildAhead' /\ StackKept'
  BY <1>1, <1>2, <1>3, PlaceUnfolded, Frames DEF FilesWhole, NoFile
<1>7. SectionHere' /\ JumpsUsed' /\ Repositions'
  BY <1>1, <1>2, <1>3, <1>4 DEF SectionHere, JumpsUsed, Repositions, OffsetWaits
<1>8. PlaceKnown' /\ PageDrawn'
  BY <1>1, <1>5 DEF PlaceKnown, PageDrawn, Held
<1>9. ProgressKept'
  BY <1>1, <1>5 DEF ProgressKept, LastSavedThere, Held
<1> QED  BY <1>6, <1>7, <1>8, <1>9, PlaceFolded

LEMMA DeleteFinishesPlace == ASSUME ReaderOK, PlaceInv, DeleteFinishes PROVE PlaceInv'
<1>1. /\ mpc = "deleting" /\ mpc' = "leaving" /\ progress' \in {saving, NoProgress}
      /\ UNCHANGED <<position, memory, history, sections, open, layout, requested, rpc, goal>>
  BY DEF DeleteFinishes
<1>2. UNCHANGED <<bin, section, saved, lastSaved, pageOffset, origins, place, currentSpine, nextPage, jump, cached>>
  BY <1>1 DEF position, memory, history, sections
<1>3. rpc = "idle" /\ open /\ saving.offset = None /\ ~Held
  BY <1>1, Unfolded, PlaceUnfolded DEF TurnsOK, ProgressKept
<1>4. progress'.offset = None
  BY <1>1, <1>3 DEF NoProgress
<1>5. FilesWhole' /\ BuildAhead' /\ StackKept'
  BY <1>2, PlaceUnfolded, Frames
<1>6. ~Finding /\ ~Finding' /\ Has' = Has /\ ~Held'
  BY <1>1, <1>2, <1>3 DEF Finding, Has, Held
<1>7. SectionHere' /\ JumpsUsed'
  BY <1>1, <1>2, <1>3, <1>6, PlaceUnfolded DEF SectionHere, JumpsUsed, Here
<1>8. Repositions'
  BY <1>1, <1>2, <1>3, <1>6, PlaceUnfolded DEF Repositions, OffsetWaits
<1>9. PlaceKnown' /\ PageDrawn' /\ ProgressKept'
  BY <1>1, <1>3, <1>4, <1>6 DEF PlaceKnown, PageDrawn, ProgressKept, LastSavedThere, Held
<1> QED  BY <1>5, <1>7, <1>8, <1>9, PlaceFolded

LEMMA CloseBookPlace == ASSUME ReaderOK, PlaceInv, CloseBook PROVE PlaceInv'
<1>1. open /\ rpc = "idle" /\ mpc \in {"idle", "leaving"}
  BY DEF CloseBook
<1>2. CASE saved = <<>>
  <2>1. /\ open' = FALSE /\ ResetSection /\ FreshRam /\ UNCHANGED <<layout, progress>>
        /\ place' = IF place.by = "shown" THEN place ELSE NoPlace
    BY <1>2 DEF CloseBook, Left
  <2>2. FilesWhole' /\ section' = NoSection
    BY <2>1, PlaceUnfolded, WholeStep, SectionFacts DEF ResetSection
  <2>3. place'.by \in {"none", "shown"} /\ (place'.by = "shown" => UNCHANGED place)
    BY <2>1 DEF NoPlace
  <2>4. place'.by = "shown" => place'.offset < Length[place'.spine] /\ place'.spine # SpineCount /\ OnCard'
    BY <1>1, <2>1, <2>3, OnCardStill
  <2> QED  BY <2>1, <2>2, <2>3, <2>4, ClosedPlace
<1>3. CASE saved # <<>>
  <2> DEFINE s == saved[1].spine
             p == saved[1].page
  <2>1. /\ saving' = Record(s, p, 0, OffsetToSave(s, p)) /\ progress' = NoProgress /\ mpc' = "closing"
        /\ UNCHANGED <<position, memory, history, sections, open, layout, requested, rpc, goal>>
    BY <1>3 DEF CloseBook
  <2>2. UNCHANGED <<bin, section, saved, lastSaved, pageOffset, origins, place, currentSpine, nextPage, jump, cached>>
    BY <2>1 DEF position, memory, history, sections
  <2>3. s \in Spine /\ p \in Nat
    <3>1. saved[1] \in SavedType
      BY <1>3, Unfolded, Ends DEF MemoryOK
    <3> QED  BY <3>1 DEF SavedType
  <2>4. /\ saving'.spine = s /\ saving'.page = p /\ saving'.count = 0 /\ saving'.offset = OffsetToSave(s, p)
        /\ progress'.offset = None
    BY <2>1 DEF Record, NoProgress
  <2> HIDE DEF s, p
  <2>5. OffsetToSave(s, p) # None => p < Pages(s, layout) /\ bin[s].layout \in {layout, None}
    <3> SUFFICES ASSUME OffsetToSave(s, p) # None PROVE p < Pages(s, layout) /\ bin[s].layout \in {layout, None}
      OBVIOUS
    <3>1. section # NoSection /\ s = currentSpine /\ ~(p >= section.pageCount)
      BY DEF OffsetToSave
    <3>2. Has /\ section.spine = s /\ p < section.pageCount
      BY <1>1, <2>3, <3>1, SectionFacts, IdleFacts, HereFacts DEF Has
    <3>3. bin[s].layout \in {layout, None}
      BY <3>2, SectionFacts, CacheFacts DEF Has, SectionFits
    <3> QED  BY <2>3, <3>2, <3>3, PageHasText
  <2>6. FilesWhole' /\ BuildAhead' /\ StackKept'
    BY <2>2, PlaceUnfolded, Frames
  <2>7. ~Finding /\ ~Finding' /\ Has' = Has /\ place.by # "drawn"
    BY <1>1, <2>1, <2>2, IdleFacts DEF Finding, Has
  <2>8. SectionHere' /\ JumpsUsed'
    BY <1>1, <2>1, <2>2, <2>7, PlaceUnfolded DEF SectionHere, JumpsUsed, Here
  <2>9. Repositions'
    BY <1>1, <2>1, <2>2, <2>7, PlaceUnfolded DEF Repositions, OffsetWaits
  <2>10. PlaceKnown'
    <3>1. Held' = Held /\ UNCHANGED <<place, open, currentSpine>>
      BY <2>1, <2>2 DEF Held
    <3>2. Shows => Shows'
      BY <1>1, <2>1, <2>2 DEF Shows, Hits, Undisturbed, cp
    <3>3. Leads /\ ~Has => Leads'
      <4>1. UNCHANGED Undisturbed
        BY <2>2 DEF Undisturbed
      <4> QED  BY <2>1, <2>2, <2>7, <4>1 DEF Leads, ByOffset, ByPage, ByEnd, ByAnchor, ByMark, Hits
    <3> QED  BY <1>1, <2>1, <2>7, <3>1, <3>2, <3>3, PlaceUnfolded DEF PlaceKnown
  <2>11. PageDrawn'
    BY <1>1, <2>1, <2>2, <2>7, PlaceUnfolded DEF PageDrawn
  <2>12. ProgressKept'
    BY <1>1, <2>1, <2>2, <2>4, <2>5 DEF ProgressKept, LastSavedThere, s, p
  <2> QED  BY <2>6, <2>8, <2>9, <2>10, <2>11, <2>12, PlaceFolded
<1> QED  BY <1>2, <1>3

LEMMA CloseFinishesPlace == ASSUME ReaderOK, PlaceInv, CloseFinishes PROVE PlaceInv'
<1> DEFINE at == origins[1]
           why == IF saving.offset \in {None, at.offset} THEN "shown" ELSE "origin"
<1>1. /\ mpc = "closing" /\ open' = FALSE /\ ResetSection /\ FreshRam /\ UNCHANGED layout
      /\ \/ progress' = saving /\ place' = Origin(at, why)
         \/ place' = NoPlace
  BY DEF CloseFinishes, Left
<1>2. FilesWhole' /\ section' = NoSection /\ ~Has'
  BY <1>1, PlaceUnfolded, WholeStep, SectionFacts, NoSectionFits DEF ResetSection, Has
<1>3. /\ saving.spine = saved[1].spine /\ saving.page = saved[1].page /\ saving.count = 0
      /\ saving.offset # None => /\ saving.page < Pages(saving.spine, layout)
                                 /\ bin[saving.spine].layout \in {layout, None}
  BY <1>1, PlaceUnfolded DEF ProgressKept
<1>4. saved[1] \in SavedType /\ at.spine = saved[1].spine /\ at.offset = StartOf(saved[1].page, at.layout)
  <2>1. saved # <<>> /\ saved \in Seq(SavedType)
    BY <1>1, Unfolded DEF TurnsOK, MemoryOK
  <2>2. Len(saved) \in Nat \ {0} /\ saved[1] \in SavedType
    BY <2>1, Ends
  <2>3. 1 \in 1 .. Len(saved)
    BY <2>2
  <2> QED  BY <2>2, <2>3, PlaceUnfolded DEF StackKept
<1> DEFINE s == saving.spine
           p == saving.page
<1>5. s \in Spine /\ p \in Nat /\ layout \in Layout /\ s # SpineCount
  BY <1>3, <1>4, SectionFacts DEF SavedType, Spine
<1>6. place'.by \in {"none", "shown", "origin"}
  BY <1>1 DEF Origin, At, NoPlace
<1>7. ASSUME place'.by = "shown"
      PROVE  place'.offset < Length[place'.spine] /\ place'.spine # SpineCount /\ OnCard'
  <2>1. progress' = saving /\ place' = Origin(at, why) /\ why = "shown"
    BY <1>1, <1>7 DEF Origin, At, NoPlace
  <2> HIDE DEF why
  <2>2. at.layout = layout /\ Length[s] # 0 /\ place' = [spine |-> s, offset |-> Least(at.offset, Length[s] - 1), by |-> "shown"]
    BY <1>3, <1>4, <1>7, <2>1 DEF Origin, At, NoPlace
  <2>3. at.offset = StartOf(p, layout) /\ Length[s] \in Nat /\ Length[s] > 0
    BY <1>3, <1>4, <1>5, <2>2
  <2> DEFINE o == Least(StartOf(p, layout), Length[s] - 1)
  <2>4. place'.spine = s /\ place'.offset = o
    BY <2>2, <2>3
  <2>5. o \in Nat /\ o < Length[s] /\ Least(p, Pages(s, layout) - 1) = PageOf(o, layout)
    BY <1>5, <2>3, StartHits
  <2> HIDE DEF o, s, p
  <2>6. CASE saving.offset = None
    <3>1. Least(p, Pages(s, layout) - 1) = PageOf(o, layout) /\ progress'.page = p /\ progress'.spine = s
      BY <2>1, <2>5 DEF s, p
    <3>2. Hits(progress.page)'
      BY <1>1, <2>4, <3>1 DEF Hits
    <3> QED  BY <1>2, <1>3, <1>5, <2>1, <2>4, <2>5, <2>6, <3>1, <3>2 DEF OnCard
  <2>7. CASE saving.offset # None
    <3>1. saving.offset = StartOf(p, layout)
      BY <2>1, <2>3, <2>7 DEF why
    <3>2. p < Pages(s, layout) /\ bin[s].layout \in {layout, None}
      BY <1>3, <2>7 DEF s, p
    <3>3. StartOf(p, layout) \in Nat /\ StartOf(p, layout) < Length[s] /\ PageOf(StartOf(p, layout), layout) = p
      BY <1>5, <3>2, UnitsHavePages, PageNumbers, PageOfStart
    <3>4. o = StartOf(p, layout)
      <4> DEFINE t == StartOf(p, layout)
                 n == Length[s]
      <4>1. t \in Nat /\ n \in Nat /\ t < n
        BY <2>3, <3>3
      <4> HIDE DEF t, n
      <4>2. Least(t, n - 1) = t
        BY <4>1 DEF Least
      <4> QED  BY <4>2 DEF o, t, n
    <3>5. bin'[s].layout \in {layout, None}
      BY <1>1, <1>5, <3>2, SectionFacts, LayoutsKept
    <3>6. progress'.page = p /\ progress'.spine = s /\ progress'.offset = place'.offset /\ progress'.offset # None
      BY <2>1, <2>4, <2>7, <3>1, <3>4 DEF s, p
    <3>7. progress'.page = PageOf(place'.offset, layout)
      BY <2>4, <3>3, <3>4, <3>6
    <3>8. OnCard'
      BY <1>2, <1>5, <2>4, <3>5, <3>6, <3>7 DEF OnCard
    <3> QED  BY <1>5, <2>4, <2>5, <3>8
  <2> QED  BY <2>6, <2>7
<1> QED  BY <1>1, <1>2, <1>6, <1>7, ClosedPlace

LEMMA PowerLossPlace == ASSUME ReaderOK, PlaceInv, PowerLoss PROVE PlaceInv'
<1>1. /\ open' = FALSE /\ SectionLost /\ FreshRam /\ UNCHANGED <<layout, progress>>
      /\ place' = IF Free /\ place.by = "shown" THEN place ELSE NoPlace
  BY DEF PowerLoss
<1>2. FilesWhole' /\ section' = NoSection
  BY <1>1, PlaceUnfolded, WholeStep, SectionFacts DEF SectionLost
<1>3. place'.by \in {"none", "shown"} /\ (place'.by = "shown" => UNCHANGED place /\ rpc = "idle" /\ mpc = "idle")
  BY <1>1 DEF NoPlace, Free
<1>4. place'.by = "shown" => place'.offset < Length[place'.spine] /\ place'.spine # SpineCount /\ OnCard'
  BY <1>1, <1>3, OnCardStill
<1> QED  BY <1>1, <1>2, <1>3, <1>4, ClosedPlace

LEMMA InitPlace == Init => PlaceInv
<1> SUFFICES ASSUME Init PROVE PlaceInv
  OBVIOUS
<1>1. /\ open = FALSE /\ jump = NoJump /\ cached = [spine |-> 0, count |-> 0, offset |-> None]
      /\ saved = <<>> /\ lastSaved = None /\ rpc = "idle" /\ mpc = "idle" /\ origins = <<>>
      /\ bin = [s \in Spine |-> NoFile] /\ section = NoSection /\ place = NoPlace
  BY DEF Init
<1>2. section.spine = None /\ section.build = None
  BY <1>1, NoSectionFits
<1>3. ~Has /\ ~Finding /\ cached.offset = None /\ place.by = "none"
  BY <1>1, <1>2 DEF Has, Finding, NoPlace
<1>4. FilesWhole
  BY <1>1 DEF FilesWhole, NoFile
<1>5. StackKept
  <2>1. Len(saved) = 0
    BY <1>1
  <2> QED  BY <2>1 DEF StackKept
<1>6. BuildAhead /\ SectionHere /\ JumpsUsed
  BY <1>1, <1>2, <1>3 DEF BuildAhead, SectionHere, JumpsUsed
<1>7. Repositions
  BY <1>1, <1>3 DEF Repositions, OffsetWaits
<1>8. PlaceKnown /\ PageDrawn
  BY <1>1, <1>3 DEF PlaceKnown, PageDrawn, Held
<1>9. ProgressKept
  BY <1>1, <1>3 DEF ProgressKept, LastSavedThere
<1> QED  BY <1>4, <1>5, <1>6, <1>7, <1>8, <1>9 DEF PlaceInv

LEMMA OperationPlace == ASSUME ReaderOK, PlaceInv, Operation PROVE PlaceInv'
BY TurnStartsPlace, SkipForwardPlace, SkipBackPlace, ReturnFromEndOfBookPlace, HrefUnresolvedPlace,
   RestoreSavedPositionPlace,
   DeleteCachePlace, CloseBookPlace, RelayoutPlace, SelectChapterPlace, NavigateToHrefPlace,
   OpenBookmarkPlace, JumpToPercentPlace DEF Operation

LEMMA MainPlace == ASSUME ReaderOK, PlaceInv, Main PROVE PlaceInv'
BY OpenBookPlace, ChangeSettingsPlace, TurnLocksPlace, TurnMovesPlace, ExtendsPartialPlace,
   BackgroundBuildPlace, RepositionPlace, DeleteFinishesPlace, CloseFinishesPlace DEF Main

LEMMA NextPlace == ReaderOK /\ PlaceInv /\ [Next]_vars => PlaceInv'
<1> SUFFICES ASSUME ReaderOK, PlaceInv, [Next]_vars PROVE PlaceInv'
  OBVIOUS
<1>1. ReaderOK'
  BY NextReader
<1>2. CASE Next
  BY <1>1, <1>2, OperationPlace, MainPlace, RenderPlace, PowerLossPlace DEF Next
<1>3. CASE UNCHANGED vars
  <2>1. /\ UNCHANGED <<open, layout, currentSpine, nextPage, cached, jump, saved, lastSaved, pageOffset>>
        /\ UNCHANGED <<rpc, goal, mpc, progress, saving, origins, place, bin, section>>
    BY <1>3 DEF vars, position, memory, cards, history, control, sections
  <2>2. FilesWhole' /\ BuildAhead' /\ StackKept'
    BY <2>1, PlaceUnfolded, Frames
  <2>3. CoversTarget' = CoversTarget /\ WholeOnCard' = WholeOnCard
    BY <2>1 DEF CoversTarget, WholeOnCard, Target, IsPartial, AnchorOnCard
  <2>4. SectionHere' /\ JumpsUsed'
    BY <2>1, <2>3, PlaceUnfolded DEF SectionHere, JumpsUsed, Has, Finding, Here
  <2>5. Repositions'
    BY <2>1, PlaceUnfolded DEF Repositions, OffsetWaits, Has, Finding, OffsetJump
  <2>6. Has' = Has /\ Finding' = Finding /\ Held' = Held /\ cp' = cp
    BY <2>1 DEF Has, Finding, Held, cp
  <2>7. Leads => Leads'
    <3>1. (ByOffset => ByOffset') /\ (ByEnd => ByEnd') /\ (ByAnchor => ByAnchor') /\ (ByMark => ByMark')
      BY <2>1, <2>6 DEF ByOffset, ByEnd, ByAnchor, ByMark, Undisturbed
    <3>2. ByPage => ByPage'
      BY <2>1 DEF ByPage, Hits, Undisturbed
    <3> QED  BY <2>1, <3>1, <3>2 DEF Leads
  <2>8. Shows => Shows'
    BY <2>1 DEF Shows, Hits, Undisturbed, cp
  <2>9. OnCard => OnCard'
    BY <2>1 DEF OnCard, Hits, Has
  <2>10. PlaceKnown'
    BY <2>1, <2>6, <2>7, <2>8, PlaceUnfolded DEF PlaceKnown
  <2>11. PageDrawn'
    BY <2>1, <2>6, PlaceUnfolded DEF PageDrawn, Here
  <2>12. ProgressKept'
    BY <2>1, <2>6, <2>9, PlaceUnfolded DEF ProgressKept, LastSavedThere
  <2> QED  BY <2>2, <2>4, <2>5, <2>10, <2>11, <2>12, PlaceFolded
<1> QED  BY <1>2, <1>3

LEMMA PlaceInvariant == Spec => [](ReaderOK /\ PlaceInv)
<1>1. Init => ReaderOK /\ PlaceInv
  BY InitReader, InitPlace
<1>2. (ReaderOK /\ PlaceInv) /\ [Next]_vars => (ReaderOK /\ PlaceInv)'
  BY NextReader, NextPlace
<1> QED  BY <1>1, <1>2, PTL DEF Spec

\* renderBook(): the page drawn after a turn, a link, a bookmark, a chapter, a change of layout, opening
\* the book again or a loss of power is the page of the place the reader was sent to or had left.
THEOREM ReadersKeepTheirPlace == Spec => KeepsPlace
<1>1. ReaderOK /\ PlaceInv => (Draw /\ place.by \in {"promised", "shown"} => OnPage(place))
  BY DrawsThePlace
<1>2. ReaderOK /\ PlaceInv => [Draw /\ place.by \in {"promised", "shown"} => OnPage(place)]_vars
  BY <1>1
<1> QED  BY <1>2, PlaceInvariant, PTL DEF Spec, KeepsPlace
=============================================================================
