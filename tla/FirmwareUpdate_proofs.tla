------------------------ MODULE FirmwareUpdate_proofs ------------------------
(***************************************************************************)
(* A firmware update interrupted anywhere leaves a device that starts, for *)
(* every set of images, every partition and erase-block size.  The running *)
(* partition is never touched; the other one may only be started when its  *)
(* contents are a complete image of this board.                            *)
(***************************************************************************)
EXTENDS FirmwareUpdate, TLAPS

\* The running partition holds a good image.
RunningIsGood == \E i \in Good : Holds(running, i)

\* Should the selection name the other partition, no foreign image is there.
SelectedIsOwn == Selected(otadata) = Dest => \A i \in Foreign : ~Holds(Dest, i)

\* While an image is written, what is before streamPos is the file and what is up to
\* erasedUpto is erased; a foreign image never gets to its last piece.
Written ==
    pc \in {"flash", "verify"} =>
      /\ file \in Image
      /\ activity = "sd" => file \in Good /\ Size[file] <= PartSize
      /\ activity = "ota" => erasedUpto = PartSize
      /\ activity \in {"sd", "ota"} /\ (pc = "verify" => activity = "ota" /\ streamPos >= Size[file])
      /\ file \in Foreign => streamPos < Size[file]
      /\ \A k \in Piece : /\ k < streamPos => part[Dest][k] = file
                          /\ streamPos <= k /\ k < erasedUpto => part[Dest][k] = Erased

\* From the switch on the other partition holds the whole file.
Complete ==
    pc \in {"switch", "erasing", "erased", "writing", "restart"} => file \in Good /\ Holds(Dest, file)

\* During the switch the slot being rewritten does not count, and is the one that
\* switchTo() would choose again.
SlotIsFree ==
    pc \in {"erasing", "erased", "writing"} =>
      /\ next = [slot |-> TargetSlot(otadata), ota_seq |-> NewSeq(otadata, Dest)]
      /\ ~Eligible(otadata[next.slot])
      /\ next.ota_seq > 0

\* A success is followed by nothing but the restart, and the restart finds the new image.
Switched ==
    /\ state = "SUCCESS" => pc = "restart"
    /\ pc = "restart" => Selected(otadata) = Dest

\* flashFromSdPath() is called by SdFirmwareUpdateActivity only.
SdInstalls == pc = "install" => activity = "sd"

IInv ==
    /\ TypeOK
    /\ RunningIsGood /\ SelectedIsOwn
    /\ Written /\ Complete /\ SlotIsFree /\ Switched /\ SdInstalls

USE ImageAssumption, SizeAssumption

-----------------------------------------------------------------------------
(* The boot selection.                                                     *)

OtaData == [Slot -> SelectEntry(MaxSeq)]

\* What an entry is, without the sets it is drawn from.
LEMMA EntryFacts ==
    ASSUME NEW o \in OtaData, NEW s \in Slot
    PROVE  /\ o[s].ota_seq \in Int
           /\ o[s].ota_seq >= 0
           /\ Eligible(o[s]) => o[s].ota_seq > 0
BY SizeAssumption DEF OtaData, SelectEntry, NoEntry, Eligible

\* The active slot is -1, 0 or 1, and an eligible slot is never above the active one.
LEMMA ActiveFacts ==
    ASSUME NEW o \in OtaData
    PROVE  /\ ActiveIdx(o) \in -1 .. 1
           /\ ActiveSeq(o) \in Int /\ ActiveSeq(o) >= 0
           /\ \A s \in Slot : Eligible(o[s]) => ActiveSeq(o) >= o[s].ota_seq
           /\ ActiveIdx(o) # -1 => Eligible(o[ActiveIdx(o)]) /\ ActiveSeq(o) > 0
           /\ ActiveIdx(o) = -1 => ActiveSeq(o) = 0
<1>1. 0 \in Slot /\ 1 \in Slot
  BY DEF Slot
<1>2. /\ o[0].ota_seq \in Int /\ o[0].ota_seq >= 0 /\ (Eligible(o[0]) => o[0].ota_seq > 0)
      /\ o[1].ota_seq \in Int /\ o[1].ota_seq >= 0 /\ (Eligible(o[1]) => o[1].ota_seq > 0)
  BY <1>1, EntryFacts
<1> QED
  BY <1>2 DEF ActiveIdx, ActiveSeq, Slot

\* The bootloader is always told one of the two partitions.
LEMMA SelectedIsPartition == ASSUME NEW o \in OtaData PROVE Selected(o) \in Partition
BY ActiveFacts DEF Selected, Partition

\* switchTo()'s number is above the active one and names the destination.
LEMMA NewSeqNamesDest ==
    ASSUME NEW o \in OtaData, NEW d \in Partition
    PROVE  /\ NewSeq(o, d) \in Int
           /\ NewSeq(o, d) > ActiveSeq(o)
           /\ (NewSeq(o, d) - 1) % 2 = d
BY ActiveFacts DEF NewSeq, Partition

\* Emptying the target slot changes neither the active slot nor the choice of target.
LEMMA TargetIsFree ==
    ASSUME NEW o \in OtaData, NEW e \in NoEntry
    PROVE  LET o2 == [o EXCEPT ![TargetSlot(o)] = e] IN
           /\ o2 \in OtaData
           /\ TargetSlot(o) \in Slot
           /\ TargetSlot(o2) = TargetSlot(o)
           /\ ActiveSeq(o2) = ActiveSeq(o)
           /\ Selected(o2) = Selected(o)
           /\ ~Eligible(o2[TargetSlot(o)])
<1> DEFINE o2 == [o EXCEPT ![TargetSlot(o)] = e]
<1>1. TargetSlot(o) \in Slot
  BY DEF TargetSlot, Slot
<1>2. o2 \in OtaData
  BY <1>1 DEF OtaData, SelectEntry
<1>3. ~Eligible(e)
  BY DEF Eligible, NoEntry
<1>4. o2[TargetSlot(o)] = e /\ \A s \in Slot : s # TargetSlot(o) => o2[s] = o[s]
  BY <1>1 DEF OtaData
<1> HIDE DEF o2
<1>5. ActiveIdx(o2) = ActiveIdx(o) /\ TargetSlot(o2) = TargetSlot(o)
  BY <1>3, <1>4, EntryFacts DEF ActiveIdx, TargetSlot, Slot
<1>6. ActiveIdx(o) # -1 => ActiveIdx(o) \in Slot /\ ActiveIdx(o) # TargetSlot(o)
  BY ActiveFacts DEF TargetSlot, Slot
<1>7. ActiveSeq(o2) = ActiveSeq(o)
  BY <1>4, <1>5, <1>6 DEF ActiveSeq
<1> QED
  BY <1>1, <1>2, <1>3, <1>4, <1>5, <1>7 DEF Selected, o2

\* Writing the new entry there makes the bootloader start the destination.
LEMMA NewEntryIsSelected ==
    ASSUME NEW o \in OtaData, NEW d \in Partition, NewSeq(o, d) <= MaxSeq
    PROVE  LET o2 == [o EXCEPT ![TargetSlot(o)] = [ota_seq |-> NewSeq(o, d), ota_state |-> "new"]]
           IN  o2 \in OtaData /\ Selected(o2) = d
<1> DEFINE e == [ota_seq |-> NewSeq(o, d), ota_state |-> "new"]
           o2 == [o EXCEPT ![TargetSlot(o)] = e]
<1>1. TargetSlot(o) \in Slot
  BY DEF TargetSlot, Slot
<1>2. NewSeq(o, d) \in 1 .. MaxSeq
  BY NewSeqNamesDest, ActiveFacts, SizeAssumption
<1>3. o2 \in OtaData
  BY <1>1, <1>2 DEF OtaData, SelectEntry
<1>4. o2[TargetSlot(o)] = e /\ \A s \in Slot : s # TargetSlot(o) => o2[s] = o[s]
  BY <1>1 DEF OtaData
<1> HIDE DEF o2
<1>5. \A s \in Slot : s # TargetSlot(o) /\ Eligible(o2[s]) => o2[s].ota_seq < NewSeq(o, d)
  BY <1>2, <1>4, ActiveFacts, NewSeqNamesDest, EntryFacts
<1>6. Eligible(o2[TargetSlot(o)]) /\ o2[TargetSlot(o)].ota_seq = NewSeq(o, d)
  BY <1>4 DEF Eligible, e
<1>7. ActiveIdx(o2) = TargetSlot(o)
  <2>1. CASE TargetSlot(o) = 0
    BY <2>1, <1>2, <1>3, <1>5, <1>6, EntryFacts DEF ActiveIdx, Slot
  <2>2. CASE TargetSlot(o) = 1
    BY <2>2, <1>2, <1>3, <1>5, <1>6, EntryFacts DEF ActiveIdx, Slot
  <2> QED
    BY <2>1, <2>2 DEF TargetSlot
<1>8. ActiveSeq(o2) = NewSeq(o, d) /\ ActiveIdx(o2) # -1
  BY <1>1, <1>6, <1>7 DEF ActiveSeq, Slot
<1> QED
  BY <1>3, <1>8, NewSeqNamesDest DEF Selected, o2

-----------------------------------------------------------------------------
(* The partitions.                                                         *)

LEMMA PartitionFacts ==
    ASSUME TypeOK
    PROVE  /\ otadata \in OtaData
           /\ Selected(otadata) \in Partition /\ Dest \in Partition
           /\ Dest # running /\ \A p \in Partition : p \in {running, Dest}
           /\ BootPartition \in Partition
           /\ Selected(otadata) = Dest /\ ~Bootable(Dest) => BootPartition = running
           /\ Bootable(Selected(otadata)) => BootPartition = Selected(otadata)
<1>1. otadata \in OtaData /\ running \in Partition
  BY DEF TypeOK, OtaData
<1>2. Selected(otadata) \in Partition
  BY <1>1, SelectedIsPartition
<1>3. Dest \in Partition /\ Dest # running /\ \A p \in Partition : p \in {running, Dest} /\ 1 - p \in Partition
  BY <1>1 DEF Dest, Partition
<1>4. Selected(otadata) = Dest => 1 - Selected(otadata) = running
  BY <1>1 DEF Dest, Partition
<1>5. BootPartition = IF Bootable(Selected(otadata)) THEN Selected(otadata) ELSE 1 - Selected(otadata)
  BY DEF BootPartition
<1>6. Selected(otadata) = running => 1 - Selected(otadata) = Dest
  BY DEF Dest
<1>7. Bootable(Selected(otadata)) => BootPartition = Selected(otadata)
  BY <1>5
<1> QED
  BY <1>1, <1>2, <1>3, <1>4, <1>5, <1>6, <1>7

\* The first piece tells which image a partition holds.
LEMMA FirstPiece ==
    ASSUME TypeOK, NEW p \in Partition, NEW i \in Image, Holds(p, i)
    PROVE  part[p][0] = i
BY SizeAssumption DEF Holds

\* The image that would start is a good one.
LEMMA BootsGood ==
    ASSUME TypeOK, RunningIsGood, SelectedIsOwn
    PROVE  \E i \in Good : Holds(BootPartition, i)
<1>1. CASE Selected(otadata) = running
  BY <1>1, PartitionFacts DEF RunningIsGood, Bootable
<1>2. CASE Selected(otadata) = Dest /\ Bootable(Dest)
  BY <1>2, PartitionFacts DEF SelectedIsOwn, Bootable
<1>3. CASE Selected(otadata) = Dest /\ ~Bootable(Dest)
  BY <1>3, PartitionFacts DEF RunningIsGood
<1> QED
  BY <1>1, <1>2, <1>3, PartitionFacts

\* Writing to the destination leaves the running partition alone.
LEMMA FilledFacts ==
    ASSUME TypeOK, NEW lo \in Int, NEW hi \in Int, NEW v \in Image \cup {Erased, Garbage},
           part' = Filled(lo, hi, v)
    PROVE  /\ part' \in [Partition -> [Piece -> Image \cup {Erased, Garbage}]]
           /\ part'[running] = part[running]
           /\ \A k \in Piece : part'[Dest][k] = IF lo <= k /\ k < hi THEN v ELSE part[Dest][k]
BY PartitionFacts DEF TypeOK, Filled

\* Steps that touch neither the flash nor the running partition keep what is said of them.
LEMMA SameFlash ==
    ASSUME RunningIsGood, SelectedIsOwn, UNCHANGED flashVars
    PROVE  RunningIsGood' /\ SelectedIsOwn'
BY DEF RunningIsGood, SelectedIsOwn, flashVars, Holds, Dest

-----------------------------------------------------------------------------
(* The invariant holds initially and is preserved, group by group.         *)

LEMMA InitInv == Init => IInv
<1> SUFFICES ASSUME Init PROVE IInv
  OBVIOUS
<1>1. PICK i \in Good, left \in Good \cup Foreign \cup {Garbage} :
        /\ Size[i] <= PartSize
        /\ part = [p \in Partition |-> [k \in Piece |-> IF p = running /\ k < Size[i] THEN i ELSE left]]
  BY DEF Init
<1>2. TypeOK
  <2>1. part \in [Partition -> [Piece -> Image \cup {Erased, Garbage}]]
    BY <1>1, ImageAssumption
  <2>2. next \in [slot : Slot, ota_seq : 0 .. MaxSeq]
    BY SizeAssumption DEF Init, NothingNext, Slot
  <2>3. streamPos \in 0 .. PartSize /\ erasedUpto \in 0 .. PartSize
    BY SizeAssumption DEF Init
  <2>4. /\ otadata \in [Slot -> SelectEntry(MaxSeq)]
        /\ running \in Partition /\ recoveryMode \in BOOLEAN /\ file \in Image \cup {NoImage}
    BY DEF Init
  <2>5. /\ activity = "other" /\ state = "none" /\ over = "none" /\ pc = "idle"
    BY DEF Init
  <2> QED
    BY <2>1, <2>2, <2>3, <2>4, <2>5 DEF TypeOK
<1>3. Holds(running, i)
  BY <1>1, <1>2, ImageAssumption, SizeAssumption DEF Holds, TypeOK, Piece
<1>4. Selected(otadata) = Dest => ~Bootable(Dest)
  BY <1>2, PartitionFacts DEF Init
<1>5. SelectedIsOwn
  BY <1>4 DEF SelectedIsOwn, Bootable
<1> QED
  BY <1>2, <1>3, <1>5 DEF IInv, RunningIsGood, Written, Complete, SlotIsFree, Switched, SdInstalls, Init

\* Outside the writing of an image nothing is said of one.
LEMMA QuietStep ==
    ASSUME IInv, TypeOK', UNCHANGED flashVars,
           pc' \in {"idle", "validate", "install"}, state' # "SUCCESS", SdInstalls'
    PROVE  IInv'
BY SameFlash DEF IInv, Written, Complete, SlotIsFree, Switched

\* Buttons, gestures and the validation before the prompt: no flash is written.
LEMMA ScreenStep == IInv /\ Screens => IInv'
<1> SUFFICES ASSUME IInv, Screens PROVE IInv'
  OBVIOUS
<1> USE DEF Screens, OpenSdUpdate, PickerAppears, PickerCancelled, FirmwarePicked,
     ValidateFirmware, ConfirmationCancelled, UpdateConfirmed, FailureDismissed, OtaFailureLeft, HomeGesture,
     LightPanelGesture, LightPanelCloses
<1>1. /\ UNCHANGED <<flashVars, writeVars, next>>
      /\ pc \in {"idle", "validate"} /\ pc' \in {"idle", "validate", "install"}
  BY DEF Idle
<1>2. /\ activity' \in {"other", "sd", "ota"} /\ recoveryMode' = recoveryMode
      /\ state' \in {"none", "PICKING", "VALIDATING", "CONFIRMING", "UPDATING", "FAILED", state}
      /\ over' \in {"none", "pending", "picker", "prompt", "panel"}
  BY DEF IInv, TypeOK, Screen
<1>3. state # "SUCCESS"
  BY <1>1 DEF IInv, Switched
<1>4. TypeOK'
  BY <1>1, <1>2 DEF IInv, TypeOK, flashVars, writeVars
<1>5. SdInstalls'
  BY DEF SdInstalls, Idle, Screen
<1> QED
  BY <1>1, <1>2, <1>3, <1>4, <1>5, QuietStep

\* Opening the file: nothing has been written yet.
LEMMA OpenStep == IInv /\ FlashFromSdPath => IInv'
<1> SUFFICES ASSUME IInv, FlashFromSdPath PROVE IInv'
  OBVIOUS
<1>1. TypeOK'
  BY DEF IInv, TypeOK, FlashFromSdPath, Starts, IsValid, OnCard, flashVars, screenVars
<1>2. pc = "install" /\ pc' = "flash" /\ state' = state /\ UNCHANGED flashVars /\ activity' = activity
  BY DEF FlashFromSdPath, screenVars
<1>3. activity = "sd"
  BY DEF FlashFromSdPath, IInv, SdInstalls
<1>4. file' \in Good /\ Size'[file'] <= PartSize /\ streamPos' = 0 /\ erasedUpto' = 0
  BY DEF FlashFromSdPath, Starts, IsValid
<1>5. Written'
  BY <1>2, <1>3, <1>4 DEF Written, Piece
<1> QED
  BY <1>1, <1>2, <1>5, SameFlash DEF IInv, Complete, SlotIsFree, Switched, SdInstalls

\* What is known while the image is written: the running partition is another one, and
\* an erased or foreign first piece means that the destination cannot be started.
LEMMA NotYetBootable ==
    ASSUME TypeOK, Written, pc = "flash",
           streamPos < Size[file], streamPos < erasedUpto
    PROVE  ~Bootable(Dest)
<1> SUFFICES ASSUME NEW i \in Good \cup Foreign, Holds(Dest, i) PROVE FALSE
  BY DEF Bootable
<1>1. streamPos \in Piece /\ part[Dest][streamPos] = Erased
  BY DEF TypeOK, Written, Piece
<1>2. i \in Image /\ part[Dest][0] = i
  BY PartitionFacts, FirstPiece
<1>3. streamPos # 0
  BY <1>1, <1>2
<1>4. i = file
  BY <1>2, <1>3 DEF TypeOK, Written, Piece
<1> QED
  BY <1>1, <1>4 DEF Holds, TypeOK

\* esp_ota_begin() erases everything.
LEMMA BeginStep == IInv /\ InstallUpdate => IInv'
<1> SUFFICES ASSUME IInv, InstallUpdate PROVE IInv'
  OBVIOUS
<1>1. PICK image \in Image : Starts(image)
  BY DEF InstallUpdate
<1>2. /\ part' \in [Partition -> [Piece -> Image \cup {Erased, Garbage}]]
      /\ part'[running] = part[running]
      /\ \A k \in Piece : part'[Dest][k] = Erased
  BY FilledFacts DEF IInv, InstallUpdate, Piece
<1>3. /\ pc' = "flash" /\ activity' = "ota" /\ state' = "UPDATING" /\ over' = "none"
      /\ file' = image /\ streamPos' = 0 /\ erasedUpto' = PartSize
      /\ UNCHANGED <<otadata, running, recoveryMode, next>>
  BY <1>1 DEF InstallUpdate, Screen, Starts
<1>4. TypeOK'
  BY <1>2, <1>3 DEF IInv, TypeOK
<1>5. RunningIsGood'
  BY <1>2, <1>3 DEF IInv, RunningIsGood, Holds
<1>6. SelectedIsOwn'
  BY <1>2, <1>3 DEF SelectedIsOwn, Holds, Dest, Piece
<1>7. Written'
  BY <1>2, <1>3 DEF Written, Dest, Piece
<1> QED
  BY <1>3, <1>4, <1>5, <1>6, <1>7 DEF IInv, Complete, SlotIsFree, Switched, SdInstalls

LEMMA EraseStep == IInv /\ EraseAhead => IInv'
<1> SUFFICES ASSUME IInv, EraseAhead PROVE IInv'
  OBVIOUS
<1>1. /\ pc = "flash" /\ streamPos \in Int /\ streamPos >= 0 /\ streamPos < Size[file]
      /\ streamPos >= erasedUpto /\ file \in Image
      /\ EraseEnd \in 0 .. PartSize
      /\ UNCHANGED <<otadata, running, screenVars, pc, file, streamPos, next>>
      /\ erasedUpto' = EraseEnd
  BY DEF IInv, TypeOK, Written, EraseAhead, EraseEnd
<1>2. /\ part' \in [Partition -> [Piece -> Image \cup {Erased, Garbage}]]
      /\ part'[running] = part[running]
      /\ \A k \in Piece : part'[Dest][k] = IF streamPos <= k /\ k < EraseEnd THEN Erased ELSE part[Dest][k]
  BY <1>1, FilledFacts DEF IInv, EraseAhead
<1>3. TypeOK'
  BY <1>1, <1>2 DEF IInv, TypeOK, screenVars
<1>4. RunningIsGood'
  BY <1>1, <1>2 DEF IInv, RunningIsGood, Holds
<1>5. activity = "ota" => streamPos = PartSize
  BY <1>1 DEF IInv, Written, TypeOK
<1>6. Written'
  BY <1>1, <1>2, <1>5 DEF IInv, Written, Dest, Piece, screenVars, EraseEnd
<1>7. SelectedIsOwn'
  <2> SUFFICES ASSUME NEW i \in Foreign, Holds(Dest, i)', Selected(otadata) = Dest PROVE FALSE
    BY <1>1 DEF SelectedIsOwn, Dest
  <2>1. ~Holds(Dest, i) /\ i \in Image
    BY DEF IInv, SelectedIsOwn
  <2>2. /\ 0 \in Piece /\ part'[Dest][0] = i /\ Size[i] <= PartSize
        /\ \A k \in Piece : k < Size[i] => part'[Dest][k] = i
    BY <1>1 DEF Holds, Piece, Dest
  <2>3. CASE activity = "ota"
    BY <1>1, <1>2, <1>5, <2>1, <2>2, <2>3 DEF Holds, Piece
  <2>4. CASE activity = "sd"
    <3>1. file \in Good /\ streamPos \in Piece /\ streamPos < EraseEnd
      BY <1>1, <2>4 DEF IInv, Written, Piece, EraseEnd
    <3>2. CASE streamPos = 0
      BY <1>2, <2>1, <2>2, <3>1, <3>2
    <3>3. CASE streamPos # 0
      <4>1. part'[Dest][0] = file
        <5>1. 0 < streamPos /\ part[Dest][0] = file
          BY <1>1, <2>2, <3>3 DEF IInv, Written
        <5> QED
          BY <1>1, <1>2, <2>2, <5>1
      <4> QED
        BY <2>2, <3>1, <4>1
    <3> QED
      BY <3>2, <3>3
  <2> QED
    BY <1>1, <2>3, <2>4 DEF IInv, Written
<1> QED
  BY <1>1, <1>3, <1>4, <1>6, <1>7 DEF IInv, Complete, SlotIsFree, Switched, SdInstalls, screenVars

LEMMA WriteStep == IInv /\ WriteChunk => IInv'
<1> SUFFICES ASSUME IInv, WriteChunk PROVE IInv'
  OBVIOUS
<1>1. /\ pc = "flash" /\ streamPos \in Piece /\ streamPos < Size[file] /\ streamPos < erasedUpto
      /\ file \in Image /\ part[Dest][streamPos] = Erased
      /\ UNCHANGED <<otadata, running, screenVars, pc, file, erasedUpto, next>>
      /\ streamPos' = streamPos + 1
  BY DEF IInv, TypeOK, Written, WriteChunk, Piece
<1>2. /\ part' \in [Partition -> [Piece -> Image \cup {Erased, Garbage}]]
      /\ part'[running] = part[running]
      /\ \A k \in Piece : part'[Dest][k] = IF k = streamPos THEN file ELSE part[Dest][k]
  BY <1>1, FilledFacts DEF IInv, WriteChunk, Piece
<1>3. TypeOK'
  BY <1>1, <1>2 DEF IInv, TypeOK, screenVars, Piece
<1>4. RunningIsGood'
  BY <1>1, <1>2 DEF IInv, RunningIsGood, Holds
<1>5. file \in Foreign => streamPos + 1 < Size[file]
  BY <1>1 DEF IInv, Written, TypeOK, WriteChunk, TagSeen, Piece
<1>6. Written'
  BY <1>1, <1>2, <1>5 DEF IInv, Written, Dest, Piece, screenVars
<1>7. SelectedIsOwn'
  <2> SUFFICES ASSUME NEW i \in Foreign, Holds(Dest, i)' PROVE FALSE
    BY DEF SelectedIsOwn
  <2>1. \A k \in Piece : k < Size[i] => part'[Dest][k] = i
    BY <1>1 DEF Holds, Piece, Dest
  <2>2. 0 \in Piece /\ part'[Dest][0] = file
    BY <1>1, <1>2 DEF IInv, Written, Piece
  <2>3. i = file
    BY <2>1, <2>2
  <2>4. streamPos + 1 \in Piece
    BY <1>1, <1>5, <2>3 DEF Holds, Piece
  <2>5. activity = "ota"
    BY <1>1, <2>3 DEF IInv, Written
  <2>6. part'[Dest][streamPos + 1] = Erased
    BY <1>1, <1>2, <2>4, <2>5 DEF IInv, Written, Piece
  <2> QED
    BY <1>1, <1>5, <2>1, <2>3, <2>4, <2>6
<1> QED
  BY <1>1, <1>3, <1>4, <1>6, <1>7 DEF IInv, Complete, SlotIsFree, Switched, SdInstalls, screenVars

\* The end of the stream and the verification of what was written.
LEMMA CompleteStep == IInv /\ (StreamEnds \/ ImageVerifies) => IInv'
<1> SUFFICES ASSUME IInv, StreamEnds \/ ImageVerifies PROVE IInv'
  OBVIOUS
<1>1. /\ UNCHANGED <<flashVars, screenVars, writeVars, next>>
      /\ pc \in {"flash", "verify"} /\ pc' \in {"verify", "switch"}
  BY DEF StreamEnds, ImageVerifies
<1>2. streamPos >= Size[file] /\ file \notin Foreign /\ file \in Image
  BY DEF StreamEnds, ImageVerifies, IInv, Written, TypeOK
<1>3. TypeOK'
  BY <1>1 DEF IInv, TypeOK, flashVars, screenVars, writeVars
<1>4. ASSUME pc' = "verify" PROVE Written'
  BY <1>1, <1>2, <1>4 DEF IInv, Written, StreamEnds, ImageVerifies, flashVars, screenVars, writeVars, Dest
<1>5. ASSUME pc' = "switch" PROVE file \in Good /\ Holds(Dest, file)
  <2>1. CASE StreamEnds
    <3>1. file \in Good /\ Size[file] <= PartSize
      BY <1>5, <2>1 DEF StreamEnds, IInv, Written
    <3> QED
      BY <1>2, <2>1, <3>1 DEF StreamEnds, IInv, Written, TypeOK, Holds, Piece
  <2>2. CASE ImageVerifies
    <3>1. PICK i \in Good \cup Foreign : Holds(Dest, i)
      BY <2>2 DEF ImageVerifies, Bootable
    <3>2. part[Dest][0] = i
      BY <3>1, FirstPiece, PartitionFacts DEF IInv
    <3>3. part[Dest][0] = file
      BY <1>2, <2>2 DEF ImageVerifies, IInv, Written, TypeOK, Piece
    <3> QED
      BY <1>2, <3>1, <3>2, <3>3
  <2> QED
    BY <2>1, <2>2
<1>6. Complete'
  BY <1>1, <1>5 DEF Complete, flashVars, writeVars, Holds, Dest
<1>7. RunningIsGood' /\ SelectedIsOwn'
  BY <1>1, SameFlash DEF IInv
<1> QED
  BY <1>1, <1>3, <1>4, <1>6, <1>7 DEF IInv, Written, SlotIsFree, Switched, SdInstalls, screenVars

\* A failure: what has been written stays, the selection is not completed.
LEMMA FailStep == IInv /\ (ImageRefused \/ InstallFails) => IInv'
<1> SUFFICES ASSUME IInv, ImageRefused \/ InstallFails PROVE IInv'
  OBVIOUS
<1>1. /\ UNCHANGED <<otadata, running, recoveryMode>>
      /\ activity' \in {"ota", activity} /\ state' = "FAILED" /\ over' = "none" /\ Return
  BY DEF ImageRefused, InstallFails, Screen, flashVars
<1>2. CASE part' = part
  <2>1. TypeOK'
    BY <1>1, <1>2 DEF IInv, TypeOK, Return, NothingNext, Slot
  <2> QED
    BY <1>1, <1>2, <2>1, QuietStep DEF flashVars, Return, SdInstalls
<1>3. CASE /\ InstallFails /\ pc = "flash" /\ streamPos < Size[file] /\ streamPos < erasedUpto
           /\ part' = Filled(streamPos, streamPos + 1, Garbage)
  <2>1. streamPos \in Piece /\ part[Dest][streamPos] = Erased /\ file \in Image
    BY <1>3 DEF IInv, TypeOK, Written, Piece
  <2>2. /\ part' \in [Partition -> [Piece -> Image \cup {Erased, Garbage}]]
        /\ part'[running] = part[running]
        /\ \A k \in Piece : part'[Dest][k] = IF k = streamPos THEN Garbage ELSE part[Dest][k]
    BY <1>3, <2>1, FilledFacts DEF IInv, Piece
  <2>3. TypeOK'
    BY <1>1, <2>2 DEF IInv, TypeOK, Return, NothingNext, Slot
  <2>4. RunningIsGood'
    BY <1>1, <2>2 DEF IInv, RunningIsGood, Holds
  <2>5. SelectedIsOwn'
    <3> SUFFICES ASSUME NEW i \in Foreign, Holds(Dest, i)' PROVE FALSE
      BY DEF SelectedIsOwn
    <3>1. /\ 0 \in Piece /\ \A k \in Piece : k < Size[i] => part'[Dest][k] = i
          /\ part'[Dest][0] = i /\ i \in Image
      BY <1>1 DEF Holds, Piece, Dest
    <3>2. streamPos # 0
      BY <2>1, <2>2, <3>1
    <3>3. part'[Dest][0] = file
      BY <1>3, <2>1, <2>2, <3>1, <3>2 DEF IInv, Written, TypeOK, Piece
    <3> QED
      BY <1>3, <2>1, <2>2, <3>1, <3>3
  <2> QED
    BY <1>1, <2>3, <2>4, <2>5 DEF IInv, Written, Complete, SlotIsFree, Switched, SdInstalls, Return
<1> QED
  BY <1>2, <1>3 DEF ImageRefused, InstallFails, flashVars

\* As long as switchTo() has not written its entry the selection is what it was; then
\* it is the destination.
LEMMA SwitchSelects ==
    ASSUME IInv, Switch
    PROVE  /\ otadata' \in OtaData
           /\ (SwitchReads \/ SwitchErased \/ SwitchWrites) =>
                /\ Selected(otadata') = Selected(otadata)
                /\ next' = [slot |-> TargetSlot(otadata'), ota_seq |-> NewSeq(otadata', Dest)]
                /\ next'.ota_seq \in 0 .. MaxSeq /\ next'.ota_seq > 0
                /\ ~Eligible(otadata'[next'.slot])
           /\ SwitchWritten => Selected(otadata') = Dest /\ next' = next /\ pc' = "restart"
<1>1. otadata \in OtaData /\ Dest \in Partition
  BY PartitionFacts DEF IInv
<1>2. TornEntry \in NoEntry /\ ErasedEntry \in NoEntry
  BY DEF TornEntry, ErasedEntry, NoEntry
<1>3. Switch => SwitchReads \/ SwitchErased \/ SwitchWrites \/ SwitchWritten
  BY DEF Switch
<1>4. ASSUME SwitchReads \/ SwitchErased \/ SwitchWrites
      PROVE  /\ otadata' \in OtaData /\ Selected(otadata') = Selected(otadata)
             /\ next' = [slot |-> TargetSlot(otadata'), ota_seq |-> NewSeq(otadata', Dest)]
             /\ next'.ota_seq \in 0 .. MaxSeq /\ next'.ota_seq > 0
             /\ ~Eligible(otadata'[next'.slot])
  <2>1. PICK e \in NoEntry : otadata' = [otadata EXCEPT ![TargetSlot(otadata)] = e]
    BY <1>2, <1>4 DEF SwitchReads, SwitchErased, SwitchWrites, SetSlot, IInv, SlotIsFree
  <2>2. /\ otadata' \in OtaData /\ TargetSlot(otadata') = TargetSlot(otadata)
        /\ ActiveSeq(otadata') = ActiveSeq(otadata) /\ Selected(otadata') = Selected(otadata)
        /\ ~Eligible(otadata'[TargetSlot(otadata)])
    BY <1>1, <2>1, TargetIsFree
  <2>3. NewSeq(otadata', Dest) = NewSeq(otadata, Dest)
    BY <2>2 DEF NewSeq
  <2>4. /\ next' = [slot |-> TargetSlot(otadata), ota_seq |-> NewSeq(otadata, Dest)]
        /\ NewSeq(otadata, Dest) <= MaxSeq
    BY <1>4 DEF SwitchReads, SwitchErased, SwitchWrites, IInv, SlotIsFree, TypeOK
  <2>5. NewSeq(otadata, Dest) \in 0 .. MaxSeq /\ NewSeq(otadata, Dest) > 0
    BY <1>1, <2>4, NewSeqNamesDest, ActiveFacts
  <2> QED
    BY <2>2, <2>3, <2>4, <2>5
<1>5. ASSUME SwitchWritten
      PROVE  otadata' \in OtaData /\ Selected(otadata') = Dest /\ next' = next /\ pc' = "restart"
  <2>1. otadata' = [otadata EXCEPT ![TargetSlot(otadata)] =
                      [ota_seq |-> NewSeq(otadata, Dest), ota_state |-> "new"]]
    <3>1. next.slot = TargetSlot(otadata) /\ next.ota_seq = NewSeq(otadata, Dest)
      BY <1>5 DEF SwitchWritten, IInv, SlotIsFree
    <3>2. otadata' = [otadata EXCEPT ![next.slot] = [ota_seq |-> next.ota_seq, ota_state |-> "new"]]
      BY <1>5 DEF SwitchWritten, SetSlot
    <3> QED
      BY <3>1, <3>2
  <2>2. NewSeq(otadata, Dest) <= MaxSeq
    BY <1>5 DEF SwitchWritten, IInv, SlotIsFree, TypeOK
  <2> QED
    BY <1>1, <1>5, <2>1, <2>2, NewEntryIsSelected DEF SwitchWritten
<1> QED
  BY <1>3, <1>4, <1>5

\* The four steps of switchTo().
LEMMA SwitchStep == IInv /\ Switch => IInv'
<1> SUFFICES ASSUME IInv, Switch PROVE IInv'
  OBVIOUS
<1>1. /\ UNCHANGED <<part, running, writeVars>> /\ recoveryMode' = recoveryMode
      /\ activity' = activity /\ over' \in {over, "none"} /\ state' \in {state, "SUCCESS"}
      /\ pc \in {"switch", "erasing", "erased", "writing"}
      /\ pc' \in {"erasing", "erased", "writing", "restart"}
  BY DEF Switch, SwitchReads, SwitchErased, SwitchWrites, SwitchWritten, screenVars, Screen
<1>2. file \in Good /\ Holds(Dest, file) /\ otadata \in OtaData /\ Dest \in Partition
  BY <1>1, PartitionFacts DEF IInv, Complete
<1>3. \A o \in OtaData : TargetSlot(o) \in Slot
  BY DEF TargetSlot, Slot
<1>4. otadata' \in OtaData /\ Selected(otadata') \in {Selected(otadata), Dest}
  BY SwitchSelects DEF Switch
<1>5. TypeOK'
  <2>1. next' \in [slot : Slot, ota_seq : 0 .. MaxSeq]
    BY <1>2, <1>3, <1>4, SwitchSelects DEF Switch, IInv, TypeOK
  <2> QED
    BY <1>1, <1>4, <2>1 DEF IInv, TypeOK, OtaData, writeVars
<1>6. RunningIsGood' /\ Complete'
  BY <1>1, <1>2 DEF IInv, RunningIsGood, Complete, Holds, Dest, writeVars
<1>7. SelectedIsOwn'
  <2>1. Dest' = Dest /\ \A i \in Image : Holds(Dest, i)' = Holds(Dest, i)
    BY <1>1 DEF Dest, Holds
  <2>2. \A i \in Foreign : ~Holds(Dest, i)
    BY <1>2, FirstPiece DEF IInv
  <2> QED
    BY <2>1, <2>2 DEF SelectedIsOwn
<1>8. SlotIsFree'
  BY <1>1, SwitchSelects DEF Switch, SlotIsFree, Dest
<1>9. Switched'
  BY <1>1, SwitchSelects DEF Switch, Switched, IInv, SwitchReads, SwitchErased, SwitchWrites, SwitchWritten,
     screenVars, Dest
<1> QED
  BY <1>1, <1>5, <1>6, <1>7, <1>8, <1>9 DEF IInv, Written, SdInstalls

\* A restart runs what the bootloader finds.
LEMMA ResetStep == IInv /\ (PowerLoss \/ RestartAfterUpdate \/ OtaFailureDismissed) => IInv'
<1> SUFFICES ASSUME IInv, NEW recovery \in BOOLEAN, Reset(recovery) PROVE IInv'
  BY DEF PowerLoss, RestartAfterUpdate, OtaFailureDismissed
<1>1. /\ running' = BootPartition /\ part' = part /\ otadata' = otadata
      /\ activity' \in {"sd", "other"} /\ state' \in {"PICKING", "none"}
      /\ over' \in {"pending", "none"} /\ recoveryMode' \in BOOLEAN /\ Return
  BY DEF Reset
<1>2. TypeOK'
  BY <1>1, PartitionFacts DEF IInv, TypeOK, Return, NothingNext, Slot
<1>3. RunningIsGood'
  BY <1>1, BootsGood DEF IInv, RunningIsGood, Holds
<1>4. SelectedIsOwn'
  <2> SUFFICES ASSUME Selected(otadata) = 1 - BootPartition PROVE ~Bootable(Selected(otadata))
    BY <1>1 DEF SelectedIsOwn, Dest, Bootable, Holds
  <2> QED
    BY PartitionFacts DEF IInv, Partition
<1> QED
  BY <1>1, <1>2, <1>3, <1>4 DEF IInv, Written, Complete, SlotIsFree, Switched, SdInstalls, Return

LEMMA NextInv == IInv /\ [Next]_vars => IInv'
<1> SUFFICES ASSUME IInv, [Next]_vars PROVE IInv'
  OBVIOUS
<1>1. CASE UNCHANGED vars
  BY <1>1 DEF vars, flashVars, screenVars, writeVars, IInv, TypeOK, RunningIsGood, SelectedIsOwn,
     Written, Complete, SlotIsFree, Switched, SdInstalls, Holds, Dest
<1>2. CASE Next
  BY <1>2, ResetStep, ScreenStep, OpenStep, BeginStep, EraseStep, WriteStep, CompleteStep, FailStep,
     SwitchStep DEF Next, Install
<1> QED
  BY <1>1, <1>2

-----------------------------------------------------------------------------
(* The theorems.                                                           *)

\* The inductive invariant: whatever interrupts an update, the running partition is
\* intact, and the selection names the other one only when a complete image of this
\* board (or nothing that starts) is there.
THEOREM UpdateInvariance == Spec => []IInv
BY InitInv, NextInv, PTL DEF Spec

\* flashFromSdPath(), installUpdate() and switchTo() keep every variable in its type.
THEOREM UpdateTypeCorrect == Spec => []TypeOK
<1>1. IInv => TypeOK
  BY DEF IInv
<1> QED
  BY <1>1, UpdateInvariance, PTL

\* Were the power to fail at any moment, the bootloader would find an image that verifies.
THEOREM BootableThroughout == Spec => []AlwaysBootable
<1>1. IInv => AlwaysBootable
  BY BootsGood DEF IInv, AlwaysBootable, Bootable
<1> QED
  BY <1>1, UpdateInvariance, PTL

\* And it is never an image of another board, whatever the card or the release holds.
THEOREM OwnBoardThroughout == Spec => []BootsOwnBoard
<1>1. IInv => BootsOwnBoard
  BY BootsGood, FirstPiece, PartitionFacts DEF IInv, BootsOwnBoard
<1> QED
  BY <1>1, UpdateInvariance, PTL

\* A reported success has selected the new image.
THEOREM SuccessIsReal == Spec => []SuccessBootsNewImage
<1>1. IInv => SuccessBootsNewImage
  BY PartitionFacts DEF IInv, SuccessBootsNewImage, Switched, Complete, Bootable
<1> QED
  BY <1>1, UpdateInvariance, PTL

-----------------------------------------------------------------------------
(* The update is an atomic one: each step maps to one step of AtomicUpdate *)
(* or to none.                                                             *)

\* What the refinement needs to know of the image that would start.
BootSummary ==
    /\ BootImage \in Good /\ RunningImage \in Good
    /\ BootPartition = running \/ BootPartition = Dest
    /\ ~Bootable(Dest) => BootPartition = running
    /\ Selected(otadata) = Dest /\ Bootable(Dest) => BootPartition = Dest
    /\ BootPartition = Dest => Selected(otadata) = Dest
    /\ part[Dest][0] \in {Erased, Garbage} => ~Bootable(Dest)

LEMMA BootFacts == IInv => BootSummary
<1> SUFFICES ASSUME IInv PROVE BootSummary
  OBVIOUS
<1>1. PICK i \in Good : Holds(BootPartition, i)
  BY BootsGood DEF IInv
<1>2. PICK j \in Good : Holds(running, j)
  BY DEF IInv, RunningIsGood
<1>3. BootImage = i /\ RunningImage = j
  BY <1>1, <1>2, FirstPiece, PartitionFacts DEF BootImage, RunningImage, IInv, TypeOK
<1>4. /\ BootPartition = running \/ BootPartition = Dest
      /\ ~Bootable(Dest) => BootPartition = running
      /\ Selected(otadata) = Dest /\ Bootable(Dest) => BootPartition = Dest
      /\ BootPartition = Dest => Selected(otadata) = Dest
  BY <1>2, PartitionFacts DEF IInv, Bootable
<1>5. part[Dest][0] \in {Erased, Garbage} => ~Bootable(Dest)
  BY FirstPiece, PartitionFacts DEF IInv, Bootable
<1> QED
  BY <1>3, <1>4, <1>5 DEF BootSummary

\* While the file is not all there the destination cannot be started.
PartialIsUnbootable ==
    pc = "flash" /\ streamPos < Size[file] /\ (streamPos < erasedUpto \/ streamPos = PartSize)
      => ~Bootable(Dest)

LEMMA PartialFacts == IInv => PartialIsUnbootable
<1> SUFFICES ASSUME IInv, pc = "flash", streamPos < Size[file],
                    streamPos < erasedUpto \/ streamPos = PartSize
             PROVE  ~Bootable(Dest)
  BY DEF PartialIsUnbootable
<1>1. CASE streamPos < erasedUpto
  BY <1>1, NotYetBootable DEF IInv
<1>2. CASE streamPos = PartSize
  <2> SUFFICES ASSUME NEW i \in Good \cup Foreign, Holds(Dest, i) PROVE FALSE
    BY DEF Bootable
  <2>1. i \in Image /\ part[Dest][0] = i
    BY PartitionFacts, FirstPiece DEF IInv
  <2>2. part[Dest][0] = file
    BY <1>2 DEF IInv, Written, Piece
  <2> QED
    BY <1>2, <2>1, <2>2 DEF Holds, IInv, TypeOK
<1> QED
  BY <1>1, <1>2

\* A step that leaves the flash alone can only offer or withdraw an image.
LEMMA QuietRefines ==
    ASSUME IInv, IInv', UNCHANGED flashVars
    PROVE  [Atomic!Next]_Atomic!vars
<1>1. BootImage' = BootImage /\ RunningImage' = RunningImage
  BY DEF flashVars, BootImage, RunningImage, BootPartition, Bootable, Holds
<1>2. OfferedImage' \in Image \cup {NoImage}
  BY DEF OfferedImage, IInv, TypeOK
<1> QED
  BY <1>1, <1>2 DEF Atomic!Next, Atomic!Offer, Atomic!Withdraw

\* So is a step that writes to the destination and leaves nothing there that starts.
LEMMA UnbootableRefines ==
    ASSUME IInv, IInv', UNCHANGED <<otadata, running>>, part'[running] = part[running],
           BootSummary, BootSummary', ~Bootable(Dest)',
           OfferedImage' # NoImage \/ BootPartition = running
    PROVE  [Atomic!Next]_Atomic!vars
<1>1. RunningImage' = RunningImage /\ BootImage' = RunningImage
  BY DEF BootSummary, RunningImage, BootImage
<1>2. OfferedImage' \in Image \cup {NoImage}
  BY DEF OfferedImage, IInv, TypeOK
<1>3. BootPartition = running => BootImage = RunningImage
  BY DEF BootImage, RunningImage
<1> QED
  BY <1>1, <1>2, <1>3 DEF Atomic!Next, Atomic!Offer, Atomic!Withdraw

LEMMA StepRefines == IInv /\ IInv' /\ [Next]_vars => [Atomic!Next]_Atomic!vars
<1> SUFFICES ASSUME IInv, IInv', [Next]_vars PROVE [Atomic!Next]_Atomic!vars
  OBVIOUS
<1>1. BootSummary /\ PartialIsUnbootable
  BY BootFacts, PartialFacts
<1>2. BootSummary' /\ PartialIsUnbootable'
  <2>1. (IInv => BootSummary)'
    BY BootFacts, PTL
  <2>2. (IInv => PartialIsUnbootable)'
    BY PartialFacts, PTL
  <2> QED
    BY <2>1, <2>2
<1>3. CASE UNCHANGED flashVars
  BY <1>3, QuietRefines
<1>4. CASE PowerLoss \/ RestartAfterUpdate \/ OtaFailureDismissed
  <2>1. part' = part /\ otadata' = otadata /\ running' = BootPartition /\ pc' = "idle"
    BY <1>4 DEF PowerLoss, RestartAfterUpdate, OtaFailureDismissed, Reset, Return
  <2>2. BootPartition' = BootPartition
    BY <2>1 DEF BootPartition, Bootable, Holds
  <2>3. BootImage' = BootImage /\ RunningImage' = BootImage /\ OfferedImage' = NoImage
    BY <2>1, <2>2 DEF BootImage, RunningImage, OfferedImage, Installing
  <2> QED
    BY <2>3 DEF Atomic!Next, Atomic!Restart
<1>5. CASE InstallUpdate
  <2>1. /\ part'[running] = part[running] /\ UNCHANGED <<otadata, running>>
        /\ part'[Dest][0] = Erased /\ pc' = "flash" /\ file' \in Image
    BY <1>5, FilledFacts, PartitionFacts DEF InstallUpdate, Starts, IInv, Piece
  <2>2. ~Bootable(Dest)'
    BY <1>2, <2>1 DEF BootSummary, Dest
  <2>3. OfferedImage' # NoImage
    BY <1>2, <2>1, <2>2 DEF OfferedImage, Installing, BootSummary
  <2> QED
    BY <1>1, <1>2, <2>1, <2>2, <2>3, UnbootableRefines
<1>6. CASE EraseAhead
  <2>1. /\ pc = "flash" /\ pc' = "flash" /\ file' = file /\ streamPos' = streamPos /\ file \in Image
        /\ UNCHANGED <<otadata, running>> /\ erasedUpto' = EraseEnd /\ streamPos < Size[file]
    BY <1>6 DEF EraseAhead, IInv, Written
  <2>2. part'[running] = part[running]
    BY <1>6, FilledFacts DEF EraseAhead, EraseEnd, IInv, TypeOK
  <2>3. streamPos < EraseEnd \/ streamPos = PartSize
    BY DEF IInv, TypeOK, EraseEnd
  <2>4. ~Bootable(Dest)'
    BY <1>2, <2>1, <2>3 DEF PartialIsUnbootable
  <2>5. OfferedImage' # NoImage
    BY <1>2, <2>1, <2>4 DEF OfferedImage, Installing, BootSummary
  <2> QED
    BY <1>1, <1>2, <2>1, <2>2, <2>4, <2>5, UnbootableRefines
<1>7. CASE WriteChunk
  <2>1. /\ pc = "flash" /\ pc' = "flash" /\ file' = file /\ UNCHANGED <<otadata, running>>
        /\ file \in Image /\ streamPos \in Int /\ streamPos < Size[file] /\ streamPos < erasedUpto
    BY <1>7 DEF WriteChunk, IInv, Written, TypeOK
  <2>2. part'[running] = part[running]
    BY <1>7, <2>1, FilledFacts DEF WriteChunk, IInv
  <2>3. BootPartition = running
    BY <1>1, <2>1 DEF BootSummary, PartialIsUnbootable
  <2>4. RunningImage' = RunningImage /\ BootImage = RunningImage /\ OfferedImage = file
    BY <2>1, <2>2, <2>3 DEF RunningImage, BootImage, OfferedImage, Installing
  <2>5. CASE BootPartition' = running
    BY <1>1, <2>1, <2>2, <2>4, <2>5 DEF BootImage, RunningImage, OfferedImage, Installing, Atomic!vars
  <2>6. CASE BootPartition' = Dest
    <3>1. part'[Dest][0] = file
      <4>1. streamPos' > 0 /\ Dest' = Dest /\ 0 \in Piece
        BY <1>7, <2>1 DEF WriteChunk, IInv, TypeOK, Dest, Piece
      <4> QED
        BY <2>1, <4>1 DEF IInv, Written
    <3>2. BootImage' = file /\ OfferedImage' = NoImage
      BY <2>1, <2>6, <3>1, PartitionFacts DEF BootImage, OfferedImage, IInv
    <3>3. file \in Good
      BY <1>2, <3>2 DEF BootSummary
    <3> QED
      BY <2>4, <3>2, <3>3 DEF Atomic!Next, Atomic!Install
  <2> QED
    BY <1>2, <2>1, <2>5, <2>6 DEF BootSummary, Dest
<1>8. CASE InstallFails
  <2>1. CASE part' = part
    BY <1>8, <2>1, QuietRefines DEF InstallFails, flashVars
  <2>2. CASE /\ pc = "flash" /\ streamPos < Size[file] /\ streamPos < erasedUpto
             /\ part' = Filled(streamPos, streamPos + 1, Garbage)
    <3>1. UNCHANGED <<otadata, running>> /\ streamPos \in Piece
      BY <1>8, <2>2 DEF InstallFails, IInv, TypeOK, Piece
    <3>2. /\ part'[running] = part[running]
          /\ part'[Dest][streamPos] = Garbage
          /\ \A k \in Piece : k # streamPos => part'[Dest][k] = part[Dest][k]
      BY <2>2, <3>1, FilledFacts DEF IInv, Piece
    <3>3. BootPartition = running
      BY <1>1, <2>2 DEF BootSummary, PartialIsUnbootable
    <3>4. ~Bootable(Dest)'
      <4> SUFFICES ASSUME NEW i \in Good \cup Foreign, Holds(Dest, i)' PROVE FALSE
        BY DEF Bootable
      <4>1. /\ 0 \in Piece /\ part'[Dest][0] = i /\ i \in Image
            /\ \A k \in Piece : k < Size[i] => part'[Dest][k] = i
        BY <3>1 DEF Holds, Dest, Piece
      <4>2. streamPos # 0
        BY <3>2, <4>1
      <4>3. part[Dest][0] = file
        BY <2>2, <3>1, <4>1, <4>2 DEF IInv, Written, Piece
      <4> QED
        BY <2>2, <3>1, <3>2, <4>1, <4>2, <4>3
    <3> QED
      BY <1>1, <1>2, <3>1, <3>2, <3>3, <3>4, UnbootableRefines
  <2> QED
    BY <1>8, <2>1, <2>2 DEF InstallFails
<1>9. CASE Switch
  <2>1. /\ UNCHANGED <<part, running, file>> /\ file \in Good /\ Holds(Dest, file)
        /\ pc \in {"switch", "erasing", "erased", "writing"}
    BY <1>9 DEF Switch, SwitchReads, SwitchErased, SwitchWrites, SwitchWritten, writeVars, IInv, Complete
  <2>2. RunningImage' = RunningImage /\ part[Dest][0] = file /\ part'[Dest'][0] = file
    BY <2>1, FirstPiece, PartitionFacts DEF RunningImage, IInv, Dest
  <2>3. BootPartition = Dest => BootImage = file /\ OfferedImage = NoImage
    BY <2>2, PartitionFacts DEF BootImage, OfferedImage, IInv
  <2>4. BootPartition = running => BootImage = RunningImage /\ OfferedImage = file
    BY <2>1 DEF BootImage, RunningImage, OfferedImage, Installing
  <2>5. BootPartition' = Dest' => BootImage' = file /\ OfferedImage' = NoImage
    BY <2>1, <2>2, PartitionFacts DEF BootImage, OfferedImage, IInv, Dest
  <2>6. BootPartition' = running' => BootImage' = RunningImage'
    BY <2>1 DEF BootImage, RunningImage
  <2>7. OfferedImage' \in {file, NoImage}
    BY <2>1 DEF OfferedImage
  <2>8. BootPartition = Dest => BootPartition' = Dest'
    <3>1. Selected(otadata') \in {Selected(otadata), Dest} /\ Dest' = Dest
      BY <1>9, <2>1, SwitchSelects DEF Switch, Dest
    <3>2. Bootable(Dest)'
      BY <2>1 DEF Bootable, Holds, Dest
    <3> QED
      BY <1>1, <1>2, <3>1, <3>2 DEF BootSummary
  <2> QED
    BY <1>1, <1>2, <2>1, <2>2, <2>3, <2>4, <2>5, <2>6, <2>7, <2>8
    DEF BootSummary, Atomic!Next, Atomic!Install, Atomic!Withdraw, Atomic!vars
<1>10. CASE \/ Screens \/ FlashFromSdPath \/ StreamEnds \/ ImageVerifies \/ ImageRefused
            \/ UNCHANGED vars
  <2>1. UNCHANGED flashVars
    BY <1>10 DEF Screens, OpenSdUpdate, PickerAppears, PickerCancelled, FirmwarePicked,
       ValidateFirmware, ConfirmationCancelled, UpdateConfirmed, FailureDismissed, OtaFailureLeft, HomeGesture,
       LightPanelGesture, LightPanelCloses, Idle, FlashFromSdPath, StreamEnds, ImageVerifies,
       ImageRefused, vars
  <2> QED
    BY <1>3, <2>1
<1> QED
  BY <1>4, <1>5, <1>6, <1>7, <1>8, <1>9, <1>10 DEF Next, Install

LEMMA InitRefines == Init => Atomic!Init
<1> SUFFICES ASSUME Init PROVE Atomic!Init
  OBVIOUS
<1>1. BootSummary
  BY InitInv, BootFacts
<1>2. BootImage = RunningImage
  BY DEF Init, BootImage, RunningImage
<1>3. OfferedImage = NoImage
  BY DEF Init, OfferedImage, Installing
<1> QED
  BY <1>1, <1>2, <1>3 DEF BootSummary, Atomic!Init

\* Interrupted anywhere, flashFromSdPath(), installUpdate() and switchTo() change the image
\* that would start in one step, and only to the one being installed.
THEOREM UpdateRefinement == Spec => ImplementsAtomicUpdate
<1>1. Init => Atomic!Init
  BY InitRefines
<1>2. IInv /\ IInv' /\ [Next]_vars => [Atomic!Next]_Atomic!vars
  BY StepRefines
<1> QED
  BY <1>1, <1>2, UpdateInvariance, PTL DEF Spec, ImplementsAtomicUpdate, Atomic!Spec
=============================================================================
