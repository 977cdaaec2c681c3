---------------------------- MODULE FirmwareUpdate ----------------------------
(***************************************************************************)
(* Updating the firmware, from the SD card (SdFirmwareUpdateActivity,      *)
(* FirmwareFlasher) or over the air (OtaUpdater), with the power failing   *)
(* between any two steps.  The partition that does not run is erased and   *)
(* written piece by piece, and then the boot selection is rewritten.       *)
(*                                                                         *)
(* Images are model values; a partition holds one piece of an image per    *)
(* place.  The bootloader (external) starts the partition the selection    *)
(* names and, if it does not verify, the other one.                        *)
(***************************************************************************)
EXTENDS OtaBootSwitch

CONSTANTS
    Image,       \* the files a card or a release may hold
    Good,        \* complete and made for this board (or untagged)
    Foreign,     \* complete, with the tag of another board; the rest are damaged
    Size,        \* Size[i]: the pieces of image i
    PartSize,    \* pieces in a partition
    EraseBlock,  \* pieces erased at once (BLK)
    MaxSeq,      \* bound on ota_seq; the code's is 2^32 - 2
    Erased,      \* the contents of an erased piece
    Garbage,     \* the contents of a piece written in part or over another
    NoImage      \* no file on the card, nothing opened

ASSUME ImageAssumption ==
    /\ Good \subseteq Image /\ Foreign \subseteq Image /\ Good \cap Foreign = {}
    /\ {Erased, Garbage, NoImage} \cap Image = {}
    /\ Erased # Garbage /\ Erased # NoImage /\ Garbage # NoImage
ASSUME SizeAssumption ==
    /\ Size \in [Image -> Nat \ {0}]
    /\ PartSize \in Nat \ {0} /\ EraseBlock \in Nat \ {0} /\ MaxSeq \in Nat

VARIABLES
    part,          \* part[p]: the contents of partition p, piece by piece
    otadata,       \* the two boot-selection slots
    running,       \* the partition the device runs from
    activity,      \* the update activity on the screen: "sd", "ota" or "other"
    state,         \* its State
    over,          \* what SdFirmwareUpdateActivity has pushed over itself
    recoveryMode,  \* booted to update, with nothing else started
    pc,            \* where the main task is in an update; "idle" outside
    file,          \* what is being written: the file opened, or the release streamed
    streamPos, erasedUpto,   \* counted in pieces
    next           \* switchTo()'s slot to write and entry to write to it

flashVars == <<part, otadata, running>>
screenVars == <<activity, state, over, recoveryMode>>
writeVars == <<file, streamPos, erasedUpto>>
vars == <<flashVars, screenVars, pc, writeVars, next>>

Piece == 0 .. PartSize - 1

\* What the bootloader's verification accepts; it does not know board tags.
Holds(p, i) == Size[i] <= PartSize /\ \A k \in 0 .. Size[i] - 1 : part[p][k] = i
Bootable(p) == \E i \in Good \cup Foreign : Holds(p, i)
BootPartition == LET p == Selected(otadata) IN IF Bootable(p) THEN p ELSE 1 - p

DestUnselected == 1 - Selected(otadata)   \* faulty: the one that is not selected

\* esp_ota_get_next_update_partition(): the one that does not run.
Dest == 1 - running

IsBootable(i) == i \in Good \cup Foreign /\ Size[i] <= PartSize   \* faulty: board tag not looked at

\* validateImageFile() accepts image i.
IsValid(i) == i \in Good /\ Size[i] <= PartSize

\* The card is removable: each time it is read there may be another image, or none,
\* under firmwarePath.  While a file stays open a removed card only fails the reads.
OnCard == Image \cup {NoImage}

TypeOK ==
    /\ part \in [Partition -> [Piece -> Image \cup {Erased, Garbage}]]
    /\ otadata \in [Slot -> SelectEntry(MaxSeq)]
    /\ running \in Partition
    /\ activity \in {"other", "sd", "ota"}
    /\ state \in {"none", "PICKING", "VALIDATING", "CONFIRMING", "UPDATING", "SUCCESS", "FAILED"}
    /\ over \in {"none", "pending", "picker", "prompt", "panel"}
    /\ recoveryMode \in BOOLEAN
    /\ pc \in {"idle", "validate", "install", "flash", "verify", "switch", "erasing", "erased",
              "writing", "restart"}
    /\ file \in Image \cup {NoImage}
    /\ streamPos \in 0 .. PartSize /\ erasedUpto \in 0 .. PartSize
    /\ next \in [slot : Slot, ota_seq : 0 .. MaxSeq]

-----------------------------------------------------------------------------
NothingNext == [slot |-> 0, ota_seq |-> 0]

\* Any boot selection under which the bootloader came to start a good image.
Init ==
    /\ running \in Partition
    /\ \E i \in Good : /\ Size[i] <= PartSize
                       /\ \E left \in Good \cup Foreign \cup {Garbage} :
                            part = [p \in Partition |-> [k \in Piece |->
                                      IF p = running /\ k < Size[i] THEN i ELSE left]]
    /\ otadata \in [Slot -> SelectEntry(MaxSeq)]
    /\ BootPartition = running
    /\ activity = "other" /\ state = "none" /\ over = "none" /\ recoveryMode = FALSE
    /\ pc = "idle"
    /\ file = NoImage /\ streamPos = 0 /\ erasedUpto = 0 /\ next = NothingNext

-----------------------------------------------------------------------------
(* Power loss and restarts: RAM is lost, the bootloader chooses.           *)

\* The locals of the functions that write an image are gone.
Return ==
    /\ pc' = "idle"
    /\ file' = NoImage /\ streamPos' = 0 /\ erasedUpto' = 0 /\ next' = NothingNext

Reset(recovery) ==
    /\ running' = BootPartition
    /\ recoveryMode' = recovery
    /\ activity' = IF recovery THEN "sd" ELSE "other"
    /\ state' = IF recovery THEN "PICKING" ELSE "none"
    /\ over' = IF recovery THEN "pending" ELSE "none"
    /\ Return
    /\ UNCHANGED <<part, otadata>>

PowerLoss == \E recovery \in BOOLEAN : Reset(recovery)

\* ESP.restart() once an update is complete.
RestartAfterUpdate == pc = "restart" /\ Reset(FALSE)

\* OtaUpdateActivity::onExit() with the WiFi still on: silentRestart(), where there is no touch screen.
OtaFailureDismissed == pc = "idle" /\ activity = "ota" /\ state = "FAILED" /\ Reset(FALSE)

-----------------------------------------------------------------------------
(* The activities.                                                         *)

Screen(a, s, o) == activity' = a /\ state' = s /\ over' = o

Idle == pc = "idle" /\ UNCHANGED <<flashVars, writeVars, next>>

OpenSdUpdate ==
    /\ Idle /\ activity = "other"
    /\ Screen("sd", "PICKING", "picker")
    /\ UNCHANGED <<pc, recoveryMode>>

\* The picker launched by onEnter() in setup() is installed by the first loop().
PickerAppears ==
    /\ Idle /\ over = "pending"
    /\ over' = "picker"
    /\ UNCHANGED <<pc, activity, state, recoveryMode>>

PickerCancelled ==
    /\ Idle /\ over = "picker"
    /\ IF recoveryMode THEN Screen("sd", state, "picker") ELSE Screen("other", "none", "none")
    /\ UNCHANGED <<pc, recoveryMode>>

FirmwarePicked ==
    /\ Idle /\ over = "picker"
    /\ Screen("sd", "VALIDATING", "none")
    /\ pc' = "validate"
    /\ UNCHANGED <<recoveryMode>>

ValidateFirmware ==
    /\ pc = "validate"
    /\ \E image \in OnCard :
         IF IsValid(image) THEN Screen("sd", "CONFIRMING", "prompt") ELSE Screen("sd", "FAILED", "none")
    /\ pc' = "idle"
    /\ UNCHANGED <<flashVars, writeVars, next, recoveryMode>>

ConfirmationCancelled ==
    /\ Idle /\ over = "prompt"
    /\ IF recoveryMode THEN Screen("sd", state, "picker") ELSE Screen("other", "none", "none")
    /\ UNCHANGED <<pc, recoveryMode>>

UpdateConfirmed ==
    /\ Idle /\ over = "prompt"
    /\ Screen("sd", "UPDATING", "none")
    /\ pc' = "install"
    /\ UNCHANGED <<recoveryMode>>

FailureDismissed ==
    /\ Idle /\ activity = "sd" /\ state = "FAILED"
    /\ IF recoveryMode THEN Screen("sd", "PICKING", "picker") ELSE Screen("other", "none", "none")
    /\ UNCHANGED <<pc, recoveryMode>>

\* silentRestart() on a touch board: the WiFi is switched off and nothing restarts.
OtaFailureLeft ==
    /\ Idle /\ activity = "ota" /\ state = "FAILED"
    /\ Screen("other", "none", "none")
    /\ UNCHANGED <<pc, recoveryMode>>

\* ActivityManager's gestures; the main task sees them only between updates.
HomeGesture ==
    /\ Idle /\ activity = "sd"
    /\ Screen("other", "none", "none")
    /\ UNCHANGED <<pc, recoveryMode>>

\* Before the first loop() the panel takes the place of the pending picker.
LightPanelGesture ==
    /\ Idle /\ over = "pending"
    /\ over' = "panel"
    /\ UNCHANGED <<pc, activity, state, recoveryMode>>

LightPanelCloses ==
    /\ Idle /\ over = "panel"
    /\ over' = "none"
    /\ UNCHANGED <<pc, activity, state, recoveryMode>>

-----------------------------------------------------------------------------
(* Writing the image.                                                      *)

Starts(image) == file' = image /\ streamPos' = 0

\* Faulty: alreadyValidated, though the card may have been changed since.
FlashUnchecked ==
    /\ pc = "install"
    /\ \E image \in Image : Size[image] <= PartSize /\ Starts(image)
    /\ erasedUpto' = 0
    /\ pc' = "flash"
    /\ UNCHANGED <<flashVars, screenVars, next>>

\* flashFromSdPath() checks the file again and opens it.
FlashFromSdPath ==
    /\ pc = "install"
    /\ \E image \in OnCard : IsValid(image) /\ Starts(image)
    /\ erasedUpto' = 0
    /\ pc' = "flash"
    /\ UNCHANGED <<flashVars, screenVars, next>>

Filled(lo, hi, v) ==
    [part EXCEPT ![Dest] = [k \in Piece |-> IF lo <= k /\ k < hi THEN v ELSE part[Dest][k]]]

\* installUpdate(): esp_ota_begin() erases the whole partition, then the release streams in.
InstallUpdate ==
    /\ pc = "idle" /\ activity = "other"
    /\ Screen("ota", "UPDATING", "none")
    /\ \E image \in Image : Starts(image)
    /\ part' = Filled(0, PartSize, Erased)
    /\ erasedUpto' = PartSize
    /\ pc' = "flash"
    /\ UNCHANGED <<otadata, running, recoveryMode, next>>

EraseEndUnclamped == streamPos + EraseBlock   \* faulty: runs past the partition

EraseEnd == IF streamPos + EraseBlock < PartSize THEN streamPos + EraseBlock ELSE PartSize

EraseAhead ==
    /\ pc = "flash" /\ streamPos < Size[file] /\ streamPos >= erasedUpto
    /\ erasedUpto' = EraseEnd
    /\ part' = Filled(streamPos, EraseEnd, Erased)
    /\ UNCHANGED <<otadata, running, screenVars, pc, file, streamPos, next>>

\* A foreign image is met with its tag before its last piece is written.
TagSeen == activity = "ota" /\ file \in Foreign /\ streamPos = Size[file] - 1

WriteChunk ==
    /\ pc = "flash" /\ streamPos < Size[file] /\ streamPos < erasedUpto
    /\ ~TagSeen
    /\ part' = Filled(streamPos, streamPos + 1,
                      IF part[Dest][streamPos] = Erased THEN file ELSE Garbage)
    /\ streamPos' = streamPos + 1
    /\ UNCHANGED <<otadata, running, screenVars, pc, file, erasedUpto, next>>

StreamEnds ==
    /\ pc = "flash" /\ streamPos >= Size[file]
    /\ pc' = IF activity = "ota" THEN "verify" ELSE "switch"
    /\ UNCHANGED <<flashVars, screenVars, writeVars, next>>

\* esp_ota_end() verifies what was written; it may also refuse a good image.
ImageVerifies ==
    /\ pc = "verify" /\ Bootable(Dest)
    /\ pc' = "switch"
    /\ UNCHANGED <<flashVars, screenVars, writeVars, next>>

ImageRefused ==
    /\ pc = "verify"
    /\ Screen("ota", "FAILED", "none")
    /\ Return
    /\ UNCHANGED <<flashVars, recoveryMode>>

\* An operation on the file, the stream, the partition or otadata returns an error.
InstallFails ==
    /\ pc \in {"install", "flash", "switch", "erasing", "erased", "writing"}
    /\ Screen(activity, "FAILED", "none")
    /\ Return
    /\ part' \in IF pc = "flash" /\ streamPos < Size[file] /\ streamPos < erasedUpto
                 THEN {part, Filled(streamPos, streamPos + 1, Garbage)} ELSE {part}
    /\ UNCHANGED <<otadata, running, recoveryMode>>

-----------------------------------------------------------------------------
(* switchTo(): the slot is torn while it is being erased or written.       *)

SetSlot(slot, entry) == otadata' = [otadata EXCEPT ![slot] = entry]

SwitchReads ==
    /\ pc = "switch"
    /\ NewSeq(otadata, Dest) <= MaxSeq
    /\ next' = [slot |-> TargetSlot(otadata), ota_seq |-> NewSeq(otadata, Dest)]
    /\ SetSlot(TargetSlot(otadata), TornEntry)
    /\ pc' = "erasing"
    /\ UNCHANGED <<part, running, screenVars, writeVars>>

SwitchErased ==
    /\ pc = "erasing"
    /\ SetSlot(next.slot, ErasedEntry)
    /\ pc' = "erased"
    /\ UNCHANGED <<part, running, screenVars, writeVars, next>>

SwitchWrites ==
    /\ pc = "erased"
    /\ SetSlot(next.slot, TornEntry)
    /\ pc' = "writing"
    /\ UNCHANGED <<part, running, screenVars, writeVars, next>>

SwitchWritten ==
    /\ pc = "writing"
    /\ SetSlot(next.slot, [ota_seq |-> next.ota_seq, ota_state |-> "new"])
    /\ pc' = "restart"
    /\ Screen(activity, "SUCCESS", "none")
    /\ UNCHANGED <<part, running, recoveryMode, writeVars, next>>

Switch == SwitchReads \/ SwitchErased \/ SwitchWrites \/ SwitchWritten

-----------------------------------------------------------------------------
Screens ==
    \/ OpenSdUpdate \/ PickerAppears \/ PickerCancelled \/ FirmwarePicked \/ ValidateFirmware
    \/ ConfirmationCancelled \/ UpdateConfirmed \/ FailureDismissed \/ OtaFailureLeft
    \/ HomeGesture \/ LightPanelGesture \/ LightPanelCloses

Install ==
    \/ FlashFromSdPath \/ InstallUpdate \/ EraseAhead \/ WriteChunk \/ StreamEnds
    \/ ImageVerifies \/ ImageRefused \/ InstallFails

Next == PowerLoss \/ RestartAfterUpdate \/ OtaFailureDismissed \/ Screens \/ Install \/ Switch

Spec == Init /\ [][Next]_vars

-----------------------------------------------------------------------------
(* Properties                                                              *)

\* Were the power to fail now, the bootloader would find an image that verifies:
\* flashFromSdPath() and switchTo() may be cut short anywhere.
AlwaysBootable == Bootable(BootPartition)

\* The image it would start was made for this board, whatever is put on the card
\* between the user's confirmation and the write, and whatever a release holds.
BootsOwnBoard == \A i \in Foreign : ~Holds(BootPartition, i)

\* "Update complete" is shown only when the next start runs the new image: the new
\* entry outranks the other one and names the partition that was written.
SuccessBootsNewImage == state = "SUCCESS" => BootPartition = Dest /\ Holds(Dest, file)

\* The image that would start changes in one step, to the image being installed, and
\* the running one only by a restart.
BootImage == part[BootPartition][0]
RunningImage == part[running][0]
Installing == pc \in {"flash", "verify", "switch", "erasing", "erased", "writing"}
OfferedImage == IF Installing /\ BootPartition = running THEN file ELSE NoImage

Atomic == INSTANCE AtomicUpdate WITH
    installed <- BootImage, current <- RunningImage, offered <- OfferedImage, Offerable <- Image
ImplementsAtomicUpdate == Atomic!Spec
=============================================================================
