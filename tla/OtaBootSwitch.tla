---------------------------- MODULE OtaBootSwitch ----------------------------
(***************************************************************************)
(* The boot selection (otadata): two slots in flash, each naming one of    *)
(* the two application partitions by a sequence number.  Operators only;   *)
(* FirmwareUpdate performs the steps of switchTo() and may be interrupted  *)
(* between them.  (src/network/OtaBootSwitch.cpp)                          *)
(***************************************************************************)
EXTENDS Integers

Partition == 0 .. 1   \* ota_0 and ota_1
Slot == 0 .. 1        \* the two sectors of otadata

\* "torn" stands for contents whose CRC does not match, "new" for every state the
\* bootloader starts from, "invalid" for INVALID and ABORTED.
NoEntry == [ota_seq : {0}, ota_state : {"erased", "torn"}]
SelectEntry(maxSeq) == NoEntry \cup [ota_seq : 1 .. maxSeq, ota_state : {"new", "invalid"}]

ErasedEntry == [ota_seq |-> 0, ota_state |-> "erased"]
TornEntry == [ota_seq |-> 0, ota_state |-> "torn"]

Eligible(entry) == entry.ota_state = "new"

\* The eligible slot with the highest sequence number, the first of equals; -1 if none.
ActiveIdx(otadata) ==
    IF Eligible(otadata[0]) /\ (Eligible(otadata[1]) => otadata[0].ota_seq >= otadata[1].ota_seq)
    THEN 0
    ELSE IF Eligible(otadata[1]) THEN 1 ELSE -1

ActiveSeq(otadata) == IF ActiveIdx(otadata) = -1 THEN 0 ELSE otadata[ActiveIdx(otadata)].ota_seq

NewSeqOfNext(otadata, dest) == ActiveSeq(otadata) + 1   \* faulty: assumes dest is the other one

\* The smallest sequence number above the active one that names dest.
NewSeq(otadata, dest) ==
    LET s == ActiveSeq(otadata) + 1 IN IF (s - 1) % 2 = dest THEN s ELSE s + 1

TargetSlot(otadata) == IF ActiveIdx(otadata) = 0 THEN 1 ELSE 0

\* The partition the bootloader is told to start; ota_0 when nothing is recorded.
Selected(otadata) == IF ActiveIdx(otadata) = -1 THEN 0 ELSE (ActiveSeq(otadata) - 1) % 2
=============================================================================
