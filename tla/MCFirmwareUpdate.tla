--------------------------- MODULE MCFirmwareUpdate ---------------------------
EXTENDS FirmwareUpdate, TLC
CONSTANTS short, long, big, other, torn

\* A short and a long image for this board, one too big for the partition, one for another board, a damaged one.
Sizes == (short :> 2) @@ (long :> 3) @@ (big :> 4) @@ (other :> 2) @@ (torn :> 2)
=============================================================================
