------------------------- MODULE MCTransferManager -------------------------
(***************************************************************************)
(* Settings for TLC: the switch the manager itself reads, and the chunk    *)
(* size in MiB, the one setting with bounds (1 to 64).                     *)
(***************************************************************************)
EXTENDS TransferManager

SomeKeys == {"auto_accept", "chunk_size"}
SomeDefaults == [k \in SomeKeys |-> IF k = "auto_accept" THEN FALSE ELSE 8]
SomeOffered == [k \in SomeKeys |-> IF k = "auto_accept" THEN BOOLEAN ELSE {64, 65}]
SomeAcceptable == [k \in SomeKeys |-> IF k = "auto_accept" THEN BOOLEAN ELSE 1..64]
=============================================================================
