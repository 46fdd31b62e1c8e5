----------------------------- MODULE MCSendLoop -----------------------------
(***************************************************************************)
(* The small manifests for the chunk loop.                                 *)
(***************************************************************************)
EXTENDS SendLoop, MCTransferSession
=============================================================================
