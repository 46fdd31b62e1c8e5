------------------------- MODULE TransferRefinement -------------------------
(***************************************************************************)
(* What the two sessions and the receiving disk implement, seen from the   *)
(* outside: Delivery, by what is on the disk and what the two users are    *)
(* shown, and Publication, by the names in the receiver's folder.          *)
(***************************************************************************)
EXTENDS TransferDeliveryInv

ShownStatus(p) == IF p = "send" THEN sender.status ELSE receiver.status

DeliveryOf ==
    INSTANCE Delivery WITH
        NumEntries <- NumFiles, Ends <- Sides,
        delivered <- {i \in Files : Delivered(i)},
        claims <- {p \in Sides : ShownStatus(p) = "Completed"}

\* The path itself or one of its renamed copies.
NamesOf == {p \in Name \X Files : p[1][1] = RelPath[p[2]]}

PublicationOf ==
    INSTANCE Publication WITH
        Sources <- Files, Contents <- [i \in Files |-> Copies(i)], Fits <- NamesOf,
        final <- disk.final

\* The transfer delivers the manifest in its order and says so only at its end:
\* acknowledgements, the index they are not checked against and the completion
\* work together (TransferSession.cpp:84-100, 435-467, 492-503).  It needs
\* names that are apart and last blocks that arrive on the disk.
ImplementsDelivery == DeliveryOf!Spec

\* Files are published in one step: whatever is cut short, the work goes on
\* under the .partial name until one rename (FileWriter.cpp:152-179), and what
\* appears then is whole but for a last block that flush() has lost.
ImplementsPublication == PublicationOf!Spec
=============================================================================
