---------------------------- MODULE Publication ----------------------------
(***************************************************************************)
(* What another program may rely on that watches the folder of a transfer: *)
(* a name appears in one step, with a copy of a source file of that path   *)
(* behind it, and goes in one step, alone or with others.  No name ever    *)
(* stands for a file that is still growing.                                *)
(***************************************************************************)
CONSTANTS
    Sources,        \* the source files
    Contents,       \* the contents each may be published with
    Fits            \* pairs of a name and a source file that may stand under it

VARIABLE final      \* what stands under each name in use

Init == final = [n \in {} |-> <<>>]

\* n is new, or what stood there is replaced.
Publish(i, n) ==
    /\ <<n, i>> \in Fits
    /\ \E c \in Contents[i] :
          final' = [m \in DOMAIN final \cup {n} |-> IF m = n THEN c ELSE final[m]]

Remove(gone) == final' = [m \in DOMAIN final \ gone |-> final[m]]

Next ==
    \/ \E i \in Sources : \E n \in DOMAIN final' : Publish(i, n)
    \/ \E gone \in SUBSET DOMAIN final : Remove(gone)

Spec == Init /\ [][Next]_final
=============================================================================
