------------------------------ MODULE Delivery ------------------------------
(***************************************************************************)
(* What a transfer promises the people at both ends: the entries of the    *)
(* manifest are delivered one at a time and in their order, none is taken  *)
(* back, and nobody is told that the transfer is complete before all are.  *)
(* That word may still be withdrawn, by a cancellation or a crash.         *)
(***************************************************************************)
EXTENDS Naturals

CONSTANTS
    NumEntries,     \* entries of the manifest
    Ends            \* the two ends of the transfer

VARIABLES
    delivered,      \* the entries that are delivered
    claims          \* the ends that show "Completed"

vars == <<delivered, claims>>

Init == delivered = {} /\ claims = {}

Deliver(i) ==
    /\ delivered = 1..(i - 1)
    /\ delivered' = 1..i
    /\ UNCHANGED claims

Claim(p) ==
    /\ delivered = 1..NumEntries
    /\ claims' = claims \cup {p}
    /\ UNCHANGED delivered

Withdraw(p) ==
    /\ claims' = claims \ {p}
    /\ UNCHANGED delivered

Next ==
    \/ \E i \in 1..NumEntries : Deliver(i)
    \/ \E p \in Ends : Claim(p) \/ Withdraw(p)

Spec == Init /\ [][Next]_vars
=============================================================================
