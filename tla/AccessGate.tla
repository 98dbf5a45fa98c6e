---------------------------- MODULE AccessGate ----------------------------
(***************************************************************************)
(* What the host promises its owner about access, with nothing of how it   *)
(* keeps the promise: one device at a time uses the Mac, it is let in only *)
(* when it is on the list or being put there by an approval, the next one  *)
(* only when the previous one has left, and a device taken off the list    *)
(* while it uses the Mac is put out.                                       *)
(***************************************************************************)
CONSTANTS Device, NoDevice

VARIABLES
    allowed,    \* devices on the list
    using       \* the device that was let in, NoDevice if none

vars == <<allowed, using>>

TypeOK == allowed \subseteq Device /\ using \in Device \cup {NoDevice}

Init == allowed \in SUBSET Device /\ using = NoDevice

Enter(d) ==
    /\ using = NoDevice /\ d \in allowed
    /\ using' = d
    /\ UNCHANGED allowed

Approve(d) ==
    /\ using = NoDevice /\ d \notin allowed
    /\ using' = d
    /\ allowed' = allowed \cup {d}

Remove(d) ==
    /\ d \in allowed
    /\ allowed' = allowed \ {d}
    /\ UNCHANGED using

Leave ==
    /\ using # NoDevice
    /\ using' = NoDevice
    /\ UNCHANGED allowed

\* The device in use is not on the list any more.
Evict == using \notin allowed /\ Leave

Next == Leave \/ \E d \in Device : Enter(d) \/ Approve(d) \/ Remove(d)

Spec == Init /\ [][Next]_vars
FairSpec == Spec /\ WF_vars(Evict)
=============================================================================
