----------------------------- MODULE PrintStore -----------------------------
(***************************************************************************)
(* What the sensor's storage promises whoever uses it: the prints on the   *)
(* chip belong to the pairing in force.  A new pairing starts from an      *)
(* empty chip, a print is added only under the pairing in force, and       *)
(* forgetting a pairing may lose prints but never adds or changes one.     *)
(* Metallica's operations implement this at every command, whatever is     *)
(* lost or interrupted.                                                    *)
(***************************************************************************)
EXTENDS Naturals

CONSTANTS Owners, NoOwner, Users, Fingers

VARIABLES owner,    \* the identity stored on the chip, or NoOwner
          prints    \* the stored prints, each with the pairing it was made under

StoredPrint == [user : Users, finger : Fingers, owner : Owners]

Init == owner = NoOwner /\ prints = {}

\* Erasing the identity, or some of what it leaves behind.
Forget == owner' = NoOwner /\ prints' \in SUBSET prints

\* A pairing completes on a chip that holds no print.
Adopt(o) == owner = NoOwner /\ prints = {} /\ owner' = o /\ UNCHANGED prints

Enrol(p) == owner # NoOwner /\ p.owner = owner /\ prints' = prints \cup {p} /\ UNCHANGED owner

Remove(u) ==
    /\ owner # NoOwner
    /\ prints' = {p \in prints : p.user # u} /\ UNCHANGED owner

Next ==
    \/ Forget
    \/ \E o \in Owners : Adopt(o)
    \/ \E p \in StoredPrint : Enrol(p)
    \/ \E u \in Users : Remove(u)

Spec == Init /\ [][Next]_<<owner, prints>>
=============================================================================
