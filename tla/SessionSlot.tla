------------------------------ MODULE SessionSlot ------------------------------
(***************************************************************************)
(* What the service promises about the stored session, without requests,   *)
(* calls or failures: there is one slot.  The session of a login enters it *)
(* once at most, so a session that was removed or replaced never returns;  *)
(* the fake settings of test-store may come and go.  Refreshing the stored *)
(* session leaves the slot as it is.                                       *)
(***************************************************************************)
CONSTANTS
    Logins,   \* the logins that may be accepted
    Fake,     \* the payload of test-store
    None      \* the slot is empty

VARIABLES
    slot,     \* the session in the slot, or None
    spent     \* the logins whose session has had its one chance

vars == <<slot, spent>>

TypeOK ==
    /\ slot \in Logins \cup {Fake, None}
    /\ spent \subseteq Logins

Init ==
    /\ slot = None
    /\ spent = {}

\* An accepted login stores its session.
Store(l) ==
    /\ l \in Logins \ spent
    /\ slot' = l
    /\ spent' = spent \cup {l}

\* Accepted logins whose session is never stored: the save failed, or the
\* process died before it.
Waste ==
    /\ spent' \in SUBSET Logins
    /\ spent \subseteq spent'
    /\ UNCHANGED slot

StoreFake ==
    /\ slot' = Fake
    /\ UNCHANGED spent

Remove ==
    /\ slot' = None
    /\ UNCHANGED spent

Next ==
    \/ \E l \in Logins : Store(l)
    \/ Waste
    \/ StoreFake
    \/ Remove

Spec == Init /\ [][Next]_vars
=============================================================================
