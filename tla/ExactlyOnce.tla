----------------------------- MODULE ExactlyOnce -----------------------------
(***************************************************************************)
(* What a create form promises its user: however often it is submitted, it *)
(* posts one document, and a confirmation names a document that is posted. *)
(***************************************************************************)
EXTENDS Sequences

CONSTANTS Form

VARIABLES
    posted,     \* the forms whose document is committed, in commit order
    confirmed   \* the forms that showed a confirmation

Init == posted = <<>> /\ confirmed = {}

Done == {posted[n] : n \in DOMAIN posted}

Post(f) ==
    /\ f \notin Done
    /\ posted' = Append(posted, f)
    /\ UNCHANGED confirmed

Confirm(f) ==
    /\ f \in Done
    /\ confirmed' = confirmed \cup {f}
    /\ UNCHANGED posted

Next == \E f \in Form : Post(f) \/ Confirm(f)

Spec == Init /\ [][Next]_<<posted, confirmed>>
==============================================================================
