---------------------------- MODULE RequestLife ----------------------------
(***************************************************************************)
(* What the approval service promises about one request to the rest of the *)
(* gateway, seen through two facts anyone can read: the status of the      *)
(* request, and whether a grant has ever been issued for it.               *)
(*                                                                         *)
(* A request ends once.  It ends approved only if a grant exists by then.  *)
(* But a grant may exist without an approved request: finalApprove inserts *)
(* the grant first, and a handler that loses the race for the status has   *)
(* inserted one already.                                                   *)
(***************************************************************************)
VARIABLES
    status,     \* the status of the request; "absent" before it is filed
    granted     \* has a grant been inserted?

Granting == {"approved", "auto_approved"}
Terminal == Granting \cup {"rejected", "cancelled", "expired"}

Init == status = "absent" /\ granted = FALSE

File == status = "absent" /\ status' = "pending" /\ granted' = granted

Issue == status # "absent" /\ granted' = TRUE /\ status' = status

Finish(s) ==
    /\ status = "pending" /\ s \in Terminal
    /\ s \in Granting => granted
    /\ status' = s /\ granted' = granted

Next == File \/ Issue \/ \E s \in Terminal : Finish(s)

Spec == Init /\ [][Next]_<<status, granted>>
=============================================================================
