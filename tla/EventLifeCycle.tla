---------------------------- MODULE EventLifeCycle ----------------------------
(***************************************************************************)
(* What the platform promises about an event's status (RN22 and RN15): an  *)
(* event is published only by approving a submission, whoever edits a      *)
(* rejected event takes it back to DRAFT, and a cancelled event stays so.  *)
(***************************************************************************)
VARIABLE status   \* Event.status

Status == {"DRAFT", "PENDING_REVIEW", "PUBLISHED", "REJECTED", "CANCELLED"}

Init == status = "DRAFT"

Go(From, to) == status \in From /\ status' = to

Submit == Go({"DRAFT", "REJECTED"}, "PENDING_REVIEW")
Approve == Go({"PENDING_REVIEW"}, "PUBLISHED")
Reject == Go({"PENDING_REVIEW"}, "REJECTED")
Revise == Go({"REJECTED"}, "DRAFT")
Cancel == Go(Status, "CANCELLED")

Next == Submit \/ Approve \/ Reject \/ Revise \/ Cancel

Spec == Init /\ [][Next]_status
=============================================================================
