---------------------------- MODULE Recommendation ----------------------------
(***************************************************************************)
(* What a run of the investigation promises the officers about its         *)
(* recommendation, without saying what it checks or in which order: it is  *)
(* given once and never taken back, above all a hold is never turned into  *)
(* readiness; it is final once it is recorded on the case; and it is       *)
(* announced only after that, the decision first, and the need of a human  *)
(* review only for a case that was put on hold.  A run may stop anywhere.  *)
(*                                                                         *)
(* The detailed module Investigation implements this one.                  *)
(***************************************************************************)

CONSTANTS
  Undecided,   \* no recommendation yet
  Hold,        \* an officer has to look at the case
  Ready,       \* the case may be settled
  Before       \* the status of the case before the run

VARIABLES
  verdict,     \* the recommendation so far
  recorded,    \* whether the run is stored
  status,      \* the status of the case
  announced    \* the events about the outcome in the audit trail

vars == <<verdict, recorded, status, announced>>

Init ==
  /\ verdict = Undecided
  /\ recorded = FALSE
  /\ status = Before
  /\ announced = {}

Recommend ==
  /\ verdict = Undecided /\ ~recorded
  /\ verdict' \in {Hold, Ready}
  /\ UNCHANGED <<recorded, status, announced>>

\* A run without a recommendation leaves the case as it was.
Record ==
  /\ ~recorded
  /\ recorded' = TRUE
  /\ status' = IF verdict = Undecided THEN status ELSE verdict
  /\ UNCHANGED <<verdict, announced>>

AnnounceDecision ==
  /\ recorded /\ announced = {}
  /\ announced' = {"AGENT_DECISION"}
  /\ UNCHANGED <<verdict, recorded, status>>

AnnounceRisk ==
  /\ announced = {"AGENT_DECISION"}
  /\ announced' = announced \union {"RISK_SCORED"}
  /\ UNCHANGED <<verdict, recorded, status>>

AnnounceReview ==
  /\ "AGENT_DECISION" \in announced /\ "HUMAN_REVIEW_REQUIRED" \notin announced
  /\ status = Hold
  /\ announced' = announced \union {"HUMAN_REVIEW_REQUIRED"}
  /\ UNCHANGED <<verdict, recorded, status>>

Next ==
  Recommend \/ Record \/ AnnounceDecision \/ AnnounceRisk \/ AnnounceReview

Spec == Init /\ [][Next]_vars
===============================================================================
