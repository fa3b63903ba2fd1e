----------------------------- MODULE MCHumanReview -----------------------------
(* HumanReview on small sets: an officer and a compliance manager of the case's *)
(* IBU, and an officer of another one.                                          *)
EXTENDS HumanReview

Caller(s, r, i) == [subject |-> s, role |-> r, ibu |-> i]

MCPrincipals ==
  {Caller("o1", "OFFICER", "ibu1"), Caller("m1", "COMPLIANCE_MANAGER", "ibu1"),
   Caller("o2", "OFFICER", "ibu2")}

OneOfficer == {Caller("o1", "OFFICER", "ibu1")}

TwoDecisions  == {"APPROVE", "HOLD"}

HoldOrReady == {HOLD_ACTION, READY_ACTION, "none"}
===============================================================================
