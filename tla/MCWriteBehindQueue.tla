------------------------ MODULE MCWriteBehindQueue -------------------------
(* Instances of WriteBehindQueue for TLC.                                   *)
EXTENDS WriteBehindQueue

\* A creation, a row that references the lead, and an update of the lead: the
\* other two kinds are written by the same join in the same way.
ThreeKinds == {LeadCreation, "BuyerResponse", "LeadUpdate"}
TwoKinds == {LeadCreation, "BuyerResponse"}
=============================================================================
