-------------------------- MODULE MCLeadLifecycle --------------------------
(* Instances of LeadLifecycle for TLC: two or three racing post requests.   *)
EXTENDS LeadLifecycle

CONSTANTS r1, r2, r3

TwoPosts == {r1, r2}
ThreePosts == {r1, r2, r3}

Sync == {"sync"}
AnyMode == {"sync", "async"}
=============================================================================
