--------------------------- MODULE MCPingAuction ---------------------------
(* Instances of PingAuction for TLC: campaigns are numbered in launch order, *)
(* bids 10 and 11 count as equal, 13 does not.                              *)
EXTENDS PingAuction

ThreeCampaigns == 1..3
OneInternal == {2}
TwoPriorities == {1, 2}
ThreeBids == {10, 11, 13}
=============================================================================
