------------------------- MODULE MCFullpostRouting -------------------------
(* Instances of FullpostRouting for TLC.                                    *)
EXTENDS FullpostRouting

BothStrategies == {"ping_post", "fullpost"}
PingPost == {"ping_post"}
Direct == {"fullpost"}
SyncMode == {"sync"}
BothModes == {"sync", "async"}
InternalBuyers == {"internal"}
ExternalBuyers == {"external"}
AllBuyers == {"internal", "external"}
TwoPrices == {10, 20}
=============================================================================
