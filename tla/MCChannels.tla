------------------------------ MODULE MCChannels ------------------------------
(* Small instances of the sales and advertising channels.  Shopify's tables   *)
(* and those of the ad platforms have nothing in common, so one run checks    *)
(* both side by side: `channel` says whose world moves, the other rests.      *)
EXTENDS ShopifyOrders, AdMetrics

VARIABLE channel

MCCustomerOf == [o \in Orders |-> "c1"]
MCVariantOf == [o \in Orders |-> "v1"]
(* The orders are imported in either sequence; o1 is the later of the two.     *)
MCOrderedAt == [o \in Orders |-> IF o = "o1" THEN 2 ELSE 1]

ChannelsInit == channel \in {"shop", "ads"} /\ ShopInit /\ AdInit

ChannelsNext == /\ UNCHANGED channel
          /\ \/ channel = "shop" /\ ShopNext /\ UNCHANGED adVars
             \/ channel = "ads" /\ AdNext /\ UNCHANGED shopVars

channelVars == <<channel, shopVars, adVars>>

ChannelsSpec == ChannelsInit /\ [][ChannelsNext]_channelVars

(* What people do in the shop, and what platforms charge, matters to the      *)
(* import only where it reads: a change at another step can as well be made   *)
(* just before the next read.                                                 *)
ChangesMeetReads ==
  /\ store # store' => shopStep \in {"catalogue", "begin", "reading"}
  /\ ads # ads' => adStep \in {"hierarchy", "account", "entity"}
=============================================================================
