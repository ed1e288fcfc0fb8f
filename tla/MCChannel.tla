----------------------------- MODULE MCChannel -----------------------------
(***************************************************************************)
(* Instances of Channel for TLC: participants a and b.  The operations the *)
(* configurations choose from are "pay", an off-chain payment, which the   *)
(* receiver signs automatically; "script", an off-chain script that        *)
(* modifies a resource of the receiver, who must approve it; "withdraw"    *)
(* and "close", which travel.                                              *)
(***************************************************************************)
EXTENDS ChannelProperties

CONSTANTS a, b
=============================================================================
