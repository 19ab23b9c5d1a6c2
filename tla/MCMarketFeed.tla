---------------------------- MODULE MCMarketFeed ----------------------------
(* Instances of MarketFeed for TLC. *)
EXTENDS MarketFeed
=============================================================================
