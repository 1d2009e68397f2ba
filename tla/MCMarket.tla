------------------------------ MODULE MCMarket -------------------------------
(* A small instance of Market for TLC: the depth channels of two websockets *)
(* objects, which share a callback type and so a static deleter.           *)
EXTENDS Market

Pair == [kind : {"depth"}, market : {"Spot", "FFuture"}]
=============================================================================
