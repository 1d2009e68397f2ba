------------------------------ MODULE MCLedger -------------------------------
(* One trader and one strategy, up or not and connected or not when the    *)
(* ledger starts, and steps of theirs in the life of a ledger, taken while *)
(* at most one frame or request is still to be read: three steps whose     *)
(* frames are read in the order of their times, or two steps of which one  *)
(* frame may be read before an older one.                                  *)
EXTENDS Ledger
=============================================================================
