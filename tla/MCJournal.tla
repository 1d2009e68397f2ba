------------------------------ MODULE MCJournal ------------------------------
(* Small instances of Journal for TLC. *)
EXTENDS JournalInv

(* The states of a writer in which a death leaves a journal that the next  *)
(* start repairs, and "created", after which none does ...                 *)
SafePoints == {"idle", "fit", "created", "ended", "slot", "open", "zeroed", "stamped"}

(* ... and two after which frames are lost: the new page exists but the old one   *)
(* has no PageEnd.                                                         *)
InRoll == {"ready", "marked"}
=============================================================================
