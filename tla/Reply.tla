-------------------------------- MODULE Reply --------------------------------
(***************************************************************************)
(* A reply of the exchange on its way to a callback (detail::invoker):     *)
(* the text that arrived is loaded (FlatJson), and the message it spells   *)
(* is handed to construct (Wire).  The texts of FlatJson are far shorter   *)
(* than messages: a loaded text without members stands for every message.  *)
(***************************************************************************)
EXTENDS Wire, FlatJson

replyVars == <<wireVars, textVars>>

(* No message yet: the text is still arriving, or was refused. *)
NoType == "none"
Arriving == type = NoType /\ first.how = "none"

NoMessage ==
    /\ type = NoType /\ len = 0 /\ json = Nothing /\ spoilt = {}
    /\ again = Ended("none")

ReplyInit == TextInit /\ NoMessage /\ first = Ended("none")

Arrive ==
    /\ Arriving /\ TextNext
    /\ UNCHANGED wireVars

TextGone ==
    /\ alphabet' = "none" /\ pieces' = 0 /\ text' = <<>> /\ spelt' = <<>>
    /\ fj' = Unloaded("OK")

(* The text was not loaded: the callback gets the error. *)
Refuse ==
    /\ Arriving /\ text # <<>> /\ fj.m_err # "OK"
    /\ TextGone
    /\ first' = Ended("error")
    /\ UNCHANGED <<type, len, json, spoilt, again>>

(* It was loaded: construct gets the message. *)
HandOver ==
    /\ Arriving /\ Len(spelt) = 2 /\ is_valid(fj)
    /\ TextGone
    /\ \E t \in DOMAIN Types :
          /\ type' = t /\ len' \in Lengths(t) /\ json' = Message(Types[t])
    /\ UNCHANGED <<spoilt, first, again>>

Deliver ==
    /\ type # NoType /\ WireNext
    /\ UNCHANGED textVars

ReplyNext == Arrive \/ Refuse \/ HandOver \/ Deliver

ReplySpec == ReplyInit /\ [][ReplyNext]_replyVars
=============================================================================
