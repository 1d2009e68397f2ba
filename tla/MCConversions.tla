---------------------------- MODULE MCConversions ----------------------------
(***************************************************************************)
(* The conversions of the gateway side by side, one of them at a time as   *)
(* they share no state: a reply of the exchange (every type, with at most  *)
(* MaxSpoilt keys of its message spoilt; texts of brackets and commas, of  *)
(* numbers, of strings and of words, and the spellings of small values), a *)
(* record of the journal (every struct, with up to MaxSet names set), the  *)
(* terms of an order (every combination, for a few coins) and the bars of  *)
(* a few trades.                                                           *)
(***************************************************************************)
EXTENDS Reply, Messages, Codes, Bars

Pieces(S) == {<<c>> : c \in S}
Typed(S, most) == [pieces |-> S, most |-> most]
TypedTexts ==
    [structure |->
        Typed(Pieces({"[", "]", "{", "}", ",", ":", " ", "1"})
              \cup {<<"\"", "a", "\"">>, <<"n", "u", "l", "l">>}, 6),
     number |-> Typed(Pieces({"-", "0", "1", ".", "e", "+", "x"}), 6),
     string |-> Typed(Pieces({"\"", "\\", "u", "a", "lead2", "lead3", "[",
                              "control"}), 5),
     word |-> Typed(Pieces({"n", "t", "r", "u", "e", "l", "[", "1"}), 5),
     none |-> Typed({}, 0)]
SpeltTexts == Deep(<<>>) \cup Shallow(NoKey, <<" ">>)

Coins  == {<<"BTC">>, <<"W", "BTC">>}
Quotes == {<<"BTC">>, <<"USDT">>, <<"FDUSD">>}

NoReply == alphabet = "none" /\ text = <<>> /\ type = NoType /\ first.how = "none"

NoTerms == input = None
NoBars  == ~granted /\ ~waiting

ConversionsInit == ReplyInit /\ MessageInit /\ CodeInit /\ BarInit

ConversionsNext ==
    \/ kind = NoFrame /\ NoTerms /\ NoBars /\ ReplyNext
       /\ UNCHANGED <<messageVars, codeVars, barVars>>
    \/ NoReply /\ NoTerms /\ NoBars /\ MessageNext
       /\ UNCHANGED <<replyVars, codeVars, barVars>>
    \/ NoReply /\ kind = NoFrame /\ NoBars /\ CodeNext
       /\ UNCHANGED <<replyVars, messageVars, barVars>>
    \/ NoReply /\ kind = NoFrame /\ NoTerms /\ BarNext
       /\ UNCHANGED <<replyVars, messageVars, codeVars>>

ConversionsSpec ==
    ConversionsInit
    /\ [][ConversionsNext]_<<replyVars, messageVars, codeVars, barVars>>
=============================================================================
