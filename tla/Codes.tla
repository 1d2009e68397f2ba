-------------------------------- MODULE Codes --------------------------------
(***************************************************************************)
(* The terms of an order in three languages: the enums of wingchun, the    *)
(* enums of the Binance client and the words of the exchange.  An order    *)
(* goes out through to_binance and the to_string functions, what the       *)
(* exchange says of it comes back through from_string and from_binance.    *)
(*                                                                         *)
(* A coin is a sequence of syllables, a symbol a sequence of coins in one  *)
(* case: btc_usdt has two, BTCUSDT is one word.  The from_string functions *)
(* fall off their end for a word they do not list: any value may come out. *)
(***************************************************************************)
EXTENDS Sequences, SequencesExt, Tables

CONSTANTS
    Base,        \* coins that are traded
    Quote,       \* coins they are traded for
    NewStatus    \* words for a status that e_status_from_string does not list

(* A coin is a sequence of syllables. *)
ASSUME CodesAssumption == \A c \in Base \cup Quote : c \in Seq(Range(c)) /\ c # <<>>

VARIABLES
    input,   \* the OrderInput
    sent,    \* what the exchange was asked
    said,    \* the status it reports
    report   \* the Order written

codeVars == <<input, sent, said, report>>
None == <<>>

-----------------------------------------------------------------------------
(* The enums of wingchun. *)
Side           == {"Buy", "Sell", "Lock", "Unlock", "Exec", "Drop"}
OrderType      == {"Limit", "Market", "Mock", "UnKnown"}
TimeCondition  == {"IOC", "FOK", "GTC", "GTX", "POC"}
Direction      == {"Long", "Short"}
InstrumentType == {"Unknown", "FFuture", "DFuture", "Future", "Etf", "Spot",
                   "Index", "Swap"}
OrderStatus    == {"Unknown", "Submitted", "Pending", "Cancelled", "Error", "Filled",
                   "PartialFilledNotActive", "PartialFilledActive", "PreSend"}
is_final_status(s) ==
    s \notin {"Submitted", "Pending", "PartialFilledActive", "Unknown", "PreSend"}

(* The enums of the client. *)
e_side            == {"buy", "sell"}
e_position_side   == {"p_long", "p_short"}
e_status          == {"newx", "partially_filled", "filled", "canceled",
                      "pending_cancel", "rejected", "expired"}
e_type            == {"limit", "market", "stop_loss", "stop_loss_limit",
                      "take_profit", "take_profit_limit", "limit_maker"}
e_time            == {"GTC", "IOC", "FOK"}
e_trade_resp_type == {"ACK", "RESULT", "FULL", "TEST", "UNKNOWN"}

-----------------------------------------------------------------------------
(* Enums and words. *)

(* What a from_string function may return. *)
Parse(table, word, enum) ==
    IF word \in DOMAIN table THEN {table[word]} ELSE enum \cup {"other"}

e_side_to_string == [buy |-> "BUY", sell |-> "SELL"]
e_side_from_string(w) == Parse([BUY |-> "buy", SELL |-> "sell"], w, e_side)

e_position_side_to_string == [p_long |-> "LONG", p_short |-> "SHORT"]
e_position_side_from_string(w) ==
    Parse([LONG |-> "p_long", SHORT |-> "p_short"], w, e_position_side)

e_status_to_string ==
    [newx |-> "NEW", partially_filled |-> "PARTIALLY_FILLED", filled |-> "FILLED",
     canceled |-> "CANCELED", pending_cancel |-> "PENDING_CANCEL",
     rejected |-> "REJECTED", expired |-> "EXPIRED"]
e_status_from_string(w) ==
    Parse([NEW |-> "newx", PARTIALLY_FILLED |-> "partially_filled",
           FILLED |-> "filled", CANCELED |-> "canceled",
           PENDING_CANCEL |-> "pending_cancel", REJECTED |-> "rejected",
           EXPIRED |-> "expired"], w, e_status)

e_type_to_string ==
    [limit |-> "LIMIT", market |-> "MARKET", stop_loss |-> "STOP_LOSS",
     stop_loss_limit |-> "STOP_LOSS_LIMIT", take_profit |-> "TAKE_PROFIT",
     take_profit_limit |-> "TAKE_PROFIT_LIMIT", limit_maker |-> "LIMIT_MAKER"]
e_type_from_string(w) ==
    Parse([LIMIT |-> "limit", MARKET |-> "market", STOP_LOSS |-> "stop_loss",
           STOP_LOSS_LIMIT |-> "stop_loss_limit", TAKE_PROFIT |-> "take_profit",
           TAKE_PROFIT_LIMIT |-> "take_profit_limit",
           LIMIT_MAKER |-> "limit_maker"], w, e_type)

e_time_to_string == [GTC |-> "GTC", IOC |-> "IOC", FOK |-> "FOK"]
e_time_from_string(w) == Parse([GTC |-> "GTC", IOC |-> "IOC", FOK |-> "FOK"], w, e_time)

e_trade_resp_type_to_string ==
    [ACK |-> "ASK", RESULT |-> "RESULT", FULL |-> "FULL", TEST |-> "TEST",
     UNKNOWN |-> "UNKNOWN"]
e_trade_resp_type_from_string(w) ==
    Parse([ACK |-> "ACK", RESULT |-> "RESULT", FULL |-> "FULL", TEST |-> "TEST",
           UNKNOWN |-> "UNKNOWN"], w, e_trade_resp_type)

-----------------------------------------------------------------------------
(* type_convert_binance.h: a to_binance that is not defined throws. *)

to_binance_type == [Limit |-> "limit", Market |-> "market"]
to_binance_side == [Buy |-> "buy", Sell |-> "sell"]
to_binance_direction == [Long |-> "p_long", Short |-> "p_short"]

from_binance_type(t) ==
    CASE t = "limit" -> "Limit" [] t = "market" -> "Market" [] OTHER -> "UnKnown"

from_binance_side == [buy |-> "Buy", sell |-> "Sell"]

(* Mutant: an expired order is of no known status. *)
from_binance_status_unexpired(s) ==
    CASE s = "newx" -> "Submitted"
      [] s = "partially_filled" -> "PartialFilledActive"
      [] s = "filled" -> "Filled"
      [] s = "canceled" -> "Cancelled"
      [] s = "pending_cancel" -> "Pending"
      [] s = "rejected" -> "Error"
      [] OTHER -> "Unknown"

from_binance_status(s) ==
    CASE s = "newx" -> "Submitted"
      [] s = "partially_filled" -> "PartialFilledActive"
      [] s = "filled" -> "Filled"
      [] s = "canceled" -> "Cancelled"
      [] s = "pending_cancel" -> "Pending"
      [] s \in {"rejected", "expired"} -> "Error"
      [] OTHER -> "Unknown"

Symbol(case, coins) == [case |-> case, coins |-> coins]

(* A pair, its separator taken out. *)
to_binance_symbol(symbol) == Symbol("upper", <<symbol.coins[1] \o symbol.coins[2]>>)

quote_coins == {"BTC", "USDT", "BNB", "BUSD", "ETH"}

(* A word cut before its k-th syllable. *)
Cut(word, k) == <<SubSeq(word, 1, k - 1), SubSeq(word, k, Len(word))>>

(* The last place of a syllable. *)
rfind(word, syllable) == SelectLastInSeq(word, LAMBDA s : s = syllable)

(* Mutant: the quote is looked for from the left. *)
from_binance_symbol_find(symbol) ==
    LET word == Head(symbol.coins)
    IN  IF Last(word) \in quote_coins
        THEN Symbol("lower", Cut(word, SelectInSeq(word, LAMBDA s : s = Last(word))))
        ELSE symbol

(* Mutant: lower case also without a quote. *)
from_binance_symbol_lowers(symbol) ==
    LET word == Head(symbol.coins)
    IN  Symbol("lower", IF Last(word) \in quote_coins THEN Cut(word, Len(word))
                        ELSE symbol.coins)

(* A word that ends with a quote is cut before the last place it is at;    *)
(* any other stays as it is, in upper case.                                *)
from_binance_symbol(symbol) ==
    LET word == Head(symbol.coins)
    IN  IF Last(word) \in quote_coins
        THEN Symbol("lower", Cut(word, rfind(word, Last(word))))
        ELSE symbol

-----------------------------------------------------------------------------
(* The trader. *)

OrderInputs ==
    [symbol : {Symbol("lower", <<b, q>>) : b \in Base, q \in Quote},
     side : Side, order_type : OrderType, position_side : Direction,
     time_condition : TimeCondition, instrument_type : InstrumentType]

Converts(o) ==
    o.side \in DOMAIN to_binance_side /\ o.order_type \in DOMAIN to_binance_type

(* What both kinds of order say; the time condition is not the input's,    *)
(* and a market order has none.                                            *)
Terms(o) ==
    [symbol |-> to_binance_symbol(o.symbol),
     side |-> e_side_to_string[to_binance_side[o.side]],
     type |-> e_type_to_string[to_binance_type[o.order_type]]]
    ++ IF to_binance_type[o.order_type] = "market" THEN <<>>
       ELSE [time |-> e_time_to_string["GTC"]]

(* Mutant: the answer asked for is an acknowledgement. *)
new_order_ack(o) == Terms(o) ++ [resp |-> e_trade_resp_type_to_string["ACK"]]

new_order(o) == Terms(o) ++ [resp |-> e_trade_resp_type_to_string["FULL"]]

future_new_order(o) ==
    LET side == to_binance_direction[o.position_side]
    IN  Terms(o) ++ [position_side |-> e_position_side_to_string[side]]

(* insert_order: nothing is sent of an order of another type, and a term   *)
(* that cannot be converted throws.                                        *)
insert_order(o) ==
    /\ input = None /\ input' = o
    /\ sent' = CASE o.instrument_type = "Spot" /\ Converts(o) -> new_order(o)
                 [] o.instrument_type = "FFuture" /\ Converts(o) -> future_new_order(o)
                 [] OTHER -> None
    /\ UNCHANGED <<said, report>>

(* The exchange has news of the order (external). *)
ExchangeSays(status) ==
    /\ sent # None /\ said = None /\ said' = <<status>>
    /\ UNCHANGED <<input, sent, report>>

Statuses(word) == {from_binance_status(s) : s \in e_status_from_string(word)}

(* The user data stream: the symbol is converted, other terms are those of *)
(* the order kept.                                                         *)
OnUpdate ==
    /\ said # None /\ report = None
    /\ report' \in [symbol : {from_binance_symbol(sent.symbol)}, side : {input.side},
                    order_type : {input.order_type}, status : Statuses(Head(said))]
    /\ UNCHANGED <<input, sent, said>>

(* The answer to query_order: the symbol is that of the action. *)
OnOrderInfo ==
    /\ said # None /\ report = None
    /\ report' \in [symbol : {input.symbol},
                    side : {from_binance_side[s] : s \in e_side_from_string(sent.side)},
                    order_type : {from_binance_type(t) : t \in e_type_from_string(sent.type)},
                    status : Statuses(Head(said))]
    /\ UNCHANGED <<input, sent, said>>

CodeInit == input = None /\ sent = None /\ said = None /\ report = None

CodeNext ==
    \/ input = None /\ \E o \in OrderInputs : insert_order(o)
    \/ \E s \in {e_status_to_string[e] : e \in e_status} \cup NewStatus : ExchangeSays(s)
    \/ OnUpdate \/ OnOrderInfo

CodeSpec == CodeInit /\ [][CodeNext]_codeVars

-----------------------------------------------------------------------------
(* A symbol in lower case is one of a pair, and one in upper case a word   *)
(* of the exchange; reports have the enums of wingchun.                    *)
CodeTypeOK ==
    report # None =>
        /\ Len(report.symbol.coins) = IF report.symbol.case = "lower" THEN 2 ELSE 1
        /\ report.side \in Side /\ report.order_type \in OrderType
        /\ report.status \in OrderStatus

(* The exchange is told only words the client itself would understand, and *)
(* they mean what the trader chose: a limit order is good till cancelled,  *)
(* a spot order asks for a full answer, a future has the side of its       *)
(* position.                                                               *)
Understood ==
    sent # None =>
        /\ IF input.order_type = "Limit" THEN e_time_from_string(sent.time) = {"GTC"}
           ELSE "time" \notin DOMAIN sent
        /\ IF input.instrument_type = "Spot"
           THEN e_trade_resp_type_from_string(sent.resp) = {"FULL"}
           ELSE e_position_side_from_string(sent.position_side)
                    = {to_binance_direction[input.position_side]}

(* A report of an order, by either way, has the terms of its input; its    *)
(* symbol if the quote is one from_binance_symbol lists.                   *)
ReportIsOfInput ==
    report # None =>
        /\ report.side = input.side /\ report.order_type = input.order_type
        /\ input.symbol.coins[2] \in {<<c>> : c \in quote_coins} =>
              report.symbol = input.symbol

(* Books give back what an order froze when its status is final: a report  *)
(* is final exactly when the exchange is done with the order, for every    *)
(* status that is listed.                                                  *)
FinalWhenDone ==
    report # None /\ Head(said) \notin NewStatus =>
        (is_final_status(report.status)
            <=> Head(said) \in {"FILLED", "CANCELED", "REJECTED", "EXPIRED"})

(* The terms of an order survive the way to the exchange and back, through *)
(* two enumerations and two spellings of a symbol.                         *)
TermsKept == CodeTypeOK /\ Understood /\ ReportIsOfInput
=============================================================================
