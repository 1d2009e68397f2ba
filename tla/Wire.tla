-------------------------------- MODULE Wire --------------------------------
(***************************************************************************)
(* The messages of the exchange and what the client makes of them: the     *)
(* members of every type of binapi (types.hpp), the keys construct reads   *)
(* them from and operator<< prints them under (types.cpp), and the         *)
(* conversions in between (flatjson.hpp, __get_json).                      *)
(*                                                                         *)
(* A text is abstracted to a token: its sort and the member whose value it *)
(* spells, so that a member filled from the wrong key is told apart.  The  *)
(* elements of an array are messages of their own; the array is a length.  *)
(***************************************************************************)
EXTENDS Naturals, Sequences, FiniteSets, Tables

CONSTANTS
    MaxLength,   \* bound: elements of an array
    MaxSpoilt    \* bound: keys of a message that are not as expected

ASSUME WireAssumption == MaxLength \in Nat /\ MaxSpoilt \in Nat

-----------------------------------------------------------------------------
(* The members of the types, by how they are declared. *)

Num(S) == [f \in S |-> "num"]      \* std::size_t
Signed(S) == [f \in S |-> "int"]      \* int
Bool(S) == [f \in S |-> "bool"]
Str(S) == [f \in S |-> "str"]
Dec(S) == [f \in S |-> "dec"]      \* double_type
List(S) == [f \in S |-> "list"]    \* a vector or a map

leverage_info_t ==
    Signed({"leverage"}) ++ Str({"symbol"}) ++ Dec({"maxNotionalValue"})

avg_price_t == Num({"mins"}) ++ Dec({"price"})

server_time_t == Num({"serverTime"})

price_t == Str({"symbol"}) ++ Dec({"price"})

ticker_24hrs_t ==
    Num({"openTime", "closeTime", "firstId", "lastId", "count"}) ++
    Str({"symbol"}) ++
    Dec({"priceChange", "priceChangePercent", "weightedAvgPrice",
         "prevClosePrice", "lastPrice", "lastQty", "bidPrice",
         "askPrice", "openPrice", "highPrice", "lowPrice", "volume",
         "quoteVolume"})

balance_t == Str({"asset"}) ++ Dec({"free", "locked"})

account_info_t ==
    Num({"makerCommission", "takerCommission", "buyerCommission",
         "sellerCommission", "updateTime"}) ++
    Bool({"canTrade", "canWithdraw", "canDeposit"}) ++ List({"balances"})

rate_limit_t == Num({"limit"}) ++ Str({"rateLimitType", "interval"})

symbol_t ==
    Num({"baseAssetPrecision", "quotePrecision"}) ++
    Bool({"icebergAllowed"}) ++
    Str({"symbol", "status", "baseAsset", "quoteAsset"}) ++
    List({"orderTypes", "filters"})

exchange_info_t ==
    Num({"serverTime"}) ++ Str({"timezone"}) ++
    List({"exchangeFilters", "rateLimits", "symbols"})

depths_t == Num({"lastUpdateId"}) ++ List({"bids", "asks"})

trade_t ==
    Num({"id", "time"}) ++ Bool({"isBuyerMaker", "isBestMatch"}) ++
    Dec({"price", "qty"})

agg_trade_t ==
    Num({"id", "first_id", "last_id", "time"}) ++
    Bool({"isBuyerMaker", "isBestMatch"}) ++ Dec({"price", "qty"})

kline_t ==
    Num({"start_time", "end_time", "num_trades"}) ++
    Dec({"open", "high", "low", "close", "volume", "quote_volume",
         "taker_buy_base_vol", "taker_buy_quote_vol"})

order_info_t ==
    Num({"orderId", "time", "updateTime"}) ++ Bool({"isWorking"}) ++
    Str({"symbol", "clientOrderId", "status", "timeInForce", "type",
         "side"}) ++
    Dec({"price", "origQty", "executedQty", "cummulativeQuoteQty",
         "stopPrice", "icebergQty"})

new_order_info_ack_t ==
    Num({"orderId", "transactTime"}) ++ Str({"symbol", "clientOrderId"})

new_order_info_result_t ==
    Num({"orderId", "transactTime"}) ++
    Str({"symbol", "clientOrderId", "status", "timeInForce", "type",
         "side"}) ++
    Dec({"price", "origQty", "executedQty", "cummulativeQuoteQty"})

new_order_info_full_t ==
    Num({"orderId", "transactTime"}) ++
    Str({"symbol", "clientOrderId", "status", "timeInForce", "type",
         "side"}) ++
    Dec({"price", "origQty", "executedQty", "cummulativeQuoteQty"}) ++
    List({"fills"})

fill_part == Str({"commissionAsset"}) ++ Dec({"price", "qty", "commission"})

cancel_order_info_t ==
    Num({"orderId"}) ++
    Str({"symbol", "clientOrderId", "status", "timeInForce", "type",
         "side", "positionSide"}) ++
    Dec({"price", "origQty", "executedQty", "cummulativeQuoteQty"})

my_trade_info_t ==
    Num({"id", "orderId", "time"}) ++
    Bool({"isBuyer", "isMaker", "isBestMatch"}) ++
    Str({"symbol", "commissionAsset"}) ++ Dec({"price", "qty", "commission"})

start_user_data_stream_t == Str({"listenKey"})

future_new_order_resp_t ==
    Num({"clientOrderId", "orderId", "origQty", "updateTime"}) ++
    Bool({"reduceOnly", "closePosition", "priceProtect"}) ++
    Str({"cumQty", "side", "positionSide", "status", "symbol",
         "timeInForce", "type", "origType", "workingType"}) ++
    Dec({"cumQuote", "executedQty", "avgPrice", "price", "stopPrice",
         "activatePrice", "priceRate"})

ws_agg_trade_t ==
    Num({"E", "a", "f", "l", "T"}) ++ Bool({"m", "M"}) ++ Str({"e", "s"}) ++
    Dec({"p", "q"})

ws_trade_t ==
    Num({"E", "t", "b", "a", "T"}) ++ Bool({"m", "M"}) ++ Str({"s"}) ++
    Dec({"p", "q"})

part_depths_t == Num({"E", "T"}) ++ List({"a", "b"})

mark_price_t == Num({"T"}) ++ Str({"s"}) ++ Dec({"p", "P", "r"})

diff_depths_t == Num({"E", "u", "U"}) ++ Str({"s"}) ++ List({"a", "b"})

ws_kline_t ==
    Num({"E", "t", "T", "f", "L", "n"}) ++ Bool({"x"}) ++ Str({"s", "i"}) ++
    Dec({"o", "c", "h", "l", "v", "q", "V", "Q"})

mini_ticker_t ==
    Num({"E"}) ++ Str({"s"}) ++ Dec({"c", "o", "h", "l", "v", "q"})

market_ticker_t ==
    Num({"E", "O", "C", "F", "L", "n"}) ++ Str({"s"}) ++
    Dec({"p", "P", "w", "x", "c", "Q", "b", "B", "a", "A", "o", "h", "l",
         "v", "q"})

book_ticker_t ==
    Num({"u", "E", "T"}) ++ Str({"s"}) ++ Dec({"b", "B", "a", "A"})

update_balance_t == Str({"a"}) ++ Dec({"f", "l"})

account_update_t == Num({"E", "u"}) ++ Str({"e"}) ++ List({"B"})

balance_update_t == Num({"E", "T"}) ++ Str({"e", "a"}) ++ Dec({"d"})

order_update_t ==
    Num({"E", "i", "T", "t", "I", "O", "W"}) ++ Bool({"w", "m", "M"}) ++
    Str({"e", "s", "c", "S", "o", "f", "C", "x", "X", "r", "N", "V"}) ++
    Dec({"q", "p", "P", "F", "l", "z", "L", "n", "Z", "Y", "Q"})

future_order_update_t == Num({"E", "T"}) ++ Str({"e"})

future_order_t ==
    Num({"i", "T", "t"}) ++ Bool({"m", "R", "cp"}) ++
    Str({"s", "c", "S", "o", "f", "x", "X", "N", "wt", "ot", "ps"}) ++
    Dec({"q", "p", "ap", "sp", "l", "z", "L", "n", "b", "a", "AP", "cr",
         "rp"})

(* The filters of a symbol; filter_t::filter holds one of them, and a new  *)
(* filter_t holds a price_t of zeros.                                      *)
Filters ==
    [PRICE_FILTER |-> Dec({"minPrice", "maxPrice", "tickSize"}),
     PERCENT_PRICE |->
        Dec({"multiplierUp", "multiplierDown"}) ++ Num({"avgPriceMins"}),
     PERCENT_PRICE_BY_SIDE |->
        Dec({"bidMultiplierUp", "bidMultiplierDown", "askMultiplierUp",
             "askMultiplierDown"}) ++ Num({"avgPriceMins"}),
     LOT_SIZE |-> Dec({"minQty", "maxQty", "stepSize"}),
     MARKET_LOT_SIZE |-> Dec({"minQty", "maxQty", "stepSize"}),
     MIN_NOTIONAL |-> Dec({"minNotional"}),
     ICEBERG_PARTS |-> Num({"limit"}),
     MAX_NUM_ORDERS |-> Num({"maxNumOrders"}),
     MAX_NUM_ALGO_ORDERS |-> Num({"maxNumAlgoOrders"}),
     MAX_POSITION |-> Dec({"maxPosition"}),
     TRAILING_DELTA |->
        Num({"minTrailingAboveDelta", "maxTrailingAboveDelta",
             "minTrailingBelowDelta", "maxTrailingBelowDelta"})]

-----------------------------------------------------------------------------
(* The keys, as paths: what construct reads a member from (an empty path is *)
(* the message itself) and what operator<< prints it under, and            *)
(*   array   the members it asserts to be arrays before it walks them,     *)
(*   bare    the members whose absence leaves a json without a value,      *)
(*   strict  it reads integers outside __get_json, which catches,          *)
(*   json    the lengths of its arrays for which what it prints is JSON.   *)
Length == 0 .. MaxLength
Own(S) == [m \in S |-> <<m>>]
Under(k, S) == [m \in S |-> <<k, m>>]
Itself(m) == [x \in {m} |-> <<>>]

Codec(t, reads, prints) ==
    [members |-> t, reads |-> reads, prints |-> prints, array |-> {},
     bare |-> {}, strict |-> FALSE, json |-> Length]
Plain(t) == Codec(t, Own(DOMAIN t), Own(DOMAIN t))
Silent(t, reads) == [Codec(t, reads, <<>>) EXCEPT !.json = {}]
Array(m) == Codec(List({m}), Itself(m), Itself(m))
Checked(m) == [Array(m) EXCEPT !.array = {m}]

leverage_info_io == Plain(leverage_info_t)
future_new_order_resp_io ==
    Silent(future_new_order_resp_t,
           Own(DOMAIN future_new_order_resp_t \ {"activatePrice", "priceRate"}))
server_time_io == Plain(server_time_t)
avg_price_io == Plain(avg_price_t)
price_io == Plain(price_t)
prices_io == Checked("prices")
ticker_24hrs_io == Plain(ticker_24hrs_t)
tickers_24hrs_io == Array("tickers")

(* balance_t::construct gives an empty balance; the balances of an account *)
(* are read by account_info_t.                                             *)
account_info_io == [Plain(account_info_t) EXCEPT !.array = {"balances"}]
balance_io == Plain(balance_t)

rate_limit_io == Plain(rate_limit_t)
filter_io(f) == Plain(Filters[f])
symbol_io == [Plain(symbol_t) EXCEPT !.array = {"orderTypes", "filters"}]

(* "rateLimits":[ is printed once for every element. *)
exchange_info_json == {1} \cap Length
exchange_info_io ==
    [Plain(exchange_info_t) EXCEPT
        !.array = {"exchangeFilters", "rateLimits", "symbols"},
        !.json = exchange_info_json]

depths_io == [Plain(depths_t) EXCEPT !.array = {"bids", "asks"}]

(* trade_t::construct takes element 0 of an array; trades_t reads all. *)
trade_io == Plain(trade_t)
trades_io == Array("trades")

agg_trade_keys ==
    [id |-> <<"a">>, price |-> <<"p">>, qty |-> <<"q">>, first_id |-> <<"f">>,
     last_id |-> <<"l">>, time |-> <<"T">>, isBuyerMaker |-> <<"m">>,
     isBestMatch |-> <<"M">>]
agg_trade_io == Codec(agg_trade_t, agg_trade_keys, Own(DOMAIN agg_trade_t))
agg_trades_io == Array("trades")

(* A kline is an array; its integers are converted without __get_json. *)
kline_cells ==
    [start_time |-> <<"0">>, open |-> <<"1">>, high |-> <<"2">>, low |-> <<"3">>,
     close |-> <<"4">>, volume |-> <<"5">>, end_time |-> <<"6">>,
     quote_volume |-> <<"7">>, num_trades |-> <<"8">>,
     taker_buy_base_vol |-> <<"9">>, taker_buy_quote_vol |-> <<"10">>]
kline_io == [Codec(kline_t, kline_cells, kline_cells) EXCEPT !.strict = TRUE]
klines_io == Array("klines")

order_info_io == Plain(order_info_t)
(* No comma between the orders of one symbol and those of the next. *)
orders_info_io == [Array("orders") EXCEPT !.json = {n \in Length : n < 2}]

new_order_info_ack_io == Plain(new_order_info_ack_t)
new_order_info_result_io == Plain(new_order_info_result_t)
new_order_info_full_io == Plain(new_order_info_full_t)
fill_part_io == Plain(fill_part)

(* No comma before "positionSide". *)
cancel_order_info_io ==
    [Plain(cancel_order_info_t) EXCEPT
        !.reads = Own(DOMAIN cancel_order_info_t \ {"cummulativeQuoteQty"}),
        !.json = {}]

my_trade_info_io == Plain(my_trade_info_t)
my_trades_info_io == Array("trades")
start_user_data_stream_io == Plain(start_user_data_stream_t)

(* Mutation of ws_agg_trade_io: the trade time is read from the event time. *)
ws_agg_trade_io_slip ==
    [Plain(ws_agg_trade_t) EXCEPT
        !.reads = [Own(DOMAIN ws_agg_trade_t) EXCEPT !["T"] = <<"E">>]]

ws_agg_trade_io ==
    [Plain(ws_agg_trade_t) EXCEPT !.reads = Own(DOMAIN ws_agg_trade_t \ {"M"})]
ws_trade_io == Plain(ws_trade_t)

(* The times are not printed.  The futures stream has the keys a and b.    *)
part_depths_io ==
    LET sides == [a |-> <<"asks">>, b |-> <<"bids">>]
    IN  [Codec(part_depths_t, Own({"E", "T"}) ++ sides, sides) EXCEPT
            !.bare = {"a"}]

(* A symbol without quotes. *)
mark_price_io == [Plain(mark_price_t) EXCEPT !.json = {}]
diff_depths_io == Plain(diff_depths_t)

(* Read from the object under "k", printed beside it. *)
ws_kline_io ==
    Codec(ws_kline_t,
          Own({"E", "s"}) ++ Under("k", DOMAIN ws_kline_t \ {"E", "s"}),
          Own(DOMAIN ws_kline_t))

(* "E:" instead of "E": *)
mini_ticker_io == [Plain(mini_ticker_t) EXCEPT !.json = {}]
mini_tickers_io == [Checked("tickers") EXCEPT !.json = {0}]
market_ticker_io == Plain(market_ticker_t)
markets_tickers_io == Checked("tickers")
book_ticker_io == Plain(book_ticker_t)

account_update_io == Plain(account_update_t)
update_balance_io == Plain(update_balance_t)
balance_update_io == Plain(balance_update_t)
(* Mutation of order_update_io: the traded quantity is not printed. *)
order_update_io_unprinted ==
    LET read == DOMAIN order_update_t \ {"Y", "Q", "W", "V"}
    IN  Codec(order_update_t, Own(read), Own(read \ {"z"}))

order_update_io ==
    LET read == DOMAIN order_update_t \ {"Y", "Q", "W", "V"}
    IN  Codec(order_update_t, Own(read), Own(read))

(* The members of o_t are read from the object under "o". *)
future_order_update_io ==
    Silent(future_order_update_t, Own(DOMAIN future_order_update_t))
future_order_io ==
    Silent(future_order_t, Under("o", DOMAIN future_order_t \ {"AP", "cr"}))

(* The answers to a new order, richest first. *)
Responce ==
    [FULL |-> new_order_info_full_io, RESULT |-> new_order_info_result_io,
     ACK |-> new_order_info_ack_io]

MessageTypes ==
    [leverage_info |-> leverage_info_io,
     future_new_order_resp |-> future_new_order_resp_io,
     server_time |-> server_time_io, avg_price |-> avg_price_io,
     price |-> price_io, prices |-> prices_io,
     ticker_24hrs |-> ticker_24hrs_io, tickers_24hrs |-> tickers_24hrs_io,
     account_info |-> account_info_io, balance |-> balance_io,
     rate_limit |-> rate_limit_io, symbol |-> symbol_io,
     exchange_info |-> exchange_info_io, depths |-> depths_io,
     trade |-> trade_io, trades |-> trades_io, agg_trade |-> agg_trade_io,
     agg_trades |-> agg_trades_io, kline |-> kline_io, klines |-> klines_io,
     order_info |-> order_info_io, orders_info |-> orders_info_io,
     fill_part |-> fill_part_io, cancel_order_info |-> cancel_order_info_io,
     my_trade_info |-> my_trade_info_io,
     my_trades_info |-> my_trades_info_io,
     start_user_data_stream |-> start_user_data_stream_io,
     ws_agg_trade |-> ws_agg_trade_io, ws_trade |-> ws_trade_io,
     part_depths |-> part_depths_io, mark_price |-> mark_price_io,
     diff_depths |-> diff_depths_io, ws_kline |-> ws_kline_io,
     mini_ticker |-> mini_ticker_io, mini_tickers |-> mini_tickers_io,
     market_ticker |-> market_ticker_io,
     markets_tickers |-> markets_tickers_io, book_ticker |-> book_ticker_io,
     account_update |-> account_update_io,
     update_balance |-> update_balance_io,
     balance_update |-> balance_update_io, order_update |-> order_update_io,
     future_order_update |-> future_order_update_io,
     future_order |-> future_order_io]

FilterTypes == [f \in DOMAIN Filters |-> filter_io(f)]

Types == MessageTypes ++ FilterTypes ++ Responce

-----------------------------------------------------------------------------
(* The conversions.  A text is the name of the member it spells, "zero" (0, *)
(* false or nothing), "garbage" (a number made of other characters) or     *)
(* "word", a text that is no number, no boolean and no array.  A table says *)
(* what becomes of a key that is absent, null or a word: a value, an        *)
(* exception, or the end of the process (an assertion, a null pointer).     *)
Wrong == {"absent", "null", "word"}

conv_to_unsigned == [absent |-> "zero", null |-> "zero", word |-> "garbage"]
conv_to_signed == [absent |-> "zero", null |-> "die", word |-> "garbage"]
conv_to_bool == [absent |-> "zero", null |-> "die", word |-> "zero"]
get_json_string == [absent |-> "throw", null |-> "zero", word |-> "word"]
(* Mutation of get_json_double: caught like for the integers. *)
get_json_double_caught == [absent |-> "zero", null |-> "zero", word |-> "zero"]
get_json_double == [absent |-> "throw", null |-> "throw", word |-> "throw"]
at_array == [absent |-> "throw", null |-> "throw", word |-> "throw"]
Conv ==
    [num |-> conv_to_unsigned, int |-> conv_to_signed, bool |-> conv_to_bool,
     str |-> get_json_string, dec |-> get_json_double, list |-> at_array]

TextAt(j, path) == IF path \in DOMAIN j THEN j[path] ELSE "absent"

Get(io, m, j) ==
    LET text == TextAt(j, io.reads[m])
    IN  IF m \notin DOMAIN io.reads THEN "zero"
        ELSE IF text \notin Wrong THEN text
        ELSE IF m \in io.array /\ text # "absent" THEN "die"
        ELSE IF m \in io.bare /\ text = "absent" THEN "die"
        ELSE IF io.strict /\ text = "absent" THEN "throw"
        ELSE Conv[io.members[m]][text]

(* T::construct.  A process that has to fail twice fails in the order of   *)
(* the reads, which the tables do not keep: either is possible.            *)
Nothing == <<>>
Ended(how) == [how |-> how, v |-> Nothing]
(* Mutation of Construct: what could not be read is left as it is. *)
ConstructLax(io, j) ==
    {[how |-> "value", v |-> [m \in DOMAIN io.members |-> Get(io, m, j)]]}

Construct(io, j) ==
    LET v == [m \in DOMAIN io.members |-> Get(io, m, j)]
        failed == {v[m] : m \in DOMAIN v} \cap {"throw", "die"}
    IN  IF failed = {} THEN {[how |-> "value", v |-> v]}
        ELSE {Ended(how) : how \in failed}

(* new_order_resp_type::construct: the first key that is there decides; an *)
(* empty object is the answer to a test order, get_order_id then asserts.  *)
ResponceOf(j) ==
    CASE <<"fills">> \in DOMAIN j -> "FULL"
      [] <<"fills">> \notin DOMAIN j /\ <<"side">> \in DOMAIN j -> "RESULT"
      [] {<<"fills">>, <<"side">>} \cap DOMAIN j = {}
         /\ <<"symbol">> \in DOMAIN j -> "ACK"
      [] OTHER -> "TEST"

ConstructAny(t, j) ==
    IF t \notin DOMAIN Responce THEN Construct(Types[t], j)
    ELSE IF ResponceOf(j) = "TEST" THEN {Ended("die")}
    ELSE Construct(Responce[ResponceOf(j)], j)

(* operator<<, of the type that was constructed. *)
Printed(io, v) == [p \in {io.prints[m] : m \in DOMAIN io.prints} |->
                      v[CHOOSE m \in DOMAIN io.prints : io.prints[m] = p]]

-----------------------------------------------------------------------------
VARIABLES
    type,    \* the type of the message
    len,     \* the length of its arrays
    json,    \* the message: texts by path
    spoilt,  \* the paths whose texts are not the ones of a good message
    first,   \* what construct made of the message
    again    \* what it makes of the message printed

wireVars == <<type, len, json, spoilt, first, again>>

(* A message of the exchange has every key that is read. *)
Message(io) ==
    [p \in {io.reads[m] : m \in DOMAIN io.reads} |->
        CHOOSE m \in DOMAIN io.reads : io.reads[m] = p]

(* The lengths its arrays may have: 0 if it has none. *)
Lengths(t) ==
    {n \in Length : n = 0 \/ \E m \in DOMAIN Types[t].members :
                                Types[t].members[m] = "list"}

(* What arrived are keys of its type, and no member holds a token that is  *)
(* no value, or a failure.                                                 *)
WireTypeOK == type \in DOMAIN Types =>
    /\ len \in Length
    /\ spoilt \subseteq DOMAIN Message(Types[type])
    /\ DOMAIN json \subseteq DOMAIN Message(Types[type])
    /\ \A r \in {first, again} :
          /\ r.how \in {"none", "value", "throw", "die", "not JSON"}
          /\ r.how # "value" => r.v = Nothing
          /\ \A m \in DOMAIN r.v : r.v[m] \notin Wrong \ {"word"}
          /\ \A m \in DOMAIN r.v : r.v[m] \notin {"throw", "die"}

WireInit ==
    /\ type \in DOMAIN Types
    /\ len \in Lengths(type)
    /\ json = Message(Types[type])
    /\ spoilt = {}
    /\ first = Ended("none") /\ again = Ended("none")

(* The environment: a key is missing, or its text is not what is expected. *)
Spoil(p, how) ==
    /\ first.how = "none"
    /\ Cardinality(spoilt) < MaxSpoilt /\ p \in DOMAIN json \ spoilt
    /\ how = "absent" => p # <<>>
    /\ json' = IF how = "absent"
               THEN [q \in DOMAIN json \ {p} |-> json[q]]
               ELSE [json EXCEPT ![p] = how]
    /\ spoilt' = spoilt \cup {p}
    /\ UNCHANGED <<type, len, first, again>>

(* A value is passed to the callback; an exception is caught by invoke, and *)
(* the callback is not called.                                             *)
Receive ==
    /\ first.how = "none"
    /\ first' \in ConstructAny(type, json)
    /\ UNCHANGED <<type, len, json, spoilt, again>>

(* The codec the value in first was constructed with. *)
Constructed == IF type \in DOMAIN Responce THEN Responce[ResponceOf(json)]
               ELSE Types[type]

(* What was received is printed and read again. *)
Reread ==
    /\ first.how = "value" /\ again.how = "none"
    /\ again' \in IF len \in Constructed.json
                  THEN ConstructAny(type, Printed(Constructed, first.v))
                  ELSE {Ended("not JSON")}
    /\ UNCHANGED <<type, len, json, spoilt, first>>

WireNext ==
    \/ \E p \in DOMAIN json, how \in Wrong : Spoil(p, how)
    \/ Receive
    \/ Reread

WireSpec == WireInit /\ [][WireNext]_wireVars

-----------------------------------------------------------------------------
(* The members that trader_binance.cpp and marketdata_binance.cpp use.     *)
Uses ==
    [order_info |->
        {"time", "updateTime", "price", "origQty", "status", "side", "type",
         "orderId"},
     cancel_order_info |-> {"orderId", "status"},
     start_user_data_stream |-> {"listenKey"},
     future_order |-> {"c", "i", "s", "N", "z", "ap", "n", "X", "rp"},
     future_order_update |-> {"T"},
     order_update |-> {"c", "i", "s", "z", "Z", "n", "X", "T"},
     part_depths |-> {"a", "b"},
     ws_agg_trade |-> {"E", "T", "a", "p", "q", "m"},
     ws_trade |-> {"E", "T", "t", "p", "q", "a", "b", "m"},
     book_ticker |-> {"E", "T", "a", "A", "b", "B"},
     FULL |-> {"orderId"}, RESULT |-> {"orderId"}, ACK |-> {"orderId"}]

(* What a gateway takes from a message is what the exchange wrote under    *)
(* that member's key; only an integer, a boolean or a string whose own key *)
(* is spoilt may differ: no price and no quantity is made up, and no       *)
(* member is taken from the key of another.                                *)
(* (trader_binance.cpp, marketdata_binance.cpp; __get_json in types.cpp)   *)
NothingMadeUp ==
    first.how = "value" /\ type \in DOMAIN Uses =>
        \A m \in Uses[type] :
            \/ first.v[m] = m
            \/ /\ m \in DOMAIN Types[type].reads
               /\ Types[type].reads[m] \in spoilt
               /\ Types[type].members[m] \in {"num", "int", "bool", "str"}

(* The decimals of every value that reaches a callback are numbers that    *)
(* the message spells: a broken decimal means no callback, never a 0.      *)
DecimalsSpelt ==
    first.how = "value" =>
        \A m \in DOMAIN first.v :
            /\ Constructed.members[m] = "dec"
            /\ m \in DOMAIN Constructed.reads
            => first.v[m] = m

(* Printing a value and constructing it again gives the same value, for    *)
(* the types whose operator<< is the inverse of construct: all but those   *)
(* that print other keys, leave members out or print no JSON.              *)
Lossy == {"agg_trade", "ws_kline", "part_depths"}
RoundTrip ==
    again.how \notin {"none", "not JSON"} /\ type \notin Lossy =>
        again = first

(* What reaches a callback is what the exchange wrote, or nothing does; a  *)
(* type that prints all of its members prints them under their keys.       *)
WireFaithful == WireTypeOK /\ NothingMadeUp /\ DecimalsSpelt /\ RoundTrip
=============================================================================
