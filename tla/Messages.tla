------------------------------ MODULE Messages -------------------------------
(***************************************************************************)
(* The records of the journal (msg.h): packed structs whose names live in  *)
(* char arrays, set with strncpy and read up to the first NUL byte, and    *)
(* their JSON.  A name either fits its array with its NUL byte ("short")   *)
(* or fills it ("full"): then reading it runs on into the next member.     *)
(* Of a value only the member it was meant for is kept.                    *)
(***************************************************************************)
EXTENDS Naturals, Sequences, FiniteSetsExt

CONSTANT MaxSet   \* bound: names set

ASSUME MessagesAssumption == MaxSet \in Nat

(* The members that are char arrays. *)
Names ==
    {"symbol", "exchange_id", "product_id", "open_date", "create_date",
     "expire_date", "source_id", "client_id", "account_id", "ex_order_id",
     "error_msg", "fee_currency", "error_code", "base_currency",
     "quote_currency", "coin"}

-----------------------------------------------------------------------------
(* The structs: their members in the order of the memory. *)
Instrument ==
    <<"symbol", "exchange_id", "instrument_type", "product_id",
      "contract_multiplier", "price_tick", "open_date", "create_date",
      "expire_date", "delivery_year", "delivery_month", "is_trading",
      "long_margin_ratio", "short_margin_ratio">>
Ticker ==
    <<"source_id", "symbol", "exchange_id", "data_time", "instrument_type",
      "bid_price", "bid_volume", "ask_price", "ask_volume">>
Depth ==
    <<"source_id", "symbol", "exchange_id", "data_time", "instrument_type",
      "bid_price", "ask_price", "bid_volume", "ask_volume">>
Trade ==
    <<"client_id", "symbol", "exchange_id", "instrument_type", "trade_id",
      "ask_id", "bid_id", "price", "volume", "side", "position_side",
      "trade_time">>
IndexPrice == <<"symbol", "exchange_id", "instrument_type", "price">>
Bar ==
    <<"symbol", "exchange_id", "start_time", "end_time", "open", "close",
      "low", "high", "volume", "start_volume", "trade_count", "interval">>
OrderInput ==
    <<"strategy_id", "order_id", "symbol", "exchange_id", "source_id",
      "account_id", "instrument_type", "price", "stop_price", "volume", "side",
      "position_side", "order_type", "time_condition", "reduce_only">>
OrderAction ==
    <<"strategy_id", "order_id", "order_action_id", "symbol", "ex_order_id",
      "action_flag", "instrument_type">>
OrderActionError == <<"order_id", "order_action_id", "error_id", "error_msg">>
Order ==
    <<"strategy_id", "order_id", "ex_order_id", "symbol", "instrument_type",
      "exchange_id", "account_id", "source_id", "price", "volume",
      "volume_traded", "volume_left", "stop_price", "close_pnl", "avg_price",
      "fee", "fee_currency", "status", "time_condition", "side",
      "position_side", "order_type", "error_code", "insert_time",
      "update_time">>
MyTrade ==
    <<"strategy_id", "trade_time", "trade_id", "order_id", "ex_order_id",
      "symbol", "exchange_id", "account_id", "source_id", "instrument_type",
      "side", "offset", "price", "volume", "fee", "fee_currency",
      "base_currency", "quote_currency">>
Asset ==
    <<"update_time", "holder_uid", "ledger_category", "coin", "account_id",
      "exchange_id", "avail", "margin", "frozen">>
Position ==
    <<"strategy_id", "update_time", "symbol", "instrument_type", "exchange_id",
      "holder_uid", "ledger_category", "source_id", "account_id", "direction",
      "volume", "frozen_total", "last_price", "avg_open_price",
      "settlement_price", "margin", "realized_pnl", "unrealized_pnl">>

Structs ==
    [Instrument |-> Instrument, Ticker |-> Ticker, Depth |-> Depth,
     Trade |-> Trade, IndexPrice |-> IndexPrice, Bar |-> Bar,
     OrderInput |-> OrderInput, OrderAction |-> OrderAction,
     OrderActionError |-> OrderActionError, Order |-> Order,
     MyTrade |-> MyTrade, Asset |-> Asset, Position |-> Position]

Fields(s) == {s[i] : i \in DOMAIN s}

-----------------------------------------------------------------------------
(* The JSON: the members to_json writes, and the key from_json reads a     *)
(* member from; four structs are never read.                               *)
Same(S) == [m \in S |-> m]
JsonOf(writes, reads) == [writes |-> writes, reads |-> reads]
Both(S) == JsonOf(S, Same(S))
WriteOnly(S) == JsonOf(S, <<>>)

Ticker_json == Both(Fields(Ticker))
Depth_json == JsonOf(Fields(Depth), Same(Fields(Depth) \ {"source_id"}))
Trade_json == Both(Fields(Trade))
IndexPrice_json == Both(Fields(IndexPrice))
OrderInput_json ==
    JsonOf(Fields(OrderInput),
          [Same(Fields(OrderInput)) EXCEPT !["order_id"] = "client_order_id"])
OrderAction_json == Both(Fields(OrderAction))
OrderActionError_json == Both(Fields(OrderActionError))
(* Mutation of Order_json: the volume left is forgotten. *)
Order_json_forgets ==
    JsonOf(Fields(Order) \ {"avg_price"},
          Same(Fields(Order) \ {"avg_price", "volume_left"}))
Order_json == Both(Fields(Order) \ {"avg_price"})
MyTrade_json == Both(Fields(MyTrade))
Instrument_json == WriteOnly(Fields(Instrument) \ {"is_trading"})
Bar_json == WriteOnly(Fields(Bar) \ {"interval"})
Asset_json == WriteOnly(Fields(Asset))
Position_json ==
    WriteOnly(Fields(Position) \ {"holder_uid", "ledger_category", "source_id"})

Json ==
    [Ticker |-> Ticker_json, Depth |-> Depth_json, Trade |-> Trade_json,
     IndexPrice |-> IndexPrice_json, OrderInput |-> OrderInput_json,
     OrderAction |-> OrderAction_json,
     OrderActionError |-> OrderActionError_json, Order |-> Order_json,
     MyTrade |-> MyTrade_json, Instrument |-> Instrument_json,
     Bar |-> Bar_json, Asset |-> Asset_json, Position |-> Position_json]

-----------------------------------------------------------------------------
(* A value: the member it was meant for, and how it is there.  An empty    *)
(* name is "short".                                                        *)
Val(m, how) == [of |-> m, how |-> how]
Given == {"short", "full"}
How == Given \cup {"number", "empty", "stale", "junk"}

Blank(s, how) == [m \in Fields(s) |-> Val(m, how)]

Place(s, m) == CHOOSE i \in DOMAIN s : s[i] = m

(* std::string(array): up to the first NUL byte, in this member or later.  *)
(* Past the names it ends in some byte of a number, or after the struct.   *)
Getter(s, mem, m) ==
    LET at      == Place(s, m)
        name(i) == i \in DOMAIN s /\ s[i] \in Names
        nul     == Min({i \in at .. Len(s) + 1 : name(i) => mem[s[i]].how # "full"})
    IN  [k \in 1 .. nul - at + 1 |->
            IF name(at + k - 1) THEN mem[s[at + k - 1]] ELSE "bytes"]

(* Mutation of Strncpy: strcpy, as in order_from_input. *)
StrncpyUnbounded(s, mem, m, v) ==
    LET at == Place(s, m)
        last == IF v.how = "full" THEN at + 1 ELSE at
    IN  {[x \in DOMAIN mem |->
            IF x = m THEN v
            ELSE IF \E i \in DOMAIN s : s[i] = x /\ i \in (at + 1) .. last
            THEN Val(x, "junk") ELSE mem[x]]}

(* strncpy(array, text, LEN): the array and nothing else. *)
Strncpy(s, mem, m, v) == {[mem EXCEPT ![m] = v]}

(* strcpy(array, text): a text that does not end in its array runs on over *)
(* some of the members that follow.                                        *)
Strcpy(s, mem, m, text) ==
    LET at == Place(s, m)
        over(n) == {s[i] : i \in (at + 1) .. (at + n)}
    IN  {[x \in DOMAIN mem |->
            IF x = m THEN Head(text)
            ELSE IF x \in over(n) THEN Val(x, "junk") ELSE mem[x]]
         : n \in IF Len(text) = 1 THEN {0} ELSE 1 .. Len(s) - at}

-----------------------------------------------------------------------------
VARIABLES
    kind,    \* the struct
    mem,     \* its members
    sets,    \* number of names set
    wrote,   \* history: how each name was set last
    dumped,  \* what to_json has written, by key
    back,    \* the struct from_json has filled
    order    \* the order order_from_input has filled

messageVars == <<kind, mem, sets, wrote, dumped, back, order>>

Empty == <<>>

NoFrame == "none"

MessageTypeOK ==
    /\ kind \in DOMAIN Structs \cup {NoFrame}
    /\ sets \in 0 .. MaxSet
    /\ kind # NoFrame =>
        /\ DOMAIN mem = Fields(Structs[kind])
        /\ back # Empty => DOMAIN back = Fields(Structs[kind])
        /\ order # Empty => DOMAIN order = Fields(Order)
        /\ \A m \in DOMAIN mem : mem[m].how \in How

MessageInit ==
    /\ kind = NoFrame /\ mem = Empty /\ sets = 0 /\ wrote = Empty
    /\ dumped = Empty /\ back = Empty /\ order = Empty

(* A frame of the journal: zeros, and the numbers have been assigned. *)
OpenData(k) ==
    /\ kind = NoFrame /\ kind' = k
    /\ mem' = [m \in Fields(Structs[k]) |->
                  Val(m, IF m \in Names THEN "empty" ELSE "number")]
    /\ wrote' = [m \in Fields(Structs[k]) \cap Names |-> "empty"]
    /\ UNCHANGED <<sets, dumped, back, order>>

(* set_symbol, set_exchange_id, ... *)
SetName(m, how) ==
    /\ sets < MaxSet /\ dumped = Empty /\ order = Empty
    /\ m \in DOMAIN mem \cap Names
    /\ mem' \in Strncpy(Structs[kind], mem, m, Val(m, how))
    /\ sets' = sets + 1 /\ wrote' = [wrote EXCEPT ![m] = how]
    /\ UNCHANGED <<kind, dumped, back, order>>

ToJson ==
    /\ kind # NoFrame /\ dumped = Empty
    /\ dumped' = [m \in Json[kind].writes |->
                  IF m \in Names THEN Getter(Structs[kind], mem, m)
                  ELSE <<mem[m]>>]
    /\ UNCHANGED <<kind, mem, sets, wrote, back, order>>

(* Mutation of FromJson: a struct of the members that are read. *)
FromJsonPart ==
    LET reads == Json[kind].reads
        value(m) == IF reads[m] \in DOMAIN dumped THEN Head(dumped[reads[m]])
                    ELSE Val(m, "junk")
    IN  /\ dumped # Empty /\ back = Empty /\ reads # <<>>
        /\ back' = [m \in DOMAIN reads |-> value(m)]
        /\ UNCHANGED <<kind, mem, sets, wrote, dumped, order>>

(* from_json into a frame that may hold anything; a key that is not there  *)
(* is undefined behaviour of operator[] on a const dumped.                   *)
FromJson ==
    LET reads == Json[kind].reads
        value(m) == IF reads[m] \in DOMAIN dumped THEN Head(dumped[reads[m]])
                    ELSE Val(m, "junk")
    IN  /\ dumped # Empty /\ back = Empty /\ reads # <<>>
        /\ back' = [m \in DOMAIN mem |-> IF m \in DOMAIN reads THEN value(m)
                                         ELSE Val(m, "stale")]
        /\ UNCHANGED <<kind, mem, sets, wrote, dumped, order>>

(* order_from_input: the names with strcpy, one after the other, and then  *)
(* the numbers; what is not mentioned keeps what the frame holds.          *)
CopiedNumbers ==
    {"instrument_type", "price", "stop_price", "volume", "time_condition",
     "side", "position_side", "order_type"}
SetNumbers == {"volume_traded", "volume_left", "close_pnl", "status"}

Names4(o0) ==
    LET get(m) == Getter(OrderInput, mem, m)
    IN  UNION {UNION {UNION {
            Strcpy(Order, o3, "source_id", get("source_id"))
            : o3 \in Strcpy(Order, o2, "account_id", get("account_id"))}
            : o2 \in Strcpy(Order, o1, "exchange_id", get("exchange_id"))}
            : o1 \in Strcpy(Order, o0, "symbol", get("symbol"))}

Numbers(o) ==
    [m \in DOMAIN o |->
        IF m \in CopiedNumbers THEN mem[m]
        ELSE IF m \in SetNumbers THEN Val(m, "number")
        ELSE o[m]]

Ids(o) == [o EXCEPT !["strategy_id"] = mem["strategy_id"],
                    !["order_id"] = mem["order_id"]]

(* Mutation of Filled: the names last. *)
FilledNamesLast == Names4(Numbers(Ids(Blank(Order, "stale"))))
Filled == {Numbers(o) : o \in Names4(Ids(Blank(Order, "stale")))}

OrderFromInput ==
    /\ kind = "OrderInput" /\ order = Empty
    /\ order' \in Filled
    /\ UNCHANGED <<kind, mem, sets, wrote, dumped, back>>

MessageNext ==
    \/ \E k \in DOMAIN Structs : OpenData(k)
    \/ \E m \in Names, how \in Given : SetName(m, how)
    \/ ToJson \/ FromJson \/ OrderFromInput

MessageSpec == MessageInit /\ [][MessageNext]_messageVars

-----------------------------------------------------------------------------
(* A name that was set and fits is read back as it was set, whatever the   *)
(* names before and after it in the struct hold.                           *)
NamesApart ==
    \A m \in DOMAIN wrote :
        wrote[m] # "full" =>
            Getter(Structs[kind], mem, m) = <<Val(m, wrote[m])>>

(* What the JSON of a struct gives back is the struct: all but the order   *)
(* id of an input, the source of a depth and the average price of an order. *)
Lost == [OrderInput |-> {"order_id"}, Depth |-> {"source_id"},
         Order |-> {"avg_price"}]
JsonKeeps ==
    back # Empty =>
        \A m \in DOMAIN mem :
            back[m] # mem[m] => kind \in DOMAIN Lost /\ m \in Lost[kind]

(* An order made from an input has its ids and numbers, whatever the names *)
(* are (strcpy may run over the numbers, but they are assigned after it),  *)
(* and its names when every name fits its array.                           *)
OrderOfInput ==
    order # Empty =>
        /\ \A m \in CopiedNumbers \cup {"strategy_id", "order_id"} :
              order[m] = mem[m]
        /\ \A m \in SetNumbers : order[m].how = "number"
        /\ (\A m \in DOMAIN mem : mem[m].how # "full") =>
              /\ \A m \in DOMAIN mem \cap Names : order[m] = mem[m]
              /\ \A m \in DOMAIN order : order[m].how # "junk"

(* A struct in a journal keeps what was put into it: its names next to     *)
(* each other, its members through JSON, an input's in the order made of   *)
(* it (setters, to_json and from_json, order_from_input of msg.h).         *)
RecordKept == MessageTypeOK /\ NamesApart /\ JsonKeeps /\ OrderOfInput
=============================================================================
