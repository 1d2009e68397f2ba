------------------------------- MODULE Orders --------------------------------
(***************************************************************************)
(* The life of an order: the strategy and its AccountBook (strategy.py,    *)
(* book.py, data_proxy.py), the trading gateway (trader.cpp and            *)
(* trader_binance.cpp) with its two threads, and the exchange.             *)
(*                                                                         *)
(* The strategy writes requests to a journal that the gateway's event loop *)
(* reads.  The loop hands them to the REST client; the answers to the      *)
(* calls and the messages of the user data stream are handled by the I/O   *)
(* thread, which writes Order frames back.  The exchange is external: it   *)
(* is modelled from what the gateway sends it and expects from it.         *)
(*                                                                         *)
(* All orders are of one instrument, with one price and one volume.        *)
(***************************************************************************)
EXTENDS Integers, Sequences, FiniteSetsExt

CONSTANTS
    Order,         \* order ids (frame uids, never used twice)
    Other,         \* an order of another strategy
    None,          \* no order record, no row, no status
    NaN,           \* the double 0.0 / 0.0
    Kinds,         \* instrument types traded: "Spot", "FFuture"
    Volume,        \* OrderInput.volume of each order
    Price,         \* OrderInput.price; the exchange fills at it
    Limit,         \* set_account_cash_limit of each coin
    Lossy,         \* may a REST call fail although the exchange accepted it?
    MaxStream,     \* bound: user data streams ever opened
    MaxAction,     \* bound: OrderAction frames (cancel and query)
    MaxStart,      \* bound: starts of the strategy
    MaxActive      \* bound: orders in the book at a time

Coin == {"base", "quote"}

(* PENDING_CANCEL, which the gateway would take for the end of the order,  *)
(* is not used by the exchange.                                            *)
ExStatus == {"new", "partially_filled", "filled", "canceled", "rejected", "expired"}

Status == {"Submitted", "Pending", "Cancelled", "Error", "Filled",
           "PartialFilledActive", "PreSend"}

(* What the book and the orders table keep of an order. *)
Keep == [status : Status, left : Nat]

ASSUME OrdersAssumption ==
    /\ {None, Other} \cap Order = {} /\ None # Other /\ None \notin ExStatus
    /\ None \notin Status /\ None \notin Keep
    /\ NaN \notin Int
    /\ Kinds \subseteq {"Spot", "FFuture"}
    /\ Volume \in [Order -> Nat \ {0}] /\ Price \in Nat /\ Limit \in [Coin -> Int]
    /\ Lossy \in BOOLEAN
    /\ MaxStream \in Nat \ {0} /\ MaxAction \in Nat /\ MaxStart \in Nat
    /\ MaxActive \in Nat

VARIABLES
    kind,       \* instrument type of the orders
    \* the strategy
    placed,     \* orders inserted
    buys,       \* those with Side::Buy, the others are Side::Sell
    active,     \* AccountBook._active_orders
    avail,      \* AccountBook._assets[coin]["avail"]
    frozen,     \* AccountBook._assets[coin]["frozen"]
    rows,       \* the orders table of LedgerDB
    asked,      \* number of OrderAction frames
    starts,     \* number of starts
    \* the gateway
    inbox,      \* OrderInput and OrderAction frames not read yet
    adding,     \* the order that the loop is emplacing in order_data_
    orderData,  \* keys of order_data_
    calls,      \* new_order calls: "none", "sent", "ok", "ec"
    cancels,    \* cancel calls under way
    queries,    \* order_info calls under way
    sockets,    \* m_set: open user data streams
    opened,     \* number of streams opened
    deleting,   \* streams whose deleter has not set m_reconnected yet
    reconnected,\* m_reconnected
    reports,    \* Order frames the strategy has not read
    \* the exchange
    ex,         \* status of each order
    filled,     \* executed quantity of each order
    stream,     \* messages of each open stream
    \* history
    told,       \* how far the newest Order frame of an order says it has got
    disputed,   \* orders of which a frame contradicted an earlier one or the
                \*   exchange
    doubled,    \* was a stream opened while another was open?
    lost,       \* orders whose last message did not get to the I/O thread
    finished    \* the final status the strategy was told

svars == <<placed, buys, active, avail, frozen, rows, asked, starts>>
gvars == <<adding, orderData, calls, cancels, queries>>
wvars == <<sockets, opened, deleting, reconnected>>
xvars == <<ex, filled, stream>>
hvars == <<told, disputed, doubled, lost, finished>>
vars == <<kind, svars, inbox, gvars, wvars, reports, xvars, hvars>>

(***************************************************************************)
(* Statuses and records                                                    *)
(***************************************************************************)
FromBinance ==
    [new |-> "Submitted", partially_filled |-> "PartialFilledActive",
     filled |-> "Filled", canceled |-> "Cancelled",
     rejected |-> "Error", expired |-> "Error"]

IsFinal(s) == s \notin {"Submitted", "Pending", "PartialFilledActive", "PreSend"}

Live(o) == ex[o] \in {"new", "partially_filled"}

(* An Order frame.  mine: strategy_id is the strategy's; avg: avg_price.  *)
Report(o, mine, s, traded, left, avg) ==
    [order |-> o, mine |-> mine, status |-> s, traded |-> traded,
     left |-> left, avg |-> avg]

Kept(s, left) == [status |-> s, left |-> left]

Message(o, s, n) == [order |-> o, status |-> s, traded |-> n]

Plus(a, b) == IF a = NaN \/ b = NaN THEN NaN ELSE a + b

Times(n, p) == IF p = NaN THEN NaN ELSE n * p

(***************************************************************************)
(* The strategy                                                            *)
(***************************************************************************)

(* The amount of coin that order o sets aside, as _set_init_asset and      *)
(* on_order_input compute it from a volume.                                *)
Reserved(buy, coin, volume) ==
    IF buy THEN IF coin = "quote" THEN volume * Price ELSE 0
           ELSE IF coin = "base" THEN volume ELSE 0

(* AccountBook.on_order_input *)
Freeze(o, buy) ==
    /\ active' = [active EXCEPT ![o] = Kept("PreSend", Volume[o])]
    /\ avail' = [c \in Coin |-> Plus(avail[c], -Reserved(buy, c, Volume[o]))]
    /\ frozen' = [c \in Coin |-> frozen[c] + Reserved(buy, c, Volume[o])]

(* Strategy.__insert_order: the OrderInput frame, then the book. *)
InsertOrder(o, buy) ==
    /\ o \notin placed
    /\ Cardinality({p \in Order : active[p] # None}) < MaxActive
    /\ placed' = placed \cup {o}
    /\ buys' = IF buy THEN buys \cup {o} ELSE buys
    /\ inbox' = Append(inbox, [type |-> "insert", order |-> o])
    /\ Freeze(o, buy)
    /\ UNCHANGED <<kind, rows, asked, starts, gvars, wvars, reports, xvars, hvars>>

(* Strategy.__cancel_order: only an order of the book, which becomes Pending. *)
CancelOrder(o) ==
    /\ active[o] # None
    /\ asked < MaxAction
    /\ asked' = asked + 1
    /\ inbox' = Append(inbox, [type |-> "cancel", order |-> o])
    /\ active' = [active EXCEPT ![o].status = "Pending"]
    /\ UNCHANGED <<kind, placed, buys, avail, frozen, rows, starts, gvars, wvars,
                   reports, xvars, hvars>>

(* Context::query_order *)
QueryOrder(o) ==
    /\ asked < MaxAction /\ o \in placed
    /\ asked' = asked + 1
    /\ inbox' = Append(inbox, [type |-> "query", order |-> o])
    /\ UNCHANGED <<kind, placed, buys, active, avail, frozen, rows, starts, gvars, wvars,
                   reports, xvars, hvars>>

(* Mutant: the whole volume comes back, also what was traded. *)
GainWhole(r, coin) ==
    IF r.order \in buys
    THEN IF coin = "base" THEN r.traded ELSE Volume[r.order] * Price
    ELSE IF coin = "quote" THEN Times(r.traded, r.avg) ELSE Volume[r.order]

(* What a final frame moves: the whole volume is released, what was traded *)
(* goes to the other coin, the rest becomes available again.               *)
Gain(r, coin) ==
    IF r.order \in buys
    THEN IF coin = "base" THEN r.traded ELSE r.left * Price
    ELSE IF coin = "quote" THEN Times(r.traded, r.avg) ELSE r.left

(* Mutant: only what was not traded is released. *)
BookOnOrderLeft(r) ==
    IF ~IsFinal(r.status)
    THEN /\ active' = [active EXCEPT ![r.order] = Kept(r.status, r.left)]
         /\ UNCHANGED <<avail, frozen>>
    ELSE IF active[r.order] = None
    THEN UNCHANGED <<active, avail, frozen>>
    ELSE /\ active' = [active EXCEPT ![r.order] = None]
         /\ avail' = [c \in Coin |-> Plus(avail[c], Gain(r, c))]
         /\ frozen' = [c \in Coin |-> frozen[c] - Reserved(r.order \in buys, c, r.left)]

(* AccountBook.on_order.  The gateway never writes a final frame without a *)
(* symbol, so the branch for those is left out.                            *)
BookOnOrder(r) ==
    IF ~IsFinal(r.status)
    THEN /\ active' = [active EXCEPT ![r.order] = Kept(r.status, r.left)]
         /\ UNCHANGED <<avail, frozen>>
    ELSE IF active[r.order] = None
    THEN UNCHANGED <<active, avail, frozen>>
    ELSE /\ active' = [active EXCEPT ![r.order] = None]
         /\ avail' = [c \in Coin |-> Plus(avail[c], Gain(r, c))]
         /\ frozen' = [c \in Coin |-> frozen[c] - Reserved(r.order \in buys, c, Volume[r.order])]

(* LedgerDB.add_order: the row is merged, then every row whose status is   *)
(* neither Submitted nor PartialFilledActive is deleted.                   *)
AddOrder(r) ==
    LET kept == {"Submitted", "PartialFilledActive"}
        merged == [rows EXCEPT ![r.order] = Kept(r.status, r.left)]
    IN  [o \in Order |-> IF merged[o] # None /\ merged[o].status \in kept
                         THEN merged[o] ELSE None]

(* Mutant: the end of an order is not recorded. *)
PersistActive(r) == rows' = IF ~IsFinal(r.status) THEN AddOrder(r) ELSE rows

(* Strategy.on_order *)
Persist(r) == rows' = IF r.status # "Error" THEN AddOrder(r) ELSE rows

(* One Order frame: first the book, then the strategy.  Both ignore frames *)
(* with another strategy_id.                                               *)
OnOrder ==
    /\ reports # <<>>
    /\ reports' = Tail(reports)
    /\ LET r == Head(reports)
       IN  IF r.mine
           THEN /\ BookOnOrder(r) /\ Persist(r)
                /\ finished' = [finished EXCEPT ![r.order] =
                                    IF IsFinal(r.status) THEN r.status ELSE @]
           ELSE UNCHANGED <<active, avail, frozen, rows, finished>>
    /\ UNCHANGED <<kind, placed, buys, asked, starts, inbox, gvars, wvars, xvars,
                   told, disputed, doubled, lost>>

(* LedgerDB.strategy_load_book *)
Loaded ==
    LET kept == {"Submitted", "PreSend", "PartialFilledActive"}
    IN  [o \in Order |-> IF rows[o] # None /\ rows[o].status \in kept
                         THEN rows[o] ELSE None]

(* Strategy._set_init_asset *)
InitFrozen(coin) ==
    MapThenSumSet(LAMBDA o : Reserved(o \in buys, coin, Loaded[o].left),
                  {o \in Order : Loaded[o] # None})

(* The strategy has died and starts again.  strategy_load_book finds the   *)
(* orders, and no assets: make_asset_event leaves strategy_id out of the   *)
(* rows that it selects by.  Frames written before the start are not read. *)
Restart ==
    /\ starts < MaxStart
    /\ starts' = starts + 1
    /\ active' = Loaded
    /\ frozen' = [c \in Coin |-> InitFrozen(c)]
    /\ avail' = [c \in Coin |-> Limit[c] - InitFrozen(c)]
    /\ reports' = <<>>
    /\ UNCHANGED <<kind, placed, buys, rows, asked, inbox, gvars, wvars, xvars, hvars>>

(***************************************************************************)
(* The gateway's event loop                                                *)
(***************************************************************************)
NextRequest(type) == adding = None /\ inbox # <<>> /\ Head(inbox).type = type

(* insert_order: order_data_.emplace begins, for this strategy's order or  *)
(* another's (which matters only when a message is waiting) ...            *)
Emplace ==
    /\ \/ /\ NextRequest("insert")
          /\ adding' = Head(inbox).order
          /\ inbox' = Tail(inbox)
       \/ /\ adding = None /\ \E i \in DOMAIN stream : stream[i] # <<>>
          /\ adding' = Other
          /\ UNCHANGED inbox
    /\ UNCHANGED <<kind, svars, orderData, calls, cancels, queries, wvars, reports,
                   xvars, hvars>>

(* ... ends, and the order is sent with a REST client of its own. *)
SendOrder ==
    /\ adding # None
    /\ orderData' = orderData \cup ({adding} \ {Other})
    /\ calls' = [o \in Order |-> IF o = adding THEN "sent" ELSE calls[o]]
    /\ adding' = None
    /\ UNCHANGED <<kind, svars, inbox, cancels, queries, wvars, reports, xvars, hvars>>

(* cancel_order: the answer is only logged. *)
SendCancel ==
    /\ NextRequest("cancel")
    /\ cancels' = cancels \cup {Head(inbox).order}
    /\ inbox' = Tail(inbox)
    /\ UNCHANGED <<kind, svars, adding, orderData, calls, queries, wvars, reports,
                   xvars, hvars>>

(* query_order *)
SendQuery ==
    /\ NextRequest("query")
    /\ queries' = queries \cup {Head(inbox).order}
    /\ inbox' = Tail(inbox)
    /\ UNCHANGED <<kind, svars, adding, orderData, calls, cancels, wvars, reports,
                   xvars, hvars>>

(* _check_status every 5 seconds, with fetch_reconnect_flag: a lost stream *)
(* is replaced, unless _start_userdata cannot get a listen key.            *)
CheckStatus ==
    /\ adding = None
    /\ reconnected \/ sockets = {}
    /\ reconnected' = FALSE
    /\ \/ /\ opened < MaxStream
          /\ opened' = opened + 1
          /\ sockets' = sockets \cup {opened + 1}
          /\ doubled' = (doubled \/ sockets # {})
       \/ UNCHANGED <<opened, sockets, doubled>>
    /\ UNCHANGED <<kind, svars, inbox, gvars, deleting, reports, xvars, told,
                   disputed, lost, finished>>

(***************************************************************************)
(* The gateway's I/O thread                                                *)
(***************************************************************************)

(* An Order frame is written.  History: it is disputed if it says less     *)
(* than an earlier one, or says the end of an order a second time.         *)
Progress(r) == IF IsFinal(r.status) THEN Volume[r.order] + 1 ELSE r.traded

Write(r, wrong) ==
    LET o == r.order
    IN  /\ reports' = Append(reports, r)
        /\ told' = [told EXCEPT ![o] = IF Progress(r) > @ THEN Progress(r) ELSE @]
        /\ disputed' = IF wrong \/ Progress(r) < told[o] \/ told[o] > Volume[o]
                       THEN disputed \cup {o} ELSE disputed

(* Mutant: futures orders are reported as Submitted as well. *)
OnNewOrderAlways(o) ==
    /\ calls[o] \in {"ok", "ec"}
    /\ calls' = [calls EXCEPT ![o] = "none"]
    /\ IF calls[o] = "ec"
       THEN Write(Report(o, TRUE, "Error", 0, Volume[o], 0), ex[o] # "rejected")
       ELSE Write(Report(o, TRUE, "Submitted", 0, Volume[o], 0), FALSE)
    /\ UNCHANGED <<kind, svars, inbox, adding, orderData, cancels, queries, wvars,
                   xvars, doubled, lost, finished>>

(* The answer to new_order: a spot order is reported as Submitted or Error, *)
(* of a futures order only an error is reported.                           *)
OnNewOrder(o) ==
    /\ calls[o] \in {"ok", "ec"}
    /\ calls' = [calls EXCEPT ![o] = "none"]
    /\ IF calls[o] = "ec"
       THEN Write(Report(o, TRUE, "Error", 0, Volume[o], 0), ex[o] # "rejected")
       ELSE IF kind = "Spot"
       THEN Write(Report(o, TRUE, "Submitted", 0, Volume[o], 0), FALSE)
       ELSE UNCHANGED <<reports, told, disputed>>
    /\ UNCHANGED <<kind, svars, inbox, adding, orderData, cancels, queries, wvars,
                   xvars, doubled, lost, finished>>

(* The answer to order_info: a frame without strategy_id and volumes, or   *)
(* none if the call failed or the writer of the event at hand is missing.  *)
OnOrderInfo(o) ==
    /\ o \in queries
    /\ queries' = queries \ {o}
    /\ \/ /\ ex[o] \in ExStatus \ {"rejected"}
          /\ reports' = Append(reports, Report(o, FALSE, FromBinance[ex[o]], 0, 0, 0))
       \/ UNCHANGED reports
    /\ UNCHANGED <<kind, svars, inbox, adding, orderData, calls, cancels, wvars,
                   xvars, hvars>>

(* Mutant: the sum instead of the quotient. *)
AvgPriceSum(n) == IF kind = "Spot" /\ n = 0 THEN NaN ELSE n * Price

(* A spot message gives the average as the quotient of two sums. *)
AvgPrice(n) == IF kind = "Spot" /\ n = 0 THEN NaN ELSE Price

Last(m) == IsFinal(FromBinance[m.status])

(* A message of the user data stream about an order of order_data_.  The   *)
(* entry stays as long as the status is in keep.                           *)
UpdateKeeping(i, keep) ==
    /\ stream[i] # <<>>
    /\ stream' = [stream EXCEPT ![i] = Tail(@)]
    /\ LET m == Head(stream[i])
           o == m.order
           s == FromBinance[m.status]
       IN  /\ o \in orderData
           /\ Write(Report(o, TRUE, s, m.traded, Volume[o] - m.traded,
                           AvgPrice(m.traded)), FALSE)
           /\ orderData' = IF s \notin keep THEN orderData \ {o} ELSE orderData
    /\ UNCHANGED <<kind, svars, inbox, adding, calls, cancels, queries, wvars, ex,
                   filled, doubled, lost, finished>>

(* Mutant: a partial fill ends the order. *)
OnUpdateForgets(i) == UpdateKeeping(i, {"Submitted"})

OnUpdate(i) == UpdateKeeping(i, {"PartialFilledActive", "Submitted"})

(* A message about an order that find does not find: it is not there, or   *)
(* the loop changes the tree meanwhile (find does not take order_mtx_).    *)
OnUpdateMissed(i) ==
    /\ stream[i] # <<>>
    /\ stream' = [stream EXCEPT ![i] = Tail(@)]
    /\ LET m == Head(stream[i])
       IN  /\ m.order \notin orderData \/ adding # None
           /\ lost' = IF m.order \in orderData /\ Last(m)
                      THEN lost \cup {m.order} ELSE lost
    /\ UNCHANGED <<kind, svars, inbox, gvars, wvars, reports, ex, filled, told,
                   disputed, doubled, finished>>

(* A stream ends, after an error or when its 3 to 4 hours are over; its    *)
(* deleter takes it out of m_set ...                                       *)
CloseStream(i) ==
    /\ i \in sockets
    /\ sockets' = sockets \ {i}
    /\ deleting' = deleting \cup {i}
    /\ stream' = [stream EXCEPT ![i] = <<>>]
    /\ lost' = lost \cup {stream[i][k].order :
                            k \in {j \in 1 .. Len(stream[i]) : Last(stream[i][j])}}
    /\ UNCHANGED <<kind, svars, inbox, gvars, opened, reconnected, reports, ex,
                   filled, told, disputed, doubled, finished>>

(* ... and then sets m_reconnected. *)
SetReconnected(i) ==
    /\ i \in deleting
    /\ deleting' = deleting \ {i}
    /\ reconnected' = TRUE
    /\ UNCHANGED <<kind, svars, inbox, gvars, sockets, opened, reports, xvars, hvars>>

(***************************************************************************)
(* The exchange                                                            *)
(***************************************************************************)

(* A change of an order is sent to the streams that are open. *)
Change(o, s, n) ==
    /\ ex' = [ex EXCEPT ![o] = s]
    /\ filled' = [filled EXCEPT ![o] = n]
    /\ stream' = [i \in DOMAIN stream |->
                     IF i \in sockets THEN Append(stream[i], Message(o, s, n))
                                      ELSE stream[i]]
    /\ lost' = IF sockets = {} /\ IsFinal(FromBinance[s])
               THEN lost \cup {o} ELSE lost
    /\ UNCHANGED <<kind, svars, inbox, adding, orderData, queries, wvars, reports,
                   told, disputed, doubled, finished>>

Accept(o) ==
    /\ calls[o] = "sent"
    /\ \E answer \in IF Lossy THEN {"ok", "ec"} ELSE {"ok"} :
         calls' = [calls EXCEPT ![o] = answer]
    /\ Change(o, "new", 0)
    /\ UNCHANGED cancels

(* The order is refused, or the request does not arrive. *)
Refuse(o) ==
    /\ calls[o] = "sent"
    /\ calls' = [calls EXCEPT ![o] = "ec"]
    /\ ex' = [ex EXCEPT ![o] = "rejected"]
    /\ UNCHANGED <<kind, svars, inbox, adding, orderData, cancels, queries, wvars,
                   reports, filled, stream, hvars>>

Execute(o, n) ==
    /\ Live(o) /\ filled[o] + n <= Volume[o]
    /\ Change(o, IF filled[o] + n = Volume[o] THEN "filled" ELSE "partially_filled",
              filled[o] + n)
    /\ UNCHANGED <<calls, cancels>>

Expire(o) ==
    /\ Live(o)
    /\ Change(o, "expired", filled[o])
    /\ UNCHANGED <<calls, cancels>>

Cancel(o) ==
    /\ o \in cancels /\ Live(o)
    /\ cancels' = cancels \ {o}
    /\ Change(o, "canceled", filled[o])
    /\ UNCHANGED calls

(* The cancellation comes too late or too early, or gets lost. *)
CancelFails(o) ==
    /\ o \in cancels
    /\ cancels' = cancels \ {o}
    /\ UNCHANGED <<kind, svars, inbox, adding, orderData, calls, queries, wvars,
                   reports, xvars, hvars>>

(***************************************************************************)
(* Specification                                                           *)
(***************************************************************************)
Stream == 1 .. MaxStream

(* on_start opens the futures stream only, and not if the login fails; the *)
(* spot stream is opened by the first _check_status.                       *)
Init ==
    /\ kind \in Kinds
    /\ placed = {} /\ buys = {} /\ asked = 0 /\ starts = 1
    /\ active = [o \in Order |-> None]
    /\ avail = Limit
    /\ frozen = [c \in Coin |-> 0]
    /\ rows = [o \in Order |-> None]
    /\ inbox = <<>> /\ adding = None /\ orderData = {}
    /\ calls = [o \in Order |-> "none"]
    /\ cancels = {} /\ queries = {}
    /\ opened \in IF kind = "FFuture" THEN {0, 1} ELSE {0}
    /\ sockets = 1 .. opened
    /\ deleting = {} /\ reconnected = FALSE
    /\ reports = <<>>
    /\ ex = [o \in Order |-> None]
    /\ filled = [o \in Order |-> 0]
    /\ stream = [i \in Stream |-> <<>>]
    /\ told = [o \in Order |-> 0]
    /\ disputed = {} /\ doubled = FALSE /\ lost = {}
    /\ finished = [o \in Order |-> None]

Strategy ==
    \/ \E o \in Order : \/ \E buy \in BOOLEAN : InsertOrder(o, buy)
                        \/ CancelOrder(o) \/ QueryOrder(o)
    \/ OnOrder
    \/ Restart

Loop == Emplace \/ SendOrder \/ SendCancel \/ SendQuery \/ CheckStatus

IoThread ==
    \/ \E o \in Order : OnNewOrder(o) \/ OnOrderInfo(o)
    \/ \E i \in Stream : \/ OnUpdate(i) \/ OnUpdateMissed(i)
                         \/ CloseStream(i) \/ SetReconnected(i)

Exchange ==
    \E o \in Order :
        \/ Accept(o) \/ Refuse(o)
        \/ \E n \in 1 .. Volume[o] : Execute(o, n)
        \/ Expire(o) \/ Cancel(o) \/ CancelFails(o)

Next == Strategy \/ Loop \/ IoThread \/ Exchange

Spec == Init /\ [][Next]_vars

(* The strategy's and the gateway's loops go on, and the I/O thread        *)
(* handles what has arrived.                                               *)
Fairness ==
    /\ WF_vars(OnOrder)
    /\ WF_vars(Emplace \/ SendOrder \/ SendCancel \/ SendQuery)
    /\ \A o \in Order : WF_vars(OnNewOrder(o))
    /\ \A i \in Stream : WF_vars(OnUpdate(i) \/ OnUpdateMissed(i))

FairSpec == Spec /\ Fairness

(***************************************************************************)
(* Properties                                                              *)
(***************************************************************************)
Number == Int \cup {NaN}
Frame == [order : Order, mine : BOOLEAN, status : Status, traded : Nat,
          left : Nat, avg : {0, Price, NaN}]

AmountsOK == avail \in [Coin -> Number] /\ frozen \in [Coin -> Int]

StateOK ==
    /\ kind \in Kinds
    /\ placed \subseteq Order /\ buys \subseteq placed
    /\ asked \in 0 .. MaxAction /\ starts \in Nat
    /\ active \in [Order -> Keep \cup {None}]
    /\ rows \in [Order -> Keep \cup {None}]
    /\ inbox \in Seq([type : {"insert", "cancel", "query"}, order : Order])
    /\ adding \in Order \cup {None, Other} /\ orderData \subseteq Order
    /\ calls \in [Order -> {"none", "sent", "ok", "ec"}]
    /\ cancels \subseteq Order /\ queries \subseteq Order
    /\ opened \in 0 .. MaxStream
    /\ sockets \subseteq Stream /\ deleting \subseteq Stream
    /\ reconnected \in BOOLEAN
    /\ reports \in Seq(Frame)
    /\ ex \in [Order -> ExStatus \cup {None}]
    /\ filled \in [Order -> Nat]
    /\ stream \in [Stream -> Seq([order : Order, status : ExStatus,
                                  traded : Nat])]
    /\ told \in [Order -> Nat]
    /\ disputed \subseteq Order /\ doubled \in BOOLEAN /\ lost \subseteq Order
    /\ finished \in [Order -> {None, "Cancelled", "Error", "Filled"}]

(* Type invariant: the contents of the book, of the gateway's maps and     *)
(* queues and of the exchange.                                             *)
TypeOK == AmountsOK /\ StateOK

(* The gateway knows every order that can still change at the exchange:    *)
(* order_data_ is filled before the order is sent and an entry is erased   *)
(* with the last message of its order only.                                *)
Tracked == \A o \in Order : Live(o) => o \in orderData

(* The book moves value between coins and between available and frozen and *)
(* neither creates nor destroys any, whatever frames on_order is given, in *)
(* whatever order, and whatever a restart has forgotten.                   *)
ValueConserved ==
    avail["quote"] # NaN =>
        avail["quote"] + frozen["quote"] + Price * (avail["base"] + frozen["base"])
            = Limit["quote"] + Price * Limit["base"]

(* The available amount is a number. *)
AvailIsNumber == \A c \in Coin : avail[c] # NaN

(* The futures gateway contradicts itself or the exchange only after an    *)
(* ambiguous REST error or with two streams at once.                       *)
Consistent == kind = "FFuture" /\ ~Lossy /\ ~doubled => disputed = {}

(* While nothing is disputed, what is frozen is what the active orders     *)
(* have set aside, until the first restart.                                *)
FrozenExact ==
    disputed = {} /\ starts = 1 =>
        \A c \in Coin :
            frozen[c] = MapThenSumSet(LAMBDA o : Reserved(o \in buys, c, Volume[o]),
                                      {o \in Order : active[o] # None})

(* An order that ended for the strategy is not active (again), also after  *)
(* a restart: on_order pops it and add_order deletes its row, except that  *)
(* Error frames do not get to the table.                                   *)
NoZombie ==
    \A o \in Order :
        /\ finished[o] # None /\ o \notin disputed
        /\ finished[o] = "Error" => starts = 1
        => active[o] = None

(* An order that ended for the strategy is not active. *)
FinishedLeave == \A o \in Order : finished[o] # None => active[o] = None

(* An order that ended at the exchange leaves the strategy's book, unless  *)
(* its last message was lost, the gateway contradicted itself or the       *)
(* strategy restarted.                                                     *)
Resolved ==
    \A o \in Order :
        ex[o] \in {"filled", "canceled", "expired", "rejected"} ~>
            active[o] = None \/ o \in lost \cup disputed \/ starts > 1

(* The book holds numbers where it adds them up, and what it froze is what *)
(* its active orders need (on_order_input, on_order, _set_init_asset).     *)
BookExact == TypeOK /\ FrozenExact
==============================================================================
