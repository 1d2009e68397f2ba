-------------------------------- MODULE Bars ---------------------------------
(***************************************************************************)
(* The bar generator (service/bar.cpp), for one instrument: the trades of  *)
(* a market data source are gathered into bars of a fixed length, and the  *)
(* first trade at or after the end of a bar writes it.  Trades carry the   *)
(* time of the exchange and may come late.  Volumes are left out: a bar    *)
(* has the difference between the trades its open and close are of.        *)
(***************************************************************************)
EXTENDS Integers, Sequences, FiniteSetsExt

CONSTANTS
    TimeInterval,  \* time_interval_, the length of a bar
    Clock,         \* times of subscriptions and trades
    Price,
    MaxTrades      \* bound: trades

ASSUME BarsAssumption ==
    /\ TimeInterval \in Nat \ {0} /\ MaxTrades \in Nat
    /\ Clock \subseteq Nat /\ Price \subseteq Int

VARIABLES
    granted,   \* there is a writer to the source
    waiting,   \* a subscription waits for it
    bar,       \* of bars_
    written,   \* history: the bars written
    traded     \* history: the trades read, and if before the bar of the time

barVars == <<granted, waiting, bar, written, traded>>
NoBar == <<>>

NewBar(start) ==
    [start |-> start, end |-> start + TimeInterval, count |-> 0,
     open |-> 0, close |-> 0, low |-> 0, high |-> 0]

(* The first bar starts at the next full interval. *)
FirstBar(now) ==
    IF bar = NoBar THEN NewBar(now - (now % TimeInterval) + TimeInterval) ELSE bar

(* Subscribe with the type "bar". *)
OnSubscribe(now) ==
    /\ IF granted THEN bar' = FirstBar(now) /\ UNCHANGED waiting
                  ELSE waiting' = TRUE /\ UNCHANGED bar
    /\ UNCHANGED <<granted, written, traded>>

(* The source is there and has granted the channel: RequestWriteTo. *)
OnRequestWriteTo(now) ==
    /\ ~granted /\ granted' = TRUE /\ waiting' = FALSE
    /\ bar' = IF waiting THEN FirstBar(now) ELSE bar
    /\ UNCHANGED <<written, traded>>

Opened(b, t) ==
    [b EXCEPT !.open = t.price, !.close = t.price, !.low = t.price, !.high = t.price]

(* Mutant: the first trade of a bar is one like any other. *)
CountedOn(b, t) ==
    IF t.time \notin b.start .. b.end THEN b
    ELSE [b EXCEPT !.count = @ + 1, !.close = t.price,
                   !.low = Min({@, t.price}), !.high = Max({@, t.price})]

(* A trade in the time of the bar, its end included. *)
Counted(b, t) ==
    LET first == IF b.count = 0 THEN Opened(b, t) ELSE b
    IN  IF t.time \notin b.start .. b.end THEN b
        ELSE [first EXCEPT !.count = @ + 1, !.close = t.price,
                           !.low = Min({@, t.price}), !.high = Max({@, t.price})]

(* Mutant: the intervals that are skipped end after the trade. *)
ReopenedPast(b, t) ==
    LET skipped == (t.time - b.end + TimeInterval - 1) \div TimeInterval
        next    == NewBar(b.end + skipped * TimeInterval)
    IN  IF next.start <= t.time THEN [Opened(next, t) EXCEPT !.count = 1] ELSE next

(* The next bar: whole intervals are skipped while they end before the     *)
(* trade, which is the first of the bar.                                   *)
Reopened(b, t) ==
    LET skipped == IF t.time = b.end THEN 0
                   ELSE (t.time - b.end - 1) \div TimeInterval
        next    == NewBar(b.end + skipped * TimeInterval)
    IN  IF next.start <= t.time THEN [Opened(next, t) EXCEPT !.count = 1] ELSE next

OnTrade(t) ==
    /\ bar # NoBar /\ Len(traded) < MaxTrades
    /\ LET b == Counted(bar, t)
       IN  IF t.time >= b.end
           THEN written' = Append(written, b) /\ bar' = Reopened(b, t)
           ELSE written' = written /\ bar' = b
    /\ traded' = Append(traded, [time |-> t.time, price |-> t.price, late |-> t.time < bar.start])
    /\ UNCHANGED <<granted, waiting>>

BarInit ==
    /\ granted = FALSE /\ waiting = FALSE
    /\ bar = NoBar /\ written = <<>> /\ traded = <<>>

BarNext ==
    \/ \E now \in Clock : OnSubscribe(now) \/ OnRequestWriteTo(now)
    \/ \E t \in [time : Clock, price : Price] : OnTrade(t)

BarSpec == BarInit /\ [][BarNext]_barVars

-----------------------------------------------------------------------------
Bars == written \o IF bar = NoBar THEN <<>> ELSE <<bar>>

(* The trades at some times that were not late, and prices of trades. *)
During(T) == {i \in DOMAIN traded : traded[i].time \in T /\ ~traded[i].late}
Prices(I) == {traded[i].price : i \in I}

(* Every bar is of the trades in its time, in whichever order they came    *)
(* while it was open.  A trade at the time one bar ends and the next       *)
(* starts may be in either or both; without one, open and close are of the *)
(* first and the last.                                                     *)
BarIsOfTrades ==
    \A k \in DOMAIN Bars :
        LET b    == Bars[k]
            may  == During(b.start .. b.end)
            must == During(b.start + 1 .. b.end - 1)
        IN  /\ b.count \in Cardinality(must) .. Cardinality(may)
            /\ b.count > 0 =>
                 /\ {b.open, b.close, b.low, b.high} \subseteq Prices(may)
                 /\ b.low  = Min(Prices(must) \cup {b.low, b.open, b.close})
                 /\ b.high = Max(Prices(must) \cup {b.high, b.open, b.close})
                 /\ may = must =>
                      b.open = traded[Min(may)].price /\ b.close = traded[Max(may)].price

(* Bars follow each other in whole intervals, and a trade that was not     *)
(* late when it was read is in the time of a bar: none falls between two.  *)
BarsAdjoin ==
    /\ \A k \in DOMAIN Bars :
         /\ Bars[k].end = Bars[k].start + TimeInterval
         /\ Bars[k].start % TimeInterval = 0
         /\ k > 1 => Bars[k].start >= Bars[k - 1].end
    /\ \A i \in DOMAIN traded :
         ~traded[i].late =>
            \E k \in DOMAIN Bars : traded[i].time \in Bars[k].start .. Bars[k].end

(* The bars are those of the trades: each counts the trades of its time,   *)
(* and together they leave no time out.                                    *)
BarsFaithful == BarIsOfTrades /\ BarsAdjoin
=============================================================================
