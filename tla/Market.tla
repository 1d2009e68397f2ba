------------------------------- MODULE Market --------------------------------
(***************************************************************************)
(* How a strategy gets market data: the subscriptions of its Context, the  *)
(* market data gateway of Binance with its cache of channels, and the      *)
(* websockets under it.                                                    *)
(*                                                                         *)
(* Three threads take part.  The strategy process asks for channels; its   *)
(* requests wait until it may write to the gateway.  The event loop of the *)
(* gateway opens one websocket per channel and, every five seconds, opens  *)
(* again the channels whose websocket it finds gone.  The I/O thread runs  *)
(* the handlers of all websockets: it connects them, writes what they      *)
(* receive to the gateway's journal and deletes them when they fail.  It   *)
(* also stops them, and stop is synchronous: it sends a close frame and    *)
(* reads until the peer has sent one too, for as long as that takes, and   *)
(* no handler of any websocket runs meanwhile.                             *)
(*                                                                         *)
(* The handle of a channel is the address of its websocket.  Addresses are *)
(* used again, m_set is shared by the two threads of the gateway, and a    *)
(* websocket may be deleted before its address is filed: what is_ready     *)
(* answers for the address of a deleted websocket is not determined.       *)
(***************************************************************************)
EXTENDS Naturals, FiniteSets, Sequences

CONSTANTS
    Strategy,      \* the strategies of one runner
    Channel,       \* the channels they may ask for: a kind of data and a market
    Addr,          \* the addresses the allocator hands out
    None,          \* no address, no channel, no websockets object
    MaxRequest,    \* bound on the requests of the strategies
    MaxFault       \* bound on failed or hung connections and bad messages

Kind   == {"depth", "trade", "ticker"}
Market == {"Spot", "FFuture", "DFuture"}

ASSUME MarketAssumption ==
    /\ Channel \subseteq [kind : Kind, market : Market]
    /\ None \notin Channel /\ None \notin Addr /\ None \notin Market
    /\ MaxRequest \in Nat /\ MaxFault \in Nat

VARIABLES
    subscribed,    \* Context: subscribed_symbols_, per strategy
    all,           \* Context: subscribe_all_
    writer,        \* may the runner write to the gateway: "none", "asked", "open"
    deferred,      \* requests that wait for the RequestWriteTo event
    inbox,         \* what the runner wrote to the gateway and it has not read
    cache,         \* channel_cache_: handle (None: no entry) and ready
    todo,          \* channels the event loop is about to open
    starting,      \* the websocket started and not yet filed in m_set
    sock,          \* the websocket at each address
    closing,       \* the websocket whose close the I/O thread waits for
    set,           \* m_set of the websockets object of each market
    deleter,       \* whose m_set the static deleter of a callback type cleans
    told,          \* the frame this step gave to strategies, if any
    requests, faults   \* the bounded counters

clientVars == <<subscribed, all, writer, deferred, requests>>
loopVars   == <<cache, todo, starting>>
vars == <<clientVars, inbox, loopVars, sock, closing, set, deleter, told, faults>>

(* A websocket is free memory, connecting (async_start resolves the host;  *)
(* async_connect, on_connected and on_async_ssl_handshake open the socket  *)
(* and shake hands: each may fail alike), being read, closed with an error *)
(* on its way to the pending handler, or over: its last handler is in      *)
(* stop.  A hung one has a peer that is silent, for good.                  *)
Free == [stage |-> "free", chan |-> None, stop |-> FALSE, hung |-> FALSE]
Alive(a) == sock[a].stage # "free"

(* The type of the callback with which a channel is opened.                *)
subscribe(c) == "on_part_depths_received_cb"
subscribe_trade(c) == IF c.market = "Spot" THEN "on_trade_received_cb"
                                           ELSE "on_agg_trade_received_cb"
subscribe_ticker(c) == "on_book_received_cb"

(* start_channel is a template: its static deleter is one per type of      *)
(* callback, whatever websockets object calls it.                          *)
Callback(c) == CASE c.kind = "depth"  -> subscribe(c)
                 [] c.kind = "trade"  -> subscribe_trade(c)
                 [] c.kind = "ticker" -> subscribe_ticker(c)
CallbackType == {Callback(c) : c \in Channel}

Nothing == [chan |-> None, frame |-> "none", to |-> {}]
Quiet == told' = Nothing

Cached == {c \in Channel : cache[c].handle # None}

Init ==
    /\ subscribed = [s \in Strategy |-> {}]
    /\ all = FALSE
    /\ writer = "none"
    /\ deferred = <<>>
    /\ inbox = <<>>
    /\ cache = [c \in Channel |-> [handle |-> None, ready |-> FALSE]]
    /\ todo = {}
    /\ starting = [addr |-> None, chan |-> None]
    /\ sock = [a \in Addr |-> Free]
    /\ closing = None
    /\ set = [m \in Market |-> {}]
    /\ deleter = [f \in CallbackType |-> None]
    /\ told = Nothing
    /\ requests = 0
    /\ faults = 0

-----------------------------------------------------------------------------
(***************************************************************************)
(* The strategy process.                                                   *)
(***************************************************************************)

(* add_marketdata asks the master once for a channel to the gateway.       *)
add_marketdata == writer' = IF writer = "none" THEN "asked" ELSE writer

(* A request is written at once, or when RequestWriteTo has come.          *)
Request(msg) ==
    IF writer = "open"
    THEN inbox' = Append(inbox, msg) /\ UNCHANGED deferred
    ELSE deferred' = Append(deferred, msg) /\ UNCHANGED inbox

Subscribe(s, c) ==
    /\ requests < MaxRequest
    /\ requests' = requests + 1
    /\ subscribed' = [subscribed EXCEPT ![s] = @ \cup {c}]
    /\ add_marketdata
    /\ Request([type |-> "Subscribe", chan |-> c])
    /\ Quiet
    /\ UNCHANGED <<all, loopVars, sock, set, deleter, closing, faults>>

SubscribeAll ==
    /\ requests < MaxRequest
    /\ requests' = requests + 1
    /\ all' = TRUE
    /\ add_marketdata
    /\ Request([type |-> "SubscribeAll", chan |-> None])
    /\ Quiet
    /\ UNCHANGED <<subscribed, loopVars, sock, set, deleter, closing, faults>>

(* _unsubscribe enters the channel in subscribed_symbols_ too, and does    *)
(* not wait for the writer: without one get_writer throws.                 *)
Unsubscribe(s, c) ==
    /\ requests < MaxRequest
    /\ c \in subscribed[s] /\ c.kind = "depth"
    /\ requests' = requests + 1
    /\ subscribed' = [subscribed EXCEPT ![s] = @ \cup {c}]
    /\ add_marketdata
    /\ inbox' = IF writer = "open"
                THEN Append(inbox, [type |-> "Unsubscribe", chan |-> c])
                ELSE inbox
    /\ Quiet
    /\ UNCHANGED <<all, deferred, loopVars, sock, set, deleter, closing, faults>>

(* Mutant: the waiting requests are written and kept.                      *)
OnRequestWriteToKeeps ==
    /\ writer = "asked"
    /\ writer' = "open"
    /\ inbox' = inbox \o deferred
    /\ Quiet
    /\ UNCHANGED <<deferred, subscribed, all, requests, loopVars, sock, set, deleter, closing, faults>>

(* The RequestWriteTo event: the writer exists, and every waiting request  *)
(* is written.                                                             *)
OnRequestWriteTo ==
    /\ writer = "asked"
    /\ writer' = "open"
    /\ inbox' = inbox \o deferred
    /\ deferred' = <<>>
    /\ Quiet
    /\ UNCHANGED <<subscribed, all, requests, loopVars, sock, set, deleter, closing, faults>>

(* Runner: a frame goes to each strategy that is subscribed to it.         *)
is_subscribed(s, c) == all \/ c \in subscribed[s]

Publish(c, frame) ==
    told' = IF frame = "none" THEN Nothing
            ELSE [chan |-> c, frame |-> frame, to |-> {s \in Strategy : is_subscribed(s, c)}]

-----------------------------------------------------------------------------
(***************************************************************************)
(* The event loop of the gateway.                                          *)
(***************************************************************************)

Idle == todo = {} /\ starting.addr = None

(* The head of the inbox: a Subscribe of a channel that is not ready opens *)
(* it; the gateway supports neither SubscribeAll nor Unsubscribe.          *)
OnRequest ==
    /\ Idle
    /\ inbox # <<>>
    /\ inbox' = Tail(inbox)
    /\ LET r == Head(inbox) IN
       todo' = IF r.type = "Subscribe" /\ ~cache[r.chan].ready THEN {r.chan} ELSE {}
    /\ Quiet
    /\ UNCHANGED <<clientVars, cache, starting, sock, set, deleter, closing, faults>>

(* depth channels are opened first, then trade, then ticker.               *)
Turn(c) == CASE c.kind = "depth" -> 1 [] c.kind = "trade" -> 2 [] c.kind = "ticker" -> 3

(* start_channel up to websocket::start: from here the I/O thread may run  *)
(* the handlers of the new websocket.                                      *)
StartChannel(c, a) ==
    /\ starting.addr = None
    /\ c \in todo /\ \A d \in todo : Turn(c) <= Turn(d)
    /\ ~Alive(a)
    /\ todo' = todo \ {c}
    /\ deleter' = [deleter EXCEPT ![Callback(c)] = IF @ = None THEN c.market ELSE @]
    /\ sock' = [sock EXCEPT ![a] = [Free EXCEPT !.stage = "connect", !.chan = c]]
    /\ starting' = [addr |-> a, chan |-> c]
    /\ Quiet
    /\ UNCHANGED <<clientVars, inbox, cache, set, closing, faults>>

(* Mutant: the websocket of a channel that is in the cache is not filed.   *)
FileChannelOnce ==
    /\ starting.addr # None
    /\ set' = IF cache[starting.chan].handle # None THEN set
              ELSE [set EXCEPT ![starting.chan.market] = @ \cup {starting.addr}]
    /\ cache' = [cache EXCEPT ![starting.chan] = [handle |-> starting.addr, ready |-> TRUE]]
    /\ starting' = [addr |-> None, chan |-> None]
    /\ Quiet
    /\ UNCHANGED <<clientVars, inbox, todo, sock, deleter, closing, faults>>

(* The rest of start_channel, and the entry of the cache.                  *)
FileChannel ==
    /\ starting.addr # None
    /\ set' = [set EXCEPT ![starting.chan.market] = @ \cup {starting.addr}]
    /\ cache' = [cache EXCEPT ![starting.chan] = [handle |-> starting.addr, ready |-> TRUE]]
    /\ starting' = [addr |-> None, chan |-> None]
    /\ Quiet
    /\ UNCHANGED <<clientVars, inbox, todo, sock, deleter, closing, faults>>

(* What is_ready may answer for h: it dereferences an address it finds in  *)
(* m_set, also when that websocket has been deleted.                       *)
is_ready(m, h) ==
    IF h \notin set[m] THEN {FALSE}
    ELSE IF Alive(h) THEN {~sock[h].stop}
    ELSE BOOLEAN

(* Mutant: the websockets of Spot are asked about every channel.           *)
AskedSpot(c) == "Spot"

(* _check_status asks the websockets of FFuture for FFuture, and those of  *)
(* Spot for everything else.                                               *)
Asked(c) == IF c.market = "FFuture" THEN "FFuture" ELSE "Spot"

CheckStatus ==
    /\ Idle
    /\ \E r \in [Cached -> BOOLEAN] :
         /\ \A c \in Cached : r[c] \in is_ready(Asked(c), cache[c].handle)
         /\ todo' = {c \in Cached : ~r[c]}
         /\ cache' = [c \in Channel |->
                        IF c \in todo' THEN [cache[c] EXCEPT !.ready = FALSE] ELSE cache[c]]
    /\ Quiet
    /\ UNCHANGED <<clientVars, inbox, starting, sock, set, deleter, closing, faults>>

-----------------------------------------------------------------------------
(***************************************************************************)
(* The I/O thread.                                                         *)
(***************************************************************************)

(* The last handler of a websocket ends: its deleter takes the address out *)
(* of the m_set it was created with and frees the memory.                  *)
Delete(a) ==
    /\ sock' = [sock EXCEPT ![a] = Free]
    /\ LET m == deleter[Callback(sock[a].chan)] IN
       set' = [set EXCEPT ![m] = @ \ {a}]

(***************************************************************************)
(* The callbacks, called with an event (ec = 0) or an error: the frame     *)
(* they write, and whether the channel is kept.  That of Spot trades looks *)
(* at the error after it has written; that of future trades keeps the      *)
(* channel.                                                                *)
(***************************************************************************)
Written == [frame |-> "data", keep |-> TRUE]
GivenUp == [frame |-> "none", keep |-> FALSE]

(* Mutant: the callback of depth looks at the error after it has written.  *)
on_depth_late(ec) == IF ec = 0 THEN Written ELSE [GivenUp EXCEPT !.frame = "void"]

on_depth(ec)        == IF ec = 0 THEN Written ELSE GivenUp
on_future_trade(ec) == IF ec = 0 THEN Written ELSE [GivenUp EXCEPT !.keep = TRUE]
on_spot_trade(ec)   == IF ec = 0 THEN Written ELSE [GivenUp EXCEPT !.frame = "void"]
on_ticker(ec)       == IF ec = 0 THEN Written ELSE GivenUp

cb(c, ec) ==
    CASE c.kind = "depth" -> on_depth(ec)
      [] c.kind = "trade" /\ c.market # "Spot" -> on_future_trade(ec)
      [] c.kind = "trade" /\ c.market = "Spot" -> on_spot_trade(ec)
      [] c.kind = "ticker" -> on_ticker(ec)

(* wscb: an event, an error the exchange reports, or a text that the       *)
(* message type does not construct from.                                   *)
Text == {"event", "error", "bad"}
wscb(c, text) ==
    CASE text = "event" -> cb(c, 0)
      [] text = "error" -> cb(c, 1)
      [] text = "bad"   -> GivenUp

(***************************************************************************)
(* The handlers.  None runs while the thread waits in stop.                *)
(***************************************************************************)

(* The last handshake is done: start_read.                                 *)
Connected(a) ==
    /\ closing = None
    /\ sock[a].stage = "connect" /\ ~sock[a].hung
    /\ sock' = [sock EXCEPT ![a].stage = "read"]
    /\ Quiet
    /\ UNCHANGED <<clientVars, inbox, loopVars, closing, set, deleter, faults>>

(* stop, called by the last handler of a websocket, sends a close frame    *)
(* and waits; the websocket goes when it returns.                          *)
StopLast(a) ==
    /\ sock' = [sock EXCEPT ![a].stage = "over", ![a].stop = TRUE]
    /\ closing' = a
    /\ UNCHANGED set

(* A stage fails, or a read: the callback is called with the error unless  *)
(* stop was requested, and the websocket goes.  stop finds nothing to      *)
(* close, unless it is the websocket handshake that the peer declined.     *)
Fail(a) ==
    /\ closing = None
    /\ sock[a].stage \in {"connect", "read"}
    /\ faults < MaxFault
    /\ faults' = faults + 1
    /\ IF sock[a].stop THEN Quiet ELSE Publish(sock[a].chan, cb(sock[a].chan, 1).frame)
    /\ \/ Delete(a) /\ UNCHANGED closing
       \/ sock[a].stage = "connect" /\ ~sock[a].hung /\ StopLast(a)
    /\ UNCHANGED <<clientVars, inbox, loopVars, deleter>>

(* The peer falls silent: nothing more arrives for this websocket, nor the *)
(* answer to a close frame.                                                *)
Hang(a) ==
    /\ sock[a].stage \in {"connect", "read", "over"} /\ ~sock[a].hung
    /\ faults < MaxFault
    /\ faults' = faults + 1
    /\ sock' = [sock EXCEPT ![a].hung = TRUE]
    /\ Quiet
    /\ UNCHANGED <<clientVars, inbox, loopVars, closing, set, deleter>>

(* on_read with a text.  The timer's stop does not keep one that has       *)
(* arrived from the callback, but the next read of a closed websocket      *)
(* fails.  When the callback gives up, on_read stops the websocket itself. *)
Receive(a, text) ==
    /\ closing = None
    /\ sock[a].stage \in {"read", "closed"} /\ ~sock[a].hung
    /\ text # "event" => faults < MaxFault
    /\ faults' = IF text = "event" THEN faults ELSE faults + 1
    /\ LET r == wscb(sock[a].chan, text) IN
       /\ Publish(sock[a].chan, r.frame)
       /\ \/ sock[a].stage = "read" /\ r.keep /\ UNCHANGED <<sock, closing, set>>
          \/ sock[a].stage = "read" /\ ~r.keep /\ StopLast(a)
          \/ sock[a].stage = "closed" /\ Delete(a) /\ UNCHANGED closing
    /\ UNCHANGED <<clientVars, inbox, loopVars, deleter>>

(* Mutant: the timer stops only websockets that are being read.            *)
RestartReading(a) ==
    /\ closing = None
    /\ sock[a].stage = "read" /\ ~sock[a].stop
    /\ sock' = [sock EXCEPT ![a].stop = TRUE]
    /\ closing' = a
    /\ Quiet
    /\ UNCHANGED <<clientVars, inbox, loopVars, set, deleter, faults>>

(* The timer of the websocket, three to four hours after its start: long   *)
(* after every connection that is not hung is being read.  It calls stop,  *)
(* which waits for the peer's close frame.  Before the websocket handshake *)
(* has begun there is nothing to close: stop only sets m_stop_requested,   *)
(* and the handler that hangs goes on hanging.                             *)
Restart(a) ==
    /\ closing = None
    /\ sock[a].stage \in {"connect", "read"} /\ ~sock[a].stop
    /\ sock[a].hung \/ sock[a].stage = "read"
    /\ sock' = [sock EXCEPT ![a].stop = TRUE]
    /\ closing' \in IF sock[a].stage = "read" THEN {a} ELSE {a, None}
    /\ Quiet
    /\ UNCHANGED <<clientVars, inbox, loopVars, set, deleter, faults>>

(* stop returns: the peer has answered, or the connection has failed.      *)
CloseReturns(a) ==
    /\ closing = a
    /\ closing' = None
    /\ IF sock[a].stage = "over" THEN Delete(a)
       ELSE sock' = [sock EXCEPT ![a].stage = "closed"] /\ UNCHANGED set
    /\ Quiet
    /\ UNCHANGED <<clientVars, inbox, loopVars, deleter, faults>>

(* The handler that was pending when stop closed the socket gets an error; *)
(* no callback is called.                                                  *)
Closed(a) ==
    /\ closing = None
    /\ sock[a].stage = "closed"
    /\ Delete(a)
    /\ Quiet
    /\ UNCHANGED <<clientVars, inbox, loopVars, closing, deleter, faults>>

-----------------------------------------------------------------------------
StrategyStep ==
    \/ \E s \in Strategy, c \in Channel : Subscribe(s, c) \/ Unsubscribe(s, c)
    \/ SubscribeAll
    \/ OnRequestWriteTo

LoopStep ==
    \/ OnRequest
    \/ \E c \in Channel, a \in Addr : StartChannel(c, a)
    \/ FileChannel
    \/ CheckStatus

IoStep ==
    \E a \in Addr :
        \/ Connected(a) \/ Fail(a) \/ Hang(a)
        \/ \E text \in Text : Receive(a, text)
        \/ Restart(a) \/ CloseReturns(a) \/ Closed(a)

Next == StrategyStep \/ LoopStep \/ IoStep

Spec == Init /\ [][Next]_vars

(* The master answers a request for a channel; the event loop runs its     *)
(* events and its timer.  The I/O thread runs every handler that is ready  *)
(* in its turn, whenever it does not wait in stop: strong fairness.  A     *)
(* peer that is not silent answers a close frame; for one that is silent   *)
(* nothing is promised.  A connection that is not hung is answered, and a  *)
(* channel that is open again and again receives something before its      *)
(* restart.                                                                *)
Handlers(c)  == \E a \in Addr : sock[a].chan = c /\ (Connected(a) \/ Restart(a) \/ Closed(a))
ReceiveOn(c) == \E a \in Addr : sock[a].chan = c /\ Receive(a, "event")
Answered     == \E a \in Addr : ~sock[a].hung /\ CloseReturns(a)

Fairness ==
    /\ WF_vars(OnRequestWriteTo)
    /\ SF_vars(OnRequest)
    /\ WF_vars(FileChannel \/ \E c \in Channel, a \in Addr : StartChannel(c, a))
    /\ SF_vars(CheckStatus)
    /\ WF_vars(Answered)
    /\ \A c \in Channel : SF_vars(Handlers(c)) /\ SF_vars(ReceiveOn(c))

FairSpec == Spec /\ Fairness

-----------------------------------------------------------------------------
(***************************************************************************)
(* Properties.                                                             *)
(***************************************************************************)

TypeOK ==
    /\ subscribed \in [Strategy -> SUBSET Channel]
    /\ all \in BOOLEAN
    /\ writer \in {"none", "asked", "open"}
    /\ deferred \in Seq([type : {"Subscribe", "SubscribeAll"}, chan : Channel \cup {None}])
    /\ writer = "open" => deferred = <<>>
    /\ cache \in [Channel -> [handle : Addr \cup {None}, ready : BOOLEAN]]
    /\ todo \subseteq Channel
    /\ \A a \in Addr : Alive(a) <=> sock[a].chan \in Channel
    /\ closing = None \/ (closing \in Addr /\ Alive(closing) /\ sock[closing].stop)
    /\ \A m \in Market : set[m] \subseteq Addr
    /\ told.frame \in {"none", "data", "void"} /\ told.to \subseteq Strategy

(* The websockets of a channel that have not been told to stop.            *)
Feeds(c) == {a \in Addr : sock[a].chan = c /\ ~sock[a].stop}

(* Spot and FFuture channels: _check_status asks the websockets object     *)
(* that holds them.                                                        *)
Watched == {c \in Channel : c.market \in {"Spot", "FFuture"}}

(* No event of a channel is written twice: a channel never has two         *)
(* websockets that both feed it, however failures, restarts, used-again    *)
(* addresses and repeated requests fall.                                   *)
OneFeed == \A c \in Watched : Cardinality(Feeds(c)) <= 1

(* A websocket that feeds a channel is the one the cache names and is      *)
(* found in the m_set that is_ready searches: no other websocket's         *)
(* deleter has taken it out.  Otherwise the next check would open the      *)
(* channel a second time, as it does with those of DFuture.                *)
FeedIsFiled ==
    \A a \in Addr :
        Alive(a) /\ a # starting.addr =>
            /\ a \in set[sock[a].chan.market]
            /\ sock[a].chan \in Watched /\ ~sock[a].stop => cache[sock[a].chan].handle = a

(* A strategy is given frames without an event in them only on the trade   *)
(* channel of Spot: the other callbacks look at the error first.           *)
NoVoidFrame ==
    told.frame = "void" => told.chan.kind = "trade" /\ told.chan.market = "Spot"

(* m_set names an address that is not a websocket of its own.  Two windows *)
(* lead here: a websocket that is gone before start_channel files it, and  *)
(* a deleter that cleans the m_set of another market.                      *)
Misfiled(m) == \E a \in set[m] : ~Alive(a) \/ sock[a].chan.market # m

(* The I/O thread waits for the close frame of a silent peer: until TCP    *)
(* gives the connection up no websocket of the gateway receives anything.  *)
Stuck == closing # None /\ sock[closing].hung

(* A strategy that asked for a channel is given its data again and again:  *)
(* also when the request had to wait, when the channel was open already,   *)
(* and after every connection that failed, hung or was restarted, the ones *)
(* of other channels included, unless the I/O thread is stuck or the m_set *)
(* of the channel's market is misfiled.  The stopped websocket of a hung   *)
(* handshake, which nothing deletes, does not keep the channel closed.     *)
Fed ==
    \A s \in Strategy, c \in Channel :
        c \in subscribed[s] ~>
            (\/ told.chan = c /\ told.frame = "data" /\ s \in told.to
             \/ Stuck
             \/ Misfiled(Asked(c)))

(* The channel cache, the m_sets and the websockets belong together: a     *)
(* channel is fed once, by the websocket that is filed for it, and with    *)
(* events only (subscribe, start_channel, deleter, _check_status).         *)
FeedsFiled == TypeOK /\ OneFeed /\ FeedIsFiled /\ NoVoidFrame
=============================================================================
