---------------------------- MODULE MarketProofs -----------------------------
(***************************************************************************)
(* Proofs about Market for any strategies, channels, addresses, requests   *)
(* and faults.                                                             *)
(***************************************************************************)
EXTENDS Market, TLAPS, FiniteSetTheorems

(* The requests under way: a Subscribe names a channel. *)
Waiting == [type : {"Subscribe", "SubscribeAll"}, chan : Channel \cup {None}]
Asking  == [type : {"Subscribe", "SubscribeAll", "Unsubscribe"}, chan : Channel \cup {None}]
Names(q) == \A i \in 1 .. Len(q) : q[i].type = "Subscribe" => q[i].chan \in Channel

Websocket == [stage : {"free", "connect", "read", "over", "closed"}, chan : Channel \cup {None},
              stop : BOOLEAN, hung : BOOLEAN]

IClient ==
    /\ subscribed \in [Strategy -> SUBSET Channel]
    /\ all \in BOOLEAN
    /\ writer \in {"none", "asked", "open"}
    /\ deferred \in Seq(Waiting) /\ Names(deferred)
    /\ writer = "open" => deferred = <<>>
    /\ inbox \in Seq(Asking) /\ Names(inbox)

ILoop ==
    /\ cache \in [Channel -> [handle : Addr \cup {None}, ready : BOOLEAN]]
    /\ todo \subseteq Channel
    /\ starting \in [addr : Addr \cup {None}, chan : Channel \cup {None}]
    /\ starting.addr = None <=> starting.chan = None

IIo ==
    /\ sock \in [Addr -> Websocket]
    /\ \A a \in Addr : Alive(a) <=> sock[a].chan \in Channel
    /\ \A a \in Addr : sock[a].stop => Alive(a)
    /\ set \in [Market -> SUBSET Addr]

(* stop waits for a websocket that is told to stop, and not yet deleted. *)
IWait == closing = None \/ (closing \in Addr /\ Alive(closing) /\ sock[closing].stop)

ITold ==
    /\ told.frame \in {"none", "data", "void"} /\ told.to \subseteq Strategy
    /\ NoVoidFrame

(* A channel that is to be opened is not ready, and no websocket feeds it; *)
(* from its start on the new one is the only one that does.                *)
Unfed(c) == \A a \in Addr : sock[a].chan = c => sock[a].stop
IOpen ==
    /\ \A c \in todo : ~cache[c].ready /\ starting.chan # c
    /\ \A c \in Watched : ~cache[c].ready /\ starting.chan # c => Unfed(c)
    /\ starting.addr # None =>
         /\ sock[starting.addr].chan \in {None, starting.chan}
         /\ \A a \in Addr : a # starting.addr /\ sock[a].chan = starting.chan
                            /\ starting.chan \in Watched => sock[a].stop

IInv == IClient /\ ILoop /\ IIo /\ IWait /\ ITold /\ IOpen /\ FeedIsFiled

-----------------------------------------------------------------------------

LEMMA ChannelIs ==
    ASSUME NEW c \in Channel
    PROVE  /\ c.kind \in Kind /\ c.market \in Market /\ c # None
           /\ Callback(c) \in CallbackType
  BY MarketAssumption DEF CallbackType

(* A websocket that goes on, and one that goes. *)
LEMMA GoesOn ==
    ASSUME IIo, IOpen, ILoop, FeedIsFiled, NEW a \in Addr, Alive(a), UNCHANGED <<loopVars, set>>,
           NEW w \in Websocket, w.chan = sock[a].chan, w.stage # "free", sock[a].stop => w.stop,
           sock' = [sock EXCEPT ![a] = w]
    PROVE  IIo' /\ IOpen' /\ ILoop' /\ FeedIsFiled'
  <1>1. /\ sock' \in [Addr -> Websocket] /\ sock'[a] = w
        /\ \A b \in Addr : b # a => sock'[b] = sock[b]
    BY DEF IIo
  <1>2. \A b \in Addr : /\ sock'[b].chan = sock[b].chan
                        /\ sock[b].stop => sock'[b].stop
                        /\ Alive(b)' <=> Alive(b)
    BY <1>1 DEF Alive
  <1>3. UNCHANGED <<cache, todo, starting, set>> BY DEF loopVars
  <1>4. IIo' BY <1>1, <1>2, <1>3 DEF IIo
  <1>5. ILoop' BY <1>3 DEF ILoop
  <1>6. IOpen' BY <1>2, <1>3 DEF IOpen, Unfed, ILoop
  <1>7. FeedIsFiled' BY <1>2, <1>3 DEF FeedIsFiled
  <1> QED BY <1>4, <1>5, <1>6, <1>7

LEMMA Goes ==
    ASSUME IIo, IOpen, ILoop, FeedIsFiled, NEW a \in Addr, Alive(a), UNCHANGED loopVars, Delete(a)
    PROVE  IIo' /\ IOpen' /\ ILoop' /\ FeedIsFiled'
  <1>1. Free \in Websocket /\ Free.chan = None BY DEF Free, Websocket
  <1>2. /\ sock' \in [Addr -> Websocket] /\ sock'[a] = Free
        /\ \A b \in Addr : b # a => sock'[b] = sock[b]
    BY <1>1 DEF IIo, Delete
  <1>3. \A b \in Addr : /\ sock'[b] = sock[b] \/ sock'[b].chan = None
                        /\ Alive(b)' => b # a /\ Alive(b)
    BY <1>1, <1>2 DEF Alive, Free
  <1>4. UNCHANGED <<cache, todo, starting>> BY DEF loopVars
  <1>5. /\ set' \in [Market -> SUBSET Addr]
        /\ \A m \in Market, b \in Addr : b # a /\ b \in set[m] => b \in set'[m]
    <2> PICK m : m = deleter[Callback(sock[a].chan)] OBVIOUS
    <2>1. set' = [set EXCEPT ![m] = set[m] \ {a}] BY DEF Delete
    <2> QED BY <2>1 DEF IIo
  <1>6. IIo'
    <2>1. \A b \in Addr : Alive(b)' <=> sock'[b].chan \in Channel
      BY <1>1, <1>2, MarketAssumption DEF IIo, Alive, Free
    <2>2. ASSUME NEW b \in Addr, sock'[b].stop PROVE Alive(b)'
      <3>1. b # a BY <1>2, <2>2 DEF Free
      <3> QED BY <1>2, <2>2, <3>1 DEF IIo, Alive
    <2> QED BY <1>2, <1>5, <2>1, <2>2 DEF IIo
  <1>7. ILoop' BY <1>4 DEF ILoop
  <1>8. \A c \in Channel : c # None BY ChannelIs
  <1>9. IOpen'
    <2>1. \A c \in todo' : ~cache'[c].ready /\ starting'.chan # c BY <1>4 DEF IOpen
    <2>2. \A c \in Watched : ~cache'[c].ready /\ starting'.chan # c => Unfed(c)'
      BY <1>3, <1>4, <1>8 DEF IOpen, Unfed, Watched
    <2>3. starting'.addr # None =>
             /\ sock'[starting'.addr].chan \in {None, starting'.chan}
             /\ \A b \in Addr : b # starting'.addr /\ sock'[b].chan = starting'.chan
                                /\ starting'.chan \in Watched => sock'[b].stop
      <3>1. starting.addr # None => starting.addr \in Addr /\ starting.chan # None BY DEF ILoop
      <3> QED BY <3>1, <1>3, <1>4 DEF IOpen
    <2> QED BY <2>1, <2>2, <2>3 DEF IOpen
  <1>10. FeedIsFiled'
    <2> SUFFICES ASSUME NEW b \in Addr, Alive(b)', b # starting'.addr
                 PROVE  /\ b \in set'[sock'[b].chan.market]
                        /\ sock'[b].chan \in Watched /\ ~sock'[b].stop => cache'[sock'[b].chan].handle = b
      BY DEF FeedIsFiled
    <2>1. b # a /\ Alive(b) /\ sock'[b] = sock[b] BY <1>2, <1>3
    <2>2. sock[b].chan \in Channel /\ sock[b].chan.market \in Market BY <2>1, ChannelIs DEF IIo
    <2>3. /\ b \in set[sock[b].chan.market]
          /\ sock[b].chan \in Watched /\ ~sock[b].stop => cache[sock[b].chan].handle = b
      BY <2>1, <1>4 DEF FeedIsFiled
    <2> QED BY <2>1, <2>2, <2>3, <1>4, <1>5
  <1> QED BY <1>6, <1>7, <1>9, <1>10

-----------------------------------------------------------------------------
(* What a callback writes. *)

LEMMA Writes ==
    ASSUME NEW c \in Channel, NEW ec \in {0, 1}
    PROVE  /\ cb(c, ec).frame \in {"none", "data", "void"}
           /\ cb(c, ec).frame = "void" => c.kind = "trade" /\ c.market = "Spot"
  <1>1. c.kind \in {"depth", "trade", "ticker"} BY ChannelIs DEF Kind
  <1>2. CASE c.kind = "depth"
    BY <1>2 DEF cb, on_depth, Written, GivenUp
  <1>3. CASE c.kind = "trade" /\ c.market # "Spot"
    BY <1>3 DEF cb, on_future_trade, Written, GivenUp
  <1>4. CASE c.kind = "trade" /\ c.market = "Spot"
    BY <1>4 DEF cb, on_spot_trade, Written, GivenUp
  <1>5. CASE c.kind = "ticker"
    BY <1>5 DEF cb, on_ticker, Written, GivenUp
  <1> QED BY <1>1, <1>2, <1>3, <1>4, <1>5

LEMMA TextWrites ==
    ASSUME NEW c \in Channel, NEW text \in Text
    PROVE  /\ wscb(c, text).frame \in {"none", "data", "void"}
           /\ wscb(c, text).frame = "void" => c.kind = "trade" /\ c.market = "Spot"
  <1>1. CASE text = "event" BY <1>1, Writes DEF wscb
  <1>2. CASE text = "error" BY <1>2, Writes DEF wscb
  <1>3. CASE text = "bad" BY <1>3 DEF wscb, GivenUp
  <1> QED BY <1>1, <1>2, <1>3 DEF Text

LEMMA Published ==
    ASSUME NEW c \in Channel, NEW frame \in {"none", "data", "void"},
           frame = "void" => c.kind = "trade" /\ c.market = "Spot", Publish(c, frame)
    PROVE  ITold'
  <1>1. CASE frame = "none" BY <1>1 DEF Publish, Nothing, ITold, NoVoidFrame
  <1>2. CASE frame # "none"
    <2>1. told' = [chan |-> c, frame |-> frame, to |-> {s \in Strategy : is_subscribed(s, c)}]
      BY <1>2 DEF Publish
    <2>2. told'.chan = c /\ told'.frame = frame /\ told'.to \subseteq Strategy BY <2>1
    <2> QED BY <2>2 DEF ITold, NoVoidFrame
  <1> QED BY <1>1, <1>2

LEMMA Silent == Quiet => ITold'
  BY DEF Quiet, Nothing, ITold, NoVoidFrame

-----------------------------------------------------------------------------
(* The strategy process. *)

LEMMA NamesMore ==
    ASSUME NEW S, NEW q \in Seq(S), Names(q), NEW r \in S,
           r.type = "Subscribe" => r.chan \in Channel
    PROVE  Append(q, r) \in Seq(S) /\ Names(Append(q, r))
  <1>1. /\ Append(q, r) \in Seq(S) /\ Len(q) \in Nat /\ Len(Append(q, r)) = Len(q) + 1
        /\ \A i \in 1 .. Len(q) : Append(q, r)[i] = q[i]
        /\ Append(q, r)[Len(q) + 1] = r
    OBVIOUS
  <1> PICK t : t = Append(q, r) OBVIOUS
  <1>2. \A i \in 1 .. Len(t) : i \in 1 .. Len(q) \/ i = Len(q) + 1 BY <1>1
  <1> QED BY <1>1, <1>2 DEF Names

LEMMA NamesJoined ==
    ASSUME NEW S, NEW q \in Seq(S), Names(q), NEW r \in Seq(S), Names(r)
    PROVE  q \o r \in Seq(S) /\ Names(q \o r)
  <1>1. /\ q \o r \in Seq(S) /\ Len(q) \in Nat /\ Len(r) \in Nat /\ Len(q \o r) = Len(q) + Len(r)
        /\ \A i \in 1 .. Len(q) + Len(r) :
              (q \o r)[i] = IF i <= Len(q) THEN q[i] ELSE r[i - Len(q)]
    OBVIOUS
  <1> PICK t : t = q \o r OBVIOUS
  <1>2. \A i \in 1 .. Len(t) : (i \in 1 .. Len(q) /\ t[i] = q[i])
                            \/ (i - Len(q) \in 1 .. Len(r) /\ t[i] = r[i - Len(q)])
    BY <1>1
  <1> QED BY <1>1, <1>2 DEF Names

LEMMA RequestSent ==
    ASSUME IClient, NEW r \in Waiting, r.type = "Subscribe" => r.chan \in Channel, Request(r)
    PROVE  /\ deferred' \in Seq(Waiting) /\ Names(deferred')
           /\ inbox' \in Seq(Asking) /\ Names(inbox')
           /\ writer = "open" => deferred' = deferred
  <1>1. r \in Asking BY DEF Waiting, Asking
  <1>2. CASE writer = "open"
    BY <1>1, <1>2, NamesMore DEF Request, IClient
  <1>3. CASE writer # "open"
    BY <1>3, NamesMore DEF Request, IClient
  <1> QED BY <1>2, <1>3

LEMMA Elsewhere ==
    ASSUME ILoop, IIo, IWait, IOpen, FeedIsFiled, UNCHANGED <<loopVars, sock, closing, set>>
    PROVE  ILoop' /\ IIo' /\ IWait' /\ IOpen' /\ FeedIsFiled'
  BY DEF ILoop, IIo, IWait, IOpen, FeedIsFiled, loopVars, Unfed, Alive

LEMMA StrategyKeeps ==
    ASSUME IInv, StrategyStep
    PROVE  IInv'
  <1> USE DEF IInv
  <1>1. ASSUME NEW s \in Strategy, NEW c \in Channel, Subscribe(s, c) PROVE IInv'
    <2> PICK r : r = [type |-> "Subscribe", chan |-> c] OBVIOUS
    <2>1. r \in Waiting /\ (r.type = "Subscribe" => r.chan \in Channel) BY DEF Waiting
    <2>2. Request(r) /\ UNCHANGED <<all, loopVars, sock, closing, set>> /\ Quiet
          /\ writer' = (IF writer = "none" THEN "asked" ELSE writer)
          /\ subscribed' = [subscribed EXCEPT ![s] = subscribed[s] \cup {c}]
      BY <1>1 DEF Subscribe, add_marketdata
    <2>3. /\ deferred' \in Seq(Waiting) /\ Names(deferred')
          /\ inbox' \in Seq(Asking) /\ Names(inbox')
          /\ writer = "open" => deferred' = deferred
      BY <2>1, <2>2, RequestSent
    <2>4. subscribed' \in [Strategy -> SUBSET Channel] BY <2>2 DEF IClient
    <2>5. /\ writer' \in {"none", "asked", "open"} /\ (writer' = "open" => writer = "open")
      BY <2>2 DEF IClient
    <2>6. IClient' BY <2>2, <2>3, <2>4, <2>5 DEF IClient
    <2> QED BY <2>2, <2>6, Elsewhere, Silent
  <1>2. ASSUME NEW s \in Strategy, NEW c \in Channel, Unsubscribe(s, c) PROVE IInv'
    <2> PICK r : r = [type |-> "Unsubscribe", chan |-> c] OBVIOUS
    <2>1. r \in Asking /\ (r.type = "Subscribe" => r.chan \in Channel) BY DEF Asking
    <2>2. UNCHANGED <<all, deferred, loopVars, sock, closing, set>> /\ Quiet
          /\ writer' = (IF writer = "none" THEN "asked" ELSE writer)
          /\ subscribed' = [subscribed EXCEPT ![s] = subscribed[s] \cup {c}]
          /\ (inbox' = inbox \/ inbox' = Append(inbox, r))
      BY <1>2 DEF Unsubscribe, add_marketdata
    <2>3. inbox' \in Seq(Asking) /\ Names(inbox')
      <3>1. CASE inbox' = inbox BY <3>1 DEF IClient
      <3>2. CASE inbox' = Append(inbox, r) BY <3>2, <2>1, NamesMore DEF IClient
      <3> QED BY <3>1, <3>2, <2>2
    <2>4. subscribed' \in [Strategy -> SUBSET Channel] BY <2>2 DEF IClient
    <2>5. /\ writer' \in {"none", "asked", "open"} /\ (writer' = "open" => writer = "open")
      BY <2>2 DEF IClient
    <2>6. IClient' BY <2>2, <2>3, <2>4, <2>5 DEF IClient
    <2> QED BY <2>2, <2>6, Elsewhere, Silent
  <1>3. CASE SubscribeAll
    <2> PICK r : r = [type |-> "SubscribeAll", chan |-> None] OBVIOUS
    <2>1. r \in Waiting /\ (r.type = "Subscribe" => r.chan \in Channel) BY DEF Waiting
    <2>2. Request(r) /\ UNCHANGED <<subscribed, loopVars, sock, closing, set>> /\ Quiet /\ all' = TRUE
          /\ writer' = (IF writer = "none" THEN "asked" ELSE writer)
      BY <1>3 DEF SubscribeAll, add_marketdata
    <2>3. /\ deferred' \in Seq(Waiting) /\ Names(deferred')
          /\ inbox' \in Seq(Asking) /\ Names(inbox')
          /\ writer = "open" => deferred' = deferred
      BY <2>1, <2>2, RequestSent
    <2>5. /\ writer' \in {"none", "asked", "open"} /\ (writer' = "open" => writer = "open")
      BY <2>2 DEF IClient
    <2>6. IClient' BY <2>2, <2>3, <2>5 DEF IClient
    <2> QED BY <2>2, <2>6, Elsewhere, Silent
  <1>4. CASE OnRequestWriteTo
    <2>1. /\ writer' = "open" /\ inbox' = inbox \o deferred /\ deferred' = <<>> /\ Quiet
          /\ UNCHANGED <<subscribed, all, loopVars, sock, closing, set>>
      BY <1>4 DEF OnRequestWriteTo
    <2>2. deferred \in Seq(Asking)
      <3>1. Waiting \subseteq Asking BY DEF Waiting, Asking
      <3> QED BY <3>1 DEF IClient
    <2>3. inbox' \in Seq(Asking) /\ Names(inbox') BY <2>1, <2>2, NamesJoined DEF IClient
    <2>4. deferred' \in Seq(Waiting) /\ Names(deferred')
      <3>1. <<>> \in Seq(Waiting) /\ Len(<<>>) = 0 OBVIOUS
      <3> QED BY <3>1, <2>1 DEF Names
    <2>5. IClient' BY <2>1, <2>3, <2>4 DEF IClient
    <2> QED BY <2>1, <2>5, Elsewhere, Silent
  <1> QED BY <1>1, <1>2, <1>3, <1>4 DEF StrategyStep

-----------------------------------------------------------------------------
(* The event loop of the gateway. *)

LEMMA RequestRead ==
    ASSUME IInv, OnRequest
    PROVE  IInv'
  <1> USE DEF IInv
  <1> PICK r : r = Head(inbox) OBVIOUS
  <1>1. /\ todo = {} /\ starting.addr = None /\ inbox # <<>> /\ inbox' = Tail(inbox)
        /\ todo' = (IF r.type = "Subscribe" /\ ~cache[r.chan].ready THEN {r.chan} ELSE {})
        /\ UNCHANGED <<clientVars, cache, starting, sock, closing, set>> /\ Quiet
    BY DEF OnRequest, Idle
  <1>2. /\ Tail(inbox) \in Seq(Asking) /\ Names(Tail(inbox))
        /\ r.type = "Subscribe" => r.chan \in Channel
    <2>1. /\ inbox \in Seq(Asking) /\ Len(inbox) \in Nat /\ Len(inbox) >= 1 /\ r = inbox[1]
          /\ Tail(inbox) \in Seq(Asking) /\ Len(Tail(inbox)) = Len(inbox) - 1
          /\ \A i \in 1 .. Len(Tail(inbox)) : Tail(inbox)[i] = inbox[i + 1]
      BY <1>1 DEF IClient
    <2>2. 1 \in 1 .. Len(inbox) BY <2>1
    <2> PICK t : t = Tail(inbox) OBVIOUS
    <2>3. \A i \in 1 .. Len(t) : i + 1 \in 1 .. Len(inbox) /\ t[i] = inbox[i + 1] BY <2>1
    <2> QED BY <2>1, <2>2, <2>3 DEF IClient, Names
  <1>3. IClient' BY <1>1, <1>2 DEF IClient, clientVars
  <1>4. \A c \in todo' : c \in Channel /\ ~cache[c].ready BY <1>1, <1>2
  <1>5. starting.chan = None /\ \A c \in Channel : c # None BY <1>1, ChannelIs DEF ILoop
  <1>6. ILoop' BY <1>1, <1>4 DEF ILoop
  <1>7. IIo' BY <1>1 DEF IIo, Alive
  <1>8. IOpen' BY <1>1, <1>4, <1>5 DEF IOpen, Unfed
  <1>9. FeedIsFiled' BY <1>1 DEF FeedIsFiled, Alive
  <1>10. IWait' BY <1>1 DEF IWait, Alive
  <1> QED BY <1>1, <1>3, <1>6, <1>7, <1>8, <1>9, <1>10, Silent

LEMMA ChannelStarts ==
    ASSUME IInv, NEW c \in Channel, NEW a \in Addr, StartChannel(c, a)
    PROVE  IInv'
  <1> USE DEF IInv
  <1> PICK w : w = [Free EXCEPT !.stage = "connect", !.chan = c] OBVIOUS
  <1>1. /\ starting.addr = None /\ c \in todo /\ ~Alive(a) /\ todo' = todo \ {c}
        /\ sock' = [sock EXCEPT ![a] = w] /\ starting' = [addr |-> a, chan |-> c]
        /\ UNCHANGED <<clientVars, inbox, cache, closing, set>> /\ Quiet
    BY DEF StartChannel
  <1>2. w \in Websocket /\ w.chan = c /\ w.stage = "connect" /\ ~w.stop
    BY DEF Free, Websocket
  <1>3. /\ sock' \in [Addr -> Websocket] /\ sock'[a] = w
        /\ \A b \in Addr : b # a => sock'[b] = sock[b]
    BY <1>1, <1>2 DEF IIo
  <1>4. a # None /\ c # None /\ starting.chan = None
    BY <1>1, ChannelIs, MarketAssumption DEF ILoop
  <1>5. starting'.addr = a /\ starting'.chan = c BY <1>1
  <1>6. IClient' BY <1>1 DEF IClient, clientVars
  <1>7. ILoop' BY <1>1, <1>4 DEF ILoop
  <1>8. IIo'
    <2>1. \A b \in Addr : Alive(b)' <=> sock'[b].chan \in Channel
      BY <1>2, <1>3 DEF IIo, Alive
    <2> QED BY <2>1, <1>1, <1>3 DEF IIo
  <1>9. IOpen'
    <2>1. \A d \in todo' : ~cache'[d].ready /\ starting'.chan # d BY <1>1, <1>5 DEF IOpen
    <2>2. ASSUME NEW d \in Watched, ~cache'[d].ready, starting'.chan # d PROVE Unfed(d)'
      <3>1. Unfed(d) BY <2>2, <1>1, <1>4, ChannelIs DEF IOpen, Watched
      <3> QED BY <3>1, <2>2, <1>2, <1>3, <1>5 DEF Unfed
    <2>3. c \in Watched => Unfed(c) BY <1>1, <1>4 DEF IOpen
    <2>4. \A b \in Addr : b # a /\ sock'[b].chan = c /\ c \in Watched => sock'[b].stop
      BY <2>3, <1>3 DEF Unfed
    <2> QED BY <2>1, <2>2, <2>4, <1>2, <1>3, <1>5 DEF IOpen
  <1>10. FeedIsFiled'
    <2>1. \A b \in Addr : Alive(b)' /\ b # starting'.addr => Alive(b) /\ sock'[b] = sock[b] /\ b # None
      BY <1>3, <1>5, MarketAssumption DEF Alive
    <2> QED BY <2>1, <1>1 DEF FeedIsFiled
  <1>11. IWait'
    <2>1. closing # None => closing # a BY <1>1 DEF IWait
    <2> QED BY <2>1, <1>1, <1>3 DEF IWait, Alive
  <1> QED BY <1>1, <1>6, <1>7, <1>8, <1>9, <1>10, <1>11, Silent

LEMMA ChannelFiled ==
    ASSUME IInv, FileChannel
    PROVE  IInv'
  <1> USE DEF IInv
  <1> PICK a : a = starting.addr OBVIOUS
  <1> PICK c : c = starting.chan OBVIOUS
  <1>1. /\ a # None /\ set' = [set EXCEPT ![c.market] = set[c.market] \cup {a}]
        /\ cache' = [cache EXCEPT ![c] = [handle |-> a, ready |-> TRUE]]
        /\ starting' = [addr |-> None, chan |-> None]
        /\ UNCHANGED <<clientVars, inbox, todo, sock, closing>> /\ Quiet
    BY DEF FileChannel
  <1>2. a \in Addr /\ c \in Channel /\ c.market \in Market /\ c # None BY <1>1, ChannelIs DEF ILoop
  <1>3. /\ cache' \in [Channel -> [handle : Addr \cup {None}, ready : BOOLEAN]]
        /\ cache'[c].handle = a /\ cache'[c].ready
        /\ \A d \in Channel : d # c => cache'[d] = cache[d]
    BY <1>1, <1>2 DEF ILoop
  <1>4. /\ set' \in [Market -> SUBSET Addr] /\ a \in set'[c.market]
        /\ \A m \in Market : set[m] \subseteq set'[m]
    BY <1>1, <1>2 DEF IIo
  <1>5. IClient' BY <1>1 DEF IClient, clientVars
  <1>6. ILoop' BY <1>1, <1>3 DEF ILoop
  <1>7. IIo' BY <1>1, <1>4 DEF IIo, Alive
  <1>8. IOpen'
    <2>1. \A d \in todo' : d \in Channel /\ d # c /\ d # None /\ ~cache[d].ready
      BY <1>1, ChannelIs DEF IOpen, ILoop
    <2>2. ASSUME NEW d \in Watched, ~cache'[d].ready PROVE Unfed(d)'
      <3>1. d \in Channel /\ d # c BY <2>2, <1>3 DEF Watched
      <3>2. Unfed(d) BY <3>1, <2>2, <1>3 DEF IOpen
      <3> QED BY <3>2, <1>1 DEF Unfed
    <2>3. starting'.addr = None /\ starting'.chan = None BY <1>1
    <2> QED BY <2>1, <2>2, <2>3, <1>1, <1>3 DEF IOpen
  <1>9. FeedIsFiled'
    <2> SUFFICES ASSUME NEW b \in Addr, Alive(b)
                 PROVE  /\ b \in set'[sock[b].chan.market]
                        /\ sock[b].chan \in Watched /\ ~sock[b].stop => cache'[sock[b].chan].handle = b
      BY <1>1 DEF FeedIsFiled, Alive
    <2>1. sock[b].chan \in Channel /\ sock[b].chan.market \in Market /\ sock[b].chan # None
      BY ChannelIs DEF IIo
    <2>2. CASE b = a
      <3>1. sock[b].chan = c BY <2>1, <2>2, <1>1 DEF IOpen
      <3> QED BY <3>1, <2>2, <1>3, <1>4
    <2>3. CASE b # a
      <3>1. /\ b \in set[sock[b].chan.market]
            /\ sock[b].chan \in Watched /\ ~sock[b].stop => cache[sock[b].chan].handle = b
        BY <2>3 DEF FeedIsFiled
      <3>2. sock[b].chan = c /\ c \in Watched => sock[b].stop BY <2>3, <1>1 DEF IOpen
      <3> QED BY <3>1, <3>2, <2>1, <1>3, <1>4
    <2> QED BY <2>2, <2>3
  <1>10. IWait' BY <1>1 DEF IWait, Alive
  <1> QED BY <1>1, <1>5, <1>6, <1>7, <1>8, <1>9, <1>10, Silent

LEMMA StatusChecked ==
    ASSUME IInv, CheckStatus
    PROVE  IInv'
  <1> USE DEF IInv
  <1>1. /\ todo = {} /\ starting.addr = None
        /\ UNCHANGED <<clientVars, inbox, starting, sock, closing, set>> /\ Quiet
    BY DEF CheckStatus, Idle
  <1>2. PICK r \in [Cached -> BOOLEAN] :
           /\ \A c \in Cached : r[c] \in is_ready(Asked(c), cache[c].handle)
           /\ todo' = {c \in Cached : ~r[c]}
           /\ cache' = [c \in Channel |->
                          IF c \in todo' THEN [cache[c] EXCEPT !.ready = FALSE] ELSE cache[c]]
    BY DEF CheckStatus
  <1>3. todo' \subseteq Channel BY <1>2 DEF Cached
  <1>4. /\ cache' \in [Channel -> [handle : Addr \cup {None}, ready : BOOLEAN]]
        /\ \A c \in Channel : /\ cache'[c].handle = cache[c].handle
                              /\ c \in todo' => ~cache'[c].ready
                              /\ c \notin todo' => cache'[c] = cache[c]
    BY <1>2 DEF ILoop
  <1>5. starting.chan = None /\ \A c \in Channel : c # None BY <1>1, ChannelIs DEF ILoop
  <1>6. ASSUME NEW c \in Watched, c \in todo' PROVE Unfed(c)
    <2> SUFFICES ASSUME NEW a \in Addr, sock[a].chan = c, ~sock[a].stop PROVE FALSE
      BY DEF Unfed, IIo, Websocket
    <2>1. c \in Channel /\ c \in Cached /\ ~r[c] /\ Asked(c) = c.market
      BY <1>2, <1>6 DEF Watched, Asked
    <2>2. Alive(a) /\ a # starting.addr BY <2>1, <1>1, MarketAssumption DEF IIo
    <2>3. a \in set[c.market] /\ cache[c].handle = a BY <2>2 DEF FeedIsFiled
    <2>4. r[c] \in {~sock[a].stop} BY <2>1, <2>2, <2>3, <1>2 DEF is_ready
    <2> QED BY <2>1, <2>4
  <1>7. IClient' BY <1>1 DEF IClient, clientVars
  <1>8. ILoop' BY <1>1, <1>3, <1>4 DEF ILoop
  <1>9. IIo' BY <1>1 DEF IIo, Alive
  <1>10. IOpen'
    <2>1. \A c \in todo' : ~cache'[c].ready /\ starting'.chan # c BY <1>1, <1>3, <1>4, <1>5
    <2>2. ASSUME NEW c \in Watched, ~cache'[c].ready PROVE Unfed(c)'
      <3>1. c \in Channel BY DEF Watched
      <3>2. CASE c \in todo' BY <3>2, <1>1, <1>6 DEF Unfed
      <3>3. CASE c \notin todo'
        <4>1. Unfed(c) BY <3>1, <3>3, <2>2, <1>4, <1>5 DEF IOpen
        <4> QED BY <4>1, <1>1 DEF Unfed
      <3> QED BY <3>2, <3>3
    <2> QED BY <2>1, <2>2, <1>1 DEF IOpen
  <1>11. FeedIsFiled'
    <2>1. \A a \in Addr : Alive(a) => sock[a].chan \in Channel BY DEF IIo
    <2> QED BY <2>1, <1>1, <1>4 DEF FeedIsFiled, Alive
  <1>12. IWait' BY <1>1 DEF IWait, Alive
  <1> QED BY <1>1, <1>7, <1>8, <1>9, <1>10, <1>11, <1>12, Silent

-----------------------------------------------------------------------------
(* The I/O thread. *)

LEMMA IoKeeps ==
    ASSUME IInv, NEW a \in Addr,
           \/ Connected(a) \/ Fail(a) \/ Hang(a) \/ Restart(a) \/ CloseReturns(a) \/ Closed(a)
           \/ \E text \in Text : Receive(a, text)
    PROVE  IInv'
  <1> USE DEF IInv
  <1>1. UNCHANGED <<clientVars, inbox, loopVars>>
    BY DEF Connected, Fail, Hang, Restart, CloseReturns, Closed, Receive
  <1>2. IClient' BY <1>1 DEF IClient, clientVars
  <1>3. sock[a] \in Websocket /\ a # None BY MarketAssumption DEF IIo
  <1>4. Alive(a)
    <2>1. CASE CloseReturns(a) BY <2>1, <1>3 DEF CloseReturns, IWait
    <2>2. CASE ~CloseReturns(a)
      BY <2>2 DEF Connected, Fail, Hang, Restart, Closed, Receive, Alive
    <2> QED BY <2>1, <2>2
  <1>5. sock[a].chan \in Channel BY <1>4 DEF IIo
  <1>6. ASSUME NEW w \in Websocket, w.chan = sock[a].chan, w.stage # "free", sock[a].stop => w.stop,
               sock' = [sock EXCEPT ![a] = w], set' = set, ITold',
               closing' \in {closing, None} \/ (closing' = a /\ w.stop)
        PROVE  IInv'
    <2>1. sock'[a] = w /\ \A b \in Addr : b # a => sock'[b] = sock[b] BY <1>6 DEF IIo
    <2>2. IWait'
      <3>1. CASE closing' = None BY <3>1 DEF IWait
      <3>2. CASE closing' = a /\ w.stop BY <3>2, <2>1, <1>6 DEF IWait, Alive
      <3>3. CASE closing' = closing /\ closing # None
        BY <3>3, <2>1, <1>6 DEF IWait, Alive
      <3> QED BY <3>1, <3>2, <3>3, <1>6
    <2> QED BY <1>1, <1>2, <1>4, <1>6, <2>2, GoesOn
  <1>7. ASSUME Delete(a), ITold', closing' = None PROVE IInv'
    BY <1>1, <1>2, <1>4, <1>7, Goes DEF IWait
  <1>8. ASSUME StopLast(a), ITold' PROVE IInv'
    <2> PICK w : w = [sock[a] EXCEPT !.stage = "over", !.stop = TRUE] OBVIOUS
    <2>1. w \in Websocket /\ w.chan = sock[a].chan /\ w.stage # "free" /\ w.stop
      BY <1>3 DEF Websocket
    <2>2. sock' = [sock EXCEPT ![a] = w] BY <1>8 DEF StopLast
    <2> QED BY <2>1, <2>2, <1>6, <1>8 DEF StopLast
  <1>9. CASE Connected(a)
    <2> PICK w : w = [sock[a] EXCEPT !.stage = "read"] OBVIOUS
    <2>1. w \in Websocket /\ w.chan = sock[a].chan /\ w.stage # "free" /\ w.stop = sock[a].stop
      BY <1>3 DEF Websocket
    <2> QED BY <2>1, <1>6, <1>9, Silent DEF Connected
  <1>10. CASE Hang(a)
    <2> PICK w : w = [sock[a] EXCEPT !.hung = TRUE] OBVIOUS
    <2>1. w \in Websocket /\ w.chan = sock[a].chan /\ w.stage # "free" /\ w.stop = sock[a].stop
      BY <1>3, <1>4 DEF Websocket, Alive
    <2> QED BY <2>1, <1>6, <1>10, Silent DEF Hang
  <1>11. CASE Restart(a)
    <2> PICK w : w = [sock[a] EXCEPT !.stop = TRUE] OBVIOUS
    <2>1. w \in Websocket /\ w.chan = sock[a].chan /\ w.stage # "free" /\ w.stop
      BY <1>3, <1>4 DEF Websocket, Alive
    <2> QED BY <2>1, <1>6, <1>11, Silent DEF Restart
  <1>12. CASE CloseReturns(a)
    <2>1. CASE sock[a].stage = "over" BY <2>1, <1>7, <1>12, Silent DEF CloseReturns
    <2>2. CASE sock[a].stage # "over"
      <3> PICK w : w = [sock[a] EXCEPT !.stage = "closed"] OBVIOUS
      <3>1. w \in Websocket /\ w.chan = sock[a].chan /\ w.stage # "free" /\ w.stop = sock[a].stop
        BY <1>3 DEF Websocket
      <3> QED BY <3>1, <2>2, <1>6, <1>12, Silent DEF CloseReturns
    <2> QED BY <2>1, <2>2
  <1>13. CASE Closed(a) BY <1>7, <1>13, Silent DEF Closed
  <1>14. CASE Fail(a)
    <2>1. ITold' BY <1>5, <1>14, Writes, Published, Silent DEF Fail
    <2>2. CASE Delete(a) /\ UNCHANGED closing BY <2>1, <2>2, <1>7, <1>14 DEF Fail
    <2>3. CASE StopLast(a) BY <2>1, <2>3, <1>8
    <2> QED BY <2>2, <2>3, <1>14 DEF Fail
  <1>15. ASSUME NEW text \in Text, Receive(a, text) PROVE IInv'
    <2>1. ITold' BY <1>5, <1>15, TextWrites, Published DEF Receive
    <2>2. CASE Delete(a) /\ UNCHANGED closing BY <2>1, <2>2, <1>7, <1>15 DEF Receive
    <2>3. CASE StopLast(a) BY <2>1, <2>3, <1>8
    <2>4. CASE UNCHANGED <<sock, closing, set>>
      BY <2>1, <2>4, <1>1, <1>2, Elsewhere
    <2> QED BY <2>2, <2>3, <2>4, <1>15 DEF Receive
  <1> QED BY <1>9, <1>10, <1>11, <1>12, <1>13, <1>14, <1>15

-----------------------------------------------------------------------------
LEMMA InitOK == Init => IInv
  <1> SUFFICES ASSUME Init PROVE IInv OBVIOUS
  <1>1. <<>> \in Seq(Waiting) /\ <<>> \in Seq(Asking) /\ Len(<<>>) = 0 OBVIOUS
  <1>2. IClient
    <2>1. \A i \in 1 .. Len(<<>>) : FALSE BY <1>1
    <2>2. Names(<<>>) BY <2>1 DEF Names
    <2>3. subscribed \in [Strategy -> SUBSET Channel] BY DEF Init
    <2>4. all \in BOOLEAN /\ writer = "none" BY DEF Init
    <2>5. deferred = <<>> /\ inbox = <<>> BY DEF Init
    <2> QED BY <1>1, <2>2, <2>3, <2>4, <2>5 DEF IClient
  <1>3. ILoop BY DEF Init, ILoop
  <1>4. /\ Free \in Websocket /\ Free.stage = "free" /\ Free.chan = None /\ ~Free.stop
        /\ None \notin Channel
    BY MarketAssumption DEF Free, Websocket
  <1>5. \A a \in Addr : sock[a] = Free BY DEF Init
  <1>6. IIo
    <2>1. sock \in [Addr -> Websocket] BY <1>4 DEF Init
    <2>2. set \in [Market -> SUBSET Addr] BY DEF Init
    <2> QED BY <1>4, <1>5, <2>1, <2>2 DEF IIo, Alive
  <1>7. ITold BY DEF Init, Nothing, ITold, NoVoidFrame
  <1>8. \A c \in Channel : Unfed(c) BY <1>4, <1>5 DEF Unfed
  <1>9. IOpen BY <1>8 DEF Init, IOpen, Watched
  <1>10. FeedIsFiled BY <1>4, <1>5 DEF FeedIsFiled, Alive
  <1>11. IWait BY DEF Init, IWait
  <1> QED BY <1>2, <1>3, <1>6, <1>7, <1>9, <1>10, <1>11 DEF IInv

LEMMA NextKeeps == IInv /\ [Next]_vars => IInv'
  <1> SUFFICES ASSUME IInv, [Next]_vars PROVE IInv' OBVIOUS
  <1>1. CASE StrategyStep BY <1>1, StrategyKeeps
  <1>2. CASE LoopStep
    BY <1>2, RequestRead, ChannelStarts, ChannelFiled, StatusChecked DEF LoopStep
  <1>3. CASE IoStep BY <1>3, IoKeeps DEF IoStep
  <1>4. CASE UNCHANGED vars
    BY <1>4 DEF vars, clientVars, loopVars, IInv, IClient, ILoop, IIo, IWait, ITold, IOpen, FeedIsFiled,
       NoVoidFrame, Unfed, Alive
  <1> QED BY <1>1, <1>2, <1>3, <1>4 DEF Next

LEMMA InvShows == IInv => FeedsFiled
  <1> SUFFICES ASSUME IInv PROVE FeedsFiled OBVIOUS
  <1> USE DEF IInv
  <1>1. TypeOK
    <2>1. \A m \in Market : set[m] \subseteq Addr BY DEF IIo
    <2> QED BY <2>1 DEF TypeOK, IClient, ILoop, IIo, IWait, ITold, Waiting
  <1>2. ASSUME NEW c \in Watched PROVE Cardinality(Feeds(c)) <= 1
    <2>1. PICK h : Feeds(c) \subseteq {h}
      <3>1. c \in Channel /\ c # None BY ChannelIs DEF Watched
      <3>2. \A a \in Feeds(c) : a \in Addr /\ Alive(a) /\ sock[a].chan = c /\ ~sock[a].stop
        BY <3>1 DEF Feeds, IIo
      <3>3. CASE starting.chan = c
        <4>1. Feeds(c) \subseteq {starting.addr} BY <3>1, <3>2, <3>3 DEF IOpen, ILoop
        <4> QED BY <4>1
      <3>4. CASE starting.chan # c
        <4>1. \A a \in Feeds(c) : a # starting.addr
          <5>1. \A a \in Addr : a # None BY MarketAssumption
          <5> QED BY <5>1, <3>1, <3>2, <3>4 DEF IOpen
        <4>2. Feeds(c) \subseteq {cache[c].handle} BY <4>1, <3>2 DEF FeedIsFiled
        <4> QED BY <4>2
      <3> QED BY <3>3, <3>4
    <2>2. IsFiniteSet({h}) /\ Cardinality({h}) = 1 BY FS_Singleton
    <2>3. Cardinality(Feeds(c)) <= Cardinality({h}) BY <2>1, <2>2, FS_Subset
    <2> QED BY <2>2, <2>3
  <1> QED BY <1>1, <1>2 DEF FeedsFiled, OneFeed, ITold

(* However connections fail, hang, are stopped and leave their addresses *)
(* to others, a channel of Spot or FFuture has at most one websocket that  *)
(* feeds it, and that one is the one of the cache and filed where          *)
(* is_ready looks for it; what a strategy is given without an event in it  *)
(* comes from the trade channel of Spot (start_channel, its deleter,       *)
(* _check_status, the callbacks).                                          *)
THEOREM ChannelsFedOnce == Spec => []FeedsFiled
  <1> QED BY InitOK, NextKeeps, InvShows, PTL DEF Spec
=============================================================================
