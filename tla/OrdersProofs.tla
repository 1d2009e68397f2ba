---------------------------- MODULE OrdersProofs -----------------------------
(***************************************************************************)
(* Proofs about Orders for any number of orders, streams and requests: the *)
(* gateway keeps track of every order that can still change and, for       *)
(* futures, does not contradict itself; an order that ended for the        *)
(* strategy does not come back; the book conserves value, and has frozen   *)
(* what its active orders set aside.                                       *)
(***************************************************************************)
EXTENDS Orders, FiniteSetTheorems, WellFoundedInduction, TLAPS

(* Only orders that were inserted are found anywhere. *)
IPlaced ==
    /\ \A o \in Order \ placed : /\ active[o] = None /\ rows[o] = None /\ finished[o] = None
                                 /\ ex[o] = None /\ calls[o] = "none"
    /\ adding \in placed \cup {None, Other}
    /\ orderData \subseteq placed
    /\ \A k \in 1 .. Len(inbox) : inbox[k].order \in placed
    /\ \A i \in Stream : \A k \in 1 .. Len(stream[i]) : stream[i][k].order \in placed
    /\ \A k \in 1 .. Len(reports) : reports[k].mine => reports[k].order \in placed

(* An order is sent once, and is in order_data_ by then. *)
IFresh ==
    /\ \A o \in Order : adding = o => ex[o] = None /\ calls[o] = "none"
    /\ \A k \in 1 .. Len(inbox) : inbox[k].type = "insert" =>
          /\ adding # inbox[k].order
          /\ ex[inbox[k].order] = None /\ calls[inbox[k].order] = "none"
          /\ \A l \in 1 .. Len(inbox) :
               inbox[l].type = "insert" /\ inbox[l].order = inbox[k].order => l = k
    /\ \A o \in Order : calls[o] = "sent" => ex[o] = None /\ o \in orderData

(* The last message of an order is sent when it has ended. *)
ITrack ==
    /\ Tracked
    /\ \A i \in Stream : \A k \in 1 .. Len(stream[i]) :
          Last(stream[i][k]) => /\ ~Live(stream[i][k].order)
                                /\ ex[stream[i][k].order] # None

(* Nothing is filled beyond its volume. *)
IFilled ==
    /\ \A o \in Order : filled[o] <= Volume[o]
    /\ \A i \in Stream : \A k \in 1 .. Len(stream[i]) :
          stream[i][k].traded <= Volume[stream[i][k].order]

(* A final frame of an order that is not disputed is the last one, and     *)
(* what it ends stays ended.                                               *)
Mine(k, o) == reports[k].mine /\ reports[k].order = o

IEnd ==
    /\ starts >= 1
    /\ \A o \in Order : finished[o] # None => told[o] > Volume[o]
    /\ \A k \in 1 .. Len(reports) : reports[k].mine /\ IsFinal(reports[k].status) =>
          told[reports[k].order] > Volume[reports[k].order]
    /\ \A o \in Order \ disputed :
          /\ finished[o] # None => \A k \in 1 .. Len(reports) : ~Mine(k, o)
          /\ finished[o] \notin {None, "Error"} => rows[o] = None
          /\ \A k, l \in 1 .. Len(reports) :
               k < l /\ Mine(k, o) /\ Mine(l, o) => ~IsFinal(reports[k].status)
    /\ NoZombie

OInv == StateOK /\ IPlaced /\ IFresh /\ ITrack /\ IFilled /\ IEnd

-----------------------------------------------------------------------------
(* What Append and Tail leave of a sequence. *)
LEMMA AppendElements ==
    ASSUME NEW S, NEW s \in Seq(S), NEW e \in S
    PROVE  /\ Append(s, e) \in Seq(S)
           /\ Len(s) \in Nat /\ Len(Append(s, e)) = Len(s) + 1
           /\ Append(s, e)[Len(s) + 1] = e
           /\ \A k \in 1 .. Len(s) : Append(s, e)[k] = s[k] /\ s[k] \in S
           /\ \A k \in 1 .. Len(Append(s, e)) : k \in 1 .. Len(s) \/ k = Len(s) + 1
  OBVIOUS

LEMMA TailElements ==
    ASSUME NEW S, NEW s \in Seq(S), s # <<>>
    PROVE  /\ Tail(s) \in Seq(S) /\ Head(s) \in S
           /\ Len(s) \in Nat /\ Len(s) >= 1 /\ Head(s) = s[1]
           /\ Len(Tail(s)) = Len(s) - 1
           /\ \A k \in 1 .. Len(Tail(s)) : /\ k + 1 \in 1 .. Len(s) /\ k + 1 # 1
                                          /\ Tail(s)[k] = s[k + 1]
  OBVIOUS

Request == [type : {"insert", "cancel", "query"}, order : Order]
Update == [order : Order, status : ExStatus, traded : Nat]

(* Initially nothing has happened. *)
LEMMA InitOInv == Init => OInv
  <1> SUFFICES ASSUME Init PROVE OInv OBVIOUS
  <1>a. MaxStream \in Nat /\ MaxStream >= 1 /\ MaxAction \in Nat BY OrdersAssumption
  <1>1. StateOK
    <2>1. opened \in 0 .. MaxStream /\ sockets \subseteq Stream
      BY <1>a DEF Init, Stream
    <2>2. inbox \in Seq(Request) /\ reports \in Seq(Frame)
      BY DEF Init
    <2>3. stream \in [Stream -> Seq(Update)]
      BY DEF Init
    <2>4. reconnected \in BOOLEAN /\ doubled \in BOOLEAN BY DEF Init
    <2>5. /\ kind \in Kinds /\ placed \subseteq Order /\ buys \subseteq placed
          /\ asked \in 0 .. MaxAction /\ starts \in Nat
          /\ adding \in Order \cup {None, Other} /\ orderData \subseteq Order
          /\ cancels \subseteq Order /\ queries \subseteq Order /\ deleting \subseteq Stream
          /\ disputed \subseteq Order /\ lost \subseteq Order
      BY <1>a DEF Init
    <2>6. /\ active \in [Order -> Keep \cup {None}] /\ rows \in [Order -> Keep \cup {None}]
          /\ calls \in [Order -> {"none", "sent", "ok", "ec"}]
          /\ ex \in [Order -> ExStatus \cup {None}]
          /\ filled \in [Order -> Nat] /\ told \in [Order -> Nat]
          /\ finished \in [Order -> {None, "Cancelled", "Error", "Filled"}]
      BY DEF Init
    <2> QED BY <2>1, <2>2, <2>3, <2>4, <2>5, <2>6 DEF StateOK, Request, Update
  <1>2. IPlaced BY DEF Init, IPlaced
  <1>3. IFresh BY DEF Init, IFresh
  <1>4. ITrack BY OrdersAssumption DEF Init, ITrack, Tracked, Live, ExStatus
  <1>5. IFilled BY OrdersAssumption DEF Init, IFilled
  <1>6. IEnd BY DEF Init, IEnd, NoZombie
  <1> QED BY <1>1, <1>2, <1>3, <1>4, <1>5, <1>6 DEF OInv

(* Each part of the invariant depends on a few variables. *)
LEMMA PlacedSame ==
    ASSUME IPlaced, UNCHANGED <<placed, active, rows, finished, ex, calls, adding,
                                orderData, inbox, stream, reports>>
    PROVE  IPlaced'
  BY DEF IPlaced, Stream

LEMMA FreshSame ==
    ASSUME IFresh, UNCHANGED <<adding, ex, calls, inbox, orderData>>
    PROVE  IFresh'
  BY DEF IFresh

LEMMA TrackSame ==
    ASSUME ITrack, UNCHANGED <<ex, orderData, stream>>
    PROVE  ITrack'
  BY DEF ITrack, Tracked, Live, Stream, Last, IsFinal, FromBinance

LEMMA FilledSame ==
    ASSUME IFilled, UNCHANGED <<filled, stream>>
    PROVE  IFilled'
  BY DEF IFilled, Stream

LEMMA EndSame ==
    ASSUME IEnd, UNCHANGED <<starts, finished, told, reports, disputed, rows, active>>
    PROVE  IEnd'
  BY DEF IEnd, NoZombie, Mine

-----------------------------------------------------------------------------
(* The strategy *)
(* A request of an order that was inserted, other than the insertion,      *)
(* changes nothing that the invariant speaks of.                           *)
LEMMA RequestStep ==
    ASSUME OInv, NEW o \in placed, NEW t \in {"cancel", "query"},
           inbox' = Append(inbox, [type |-> t, order |-> o]),
           UNCHANGED <<placed, rows, finished, ex, calls, adding, orderData, stream, reports>>,
           \A p \in Order \ placed : active'[p] = active[p]
    PROVE  inbox' \in Seq(Request) /\ IPlaced' /\ IFresh'
  <1> DEFINE r == [type |-> t, order |-> o]
  <1>1. r \in Request /\ inbox \in Seq(Request) /\ r.type # "insert"
    BY DEF OInv, StateOK, Request
  <1>2. /\ inbox' \in Seq(Request)
        /\ Len(inbox) \in Nat /\ Len(inbox') = Len(inbox) + 1
        /\ inbox'[Len(inbox) + 1] = r
        /\ \A k \in 1 .. Len(inbox) : inbox'[k] = inbox[k]
        /\ \A k \in 1 .. Len(inbox') : k \in 1 .. Len(inbox) \/ k = Len(inbox) + 1
    BY <1>1, AppendElements
  <1>3. IPlaced' BY <1>2 DEF OInv, IPlaced, Stream
  <1>4. \A k \in 1 .. Len(inbox') : inbox'[k].type = "insert" =>
           k \in 1 .. Len(inbox) /\ inbox'[k] = inbox[k]
    BY <1>1, <1>2
  <1>5. IFresh' BY <1>4 DEF OInv, IFresh
  <1> QED BY <1>2, <1>3, <1>5

LEMMA CancelOrderStep ==
    ASSUME OInv, NEW o \in Order, CancelOrder(o)
    PROVE  OInv'
  <1>1. /\ active[o] # None /\ asked < MaxAction /\ asked' = asked + 1
        /\ inbox' = Append(inbox, [type |-> "cancel", order |-> o])
        /\ active' = [active EXCEPT ![o].status = "Pending"]
        /\ UNCHANGED <<kind, placed, buys, rows, starts, adding, orderData, calls, cancels,
                       queries, sockets, opened, deleting, reconnected, reports, ex,
                       filled, stream, told, disputed, doubled, lost, finished>>
    BY DEF CancelOrder, gvars, wvars, xvars, hvars
  <1>2. o \in placed BY <1>1 DEF OInv, IPlaced
  <1>3. \A p \in Order : p # o => active'[p] = active[p]
    BY <1>1 DEF OInv, StateOK
  <1>4. inbox' \in Seq(Request) /\ IPlaced' /\ IFresh'
    BY <1>1, <1>2, <1>3, RequestStep
  <1>5. StateOK'
    <2>1. active' \in [Order -> Keep \cup {None}]
      BY <1>1 DEF OInv, StateOK, Keep, Status
    <2>2. asked' \in 0 .. MaxAction BY <1>1, OrdersAssumption DEF OInv, StateOK
    <2> QED BY <1>1, <1>4, <2>1, <2>2 DEF OInv, StateOK, Request, Stream
  <1>6. ITrack' /\ IFilled' BY <1>1, TrackSame, FilledSame DEF OInv
  <1>7. IEnd' BY <1>1, <1>3 DEF OInv, IEnd, NoZombie, Mine
  <1> QED BY <1>4, <1>5, <1>6, <1>7 DEF OInv

LEMMA QueryOrderStep ==
    ASSUME OInv, NEW o \in Order, QueryOrder(o)
    PROVE  OInv'
  <1>1. /\ o \in placed /\ asked < MaxAction /\ asked' = asked + 1
        /\ inbox' = Append(inbox, [type |-> "query", order |-> o])
        /\ UNCHANGED <<kind, placed, buys, active, rows, starts, adding, orderData, calls,
                       cancels, queries, sockets, opened, deleting, reconnected, reports, ex,
                       filled, stream, told, disputed, doubled, lost, finished>>
    BY DEF QueryOrder, gvars, wvars, xvars, hvars
  <1>2. inbox' \in Seq(Request) /\ IPlaced' /\ IFresh'
    BY <1>1, RequestStep
  <1>3. StateOK'
    <2>1. asked' \in 0 .. MaxAction BY <1>1, OrdersAssumption DEF OInv, StateOK
    <2> QED BY <1>1, <1>2, <2>1 DEF OInv, StateOK, Request, Stream
  <1>4. ITrack' /\ IFilled' /\ IEnd' BY <1>1, TrackSame, FilledSame, EndSame DEF OInv
  <1> QED BY <1>2, <1>3, <1>4 DEF OInv

LEMMA InsertOrderStep ==
    ASSUME OInv, NEW o \in Order, NEW buy \in BOOLEAN, InsertOrder(o, buy)
    PROVE  OInv'
  <1> DEFINE r == [type |-> "insert", order |-> o]
  <1>1. /\ o \notin placed /\ placed' = placed \cup {o}
        /\ inbox' = Append(inbox, r)
        /\ active' = [active EXCEPT ![o] = Kept("PreSend", Volume[o])]
        /\ UNCHANGED <<kind, rows, asked, starts, adding, orderData, calls, cancels,
                       queries, sockets, opened, deleting, reconnected, reports, ex,
                       filled, stream, told, disputed, doubled, lost, finished>>
    BY DEF InsertOrder, Freeze, gvars, wvars, xvars, hvars
  <1>2. buys' \subseteq placed' /\ placed' \subseteq Order
    BY <1>1 DEF InsertOrder, OInv, StateOK
  <1>3. r \in Request /\ inbox \in Seq(Request)
    BY DEF OInv, StateOK, Request
  <1>4. /\ inbox' \in Seq(Request)
        /\ Len(inbox) \in Nat /\ Len(inbox') = Len(inbox) + 1
        /\ inbox'[Len(inbox) + 1] = r
        /\ \A k \in 1 .. Len(inbox) : inbox'[k] = inbox[k]
        /\ \A k \in 1 .. Len(inbox') : k \in 1 .. Len(inbox) \/ k = Len(inbox) + 1
    BY <1>1, <1>3, AppendElements
  <1>5. StateOK'
    <2>1. active' \in [Order -> Keep \cup {None}]
      BY <1>1, OrdersAssumption DEF OInv, StateOK, Keep, Kept, Status
    <2> QED BY <1>1, <1>2, <1>4, <2>1 DEF OInv, StateOK, Request, Stream
  <1>6. \A p \in Order \ placed' : active'[p] = active[p]
    BY <1>1 DEF OInv, StateOK
  <1>7. IPlaced' BY <1>1, <1>4, <1>6 DEF OInv, IPlaced, Stream
  <1>8. \A k \in 1 .. Len(inbox) : inbox[k].order # o
    BY <1>1 DEF OInv, IPlaced
  <1>9. adding # o /\ ex[o] = None /\ calls[o] = "none" /\ finished[o] = None
    BY <1>1, OrdersAssumption DEF OInv, IPlaced
  <1>10. IFresh'
    <2> SUFFICES ASSUME NEW k \in 1 .. Len(inbox'), inbox'[k].type = "insert"
                 PROVE  /\ adding # inbox'[k].order
                        /\ ex[inbox'[k].order] = None /\ calls[inbox'[k].order] = "none"
                        /\ \A l \in 1 .. Len(inbox') :
                             inbox'[l].type = "insert" /\ inbox'[l].order = inbox'[k].order
                                => l = k
      BY <1>1 DEF OInv, IFresh
    <2>1. CASE k = Len(inbox) + 1 BY <1>4, <1>8, <1>9, <2>1
    <2>2. CASE k \in 1 .. Len(inbox)
      <3>1. inbox'[k] = inbox[k] /\ inbox[k].order # o BY <1>4, <1>8, <2>2
      <3> QED BY <1>4, <2>2, <3>1 DEF OInv, IFresh
    <2> QED BY <1>4, <2>1, <2>2
  <1>11. ITrack' /\ IFilled' BY <1>1, TrackSame, FilledSame DEF OInv
  <1>12. \A p \in Order : p # o => active'[p] = active[p] BY <1>1 DEF OInv, StateOK
  <1>13. IEnd' BY <1>1, <1>9, <1>12 DEF OInv, IEnd, NoZombie, Mine
  <1> QED BY <1>5, <1>7, <1>10, <1>11, <1>13 DEF OInv

(* One Order frame of the strategy. *)
LEMMA OnOrderMine ==
    ASSUME OInv, reports # <<>>, Head(reports).mine, BookOnOrder(Head(reports)),
           Persist(Head(reports)), reports' = Tail(reports),
           finished' = [finished EXCEPT ![Head(reports).order] =
                           IF IsFinal(Head(reports).status) THEN Head(reports).status ELSE @],
           UNCHANGED <<placed, starts, told, disputed>>
    PROVE  /\ active' \in [Order -> Keep \cup {None}] /\ rows' \in [Order -> Keep \cup {None}]
           /\ finished' \in [Order -> {None, "Cancelled", "Error", "Filled"}]
           /\ \A o \in Order \ placed : active'[o] = None /\ rows'[o] = None /\ finished'[o] = None
           /\ IEnd'
  <1> DEFINE r == Head(reports)
             o == r.order
  <1>1. reports \in Seq(Frame) BY DEF OInv, StateOK
  <1>2. /\ r \in Frame /\ r = reports[1] /\ Len(reports) \in Nat /\ Len(reports) >= 1
        /\ Len(reports') = Len(reports) - 1
        /\ \A k \in 1 .. Len(reports') : /\ k + 1 \in 1 .. Len(reports) /\ k + 1 # 1
                                        /\ reports'[k] = reports[k + 1]
    BY <1>1, TailElements
  <1>3. /\ o \in Order /\ r.status \in Status /\ r.left \in Nat /\ o \in placed
    BY <1>2 DEF Frame, OInv, IPlaced
  <1>4. Kept(r.status, r.left) \in Keep BY <1>3 DEF Kept, Keep
  <1>5. /\ active \in [Order -> Keep \cup {None}] /\ rows \in [Order -> Keep \cup {None}]
        /\ finished \in [Order -> {None, "Cancelled", "Error", "Filled"}]
    BY DEF OInv, StateOK
  <1>6. /\ active' \in [Order -> Keep \cup {None}]
        /\ \A p \in Order : p # o => active'[p] = active[p]
        /\ IsFinal(r.status) => active'[o] = None
    BY <1>3, <1>4, <1>5 DEF BookOnOrder
  <1>7. /\ rows' \in [Order -> Keep \cup {None}]
        /\ \A p \in Order : p # o /\ rows[p] = None => rows'[p] = None
        /\ IsFinal(r.status) /\ r.status # "Error" => rows'[o] = None
    <2>1. CASE r.status = "Error" BY <1>5, <2>1 DEF Persist
    <2>2. CASE r.status # "Error"
      <3> DEFINE merged == [rows EXCEPT ![o] = Kept(r.status, r.left)]
      <3>1. rows' = [p \in Order |->
                       IF /\ merged[p] # None
                          /\ merged[p].status \in {"Submitted", "PartialFilledActive"}
                       THEN merged[p] ELSE None]
        BY <2>2 DEF Persist, AddOrder
      <3>2. merged \in [Order -> Keep \cup {None}] BY <1>4, <1>5
      <3>3. merged[o].status = r.status BY <1>3, <1>5 DEF Kept
      <3>4. \A p \in Order : p # o => merged[p] = rows[p] BY <1>5
      <3> HIDE DEF merged
      <3> QED BY <1>3, <3>1, <3>2, <3>3, <3>4 DEF IsFinal
    <2> QED BY <2>1, <2>2
  <1>8. /\ finished' \in [Order -> {None, "Cancelled", "Error", "Filled"}]
        /\ \A p \in Order : p # o => finished'[p] = finished[p]
        /\ IsFinal(r.status) => finished'[o] = r.status
        /\ ~IsFinal(r.status) => finished'[o] = finished[o]
    BY <1>3, <1>5 DEF IsFinal, Status
  <1>9. o \notin disputed => finished[o] = None
    BY <1>2, <1>3 DEF OInv, IEnd, Mine
  <1>10. IEnd'
    <2>1. starts' >= 1 BY DEF OInv, IEnd
    <2>2. \A p \in Order : finished'[p] # None => told'[p] > Volume[p]
      BY <1>2, <1>3, <1>8 DEF OInv, IEnd
    <2>3. \A k \in 1 .. Len(reports') : reports'[k].mine /\ IsFinal(reports'[k].status) =>
             told'[reports'[k].order] > Volume[reports'[k].order]
      BY <1>2 DEF OInv, IEnd
    <2>4. ASSUME NEW p \in Order \ disputed
          PROVE  /\ finished'[p] # None => \A k \in 1 .. Len(reports') : ~Mine(k, p)'
                 /\ finished'[p] \notin {None, "Error"} => rows'[p] = None
                 /\ \A k, l \in 1 .. Len(reports') :
                      k < l /\ Mine(k, p)' /\ Mine(l, p)' => ~IsFinal(reports'[k].status)
      <3>1. \A k \in 1 .. Len(reports') : Mine(k, p)' <=> Mine(k + 1, p)
        BY <1>2 DEF Mine
      <3>2. \A k, l \in 1 .. Len(reports') :
               k < l /\ Mine(k, p)' /\ Mine(l, p)' => ~IsFinal(reports'[k].status)
        BY <1>2, <3>1 DEF OInv, IEnd
      <3>3. CASE p # o
        BY <1>2, <1>7, <1>8, <3>1, <3>2, <3>3 DEF OInv, IEnd
      <3>4. CASE p = o
        <4>1. finished[o] = None BY <1>9, <3>4
        <4>2. Mine(1, p) BY <1>2, <3>4 DEF Mine
        <4>3. IsFinal(r.status) => \A k \in 1 .. Len(reports') : ~Mine(k, p)'
          BY <1>2, <3>1, <4>2 DEF OInv, IEnd
        <4>4. finished'[p] # None => IsFinal(r.status) /\ finished'[p] = r.status
          BY <1>8, <3>4, <4>1
        <4> QED BY <1>7, <3>2, <3>4, <4>3, <4>4
      <3> QED BY <3>3, <3>4
    <2>5. NoZombie'
      BY <1>3, <1>6, <1>8, <1>9 DEF OInv, IEnd, NoZombie
    <2> QED BY <2>1, <2>2, <2>3, <2>4, <2>5 DEF IEnd
  <1>11. \A p \in Order \ placed : active'[p] = None /\ rows'[p] = None /\ finished'[p] = None
    BY <1>3, <1>6, <1>7, <1>8 DEF OInv, IPlaced
  <1> QED BY <1>6, <1>7, <1>8, <1>10, <1>11

LEMMA OnOrderStep ==
    ASSUME OInv, OnOrder
    PROVE  OInv'
  <1> DEFINE r == Head(reports)
  <1>1. /\ reports # <<>> /\ reports' = Tail(reports)
        /\ UNCHANGED <<kind, placed, buys, asked, starts, inbox, adding, orderData, calls,
                       cancels, queries, sockets, opened, deleting, reconnected, ex,
                       filled, stream, told, disputed, doubled, lost>>
    BY DEF OnOrder, gvars, wvars, xvars
  <1>2. reports \in Seq(Frame) BY DEF OInv, StateOK
  <1>3. /\ reports' \in Seq(Frame) /\ Len(reports') = Len(reports) - 1 /\ Len(reports) \in Nat
        /\ \A k \in 1 .. Len(reports') : /\ k + 1 \in 1 .. Len(reports)
                                        /\ reports'[k] = reports[k + 1]
    BY <1>1, <1>2, TailElements
  <1>4. /\ active' \in [Order -> Keep \cup {None}] /\ rows' \in [Order -> Keep \cup {None}]
        /\ finished' \in [Order -> {None, "Cancelled", "Error", "Filled"}]
        /\ \A o \in Order \ placed : active'[o] = None /\ rows'[o] = None /\ finished'[o] = None
        /\ IEnd'
    <2>1. CASE r.mine
      <3>1. /\ BookOnOrder(r) /\ Persist(r)
            /\ finished' = [finished EXCEPT ![r.order] =
                              IF IsFinal(r.status) THEN r.status ELSE @]
        BY <2>1 DEF OnOrder
      <3> QED BY <1>1, <2>1, <3>1, OnOrderMine
    <2>2. CASE ~r.mine
      <3>1. UNCHANGED <<active, rows, finished>> BY <2>2 DEF OnOrder
      <3>2. IEnd'
        <4>1. \A k \in 1 .. Len(reports'), o \in Order : Mine(k, o)' <=> Mine(k + 1, o)
          BY <1>3 DEF Mine
        <4>2. \A k \in 1 .. Len(reports') : reports'[k].mine /\ IsFinal(reports'[k].status) =>
                 told[reports'[k].order] > Volume[reports'[k].order]
          BY <1>3 DEF OInv, IEnd
        <4>3. ASSUME NEW o \in Order \ disputed
              PROVE  /\ finished[o] # None => \A k \in 1 .. Len(reports') : ~Mine(k, o)'
                     /\ \A k, l \in 1 .. Len(reports') :
                          k < l /\ Mine(k, o)' /\ Mine(l, o)' => ~IsFinal(reports'[k].status)
          <5>1. \A k \in 1 .. Len(reports') : Mine(k, o)' <=> Mine(k + 1, o) BY <4>1
          <5>2. \A k, l \in 1 .. Len(reports') :
                   k < l /\ Mine(k, o)' /\ Mine(l, o)' => ~IsFinal(reports'[k].status)
            BY <1>3, <5>1 DEF OInv, IEnd
          <5> QED BY <1>3, <5>1, <5>2 DEF OInv, IEnd
        <4>4. NoZombie' BY <1>1, <3>1 DEF OInv, IEnd, NoZombie
        <4> QED BY <1>1, <3>1, <4>2, <4>3, <4>4 DEF OInv, IEnd
      <3> QED BY <3>1, <3>2 DEF OInv, StateOK, IPlaced
    <2> QED BY <2>1, <2>2
  <1>5. StateOK' BY <1>1, <1>3, <1>4 DEF OInv, StateOK, Stream
  <1>6. IPlaced' BY <1>1, <1>3, <1>4 DEF OInv, IPlaced, Stream
  <1>7. IFresh' /\ ITrack' /\ IFilled' BY <1>1, FreshSame, TrackSame, FilledSame DEF OInv
  <1> QED BY <1>4, <1>5, <1>6, <1>7 DEF OInv

LEMMA RestartStep ==
    ASSUME OInv, Restart
    PROVE  OInv'
  <1>1. /\ starts' = starts + 1 /\ active' = Loaded /\ reports' = <<>>
        /\ UNCHANGED <<kind, placed, buys, rows, asked, inbox, adding, orderData, calls,
                       cancels, queries, sockets, opened, deleting, reconnected, ex,
                       filled, stream, told, disputed, doubled, lost, finished>>
    BY DEF Restart, gvars, wvars, xvars, hvars
  <1>2. /\ Loaded \in [Order -> Keep \cup {None}]
        /\ \A o \in Order : rows[o] = None => Loaded[o] = None
    BY DEF OInv, StateOK, Loaded
  <1>3. starts \in Nat /\ starts >= 1 /\ starts' \in Nat
    BY <1>1 DEF OInv, StateOK, IEnd
  <1>4. Len(reports') = 0 /\ reports' \in Seq(Frame) BY <1>1
  <1>5. StateOK' BY <1>1, <1>2, <1>3, <1>4 DEF OInv, StateOK, Stream
  <1>6. IPlaced' BY <1>1, <1>2, <1>4 DEF OInv, IPlaced, Stream
  <1>7. IFresh' /\ ITrack' /\ IFilled' BY <1>1, FreshSame, TrackSame, FilledSame DEF OInv
  <1>8. NoZombie'
    <2> SUFFICES ASSUME NEW o \in Order, finished[o] # None, o \notin disputed,
                        finished[o] = "Error" => starts' = 1
                 PROVE  active'[o] = None
      BY <1>1 DEF NoZombie
    <2>1. finished[o] # "Error" BY <1>1, <1>3
    <2>2. rows[o] = None BY <2>1 DEF OInv, IEnd
    <2> QED BY <1>1, <1>2, <2>2
  <1>9. IEnd' BY <1>1, <1>3, <1>4, <1>8 DEF OInv, IEnd
  <1> QED BY <1>5, <1>6, <1>7, <1>9 DEF OInv

-----------------------------------------------------------------------------
(* The gateway's event loop *)
LEMMA NextRequestElements ==
    ASSUME OInv, inbox # <<>>, inbox' = Tail(inbox)
    PROVE  /\ inbox' \in Seq(Request) /\ Head(inbox) \in Request /\ Head(inbox) = inbox[1]
           /\ Head(inbox).order \in placed /\ 1 \in 1 .. Len(inbox)
           /\ Len(inbox) \in Nat /\ Len(inbox') = Len(inbox) - 1
           /\ \A k \in 1 .. Len(inbox') : /\ k + 1 \in 1 .. Len(inbox) /\ k + 1 # 1
                                         /\ inbox'[k] = inbox[k + 1]
  <1>1. inbox \in Seq(Request) BY DEF OInv, StateOK, Request
  <1> QED BY <1>1, TailElements DEF OInv, IPlaced

LEMMA EmplaceStep ==
    ASSUME OInv, Emplace
    PROVE  OInv'
  <1>1. UNCHANGED <<kind, placed, buys, active, rows, asked, starts, orderData, calls,
                    cancels, queries, sockets, opened, deleting, reconnected, reports, ex,
                    filled, stream, told, disputed, doubled, lost, finished>>
    BY DEF Emplace, svars, wvars, xvars, hvars
  <1>2. ITrack' /\ IFilled' /\ IEnd' BY <1>1, TrackSame, FilledSame, EndSame DEF OInv
  <1>3. CASE /\ NextRequest("insert") /\ adding' = Head(inbox).order /\ inbox' = Tail(inbox)
    <2>1. inbox # <<>> /\ Head(inbox).type = "insert" BY <1>3 DEF NextRequest
    <2>2. /\ inbox' \in Seq(Request) /\ Head(inbox) \in Request /\ Head(inbox) = inbox[1]
          /\ Head(inbox).order \in placed /\ 1 \in 1 .. Len(inbox)
          /\ Len(inbox) \in Nat /\ Len(inbox') = Len(inbox) - 1
          /\ \A k \in 1 .. Len(inbox') : /\ k + 1 \in 1 .. Len(inbox) /\ k + 1 # 1
                                        /\ inbox'[k] = inbox[k + 1]
      BY <1>3, <2>1, NextRequestElements
    <2>3. StateOK' BY <1>1, <1>3, <2>2 DEF OInv, StateOK, Stream, Request
    <2>4. IPlaced' BY <1>1, <1>3, <2>2 DEF OInv, IPlaced, Stream
    <2>5. IFresh'
      <3>1. ex[Head(inbox).order] = None /\ calls[Head(inbox).order] = "none"
        BY <2>1, <2>2 DEF OInv, IFresh
      <3>2. \A k \in 1 .. Len(inbox') : inbox'[k].type = "insert" =>
               /\ inbox'[k].order # Head(inbox).order
               /\ ex[inbox'[k].order] = None /\ calls[inbox'[k].order] = "none"
               /\ \A l \in 1 .. Len(inbox') :
                    inbox'[l].type = "insert" /\ inbox'[l].order = inbox'[k].order => l = k
        BY <2>1, <2>2 DEF OInv, IFresh
      <3> QED BY <1>1, <1>3, <3>1, <3>2 DEF OInv, IFresh
    <2> QED BY <1>2, <2>3, <2>4, <2>5 DEF OInv
  <1>4. CASE adding' = Other /\ UNCHANGED inbox
    <2>1. StateOK' BY <1>1, <1>4 DEF OInv, StateOK, Stream
    <2>2. IPlaced' BY <1>1, <1>4 DEF OInv, IPlaced, Stream
    <2>3. \A k \in 1 .. Len(inbox) : inbox[k].order # Other
      BY OrdersAssumption DEF OInv, IPlaced, StateOK
    <2>4. IFresh' BY <1>1, <1>4, <2>3, OrdersAssumption DEF OInv, IFresh
    <2> QED BY <1>2, <2>1, <2>2, <2>4 DEF OInv
  <1> QED BY <1>3, <1>4 DEF Emplace

LEMMA SendOrderStep ==
    ASSUME OInv, SendOrder
    PROVE  OInv'
  <1>1. /\ adding # None /\ orderData' = orderData \cup ({adding} \ {Other})
        /\ calls' = [o \in Order |-> IF o = adding THEN "sent" ELSE calls[o]]
        /\ adding' = None
        /\ UNCHANGED <<kind, placed, buys, active, rows, asked, starts, inbox,
                    cancels, queries, sockets, opened, deleting, reconnected, reports, ex,
                    filled, stream, told, disputed, doubled, lost, finished>>
    BY DEF SendOrder, svars, wvars, xvars, hvars
  <1>2. /\ adding \in placed \cup {Other} /\ placed \subseteq Order /\ Other \notin Order
        /\ None \notin Order
    BY <1>1, OrdersAssumption DEF OInv, IPlaced, StateOK
  <1>3. StateOK'
    <2>1. calls' \in [Order -> {"none", "sent", "ok", "ec"}] BY <1>1 DEF OInv, StateOK
    <2> QED BY <1>1, <1>2, <2>1 DEF OInv, StateOK, Stream
  <1>4. IPlaced' BY <1>1, <1>2 DEF OInv, IPlaced, Stream
  <1>5. IFresh'
    <2>1. \A k \in 1 .. Len(inbox) : inbox[k].order \in Order BY <1>2 DEF OInv, IPlaced
    <2>2. \A o \in Order : calls'[o] = "sent" => ex[o] = None /\ o \in orderData'
      BY <1>1, <1>2 DEF OInv, IFresh
    <2> QED BY <1>1, <1>2, <2>1, <2>2 DEF OInv, IFresh
  <1>6. ITrack' BY <1>1 DEF OInv, ITrack, Tracked, Live, Stream
  <1>7. IFilled' /\ IEnd' BY <1>1, FilledSame, EndSame DEF OInv
  <1> QED BY <1>3, <1>4, <1>5, <1>6, <1>7 DEF OInv

(* A request that is not an insertion is taken out of the inbox. *)
LEMMA DequeueStep ==
    ASSUME OInv, inbox # <<>>, Head(inbox).type # "insert", inbox' = Tail(inbox),
           UNCHANGED <<placed, active, rows, finished, ex, calls, adding, orderData, stream,
                       reports>>
    PROVE  /\ inbox' \in Seq(Request) /\ Head(inbox).order \in Order
           /\ IPlaced' /\ IFresh'
  <1>1. /\ inbox' \in Seq(Request) /\ Head(inbox) \in Request
        /\ Len(inbox) \in Nat /\ Len(inbox') = Len(inbox) - 1
        /\ \A k \in 1 .. Len(inbox') : /\ k + 1 \in 1 .. Len(inbox)
                                      /\ inbox'[k] = inbox[k + 1]
    BY NextRequestElements
  <1>2. IPlaced' BY <1>1 DEF OInv, IPlaced, Stream
  <1>3. \A k \in 1 .. Len(inbox') : inbox'[k].type = "insert" =>
           /\ adding # inbox'[k].order
           /\ ex[inbox'[k].order] = None /\ calls[inbox'[k].order] = "none"
           /\ \A l \in 1 .. Len(inbox') :
                inbox'[l].type = "insert" /\ inbox'[l].order = inbox'[k].order => l = k
    BY <1>1 DEF OInv, IFresh
  <1>4. IFresh' BY <1>3 DEF OInv, IFresh
  <1> QED BY <1>1, <1>2, <1>4 DEF Request

LEMMA SendCancelStep ==
    ASSUME OInv, SendCancel
    PROVE  OInv'
  <1>1. /\ inbox # <<>> /\ Head(inbox).type # "insert" /\ inbox' = Tail(inbox)
        /\ cancels' = cancels \cup {Head(inbox).order}
        /\ UNCHANGED <<kind, placed, buys, active, rows, asked, starts, adding, orderData,
                    calls, queries, sockets, opened, deleting, reconnected, reports, ex,
                    filled, stream, told, disputed, doubled, lost, finished>>
    BY DEF SendCancel, NextRequest, svars, wvars, xvars, hvars
  <1>2. inbox' \in Seq(Request) /\ Head(inbox).order \in Order /\ IPlaced' /\ IFresh'
    BY <1>1, DequeueStep
  <1>3. StateOK' BY <1>1, <1>2 DEF OInv, StateOK, Stream, Request
  <1>4. ITrack' /\ IFilled' /\ IEnd' BY <1>1, TrackSame, FilledSame, EndSame DEF OInv
  <1> QED BY <1>2, <1>3, <1>4 DEF OInv

LEMMA SendQueryStep ==
    ASSUME OInv, SendQuery
    PROVE  OInv'
  <1>1. /\ inbox # <<>> /\ Head(inbox).type # "insert" /\ inbox' = Tail(inbox)
        /\ queries' = queries \cup {Head(inbox).order}
        /\ UNCHANGED <<kind, placed, buys, active, rows, asked, starts, adding, orderData,
                    calls, cancels, sockets, opened, deleting, reconnected, reports, ex,
                    filled, stream, told, disputed, doubled, lost, finished>>
    BY DEF SendQuery, NextRequest, svars, wvars, xvars, hvars
  <1>2. inbox' \in Seq(Request) /\ Head(inbox).order \in Order /\ IPlaced' /\ IFresh'
    BY <1>1, DequeueStep
  <1>3. StateOK' BY <1>1, <1>2 DEF OInv, StateOK, Stream, Request
  <1>4. ITrack' /\ IFilled' /\ IEnd' BY <1>1, TrackSame, FilledSame, EndSame DEF OInv
  <1> QED BY <1>2, <1>3, <1>4 DEF OInv

(* The streams come and go without touching what the invariant speaks of. *)
LEMMA SocketStep ==
    ASSUME OInv, CheckStatus \/ \E i \in Stream : SetReconnected(i)
    PROVE  OInv'
  <1>1. UNCHANGED <<kind, placed, buys, active, rows, asked, starts, inbox, adding, orderData,
                    calls, cancels, queries, reports, ex, filled, stream, told, disputed,
                    lost, finished>>
    BY DEF CheckStatus, SetReconnected, svars, gvars, xvars, hvars
  <1>2. /\ opened' \in 0 .. MaxStream /\ sockets' \subseteq Stream /\ deleting' \subseteq Stream
    <2>1. /\ opened \in 0 .. MaxStream /\ sockets \subseteq Stream /\ deleting \subseteq Stream
          /\ MaxStream \in Nat
      BY OrdersAssumption DEF OInv, StateOK
    <2>2. CASE opened < MaxStream /\ opened' = opened + 1 /\ sockets' = sockets \cup {opened + 1}
               /\ UNCHANGED deleting
      BY <2>1, <2>2 DEF Stream
    <2>3. CASE UNCHANGED <<opened, sockets>> /\ deleting' \subseteq deleting
      BY <2>1, <2>3
    <2>4. CASE CheckStatus BY <2>2, <2>3, <2>4 DEF CheckStatus
    <2>5. CASE \E i \in Stream : SetReconnected(i) BY <2>3, <2>5 DEF SetReconnected
    <2> QED BY <2>4, <2>5
  <1>3. reconnected' \in BOOLEAN BY DEF CheckStatus, SetReconnected
  <1>4. doubled' \in BOOLEAN
    BY DEF CheckStatus, SetReconnected, OInv, StateOK, hvars
  <1>5. StateOK' BY <1>1, <1>2, <1>3, <1>4 DEF OInv, StateOK, Stream
  <1> QED BY <1>1, <1>5, PlacedSame, FreshSame, TrackSame, FilledSame, EndSame DEF OInv

-----------------------------------------------------------------------------
(* The gateway's I/O thread *)

(* A frame that says something after the end of its order makes it disputed. *)
LEMMA WriteStep ==
    ASSUME OInv, NEW r \in Frame, r.mine, r.order \in placed, NEW wrong, Write(r, wrong),
           UNCHANGED <<placed, starts, finished, rows, active>>
    PROVE  /\ reports' \in Seq(Frame) /\ told' \in [Order -> Nat] /\ disputed' \subseteq Order
           /\ \A k \in 1 .. Len(reports') : reports'[k].mine => reports'[k].order \in placed
           /\ IEnd'
  <1> DEFINE o == r.order
  <1>0. PICK n \in Nat : n = Len(reports) BY DEF OInv, StateOK
  <1>1. reports \in Seq(Frame) /\ reports' = Append(reports, r) BY DEF OInv, StateOK, Write
  <1>2. /\ reports' \in Seq(Frame) /\ n \in Nat /\ Len(reports') = n + 1
        /\ reports'[n + 1] = r
        /\ \A k \in 1 .. n : reports'[k] = reports[k] /\ reports[k] \in Frame
        /\ \A k \in 1 .. Len(reports') : k \in 1 .. n \/ k = n + 1
    BY <1>0, <1>1, AppendElements
  <1>3. /\ o \in Order /\ r.traded \in Nat /\ Volume[o] \in Nat /\ Progress(r) \in Nat
        /\ IsFinal(r.status) => Progress(r) > Volume[o]
    BY OrdersAssumption DEF Frame, Progress
  <1>4. told \in [Order -> Nat] /\ disputed \subseteq Order BY DEF OInv, StateOK
  <1>5. /\ told' \in [Order -> Nat]
        /\ \A p \in Order : told'[p] >= told[p]
        /\ told'[o] >= Progress(r)
    BY <1>3, <1>4 DEF Write
  <1>6. /\ disputed \subseteq disputed' /\ disputed' \subseteq Order
        /\ told[o] > Volume[o] => o \in disputed'
    BY <1>3, <1>4 DEF Write
  <1>7. \A k \in 1 .. Len(reports') : reports'[k].mine => reports'[k].order \in placed
    BY <1>0, <1>2 DEF OInv, IPlaced
  <1>8. \A p \in Order : Volume[p] \in Nat /\ told[p] \in Nat /\ told'[p] \in Nat
    BY <1>4, <1>5, OrdersAssumption
  <1>9. \A p \in Order : finished'[p] # None => told'[p] > Volume[p]
    BY <1>5, <1>8 DEF OInv, IEnd
  <1>10. \A k \in 1 .. Len(reports') : reports'[k].mine /\ IsFinal(reports'[k].status) =>
            told'[reports'[k].order] > Volume[reports'[k].order]
    <2> SUFFICES ASSUME NEW k \in 1 .. Len(reports'), reports'[k].mine,
                        IsFinal(reports'[k].status)
                 PROVE  told'[reports'[k].order] > Volume[reports'[k].order]
      OBVIOUS
    <2>1. CASE k = n + 1 BY <1>2, <1>3, <1>5, <1>8, <2>1
    <2>2. CASE k \in 1 .. n
      <3>1. reports'[k] = reports[k] /\ reports[k].order \in Order BY <1>2, <2>2 DEF Frame
      <3>2. told[reports[k].order] > Volume[reports[k].order]
        BY <1>0, <2>2, <3>1 DEF OInv, IEnd
      <3> QED BY <1>5, <1>8, <3>1, <3>2
    <2> QED BY <1>2, <2>1, <2>2
  <1>11. ASSUME NEW p \in Order \ disputed'
         PROVE  /\ finished[p] # None => \A k \in 1 .. Len(reports') : ~Mine(k, p)'
                /\ finished[p] \notin {None, "Error"} => rows[p] = None
                /\ \A k, l \in 1 .. Len(reports') :
                     k < l /\ Mine(k, p)' /\ Mine(l, p)' => ~IsFinal(reports'[k].status)
    <2>1. p \notin disputed /\ p \in Order BY <1>6
    <2>2. \A k \in 1 .. n : Mine(k, p)' <=> Mine(k, p) BY <1>2 DEF Mine
    <2>3. Mine(n + 1, p)' <=> p = o BY <1>2 DEF Mine
    <2>4. p = o => ~(told[p] > Volume[p]) BY <1>6
    <2>5. finished[p] # None => \A k \in 1 .. Len(reports') : ~Mine(k, p)'
      BY <1>0, <1>2, <2>1, <2>2, <2>3, <2>4 DEF OInv, IEnd
    <2>6. ASSUME NEW k \in 1 .. Len(reports'), NEW l \in 1 .. Len(reports'),
                 k < l, Mine(k, p)', Mine(l, p)'
          PROVE  ~IsFinal(reports'[k].status)
      <3>1. k \in 1 .. n /\ reports'[k] = reports[k] /\ Mine(k, p) BY <1>2, <2>2, <2>6
      <3>2. CASE l \in 1 .. n BY <1>0, <2>1, <2>2, <2>6, <3>1, <3>2 DEF OInv, IEnd
      <3>3. CASE l = n + 1
        <4>1. ~(told[p] > Volume[p]) BY <2>3, <2>4, <2>6, <3>3
        <4> QED BY <1>0, <3>1, <4>1 DEF OInv, IEnd, Mine
      <3> QED BY <1>2, <3>2, <3>3
    <2> QED BY <2>1, <2>5, <2>6 DEF OInv, IEnd
  <1>12. NoZombie' BY <1>6 DEF OInv, IEnd, NoZombie
  <1>13. IEnd' BY <1>9, <1>10, <1>11, <1>12 DEF OInv, IEnd
  <1> QED BY <1>2, <1>5, <1>6, <1>7, <1>13

LEMMA OnNewOrderStep ==
    ASSUME OInv, NEW o \in Order, OnNewOrder(o)
    PROVE  OInv'
  <1>1. /\ calls[o] \in {"ok", "ec"} /\ calls' = [calls EXCEPT ![o] = "none"]
        /\ UNCHANGED <<kind, placed, buys, active, rows, asked, starts, inbox, adding,
                    orderData, cancels, queries, sockets, opened, deleting, reconnected, ex,
                    filled, stream, doubled, lost, finished>>
    BY DEF OnNewOrder, svars, wvars, xvars
  <1>2. o \in placed BY <1>1 DEF OInv, IPlaced
  <1>3. /\ calls' \in [Order -> {"none", "sent", "ok", "ec"}] /\ calls'[o] = "none"
        /\ \A p \in Order : p # o => calls'[p] = calls[p]
    BY <1>1 DEF OInv, StateOK
  <1>4. \A s \in Status : Report(o, TRUE, s, 0, Volume[o], 0) \in Frame
    BY OrdersAssumption DEF Report, Frame
  <1>5. /\ reports' \in Seq(Frame) /\ told' \in [Order -> Nat] /\ disputed' \subseteq Order
        /\ \A k \in 1 .. Len(reports') : reports'[k].mine => reports'[k].order \in placed
        /\ IEnd'
    <2>1. ASSUME NEW s \in {"Error", "Submitted"}, NEW wrong,
                 Write(Report(o, TRUE, s, 0, Volume[o], 0), wrong)
          PROVE  <1>5!1 /\ <1>5!2 /\ <1>5!3
      <3> DEFINE r == Report(o, TRUE, s, 0, Volume[o], 0)
      <3>1. r \in Frame /\ r.mine /\ r.order = o BY <1>4 DEF Report, Status
      <3>2. Write(r, wrong) BY <2>1
      <3> HIDE DEF r
      <3> QED BY <1>1, <1>2, <3>1, <3>2, WriteStep
    <2>2. CASE UNCHANGED <<reports, told, disputed>>
      BY <1>1, <2>2, EndSame DEF OInv, StateOK, IPlaced
    <2> QED BY <2>1, <2>2 DEF OnNewOrder
  <1>6. StateOK' BY <1>1, <1>3, <1>5 DEF OInv, StateOK, Stream
  <1>7. IPlaced' BY <1>1, <1>3, <1>5 DEF OInv, IPlaced, Stream
  <1>8. IFresh'
    <2>1. \A p \in Order : calls[p] = "none" => calls'[p] = "none" BY <1>3
    <2>2. \A k \in 1 .. Len(inbox) : inbox[k].order \in Order
      BY DEF OInv, IPlaced, StateOK
    <2>3. \A p \in Order : calls'[p] = "sent" => calls[p] = "sent" BY <1>3
    <2> QED BY <1>1, <2>1, <2>2, <2>3 DEF OInv, IFresh
  <1>9. ITrack' /\ IFilled' BY <1>1, TrackSame, FilledSame DEF OInv
  <1> QED BY <1>5, <1>6, <1>7, <1>8, <1>9 DEF OInv

LEMMA OnOrderInfoStep ==
    ASSUME OInv, NEW o \in Order, OnOrderInfo(o)
    PROVE  OInv'
  <1> DEFINE r == Report(o, FALSE, FromBinance[ex[o]], 0, 0, 0)
  <1>1. /\ queries' = queries \ {o}
        /\ UNCHANGED <<kind, placed, buys, active, rows, asked, starts, inbox, adding,
                    orderData, calls, cancels, sockets, opened, deleting, reconnected, ex,
                    filled, stream, told, disputed, doubled, lost, finished>>
    BY DEF OnOrderInfo, svars, wvars, xvars, hvars
  <1>2. IFresh' /\ ITrack' /\ IFilled' BY <1>1, FreshSame, TrackSame, FilledSame DEF OInv
  <1>3. CASE UNCHANGED reports
    <2>1. StateOK' BY <1>1, <1>3 DEF OInv, StateOK, Stream
    <2>2. IPlaced' /\ IEnd' BY <1>1, <1>3, PlacedSame, EndSame DEF OInv
    <2> QED BY <1>2, <2>1, <2>2 DEF OInv
  <1>4. CASE ex[o] \in ExStatus /\ reports' = Append(reports, r)
    <2>1. r \in Frame /\ ~r.mine
      BY <1>4, OrdersAssumption DEF Report, Frame, FromBinance, ExStatus, Status
    <2>2. PICK n \in Nat : n = Len(reports) BY DEF OInv, StateOK
    <2>3. reports \in Seq(Frame) BY DEF OInv, StateOK
    <2> HIDE DEF r
    <2>4. /\ reports' \in Seq(Frame) /\ Len(reports') = n + 1
          /\ reports'[n + 1] = r
          /\ \A k \in 1 .. n : reports'[k] = reports[k]
          /\ \A k \in 1 .. Len(reports') : k \in 1 .. n \/ k = n + 1
      BY <1>4, <2>1, <2>2, <2>3, AppendElements
    <2>5. \A k \in 1 .. Len(reports') : reports'[k].mine => k \in 1 .. n
      BY <2>1, <2>4
    <2>6. StateOK' BY <1>1, <2>4 DEF OInv, StateOK, Stream
    <2>7. IPlaced' BY <1>1, <2>2, <2>4, <2>5 DEF OInv, IPlaced, Stream
    <2>8. IEnd'
      <3>1. \A k \in 1 .. Len(reports'), p \in Order :
               Mine(k, p)' => k \in 1 .. n /\ Mine(k, p) /\ reports'[k] = reports[k]
        BY <2>4, <2>5 DEF Mine
      <3>2. \A k \in 1 .. Len(reports') : reports'[k].mine /\ IsFinal(reports'[k].status) =>
               told[reports'[k].order] > Volume[reports'[k].order]
        BY <2>2, <2>4, <2>5 DEF OInv, IEnd
      <3>3. ASSUME NEW p \in Order \ disputed
            PROVE  /\ finished[p] # None => \A k \in 1 .. Len(reports') : ~Mine(k, p)'
                   /\ \A k, l \in 1 .. Len(reports') :
                        k < l /\ Mine(k, p)' /\ Mine(l, p)' => ~IsFinal(reports'[k].status)
        <4>1. \A k \in 1 .. Len(reports') :
                 Mine(k, p)' => k \in 1 .. n /\ Mine(k, p) /\ reports'[k] = reports[k]
          BY <3>1
        <4>2. \A k, l \in 1 .. Len(reports') :
                 k < l /\ Mine(k, p)' /\ Mine(l, p)' => ~IsFinal(reports'[k].status)
          BY <2>2, <4>1 DEF OInv, IEnd
        <4> QED BY <2>2, <4>1, <4>2 DEF OInv, IEnd
      <3>4. NoZombie' BY <1>1 DEF OInv, IEnd, NoZombie
      <3> QED BY <1>1, <3>2, <3>3, <3>4 DEF OInv, IEnd
    <2> QED BY <1>2, <2>6, <2>7, <2>8 DEF OInv
  <1> QED BY <1>3, <1>4 DEF OnOrderInfo

(* A message is taken out of a stream. *)
LEMMA StreamTail ==
    ASSUME OInv, NEW i \in Stream, stream[i] # <<>>, stream' = [stream EXCEPT ![i] = Tail(@)]
    PROVE  /\ stream' \in [Stream -> Seq(Update)]
           /\ Head(stream[i]) \in Update /\ Head(stream[i]) = stream[i][1]
           /\ 1 \in 1 .. Len(stream[i])
           /\ \A j \in Stream : \A k \in 1 .. Len(stream'[j]) :
                 \E l \in 1 .. Len(stream[j]) : stream'[j][k] = stream[j][l]
  <1>1. stream \in [Stream -> Seq(Update)] BY DEF OInv, StateOK, Update
  <1>2. /\ stream'[i] = Tail(stream[i]) /\ stream[i] \in Seq(Update)
        /\ \A j \in Stream : j # i => stream'[j] = stream[j]
    BY <1>1
  <1>3. /\ Tail(stream[i]) \in Seq(Update) /\ Head(stream[i]) \in Update
        /\ Head(stream[i]) = stream[i][1] /\ 1 \in 1 .. Len(stream[i])
        /\ \A k \in 1 .. Len(Tail(stream[i])) : /\ k + 1 \in 1 .. Len(stream[i])
                                                /\ Tail(stream[i])[k] = stream[i][k + 1]
    BY <1>2, TailElements
  <1>4. stream' \in [Stream -> Seq(Update)] BY <1>1, <1>3
  <1>5. \A j \in Stream : \A k \in 1 .. Len(stream'[j]) :
           \E l \in 1 .. Len(stream[j]) : stream'[j][k] = stream[j][l]
    BY <1>2, <1>3
  <1> QED BY <1>3, <1>4, <1>5

(* Parts of the invariant that speak of messages hold of fewer messages. *)
LEMMA FewerMessages ==
    ASSUME OInv, \A j \in Stream : \A k \in 1 .. Len(stream'[j]) :
                    \E l \in 1 .. Len(stream[j]) : stream'[j][k] = stream[j][l],
           UNCHANGED <<placed, ex, filled>>
    PROVE  /\ \A j \in Stream : \A k \in 1 .. Len(stream'[j]) : stream'[j][k].order \in placed
           /\ \A j \in Stream : \A k \in 1 .. Len(stream'[j]) :
                 Last(stream'[j][k]) => /\ ex[stream'[j][k].order] \notin {"new", "partially_filled"}
                                        /\ ex[stream'[j][k].order] # None
           /\ IFilled'
  <1>1. \A j \in Stream : \A k \in 1 .. Len(stream'[j]) : stream'[j][k].order \in placed
    BY DEF OInv, IPlaced
  <1>2. \A j \in Stream : \A k \in 1 .. Len(stream'[j]) :
           Last(stream'[j][k]) => /\ ex[stream'[j][k].order] \notin {"new", "partially_filled"}
                                  /\ ex[stream'[j][k].order] # None
    BY DEF OInv, ITrack, Live
  <1>3. IFilled' BY DEF OInv, IFilled, Stream
  <1> QED BY <1>1, <1>2, <1>3

LEMMA OnUpdateStep ==
    ASSUME OInv, NEW i \in Stream, OnUpdate(i)
    PROVE  OInv'
  <1> DEFINE m == Head(stream[i])
             o == m.order
             s == FromBinance[m.status]
             r == Report(o, TRUE, s, m.traded, Volume[o] - m.traded, AvgPrice(m.traded))
  <1>1. /\ stream[i] # <<>> /\ stream' = [stream EXCEPT ![i] = Tail(@)]
        /\ o \in orderData /\ Write(r, FALSE)
        /\ orderData' = IF s \notin {"PartialFilledActive", "Submitted"}
                        THEN orderData \ {o} ELSE orderData
        /\ UNCHANGED <<kind, placed, buys, active, rows, asked, starts, inbox, adding,
                    calls, cancels, queries, sockets, opened, deleting, reconnected, ex,
                    filled, doubled, lost, finished>>
    BY DEF OnUpdate, UpdateKeeping, svars, wvars
  <1>2. /\ stream' \in [Stream -> Seq(Update)]
        /\ m \in Update /\ m = stream[i][1] /\ 1 \in 1 .. Len(stream[i])
        /\ \A j \in Stream : \A k \in 1 .. Len(stream'[j]) :
              \E l \in 1 .. Len(stream[j]) : stream'[j][k] = stream[j][l]
    BY <1>1, StreamTail
  <1>3. /\ o \in Order /\ o \in placed /\ m.traded \in Nat /\ m.traded <= Volume[o]
        /\ m.status \in ExStatus
    BY <1>2 DEF Update, OInv, IPlaced, IFilled
  <1>4. s \in Status BY <1>3 DEF ExStatus, FromBinance, Status
  <1>5. r \in Frame /\ r.mine /\ r.order = o
    <2>1. Volume[o] - m.traded \in Nat BY <1>3, OrdersAssumption
    <2>2. AvgPrice(m.traded) \in {0, Price, NaN} BY DEF AvgPrice
    <2> HIDE DEF m, s
    <2> QED BY <1>3, <1>4, <2>1, <2>2 DEF Report, Frame
  <1>6. /\ reports' \in Seq(Frame) /\ told' \in [Order -> Nat] /\ disputed' \subseteq Order
        /\ \A k \in 1 .. Len(reports') : reports'[k].mine => reports'[k].order \in placed
        /\ IEnd'
    <2> HIDE DEF r
    <2> QED BY <1>1, <1>3, <1>5, WriteStep
  <1>7. orderData' \subseteq orderData BY <1>1
  <1>8. /\ \A j \in Stream : \A k \in 1 .. Len(stream'[j]) : stream'[j][k].order \in placed
        /\ \A j \in Stream : \A k \in 1 .. Len(stream'[j]) :
              Last(stream'[j][k]) => /\ ex[stream'[j][k].order] \notin {"new", "partially_filled"}
                                     /\ ex[stream'[j][k].order] # None
        /\ IFilled'
    BY <1>1, <1>2, FewerMessages
  <1>9. StateOK' BY <1>1, <1>2, <1>6, <1>7 DEF OInv, StateOK, Stream, Update
  <1>10. IPlaced' BY <1>1, <1>6, <1>7, <1>8 DEF OInv, IPlaced, Stream
  <1>11. s \notin {"PartialFilledActive", "Submitted"} => ~Live(o) /\ ex[o] # None
    <2>1. s \notin {"PartialFilledActive", "Submitted"} => Last(m)
      BY <1>3 DEF Last, IsFinal, ExStatus, FromBinance
    <2> QED BY <1>2, <2>1 DEF OInv, ITrack
  <1>12. \A p \in Order : p \in orderData /\ p \notin orderData' => ~Live(p) /\ ex[p] # None
    BY <1>1, <1>11
  <1>13. IFresh' BY <1>1, <1>12 DEF OInv, IFresh
  <1>14. ITrack' BY <1>1, <1>8, <1>12 DEF OInv, ITrack, Tracked, Live, Stream
  <1> QED BY <1>6, <1>8, <1>9, <1>10, <1>13, <1>14 DEF OInv

LEMMA OnUpdateMissedStep ==
    ASSUME OInv, NEW i \in Stream, OnUpdateMissed(i)
    PROVE  OInv'
  <1>1. /\ stream[i] # <<>> /\ stream' = [stream EXCEPT ![i] = Tail(@)]
        /\ lost' \in {lost, lost \cup {Head(stream[i]).order}}
        /\ UNCHANGED <<kind, placed, buys, active, rows, asked, starts, inbox, adding,
                    orderData, calls, cancels, queries, sockets, opened, deleting,
                    reconnected, reports, ex, filled, told, disputed, doubled, finished>>
    BY DEF OnUpdateMissed, svars, gvars, wvars
  <1>2. /\ stream' \in [Stream -> Seq(Update)]
        /\ Head(stream[i]) \in Update
        /\ \A j \in Stream : \A k \in 1 .. Len(stream'[j]) :
              \E l \in 1 .. Len(stream[j]) : stream'[j][k] = stream[j][l]
    BY <1>1, StreamTail
  <1>3. /\ \A j \in Stream : \A k \in 1 .. Len(stream'[j]) : stream'[j][k].order \in placed
        /\ \A j \in Stream : \A k \in 1 .. Len(stream'[j]) :
              Last(stream'[j][k]) => /\ ex[stream'[j][k].order] \notin {"new", "partially_filled"}
                                     /\ ex[stream'[j][k].order] # None
        /\ IFilled'
    BY <1>1, <1>2, FewerMessages
  <1>4. StateOK'
    <2>1. lost' \subseteq Order BY <1>1, <1>2 DEF OInv, StateOK, Update
    <2> QED BY <1>1, <1>2, <2>1 DEF OInv, StateOK, Stream, Update
  <1>5. IPlaced' BY <1>1, <1>3 DEF OInv, IPlaced, Stream
  <1>6. ITrack' BY <1>1, <1>3 DEF OInv, ITrack, Tracked, Live, Stream
  <1> QED BY <1>1, <1>3, <1>4, <1>5, <1>6, FreshSame, EndSame DEF OInv

LEMMA CloseStreamStep ==
    ASSUME OInv, NEW i \in Stream, CloseStream(i)
    PROVE  OInv'
  <1>1. /\ sockets' = sockets \ {i} /\ deleting' = deleting \cup {i}
        /\ stream' = [stream EXCEPT ![i] = <<>>]
        /\ lost' = lost \cup {stream[i][k].order :
                                k \in {j \in 1 .. Len(stream[i]) : Last(stream[i][j])}}
        /\ UNCHANGED <<kind, placed, buys, active, rows, asked, starts, inbox, adding,
                    orderData, calls, cancels, queries, opened, reconnected, reports, ex,
                    filled, told, disputed, doubled, finished>>
    BY DEF CloseStream, svars, gvars
  <1>2. stream \in [Stream -> Seq(Update)] BY DEF OInv, StateOK, Update
  <1>3. /\ stream' \in [Stream -> Seq(Update)] /\ Len(stream'[i]) = 0
        /\ \A j \in Stream : j # i => stream'[j] = stream[j]
    BY <1>1, <1>2
  <1>4. \A j \in Stream : \A k \in 1 .. Len(stream'[j]) :
           \E l \in 1 .. Len(stream[j]) : stream'[j][k] = stream[j][l]
    BY <1>3
  <1>5. /\ \A j \in Stream : \A k \in 1 .. Len(stream'[j]) : stream'[j][k].order \in placed
        /\ \A j \in Stream : \A k \in 1 .. Len(stream'[j]) :
              Last(stream'[j][k]) => /\ ex[stream'[j][k].order] \notin {"new", "partially_filled"}
                                     /\ ex[stream'[j][k].order] # None
        /\ IFilled'
    BY <1>1, <1>4, FewerMessages
  <1>6. StateOK'
    <2>1. \A k \in 1 .. Len(stream[i]) : stream[i][k].order \in Order
      BY DEF OInv, IPlaced, StateOK
    <2>2. lost' \subseteq Order
      <3> SUFFICES ASSUME NEW p \in lost', p \notin lost PROVE p \in Order
        BY DEF OInv, StateOK
      <3>1. PICK k \in {j \in 1 .. Len(stream[i]) : Last(stream[i][j])} :
               p = stream[i][k].order
        BY <1>1
      <3> QED BY <2>1, <3>1
    <2>3. sockets' \subseteq Stream /\ deleting' \subseteq Stream BY <1>1 DEF OInv, StateOK
    <2> QED BY <1>1, <1>3, <2>2, <2>3 DEF OInv, StateOK, Stream, Update
  <1>7. IPlaced' BY <1>1, <1>5 DEF OInv, IPlaced, Stream
  <1>8. ITrack' BY <1>1, <1>5 DEF OInv, ITrack, Tracked, Live, Stream
  <1> QED BY <1>1, <1>5, <1>6, <1>7, <1>8, FreshSame, EndSame DEF OInv

-----------------------------------------------------------------------------
(* The exchange *)

(* An order that the gateway knows changes at the exchange. *)
LEMMA ChangeStep ==
    ASSUME OInv, NEW o \in placed, NEW s \in ExStatus, NEW n \in Nat, n <= Volume[o],
           Change(o, s, n), o \in orderData, adding # o,
           \A k \in 1 .. Len(inbox) : inbox[k].type = "insert" => inbox[k].order # o,
           ex[o] = None \/ Live(o),
           calls' \in [Order -> {"none", "sent", "ok", "ec"}], calls'[o] # "sent",
           \A p \in Order : p # o => calls'[p] = calls[p],
           cancels' \subseteq Order
    PROVE  OInv'
  <1> DEFINE m == Message(o, s, n)
  <1>1. /\ ex' = [ex EXCEPT ![o] = s] /\ filled' = [filled EXCEPT ![o] = n]
        /\ stream' = [i \in DOMAIN stream |->
                         IF i \in sockets THEN Append(stream[i], m) ELSE stream[i]]
        /\ lost' \in {lost, lost \cup {o}}
        /\ UNCHANGED <<kind, placed, buys, active, rows, asked, starts, inbox, adding,
                    orderData, queries, sockets, opened, deleting,
                    reconnected, reports, told, disputed, doubled, finished>>
    BY DEF Change, svars, wvars
  <1>2. o \in Order /\ placed \subseteq Order BY DEF OInv, StateOK
  <1>3. stream \in [Stream -> Seq(Update)] BY DEF OInv, StateOK, Update
  <1>4. m \in Update /\ m.order = o /\ m.traded = n /\ m.status = s
    BY <1>2 DEF Message, Update
  <1>5. /\ ex' \in [Order -> ExStatus \cup {None}] /\ ex'[o] = s
        /\ \A p \in Order : p # o => ex'[p] = ex[p]
        /\ filled' \in [Order -> Nat] /\ filled'[o] = n
        /\ \A p \in Order : p # o => filled'[p] = filled[p]
    BY <1>1, <1>2 DEF OInv, StateOK
  <1> HIDE DEF m
  <1>6. /\ stream' \in [Stream -> Seq(Update)]
        /\ \A i \in Stream : \A k \in 1 .. Len(stream'[i]) :
              \/ k \in 1 .. Len(stream[i]) /\ stream'[i][k] = stream[i][k]
              \/ stream'[i][k] = m
    <2>1. ASSUME NEW i \in Stream
          PROVE  /\ stream'[i] \in Seq(Update)
                 /\ \A k \in 1 .. Len(stream'[i]) :
                       \/ k \in 1 .. Len(stream[i]) /\ stream'[i][k] = stream[i][k]
                       \/ stream'[i][k] = m
      <3>1. CASE i \in sockets
        <4>1. stream'[i] = Append(stream[i], m) /\ stream[i] \in Seq(Update)
          BY <1>1, <1>3, <3>1
        <4> QED BY <1>4, <4>1, AppendElements
      <3>2. CASE i \notin sockets
        <4>1. stream'[i] = stream[i] /\ stream[i] \in Seq(Update) BY <1>1, <1>3, <3>2
        <4> QED BY <4>1
      <3> QED BY <3>1, <3>2
    <2>2. DOMAIN stream = Stream BY <1>3
    <2> QED BY <1>1, <2>1, <2>2
  <1>7. StateOK' BY <1>1, <1>2, <1>5, <1>6 DEF OInv, StateOK, Stream, Update
  <1>8. IPlaced'
    <2>1. \A i \in Stream : \A k \in 1 .. Len(stream'[i]) : stream'[i][k].order \in placed
      BY <1>4, <1>6 DEF OInv, IPlaced
    <2>2. \A p \in Order \ placed : /\ active[p] = None /\ rows[p] = None /\ finished[p] = None
                                    /\ ex'[p] = None /\ calls'[p] = "none"
      BY <1>5 DEF OInv, IPlaced
    <2> QED BY <1>1, <2>1, <2>2 DEF OInv, IPlaced, Stream
  <1>9. IFresh'
    <2>1. \A k \in 1 .. Len(inbox) : inbox[k].order \in Order BY <1>2 DEF OInv, IPlaced
    <2>2. \A k \in 1 .. Len(inbox) : inbox[k].type = "insert" =>
             ex'[inbox[k].order] = None /\ calls'[inbox[k].order] = "none"
      BY <1>5, <2>1 DEF OInv, IFresh
    <2>3. \A p \in Order : adding = p => ex'[p] = None /\ calls'[p] = "none"
      BY <1>5 DEF OInv, IFresh
    <2>4. \A p \in Order : calls'[p] = "sent" => ex'[p] = None /\ p \in orderData
      BY <1>5 DEF OInv, IFresh
    <2> QED BY <1>1, <2>2, <2>3, <2>4 DEF OInv, IFresh
  <1>10. ITrack'
    <2>1. Tracked' BY <1>1, <1>5 DEF OInv, ITrack, Tracked, Live
    <2>2. ASSUME NEW i \in Stream, NEW k \in 1 .. Len(stream'[i]), Last(stream'[i][k])
          PROVE  /\ ex'[stream'[i][k].order] \notin {"new", "partially_filled"}
                 /\ ex'[stream'[i][k].order] # None
      <3>1. CASE stream'[i][k] = m
        BY <1>4, <1>5, <2>2, <3>1, OrdersAssumption DEF Last, IsFinal, FromBinance, ExStatus
      <3>2. CASE k \in 1 .. Len(stream[i]) /\ stream'[i][k] = stream[i][k]
        <4>1. stream[i][k].order \in Order BY <1>2, <3>2 DEF OInv, IPlaced
        <4>2. ~Live(stream[i][k].order) /\ ex[stream[i][k].order] # None
          BY <2>2, <3>2 DEF OInv, ITrack
        <4> QED BY <1>5, <3>2, <4>1, <4>2 DEF Live
      <3> QED BY <1>6, <3>1, <3>2
    <2> QED BY <2>1, <2>2 DEF ITrack, Live, Stream
  <1>11. IFilled'
    <2>1. \A p \in Order : filled'[p] <= Volume[p] BY <1>5 DEF OInv, IFilled
    <2>2. \A i \in Stream : \A k \in 1 .. Len(stream'[i]) :
             stream'[i][k].traded <= Volume[stream'[i][k].order]
      BY <1>4, <1>6 DEF OInv, IFilled
    <2> QED BY <2>1, <2>2 DEF IFilled, Stream
  <1>12. IEnd' BY <1>1, EndSame DEF OInv
  <1> QED BY <1>7, <1>8, <1>9, <1>10, <1>11, <1>12 DEF OInv

(* An order that is live, or on its way, is not waiting to be sent. *)
LEMMA SentOnce ==
    ASSUME OInv, NEW o \in Order, calls[o] = "sent" \/ Live(o)
    PROVE  /\ o \in placed /\ o \in orderData /\ adding # o
           /\ \A k \in 1 .. Len(inbox) : inbox[k].type = "insert" => inbox[k].order # o
           /\ ex[o] = None \/ Live(o)
           /\ Live(o) => calls[o] # "sent"
  <1>1. Live(o) => ex[o] # None BY OrdersAssumption DEF Live, ExStatus
  <1>2. calls[o] = "sent" => ex[o] = None /\ o \in orderData BY DEF OInv, IFresh
  <1>3. o \in orderData BY <1>2 DEF OInv, ITrack, Tracked
  <1>4. o \in placed BY <1>3 DEF OInv, IPlaced
  <1>5. ex[o] = None \/ Live(o) BY <1>2
  <1>6. ~(ex[o] = None /\ calls[o] = "none") BY <1>1
  <1> QED BY <1>1, <1>2, <1>3, <1>4, <1>5, <1>6 DEF OInv, IFresh

LEMMA AcceptStep ==
    ASSUME OInv, NEW o \in Order, Accept(o)
    PROVE  OInv'
  <1>1. /\ calls[o] = "sent" /\ Change(o, "new", 0) /\ UNCHANGED cancels BY DEF Accept
  <1>2. PICK answer \in {"ok", "ec"} : calls' = [calls EXCEPT ![o] = answer] BY DEF Accept
  <1>3. /\ calls' \in [Order -> {"none", "sent", "ok", "ec"}] /\ calls'[o] # "sent"
        /\ \A p \in Order : p # o => calls'[p] = calls[p]
    BY <1>2 DEF OInv, StateOK
  <1>4. 0 <= Volume[o] /\ "new" \in ExStatus /\ cancels' \subseteq Order
    BY <1>1, OrdersAssumption DEF ExStatus, OInv, StateOK
  <1> QED BY <1>1, <1>3, <1>4, SentOnce, ChangeStep

LEMMA RefuseStep ==
    ASSUME OInv, NEW o \in Order, Refuse(o)
    PROVE  OInv'
  <1>1. /\ calls[o] = "sent" /\ calls' = [calls EXCEPT ![o] = "ec"]
        /\ ex' = [ex EXCEPT ![o] = "rejected"]
        /\ UNCHANGED <<kind, placed, buys, active, rows, asked, starts, inbox, adding,
                    orderData, cancels, queries, sockets, opened, deleting, reconnected,
                    reports, filled, stream, told, disputed, doubled, lost, finished>>
    BY DEF Refuse, svars, wvars, hvars
  <1>2. /\ o \in placed /\ adding # o /\ placed \subseteq Order
        /\ \A k \in 1 .. Len(inbox) : inbox[k].type = "insert" => inbox[k].order # o
    BY <1>1, SentOnce DEF OInv, StateOK
  <1>3. /\ calls' \in [Order -> {"none", "sent", "ok", "ec"}] /\ calls'[o] = "ec"
        /\ ex' \in [Order -> ExStatus \cup {None}] /\ ex'[o] = "rejected"
        /\ \A p \in Order : p # o => calls'[p] = calls[p] /\ ex'[p] = ex[p]
    BY <1>1 DEF OInv, StateOK, ExStatus
  <1>4. StateOK' BY <1>1, <1>3 DEF OInv, StateOK, Stream
  <1>5. IPlaced' BY <1>1, <1>2, <1>3 DEF OInv, IPlaced, Stream
  <1>6. IFresh'
    <2>1. \A k \in 1 .. Len(inbox) : inbox[k].order \in Order BY <1>2 DEF OInv, IPlaced
    <2> QED BY <1>1, <1>2, <1>3, <2>1 DEF OInv, IFresh
  <1>7. ITrack'
    <2>1. "rejected" # None BY OrdersAssumption DEF ExStatus
    <2>2. \A i \in Stream : \A k \in 1 .. Len(stream[i]) : stream[i][k].order \in Order
      BY <1>2 DEF OInv, IPlaced
    <2>3. Tracked' BY <1>1, <1>3 DEF OInv, ITrack, Tracked, Live
    <2> QED BY <1>1, <1>3, <2>1, <2>2, <2>3 DEF OInv, ITrack, Live, Stream
  <1> QED BY <1>1, <1>4, <1>5, <1>6, <1>7, FilledSame, EndSame DEF OInv

(* A change of a live order. *)
LEMMA LiveChangeStep ==
    ASSUME OInv, NEW o \in Order, Live(o), NEW s \in ExStatus, NEW n \in Nat, n <= Volume[o],
           Change(o, s, n), UNCHANGED calls, cancels' \subseteq Order
    PROVE  OInv'
  <1>1. calls \in [Order -> {"none", "sent", "ok", "ec"}] BY DEF OInv, StateOK
  <1> QED BY <1>1, SentOnce, ChangeStep

LEMMA ExecuteStep ==
    ASSUME OInv, NEW o \in Order, NEW q \in 1 .. Volume[o], Execute(o, q)
    PROVE  OInv'
  <1>1. filled[o] + q \in Nat /\ filled[o] + q <= Volume[o]
    BY OrdersAssumption DEF Execute, OInv, StateOK
  <1>2. PICK s \in {"filled", "partially_filled"} : Change(o, s, filled[o] + q)
    BY DEF Execute
  <1>3. s \in ExStatus /\ Live(o) /\ UNCHANGED calls /\ cancels' \subseteq Order
    BY DEF Execute, ExStatus, OInv, StateOK
  <1>4. PICK n \in Nat : n = filled[o] + q BY <1>1
  <1>5. Change(o, s, n) /\ n <= Volume[o] BY <1>1, <1>2, <1>4
  <1> QED BY <1>3, <1>5, LiveChangeStep

LEMMA ExpireStep ==
    ASSUME OInv, NEW o \in Order, Expire(o)
    PROVE  OInv'
  <1>1. /\ "expired" \in ExStatus /\ Live(o) /\ UNCHANGED calls /\ cancels' \subseteq Order
        /\ Change(o, "expired", filled[o])
    BY DEF Expire, ExStatus, OInv, StateOK
  <1>2. PICK n \in Nat : n = filled[o] BY DEF OInv, StateOK
  <1>3. Change(o, "expired", n) /\ n <= Volume[o] BY <1>1, <1>2 DEF OInv, IFilled
  <1> QED BY <1>1, <1>3, LiveChangeStep

LEMMA CancelStep ==
    ASSUME OInv, NEW o \in Order, Cancel(o)
    PROVE  OInv'
  <1>1. /\ "canceled" \in ExStatus /\ Live(o) /\ UNCHANGED calls /\ cancels' \subseteq Order
        /\ Change(o, "canceled", filled[o])
    BY DEF Cancel, ExStatus, OInv, StateOK
  <1>2. PICK n \in Nat : n = filled[o] BY DEF OInv, StateOK
  <1>3. Change(o, "canceled", n) /\ n <= Volume[o] BY <1>1, <1>2 DEF OInv, IFilled
  <1> QED BY <1>1, <1>3, LiveChangeStep

LEMMA CancelFailsStep ==
    ASSUME OInv, NEW o \in Order, CancelFails(o)
    PROVE  OInv'
  <1>1. /\ cancels' = cancels \ {o}
        /\ UNCHANGED <<kind, placed, buys, active, rows, asked, starts, inbox, adding,
                    orderData, calls, queries, sockets, opened, deleting, reconnected,
                    reports, ex, filled, stream, told, disputed, doubled, lost, finished>>
    BY DEF CancelFails, svars, wvars, xvars, hvars
  <1>2. StateOK' BY <1>1 DEF OInv, StateOK, Stream
  <1> QED BY <1>1, <1>2, PlacedSame, FreshSame, TrackSame, FilledSame, EndSame DEF OInv

-----------------------------------------------------------------------------
(* Every step keeps the invariant. *)
LEMMA NextOInv == OInv /\ [Next]_vars => OInv'
  <1> SUFFICES ASSUME OInv, [Next]_vars PROVE OInv' OBVIOUS
  <1>1. CASE Strategy
    BY <1>1, InsertOrderStep, CancelOrderStep, QueryOrderStep, OnOrderStep, RestartStep
    DEF Strategy
  <1>2. CASE Loop
    BY <1>2, EmplaceStep, SendOrderStep, SendCancelStep, SendQueryStep, SocketStep DEF Loop
  <1>3. CASE IoThread
    BY <1>3, OnNewOrderStep, OnOrderInfoStep, OnUpdateStep, OnUpdateMissedStep,
       CloseStreamStep, SocketStep
    DEF IoThread
  <1>4. CASE Exchange
    BY <1>4, AcceptStep, RefuseStep, ExecuteStep, ExpireStep, CancelStep, CancelFailsStep
    DEF Exchange
  <1>5. CASE UNCHANGED vars
    <2>1. UNCHANGED <<kind, placed, buys, active, rows, asked, starts, inbox, adding,
                    orderData, calls, cancels, queries, sockets, opened, deleting, reconnected,
                    reports, ex, filled, stream, told, disputed, doubled, lost, finished>>
      BY <1>5 DEF vars, svars, gvars, wvars, xvars, hvars
    <2>2. StateOK' BY <2>1 DEF OInv, StateOK, Stream
    <2> QED BY <2>1, <2>2, PlacedSame, FreshSame, TrackSame, FilledSame, EndSame DEF OInv
  <1> QED BY <1>1, <1>2, <1>3, <1>4, <1>5 DEF Next

(* The inductive invariant holds, for any orders, streams and requests. *)
THEOREM OrdersInvariance == Spec => []OInv
  BY InitOInv, NextOInv, PTL DEF Spec

(* The gateway knows every order that can still change at the exchange:    *)
(* order_data_ is filled before the order is sent and erased at its end.   *)
THEOREM LiveOrdersTracked == Spec => []Tracked
  <1>1. OInv => Tracked BY DEF OInv, ITrack
  <1> QED BY <1>1, OrdersInvariance, PTL

(* An order that ended for the strategy does not become active again,      *)
(* restarts included, unless the gateway contradicted itself or an Error   *)
(* frame was left out of the orders table.                                 *)
THEOREM EndedOrdersStayEnded == Spec => []NoZombie
  <1>1. OInv => NoZombie BY DEF OInv, IEnd
  <1> QED BY <1>1, OrdersInvariance, PTL

-----------------------------------------------------------------------------
(* What the frames of the futures gateway say of an order.  With one       *)
(* stream at a time they come in the order of the changes at the exchange. *)
Calm == kind = "FFuture" /\ ~Lossy /\ ~doubled

(* How far a message says its order has got, as Progress does of a frame.  *)
Says(m) == IF Last(m) THEN Volume[m.order] + 1 ELSE m.traded

(* A stream that is not open has no messages, and one is open at a time.   *)
IStreams ==
    /\ ~doubled => \A i, j \in sockets : i = j
    /\ \A i \in Stream : i \notin sockets => stream[i] = <<>>

(* What is known of an order that is not there yet, is refused, is live.   *)
ISaid ==
    \A o \in Order :
        /\ calls[o] = "ec" => ex[o] = "rejected" /\ told[o] <= Volume[o]
        /\ ex[o] = None => told[o] = 0
        /\ Live(o) => told[o] <= filled[o]

(* A message says no less than the frames written so far and the messages  *)
(* before it, and nothing comes after the last one.                        *)
Ahead(m) ==
    /\ ex[m.order] \notin {None, "rejected"}
    /\ told[m.order] <= Says(m) /\ told[m.order] <= Volume[m.order]
    /\ m.traded <= filled[m.order]

IAhead ==
    \A i \in Stream : \A k \in 1 .. Len(stream[i]) :
        /\ Ahead(stream[i][k])
        /\ \A l \in 1 .. Len(stream[i]) :
             l < k /\ stream[i][l].order = stream[i][k].order =>
                ~Last(stream[i][l]) /\ stream[i][l].traded <= stream[i][k].traded

ICalm == IStreams /\ (Calm => disputed = {} /\ ISaid /\ IAhead)

LEMMA InitCalm == Init => ICalm
  <1> SUFFICES ASSUME Init PROVE ICalm OBVIOUS
  <1>1. \A i, j \in sockets : i = j BY DEF Init
  <1>2. \A i \in Stream : stream[i] = <<>> /\ Len(stream[i]) = 0 BY DEF Init
  <1>3. ISaid BY OrdersAssumption DEF Init, ISaid, Live, ExStatus
  <1> QED BY <1>1, <1>2, <1>3 DEF Init, ICalm, IStreams, IAhead

(* A step that neither writes a frame nor sends or takes a message.        *)
LEMMA CalmSame ==
    ASSUME OInv, ICalm, UNCHANGED <<kind, doubled, sockets, stream, ex, filled, told, disputed>>,
           \A o \in Order : calls'[o] = "ec" => calls[o] = "ec"
    PROVE  ICalm'
  <1>1. IStreams' BY DEF ICalm, IStreams, Stream
  <1>2. Calm' <=> Calm BY DEF Calm
  <1>3. ISaid => ISaid' BY DEF ISaid, Live
  <1>4. \A m : Ahead(m) => Ahead(m)' BY DEF Ahead, Says, Last, IsFinal, FromBinance
  <1>5. \A m : Last(m)' <=> Last(m) BY DEF Last, IsFinal, FromBinance
  <1>6. IAhead => IAhead' BY <1>4, <1>5 DEF IAhead, Stream
  <1> QED BY <1>1, <1>2, <1>3, <1>6 DEF ICalm

LEMMA CheckStatusCalm ==
    ASSUME OInv, ICalm, CheckStatus
    PROVE  ICalm'
  <1>1. UNCHANGED <<kind, stream, ex, filled, calls, told, disputed>>
    BY DEF CheckStatus, gvars, xvars
  <1>2. \/ UNCHANGED <<sockets, doubled>>
        \/ sockets' = sockets \cup {opened + 1} /\ doubled' = (doubled \/ sockets # {})
    BY DEF CheckStatus
  <1>3. CASE UNCHANGED <<sockets, doubled>> BY <1>1, <1>3, CalmSame
  <1>4. CASE sockets' = sockets \cup {opened + 1} /\ doubled' = (doubled \/ sockets # {})
    <2>1. IStreams'
      <3>1. ~doubled' => sockets' = {opened + 1} BY <1>4
      <3> QED BY <1>1, <1>4, <3>1 DEF ICalm, IStreams, Stream
    <2>2. Calm' => Calm BY <1>1, <1>4 DEF Calm
    <2>3. ISaid => ISaid' BY <1>1 DEF ISaid, Live
    <2>4. \A m : Ahead(m) => Ahead(m)' BY <1>1 DEF Ahead, Says, Last, IsFinal, FromBinance
    <2>5. \A m : Last(m)' <=> Last(m) BY DEF Last, IsFinal, FromBinance
    <2>6. IAhead => IAhead' BY <1>1, <2>4, <2>5 DEF IAhead, Stream
    <2> QED BY <1>1, <2>1, <2>2, <2>3, <2>6 DEF ICalm
  <1> QED BY <1>2, <1>3, <1>4

(* Messages are left out at the front.  What those that stay say of their  *)
(* orders is still ahead.                                                  *)
LEMMA FewerAhead ==
    ASSUME OInv, NEW i \in Stream, NEW n \in Nat, IAhead,
           \A j \in Stream : j # i => stream'[j] = stream[j],
           \A k \in 1 .. Len(stream'[i]) : /\ k + n \in 1 .. Len(stream[i])
                                           /\ stream'[i][k] = stream[i][k + n],
           Len(stream'[i]) \in Nat,
           \A j \in Stream : \A k \in 1 .. Len(stream'[j]) : Ahead(stream[j][k])'
    PROVE  IAhead'
  <1>1. \A m : Last(m)' <=> Last(m) BY DEF Last, IsFinal, FromBinance
  <1>2. ASSUME NEW j \in Stream, NEW k \in 1 .. Len(stream'[j]), NEW l \in 1 .. Len(stream'[j]),
               l < k, stream'[j][l].order = stream'[j][k].order
        PROVE  ~Last(stream'[j][l]) /\ stream'[j][l].traded <= stream'[j][k].traded
    <2>1. CASE j # i BY <1>2, <2>1 DEF IAhead
    <2>2. CASE j = i
      <3>1. /\ k + n \in 1 .. Len(stream[i]) /\ stream'[i][k] = stream[i][k + n]
            /\ l + n \in 1 .. Len(stream[i]) /\ stream'[i][l] = stream[i][l + n]
        BY <1>2, <2>2
      <3>2. l + n < k + n BY <1>2, <2>2
      <3> QED BY <1>2, <2>2, <3>1, <3>2 DEF IAhead
    <2> QED BY <2>1, <2>2
  <1> QED BY <1>1, <1>2 DEF IAhead, Stream

LEMMA OnUpdateMissedCalm ==
    ASSUME OInv, ICalm, NEW i \in Stream, OnUpdateMissed(i)
    PROVE  ICalm'
  <1>1. /\ stream[i] # <<>> /\ stream' = [stream EXCEPT ![i] = Tail(@)]
        /\ UNCHANGED <<kind, doubled, sockets, calls, ex, filled, told, disputed>>
    BY DEF OnUpdateMissed, gvars, wvars
  <1>2. stream \in [Stream -> Seq(Update)] BY DEF OInv, StateOK, Update
  <1>3. /\ stream'[i] = Tail(stream[i]) /\ stream[i] \in Seq(Update)
        /\ \A j \in Stream : j # i => stream'[j] = stream[j]
    BY <1>1, <1>2
  <1>4. /\ Tail(stream[i]) \in Seq(Update) /\ Len(stream[i]) \in Nat
        /\ Len(Tail(stream[i])) = Len(stream[i]) - 1 /\ Len(stream[i]) >= 1
        /\ \A k \in 1 .. Len(Tail(stream[i])) : /\ k + 1 \in 1 .. Len(stream[i])
                                                /\ Tail(stream[i])[k] = stream[i][k + 1]
    BY <1>1, <1>3, TailElements
  <1>5. IStreams'
    <2>1. i \in sockets BY <1>1 DEF ICalm, IStreams
    <2> QED BY <1>1, <1>3, <2>1 DEF ICalm, IStreams, Stream
  <1>6. Calm' => Calm BY <1>1 DEF Calm
  <1>7. ISaid => ISaid' BY <1>1 DEF ISaid, Live
  <1>8. IAhead => IAhead'
    <2> SUFFICES ASSUME IAhead PROVE IAhead' OBVIOUS
    <2>1. \A m : Ahead(m) => Ahead(m)' BY <1>1 DEF Ahead, Says, Last, IsFinal, FromBinance
    <2>2. \A j \in Stream : \A k \in 1 .. Len(stream'[j]) : Ahead(stream'[j][k])
      <3>1. \A j \in Stream : \A k \in 1 .. Len(stream[j]) : Ahead(stream[j][k]) BY DEF IAhead
      <3>2. \A k \in 1 .. Len(stream'[i]) : Ahead(stream'[i][k]) BY <1>3, <1>4, <3>1
      <3> QED BY <1>3, <3>1, <3>2
    <2>3. \A j \in Stream : \A k \in 1 .. Len(stream'[j]) : Ahead(stream[j][k])'
      BY <2>1, <2>2 DEF Ahead, Says, Last, IsFinal, FromBinance
    <2>4. 1 \in Nat /\ Len(stream'[i]) \in Nat BY <1>3, <1>4
    <2>5. \A k \in 1 .. Len(stream'[i]) : /\ k + 1 \in 1 .. Len(stream[i])
                                          /\ stream'[i][k] = stream[i][k + 1]
      BY <1>3, <1>4
    <2> QED BY <1>3, <2>3, <2>4, <2>5, FewerAhead
  <1> QED BY <1>1, <1>5, <1>6, <1>7, <1>8 DEF ICalm

LEMMA CloseStreamCalm ==
    ASSUME OInv, ICalm, NEW i \in Stream, CloseStream(i)
    PROVE  ICalm'
  <1>1. /\ sockets' = sockets \ {i} /\ stream' = [stream EXCEPT ![i] = <<>>]
        /\ UNCHANGED <<kind, doubled, calls, ex, filled, told, disputed>>
    BY DEF CloseStream, gvars
  <1>2. stream \in [Stream -> Seq(Update)] BY DEF OInv, StateOK, Update
  <1>3. /\ stream'[i] = <<>> /\ Len(stream'[i]) = 0
        /\ \A j \in Stream : j # i => stream'[j] = stream[j]
    BY <1>1, <1>2
  <1>4. IStreams' BY <1>1, <1>3 DEF ICalm, IStreams, Stream
  <1>5. Calm' => Calm BY <1>1 DEF Calm
  <1>6. ISaid => ISaid' BY <1>1 DEF ISaid, Live
  <1>7. IAhead => IAhead'
    <2> SUFFICES ASSUME IAhead PROVE IAhead' OBVIOUS
    <2>1. \A m : Ahead(m) => Ahead(m)' BY <1>1 DEF Ahead, Says, Last, IsFinal, FromBinance
    <2>2. \A j \in Stream : \A k \in 1 .. Len(stream'[j]) : Ahead(stream'[j][k])
      BY <1>3 DEF IAhead
    <2>3. \A j \in Stream : \A k \in 1 .. Len(stream'[j]) : Ahead(stream[j][k])'
      BY <2>1, <2>2 DEF Ahead, Says, Last, IsFinal, FromBinance
    <2>4. 0 \in Nat /\ Len(stream'[i]) \in Nat BY <1>3
    <2>5. \A k \in 1 .. Len(stream'[i]) : /\ k + 0 \in 1 .. Len(stream[i])
                                          /\ stream'[i][k] = stream[i][k + 0]
      BY <1>3
    <2> QED BY <1>3, <2>3, <2>4, <2>5, FewerAhead
  <1> QED BY <1>1, <1>4, <1>5, <1>6, <1>7 DEF ICalm

LEMMA RefuseCalm ==
    ASSUME OInv, ICalm, NEW o \in Order, Refuse(o)
    PROVE  ICalm'
  <1>1. /\ calls[o] = "sent" /\ calls' = [calls EXCEPT ![o] = "ec"]
        /\ ex' = [ex EXCEPT ![o] = "rejected"]
        /\ UNCHANGED <<kind, doubled, sockets, stream, filled, told, disputed>>
    BY DEF Refuse, wvars, hvars
  <1>2. ex[o] = None BY <1>1 DEF OInv, IFresh
  <1>3. /\ calls'[o] = "ec" /\ ex'[o] = "rejected"
        /\ \A p \in Order : p # o => calls'[p] = calls[p] /\ ex'[p] = ex[p]
    BY <1>1 DEF OInv, StateOK
  <1>4. IStreams' BY <1>1 DEF ICalm, IStreams, Stream
  <1>5. Calm' => Calm BY <1>1 DEF Calm
  <1>6. ISaid => ISaid'
    <2> SUFFICES ASSUME ISaid, NEW p \in Order
                 PROVE  /\ calls'[p] = "ec" => ex'[p] = "rejected" /\ told[p] <= Volume[p]
                        /\ ex'[p] = None => told[p] = 0
                        /\ Live(p)' => told[p] <= filled[p]
      BY <1>1 DEF ISaid
    <2>1. CASE p # o BY <1>3, <2>1 DEF ISaid, Live
    <2>2. CASE p = o
      <3>1. told[o] = 0 BY <1>2 DEF ISaid
      <3>2. 0 <= Volume[o] BY OrdersAssumption
      <3>3. "rejected" # None BY OrdersAssumption DEF ExStatus
      <3> QED BY <1>3, <2>2, <3>1, <3>2, <3>3 DEF Live
    <2> QED BY <2>1, <2>2
  <1>7. IAhead => IAhead'
    <2> SUFFICES ASSUME IAhead PROVE IAhead' OBVIOUS
    <2>1. ASSUME NEW j \in Stream, NEW k \in 1 .. Len(stream[j]) PROVE Ahead(stream[j][k])'
      <3>1. Ahead(stream[j][k]) BY DEF IAhead
      <3>2. stream[j][k].order \in Order BY DEF OInv, IPlaced, StateOK
      <3>3. stream[j][k].order # o BY <1>2, <3>1 DEF Ahead
      <3>4. ex'[stream[j][k].order] = ex[stream[j][k].order] BY <1>3, <3>2, <3>3
      <3> QED BY <1>1, <3>1, <3>4 DEF Ahead, Says, Last, IsFinal, FromBinance
    <2>2. \A m : Last(m)' <=> Last(m) BY DEF Last, IsFinal, FromBinance
    <2> QED BY <1>1, <2>1, <2>2 DEF IAhead, Stream
  <1> QED BY <1>1, <1>4, <1>5, <1>6, <1>7 DEF ICalm

LEMMA OnNewOrderCalm ==
    ASSUME OInv, ICalm, NEW o \in Order, OnNewOrder(o)
    PROVE  ICalm'
  <1>1. /\ calls[o] \in {"ok", "ec"} /\ calls' = [calls EXCEPT ![o] = "none"]
        /\ UNCHANGED <<kind, doubled, sockets, stream, ex, filled>>
    BY DEF OnNewOrder, wvars, xvars
  <1>2. /\ calls'[o] = "none" /\ \A p \in Order : p # o => calls'[p] = calls[p]
    BY <1>1 DEF OInv, StateOK
  <1>3. IStreams' BY <1>1 DEF ICalm, IStreams, Stream
  <1>4. CASE ~Calm BY <1>1, <1>3, <1>4 DEF ICalm, Calm
  <1>5. CASE calls[o] = "ok" /\ Calm
    <2>1. UNCHANGED <<told, disputed>> BY <1>5 DEF OnNewOrder, Calm
    <2> QED BY <1>1, <1>2, <2>1, CalmSame
  <1>6. CASE calls[o] = "ec" /\ Calm
    <2> DEFINE r == Report(o, TRUE, "Error", 0, Volume[o], 0)
    <2>1. ISaid /\ IAhead /\ disputed = {} BY <1>6 DEF ICalm
    <2>2. ex[o] = "rejected" /\ told[o] <= Volume[o] BY <1>6, <2>1 DEF ISaid
    <2>3. /\ r.order = o /\ Progress(r) = Volume[o] + 1
      BY DEF Report, Progress, IsFinal
    <2>4. Write(r, FALSE) BY <1>6, <2>2 DEF OnNewOrder
    <2>5. Volume[o] \in Nat /\ told \in [Order -> Nat] BY OrdersAssumption DEF OInv, StateOK
    <2>6. /\ told'[o] = Volume[o] + 1 /\ \A p \in Order : p # o => told'[p] = told[p]
          /\ disputed' = {}
      <3> HIDE DEF r
      <3>1. /\ told' = [told EXCEPT ![o] = IF Progress(r) > @ THEN Progress(r) ELSE @]
            /\ disputed' = IF Progress(r) < told[o] \/ told[o] > Volume[o]
                           THEN disputed \cup {o} ELSE disputed
        BY <2>3, <2>4 DEF Write
      <3> QED BY <2>1, <2>2, <2>3, <2>5, <3>1
    <2>7. ~Live(o) /\ ex[o] # None
      BY <2>2, OrdersAssumption DEF Live, ExStatus
    <2>8. ISaid' BY <1>1, <1>2, <2>1, <2>6, <2>7 DEF ISaid, Live
    <2>9. IAhead'
      <3>1. ASSUME NEW j \in Stream, NEW k \in 1 .. Len(stream[j]) PROVE Ahead(stream[j][k])'
        <4>1. Ahead(stream[j][k]) BY <2>1 DEF IAhead
        <4>2. stream[j][k].order \in Order BY DEF OInv, IPlaced, StateOK
        <4>3. stream[j][k].order # o BY <2>2, <4>1 DEF Ahead
        <4>4. told'[stream[j][k].order] = told[stream[j][k].order] BY <2>6, <4>2, <4>3
        <4> QED BY <1>1, <4>1, <4>4 DEF Ahead, Says, Last, IsFinal, FromBinance
      <3>2. \A m : Last(m)' <=> Last(m) BY DEF Last, IsFinal, FromBinance
      <3> QED BY <1>1, <2>1, <3>1, <3>2 DEF IAhead, Stream
    <2> QED BY <1>3, <2>6, <2>8, <2>9 DEF ICalm
  <1> QED BY <1>1, <1>4, <1>5, <1>6

(* A message is written to the journal: it is ahead of what has been told, *)
(* and all others of its order are ahead of it.                            *)
LEMMA OnUpdateCalm ==
    ASSUME OInv, ICalm, NEW i \in Stream, OnUpdate(i)
    PROVE  ICalm'
  <1> DEFINE m == Head(stream[i])
             o == m.order
             s == FromBinance[m.status]
             r == Report(o, TRUE, s, m.traded, Volume[o] - m.traded, AvgPrice(m.traded))
  <1>1. /\ stream[i] # <<>> /\ stream' = [stream EXCEPT ![i] = Tail(@)]
        /\ Write(r, FALSE)
        /\ UNCHANGED <<kind, calls, sockets, ex, filled, doubled>>
    BY DEF OnUpdate, UpdateKeeping, wvars
  <1>2. stream \in [Stream -> Seq(Update)] BY DEF OInv, StateOK, Update
  <1>3. /\ stream'[i] = Tail(stream[i]) /\ stream[i] \in Seq(Update)
        /\ \A j \in Stream : j # i => stream'[j] = stream[j]
    BY <1>1, <1>2
  <1>4. /\ Tail(stream[i]) \in Seq(Update) /\ Len(stream[i]) \in Nat
        /\ Len(Tail(stream[i])) = Len(stream[i]) - 1 /\ Len(stream[i]) >= 1
        /\ m \in Update /\ m = stream[i][1]
        /\ \A k \in 1 .. Len(Tail(stream[i])) : /\ k + 1 \in 1 .. Len(stream[i]) /\ k + 1 # 1
                                                /\ Tail(stream[i])[k] = stream[i][k + 1]
    BY <1>1, <1>3, TailElements
  <1>5. i \in sockets BY <1>1 DEF ICalm, IStreams
  <1>6. IStreams' BY <1>1, <1>3, <1>5 DEF ICalm, IStreams, Stream
  <1>7. SUFFICES ASSUME Calm PROVE disputed' = {} /\ ISaid' /\ IAhead'
    BY <1>1, <1>6 DEF ICalm, Calm
  <1>8. ISaid /\ IAhead /\ disputed = {} BY <1>7 DEF ICalm
  <1>9. 1 \in 1 .. Len(stream[i]) BY <1>4
  <1>10. /\ o \in Order /\ m.traded \in Nat /\ m.traded <= Volume[o] /\ Volume[o] \in Nat
         /\ told \in [Order -> Nat] /\ filled \in [Order -> Nat]
    BY <1>4, <1>9, OrdersAssumption DEF Update, OInv, StateOK, IPlaced, IFilled
  <1>11. Ahead(m) BY <1>4, <1>8, <1>9 DEF IAhead
  <1>12. r.order = o /\ Progress(r) = Says(m)
    BY DEF Report, Progress, Says, Last
  <1>13. Says(m) \in Nat /\ (~Last(m) => Says(m) = m.traded) BY <1>10 DEF Says
  <1>14. /\ told'[o] = Says(m) /\ \A p \in Order : p # o => told'[p] = told[p]
         /\ disputed' = {}
    <2> HIDE DEF r
    <2>1. /\ told' = [told EXCEPT ![o] = IF Progress(r) > @ THEN Progress(r) ELSE @]
          /\ disputed' = IF Progress(r) < told[o] \/ told[o] > Volume[o]
                         THEN disputed \cup {o} ELSE disputed
      BY <1>1, <1>12 DEF Write
    <2>2. told[o] <= Says(m) /\ told[o] <= Volume[o] BY <1>11 DEF Ahead
    <2> HIDE DEF m
    <2> QED BY <1>8, <1>10, <1>12, <1>13, <2>1, <2>2
  <1>15. Last(m) => ~Live(o) BY <1>4, <1>9 DEF OInv, ITrack
  <1>16. ISaid'
    <2>1. ex[o] \notin {None, "rejected"} /\ m.traded <= filled[o] BY <1>11 DEF Ahead
    <2>2. Live(o) => told'[o] <= filled[o] BY <1>13, <1>14, <1>15, <2>1
    <2> HIDE DEF m
    <2> QED BY <1>1, <1>8, <1>14, <2>1, <2>2 DEF ISaid, Live
  <1>17. ASSUME NEW j \in Stream, NEW k \in 1 .. Len(stream'[j])
         PROVE  Ahead(stream[j][k])'
    <2>1. stream[j] # <<>> => j = i
      BY <1>5, <1>7 DEF ICalm, IStreams, Calm
    <2>2. j = i
      <3>1. CASE j # i
        <4>1. stream'[j] = <<>> BY <1>3, <2>1, <3>1
        <4> QED BY <4>1
      <3> QED BY <3>1
    <2>3. k \in 1 .. Len(Tail(stream[i])) /\ stream'[j][k] = stream[i][k + 1]
      BY <1>3, <1>4, <2>2
    <2>4. k + 1 \in 1 .. Len(stream[i]) /\ 1 < k + 1 BY <1>4, <2>3
    <2> PICK w : w = stream[i][k + 1] OBVIOUS
    <2>5. Ahead(w) BY <1>8, <2>4 DEF IAhead
    <2>6. w.order = o => ~Last(m) /\ m.traded <= w.traded
      BY <1>4, <1>8, <1>9, <2>4 DEF IAhead
    <2>7. w \in Update BY <1>3, <2>4
    <2>8. w.traded \in Nat /\ w.order \in Order /\ w.traded <= Volume[w.order]
      BY <2>4, <2>7 DEF Update, OInv, IFilled
    <2>9. told'[w.order] <= Says(w) /\ told'[w.order] <= Volume[w.order]
      <3>1. CASE w.order = o
        <4>1. told'[w.order] = m.traded BY <1>13, <1>14, <2>6, <3>1
        <4>2. m.traded <= w.traded BY <2>6, <3>1
        <4> HIDE DEF m
        <4> QED BY <1>10, <2>8, <3>1, <4>1, <4>2 DEF Says
      <3>2. CASE w.order # o
        <4>1. told'[w.order] = told[w.order] BY <1>14, <2>8, <3>2
        <4> QED BY <2>5, <4>1 DEF Ahead
      <3> QED BY <3>1, <3>2
    <2>10. Ahead(w)' BY <1>1, <2>5, <2>9 DEF Ahead, Says, Last, IsFinal, FromBinance
    <2> QED BY <2>3, <2>10 DEF Ahead, Says, Last, IsFinal, FromBinance
  <1>18. IAhead'
    <2>1. 1 \in Nat /\ Len(stream'[i]) \in Nat BY <1>3, <1>4
    <2>2. \A k \in 1 .. Len(stream'[i]) : /\ k + 1 \in 1 .. Len(stream[i])
                                          /\ stream'[i][k] = stream[i][k + 1]
      BY <1>3, <1>4
    <2> QED BY <1>3, <1>8, <1>17, <2>1, <2>2, FewerAhead
  <1> QED BY <1>14, <1>16, <1>18

(* A change of an order that may still change: the gateway has not been    *)
(* told as much before, nor does another message say so.                   *)
LEMMA ChangeCalm ==
    ASSUME OInv, ICalm, NEW o \in placed, NEW s \in ExStatus \ {"rejected"}, NEW n \in Nat,
           n <= Volume[o], Change(o, s, n), filled[o] <= n \/ ex[o] = None,
           ex[o] = None \/ Live(o),
           \A p \in Order : calls'[p] = "ec" => calls[p] = "ec" \/ Lossy
    PROVE  ICalm'
  <1> DEFINE m == Message(o, s, n)
  <1>1. /\ ex' = [ex EXCEPT ![o] = s] /\ filled' = [filled EXCEPT ![o] = n]
        /\ stream' = [i \in DOMAIN stream |->
                         IF i \in sockets THEN Append(stream[i], m) ELSE stream[i]]
        /\ UNCHANGED <<kind, sockets, told, disputed, doubled>>
    BY DEF Change, wvars
  <1>2. o \in Order BY DEF OInv, StateOK
  <1>3. stream \in [Stream -> Seq(Update)] BY DEF OInv, StateOK, Update
  <1>4. m \in Update /\ m.order = o /\ m.traded = n /\ m.status = s
    BY <1>2 DEF Message, Update
  <1>5. /\ ex'[o] = s /\ \A p \in Order : p # o => ex'[p] = ex[p]
        /\ filled'[o] = n /\ \A p \in Order : p # o => filled'[p] = filled[p]
        /\ filled \in [Order -> Nat] /\ told \in [Order -> Nat] /\ Volume[o] \in Nat
    BY <1>1, <1>2, OrdersAssumption DEF OInv, StateOK
  <1>6. s \notin {None, "rejected"} /\ ex[o] # "rejected"
    BY OrdersAssumption DEF Live, ExStatus
  <1> HIDE DEF m
  <1>7. IStreams'
    <2>1. \A i \in Stream : i \notin sockets => stream'[i] = stream[i] BY <1>1, <1>3
    <2> QED BY <1>1, <2>1 DEF ICalm, IStreams, Stream
  <1>8. SUFFICES ASSUME Calm PROVE ISaid' /\ IAhead' /\ disputed' = {}
    BY <1>1, <1>7 DEF ICalm, Calm
  <1>9. ISaid /\ IAhead /\ disputed = {} /\ ~Lossy BY <1>8 DEF ICalm, Calm
  <1>10. told[o] <= n /\ told[o] <= Volume[o]
    <2>1. CASE ex[o] = None BY <1>2, <1>5, <1>9, <2>1 DEF ISaid
    <2>2. CASE Live(o) /\ filled[o] <= n BY <1>2, <1>5, <1>9, <2>2 DEF ISaid
    <2> QED BY <2>1, <2>2
  <1>11. ISaid'
    <2> SUFFICES ASSUME NEW p \in Order
                 PROVE  /\ calls'[p] = "ec" => ex'[p] = "rejected" /\ told[p] <= Volume[p]
                        /\ ex'[p] = None => told[p] = 0
                        /\ Live(p)' => told[p] <= filled'[p]
      BY <1>1 DEF ISaid
    <2>1. calls'[p] = "ec" => calls[p] = "ec" BY <1>9
    <2>2. CASE p # o BY <1>5, <1>9, <2>1, <2>2 DEF ISaid, Live
    <2>3. CASE p = o
      <3>1. calls[o] # "ec" BY <1>2, <1>6, <1>9 DEF ISaid
      <3> QED BY <1>5, <1>6, <1>10, <2>1, <2>3, <3>1
    <2> QED BY <2>2, <2>3
  <1>12. ASSUME NEW w \in Update, Ahead(w), Last(w) => ~Live(w.order)
         PROVE  /\ Ahead(w)'
                /\ w.order = o => ~Last(w) /\ w.traded <= n
    <2>1. CASE w.order = o
      <3>1. ex[o] # None BY <2>1, <1>12 DEF Ahead
      <3>2. Live(o) /\ filled[o] <= n /\ ~Last(w) BY <2>1, <3>1, <1>12
      <3>3. w.traded <= filled[o] /\ w.traded \in Nat BY <2>1, <1>12 DEF Ahead, Update
      <3>4. w.traded <= n BY <1>2, <1>5, <3>2, <3>3
      <3> QED BY <1>1, <1>5, <1>6, <1>12, <2>1, <3>2, <3>4
              DEF Ahead, Says, Last, IsFinal, FromBinance
    <2>2. CASE w.order # o
      <3>1. w.order \in Order BY DEF Update
      <3> QED BY <1>1, <1>5, <1>12, <2>2, <3>1 DEF Ahead, Says, Last, IsFinal, FromBinance
    <2> QED BY <2>1, <2>2
  <1>13. Ahead(m)'
    <2>1. PICK w : w = m OBVIOUS
    <2>2. Says(w) \in {n, Volume[o] + 1} BY <1>4, <2>1 DEF Says
    <2>3. told'[o] <= Says(w) /\ told'[o] <= Volume[o]
      BY <1>1, <1>2, <1>5, <1>10, <2>2
    <2>4. Ahead(w)'
      BY <1>1, <1>4, <1>5, <1>6, <2>1, <2>3 DEF Ahead, Says, Last, IsFinal, FromBinance
    <2> QED BY <2>1, <2>4 DEF m, Message
  <1>14. ASSUME NEW i \in Stream, NEW k \in 1 .. Len(stream[i])
         PROVE  /\ stream[i][k] \in Update /\ Ahead(stream[i][k])
                /\ Last(stream[i][k]) => ~Live(stream[i][k].order)
    BY <1>3, <1>9 DEF IAhead, OInv, ITrack
  <1>15. ASSUME NEW i \in Stream
         PROVE  \A k \in 1 .. Len(stream'[i]) :
                   /\ Ahead(stream[i][k])'
                   /\ \A l \in 1 .. Len(stream'[i]) :
                        l < k /\ stream'[i][l].order = stream'[i][k].order =>
                           ~Last(stream'[i][l]) /\ stream'[i][l].traded <= stream'[i][k].traded
    <2>1. PICK q \in Seq(Update) : q = stream[i] BY <1>3
    <2>2. \A k \in 1 .. Len(q) : /\ Ahead(q[k])' /\ q[k] \in Update
                                 /\ q[k].order = o => ~Last(q[k]) /\ q[k].traded <= n
      BY <1>12, <1>14, <2>1
    <2>3. \A k, l \in 1 .. Len(q) : l < k /\ q[l].order = q[k].order =>
                                      ~Last(q[l]) /\ q[l].traded <= q[k].traded
      BY <1>9, <2>1 DEF IAhead
    <2>4. CASE stream'[i] = q
      BY <2>2, <2>3, <2>4 DEF Ahead, Says, Last, IsFinal, FromBinance
    <2>5. CASE stream'[i] = Append(q, m)
      <3>1. PICK w : w = m OBVIOUS
      <3>2. PICK v : v = Append(q, w) OBVIOUS
      <3>3. stream'[i] = v /\ w \in Update BY <1>4, <2>5, <3>1, <3>2
      <3>4. /\ Len(q) \in Nat /\ Len(v) = Len(q) + 1 /\ v[Len(q) + 1] = w
            /\ \A k \in 1 .. Len(q) : v[k] = q[k]
            /\ \A k \in 1 .. Len(v) : k \in 1 .. Len(q) \/ k = Len(q) + 1
        BY <3>2, <3>3, AppendElements
      <3>5. Ahead(w)' BY <1>13, <3>1 DEF m, Message
      <3>6. \A k \in 1 .. Len(v) : Ahead(v[k])' BY <2>2, <3>4, <3>5
      <3>7. ASSUME NEW k \in 1 .. Len(v), NEW l \in 1 .. Len(v), l < k,
                   v[l].order = v[k].order
            PROVE  ~Last(v[l]) /\ v[l].traded <= v[k].traded
        <4>1. l \in 1 .. Len(q) /\ v[l] = q[l] BY <3>4, <3>7
        <4>2. CASE k \in 1 .. Len(q) BY <2>3, <3>4, <3>7, <4>1, <4>2
        <4>3. CASE k = Len(q) + 1
          <5>1. v[k] = w /\ w.order = o /\ w.traded = n BY <1>4, <3>1, <3>4, <4>3
          <5> QED BY <2>2, <3>7, <4>1, <5>1
        <4> QED BY <3>4, <4>2, <4>3
      <3> QED BY <3>3, <3>6, <3>7 DEF Ahead, Says, Last, IsFinal, FromBinance
    <2> QED BY <1>1, <1>3, <2>1, <2>4, <2>5
  <1>16. \A w : Last(w)' <=> Last(w) BY DEF Last, IsFinal, FromBinance
  <1>17. IAhead' BY <1>15, <1>16 DEF IAhead, Stream
  <1> QED BY <1>1, <1>9, <1>11, <1>17

LEMMA ExchangeCalm ==
    ASSUME OInv, ICalm, NEW o \in Order, Accept(o) \/ Expire(o) \/ Cancel(o)
                                         \/ \E q \in 1 .. Volume[o] : Execute(o, q)
    PROVE  ICalm'
  <1>1. calls[o] = "sent" \/ Live(o) BY DEF Accept, Expire, Cancel, Execute
  <1>2. o \in placed /\ (ex[o] = None \/ Live(o)) BY <1>1, SentOnce
  <1>3. filled[o] \in Nat /\ filled[o] <= Volume[o] /\ Volume[o] \in Nat
    BY OrdersAssumption DEF OInv, StateOK, IFilled
  <1>4. CASE Accept(o)
    <2>1. /\ Change(o, "new", 0) /\ ex[o] = None BY <1>4 DEF Accept, OInv, IFresh
    <2>2. \A p \in Order : calls'[p] = "ec" => calls[p] = "ec" \/ Lossy
      <3>1. PICK answer \in IF Lossy THEN {"ok", "ec"} ELSE {"ok"} :
               calls' = [calls EXCEPT ![o] = answer]
        BY <1>4 DEF Accept
      <3> QED BY <3>1 DEF OInv, StateOK
    <2>3. 0 <= Volume[o] /\ "new" \in ExStatus \ {"rejected"} BY <1>3 DEF ExStatus
    <2> QED BY <1>2, <2>1, <2>2, <2>3, ChangeCalm
  <1>5. ASSUME NEW s \in ExStatus \ {"rejected"}, NEW n \in Nat, n <= Volume[o],
               filled[o] <= n, Change(o, s, n), Live(o), UNCHANGED calls
        PROVE  ICalm'
    BY <1>2, <1>5, ChangeCalm
  <1>6. /\ {"expired", "canceled", "filled", "partially_filled"} \subseteq ExStatus \ {"rejected"}
        /\ filled[o] <= filled[o]
    BY <1>3 DEF ExStatus
  <1>7. CASE Expire(o) BY <1>3, <1>5, <1>6, <1>7 DEF Expire
  <1>8. CASE Cancel(o) BY <1>3, <1>5, <1>6, <1>8 DEF Cancel
  <1>9. ASSUME NEW q \in 1 .. Volume[o], Execute(o, q) PROVE ICalm'
    <2>1. filled[o] + q \in Nat /\ filled[o] + q <= Volume[o] /\ filled[o] <= filled[o] + q
      BY <1>3, <1>9 DEF Execute
    <2>2. PICK s \in {"filled", "partially_filled"} : Change(o, s, filled[o] + q)
      BY <1>9 DEF Execute
    <2> QED BY <1>5, <1>6, <1>9, <2>1, <2>2 DEF Execute
  <1> QED BY <1>4, <1>7, <1>8, <1>9

LEMMA NextCalm == OInv /\ ICalm /\ [Next]_vars => ICalm'
  <1> SUFFICES ASSUME OInv, ICalm, [Next]_vars PROVE ICalm' OBVIOUS
  <1> DEFINE Quiet == UNCHANGED <<kind, doubled, sockets, stream, ex, filled, told, disputed,
                                  calls>>
  <1>1. Quiet => ICalm' BY CalmSame
  <1>2. CASE Strategy
    <2>1. Quiet
      BY <1>2 DEF Strategy, InsertOrder, CancelOrder, QueryOrder, OnOrder, Restart,
                  gvars, wvars, xvars, hvars
    <2> QED BY <1>1, <2>1
  <1>3. CASE Loop
    <2>1. CASE Emplace \/ SendCancel \/ SendQuery
      <3>1. Quiet BY <2>1 DEF Emplace, SendCancel, SendQuery, wvars, xvars, hvars
      <3> QED BY <1>1, <3>1
    <2>2. CASE SendOrder
      <3>1. UNCHANGED <<kind, doubled, sockets, stream, ex, filled, told, disputed>>
        BY <2>2 DEF SendOrder, wvars, xvars, hvars
      <3>2. \A o \in Order : calls'[o] = "ec" => calls[o] = "ec" BY <2>2 DEF SendOrder
      <3> QED BY <3>1, <3>2, CalmSame
    <2> QED BY <1>3, <2>1, <2>2, CheckStatusCalm DEF Loop
  <1>4. CASE IoThread
    <2>1. ASSUME NEW o \in Order, OnOrderInfo(o) PROVE ICalm'
      <3>1. Quiet BY <2>1 DEF OnOrderInfo, wvars, xvars, hvars
      <3> QED BY <1>1, <3>1
    <2>2. ASSUME NEW i \in Stream, SetReconnected(i) PROVE ICalm'
      <3>1. Quiet BY <2>2 DEF SetReconnected, gvars, xvars, hvars
      <3> QED BY <1>1, <3>1
    <2> QED BY <1>4, <2>1, <2>2, OnNewOrderCalm, OnUpdateCalm, OnUpdateMissedCalm,
               CloseStreamCalm
            DEF IoThread
  <1>5. CASE Exchange
    <2>1. ASSUME NEW o \in Order, CancelFails(o) PROVE ICalm'
      <3>1. Quiet BY <2>1 DEF CancelFails, wvars, xvars, hvars
      <3> QED BY <1>1, <3>1
    <2> QED BY <1>5, <2>1, ExchangeCalm, RefuseCalm DEF Exchange
  <1>6. CASE UNCHANGED vars BY <1>1, <1>6 DEF vars, gvars, wvars, xvars, hvars
  <1> QED BY <1>2, <1>3, <1>4, <1>5, <1>6 DEF Next

(* The futures gateway's frames about an order never contradict each other *)
(* or the exchange, whatever messages get lost and streams end, as long as *)
(* no call fails ambiguously and no two streams are open at once           *)
(* (on_order's callbacks, _check_status).                                  *)
THEOREM FuturesConsistent == Spec => []Consistent
  <1>1. OInv /\ ICalm => Consistent BY DEF ICalm, Calm, Consistent
  <1>2. Init => OInv /\ ICalm BY InitOInv, InitCalm
  <1>3. OInv /\ ICalm /\ [Next]_vars => (OInv /\ ICalm)' BY NextOInv, NextCalm
  <1> QED BY <1>1, <1>2, <1>3, PTL DEF Spec

-----------------------------------------------------------------------------
(* Sums over finite sets.  MapThenSumSet is a fold, defined by recursion   *)
(* over a set; what it does is shown by looking at a smallest set for      *)
(* which it would not.                                                     *)
LEMMA LeastNat ==
    ASSUME NEW T, T \subseteq Nat, T # {}
    PROVE  \E n \in T : \A m \in T : n <= m
  <1> DEFINE R == OpToRel(<, Nat)
  <1>1. IsWellFoundedOn(R, Nat) BY NatLessThanWellFounded
  <1>2. \E x \in T : \A y \in T : ~ (<<y, x>> \in R)
    <2> HIDE DEF R
    <2> QED BY <1>1, WFMin
  <1>3. PICK n \in T : \A m \in T : <<m, n>> \notin R BY <1>2
  <1>4. ASSUME NEW m \in T PROVE n <= m
    <2>1. <<m, n>> \notin R BY <1>3
    <2>2. m \in Nat /\ n \in Nat OBVIOUS
    <2>3. ~ (m < n) BY <2>1, <2>2 DEF OpToRel
    <2> QED BY <2>2, <2>3
  <1> QED BY <1>4

(* A set of finite sets that is not empty has a smallest member.           *)
LEMMA Smallest ==
    ASSUME NEW F, F # {}, \A s \in F : IsFiniteSet(s)
    PROVE  \E s \in F : \A t \in F : Cardinality(s) <= Cardinality(t)
  <1> DEFINE C == {Cardinality(s) : s \in F}
  <1>1. C \subseteq Nat /\ C # {} BY FS_CardinalityType
  <1>2. PICK n \in C : \A m \in C : n <= m
    <2> HIDE DEF C
    <2> QED BY <1>1, LeastNat
  <1> QED BY <1>2

LEMMA Without ==
    ASSUME NEW s, IsFiniteSet(s), NEW x \in s
    PROVE  /\ IsFiniteSet(s \ {x}) /\ ~(Cardinality(s) <= Cardinality(s \ {x}))
           /\ s \ {x} # s
  <1>1. IsFiniteSet(s \ {x}) /\ Cardinality(s \ {x}) = Cardinality(s) - 1
    BY FS_RemoveElement
  <1>2. Cardinality(s) \in Nat BY FS_CardinalityType
  <1> QED BY <1>1, <1>2

Pick(s) == CHOOSE x \in s : TRUE

(* g maps every subset of S to the sum of W over it.                       *)
IsSum(g, W, S) ==
    g = [s \in SUBSET S |-> IF s = {} THEN 0 ELSE W[Pick(s)] + g[s \ {Pick(s)}]]

Sum(W, S) == (CHOOSE g : IsSum(g, W, S))[S]

LEMMA PickIn == \A s : s # {} => Pick(s) \in s
  BY DEF Pick

LEMMA SumStep ==
    ASSUME NEW W, NEW S, NEW g, IsSum(g, W, S), NEW s \in SUBSET S
    PROVE  g[s] = IF s = {} THEN 0 ELSE W[Pick(s)] + g[s \ {Pick(s)}]
  BY DEF IsSum

LEMMA SumUnique ==
    ASSUME NEW W, NEW S, NEW T, IsFiniteSet(T), T \subseteq S,
           NEW g, IsSum(g, W, S), NEW h, IsSum(h, W, T)
    PROVE  \A s \in SUBSET T : g[s] = h[s]
  <1> DEFINE F == {s \in SUBSET T : g[s] # h[s]}
  <1>1. SUFFICES ASSUME F # {} PROVE FALSE OBVIOUS
  <1>2. \A s \in F : IsFiniteSet(s) BY FS_Subset
  <1>3. PICK s \in F : \A t \in F : Cardinality(s) <= Cardinality(t)
    <2> HIDE DEF F
    <2> QED BY <1>1, <1>2, Smallest
  <1>4. s \in SUBSET T /\ s \in SUBSET S /\ g[s] # h[s] OBVIOUS
  <1>5. s # {} BY <1>4, SumStep
  <1>6. PICK x \in s : x = Pick(s) BY <1>5, PickIn
  <1>7. s \ {x} \in SUBSET T /\ s \ {x} \notin F BY <1>2, <1>3, Without
  <1>8. g[s \ {x}] = h[s \ {x}] BY <1>7
  <1>9. g[s] = W[x] + g[s \ {x}] /\ h[s] = W[x] + h[s \ {x}] BY <1>4, <1>5, <1>6, SumStep
  <1> QED BY <1>4, <1>8, <1>9

LEMMA SumExists ==
    ASSUME NEW W, NEW S, IsFiniteSet(S)
    PROVE  \E g : IsSum(g, W, S)
  <1> DEFINE F == {T \in SUBSET S : ~ \E g : IsSum(g, W, T)}
  <1>1. SUFFICES ASSUME F # {} PROVE FALSE OBVIOUS
  <1>2. \A T \in F : IsFiniteSet(T) BY FS_Subset
  <1>3. PICK T \in F : \A U \in F : Cardinality(T) <= Cardinality(U)
    <2> HIDE DEF F
    <2> QED BY <1>1, <1>2, Smallest
  <1>4. T \in SUBSET S /\ IsFiniteSet(T) /\ ~ \E g : IsSum(g, W, T) BY <1>2
  <1>5. ASSUME NEW U \in SUBSET T, U # T PROVE \E g : IsSum(g, W, U)
    <2>1. /\ IsFiniteSet(U) /\ Cardinality(U) <= Cardinality(T)
          /\ Cardinality(U) # Cardinality(T)
      BY <1>4, <1>5, FS_Subset
    <2>2. Cardinality(U) \in Nat /\ Cardinality(T) \in Nat BY <1>4, <2>1, FS_CardinalityType
    <2>3. U \notin F BY <1>3, <2>1, <2>2
    <2> QED BY <1>4, <2>3
  <1> DEFINE G(U) == CHOOSE g : IsSum(g, W, U)
             g == [s \in SUBSET T |->
                     IF s = {} THEN 0 ELSE W[Pick(s)] + G(s \ {Pick(s)})[s \ {Pick(s)}]]
  <1>6. ASSUME NEW U \in SUBSET T, U # T PROVE IsSum(G(U), W, U) /\ IsFiniteSet(U)
    BY <1>4, <1>5, <1>6, FS_Subset
  <1>7. ASSUME NEW U \in SUBSET T, U # T PROVE g[U] = G(U)[U]
    <2>1. CASE U = {}
      <3>1. g[U] = 0 BY <2>1
      <3>2. IsSum(G(U), W, U) BY <1>6, <1>7
      <3> HIDE DEF G, g
      <3>3. G(U)[U] = 0 BY <2>1, <3>2, SumStep
      <3> QED BY <3>1, <3>3
    <2>2. CASE U # {}
      <3>1. PICK x \in U : x = Pick(U) BY <2>2, PickIn
      <3>2. g[U] = W[x] + G(U \ {x})[U \ {x}] BY <2>2, <3>1
      <3>3. /\ IsSum(G(U), W, U) /\ IsSum(G(U \ {x}), W, U \ {x})
            /\ IsFiniteSet(U \ {x})
        <4>1. U \ {x} \in SUBSET T /\ U \ {x} # T OBVIOUS
        <4> HIDE DEF G, g
        <4> QED BY <1>6, <1>7, <4>1
      <3> HIDE DEF G, g
      <3>4. G(U)[U] = W[x] + G(U)[U \ {x}] BY <2>2, <3>1, <3>3, SumStep
      <3>5. G(U)[U \ {x}] = G(U \ {x})[U \ {x}]
        <4>1. U \ {x} \subseteq U /\ U \ {x} \in SUBSET (U \ {x}) OBVIOUS
        <4> QED BY <3>3, <4>1, SumUnique
      <3> QED BY <3>2, <3>4, <3>5
    <2> QED BY <2>1, <2>2
  <1>8. ASSUME NEW s \in SUBSET T
        PROVE  g[s] = IF s = {} THEN 0 ELSE W[Pick(s)] + g[s \ {Pick(s)}]
    <2>1. CASE s = {} BY <2>1
    <2>2. CASE s # {}
      <3>1. PICK x \in s : x = Pick(s) BY <2>2, PickIn
      <3>2. s \ {x} \in SUBSET T /\ s \ {x} # T BY <1>4, Without
      <3>3. g[s] = W[x] + G(s \ {x})[s \ {x}] BY <2>2, <3>1
      <3> HIDE DEF G, g
      <3> QED BY <1>7, <2>2, <3>1, <3>2, <3>3
    <2> QED BY <2>1, <2>2
  <1>9. g = [s \in SUBSET T |-> g[s]] OBVIOUS
  <1>10. IsSum(g, W, T)
    <2> HIDE DEF g
    <2>1. [s \in SUBSET T |-> g[s]] =
             [s \in SUBSET T |-> IF s = {} THEN 0 ELSE W[Pick(s)] + g[s \ {Pick(s)}]]
      BY <1>8
    <2> QED BY <1>9, <2>1 DEF IsSum
  <1> QED BY <1>4, <1>10

LEMMA SumIs ==
    ASSUME NEW W, NEW S, IsFiniteSet(S)
    PROVE  \E g : IsSum(g, W, S) /\ Sum(W, S) = g[S]
  <1>1. IsSum(CHOOSE g : IsSum(g, W, S), W, S) BY SumExists
  <1> QED BY <1>1 DEF Sum

LEMMA SumType ==
    ASSUME NEW W, NEW S, IsFiniteSet(S), \A x \in S : W[x] \in Int,
           NEW g, IsSum(g, W, S)
    PROVE  \A s \in SUBSET S : g[s] \in Int
  <1> DEFINE F == {s \in SUBSET S : g[s] \notin Int}
  <1>1. SUFFICES ASSUME F # {} PROVE FALSE OBVIOUS
  <1>2. \A s \in F : IsFiniteSet(s) BY FS_Subset
  <1>3. PICK s \in F : \A t \in F : Cardinality(s) <= Cardinality(t)
    <2> HIDE DEF F
    <2> QED BY <1>1, <1>2, Smallest
  <1>4. s \in SUBSET S /\ g[s] \notin Int OBVIOUS
  <1>5. s # {}
    <2>1. s = {} => g[s] = 0 BY <1>4, SumStep
    <2> QED BY <1>4, <2>1
  <1>6. PICK x \in s : x = Pick(s) BY <1>5, PickIn
  <1>7. s \ {x} \in SUBSET S /\ s \ {x} \notin F BY <1>2, <1>3, Without
  <1>8. g[s \ {x}] \in Int BY <1>7
  <1>9. g[s] = W[x] + g[s \ {x}] BY <1>4, <1>5, <1>6, SumStep
  <1>10. W[x] \in Int BY <1>4
  <1> QED BY <1>4, <1>8, <1>9, <1>10

(* Whichever element Pick takes first, the sum is the same.                *)
LEMMA SumInsert ==
    ASSUME NEW W, NEW S, IsFiniteSet(S), \A x \in S : W[x] \in Int,
           NEW g, IsSum(g, W, S)
    PROVE  \A s \in SUBSET S : \A x \in s : g[s] = W[x] + g[s \ {x}]
  <1> DEFINE F == {s \in SUBSET S : \E x \in s : g[s] # W[x] + g[s \ {x}]}
  <1>1. SUFFICES ASSUME F # {} PROVE FALSE OBVIOUS
  <1>2. \A s \in F : IsFiniteSet(s) BY FS_Subset
  <1>3. PICK s \in F : \A t \in F : Cardinality(s) <= Cardinality(t)
    <2> HIDE DEF F
    <2> QED BY <1>1, <1>2, Smallest
  <1>4. PICK x \in s : g[s] # W[x] + g[s \ {x}] OBVIOUS
  <1>5. s \in SUBSET S /\ s # {} BY <1>4
  <1>6. PICK y \in s : y = Pick(s) BY <1>5, PickIn
  <1>7. g[s] = W[y] + g[s \ {y}]
    <2> HIDE DEF F
    <2>1. g[s] = IF s = {} THEN 0 ELSE W[Pick(s)] + g[s \ {Pick(s)}] BY <1>5, SumStep
    <2> QED BY <1>5, <1>6, <2>1
  <1>8. x # y BY <1>4, <1>7
  <1>9. s \ {x} \notin F /\ s \ {y} \notin F BY <1>2, <1>3, Without
  <1>10. g[s \ {y}] = W[x] + g[(s \ {y}) \ {x}] BY <1>5, <1>8, <1>9
  <1>11. g[s \ {x}] = W[y] + g[(s \ {x}) \ {y}] BY <1>5, <1>8, <1>9
  <1>12. (s \ {x}) \ {y} = (s \ {y}) \ {x} OBVIOUS
  <1>13. W[x] \in Int /\ W[y] \in Int /\ g[(s \ {y}) \ {x}] \in Int
    <2>1. (s \ {y}) \ {x} \in SUBSET S BY <1>5
    <2> QED BY <1>5, <2>1, SumType
  <1>14. \A a, b, c \in Int : a + (b + c) = b + (a + c) OBVIOUS
  <1>15. g[s] = W[x] + g[s \ {x}]
    <2> HIDE DEF F
    <2>1. W[y] + (W[x] + g[(s \ {y}) \ {x}]) = W[x] + (W[y] + g[(s \ {y}) \ {x}])
      BY <1>13, <1>14
    <2> QED BY <1>7, <1>10, <1>11, <1>12, <2>1
  <1> QED BY <1>4, <1>15

LEMMA SumOfEmpty == \A W : Sum(W, {}) = 0
  <1> SUFFICES ASSUME NEW W PROVE Sum(W, {}) = 0 OBVIOUS
  <1>1. PICK g : IsSum(g, W, {}) /\ Sum(W, {}) = g[{}] BY SumIs, FS_EmptySet
  <1> QED BY <1>1, SumStep

LEMMA SumIsInt ==
    ASSUME NEW W, NEW S, IsFiniteSet(S), \A x \in S : W[x] \in Int
    PROVE  Sum(W, S) \in Int
  <1>1. PICK g : IsSum(g, W, S) /\ Sum(W, S) = g[S] BY SumIs
  <1> QED BY <1>1, SumType

LEMMA SumWithout ==
    ASSUME NEW W, NEW S, IsFiniteSet(S), \A x \in S : W[x] \in Int, NEW x \in S
    PROVE  Sum(W, S) = W[x] + Sum(W, S \ {x})
  <1>1. PICK g : IsSum(g, W, S) /\ Sum(W, S) = g[S] BY SumIs
  <1>2. IsFiniteSet(S \ {x}) BY Without
  <1>3. PICK h : IsSum(h, W, S \ {x}) /\ Sum(W, S \ {x}) = h[S \ {x}] BY <1>2, SumIs
  <1>4. g[S \ {x}] = h[S \ {x}]
    <2>1. S \ {x} \subseteq S /\ S \ {x} \in SUBSET (S \ {x}) OBVIOUS
    <2> QED BY <1>1, <1>2, <1>3, <2>1, SumUnique
  <1>5. g[S] = W[x] + g[S \ {x}] BY <1>1, SumInsert
  <1> QED BY <1>1, <1>3, <1>4, <1>5

LEMMA SumSame ==
    ASSUME NEW V, NEW W, NEW S, IsFiniteSet(S), \A x \in S : V[x] = W[x]
    PROVE  Sum(V, S) = Sum(W, S)
  <1>1. PICK g : IsSum(g, V, S) /\ Sum(V, S) = g[S] BY SumIs
  <1>2. PICK h : IsSum(h, W, S) /\ Sum(W, S) = h[S] BY SumIs
  <1>3. IsSum(h, V, S)
    <2>1. \A s \in SUBSET S : s # {} => V[Pick(s)] = W[Pick(s)] BY PickIn
    <2> QED BY <1>2, <2>1 DEF IsSum
  <1>4. g[S] = h[S] BY <1>1, <1>3, SumUnique
  <1> QED BY <1>1, <1>2, <1>4

-----------------------------------------------------------------------------
(* What the orders of A set aside, by the volumes V or the records L; B    *)
(* are the orders that buy.                                                *)
SetAside(B, V, A, coin) == MapThenSumSet(LAMBDA o : Reserved(o \in B, coin, V[o]), A)
LeftOver(B, L, A, coin) == MapThenSumSet(LAMBDA o : Reserved(o \in B, coin, L[o].left), A)
Weight(B, V, coin) == [o \in Order |-> Reserved(o \in B, coin, V[o])]

LEMMA SetAsideIsSum ==
    ASSUME NEW B, NEW V, NEW A, A \subseteq Order, IsFiniteSet(A), NEW coin
    PROVE  SetAside(B, V, A, coin) = Sum(Weight(B, V, coin), A)
  <1> DEFINE W == Weight(B, V, coin)
             P(g) == g = [s \in SUBSET A |->
                            IF s = {} THEN 0
                            ELSE LET x == CHOOSE x \in s : TRUE
                                 IN  Reserved(x \in B, coin, V[x]) + g[s \ {x}]]
  <1>1. ASSUME NEW g PROVE IsSum(g, W, A) <=> P(g)
    <2>1. \A s \in SUBSET A : s # {} =>
             W[Pick(s)] = Reserved(Pick(s) \in B, coin, V[Pick(s)])
      BY PickIn DEF Weight
    <2> HIDE DEF W
    <2> QED BY <2>1 DEF IsSum, Pick
  <1> HIDE DEF P, W
  <1>2. \E g : P(g) BY <1>1, SumExists
  <1>3. P(CHOOSE h : P(h)) BY <1>2
  <1>4. PICK c : c = (CHOOSE h : P(h)) /\ P(c) BY <1>3
  <1>5. SetAside(B, V, A, coin) = c[A]
    <2>1. SetAside(B, V, A, coin) = (CHOOSE h : P(h))[A]
      BY DEF SetAside, MapThenSumSet, MapThenFoldSet, P
    <2> QED BY <1>4, <2>1
  <1>6. PICK h : IsSum(h, W, A) /\ Sum(W, A) = h[A] BY SumIs
  <1>7. c[A] = h[A] BY <1>1, <1>4, <1>6, SumUnique
  <1> QED BY <1>5, <1>6, <1>7 DEF W

LEMMA LeftOverIsSum ==
    ASSUME NEW B, NEW L, NEW A, A \subseteq Order, IsFiniteSet(A), NEW coin
    PROVE  LeftOver(B, L, A, coin) = Sum(Weight(B, [o \in Order |-> L[o].left], coin), A)
  <1> DEFINE W == Weight(B, [o \in Order |-> L[o].left], coin)
             P(g) == g = [s \in SUBSET A |->
                            IF s = {} THEN 0
                            ELSE LET x == CHOOSE x \in s : TRUE
                                 IN  Reserved(x \in B, coin, L[x].left) + g[s \ {x}]]
  <1>1. ASSUME NEW g PROVE IsSum(g, W, A) <=> P(g)
    <2>1. \A s \in SUBSET A : s # {} =>
             W[Pick(s)] = Reserved(Pick(s) \in B, coin, L[Pick(s)].left)
      BY PickIn DEF Weight
    <2> HIDE DEF W
    <2> QED BY <2>1 DEF IsSum, Pick
  <1> HIDE DEF P, W
  <1>2. \E g : P(g) BY <1>1, SumExists
  <1>3. P(CHOOSE h : P(h)) BY <1>2
  <1>4. PICK c : c = (CHOOSE h : P(h)) /\ P(c) BY <1>3
  <1>5. LeftOver(B, L, A, coin) = c[A]
    <2>1. LeftOver(B, L, A, coin) = (CHOOSE h : P(h))[A]
      BY DEF LeftOver, MapThenSumSet, MapThenFoldSet, P
    <2> QED BY <1>4, <2>1
  <1>6. PICK h : IsSum(h, W, A) /\ Sum(W, A) = h[A] BY SumIs
  <1>7. c[A] = h[A] BY <1>1, <1>4, <1>6, SumUnique
  <1> QED BY <1>5, <1>6, <1>7 DEF W

LEMMA WeightInt ==
    ASSUME NEW B, NEW V, NEW coin, NEW o \in Order, V[o] \in Nat
    PROVE  /\ Weight(B, V, coin)[o] = Reserved(o \in B, coin, V[o])
           /\ Weight(B, V, coin)[o] \in Int
  BY OrdersAssumption DEF Weight, Reserved

(* One order more, or less. *)
LEMMA SetAsideMore ==
    ASSUME NEW B, NEW A, A \subseteq Order, IsFiniteSet(A), NEW o \in A, NEW coin
    PROVE  /\ SetAside(B, Volume, A, coin)
                = Reserved(o \in B, coin, Volume[o]) + SetAside(B, Volume, A \ {o}, coin)
           /\ SetAside(B, Volume, A \ {o}, coin) \in Int
           /\ Reserved(o \in B, coin, Volume[o]) \in Int
  <1>1. IsFiniteSet(A \ {o}) /\ A \ {o} \subseteq Order BY Without
  <1>2. \A p \in Order : /\ Weight(B, Volume, coin)[p] = Reserved(p \in B, coin, Volume[p])
                         /\ Weight(B, Volume, coin)[p] \in Int
    BY OrdersAssumption, WeightInt
  <1>3. \A p \in A : Weight(B, Volume, coin)[p] \in Int BY <1>2
  <1>4. Sum(Weight(B, Volume, coin), A)
          = Weight(B, Volume, coin)[o] + Sum(Weight(B, Volume, coin), A \ {o})
    BY <1>3, SumWithout
  <1>5. Sum(Weight(B, Volume, coin), A \ {o}) \in Int BY <1>1, <1>3, SumIsInt
  <1> QED BY <1>1, <1>2, <1>4, <1>5, SetAsideIsSum

(* The side of orders that are not among them does not matter.             *)
LEMMA SetAsideSame ==
    ASSUME NEW B, NEW C, NEW A, A \subseteq Order, IsFiniteSet(A), NEW coin,
           \A o \in A : o \in B <=> o \in C
    PROVE  SetAside(B, Volume, A, coin) = SetAside(C, Volume, A, coin)
  <1>1. \A o \in A : Weight(B, Volume, coin)[o] = Weight(C, Volume, coin)[o]
    BY DEF Weight, Reserved
  <1>2. Sum(Weight(B, Volume, coin), A) = Sum(Weight(C, Volume, coin), A) BY <1>1, SumSame
  <1> QED BY <1>2, SetAsideIsSum

-----------------------------------------------------------------------------
(* An order that was inserted is active until its end is told.  Only       *)
(* finitely many have been inserted.                                       *)
Active == {o \in Order : active[o] # None}
Exact == \A c \in Coin : frozen[c] = SetAside(buys, Volume, Active, c)

IBook ==
    /\ IsFiniteSet(placed)
    /\ disputed = {} /\ starts = 1 =>
         /\ \A o \in placed : active[o] = None => finished[o] # None
         /\ Exact

LEMMA ExactIs == IBook => FrozenExact
  BY DEF IBook, Exact, Active, SetAside, FrozenExact

LEMMA ActiveFinite == OInv /\ IBook => IsFiniteSet(Active) /\ Active \subseteq placed
  <1> SUFFICES ASSUME OInv, IBook PROVE IsFiniteSet(Active) /\ Active \subseteq placed OBVIOUS
  <1>1. Active \subseteq placed BY DEF Active, OInv, IPlaced
  <1> QED BY <1>1, FS_Subset DEF IBook

LEMMA InitBook == Init => IBook
  <1> SUFFICES ASSUME Init PROVE IBook OBVIOUS
  <1>1. placed = {} /\ Active = {} /\ \A c \in Coin : frozen[c] = 0 BY DEF Init, Active
  <1>2. IsFiniteSet({}) /\ {} \subseteq Order BY FS_EmptySet
  <1>3. \A c \in Coin : SetAside(buys, Volume, {}, c) = 0
    BY <1>2, SetAsideIsSum, SumOfEmpty
  <1> QED BY <1>1, <1>2, <1>3 DEF IBook, Exact

LEMMA BookSame ==
    ASSUME IBook, UNCHANGED <<placed, buys, finished, starts, frozen>>, disputed \subseteq disputed',
           \A o \in Order : active'[o] = None <=> active[o] = None, placed \subseteq Order
    PROVE  IBook'
  <1>1. Active' = Active BY DEF Active
  <1>2. Exact => Exact' BY <1>1 DEF Exact
  <1>3. disputed' = {} => disputed = {} OBVIOUS
  <1> QED BY <1>2, <1>3 DEF IBook

LEMMA InsertOrderBook ==
    ASSUME OInv, IBook, NEW o \in Order, NEW buy \in BOOLEAN, InsertOrder(o, buy)
    PROVE  IBook'
  <1>1. /\ o \notin placed /\ placed' = placed \cup {o}
        /\ buys' = IF buy THEN buys \cup {o} ELSE buys
        /\ active' = [active EXCEPT ![o] = Kept("PreSend", Volume[o])]
        /\ frozen' = [c \in Coin |-> frozen[c] + Reserved(buy, c, Volume[o])]
        /\ UNCHANGED <<starts, disputed, finished>>
    BY DEF InsertOrder, Freeze, hvars
  <1>2. placed \subseteq Order /\ buys \subseteq placed /\ active \in [Order -> Keep \cup {None}]
    BY DEF OInv, StateOK
  <1>3. active'[o] # None /\ \A p \in Order : p # o => active'[p] = active[p]
    <2>1. Volume[o] \in Nat BY OrdersAssumption
    <2>2. Kept("PreSend", Volume[o]) \in Keep BY <2>1 DEF Kept, Keep, Status
    <2> QED BY <1>1, <1>2, <2>2, OrdersAssumption
  <1>4. IsFiniteSet(placed') BY <1>1, FS_AddElement DEF IBook
  <1>5. SUFFICES ASSUME disputed = {}, starts = 1
                 PROVE  (\A p \in placed' : active'[p] = None => finished'[p] # None) /\ Exact'
    BY <1>1, <1>4 DEF IBook
  <1>6. \A p \in placed' : active'[p] = None => finished'[p] # None
    BY <1>1, <1>2, <1>3, <1>5 DEF IBook
  <1>7. Active' = Active \cup {o} /\ Active' \ {o} = Active /\ o \notin Active
    <2>1. active[o] = None BY <1>1 DEF OInv, IPlaced
    <2> QED BY <1>3, <2>1 DEF Active
  <1>8. IsFiniteSet(Active) /\ Active \subseteq placed BY ActiveFinite
  <1>9. IsFiniteSet(Active') /\ Active' \subseteq Order BY <1>2, <1>7, <1>8, FS_AddElement
  <1>10. ASSUME NEW c \in Coin PROVE frozen'[c] = SetAside(buys', Volume, Active', c)
    <2>1. (o \in buys') = buy BY <1>1, <1>2
    <2>2. PICK A : A = Active' OBVIOUS
    <2>3. PICK B : B = buys' OBVIOUS
    <2>4. o \in A /\ A \ {o} = Active /\ IsFiniteSet(A) /\ A \subseteq Order
      BY <1>7, <1>9, <2>2
    <2>5. /\ SetAside(B, Volume, A, c)
               = Reserved(o \in B, c, Volume[o]) + SetAside(B, Volume, A \ {o}, c)
          /\ SetAside(B, Volume, A \ {o}, c) \in Int
          /\ Reserved(o \in B, c, Volume[o]) \in Int
      BY <2>4, SetAsideMore
    <2>6. SetAside(B, Volume, Active, c) = SetAside(buys, Volume, Active, c)
      <3>1. \A p \in Active : p \in B <=> p \in buys BY <1>1, <1>7, <2>3
      <3>2. Active \subseteq Order BY DEF Active
      <3> QED BY <1>8, <3>1, <3>2, SetAsideSame
    <2>7. frozen[c] = SetAside(buys, Volume, Active, c) BY <1>5 DEF IBook, Exact
    <2>8. frozen'[c] = frozen[c] + Reserved(buy, c, Volume[o]) BY <1>1
    <2>9. Reserved(o \in B, c, Volume[o]) = Reserved(buy, c, Volume[o]) BY <2>1, <2>3
    <2>10. frozen'[c] = SetAside(B, Volume, A, c)
      <3>1. PICK x \in Int : x = Reserved(o \in B, c, Volume[o]) BY <2>5
      <3>2. PICK y \in Int : y = SetAside(B, Volume, A \ {o}, c) BY <2>5
      <3>3. SetAside(B, Volume, A, c) = x + y BY <2>5, <3>1, <3>2
      <3>4. frozen[c] = y BY <2>4, <2>6, <2>7, <3>2
      <3>5. frozen'[c] = y + x BY <2>8, <2>9, <3>1, <3>4
      <3>6. x + y = y + x OBVIOUS
      <3> QED BY <3>3, <3>5, <3>6
    <2> QED BY <2>2, <2>3, <2>10
  <1> QED BY <1>6, <1>10 DEF Exact

LEMMA OnOrderBook ==
    ASSUME OInv, IBook, OnOrder
    PROVE  IBook'
  <1> DEFINE r == Head(reports)
             o == r.order
  <1>1. reports # <<>> /\ UNCHANGED <<placed, buys, starts, disputed>> BY DEF OnOrder
  <1>2. placed \subseteq Order /\ active \in [Order -> Keep \cup {None}]
        /\ finished \in [Order -> {None, "Cancelled", "Error", "Filled"}]
    BY DEF OInv, StateOK
  <1>3. CASE ~r.mine
    <2>1. UNCHANGED <<active, frozen, finished>> BY <1>3 DEF OnOrder
    <2> QED BY <1>1, <1>2, <2>1, BookSame
  <1>4. CASE r.mine
    <2>1. /\ BookOnOrder(r)
          /\ finished' = [finished EXCEPT ![o] = IF IsFinal(r.status) THEN r.status ELSE @]
      BY <1>4 DEF OnOrder
    <2>2. reports \in Seq(Frame) BY DEF OInv, StateOK
    <2>3. r \in Frame /\ r = reports[1] /\ 1 \in 1 .. Len(reports)
      BY <1>1, <2>2, TailElements
    <2>4. o \in placed /\ o \in Order /\ r.status \in Status /\ r.left \in Nat
      BY <1>4, <2>3 DEF OInv, IPlaced, Frame
    <2> HIDE DEF r
    <2>5. SUFFICES ASSUME disputed = {}, starts = 1
                   PROVE  (\A p \in placed : active'[p] = None => finished'[p] # None) /\ Exact'
      BY <1>1 DEF IBook
    <2>6. /\ \A p \in placed : active[p] = None => finished[p] # None
          /\ Exact
      BY <2>5 DEF IBook
    <2>7. active[o] # None
      <3>1. finished[o] = None BY <1>4, <2>3, <2>4, <2>5 DEF OInv, IEnd, Mine
      <3> QED BY <2>4, <2>6, <3>1
    <2>8. CASE ~IsFinal(r.status)
      <3>1. active' = [active EXCEPT ![o] = Kept(r.status, r.left)] /\ UNCHANGED frozen
        BY <2>1, <2>8 DEF BookOnOrder
      <3>2. Kept(r.status, r.left) # None
        <4>1. Kept(r.status, r.left) \in Keep BY <2>4 DEF Kept, Keep
        <4> QED BY <4>1, OrdersAssumption
      <3>3. finished' = finished BY <1>2, <2>1, <2>4, <2>8
      <3>4. \A p \in Order : active'[p] = None <=> active[p] = None
        BY <1>2, <2>4, <2>7, <3>1, <3>2
      <3>5. IBook' BY <1>1, <1>2, <3>1, <3>3, <3>4, BookSame
      <3> QED BY <1>1, <2>5, <3>5 DEF IBook
    <2>9. CASE IsFinal(r.status)
      <3>1. /\ active' = [active EXCEPT ![o] = None]
            /\ frozen' = [c \in Coin |-> frozen[c] - Reserved(o \in buys, c, Volume[o])]
        BY <2>1, <2>7, <2>9 DEF BookOnOrder
      <3>2. r.status # None BY <2>4, OrdersAssumption
      <3>3. \A p \in placed : active'[p] = None => finished'[p] # None
        BY <1>2, <2>1, <2>4, <2>6, <2>9, <3>1, <3>2
      <3>4. Active' = Active \ {o} /\ o \in Active
        BY <1>2, <2>4, <2>7, <3>1 DEF Active
      <3>5. IsFiniteSet(Active) /\ Active \subseteq Order
        BY <1>2, ActiveFinite
      <3>6. ASSUME NEW c \in Coin PROVE frozen'[c] = SetAside(buys', Volume, Active', c)
        <4>1. /\ SetAside(buys, Volume, Active, c)
                   = Reserved(o \in buys, c, Volume[o])
                       + SetAside(buys, Volume, Active \ {o}, c)
              /\ SetAside(buys, Volume, Active \ {o}, c) \in Int
              /\ Reserved(o \in buys, c, Volume[o]) \in Int
          BY <3>4, <3>5, SetAsideMore
        <4>2. frozen[c] = SetAside(buys, Volume, Active, c) BY <2>6 DEF Exact
        <4>3. frozen'[c] = frozen[c] - Reserved(o \in buys, c, Volume[o]) BY <3>1
        <4>4. frozen'[c] = SetAside(buys, Volume, Active \ {o}, c) BY <4>1, <4>2, <4>3
        <4> QED BY <1>1, <3>4, <4>4
      <3> QED BY <3>3, <3>6 DEF Exact
    <2> QED BY <2>8, <2>9
  <1> QED BY <1>3, <1>4

LEMMA NextBook == OInv /\ IBook /\ [Next]_vars => IBook'
  <1> SUFFICES ASSUME OInv, IBook, [Next]_vars PROVE IBook' OBVIOUS
  <1>1. placed \subseteq Order /\ disputed \subseteq disputed BY DEF OInv, StateOK
  <1>2. ASSUME NEW o \in Order, CancelOrder(o) PROVE IBook'
    <2>1. /\ active' = [active EXCEPT ![o].status = "Pending"] /\ active[o] # None
          /\ UNCHANGED <<placed, buys, finished, starts, frozen, disputed>>
      BY <1>2 DEF CancelOrder, hvars
    <2>2. active \in [Order -> Keep \cup {None}] BY DEF OInv, StateOK
    <2>3. active'[o] \in Keep BY <2>1, <2>2 DEF Keep, Status
    <2>4. active'[o] # None BY <2>3, OrdersAssumption
    <2>5. \A p \in Order : active'[p] = None <=> active[p] = None BY <2>1, <2>2, <2>4
    <2> QED BY <1>1, <2>1, <2>5, BookSame
  <1>3. ASSUME NEW o \in Order, QueryOrder(o) PROVE IBook'
    <2>1. UNCHANGED <<placed, buys, active, finished, starts, frozen, disputed>>
      BY <1>3 DEF QueryOrder, hvars
    <2> QED BY <1>1, <2>1, BookSame
  <1>4. CASE Restart
    <2>1. starts' = starts + 1 /\ UNCHANGED placed BY <1>4 DEF Restart
    <2>2. starts \in Nat /\ starts >= 1 BY DEF OInv, StateOK, IEnd
    <2>3. starts' # 1 BY <2>1, <2>2
    <2> QED BY <2>1, <2>3 DEF IBook
  <1>5. CASE Strategy
    BY <1>2, <1>3, <1>4, <1>5, InsertOrderBook, OnOrderBook DEF Strategy
  <1>6. CASE Loop \/ IoThread \/ Exchange
    <2>1. UNCHANGED <<placed, buys, active, finished, starts, frozen>>
      BY <1>6 DEF Loop, Emplace, SendOrder, SendCancel, SendQuery, CheckStatus,
                  IoThread, OnNewOrder, OnOrderInfo, OnUpdate, UpdateKeeping, OnUpdateMissed,
                  CloseStream, SetReconnected,
                  Exchange, Accept, Refuse, Execute, Expire, Cancel, CancelFails, Change,
                  svars, hvars
    <2>2. disputed \subseteq disputed'
      BY <1>6 DEF Loop, Emplace, SendOrder, SendCancel, SendQuery, CheckStatus,
                  IoThread, OnNewOrder, OnOrderInfo, OnUpdate, UpdateKeeping, OnUpdateMissed,
                  CloseStream, SetReconnected, Write,
                  Exchange, Accept, Refuse, Execute, Expire, Cancel, CancelFails, Change,
                  hvars
    <2> QED BY <1>1, <2>1, <2>2, BookSame
  <1>7. CASE UNCHANGED vars
    <2>1. UNCHANGED <<placed, buys, active, finished, starts, frozen, disputed>>
      BY <1>7 DEF vars, svars, hvars
    <2> QED BY <1>1, <2>1, BookSame
  <1> QED BY <1>5, <1>6, <1>7 DEF Next

-----------------------------------------------------------------------------
(* The value in the book.  A final frame accounts for the whole volume.    *)
Complete(r) ==
    r.mine /\ IsFinal(r.status) =>
        r.traded + r.left = Volume[r.order] /\ (r.avg \in {Price, NaN} \/ r.traded = 0)

IValue ==
    /\ AmountsOK /\ avail["base"] \in Int
    /\ \A k \in 1 .. Len(reports) : Complete(reports[k])
    /\ ValueConserved

(* What _set_init_asset adds up at a restart is a number: it finds rows of *)
(* orders that were inserted only, and these are finitely many.            *)
LEMMA SumsAreNumbers ==
    ASSUME OInv, IBook, NEW c \in Coin
    PROVE  InitFrozen(c) \in Int
  <1> DEFINE A == {o \in Order : Loaded[o] # None}
             L == [o \in Order |-> Loaded[o].left]
  <1>1. /\ rows \in [Order -> Keep \cup {None}] /\ placed \subseteq Order
        /\ \A o \in Order \ placed : rows[o] = None
    BY DEF OInv, StateOK, IPlaced
  <1>2. \A o \in Order : Loaded[o] # None => rows[o] # None /\ Loaded[o] = rows[o]
    BY DEF Loaded
  <1>3. A \subseteq placed BY <1>1, <1>2
  <1>4. IsFiniteSet(A) /\ A \subseteq Order BY <1>1, <1>3, FS_Subset DEF IBook
  <1>5. \A o \in A : L[o] \in Nat BY <1>1, <1>2 DEF Keep
  <1>6. InitFrozen(c) = LeftOver(buys, Loaded, A, c) BY DEF InitFrozen, LeftOver
  <1> HIDE DEF A
  <1>7. LeftOver(buys, Loaded, A, c) = Sum(Weight(buys, L, c), A) BY <1>4, LeftOverIsSum
  <1> HIDE DEF L
  <1>8. \A o \in A : Weight(buys, L, c)[o] \in Int BY <1>4, <1>5, WeightInt
  <1> QED BY <1>4, <1>6, <1>7, <1>8, SumIsInt

LEMMA InitValue == Init => IValue
  <1> SUFFICES ASSUME Init PROVE IValue OBVIOUS
  <1>1. /\ avail = Limit /\ frozen = [c \in Coin |-> 0] /\ reports = <<>>
        /\ Limit \in [Coin -> Int] /\ Price \in Nat
    BY OrdersAssumption DEF Init
  <1>2. Limit["base"] \in Int /\ Limit["quote"] \in Int /\ frozen["base"] = 0 /\ frozen["quote"] = 0
    BY <1>1 DEF Coin
  <1>3. AmountsOK BY <1>1 DEF AmountsOK, Number
  <1>4. ValueConserved BY <1>1, <1>2 DEF ValueConserved
  <1> QED BY <1>1, <1>2, <1>3, <1>4 DEF IValue

(* Amounts move between available and frozen, coin by coin. *)
LEMMA FreezeValue ==
    ASSUME IValue, NEW o \in Order, NEW buy \in BOOLEAN, Freeze(o, buy), UNCHANGED reports
    PROVE  IValue'
  <1> DEFINE x(c) == Reserved(buy, c, Volume[o])
  <1>1. \A c \in Coin : x(c) \in Int BY OrdersAssumption DEF Reserved, Coin
  <1>2. /\ avail' = [c \in Coin |-> Plus(avail[c], -x(c))]
        /\ frozen' = [c \in Coin |-> frozen[c] + x(c)]
    BY DEF Freeze
  <1>3. /\ NaN \notin Int /\ Price \in Nat /\ "base" \in Coin /\ "quote" \in Coin
        /\ avail \in [Coin -> Int \cup {NaN}] /\ frozen \in [Coin -> Int] /\ avail["base"] \in Int
    BY OrdersAssumption DEF IValue, AmountsOK, Number, Coin
  <1> HIDE DEF x
  <1>4. \A c \in Coin : /\ -x(c) \in Int
                        /\ avail'[c] = IF avail[c] = NaN THEN NaN ELSE avail[c] - x(c)
                        /\ frozen'[c] = frozen[c] + x(c)
    <2> TAKE c \in Coin
    <2>1. x(c) \in Int /\ -x(c) \in Int BY <1>1
    <2>2. avail'[c] = Plus(avail[c], -x(c)) /\ frozen'[c] = frozen[c] + x(c) BY <1>2
    <2>3. avail[c] \in Int \cup {NaN} BY <1>3
    <2> QED BY <1>3, <2>1, <2>2, <2>3 DEF Plus
  <1>5. avail' \in [Coin -> Int \cup {NaN}] /\ frozen' \in [Coin -> Int] /\ avail'["base"] \in Int
    <2>1. \A c \in Coin : avail'[c] \in Int \cup {NaN} /\ frozen'[c] \in Int
      BY <1>1, <1>3, <1>4
    <2> QED BY <1>1, <1>2, <1>3, <1>4, <2>1
  <1>6. ValueConserved'
    <2> SUFFICES ASSUME avail'["quote"] # NaN
                 PROVE  avail'["quote"] + frozen'["quote"]
                           + Price * (avail'["base"] + frozen'["base"])
                          = Limit["quote"] + Price * Limit["base"]
      BY DEF ValueConserved
    <2>1. avail["quote"] # NaN /\ avail["quote"] \in Int BY <1>3, <1>4
    <2>2. avail'["quote"] + frozen'["quote"] = avail["quote"] + frozen["quote"]
      BY <1>1, <1>3, <1>4, <2>1
    <2>3. avail'["base"] + frozen'["base"] = avail["base"] + frozen["base"]
      BY <1>1, <1>3, <1>4
    <2> QED BY <2>1, <2>2, <2>3 DEF IValue, ValueConserved
  <1>7. \A k \in 1 .. Len(reports') : Complete(reports'[k]) BY DEF IValue
  <1> QED BY <1>5, <1>6, <1>7 DEF IValue, AmountsOK, Number, Complete

(* The end of an order: what was traded changes the coin at the price of   *)
(* the order, the rest comes back.                                         *)
LEMMA BookValue ==
    ASSUME OInv, IValue, NEW r \in Frame, Complete(r), r.mine, BookOnOrder(r)
    PROVE  AmountsOK' /\ avail'["base"] \in Int /\ ValueConserved'
  <1> DEFINE o == r.order
             V == Volume[r.order]
  <1>1. /\ NaN \notin Int /\ Price \in Nat /\ "base" \in Coin /\ "quote" \in Coin
        /\ avail \in [Coin -> Int \cup {NaN}] /\ frozen \in [Coin -> Int] /\ avail["base"] \in Int
        /\ V \in Nat /\ r.traded \in Nat /\ r.left \in Nat
    BY OrdersAssumption DEF IValue, AmountsOK, Number, Coin, Frame
  <1>2. CASE UNCHANGED <<avail, frozen>>
    BY <1>2 DEF IValue, AmountsOK, ValueConserved
  <1>3. CASE /\ IsFinal(r.status)
             /\ avail' = [c \in Coin |-> Plus(avail[c], Gain(r, c))]
             /\ frozen' = [c \in Coin |-> frozen[c] - Reserved(o \in buys, c, V)]
    <2>1. r.traded + r.left = V /\ (r.avg \in {Price, NaN} \/ r.traded = 0)
      BY <1>3 DEF Complete
    <2>2. V * Price = r.traded * Price + r.left * Price
      <3>1. V = r.traded + r.left BY <1>1, <2>1
      <3> QED BY <1>1, <3>1
    <2>3. Times(r.traded, r.avg) \in {r.traded * Price, NaN}
      BY <1>1, <2>1 DEF Times, Frame
    <2>4. /\ avail'["base"] = Plus(avail["base"], Gain(r, "base"))
          /\ avail'["quote"] = Plus(avail["quote"], Gain(r, "quote"))
          /\ frozen'["base"] = frozen["base"] - Reserved(o \in buys, "base", V)
          /\ frozen'["quote"] = frozen["quote"] - Reserved(o \in buys, "quote", V)
      BY <1>1, <1>3
    <2>5. PICK p \in Int : p = r.traded * Price BY <1>1
    <2>6. PICK q \in Int : q = r.left * Price BY <1>1
    <2>7. /\ avail["base"] \in Int /\ avail["quote"] \in Int \cup {NaN}
          /\ frozen["base"] \in Int /\ frozen["quote"] \in Int
      BY <1>1
    <2>8. CASE o \in buys
      <3>1. /\ avail'["base"] = avail["base"] + r.traded /\ frozen'["base"] = frozen["base"]
            /\ avail'["quote"] = (IF avail["quote"] = NaN THEN NaN ELSE avail["quote"] + q)
            /\ frozen'["quote"] = frozen["quote"] - (p + q)
        BY <1>1, <2>2, <2>4, <2>5, <2>6, <2>7, <2>8 DEF Plus, Gain, Reserved
      <3>2. avail'["base"] \in Int /\ frozen'["base"] \in Int
            /\ avail'["quote"] \in Int \cup {NaN} /\ frozen'["quote"] \in Int
        BY <1>1, <2>7, <3>1
      <3>3. avail' \in [Coin -> Int \cup {NaN}] /\ frozen' \in [Coin -> Int]
        BY <1>3, <3>2 DEF Coin
      <3>4. ValueConserved'
        <4> SUFFICES ASSUME avail'["quote"] # NaN
                     PROVE  avail'["quote"] + frozen'["quote"]
                               + Price * (avail'["base"] + frozen'["base"])
                              = Limit["quote"] + Price * Limit["base"]
          BY DEF ValueConserved
        <4>1. avail["quote"] \in Int /\ avail["quote"] # NaN BY <2>7, <3>1
        <4>2. Price * (avail'["base"] + frozen'["base"])
                 = Price * (avail["base"] + frozen["base"]) + p
          BY <1>1, <2>5, <2>7, <3>1
        <4>3. PICK y \in Int : y = Price * (avail["base"] + frozen["base"])
          BY <1>1, <2>7
        <4>4. avail["quote"] + frozen["quote"] + y = Limit["quote"] + Price * Limit["base"]
          BY <4>1, <4>3 DEF IValue, ValueConserved
        <4> QED BY <2>7, <3>1, <4>1, <4>2, <4>3, <4>4
      <3> QED BY <3>2, <3>3, <3>4 DEF AmountsOK, Number
    <2>9. CASE o \notin buys
      <3>1. /\ avail'["base"] = avail["base"] + r.left /\ frozen'["base"] = frozen["base"] - V
            /\ frozen'["quote"] = frozen["quote"]
        BY <1>1, <2>4, <2>7, <2>9 DEF Plus, Gain, Reserved
      <3>2. avail'["quote"] = NaN \/ (avail["quote"] # NaN /\ avail'["quote"] = avail["quote"] + p)
        BY <1>1, <2>3, <2>4, <2>5, <2>7, <2>9 DEF Plus, Gain
      <3>3. avail'["base"] \in Int /\ frozen'["base"] \in Int
            /\ avail'["quote"] \in Int \cup {NaN} /\ frozen'["quote"] \in Int
        BY <1>1, <2>7, <3>1, <3>2
      <3>4. avail' \in [Coin -> Int \cup {NaN}] /\ frozen' \in [Coin -> Int]
        BY <1>3, <3>3 DEF Coin
      <3>5. ValueConserved'
        <4> SUFFICES ASSUME avail'["quote"] # NaN
                     PROVE  avail'["quote"] + frozen'["quote"]
                               + Price * (avail'["base"] + frozen'["base"])
                              = Limit["quote"] + Price * Limit["base"]
          BY DEF ValueConserved
        <4>1. /\ avail["quote"] \in Int /\ avail["quote"] # NaN
              /\ avail'["quote"] = avail["quote"] + p
          BY <2>7, <3>2
        <4>2. Price * (avail'["base"] + frozen'["base"])
                 = Price * (avail["base"] + frozen["base"]) - p
          <5>1. avail'["base"] + frozen'["base"] = avail["base"] + frozen["base"] - r.traded
            BY <1>1, <2>1, <2>7, <3>1
          <5>2. avail["base"] + frozen["base"] \in Int BY <2>7
          <5> QED BY <1>1, <2>5, <5>1, <5>2
        <4>3. PICK y \in Int : y = Price * (avail["base"] + frozen["base"])
          BY <1>1, <2>7
        <4>4. avail["quote"] + frozen["quote"] + y = Limit["quote"] + Price * Limit["base"]
          BY <4>1, <4>3 DEF IValue, ValueConserved
        <4> QED BY <2>7, <3>1, <4>1, <4>2, <4>3, <4>4
      <3> QED BY <3>3, <3>4, <3>5 DEF AmountsOK, Number
    <2> QED BY <2>8, <2>9
  <1> QED BY <1>2, <1>3 DEF BookOnOrder

LEMMA OnOrderValue ==
    ASSUME OInv, IValue, OnOrder
    PROVE  IValue'
  <1> DEFINE r == Head(reports)
  <1>1. reports # <<>> /\ reports' = Tail(reports) /\ reports \in Seq(Frame)
    BY DEF OnOrder, OInv, StateOK
  <1>2. /\ r \in Frame /\ r = reports[1] /\ 1 \in 1 .. Len(reports)
        /\ \A k \in 1 .. Len(reports') : /\ k + 1 \in 1 .. Len(reports)
                                        /\ reports'[k] = reports[k + 1]
    BY <1>1, TailElements
  <1>3. Complete(r) BY <1>2 DEF IValue
  <1>4. AmountsOK' /\ avail'["base"] \in Int /\ ValueConserved'
    <2>1. CASE r.mine
      <3>1. BookOnOrder(r) BY <2>1 DEF OnOrder
      <3> HIDE DEF r
      <3> QED BY <1>2, <1>3, <2>1, <3>1, BookValue
    <2>2. CASE ~r.mine
      <3>1. UNCHANGED <<avail, frozen>> BY <2>2 DEF OnOrder
      <3> QED BY <3>1 DEF IValue, AmountsOK, ValueConserved
    <2> QED BY <2>1, <2>2
  <1>5. \A k \in 1 .. Len(reports') : Complete(reports'[k]) BY <1>2 DEF IValue
  <1> QED BY <1>4, <1>5 DEF IValue, Complete

LEMMA RestartValue ==
    ASSUME OInv, IBook, IValue, Restart
    PROVE  IValue'
  <1> DEFINE x(c) == InitFrozen(c)
  <1>1. /\ frozen' = [c \in Coin |-> x(c)] /\ avail' = [c \in Coin |-> Limit[c] - x(c)]
        /\ reports' = <<>> /\ \A c \in Coin : x(c) \in Int
    BY SumsAreNumbers DEF Restart
  <1> HIDE DEF x
  <1>2. /\ "base" \in Coin /\ "quote" \in Coin /\ Limit \in [Coin -> Int] /\ Price \in Nat
    BY OrdersAssumption DEF Coin
  <1>3. \A c \in Coin : /\ avail'[c] \in Int /\ frozen'[c] \in Int
                        /\ avail'[c] + frozen'[c] = Limit[c]
    <2> TAKE c \in Coin
    <2>1. /\ avail'[c] = Limit[c] - x(c) /\ frozen'[c] = x(c)
          /\ Limit[c] \in Int /\ x(c) \in Int
      BY <1>1, <1>2
    <2> QED BY <2>1
  <1>4. AmountsOK' BY <1>1, <1>3 DEF AmountsOK, Number
  <1>5. ValueConserved'
    <2>1. avail'["base"] + frozen'["base"] = Limit["base"] BY <1>2, <1>3
    <2>2. avail'["quote"] + frozen'["quote"] = Limit["quote"] BY <1>2, <1>3
    <2> QED BY <2>1, <2>2 DEF ValueConserved
  <1>6. Len(reports') = 0 BY <1>1
  <1> QED BY <1>2, <1>3, <1>4, <1>5, <1>6 DEF IValue

(* A frame is added that is not final, or accounts for the volume. *)
LEMMA FrameValue ==
    ASSUME OInv, IValue, NEW r \in Frame, Complete(r), reports' = Append(reports, r),
           UNCHANGED <<avail, frozen>>
    PROVE  IValue'
  <1>1. reports \in Seq(Frame) BY DEF OInv, StateOK
  <1>2. \A k \in 1 .. Len(reports') : \/ k \in 1 .. Len(reports) /\ reports'[k] = reports[k]
                                      \/ reports'[k] = r
    BY <1>1, AppendElements
  <1>3. \A k \in 1 .. Len(reports') : Complete(reports'[k]) BY <1>2 DEF IValue
  <1> QED BY <1>3 DEF IValue, AmountsOK, ValueConserved, Complete

LEMMA QuietValue ==
    ASSUME IValue, UNCHANGED <<avail, frozen, reports>>
    PROVE  IValue'
  BY DEF IValue, AmountsOK, ValueConserved, Complete

LEMMA OnNewOrderValue ==
    ASSUME OInv, IValue, NEW o \in Order, OnNewOrder(o)
    PROVE  IValue'
  <1>1. UNCHANGED <<avail, frozen>> BY DEF OnNewOrder, svars
  <1>2. ASSUME NEW s \in {"Error", "Submitted"}, NEW wrong,
               Write(Report(o, TRUE, s, 0, Volume[o], 0), wrong)
        PROVE  IValue'
    <2> DEFINE r == Report(o, TRUE, s, 0, Volume[o], 0)
    <2>1. r \in Frame /\ r.traded = 0 /\ r.left = Volume[r.order] /\ Volume[r.order] \in Nat
      BY OrdersAssumption DEF Report, Frame, Status
    <2>2. reports' = Append(reports, r) BY <1>2 DEF Write
    <2> HIDE DEF r
    <2>3. Complete(r) BY <2>1 DEF Complete
    <2> QED BY <1>1, <2>1, <2>2, <2>3, FrameValue
  <1>3. CASE UNCHANGED reports BY <1>1, <1>3, QuietValue
  <1> QED BY <1>2, <1>3 DEF OnNewOrder

LEMMA OnOrderInfoValue ==
    ASSUME OInv, IValue, NEW o \in Order, OnOrderInfo(o)
    PROVE  IValue'
  <1> DEFINE r == Report(o, FALSE, FromBinance[ex[o]], 0, 0, 0)
  <1>1. UNCHANGED <<avail, frozen>> BY DEF OnOrderInfo, svars
  <1>2. CASE UNCHANGED reports BY <1>1, <1>2, QuietValue
  <1>3. CASE ex[o] \in ExStatus /\ reports' = Append(reports, r)
    <2>1. r \in Frame /\ ~r.mine
      BY <1>3, OrdersAssumption DEF Report, Frame, FromBinance, ExStatus, Status
    <2> HIDE DEF r
    <2>2. Complete(r) BY <2>1 DEF Complete
    <2> QED BY <1>1, <1>3, <2>1, <2>2, FrameValue
  <1> QED BY <1>2, <1>3 DEF OnOrderInfo

LEMMA OnUpdateValue ==
    ASSUME OInv, IValue, NEW i \in Stream, OnUpdate(i)
    PROVE  IValue'
  <1> DEFINE m == Head(stream[i])
             o == m.order
             s == FromBinance[m.status]
             r == Report(o, TRUE, s, m.traded, Volume[o] - m.traded, AvgPrice(m.traded))
  <1>1. /\ stream[i] # <<>> /\ stream' = [stream EXCEPT ![i] = Tail(@)]
        /\ reports' = Append(reports, r) /\ UNCHANGED <<avail, frozen>>
    BY DEF OnUpdate, UpdateKeeping, Write, svars
  <1>2. m \in Update /\ m = stream[i][1] /\ 1 \in 1 .. Len(stream[i])
    BY <1>1, StreamTail
  <1>3. /\ o \in Order /\ m.traded \in Nat /\ m.traded <= Volume[o] /\ m.status \in ExStatus
        /\ Volume[o] \in Nat
    BY <1>2, OrdersAssumption DEF Update, OInv, IFilled
  <1>4. s \in Status BY <1>3 DEF ExStatus, FromBinance, Status
  <1>5. Volume[o] - m.traded \in Nat BY <1>3
  <1>6. AvgPrice(m.traded) \in {Price, NaN} BY DEF AvgPrice
  <1>7. /\ r \in Frame /\ r.order = o /\ r.traded = m.traded
        /\ r.left = Volume[o] - m.traded /\ r.avg = AvgPrice(m.traded)
    <2> HIDE DEF m, s
    <2> QED BY <1>3, <1>4, <1>5, <1>6 DEF Report, Frame
  <1>8. Complete(r)
    <2> HIDE DEF m, r
    <2> QED BY <1>3, <1>6, <1>7 DEF Complete
  <1> HIDE DEF r
  <1> QED BY <1>1, <1>7, <1>8, FrameValue

LEMMA NextValue == OInv /\ IBook /\ IValue /\ [Next]_vars => IValue'
  <1> SUFFICES ASSUME OInv, IBook, IValue, [Next]_vars PROVE IValue' OBVIOUS
  <1>1. ASSUME NEW o \in Order, NEW buy \in BOOLEAN, InsertOrder(o, buy) PROVE IValue'
    <2>1. Freeze(o, buy) /\ UNCHANGED reports BY <1>1 DEF InsertOrder
    <2> QED BY <2>1, FreezeValue
  <1>2. CASE Strategy
    <2>1. ASSUME NEW o \in Order, CancelOrder(o) \/ QueryOrder(o)
          PROVE  UNCHANGED <<avail, frozen, reports>>
      BY <2>1 DEF CancelOrder, QueryOrder
    <2> QED BY <1>1, <1>2, <2>1, OnOrderValue, RestartValue, QuietValue DEF Strategy
  <1>3. CASE Loop
    <2>1. UNCHANGED <<avail, frozen, reports>>
      BY <1>3 DEF Loop, Emplace, SendOrder, SendCancel, SendQuery, CheckStatus, svars
    <2> QED BY <2>1, QuietValue
  <1>4. CASE IoThread
    <2>1. ASSUME NEW i \in Stream, OnUpdateMissed(i) \/ CloseStream(i) \/ SetReconnected(i)
          PROVE  UNCHANGED <<avail, frozen, reports>>
      BY <2>1 DEF OnUpdateMissed, CloseStream, SetReconnected, svars
    <2> QED BY <1>4, <2>1, OnNewOrderValue, OnOrderInfoValue, OnUpdateValue, QuietValue
        DEF IoThread
  <1>5. CASE Exchange
    <2>1. UNCHANGED <<avail, frozen, reports>>
      BY <1>5 DEF Exchange, Accept, Refuse, Execute, Expire, Cancel, CancelFails, Change, svars
    <2> QED BY <2>1, QuietValue
  <1>6. CASE UNCHANGED vars BY <1>6, QuietValue DEF vars, svars
  <1> QED BY <1>2, <1>3, <1>4, <1>5, <1>6 DEF Next

(* The book neither creates nor destroys value, for any orders, prices and *)
(* volumes, whatever the gateway tells and in whatever order, and over any *)
(* number of restarts (on_order_input, on_order, _set_init_asset).         *)
THEOREM ValueIsConserved == Spec => [](TypeOK /\ ValueConserved)
  <1>1. OInv /\ IValue => TypeOK /\ ValueConserved BY DEF OInv, IValue, TypeOK
  <1>2. OInv /\ IBook /\ IValue /\ [Next]_vars => IValue' BY NextValue
  <1>3. Spec => [](OInv /\ IBook) BY InitBook, NextBook, OrdersInvariance, PTL DEF Spec
  <1> QED BY <1>1, <1>2, <1>3, InitValue, PTL DEF Spec

(* What the book has frozen is what its active orders set aside, as long   *)
(* as no frame has contradicted another and the strategy has not restarted *)
(* (on_order_input, on_order).                                             *)
THEOREM BookIsExact == Spec => []BookExact
  <1>1. OInv /\ IBook /\ IValue => BookExact
    BY ExactIs DEF OInv, IValue, TypeOK, BookExact
  <1>2. Spec => [](OInv /\ IBook) BY InitBook, NextBook, OrdersInvariance, PTL DEF Spec
  <1>3. Spec => []IValue BY InitValue, NextValue, <1>2, PTL DEF Spec
  <1> QED BY <1>1, <1>2, <1>3, PTL
==============================================================================
