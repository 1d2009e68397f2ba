--------------------------- MODULE GatewayProofs ---------------------------
(***************************************************************************)
(* Proofs about the Binance gateway.                                       *)
(*   Rest      for any number of requests, of any methods, and of HTTP     *)
(*             exchanges: the queue and the exchanges keep step as long as *)
(*             the two threads do not overlap, and a callback is called    *)
(*             once, a request with a body executed once, even if they do. *)
(*   Wire      for every type of message, any keys of it spoilt: what a    *)
(*             callback gets is what the exchange wrote.                   *)
(*   Codes     for any coins: a report is of the terms of its order.       *)
(*   Messages  for every struct and any names set: a record of the journal *)
(*             keeps what was put into it.                                 *)
(***************************************************************************)
EXTENDS Rest, Wire, Codes, Messages, Integers, SequenceTheorems,
        WellFoundedInduction, TLAPS

(* Rest: the requests and their HTTP exchanges. *)

(* An exchange that is being shut down has its answer. *)
IAnswer == \A f \in flights : f.stage = 6 => f.body # NoReply

(* A request is in one place: not made yet, in the queue, or answered. *)
IPlace ==
    /\ \A i, j \in DOMAIN queue : queue[i].req = queue[j].req => i = j
    /\ \A i \in DOMAIN queue : queue[i].req \notin calls /\ told[queue[i].req] = <<>>
    /\ \A r \in calls : told[r] = <<>> /\ executed[r] = 0
    /\ \A r \in Request : Len(told[r]) <= 1

(* The body of a request is in the queue, in one exchange, or was executed. *)
Whole(f) == InBody(f.req) /\ f.data
IBody ==
    /\ \A r \in Request : InBody(r) => executed[r] <= 1
    /\ \A i \in DOMAIN queue : Whole(queue[i]) => executed[queue[i].req] = 0
    /\ \A f \in flights :
          /\ f.id <= started /\ f.req \notin calls
          /\ Whole(f) =>
                /\ f.body = NoReply => executed[f.req] = 0
                /\ \A i \in DOMAIN queue : queue[i].req = f.req => ~queue[i].data
                /\ \A g \in flights : g.req = f.req /\ Whole(g) => g = f

(* Whose turn it is, unless the threads have overlapped. *)
ITurn ==
    ~raced =>
      /\ ~dead
      /\ loop # "idle" => queue # <<>>
      /\ flights # {} => busy /\ loop # "take" /\ io \in {"idle", "next"}
      /\ loop = "take" => ~busy /\ io \in {"idle", "next"}
      /\ io \in {"failed", "take"} => ~busy /\ queue # <<>>
      /\ io = "release" => busy

(* Somebody goes on with the queue, unless the last exchange failed. *)
IAwake ==
    /\ busy => flights # {} \/ io = "release" \/ failed
    /\ io = "failed" => failed
    /\ queue # <<>> => flights # {} \/ loop # "idle" \/ io # "idle" \/ failed

RInv == /\ TypeOK /\ IAnswer /\ IPlace /\ IBody
        /\ ITurn /\ FrontInFlight /\ Matched /\ IAwake
-----------------------------------------------------------------------------
Entry  == [req : Request, data : BOOLEAN]
Flight == [id : 1 .. MaxFlight, req : Request, data : BOOLEAN,
           stage : 1 .. Len(Stage), body : Body \cup {NoReply}]
Reply  == [from : Request \cup {"nobody"}, as : {"ok", "error", "silent"},
           body : Body \cup {NoReply}]

LEMMA Stages ==
    /\ Len(Stage) = 6
    /\ \A s \in 1 .. 6 : /\ Stage[s] = "resolve" <=> s = 1
                         /\ Stage[s] = "read" <=> s = 5
                         /\ Stage[s] = "shutdown" <=> s = 6
  BY DEF Stage

LEMMA Answers ==
    /\ NoReply \notin Body
    /\ \A b \in Body : Invoke(b) \in {"ok", "error", "silent"}
    /\ \A b : SyncResult(b) \in {"ok", "error", "silent"}
  BY DEF NoReply, Body, Invoke, SyncResult

(* What Append and Tail leave of a sequence. *)
LEMMA Appended ==
    ASSUME NEW S, NEW s \in Seq(S), NEW e \in S
    PROVE  /\ Append(s, e) \in Seq(S) /\ Append(s, e) # <<>>
           /\ Len(s) \in Nat /\ Len(Append(s, e)) = Len(s) + 1
           /\ DOMAIN s = 1 .. Len(s) /\ DOMAIN Append(s, e) = 1 .. Len(s) + 1
           /\ Append(s, e)[Len(s) + 1] = e
           /\ \A k \in 1 .. Len(s) : Append(s, e)[k] = s[k] /\ s[k] \in S
  OBVIOUS

LEMMA Popped ==
    ASSUME NEW S, NEW s \in Seq(S), s # <<>>
    PROVE  /\ Tail(s) \in Seq(S) /\ s[1] \in S
           /\ Len(s) \in Nat /\ Len(s) >= 1 /\ Len(Tail(s)) = Len(s) - 1
           /\ DOMAIN s = 1 .. Len(s) /\ DOMAIN Tail(s) = 1 .. Len(s) - 1
           /\ \A k \in 1 .. Len(s) - 1 : k + 1 \in 1 .. Len(s) /\ Tail(s)[k] = s[k + 1]
  OBVIOUS

(* Taking a request leaves it in its place, without its data. *)
LEMMA Taken ==
    ASSUME NEW s \in Seq(Entry), s # <<>>
    PROVE  /\ [s EXCEPT ![1].data = FALSE] \in Seq(Entry)
           /\ [s EXCEPT ![1].data = FALSE] # <<>>
           /\ DOMAIN s = 1 .. Len(s) /\ Len(s) \in Nat /\ Len(s) >= 1
           /\ DOMAIN [s EXCEPT ![1].data = FALSE] = 1 .. Len(s)
           /\ \A k \in 1 .. Len(s) :
                 /\ s[k] \in Entry
                 /\ [s EXCEPT ![1].data = FALSE][k].req = s[k].req
                 /\ [s EXCEPT ![1].data = FALSE][k].data <=> k # 1 /\ s[k].data
  <1> DEFINE t == [s EXCEPT ![1].data = FALSE]
  <1>1. DOMAIN s = 1 .. Len(s) /\ Len(s) \in Nat /\ Len(s) >= 1 /\ \A k \in 1 .. Len(s) : s[k] \in Entry
    OBVIOUS
  <1>2. \A k \in 1 .. Len(s) : t[k] = IF k = 1 THEN [s[1] EXCEPT !.data = FALSE] ELSE s[k]
    BY <1>1
  <1>3. DOMAIN t = 1 .. Len(s) BY <1>1
  <1>4. \A k \in 1 .. Len(s) : /\ t[k] \in Entry /\ t[k].req = s[k].req
                               /\ (t[k].data <=> k # 1 /\ s[k].data)
    <2> TAKE k \in 1 .. Len(s)
    <2>1. CASE k = 1
      <3>1. t[k] = [s[1] EXCEPT !.data = FALSE] BY <1>2, <2>1
      <3>2. s[1] \in Entry /\ s[k] = s[1] BY <1>1, <2>1
      <3>3. t[k] \in Entry /\ t[k].req = s[k].req /\ ~t[k].data BY <3>1, <3>2 DEF Entry
      <3> QED BY <3>3, <2>1
    <2>2. CASE k # 1
      <3>1. t[k] = s[k] /\ s[k] \in Entry BY <1>1, <1>2, <2>2
      <3>2. s[k].data \in BOOLEAN BY <3>1 DEF Entry
      <3> QED BY <3>1, <3>2, <2>2
    <2> QED BY <2>1, <2>2
  <1>5. t \in Seq(Entry)
    <2>1. s \in [1 .. Len(s) -> Entry] BY <1>1
    <2>2. t \in [1 .. Len(s) -> Entry]
      <3>1. s[1] \in Entry BY <1>1
      <3>2. [s[1] EXCEPT !.data = FALSE] \in Entry BY <3>1 DEF Entry
      <3> QED BY <1>1, <2>1, <3>2
    <2> HIDE DEF t
    <2> QED BY <1>1, <2>2
  <1>6. t # <<>> BY <1>1, <1>3
  <1> QED BY <1>1, <1>3, <1>4, <1>5, <1>6

-----------------------------------------------------------------------------
(* Types. *)

Typed ==
    /\ queue \in Seq(Entry)
    /\ busy \in BOOLEAN /\ failed \in BOOLEAN /\ dead \in BOOLEAN /\ raced \in BOOLEAN
    /\ flights \subseteq Flight /\ started \in 0 .. MaxFlight
    /\ loop \in {"idle", "check", "take"}
    /\ io \in {"idle", "failed", "release", "next", "take"}
    /\ calls \subseteq Request
    /\ told \in [Request -> Seq(Reply)] /\ executed \in [Request -> Nat]

LEMMA TypeForm == TypeOK <=> Typed
  BY DEF TypeOK, Typed, Entry, Flight, Reply

LEMMA Entries ==
    ASSUME Typed
    PROVE  \A i \in DOMAIN queue : /\ queue[i] \in Entry /\ queue[i].req \in Request
                                   /\ queue[i].data \in BOOLEAN
  <1>1. queue \in Seq(Entry) BY DEF Typed
  <1>2. \A i \in DOMAIN queue : queue[i] \in Entry BY <1>1
  <1> QED BY <1>2 DEF Entry

LEMMA TakeTyped ==
    ASSUME Typed, IAnswer, Take
    PROVE  /\ queue' \in Seq(Entry) /\ flights' \subseteq Flight
           /\ started' \in 0 .. MaxFlight
           /\ busy' \in BOOLEAN /\ dead' \in BOOLEAN
           /\ IAnswer'
  <1>1. CASE queue = <<>>
    BY <1>1 DEF Typed, Take, IAnswer
  <1>2. CASE queue # <<>>
    <2>1. queue' = [queue EXCEPT ![1].data = FALSE] /\ busy' = TRUE /\ dead' = dead
          /\ started < MaxFlight /\ started' = started + 1
      BY <1>2 DEF Take
    <2>2. queue \in Seq(Entry) /\ started \in 0 .. MaxFlight /\ MaxFlight \in Nat
      BY RestAssumption DEF Typed
    <2>3. queue' \in Seq(Entry) BY <1>2, <2>1, <2>2, Taken
    <2>4. queue[1] \in Entry BY <1>2, <2>2, Taken
    <2>5. started' \in 1 .. MaxFlight BY <2>1, <2>2
    <2> DEFINE f == [id |-> started', req |-> queue[1].req, data |-> queue[1].data,
                     stage |-> 1, body |-> NoReply]
    <2>6. flights' = flights \cup {f} BY <1>2 DEF Take
    <2>7. f \in Flight /\ f.stage = 1 BY <2>4, <2>5, Stages DEF Flight, Entry
    <2> QED BY <2>1, <2>2, <2>3, <2>5, <2>6, <2>7 DEF Typed, IAnswer
  <1> QED BY <1>1, <1>2

LEMMA ReplyTyped ==
    ASSUME Typed, NEW reply \in Reply, ProcessReply(reply)
    PROVE  /\ queue' \in Seq(Entry) /\ told' \in [Request -> Seq(Reply)]
           /\ dead' \in BOOLEAN
  <1>1. CASE queue = <<>> BY <1>1 DEF Typed, ProcessReply
  <1>2. CASE queue # <<>>
    <2>1. /\ told' = [told EXCEPT ![queue[1].req] = Append(@, reply)]
          /\ queue' = Tail(queue) /\ dead' = dead
      BY <1>2 DEF ProcessReply
    <2>2. queue \in Seq(Entry) /\ told \in [Request -> Seq(Reply)] /\ dead \in BOOLEAN BY DEF Typed
    <2>3. queue' \in Seq(Entry) /\ queue[1] \in Entry BY <1>2, <2>1, <2>2, Popped
    <2>4. queue[1].req \in Request BY <2>3 DEF Entry
    <2>5. Append(told[queue[1].req], reply) \in Seq(Reply) BY <2>2, <2>4
    <2> QED BY <2>1, <2>2, <2>3, <2>4, <2>5
  <1> QED BY <1>1, <1>2

(* One exchange moves on. *)
LEMMA FlightTyped ==
    ASSUME Typed, IAnswer, NEW f \in flights, NEW g \in Flight,
           g.stage = 6 => g.body # NoReply,
           flights' = (flights \ {f}) \cup {g}
    PROVE  flights' \subseteq Flight /\ IAnswer'
  BY DEF Typed, IAnswer

LEMMA ShutdownReply ==
    ASSUME Typed, IAnswer, NEW f \in flights, OnShutdown(f)
    PROVE  [from |-> f.req, as |-> Invoke(f.body), body |-> f.body] \in Reply
  <1>1. f \in Flight BY DEF Typed
  <1>2. f.stage = 6 BY <1>1, Stages DEF OnShutdown, Flight
  <1>3. f.body \in Body /\ f.req \in Request BY <1>1, <1>2 DEF IAnswer, Flight
  <1> QED BY <1>3, Answers DEF Reply

LEMMA TypeStep ==
    ASSUME Typed, IAnswer, Next
    PROVE  Typed' /\ IAnswer'
  <1>1. /\ queue \in Seq(Entry)
        /\ busy \in BOOLEAN /\ failed \in BOOLEAN /\ dead \in BOOLEAN /\ raced \in BOOLEAN
        /\ flights \subseteq Flight /\ started \in 0 .. MaxFlight
        /\ loop \in {"idle", "check", "take"}
        /\ io \in {"idle", "failed", "release", "next", "take"}
        /\ calls \subseteq Request
        /\ told \in [Request -> Seq(Reply)] /\ executed \in [Request -> Nat]
    BY DEF Typed
  <1>2. raced' \in BOOLEAN BY DEF Next
  <1>3. ASSUME NEW r \in Request, Post(r) PROVE Typed' /\ IAnswer'
    <2>1. [req |-> r, data |-> InBody(r)] \in Entry BY DEF Entry, InBody
    <2>2. queue' \in Seq(Entry) BY <1>1, <1>3, <2>1, Appended DEF Post
    <2> QED BY <1>1, <1>2, <1>3, <2>2 DEF Post, Typed, IAnswer
  <1>4. ASSUME NEW r \in Request, SyncPost(r) PROVE Typed' /\ IAnswer'
    <2>1. PICK b \in Body \cup {NoReply} :
            /\ told' = [told EXCEPT ![r] = <<[from |-> r, as |-> SyncResult(b), body |-> b]>>]
            /\ \E n \in IF b = NoReply THEN {0, 1}
                       ELSE IF b \in {"error", "html"} THEN {0} ELSE {1} :
                  executed' = [executed EXCEPT ![r] = n]
      BY <1>4 DEF SyncPost
    <2>2. [from |-> r, as |-> SyncResult(b), body |-> b] \in Reply BY Answers DEF Reply
    <2>3. told' \in [Request -> Seq(Reply)] BY <1>1, <2>1, <2>2
    <2>4. executed' \in [Request -> Nat] BY <1>1, <2>1
    <2> QED BY <1>1, <1>2, <1>4, <2>3, <2>4 DEF SyncPost, Typed, IAnswer
  <1>5. ASSUME LoopCheck PROVE Typed' /\ IAnswer'
    BY <1>1, <1>2, <1>5 DEF LoopCheck, Typed, IAnswer
  <1>6. ASSUME LoopTake PROVE Typed' /\ IAnswer'
    BY <1>1, <1>2, <1>6, TakeTyped DEF LoopTake, Typed
  <1>7. ASSUME NEW f \in flights, Advance(f) PROVE Typed' /\ IAnswer'
    <2> DEFINE g == [f EXCEPT !.stage = @ + 1]
    <2>1. f \in Flight BY <1>1
    <2>2. f.stage \in 1 .. 6 /\ f.stage < 6 /\ (f.stage = 5 => f.body # NoReply)
      BY <1>7, <2>1, Stages DEF Advance, Flight
    <2>3. g \in Flight /\ g.stage = f.stage + 1 /\ g.body = f.body
      BY <2>1, <2>2, Stages DEF Flight
    <2>4. flights' = (flights \ {f}) \cup {g} BY <1>7 DEF Advance
    <2>5. g.stage = 6 => g.body # NoReply BY <2>2, <2>3
    <2> HIDE DEF g
    <2>6. flights' \subseteq Flight /\ IAnswer' BY <2>3, <2>4, <2>5, FlightTyped
    <2> QED BY <1>1, <1>2, <1>7, <2>6 DEF Advance, Typed
  <1>8. ASSUME NEW f \in flights, Fail(f) PROVE Typed' /\ IAnswer'
    BY <1>1, <1>2, <1>8 DEF Fail, Typed, IAnswer
  <1>9. ASSUME ReplyError PROVE Typed' /\ IAnswer'
    <2> DEFINE reply == [from |-> "nobody", as |-> "error", body |-> NoReply]
    <2>1. reply \in Reply BY DEF Reply
    <2>2. ProcessReply(reply) BY <1>9 DEF ReplyError
    <2> HIDE DEF reply
    <2>3. /\ queue' \in Seq(Entry) /\ told' \in [Request -> Seq(Reply)]
          /\ dead' \in BOOLEAN
      BY <2>1, <2>2, ReplyTyped
    <2> QED BY <1>1, <1>2, <1>9, <2>3 DEF ReplyError, Typed, IAnswer
  <1>10. ASSUME NEW f \in flights, SetHostNameFails(f) PROVE Typed' /\ IAnswer'
    BY <1>1, <1>2, <1>10 DEF SetHostNameFails, Typed, IAnswer
  <1>11. ASSUME NEW f \in flights, OnShutdown(f) PROVE Typed' /\ IAnswer'
    <2> DEFINE reply == [from |-> f.req, as |-> Invoke(f.body), body |-> f.body]
    <2>4. reply \in Reply BY <1>11, ShutdownReply
    <2>5. ProcessReply(reply) BY <1>11 DEF OnShutdown
    <2> HIDE DEF reply
    <2>6. /\ queue' \in Seq(Entry) /\ told' \in [Request -> Seq(Reply)]
          /\ dead' \in BOOLEAN
      BY <2>4, <2>5, ReplyTyped
    <2> QED BY <1>1, <1>2, <1>11, <2>6 DEF OnShutdown, Typed, IAnswer
  <1>12. ASSUME Release PROVE Typed' /\ IAnswer'
    BY <1>1, <1>2, <1>12 DEF Release, Typed, IAnswer
  <1>13. ASSUME IoCheck PROVE Typed' /\ IAnswer'
    BY <1>1, <1>2, <1>13 DEF IoCheck, Typed, IAnswer
  <1>14. ASSUME IoTake PROVE Typed' /\ IAnswer'
    BY <1>1, <1>2, <1>14, TakeTyped DEF IoTake, Typed
  <1>15. ASSUME NEW f \in flights, Serve(f) PROVE Typed' /\ IAnswer'
    <2>1. PICK b \in Body :
            /\ flights' = (flights \ {f}) \cup {[f EXCEPT !.body = b]}
            /\ executed' = IF b \in {"error", "html"} THEN executed
                           ELSE [executed EXCEPT ![f.req] = @ + 1]
      BY <1>15 DEF Serve, Body
    <2>2. f \in Flight /\ f.req \in Request BY <1>1 DEF Flight
    <2>3. [f EXCEPT !.body = b] \in Flight /\ [f EXCEPT !.body = b].body # NoReply
      BY <2>2, Answers DEF Flight
    <2>4. flights' \subseteq Flight /\ IAnswer' BY <2>1, <2>3, FlightTyped
    <2>5. executed' \in [Request -> Nat] BY <1>1, <2>1, <2>2
    <2> QED BY <1>1, <1>2, <1>15, <2>4, <2>5 DEF Serve, Typed
  <1> QED BY <1>3, <1>4, <1>5, <1>6, <1>7, <1>8, <1>9, <1>10, <1>11, <1>12, <1>13, <1>14, <1>15
          DEF Next, Handlers

-----------------------------------------------------------------------------
(* A request is in one place. *)

LEMMA PopPlace ==
    ASSUME Typed, IPlace, NEW reply \in Reply, ProcessReply(reply), UNCHANGED <<calls, executed>>
    PROVE  IPlace'
  <1>1. CASE queue = <<>> BY <1>1 DEF IPlace, ProcessReply
  <1>2. CASE queue # <<>>
    <2> DEFINE r == queue[1].req
    <2>1. told' = [told EXCEPT ![r] = Append(@, reply)] /\ queue' = Tail(queue)
      BY <1>2 DEF ProcessReply
    <2>2. queue \in Seq(Entry) /\ told \in [Request -> Seq(Reply)] BY DEF Typed
    <2>3. /\ queue[1] \in Entry /\ 1 \in DOMAIN queue
          /\ \A i \in DOMAIN queue' : /\ i + 1 \in DOMAIN queue /\ i + 1 # 1
                                      /\ queue'[i] = queue[i + 1] /\ i \in Nat
      BY <1>2, <2>1, <2>2, Popped
    <2>4. r \in Request /\ told[r] = <<>> /\ r \notin calls BY <2>3 DEF Entry, IPlace
    <2>5. told'[r] = Append(<<>>, reply) /\ \A q \in Request \ {r} : told'[q] = told[q]
      BY <2>1, <2>2, <2>4
    <2>6. Len(told'[r]) <= 1 BY <2>5
    <2>7. \A i \in DOMAIN queue' : queue'[i].req # r /\ queue'[i].req \in Request
      <3> TAKE i \in DOMAIN queue'
      <3>1. queue'[i].req = queue[i + 1].req /\ queue[i + 1].req # r BY <2>3 DEF IPlace
      <3>2. queue[i + 1] \in Entry BY <2>2, <2>3
      <3> QED BY <3>1, <3>2 DEF Entry
    <2>8. \A i, j \in DOMAIN queue' : queue'[i].req = queue'[j].req => i = j
      <3> TAKE i, j \in DOMAIN queue'
      <3>1. queue'[i].req = queue'[j].req => i + 1 = j + 1 BY <2>3 DEF IPlace
      <3> QED BY <3>1, <2>3
    <2>9. \A i \in DOMAIN queue' : queue'[i].req \notin calls' /\ told'[queue'[i].req] = <<>>
      BY <2>3, <2>5, <2>7 DEF IPlace
    <2>10. \A q \in calls' : told'[q] = <<>> /\ executed'[q] = 0
      BY <2>4, <2>5 DEF IPlace, Typed
    <2>11. \A q \in Request : Len(told'[q]) <= 1 BY <2>5, <2>6 DEF IPlace
    <2> QED BY <2>8, <2>9, <2>10, <2>11 DEF IPlace
  <1> QED BY <1>1, <1>2

LEMMA TakePlace ==
    ASSUME Typed, IPlace, Take, UNCHANGED <<told, calls, executed>>
    PROVE  IPlace'
  <1>1. CASE queue = <<>> BY <1>1 DEF IPlace, Take
  <1>2. CASE queue # <<>>
    <2>1. queue' = [queue EXCEPT ![1].data = FALSE] BY <1>2 DEF Take
    <2>2. DOMAIN queue' = DOMAIN queue /\ \A i \in DOMAIN queue : queue'[i].req = queue[i].req
      BY <1>2, <2>1, Taken DEF Typed
    <2> QED BY <2>2 DEF IPlace
  <1> QED BY <1>1, <1>2

LEMMA PlaceStep ==
    ASSUME Typed, IAnswer, IPlace, IBody, Next
    PROVE  IPlace'
  <1>1. ASSUME NEW r \in Request, Post(r) PROVE IPlace'
    <2> DEFINE e == [req |-> r, data |-> InBody(r)]
    <2>1. /\ r \in calls /\ calls' = calls \ {r} /\ queue' = Append(queue, e)
          /\ told' = told /\ executed' = executed
      BY <1>1 DEF Post
    <2>2. e \in Entry /\ e.req = r BY DEF Entry, InBody
    <2> HIDE DEF e
    <2>3. /\ Len(queue) \in Nat
          /\ DOMAIN queue = 1 .. Len(queue) /\ DOMAIN queue' = 1 .. Len(queue) + 1
          /\ queue'[Len(queue) + 1] = e
          /\ \A i \in 1 .. Len(queue) : queue'[i] = queue[i]
      BY <2>1, <2>2, Appended DEF Typed
    <2>4. \A i \in 1 .. Len(queue) : queue[i].req # r BY <2>1, <2>3 DEF IPlace
    <2>5. \A i \in DOMAIN queue' : i = Len(queue) + 1 \/ i \in 1 .. Len(queue) BY <2>3
    <2>6. \A i, j \in DOMAIN queue' : queue'[i].req = queue'[j].req => i = j
      BY <2>2, <2>3, <2>4, <2>5 DEF IPlace
    <2>7. \A i \in DOMAIN queue' : queue'[i].req \notin calls' /\ told'[queue'[i].req] = <<>>
      BY <2>1, <2>2, <2>3, <2>5 DEF IPlace
    <2> QED BY <2>1, <2>6, <2>7 DEF IPlace
  <1>2. ASSUME NEW r \in Request, SyncPost(r) PROVE IPlace'
    <2>1. /\ r \in calls /\ calls' = calls \ {r} /\ queue' = queue
          /\ \E x \in Reply : told' = [told EXCEPT ![r] = <<x>>]
          /\ \E n \in Nat : executed' = [executed EXCEPT ![r] = n]
      <3>1. PICK b \in Body \cup {NoReply} :
              /\ told' = [told EXCEPT ![r] = <<[from |-> r, as |-> SyncResult(b), body |-> b]>>]
              /\ \E n \in IF b = NoReply THEN {0, 1}
                         ELSE IF b \in {"error", "html"} THEN {0} ELSE {1} :
                    executed' = [executed EXCEPT ![r] = n]
        BY <1>2 DEF SyncPost
      <3>2. [from |-> r, as |-> SyncResult(b), body |-> b] \in Reply BY Answers DEF Reply
      <3> QED BY <1>2, <3>1, <3>2 DEF SyncPost
    <2>2. \A i \in DOMAIN queue : queue[i].req # r /\ queue[i].req \in Request
      BY <2>1, Entries DEF IPlace
    <2>3. /\ \A q \in Request \ {r} : told'[q] = told[q] /\ executed'[q] = executed[q]
          /\ Len(told'[r]) = 1
      BY <2>1 DEF Typed
    <2>4. calls \subseteq Request BY DEF Typed
    <2> QED BY <2>1, <2>2, <2>3, <2>4 DEF IPlace
  <1>3. ASSUME LoopTake PROVE IPlace' BY <1>3, TakePlace DEF LoopTake
  <1>4. ASSUME IoTake PROVE IPlace' BY <1>4, TakePlace DEF IoTake
  <1>5. ASSUME ReplyError PROVE IPlace'
    <2>1. [from |-> "nobody", as |-> "error", body |-> NoReply] \in Reply BY DEF Reply
    <2> QED BY <1>5, <2>1, PopPlace DEF ReplyError
  <1>6. ASSUME NEW f \in flights, OnShutdown(f) PROVE IPlace'
    <2>1. [from |-> f.req, as |-> Invoke(f.body), body |-> f.body] \in Reply
      BY <1>6, ShutdownReply
    <2> QED BY <1>6, <2>1, PopPlace DEF OnShutdown
  <1>7. ASSUME NEW f \in flights, Serve(f) PROVE IPlace'
    <2>1. f.req \in Request /\ f.req \notin calls BY DEF Typed, Flight, IBody
    <2>2. \A r \in Request \ {f.req} : executed'[r] = executed[r]
      BY <1>7, <2>1 DEF Serve, Typed
    <2> QED BY <1>7, <2>1, <2>2 DEF Serve, IPlace, Typed
  <1>8. ASSUME UNCHANGED <<queue, calls, told, executed>> PROVE IPlace'
    BY <1>8 DEF IPlace
  <1> QED BY <1>1, <1>2, <1>3, <1>4, <1>5, <1>6, <1>7, <1>8
          DEF Next, Handlers, LoopCheck, Advance, Fail, SetHostNameFails, Release, IoCheck

-----------------------------------------------------------------------------
(* The body of a request is in one place. *)

LEMMA PopBody ==
    ASSUME Typed, IBody, NEW reply, ProcessReply(reply), flights' \subseteq flights,
           UNCHANGED <<started, calls, executed>>
    PROVE  IBody'
  <1>1. \A i \in DOMAIN queue' : \E j \in DOMAIN queue : queue'[i] = queue[j]
    <2>1. CASE queue = <<>> BY <2>1 DEF ProcessReply
    <2>2. CASE queue # <<>>
      <3>1. queue' = Tail(queue) BY <2>2 DEF ProcessReply
      <3> QED BY <2>2, <3>1, Popped DEF Typed
    <2> QED BY <2>1, <2>2
  <1> QED BY <1>1 DEF IBody, Whole

LEMMA TakeBody ==
    ASSUME Typed, IPlace, IBody, Take, UNCHANGED <<calls, executed>>
    PROVE  IBody'
  <1>1. CASE queue = <<>> BY <1>1 DEF IBody, Whole, Take
  <1>2. CASE queue # <<>>
    <2> DEFINE f == [id |-> started', req |-> queue[1].req, data |-> queue[1].data,
                     stage |-> 1, body |-> NoReply]
    <2>1. /\ queue' = [queue EXCEPT ![1].data = FALSE]
          /\ started' = started + 1 /\ flights' = flights \cup {f}
      BY <1>2 DEF Take
    <2>2. /\ DOMAIN queue' = DOMAIN queue /\ 1 \in DOMAIN queue
          /\ \A i \in DOMAIN queue : /\ queue'[i].req = queue[i].req
                                     /\ queue'[i].data => i # 1 /\ queue[i].data
      BY <1>2, <2>1, Taken DEF Typed
    <2>3. /\ f.id = started' /\ f.req = queue[1].req /\ f.body = NoReply
          /\ f.data = queue[1].data
      OBVIOUS
    <2> HIDE DEF f
    <2>4. \A i \in DOMAIN queue' : Whole(queue'[i]) => executed'[queue'[i].req] = 0
      BY <2>2 DEF IBody, Whole
    <2>5. f.id <= started' /\ f.req \notin calls'
      BY <2>1, <2>2, <2>3 DEF IPlace, Typed
    <2>6. Whole(f) => /\ executed'[f.req] = 0
                      /\ \A g \in flights : ~(g.req = f.req /\ Whole(g))
      <3> SUFFICES ASSUME Whole(f)
                   PROVE  executed'[f.req] = 0 /\ \A g \in flights : ~(g.req = f.req /\ Whole(g))
        OBVIOUS
      <3>1. Whole(queue[1]) /\ queue[1].req = f.req /\ queue[1].data BY <2>3 DEF Whole
      <3>2. executed[f.req] = 0 BY <2>2, <3>1 DEF IBody
      <3>3. \A g \in flights : Whole(g) => g.req # f.req BY <2>2, <3>1 DEF IBody
      <3> QED BY <3>2, <3>3
    <2>7. \A i \in DOMAIN queue' : queue'[i].req = f.req => ~queue'[i].data
      BY <2>2, <2>3 DEF IPlace
    <2>8. \A g \in flights : /\ g.id <= started' /\ g.req \notin calls'
                             /\ g.req = f.req /\ Whole(g) => ~Whole(f)
      <3>1. \A g \in flights : g.id \in Nat BY DEF Typed, Flight
      <3> QED BY <2>1, <2>6, <3>1 DEF IBody, Typed
    <2>9. \A g \in flights' :
            /\ g.id <= started' /\ g.req \notin calls'
            /\ Whole(g) =>
                  /\ g.body = NoReply => executed'[g.req] = 0
                  /\ \A i \in DOMAIN queue' : queue'[i].req = g.req => ~queue'[i].data
                  /\ \A h \in flights' : h.req = g.req /\ Whole(h) => h = g
      <3> TAKE g \in flights'
      <3>1. CASE g = f BY <2>1, <2>5, <2>6, <2>7, <3>1
      <3>2. CASE g \in flights BY <2>1, <2>2, <2>8, <3>2 DEF IBody
      <3> QED BY <2>1, <3>1, <3>2
    <2>10. \A r \in Request : InBody(r) => executed'[r] <= 1 BY DEF IBody
    <2> QED BY <2>4, <2>9, <2>10 DEF IBody, Whole
  <1> QED BY <1>1, <1>2

(* One exchange becomes another of the same request. *)
LEMMA MoveFlight ==
    ASSUME IBody, NEW f \in flights, NEW g,
           g.id = f.id, g.req = f.req, g.data = f.data,
           flights' = (flights \ {f}) \cup {g},
           UNCHANGED <<queue, started, calls>>
    PROVE  \A h \in flights' :
             /\ h.id <= started' /\ h.req \notin calls'
             /\ Whole(h) =>
                   /\ \A i \in DOMAIN queue' : queue'[i].req = h.req => ~queue'[i].data
                   /\ \A k \in flights' : k.req = h.req /\ Whole(k) => k = h
  <1>1. Whole(g) <=> Whole(f) BY DEF Whole
  <1> TAKE h \in flights'
  <1>2. CASE h = g BY <1>1, <1>2 DEF IBody
  <1>3. CASE h \in flights \ {f} BY <1>1, <1>3 DEF IBody
  <1> QED BY <1>2, <1>3

LEMMA MoveBody ==
    ASSUME IBody, NEW f \in flights, NEW g,
           g.id = f.id, g.req = f.req, g.data = f.data, g.body = NoReply => f.body = NoReply,
           flights' = (flights \ {f}) \cup {g},
           UNCHANGED <<queue, started, calls, executed>>
    PROVE  IBody'
  <1>1. Whole(g) <=> Whole(f) BY DEF Whole
  <1>2. \A h \in flights' : Whole(h) => (h.body = NoReply => executed'[h.req] = 0)
    BY <1>1 DEF IBody
  <1> QED BY <1>2, MoveFlight DEF IBody, Whole

LEMMA BodyStep ==
    ASSUME Typed, IPlace, IBody, Next
    PROVE  IBody'
  <1>1. ASSUME NEW r \in Request, Post(r) PROVE IBody'
    <2> DEFINE e == [req |-> r, data |-> InBody(r)]
    <2>1. /\ r \in calls /\ calls' = calls \ {r} /\ queue' = Append(queue, e)
          /\ UNCHANGED <<flights, started, executed>>
      BY <1>1 DEF Post
    <2>2. e \in Entry /\ e.req = r BY DEF Entry, InBody
    <2> HIDE DEF e
    <2>3. \A i \in DOMAIN queue' : queue'[i] = e \/ \E j \in DOMAIN queue : queue'[i] = queue[j]
      <3>1. /\ Len(queue) \in Nat
            /\ DOMAIN queue = 1 .. Len(queue) /\ DOMAIN queue' = 1 .. Len(queue) + 1
            /\ queue'[Len(queue) + 1] = e
            /\ \A i \in 1 .. Len(queue) : queue'[i] = queue[i]
        BY <2>1, <2>2, Appended DEF Typed
      <3>2. \A i \in DOMAIN queue' : i = Len(queue) + 1 \/ i \in 1 .. Len(queue) BY <3>1
      <3> QED BY <3>1, <3>2
    <2>4. executed[r] = 0 /\ \A f \in flights : f.req # r BY <2>1 DEF IPlace, IBody
    <2>5. \A i \in DOMAIN queue' : Whole(queue'[i]) => executed'[queue'[i].req] = 0
      BY <2>1, <2>2, <2>3, <2>4 DEF IBody
    <2>6. \A f \in flights : Whole(f) =>
            \A i \in DOMAIN queue' : queue'[i].req = f.req => ~queue'[i].data
      BY <2>2, <2>3, <2>4 DEF IBody
    <2> QED BY <2>1, <2>5, <2>6 DEF IBody, Whole
  <1>2. ASSUME NEW r \in Request, SyncPost(r) PROVE IBody'
    <2>1. /\ r \in calls /\ calls' = calls \ {r} /\ UNCHANGED <<queue, flights, started>>
          /\ \E n \in {0, 1} : executed' = [executed EXCEPT ![r] = n]
      BY <1>2 DEF SyncPost
    <2>2. \A i \in DOMAIN queue : queue[i].req # r /\ queue[i].req \in Request
      BY <2>1, Entries DEF IPlace
    <2>3. \A f \in flights : f.req # r /\ f.req \in Request
      BY <2>1 DEF IBody, Typed, Flight
    <2>4. /\ \A q \in Request \ {r} : executed'[q] = executed[q]
          /\ executed'[r] \in {0, 1}
      BY <2>1 DEF Typed
    <2>5. \A i \in DOMAIN queue' : Whole(queue'[i]) => executed'[queue'[i].req] = 0
      BY <2>1, <2>2, <2>4 DEF IBody
    <2>6. \A f \in flights : Whole(f) => (f.body = NoReply => executed'[f.req] = 0)
      BY <2>3, <2>4 DEF IBody
    <2>7. \A q \in Request : InBody(q) => executed'[q] <= 1
      BY <2>4 DEF IBody
    <2> QED BY <2>1, <2>5, <2>6, <2>7 DEF IBody, Whole
  <1>3. ASSUME LoopTake PROVE IBody' BY <1>3, TakeBody DEF LoopTake
  <1>4. ASSUME IoTake PROVE IBody' BY <1>4, TakeBody DEF IoTake
  <1>5. ASSUME ReplyError PROVE IBody' BY <1>5, PopBody DEF ReplyError
  <1>6. ASSUME NEW f \in flights, OnShutdown(f) PROVE IBody'
    BY <1>6, PopBody DEF OnShutdown
  <1>7. ASSUME NEW f \in flights, Advance(f) PROVE IBody'
    <2> DEFINE g == [f EXCEPT !.stage = @ + 1]
    <2>1. flights' = (flights \ {f}) \cup {g} /\ UNCHANGED <<queue, started, calls, executed>>
      BY <1>7 DEF Advance
    <2>2. /\ g.id = f.id /\ g.req = f.req /\ g.data = f.data /\ g.body = f.body
      BY DEF Typed, Flight
    <2> HIDE DEF g
    <2> QED BY <2>1, <2>2, MoveBody
  <1>8. ASSUME NEW f \in flights, Serve(f) PROVE IBody'
    <2>1. PICK b \in IF Complete(f) THEN Body ELSE {"error", "html"} :
            /\ flights' = (flights \ {f}) \cup {[f EXCEPT !.body = b]}
            /\ executed' = IF b \in {"error", "html"} THEN executed
                           ELSE [executed EXCEPT ![f.req] = @ + 1]
      BY <1>8 DEF Serve
    <2>2. f.body = NoReply /\ UNCHANGED <<queue, started, calls>> BY <1>8 DEF Serve
    <2> DEFINE g == [f EXCEPT !.body = b]
    <2>3. /\ g.id = f.id /\ g.req = f.req /\ g.data = f.data /\ g.body # NoReply
          /\ f.req \in Request
      BY Answers DEF Typed, Flight, Body
    <2> HIDE DEF g
    <2>4. \/ executed' = executed
          \/ /\ InBody(f.req) => f.data
             /\ executed' = [executed EXCEPT ![f.req] = @ + 1]
      BY <2>1 DEF Complete
    <2>5. flights' = (flights \ {f}) \cup {g} BY <2>1 DEF g
    <2>6. CASE executed' = executed BY <2>2, <2>3, <2>5, <2>6, MoveBody
    <2>7. CASE /\ InBody(f.req) => f.data
               /\ executed' = [executed EXCEPT ![f.req] = @ + 1]
      <3>1. /\ executed'[f.req] = executed[f.req] + 1
            /\ \A r \in Request \ {f.req} : executed'[r] = executed[r]
        BY <2>3, <2>7 DEF Typed
      <3>2. InBody(f.req) => Whole(f) /\ executed[f.req] = 0
        BY <2>2, <2>7 DEF IBody, Whole
      <3>3. \A r \in Request : InBody(r) => executed'[r] <= 1
        BY <3>1, <3>2 DEF IBody
      <3>4. \A i \in DOMAIN queue' : Whole(queue'[i]) => executed'[queue'[i].req] = 0
        <4> SUFFICES ASSUME NEW i \in DOMAIN queue, Whole(queue[i])
                     PROVE  executed'[queue[i].req] = 0
          BY <2>2
        <4>1. queue[i].req # f.req BY <3>2 DEF IBody, Whole
        <4> QED BY <3>1, <4>1, Entries DEF IBody
      <3>5. \A h \in flights \ {f} : Whole(h) => h.req # f.req /\ h.req \in Request
        BY <3>2 DEF IBody, Whole, Typed, Flight
      <3>6. \A h \in flights \ {f} :
              Whole(h) => (h.body = NoReply => executed'[h.req] = 0)
        BY <3>1, <3>5 DEF IBody
      <3> QED BY <2>2, <2>3, <2>5, <3>3, <3>4, <3>6, MoveFlight DEF IBody, Whole
    <2> QED BY <2>4, <2>6, <2>7
  <1>9. ASSUME flights' \subseteq flights, UNCHANGED <<queue, started, calls, executed>>
        PROVE  IBody'
    BY <1>9 DEF IBody, Whole
  <1> QED BY <1>1, <1>2, <1>3, <1>4, <1>5, <1>6, <1>7, <1>8, <1>9
          DEF Next, Handlers, LoopCheck, Fail, SetHostNameFails, Release, IoCheck

-----------------------------------------------------------------------------
(* Whose turn it is: one exchange at a time, for the front request. *)
Turn == ITurn /\ FrontInFlight

LEMMA TakeFront ==
    ASSUME Typed, Take, queue # <<>>, flights = {}
    PROVE  /\ busy' = TRUE /\ dead' = dead /\ queue' # <<>>
           /\ \E f : flights' = {f} /\ queue'[1].req = f.req
  <1> DEFINE f == [id |-> started', req |-> queue[1].req, data |-> queue[1].data,
                   stage |-> 1, body |-> NoReply]
  <1>1. /\ queue' = [queue EXCEPT ![1].data = FALSE] /\ flights' = {f}
        /\ busy' = TRUE /\ dead' = dead
    BY DEF Take
  <1>2. queue' # <<>> /\ queue'[1].req = queue[1].req
    <2>1. queue \in Seq(Entry) BY DEF Typed
    <2>2. 1 \in 1 .. Len(queue) BY <2>1, Taken
    <2> QED BY <1>1, <2>1, <2>2, Taken
  <1>3. f.req = queue[1].req OBVIOUS
  <1> HIDE DEF f
  <1> QED BY <1>1, <1>2, <1>3

LEMMA TurnStep ==
    ASSUME Typed, Turn, Next
    PROVE  Turn'
  <1> SUFFICES ASSUME ~raced' PROVE Turn'
    BY DEF Turn, ITurn, FrontInFlight
  <1>1. /\ ~raced /\ ~dead /\ ~Overlap'
    BY DEF Next
  <1>2. /\ ~(loop' = "take" /\ io' \in {"failed", "take"})
        /\ loop' # "idle" => queue' # <<>>
    BY <1>1 DEF Overlap
  <1>3. /\ loop # "idle" => queue # <<>>
        /\ flights # {} => busy /\ loop # "take" /\ io \in {"idle", "next"}
        /\ loop = "take" => ~busy /\ io \in {"idle", "next"}
        /\ io \in {"failed", "take"} => ~busy /\ queue # <<>>
        /\ io = "release" => busy
        /\ \A f \in flights : flights = {f} /\ queue # <<>> /\ queue[1].req = f.req
    BY <1>1 DEF Turn, ITurn, FrontInFlight
  <1> DEFINE Goal ==
          /\ ~dead'
          /\ flights' # {} => busy' /\ loop' # "take" /\ io' \in {"idle", "next"}
          /\ loop' = "take" => ~busy' /\ io' \in {"idle", "next"}
          /\ io' \in {"failed", "take"} => ~busy' /\ queue' # <<>>
          /\ io' = "release" => busy'
          /\ \A f \in flights' : flights' = {f} /\ queue' # <<>> /\ queue'[1].req = f.req
  <1>4. SUFFICES Goal BY <1>2 DEF Turn, ITurn, FrontInFlight
  <1>5. loop \in {"idle", "check", "take"} /\ io \in {"idle", "failed", "release", "next", "take"}
    BY DEF Typed
  <1>6. ASSUME NEW r \in Request, Post(r) PROVE Goal
    <2> DEFINE e == [req |-> r, data |-> InBody(r)]
    <2>1. e \in Entry BY DEF Entry, InBody
    <2>2. queue' = Append(queue, e) /\ loop' = "check" /\ UNCHANGED <<busy, flights, io, dead>>
      BY <1>6 DEF Post
    <2> HIDE DEF e
    <2>3. queue' # <<>> /\ (queue # <<>> => queue'[1] = queue[1])
      <3>1. /\ Len(queue) \in Nat /\ (Len(queue) = 0 => queue = <<>>) /\ queue' # <<>>
            /\ \A k \in 1 .. Len(queue) : queue'[k] = queue[k]
        BY <2>1, <2>2, Appended DEF Typed
      <3> QED BY <3>1
    <2> QED BY <1>1, <1>3, <2>2, <2>3
  <1>7. ASSUME NEW r \in Request, SyncPost(r) PROVE Goal
    BY <1>1, <1>3, <1>7 DEF SyncPost
  <1>8. ASSUME LoopCheck PROVE Goal
    BY <1>1, <1>2, <1>3, <1>5, <1>8 DEF LoopCheck
  <1>9. ASSUME LoopTake PROVE Goal
    <2>1. loop = "take" /\ loop' = "idle" /\ io' = io /\ Take BY <1>9 DEF LoopTake
    <2>2. queue # <<>> /\ flights = {} /\ io \in {"idle", "next"} BY <1>3, <2>1
    <2> QED BY <1>1, <2>1, <2>2, TakeFront
  <1>10. ASSUME IoTake PROVE Goal
    <2>1. io = "take" /\ io' = "idle" /\ loop' = loop /\ Take BY <1>10 DEF IoTake
    <2>2. queue # <<>> /\ flights = {} /\ loop # "take" BY <1>3, <2>1
    <2> QED BY <1>1, <2>1, <2>2, TakeFront
  <1>11. ASSUME NEW f \in flights, Advance(f) PROVE Goal
    <2> DEFINE g == [f EXCEPT !.stage = @ + 1]
    <2>1. flights' = (flights \ {f}) \cup {g} /\ UNCHANGED <<queue, busy, loop, io, dead>>
      BY <1>11 DEF Advance
    <2>2. g.req = f.req BY DEF Typed, Flight
    <2> HIDE DEF g
    <2>3. flights = {f} /\ flights' = {g} BY <1>3, <2>1
    <2> QED BY <1>1, <1>3, <2>1, <2>2, <2>3
  <1>12. ASSUME NEW f \in flights, Fail(f) PROVE Goal
    <2>1. /\ flights' = flights \ {f} /\ ~busy' /\ io' = "failed"
          /\ UNCHANGED <<queue, loop, dead>>
      BY <1>12 DEF Fail
    <2>2. flights' = {} /\ queue # <<>> BY <1>3, <2>1
    <2> QED BY <1>1, <1>2, <2>1, <2>2
  <1>13. ASSUME ReplyError PROVE Goal
    <2>1. io = "failed" /\ io' = "idle" /\ UNCHANGED <<busy, flights, loop>> BY <1>13 DEF ReplyError
    <2>2. queue # <<>> /\ flights = {} /\ ~busy BY <1>3, <2>1
    <2>3. dead' = dead BY <1>13, <2>2 DEF ReplyError, ProcessReply
    <2> QED BY <1>1, <2>1, <2>2, <2>3
  <1>14. ASSUME NEW f \in flights, SetHostNameFails(f) PROVE Goal
    <2>1. flights' = flights \ {f} /\ UNCHANGED <<queue, busy, loop, io, dead>>
      BY <1>14 DEF SetHostNameFails
    <2>2. flights' = {} BY <1>3, <2>1
    <2> QED BY <1>1, <1>3, <2>1, <2>2
  <1>15. ASSUME NEW f \in flights, OnShutdown(f) PROVE Goal
    <2>1. flights' = flights \ {f} /\ io' = "release" /\ UNCHANGED <<busy, loop>>
      BY <1>15 DEF OnShutdown
    <2>2. flights' = {} /\ queue # <<>> /\ busy /\ loop # "take" BY <1>3, <2>1
    <2>3. dead' = dead BY <1>15, <2>2 DEF OnShutdown, ProcessReply
    <2> QED BY <1>1, <2>1, <2>2, <2>3
  <1>16. ASSUME Release PROVE Goal
    BY <1>1, <1>3, <1>16 DEF Release
  <1>17. ASSUME IoCheck PROVE Goal
    BY <1>1, <1>2, <1>3, <1>5, <1>17 DEF IoCheck
  <1>18. ASSUME NEW f \in flights, Serve(f) PROVE Goal
    <2>1. PICK b \in Body \cup {NoReply} : flights' = (flights \ {f}) \cup {[f EXCEPT !.body = b]}
      BY <1>18 DEF Serve, Body
    <2> DEFINE g == [f EXCEPT !.body = b]
    <2>2. g.req = f.req BY DEF Typed, Flight
    <2> HIDE DEF g
    <2>3. flights = {f} /\ flights' = {g} BY <1>3, <2>1 DEF g
    <2>4. UNCHANGED <<queue, busy, loop, io, dead>> BY <1>18 DEF Serve
    <2> QED BY <1>1, <1>3, <2>2, <2>3, <2>4
  <1> QED BY <1>6, <1>7, <1>8, <1>9, <1>10, <1>11, <1>12, <1>13, <1>14, <1>15, <1>16, <1>17, <1>18
          DEF Next, Handlers

(* A callback gets the answer to its own request, as the exchange is for   *)
(* the request that is popped.                                             *)
LEMMA PopMatched ==
    ASSUME Typed, IPlace, NEW reply \in Reply, ProcessReply(reply), queue # <<>>,
           reply.from \in {queue[1].req, "nobody"},
           \A r \in Request : \A i \in DOMAIN told[r] : told[r][i].from \in {r, "nobody"}
    PROVE  \A r \in Request : \A i \in DOMAIN told'[r] : told'[r][i].from \in {r, "nobody"}
  <1>1. told' = [told EXCEPT ![queue[1].req] = Append(@, reply)]
    BY DEF ProcessReply
  <1>2. 1 \in DOMAIN queue BY Popped DEF Typed
  <1>3. queue[1].req \in Request /\ told[queue[1].req] = <<>> BY <1>2, Entries DEF IPlace
  <1>4. told'[queue[1].req] = <<reply>> BY <1>1, <1>3 DEF Typed
  <1>5. \A r \in Request \ {queue[1].req} : told'[r] = told[r] BY <1>1 DEF Typed
  <1> QED BY <1>4, <1>5

LEMMA MatchedStep ==
    ASSUME Typed, IAnswer, IPlace, Turn, Turn', Matched, Next
    PROVE  Matched'
  <1> SUFFICES ASSUME ~raced' PROVE Matched'
    BY DEF Matched
  <1>1. ~raced /\ ~dead' BY DEF Next, Turn, ITurn
  <1>2. \A r \in Request : \A i \in DOMAIN told[r] : told[r][i].from \in {r, "nobody"}
    BY <1>1 DEF Matched
  <1> DEFINE Goal == \A r \in Request : \A i \in DOMAIN told'[r] : told'[r][i].from \in {r, "nobody"}
  <1>3. SUFFICES Goal BY <1>1 DEF Matched
  <1>4. ASSUME NEW r \in Request, SyncPost(r) PROVE Goal
    <2>1. PICK b : told' = [told EXCEPT ![r] = <<[from |-> r, as |-> SyncResult(b), body |-> b]>>]
      BY <1>4 DEF SyncPost
    <2> DEFINE x == [from |-> r, as |-> SyncResult(b), body |-> b]
    <2>2. x.from = r /\ told' = [told EXCEPT ![r] = <<x>>] BY <2>1
    <2> HIDE DEF x
    <2>3. told'[r] = <<x>> /\ \A q \in Request \ {r} : told'[q] = told[q]
      BY <2>2 DEF Typed
    <2> QED BY <1>2, <2>2, <2>3
  <1>5. ASSUME ReplyError PROVE Goal
    <2> DEFINE reply == [from |-> "nobody", as |-> "error", body |-> NoReply]
    <2>1. reply \in Reply /\ reply.from = "nobody" BY DEF Reply
    <2>2. ProcessReply(reply) BY <1>5 DEF ReplyError
    <2> HIDE DEF reply
    <2>3. queue # <<>> BY <1>1, <1>5 DEF ReplyError, Turn, ITurn
    <2> QED BY <1>2, <2>1, <2>2, <2>3, PopMatched
  <1>6. ASSUME NEW f \in flights, OnShutdown(f) PROVE Goal
    <2> DEFINE reply == [from |-> f.req, as |-> Invoke(f.body), body |-> f.body]
    <2>1. reply \in Reply /\ reply.from = f.req BY <1>6, ShutdownReply
    <2>2. ProcessReply(reply) BY <1>6 DEF OnShutdown
    <2> HIDE DEF reply
    <2>3. queue # <<>> /\ queue[1].req = f.req BY <1>1 DEF Turn, FrontInFlight
    <2> QED BY <1>2, <2>1, <2>2, <2>3, PopMatched
  <1>7. CASE told' = told BY <1>2, <1>7
  <1> QED BY <1>4, <1>5, <1>6, <1>7
          DEF Next, Handlers, Post, LoopCheck, LoopTake, Advance, Fail, SetHostNameFails,
              Release, IoCheck, IoTake, Serve

-----------------------------------------------------------------------------
(* Somebody goes on with the queue. *)

LEMMA AwakeStep ==
    ASSUME Typed, IAwake, Next
    PROVE  IAwake'
  <1>1. ASSUME NEW r \in Request, Post(r) \/ SyncPost(r) PROVE IAwake'
    BY <1>1 DEF Post, SyncPost, IAwake
  <1>2. ASSUME LoopCheck PROVE IAwake'
    BY <1>2 DEF LoopCheck, IAwake
  <1>3. ASSUME LoopTake PROVE IAwake'
    BY <1>3 DEF LoopTake, Take, IAwake
  <1>4. ASSUME IoTake PROVE IAwake'
    BY <1>4 DEF IoTake, Take, IAwake
  <1>5. ASSUME NEW f \in flights, Advance(f) \/ Serve(f) PROVE IAwake'
    BY <1>5 DEF Advance, Serve, IAwake
  <1>6. ASSUME NEW f \in flights, Fail(f) \/ SetHostNameFails(f) PROVE IAwake'
    BY <1>6 DEF Fail, SetHostNameFails, IAwake
  <1>7. ASSUME ReplyError PROVE IAwake'
    BY <1>7 DEF ReplyError, IAwake
  <1>8. ASSUME NEW f \in flights, OnShutdown(f) PROVE IAwake'
    BY <1>8 DEF OnShutdown, IAwake
  <1>9. ASSUME Release PROVE IAwake'
    BY <1>9 DEF Release, IAwake
  <1>10. ASSUME IoCheck PROVE IAwake'
    BY <1>10 DEF IoCheck, IAwake
  <1> QED BY <1>1, <1>2, <1>3, <1>4, <1>5, <1>6, <1>7, <1>8, <1>9, <1>10 DEF Next, Handlers

-----------------------------------------------------------------------------
LEMMA RInvInit == Init => RInv
  <1> SUFFICES ASSUME Init PROVE RInv OBVIOUS
  <1>1. Typed
    <2>1. <<>> \in Seq(Entry) /\ <<>> \in Seq(Reply) /\ 0 \in 0 .. MaxFlight
      BY RestAssumption
    <2>2. /\ queue = <<>> /\ busy = FALSE /\ flights = {} /\ started = 0
          /\ loop = "idle" /\ io = "idle" /\ calls = Request
          /\ told = [r \in Request |-> <<>>] /\ executed = [r \in Request |-> 0]
          /\ failed = FALSE /\ dead = FALSE /\ raced = FALSE
      BY DEF Init
    <2>3. told \in [Request -> Seq(Reply)] /\ executed \in [Request -> Nat]
      BY <2>1, <2>2
    <2> QED BY <2>1, <2>2, <2>3 DEF Typed
  <1>2. TypeOK BY <1>1, TypeForm
  <1>3. queue = <<>> /\ DOMAIN queue = {} /\ flights = {} BY DEF Init
  <1>4. \A r \in Request : told[r] = <<>> /\ executed[r] = 0 BY DEF Init
  <1>5. IPlace /\ IBody BY <1>3, <1>4 DEF Init, IPlace, IBody
  <1>6. Matched BY <1>4 DEF Init, Matched
  <1> QED BY <1>2, <1>3, <1>5, <1>6 DEF Init, RInv, IAnswer, ITurn, FrontInFlight, IAwake

LEMMA RInvNext == RInv /\ [Next]_vars => RInv'
  <1> SUFFICES ASSUME RInv, [Next]_vars PROVE RInv' OBVIOUS
  <1>1. CASE Next
    <2>1. Typed /\ IAnswer /\ IPlace /\ IBody /\ Turn /\ Matched /\ IAwake
      BY TypeForm DEF RInv, Turn
    <2>2. Typed' /\ IAnswer' BY <1>1, <2>1, TypeStep
    <2>3. TypeOK' BY <2>2 DEF TypeOK, Typed, Entry, Flight, Reply
    <2>4. IPlace' /\ IBody' BY <1>1, <2>1, PlaceStep, BodyStep
    <2>5. Turn' BY <1>1, <2>1, TurnStep
    <2>6. Matched' /\ IAwake' BY <1>1, <2>1, <2>5, MatchedStep, AwakeStep
    <2> QED BY <2>2, <2>3, <2>4, <2>5, <2>6 DEF RInv, Turn
  <1>2. CASE UNCHANGED vars
    BY <1>2 DEF RInv, vars, TypeOK, IAnswer, IPlace, IBody, Whole, ITurn, FrontInFlight,
                Matched, IAwake
  <1> QED BY <1>1, <1>2

(* The inductive invariant of the client: where every request, its body    *)
(* and its answer are, whose turn it is while the threads do not overlap,  *)
(* and who goes on with the queue (async_post, process_reply).             *)
THEOREM RestInvariance == Spec => []RInv
  BY RInvInit, RInvNext, PTL DEF Spec

(* The answer that comes next is to the front of the queue and goes to its *)
(* callback, unless the threads overlap, and nothing waits in an idle      *)
(* client but behind a failure: whatever is called, answered and fails.    *)
THEOREM QueueInStep == Spec => []InStep
  <1>1. RInv => InStep
    BY DEF RInv, InStep, IAwake, StallsBehindFailure, Idle
  <1> QED BY <1>1, RestInvariance, PTL

(* No callback is called twice and no request with a body is executed      *)
(* twice, even if the threads overlap: async_post moves the body out of    *)
(* the queue, process_reply pops what it answers.                          *)
THEOREM NothingTwice == Spec => []AtMostOnce
  <1>1. RInv => AtMostOnce
    BY DEF RInv, AtMostOnce, IPlace, IBody
  <1> QED BY <1>1, RestInvariance, PTL

-----------------------------------------------------------------------------
(* Wire: the messages of the exchange.                                     *)

Sorts == {"num", "int", "bool", "str", "dec", "list"}

(* The names of the members are no tokens of their own, their sorts known. *)
Named(t) == \A m \in DOMAIN t : m \notin Wrong /\ t[m] \in Sorts

Fits(codec) ==
    /\ Named(codec.members)
    /\ DOMAIN codec.reads \subseteq DOMAIN codec.members
    /\ \A m, n \in DOMAIN codec.reads : codec.reads[m] = codec.reads[n] => m = n
    /\ \A m \in codec.array : m \in DOMAIN codec.members /\ codec.members[m] = "list"

PrintsAsRead(codec) ==
    /\ \A m \in DOMAIN codec.reads :
          m \in DOMAIN codec.prints /\ codec.prints[m] = codec.reads[m]
    /\ \A m, n \in DOMAIN codec.prints : codec.prints[m] = codec.prints[n] => m = n

LEMMA NamedJoin ==
    ASSUME NEW f, NEW g, Named(f), Named(g) PROVE Named(f ++ g)
BY DEF Named, ++

LEMMA NamedSorts ==
    ASSUME NEW S, \A s \in S : s \notin Wrong
    PROVE  /\ Named(Num(S)) /\ Named(Signed(S)) /\ Named(Bool(S))
           /\ Named(Str(S)) /\ Named(Dec(S)) /\ Named(List(S))
BY DEF Named, Num, Signed, Bool, Str, Dec, List, Sorts

LEMMA PlainFits ==
    ASSUME NEW t, Named(t)
    PROVE  Fits(Plain(t)) /\ PrintsAsRead(Plain(t))
BY DEF Fits, PrintsAsRead, Plain, Codec, Own

LEMMA ArrayFits ==
    ASSUME NEW m, m \notin Wrong
    PROVE  /\ Fits(Array(m)) /\ PrintsAsRead(Array(m))
           /\ Fits(Checked(m)) /\ PrintsAsRead(Checked(m))
BY DEF Fits, PrintsAsRead, Checked, Array, Codec, Itself, List, Named, Sorts

LEMMA NamedTypes1 ==
    /\ Named(leverage_info_t)
    /\ Named(avg_price_t)
    /\ Named(server_time_t)
    /\ Named(price_t)
    /\ Named(ticker_24hrs_t)
    /\ Named(balance_t)
    /\ Named(account_info_t)
    /\ Named(rate_limit_t)
    /\ Named(symbol_t)
BY NamedJoin, NamedSorts DEF leverage_info_t, avg_price_t, server_time_t,
   price_t, ticker_24hrs_t, balance_t, account_info_t, rate_limit_t,
   symbol_t, Wrong

LEMMA NamedTypes2 ==
    /\ Named(exchange_info_t)
    /\ Named(depths_t)
    /\ Named(trade_t)
    /\ Named(agg_trade_t)
    /\ Named(kline_t)
    /\ Named(order_info_t)
    /\ Named(new_order_info_ack_t)
    /\ Named(new_order_info_result_t)
    /\ Named(new_order_info_full_t)
BY NamedJoin, NamedSorts DEF exchange_info_t, depths_t, trade_t,
   agg_trade_t, kline_t, order_info_t, new_order_info_ack_t,
   new_order_info_result_t, new_order_info_full_t, Wrong

LEMMA NamedTypes3 ==
    /\ Named(fill_part)
    /\ Named(cancel_order_info_t)
    /\ Named(my_trade_info_t)
    /\ Named(start_user_data_stream_t)
    /\ Named(future_new_order_resp_t)
    /\ Named(ws_agg_trade_t)
    /\ Named(ws_trade_t)
    /\ Named(part_depths_t)
    /\ Named(mark_price_t)
BY NamedJoin, NamedSorts DEF fill_part, cancel_order_info_t,
   my_trade_info_t, start_user_data_stream_t, future_new_order_resp_t,
   ws_agg_trade_t, ws_trade_t, part_depths_t, mark_price_t, Wrong

LEMMA NamedTypes4 ==
    /\ Named(diff_depths_t)
    /\ Named(ws_kline_t)
    /\ Named(mini_ticker_t)
    /\ Named(market_ticker_t)
    /\ Named(book_ticker_t)
    /\ Named(update_balance_t)
    /\ Named(account_update_t)
    /\ Named(balance_update_t)
    /\ Named(order_update_t)
BY NamedJoin, NamedSorts DEF diff_depths_t, ws_kline_t, mini_ticker_t,
   market_ticker_t, book_ticker_t, update_balance_t, account_update_t,
   balance_update_t, order_update_t, Wrong

LEMMA NamedTypes5 ==
    /\ Named(future_order_update_t)
    /\ Named(future_order_t)
BY NamedJoin, NamedSorts DEF future_order_update_t, future_order_t, Wrong

LEMMA NamedFilters ==
    ASSUME NEW f \in DOMAIN Filters PROVE Named(Filters[f])
BY NamedJoin, NamedSorts DEF Filters, Wrong

(* Variants of a plain codec. *)
LEMMA PlainVariants ==
    ASSUME NEW t, Named(t), NEW A, NEW J, NEW S, S \subseteq DOMAIN t
    PROVE  /\ Fits([Plain(t) EXCEPT !.json = J])
           /\ PrintsAsRead([Plain(t) EXCEPT !.json = J])
           /\ Fits([Plain(t) EXCEPT !.reads = Own(S)])
           /\ PrintsAsRead([Plain(t) EXCEPT !.reads = Own(S)])
           /\ Fits([Plain(t) EXCEPT !.reads = Own(S), !.json = J])
           /\ (\A m \in A : m \in DOMAIN t /\ t[m] = "list") =>
                 /\ Fits([Plain(t) EXCEPT !.array = A])
                 /\ PrintsAsRead([Plain(t) EXCEPT !.array = A])
                 /\ Fits([Plain(t) EXCEPT !.array = A, !.json = J])
                 /\ PrintsAsRead([Plain(t) EXCEPT !.array = A, !.json = J])
BY DEF Fits, PrintsAsRead, Plain, Codec, Own

LEMMA ArrayVariants ==
    ASSUME NEW m, m \notin Wrong, NEW J
    PROVE  /\ Fits([Array(m) EXCEPT !.json = J])
           /\ PrintsAsRead([Array(m) EXCEPT !.json = J])
           /\ Fits([Checked(m) EXCEPT !.json = J])
           /\ PrintsAsRead([Checked(m) EXCEPT !.json = J])
BY DEF Fits, PrintsAsRead, Checked, Array, Codec, Itself, List, Named, Sorts

LEMMA CodecFits ==
    ASSUME NEW t, Named(t), NEW r, NEW s, DOMAIN r \subseteq DOMAIN t,
           \A m, n \in DOMAIN r : r[m] = r[n] => m = n
    PROVE  Fits(Codec(t, r, s)) /\ Fits(Silent(t, r))
BY DEF Fits, Codec, Silent

LEMMA ListsOf ==
    /\ \A m \in {"balances"} :
          m \in DOMAIN account_info_t /\ account_info_t[m] = "list"
    /\ \A m \in {"orderTypes", "filters"} :
          m \in DOMAIN symbol_t /\ symbol_t[m] = "list"
    /\ \A m \in {"exchangeFilters", "rateLimits", "symbols"} :
          m \in DOMAIN exchange_info_t /\ exchange_info_t[m] = "list"
    /\ \A m \in {"bids", "asks"} : m \in DOMAIN depths_t /\ depths_t[m] = "list"
BY DEF account_info_t, symbol_t, exchange_info_t, depths_t, ++, Num, Bool,
       Str, List

LEMMA AggTradeFits == Fits(agg_trade_io)
<1>1. DOMAIN agg_trade_keys = DOMAIN agg_trade_t
  BY DEF agg_trade_keys, agg_trade_t, ++, Num, Bool, Dec
<1>2. \A m, n \in DOMAIN agg_trade_keys :
         agg_trade_keys[m] = agg_trade_keys[n] => m = n
  BY DEF agg_trade_keys
<1>. QED
  BY <1>1, <1>2, NamedTypes2, CodecFits DEF agg_trade_io

LEMMA KlineFits == Fits(kline_io) /\ PrintsAsRead(kline_io)
<1>1. DOMAIN kline_cells \subseteq DOMAIN kline_t
  BY DEF kline_cells, kline_t, ++, Num, Dec
<1>2. \A m, n \in DOMAIN kline_cells : kline_cells[m] = kline_cells[n] => m = n
  BY DEF kline_cells
<1>. QED
  BY <1>1, <1>2, NamedTypes2 DEF kline_io, Codec, Fits, PrintsAsRead

LEMMA PartDepthsFits == Fits(part_depths_io)
<1>. DEFINE sides == [a |-> <<"asks">>, b |-> <<"bids">>]
            r == Own({"E", "T"}) ++ sides
<1>1. DOMAIN r \subseteq DOMAIN part_depths_t
  BY DEF part_depths_t, ++, Num, List, Own
<1>2. \A m, n \in DOMAIN r : r[m] = r[n] => m = n
  BY DEF ++, Own
<1>. HIDE DEF r
<1>3. Fits([Codec(part_depths_t, r, sides) EXCEPT !.bare = {"a"}])
  BY <1>1, <1>2, NamedTypes3 DEF Fits, Codec
<1>. QED
  BY <1>3 DEF part_depths_io, r

LEMMA WsKlineFits == Fits(ws_kline_io)
<1>. DEFINE K == DOMAIN ws_kline_t \ {"E", "s"}
            r == Own({"E", "s"}) ++ Under("k", K)
<1>1. {"E", "s"} \subseteq DOMAIN ws_kline_t
  BY DEF ws_kline_t, ++, Num, Bool, Str, Dec
<1>2. DOMAIN r = DOMAIN ws_kline_t
  BY <1>1 DEF ++, Own, Under
<1>3. \A m, n \in DOMAIN r : r[m] = r[n] => m = n
  BY DEF ++, Own, Under
<1>. HIDE DEF r
<1>4. Fits(Codec(ws_kline_t, r, Own(DOMAIN ws_kline_t)))
  BY <1>2, <1>3, NamedTypes4, CodecFits
<1>. QED
  BY <1>4 DEF ws_kline_io, r, K

LEMMA SilentFit ==
    Fits(future_new_order_resp_io) /\ Fits(future_order_update_io)
    /\ Fits(future_order_io)
<1>1. ASSUME NEW t, Named(t), NEW S, S \subseteq DOMAIN t, NEW k
      PROVE  Fits(Silent(t, Own(S))) /\ Fits(Silent(t, Under(k, S)))
  <2>1. DOMAIN Own(S) = S /\ DOMAIN Under(k, S) = S
    BY DEF Own, Under
  <2>2. \A m, n \in S : Own(S)[m] = Own(S)[n] => m = n
    BY DEF Own
  <2>3. \A m, n \in S : Under(k, S)[m] = Under(k, S)[n] => m = n
    BY DEF Under
  <2>. QED
    BY <1>1, <2>1, <2>2, <2>3, CodecFits
<1>. QED
  BY <1>1, NamedTypes1, NamedTypes2, NamedTypes3, NamedTypes4, NamedTypes5
     DEF future_new_order_resp_io, future_order_update_io, future_order_io

LEMMA OrderUpdateFits == Fits(order_update_io) /\ PrintsAsRead(order_update_io)
<1>. DEFINE S == DOMAIN order_update_t \ {"Y", "Q", "W", "V"}
<1>1. Fits(Codec(order_update_t, Own(S), Own(S)))
      /\ PrintsAsRead(Codec(order_update_t, Own(S), Own(S)))
  BY NamedTypes4 DEF Fits, PrintsAsRead, Codec, Own
<1>. QED
  BY <1>1 DEF order_update_io

LEMMA CodecsFit1 ==
    /\ Fits(leverage_info_io) /\ PrintsAsRead(leverage_info_io)
    /\ Fits(future_new_order_resp_io)
    /\ Fits(server_time_io) /\ PrintsAsRead(server_time_io)
    /\ Fits(avg_price_io) /\ PrintsAsRead(avg_price_io)
    /\ Fits(price_io) /\ PrintsAsRead(price_io)
    /\ Fits(prices_io) /\ PrintsAsRead(prices_io)
    /\ Fits(ticker_24hrs_io) /\ PrintsAsRead(ticker_24hrs_io)
    /\ Fits(tickers_24hrs_io) /\ PrintsAsRead(tickers_24hrs_io)
    /\ Fits(account_info_io) /\ PrintsAsRead(account_info_io)
BY PlainFits, ArrayFits, PlainVariants, ArrayVariants, ListsOf, NamedTypes1,
   NamedTypes2, NamedTypes3, NamedTypes4, NamedTypes5, SilentFit DEF
   leverage_info_io, server_time_io, avg_price_io, price_io, prices_io,
   ticker_24hrs_io, tickers_24hrs_io, account_info_io, Wrong

LEMMA CodecsFit2 ==
    /\ Fits(balance_io) /\ PrintsAsRead(balance_io)
    /\ Fits(rate_limit_io) /\ PrintsAsRead(rate_limit_io)
    /\ Fits(symbol_io) /\ PrintsAsRead(symbol_io)
    /\ Fits(exchange_info_io) /\ PrintsAsRead(exchange_info_io)
    /\ Fits(depths_io) /\ PrintsAsRead(depths_io)
    /\ Fits(trade_io) /\ PrintsAsRead(trade_io)
    /\ Fits(trades_io) /\ PrintsAsRead(trades_io)
    /\ Fits(agg_trade_io)
    /\ Fits(agg_trades_io) /\ PrintsAsRead(agg_trades_io)
BY PlainFits, ArrayFits, PlainVariants, ArrayVariants, ListsOf, NamedTypes1,
   NamedTypes2, NamedTypes3, NamedTypes4, NamedTypes5, AggTradeFits DEF
   balance_io, rate_limit_io, symbol_io, exchange_info_io, depths_io,
   trade_io, trades_io, agg_trades_io, Wrong

LEMMA CodecsFit3 ==
    /\ Fits(kline_io) /\ PrintsAsRead(kline_io)
    /\ Fits(klines_io) /\ PrintsAsRead(klines_io)
    /\ Fits(order_info_io) /\ PrintsAsRead(order_info_io)
    /\ Fits(orders_info_io) /\ PrintsAsRead(orders_info_io)
    /\ Fits(fill_part_io) /\ PrintsAsRead(fill_part_io)
    /\ Fits(cancel_order_info_io)
    /\ Fits(my_trade_info_io) /\ PrintsAsRead(my_trade_info_io)
    /\ Fits(my_trades_info_io) /\ PrintsAsRead(my_trades_info_io)
    /\ Fits(start_user_data_stream_io) /\ PrintsAsRead(start_user_data_stream_io)
BY PlainFits, ArrayFits, PlainVariants, ArrayVariants, ListsOf, NamedTypes1,
   NamedTypes2, NamedTypes3, NamedTypes4, NamedTypes5, KlineFits DEF
   klines_io, order_info_io, orders_info_io, fill_part_io,
   cancel_order_info_io, my_trade_info_io, my_trades_info_io,
   start_user_data_stream_io, Wrong

LEMMA CodecsFit4 ==
    /\ Fits(ws_agg_trade_io) /\ PrintsAsRead(ws_agg_trade_io)
    /\ Fits(ws_trade_io) /\ PrintsAsRead(ws_trade_io)
    /\ Fits(part_depths_io)
    /\ Fits(mark_price_io) /\ PrintsAsRead(mark_price_io)
    /\ Fits(diff_depths_io) /\ PrintsAsRead(diff_depths_io)
    /\ Fits(ws_kline_io)
    /\ Fits(mini_ticker_io) /\ PrintsAsRead(mini_ticker_io)
    /\ Fits(mini_tickers_io) /\ PrintsAsRead(mini_tickers_io)
    /\ Fits(market_ticker_io) /\ PrintsAsRead(market_ticker_io)
BY PlainFits, ArrayFits, PlainVariants, ArrayVariants, ListsOf, NamedTypes1,
   NamedTypes2, NamedTypes3, NamedTypes4, NamedTypes5, PartDepthsFits,
   WsKlineFits DEF ws_agg_trade_io, ws_trade_io, mark_price_io,
   diff_depths_io, mini_ticker_io, mini_tickers_io, market_ticker_io, Wrong

LEMMA CodecsFit5 ==
    /\ Fits(markets_tickers_io) /\ PrintsAsRead(markets_tickers_io)
    /\ Fits(book_ticker_io) /\ PrintsAsRead(book_ticker_io)
    /\ Fits(account_update_io) /\ PrintsAsRead(account_update_io)
    /\ Fits(update_balance_io) /\ PrintsAsRead(update_balance_io)
    /\ Fits(balance_update_io) /\ PrintsAsRead(balance_update_io)
    /\ Fits(order_update_io) /\ PrintsAsRead(order_update_io)
    /\ Fits(future_order_update_io)
    /\ Fits(future_order_io)
BY PlainFits, ArrayFits, PlainVariants, ArrayVariants, ListsOf, NamedTypes1,
   NamedTypes2, NamedTypes3, NamedTypes4, NamedTypes5, OrderUpdateFits,
   SilentFit DEF markets_tickers_io, book_ticker_io, account_update_io,
   update_balance_io, balance_update_io, Wrong

LEMMA ResponcesFit ==
    ASSUME NEW t \in DOMAIN Responce
    PROVE  /\ Fits(Responce[t]) /\ PrintsAsRead(Responce[t])
           /\ \E T : Named(T) /\ Responce[t] = Plain(T)
                     /\ "orderId" \in DOMAIN T /\ T["orderId"] = "num"
<1>1. "orderId" \in DOMAIN new_order_info_full_t
      /\ new_order_info_full_t["orderId"] = "num"
  BY DEF new_order_info_full_t, ++, Num, Str, Dec, List
<1>2. "orderId" \in DOMAIN new_order_info_result_t
      /\ new_order_info_result_t["orderId"] = "num"
  BY DEF new_order_info_result_t, ++, Num, Str, Dec, List
<1>3. "orderId" \in DOMAIN new_order_info_ack_t
      /\ new_order_info_ack_t["orderId"] = "num"
  BY DEF new_order_info_ack_t, ++, Num, Str, Dec, List
<1>4. Responce[t] \in {Plain(new_order_info_full_t),
                       Plain(new_order_info_result_t),
                       Plain(new_order_info_ack_t)}
  BY DEF Responce, new_order_info_full_io, new_order_info_result_io,
         new_order_info_ack_io
<1>. QED
  BY <1>1, <1>2, <1>3, <1>4, PlainFits, NamedTypes2, NamedTypes3

LEMMA FiltersFit ==
    ASSUME NEW f \in DOMAIN Filters
    PROVE  Fits(filter_io(f)) /\ PrintsAsRead(filter_io(f))
BY NamedFilters, PlainFits DEF filter_io

LEMMA NoneToPrint ==
    /\ future_new_order_resp_io.json = {} /\ future_order_update_io.json = {}
    /\ future_order_io.json = {} /\ cancel_order_info_io.json = {}
BY DEF future_new_order_resp_io, future_order_update_io, future_order_io,
       cancel_order_info_io, Silent, Plain, Codec

LEMMA TypesFit ==
    ASSUME NEW t \in DOMAIN Types
    PROVE  /\ Fits(Types[t])
           /\ t \notin Lossy => Types[t].json = {} \/ PrintsAsRead(Types[t])
<1>1. ASSUME NEW u \in DOMAIN MessageTypes
      PROVE  /\ Fits(MessageTypes[u])
             /\ u \notin Lossy => \/ MessageTypes[u].json = {}
                               \/ PrintsAsRead(MessageTypes[u])
  <2>1. CASE u \in {"leverage_info", "future_new_order_resp", "server_time",
                    "avg_price", "price", "prices", "ticker_24hrs", "tickers_24hrs",
                    "account_info"}
    BY <2>1, CodecsFit1, NoneToPrint DEF Lossy, MessageTypes
  <2>2. CASE u \in {"balance", "rate_limit", "symbol", "exchange_info", "depths",
                    "trade", "trades", "agg_trade", "agg_trades"}
    BY <2>2, CodecsFit2, NoneToPrint DEF Lossy, MessageTypes
  <2>3. CASE u \in {"kline", "klines", "order_info", "orders_info", "fill_part",
                    "cancel_order_info", "my_trade_info", "my_trades_info",
                    "start_user_data_stream"}
    BY <2>3, CodecsFit3, NoneToPrint DEF Lossy, MessageTypes
  <2>4. CASE u \in {"ws_agg_trade", "ws_trade", "part_depths", "mark_price",
                    "diff_depths", "ws_kline", "mini_ticker", "mini_tickers",
                    "market_ticker"}
    BY <2>4, CodecsFit4, NoneToPrint DEF Lossy, MessageTypes
  <2>5. CASE u \in {"markets_tickers", "book_ticker", "account_update",
                    "update_balance", "balance_update", "order_update",
                    "future_order_update", "future_order"}
    BY <2>5, CodecsFit5, NoneToPrint DEF Lossy, MessageTypes
  <2>. QED
    BY <1>1, <2>1, <2>2, <2>3, <2>4, <2>5 DEF MessageTypes
<1>2. ASSUME NEW u \in DOMAIN FilterTypes
      PROVE  Fits(FilterTypes[u]) /\ PrintsAsRead(FilterTypes[u])
  BY FiltersFit DEF FilterTypes
<1>3. Types = MessageTypes ++ FilterTypes ++ Responce
  BY DEF Types
<1>. QED
  BY <1>1, <1>2, <1>3, ResponcesFit DEF ++

(* The types that the gateways use. *)
Holds(table, t, codec) == t \in DOMAIN table /\ table[t] = codec

LEMMA TypesUsed ==
    /\ Holds(Types, "order_info", order_info_io)
    /\ Holds(Types, "cancel_order_info", cancel_order_info_io)
    /\ Holds(Types, "start_user_data_stream", start_user_data_stream_io)
    /\ Holds(Types, "future_order", future_order_io)
    /\ Holds(Types, "future_order_update", future_order_update_io)
    /\ Holds(Types, "order_update", order_update_io)
    /\ Holds(Types, "part_depths", part_depths_io)
    /\ Holds(Types, "ws_agg_trade", ws_agg_trade_io)
    /\ Holds(Types, "ws_trade", ws_trade_io)
    /\ Holds(Types, "book_ticker", book_ticker_io)
    /\ DOMAIN Responce \subseteq DOMAIN Types
    /\ \A t \in DOMAIN Responce : Types[t] = Responce[t]
<1>1. /\ Holds(MessageTypes, "order_info", order_info_io)
      /\ Holds(MessageTypes, "cancel_order_info", cancel_order_info_io)
      /\ Holds(MessageTypes, "start_user_data_stream", start_user_data_stream_io)
      /\ Holds(MessageTypes, "future_order", future_order_io)
      /\ Holds(MessageTypes, "future_order_update", future_order_update_io)
      /\ Holds(MessageTypes, "order_update", order_update_io)
      /\ Holds(MessageTypes, "part_depths", part_depths_io)
      /\ Holds(MessageTypes, "ws_agg_trade", ws_agg_trade_io)
      /\ Holds(MessageTypes, "ws_trade", ws_trade_io)
      /\ Holds(MessageTypes, "book_ticker", book_ticker_io)
  BY DEF Holds, MessageTypes
<1>2. \A t \in DOMAIN Responce : t \notin DOMAIN MessageTypes /\ t \notin DOMAIN FilterTypes
  BY DEF Responce, Filters, MessageTypes, FilterTypes
<1>3. Types = MessageTypes ++ FilterTypes ++ Responce
  BY DEF Types
<1>. QED
  BY <1>1, <1>2, <1>3 DEF ++, Holds

(* What the gateways use of a message is read from it. *)
LEMMA UsesRead ==
    ASSUME NEW t \in DOMAIN Uses \ DOMAIN Responce, NEW m \in Uses[t]
    PROVE  m \in DOMAIN Types[t].reads
<1>1. Uses["order_info"] \subseteq DOMAIN order_info_io.reads
  BY DEF Uses, order_info_io, order_info_t, Plain, Silent, Codec, Own,
     Under, ++, Num, Bool, Str, Dec, List
<1>2. Uses["cancel_order_info"] \subseteq DOMAIN cancel_order_info_io.reads
  BY DEF Uses, cancel_order_info_io, cancel_order_info_t, Plain, Silent,
     Codec, Own, Under, ++, Num, Bool, Str, Dec, List
<1>3. Uses["start_user_data_stream"] \subseteq DOMAIN start_user_data_stream_io.reads
  BY DEF Uses, start_user_data_stream_io, start_user_data_stream_t,
     Plain, Silent, Codec, Own, Under, ++, Num, Bool, Str, Dec, List
<1>4. Uses["future_order"] \subseteq DOMAIN future_order_io.reads
  BY DEF Uses, future_order_io, future_order_t, Plain, Silent, Codec,
     Own, Under, ++, Num, Bool, Str, Dec, List
<1>5. Uses["future_order_update"] \subseteq DOMAIN future_order_update_io.reads
  BY DEF Uses, future_order_update_io, future_order_update_t, Plain,
     Silent, Codec, Own, Under, ++, Num, Bool, Str, Dec, List
<1>6. Uses["order_update"] \subseteq DOMAIN order_update_io.reads
  BY DEF Uses, order_update_io, order_update_t, Plain, Silent, Codec,
     Own, Under, ++, Num, Bool, Str, Dec, List
<1>7. Uses["part_depths"] \subseteq DOMAIN part_depths_io.reads
  BY DEF Uses, part_depths_io, part_depths_t, Plain, Silent, Codec, Own,
     Under, ++, Num, Bool, Str, Dec, List
<1>8. Uses["ws_agg_trade"] \subseteq DOMAIN ws_agg_trade_io.reads
  BY DEF Uses, ws_agg_trade_io, ws_agg_trade_t, Plain, Silent, Codec,
     Own, Under, ++, Num, Bool, Str, Dec, List
<1>9. Uses["ws_trade"] \subseteq DOMAIN ws_trade_io.reads
  BY DEF Uses, ws_trade_io, ws_trade_t, Plain, Silent, Codec, Own,
     Under, ++, Num, Bool, Str, Dec, List
<1>10. Uses["book_ticker"] \subseteq DOMAIN book_ticker_io.reads
  BY DEF Uses, book_ticker_io, book_ticker_t, Plain, Silent, Codec, Own,
     Under, ++, Num, Bool, Str, Dec, List
<1>11. t \in {"order_info", "cancel_order_info", "start_user_data_stream",
              "future_order", "future_order_update", "order_update",
              "part_depths", "ws_agg_trade", "ws_trade", "book_ticker"}
  BY DEF Uses, Responce
<1>. QED
  BY <1>1, <1>2, <1>3, <1>4, <1>5, <1>6, <1>7, <1>8, <1>9, <1>10, <1>11,
     TypesUsed DEF Holds

-----------------------------------------------------------------------------
(* A message spells every member that is read, under the key it is read    *)
(* from.                                                                   *)
LEMMA MessageSpells ==
    ASSUME NEW codec, Fits(codec)
    PROVE  /\ \A m \in DOMAIN codec.reads :
                 codec.reads[m] \in DOMAIN Message(codec)
                 /\ Message(codec)[codec.reads[m]] = m
           /\ \A p \in DOMAIN Message(codec) :
                 Message(codec)[p] \in DOMAIN codec.reads
                 /\ codec.reads[Message(codec)[p]] = p
BY DEF Message, Fits

Numeric == {"num", "int", "bool"}

(* What construct gets for a member: the text of its key; where that is    *)
(* not as expected, a failure or what the conversion of its sort returns.  *)
LEMMA GetGives ==
    ASSUME NEW codec, NEW j, NEW m, Fits(codec), m \in DOMAIN codec.members
    PROVE  /\ m \notin DOMAIN codec.reads => Get(codec, m, j) = "zero"
           /\ m \in DOMAIN codec.reads /\ TextAt(j, codec.reads[m]) \notin Wrong
                 => Get(codec, m, j) = TextAt(j, codec.reads[m])
           /\ m \in DOMAIN codec.reads /\ TextAt(j, codec.reads[m]) \in Wrong
                 => \/ Get(codec, m, j) \in {"throw", "die"}
                    \/ codec.members[m] \in Numeric
                       /\ Get(codec, m, j) \in {"zero", "garbage"}
                    \/ codec.members[m] = "str" /\ Get(codec, m, j) \in {"zero", "word"}
<1>. DEFINE text == TextAt(j, codec.reads[m])
            sort == codec.members[m]
<1>1. sort \in Sorts
  BY DEF Fits, Named
<1>2. ASSUME text \in Wrong
      PROVE  \/ Conv[sort][text] \in {"throw", "die"}
             \/ sort \in Numeric /\ Conv[sort][text] \in {"zero", "garbage"}
             \/ sort = "str" /\ Conv[sort][text] \in {"zero", "word"}
  BY <1>1, <1>2 DEF Sorts, Wrong, Numeric, Conv, conv_to_unsigned,
       conv_to_signed, conv_to_bool, get_json_string, get_json_double, at_array
<1>. HIDE DEF sort
<1>3. CASE m \notin DOMAIN codec.reads
  BY <1>3 DEF Get
<1>4. CASE m \in DOMAIN codec.reads /\ text \notin Wrong
  BY <1>4 DEF Get
<1>5. CASE m \in DOMAIN codec.reads /\ text \in Wrong
  <2>1. Get(codec, m, j) \in {"throw", "die", Conv[sort][text]}
    BY <1>5 DEF Get, sort
  <2>. QED
    BY <1>2, <1>5, <2>1 DEF sort
<1>. QED
  BY <1>3, <1>4, <1>5

(* Its strings are kept by a second reading. *)
LEMMA WordsKept ==
    ASSUME NEW codec, NEW j, NEW m, Fits(codec), m \in DOMAIN codec.reads,
           codec.members[m] = "str", TextAt(j, codec.reads[m]) = "word"
    PROVE  Get(codec, m, j) = "word"
BY DEF Get, Fits, Wrong, Conv, get_json_string

(* A message in which every key is spelt as it should be or not at all. *)
Readable(codec, j) ==
    \A m \in DOMAIN codec.reads : TextAt(j, codec.reads[m]) \in {m} \cup Wrong

LEMMA ValueIs ==
    ASSUME NEW codec, NEW j, NEW r \in Construct(codec, j)
    PROVE  /\ r.how \in {"value", "throw", "die"}
           /\ r.how # "value" => r.v = Nothing
           /\ r.how = "value" =>
                 /\ r = [how |-> "value",
                         v |-> [m \in DOMAIN codec.members |-> Get(codec, m, j)]]
                 /\ \A m \in DOMAIN codec.members : Get(codec, m, j) \notin {"throw", "die"}
BY DEF Construct, Ended

LEMMA PrintedSpells ==
    ASSUME NEW codec, NEW v, NEW m, PrintsAsRead(codec), m \in DOMAIN codec.reads
    PROVE  TextAt(Printed(codec, v), codec.reads[m]) = v[m]
<1>. DEFINE p == codec.prints[m]
<1>1. m \in DOMAIN codec.prints /\ p = codec.reads[m]
  BY DEF PrintsAsRead
<1>2. (CHOOSE n \in DOMAIN codec.prints : codec.prints[n] = p) = m
  BY <1>1 DEF PrintsAsRead
<1>. QED
  BY <1>1, <1>2 DEF Printed, TextAt

(* Printing what was constructed and constructing it again. *)
LEMMA PrintsBack ==
    ASSUME NEW codec, NEW j, Fits(codec), PrintsAsRead(codec), Readable(codec, j),
           NEW r \in Construct(codec, j), r.how = "value",
           NEW s \in Construct(codec, Printed(codec, r.v))
    PROVE  s = r
<1>. DEFINE k == Printed(codec, r.v)
            D == DOMAIN codec.members
<1>1. /\ r = [how |-> "value", v |-> [m \in D |-> Get(codec, m, j)]]
      /\ \A m \in D : Get(codec, m, j) \notin {"throw", "die"}
  BY ValueIs
<1>2. ASSUME NEW m \in D
      PROVE  Get(codec, m, k) = Get(codec, m, j)
  <2>1. CASE m \notin DOMAIN codec.reads
    BY <2>1, GetGives
  <2>2. CASE m \in DOMAIN codec.reads
    <3>1. TextAt(k, codec.reads[m]) = Get(codec, m, j)
      <4>1. TextAt(k, codec.reads[m]) = r.v[m]
        BY <2>2, PrintedSpells
      <4>. QED
        BY <1>1, <4>1
    <3>2. \/ Get(codec, m, j) = m \/ Get(codec, m, j) \in {"zero", "garbage"}
          \/ codec.members[m] = "str" /\ Get(codec, m, j) = "word"
      <4>1. TextAt(j, codec.reads[m]) \in {m} \cup Wrong
        BY <2>2 DEF Readable
      <4>2. CASE TextAt(j, codec.reads[m]) \in Wrong
        BY <1>1, <2>2, <4>2, GetGives
      <4>3. CASE TextAt(j, codec.reads[m]) \notin Wrong
        BY <2>2, <4>1, <4>3, GetGives
      <4>. QED
        BY <4>2, <4>3
    <3>3. m \notin Wrong /\ {"zero", "garbage"} \cap Wrong = {}
      BY DEF Fits, Named, Wrong
    <3>4. CASE codec.members[m] = "str" /\ Get(codec, m, j) = "word"
      BY <2>2, <3>1, <3>4, WordsKept
    <3>5. CASE Get(codec, m, j) \notin Wrong
      BY <2>2, <3>1, <3>5, GetGives
    <3>. QED
      BY <3>2, <3>3, <3>4, <3>5
  <2>. QED
    BY <2>1, <2>2
<1>3. \A m \in D : Get(codec, m, k) \notin {"throw", "die"}
  BY <1>1, <1>2
<1>4. [m \in D |-> Get(codec, m, k)] = [m \in D |-> Get(codec, m, j)]
  BY <1>2
<1>5. {[n \in D |-> Get(codec, n, k)][m] : m \in D} \cap {"throw", "die"} = {}
  BY <1>3
<1>6. Construct(codec, k) = {[how |-> "value", v |-> [m \in D |-> Get(codec, m, k)]]}
  BY <1>5 DEF Construct
<1>. QED
  BY <1>1, <1>4, <1>6

(* The answer to a new order is told by its keys, also when printed. *)
LEMMA ResponcePrinted ==
    ASSUME NEW q \in DOMAIN Responce, NEW v
    PROVE  ResponceOf(Printed(Responce[q], v)) = q
<1>1. \A t, s : <<s>> \in DOMAIN Printed(Plain(t), v) <=> s \in DOMAIN t
  <2>1. \A t : DOMAIN Printed(Plain(t), v) = {<<m>> : m \in DOMAIN t}
    BY DEF Printed, Plain, Codec, Own
  <2>2. ASSUME NEW t, NEW s
        PROVE  <<s>> \in {<<m>> : m \in DOMAIN t} <=> s \in DOMAIN t
    OBVIOUS
  <2>. QED
    BY <2>1, <2>2
<1>2. "fills" \in DOMAIN new_order_info_full_t
  BY DEF new_order_info_full_t, ++, Num, Str, Dec, List
<1>3. "side" \in DOMAIN new_order_info_result_t
      /\ "fills" \notin DOMAIN new_order_info_result_t
  BY DEF new_order_info_result_t, ++, Num, Str, Dec
<1>4. "symbol" \in DOMAIN new_order_info_ack_t
      /\ {"fills", "side"} \cap DOMAIN new_order_info_ack_t = {}
  BY DEF new_order_info_ack_t, ++, Num, Str
<1>5. q \in {"FULL", "RESULT", "ACK"}
      /\ Responce["FULL"] = Plain(new_order_info_full_t)
      /\ Responce["RESULT"] = Plain(new_order_info_result_t)
      /\ Responce["ACK"] = Plain(new_order_info_ack_t)
  BY DEF Responce, new_order_info_full_io, new_order_info_result_io,
         new_order_info_ack_io
<1>6. CASE q = "FULL"
  <2>. DEFINE j == Printed(Responce[q], v)
  <2>1. <<"fills">> \in DOMAIN j
    BY <1>1, <1>2, <1>5, <1>6
  <2>. HIDE DEF j
  <2>. QED
    BY <1>6, <2>1 DEF ResponceOf, j
<1>7. CASE q = "RESULT"
  <2>. DEFINE j == Printed(Responce[q], v)
  <2>1. <<"fills">> \notin DOMAIN j /\ <<"side">> \in DOMAIN j
    BY <1>1, <1>3, <1>5, <1>7
  <2>. HIDE DEF j
  <2>. QED
    BY <1>7, <2>1 DEF ResponceOf, j
<1>8. CASE q = "ACK"
  <2>. DEFINE j == Printed(Responce[q], v)
  <2>1. <<"fills">> \notin DOMAIN j /\ <<"side">> \notin DOMAIN j
        /\ <<"symbol">> \in DOMAIN j
    BY <1>1, <1>4, <1>5, <1>8
  <2>. HIDE DEF j
  <2>. QED
    BY <1>8, <2>1 DEF ResponceOf, j
<1>. QED
  BY <1>5, <1>6, <1>7, <1>8

-----------------------------------------------------------------------------
(* The codec of what arrived: an answer to a new order is constructed as   *)
(* the richest of the three it has the keys of.                            *)
Codecs(t, j) ==
    IF t \in DOMAIN Responce THEN Responce[ResponceOf(j)] ELSE Types[t]

LEMMA ConstructAnyIs ==
    ASSUME NEW t \in DOMAIN Types, NEW j, NEW r \in ConstructAny(t, j)
    PROVE  \/ r = Ended("die")
           \/ /\ t \in DOMAIN Responce => ResponceOf(j) \in DOMAIN Responce
              /\ r \in Construct(Codecs(t, j), j)
<1>1. ResponceOf(j) \in {"FULL", "RESULT", "ACK", "TEST"}
  BY DEF ResponceOf
<1>2. DOMAIN Responce = {"FULL", "RESULT", "ACK"}
  BY DEF Responce
<1>. QED
  BY <1>1, <1>2 DEF ConstructAny, Codecs

(* The message in flight: its keys are those the type reads, and those     *)
(* that nobody spoilt spell what they should.                              *)
InFlight(t, j, bad) ==
    /\ DOMAIN j \subseteq DOMAIN Message(Types[t])
    /\ bad \subseteq DOMAIN Message(Types[t])
    /\ \A p \in DOMAIN Message(Types[t]) \ bad : p \in DOMAIN j
    /\ \A p \in DOMAIN j : IF p \in bad THEN j[p] \in {"null", "word"}
                           ELSE j[p] = Message(Types[t])[p]

(* The invariant: first is what construct makes of the message as it is,   *)
(* and again what it makes of the value printed.                           *)
WireIInv ==
    /\ type \in DOMAIN Types /\ len \in Length
    /\ InFlight(type, json, spoilt)
    /\ first = Ended("none") \/ first \in ConstructAny(type, json)
    /\ \/ again = Ended("none")
       \/ /\ first.how = "value"
          /\ again \in IF len \in Constructed.json
                       THEN ConstructAny(type, Printed(Constructed, first.v))
                       ELSE {Ended("not JSON")}

(* A key that nobody spoilt spells the member that is read from it.        *)
LEMMA FlightKey ==
    ASSUME NEW t \in DOMAIN Types, NEW j, NEW bad, InFlight(t, j, bad),
           NEW m \in DOMAIN Types[t].reads, Types[t].reads[m] \notin bad
    PROVE  TextAt(j, Types[t].reads[m]) = m
BY TypesFit, MessageSpells DEF InFlight, TextAt

(* Whatever type the answer is of, a key spells the member that is read    *)
(* from it, or is not as expected.                                         *)
LEMMA FlightReads ==
    ASSUME NEW t \in DOMAIN Types, NEW j, NEW bad, InFlight(t, j, bad),
           t \in DOMAIN Responce => ResponceOf(j) \in DOMAIN Responce
    PROVE  LET codec == Codecs(t, j)
           IN  Fits(codec) /\ Readable(codec, j)
<1>. DEFINE codec == Codecs(t, j)
<1>1. Fits(Types[t])
  BY TypesFit
<1>2. CASE t \notin DOMAIN Responce
  <2>1. codec = Types[t]
    BY <1>2 DEF Codecs
  <2>2. ASSUME NEW m \in DOMAIN Types[t].reads
        PROVE  TextAt(j, Types[t].reads[m]) \in {m} \cup Wrong
    BY <1>1, MessageSpells DEF InFlight, TextAt, Wrong
  <2>. QED
    BY <1>1, <2>1, <2>2 DEF Readable
<1>3. CASE t \in DOMAIN Responce
  <2>1. PICK T : Types[t] = Plain(T)
    BY <1>3, ResponcesFit, TypesUsed
  <2>2. codec = Responce[ResponceOf(j)] /\ Fits(codec)
    BY <1>3, ResponcesFit DEF Codecs
  <2>3. PICK S : codec = Plain(S)
    BY <1>3, <2>2, ResponcesFit
  <2>4. \A m \in DOMAIN Types[t].reads : Types[t].reads[m] = <<m>>
    BY <2>1 DEF Plain, Codec, Own
  <2>5. \A m \in DOMAIN codec.reads : codec.reads[m] = <<m>>
    BY <2>3 DEF Plain, Codec, Own
  <2>6. \A s, m : <<s>> = <<m>> <=> s = m
    OBVIOUS
  <2>7. ASSUME NEW m \in DOMAIN codec.reads
        PROVE  TextAt(j, codec.reads[m]) \in {m} \cup Wrong
    <3>. DEFINE p == <<m>>
                n == Message(Types[t])[p]
    <3>1. p = codec.reads[m]
      BY <2>5
    <3>2. CASE p \notin DOMAIN j
      BY <3>1, <3>2 DEF TextAt, Wrong
    <3>3. CASE p \in DOMAIN j
      <4>1. p \in DOMAIN Message(Types[t])
        BY <3>3 DEF InFlight
      <4>2. n \in DOMAIN Types[t].reads /\ Types[t].reads[n] = p
        BY <1>1, <4>1, MessageSpells
      <4>3. n = m
        BY <2>4, <2>6, <4>2
      <4>. HIDE DEF p, n
      <4>4. TextAt(j, p) = j[p]
        BY <3>3 DEF TextAt
      <4>5. IF p \in bad THEN j[p] \in Wrong ELSE j[p] = m
        BY <3>3, <4>3 DEF InFlight, n, Wrong
      <4>. QED
        BY <3>1, <4>4, <4>5
    <3>. QED
      BY <3>2, <3>3
  <2>. QED
    BY <2>2, <2>7 DEF Readable
<1>. QED
  BY <1>2, <1>3

LEMMA WireInvInit == WireInit => WireIInv
<1>. SUFFICES ASSUME WireInit PROVE WireIInv
  OBVIOUS
<1>1. type \in DOMAIN Types /\ len \in Length
  BY DEF WireInit, Lengths
<1>2. InFlight(type, json, spoilt)
  BY DEF WireInit, InFlight
<1>. QED
  BY <1>1, <1>2 DEF WireInit, WireIInv

LEMMA EndedIs ==
    ASSUME NEW how
    PROVE  Ended(how).how = how /\ Ended(how).v = Nothing
BY DEF Ended

LEMMA ReceivedIs ==
    ASSUME NEW t \in DOMAIN Types, NEW j, NEW r \in ConstructAny(t, j)
    PROVE  r.how \in {"value", "throw", "die"} /\ (r.how # "value" => r.v = Nothing)
BY ConstructAnyIs, ValueIs, EndedIs

LEMMA SpoilKeeps ==
    WireIInv /\ (\E p \in DOMAIN json, how \in Wrong : Spoil(p, how)) => WireIInv'
<1>. SUFFICES ASSUME WireIInv, NEW p \in DOMAIN json, NEW how \in Wrong,
                     Spoil(p, how)
              PROVE  WireIInv'
  OBVIOUS
<1>1. first = Ended("none") /\ first' = Ended("none")
  BY ReceivedIs, EndedIs DEF WireIInv, Spoil
<1>2. again = Ended("none") /\ again' = Ended("none")
  BY <1>1, EndedIs DEF WireIInv, Spoil
<1>3. /\ type' = type /\ len' = len /\ spoilt' = spoilt \cup {p}
      /\ type \in DOMAIN Types /\ len \in Length
  BY DEF WireIInv, Spoil
<1>. DEFINE M == Message(Types[type])
<1>4. /\ DOMAIN json \subseteq DOMAIN M /\ spoilt \subseteq DOMAIN M
      /\ \A q \in DOMAIN M \ spoilt : q \in DOMAIN json
      /\ \A q \in DOMAIN json : IF q \in spoilt THEN json[q] \in {"null", "word"}
                                ELSE json[q] = M[q]
  BY DEF WireIInv, InFlight
<1>5. \/ how = "absent" /\ json' = [q \in DOMAIN json \ {p} |-> json[q]]
      \/ how \in {"null", "word"} /\ json' = [json EXCEPT ![p] = how]
  BY DEF Spoil, Wrong
<1>6. InFlight(type, json', spoilt')
  <2>. HIDE DEF M
  <2>1. /\ DOMAIN json' \subseteq DOMAIN M /\ spoilt' \subseteq DOMAIN M
        /\ \A q \in DOMAIN M \ spoilt' : q \in DOMAIN json'
    BY <1>3, <1>4, <1>5
  <2>2. \A q \in DOMAIN json' : IF q \in spoilt' THEN json'[q] \in {"null", "word"}
                                ELSE json'[q] = M[q]
    BY <1>3, <1>4, <1>5
  <2>. QED
    BY <2>1, <2>2 DEF InFlight, M
<1>. QED
  BY <1>1, <1>2, <1>3, <1>6 DEF WireIInv

LEMMA ReceiveKeeps == WireIInv /\ Receive => WireIInv'
<1>. SUFFICES ASSUME WireIInv, Receive PROVE WireIInv'
  OBVIOUS
<1>1. again = Ended("none")
  BY DEF WireIInv, Receive
<1>2. /\ type' = type /\ len' = len /\ json' = json /\ spoilt' = spoilt
      /\ again' = again /\ first' \in ConstructAny(type, json)
  BY DEF Receive
<1>. QED
  BY <1>1, <1>2 DEF WireIInv

LEMMA RereadKeeps == WireIInv /\ Reread => WireIInv'
<1>. SUFFICES ASSUME WireIInv, Reread PROVE WireIInv'
  OBVIOUS
<1>1. /\ type' = type /\ len' = len /\ json' = json /\ spoilt' = spoilt
      /\ first' = first /\ first.how = "value"
      /\ again' \in IF len \in Constructed.json
                    THEN ConstructAny(type, Printed(Constructed, first.v))
                    ELSE {Ended("not JSON")}
  BY DEF Reread
<1>2. Constructed' = Constructed
  BY <1>1 DEF Constructed
<1>. QED
  BY <1>1, <1>2 DEF WireIInv

LEMMA WireInvariant == WireSpec => []WireIInv
<1>1. WireIInv /\ UNCHANGED wireVars => WireIInv'
  BY DEF WireIInv, wireVars, Constructed
<1>2. WireIInv /\ [WireNext]_wireVars => WireIInv'
  BY <1>1, SpoilKeeps, ReceiveKeeps, RereadKeeps DEF WireNext
<1>. QED
  BY <1>2, WireInvInit, PTL DEF WireSpec

(* What the invariant says of a value that reached a callback.             *)
LEMMA ValueReceived ==
    ASSUME WireIInv, first.how = "value"
    PROVE  /\ type \in DOMAIN Types
           /\ InFlight(type, json, spoilt)
           /\ type \in DOMAIN Responce => ResponceOf(json) \in DOMAIN Responce
           /\ Constructed = Codecs(type, json)
           /\ Fits(Constructed) /\ Readable(Constructed, json)
           /\ first \in Construct(Constructed, json)
           /\ first = [how |-> "value",
                       v |-> [m \in DOMAIN Constructed.members |->
                                 Get(Constructed, m, json)]]
           /\ \A m \in DOMAIN Constructed.members :
                 Get(Constructed, m, json) \notin {"throw", "die"}
<1>1. Constructed = Codecs(type, json)
  BY DEF Constructed, Codecs
<1>2. type \in DOMAIN Types /\ InFlight(type, json, spoilt)
      /\ first \in ConstructAny(type, json)
  BY EndedIs DEF WireIInv
<1>3. /\ type \in DOMAIN Responce => ResponceOf(json) \in DOMAIN Responce
      /\ first \in Construct(Constructed, json)
  BY <1>1, <1>2, ConstructAnyIs, EndedIs
<1>4. Fits(Constructed) /\ Readable(Constructed, json)
  BY <1>1, <1>2, <1>3, FlightReads
<1>. QED
  BY <1>1, <1>2, <1>3, <1>4, ValueIs

LEMMA SpeltDecimals == WireIInv => DecimalsSpelt
<1>. SUFFICES ASSUME WireIInv, first.how = "value",
                     NEW m \in DOMAIN first.v,
                     Constructed.members[m] = "dec", m \in DOMAIN Constructed.reads
              PROVE  first.v[m] = m
  BY DEF DecimalsSpelt
<1>1. m \in DOMAIN Constructed.members /\ first.v[m] = Get(Constructed, m, json)
  BY ValueReceived
<1>2. Fits(Constructed) /\ Get(Constructed, m, json) \notin {"throw", "die"}
  BY <1>1, ValueReceived
<1>3. TextAt(json, Constructed.reads[m]) \in {m} \cup Wrong
  BY ValueReceived DEF Readable
<1>4. CASE TextAt(json, Constructed.reads[m]) \in Wrong
  BY <1>1, <1>2, <1>4, GetGives DEF Numeric
<1>5. CASE TextAt(json, Constructed.reads[m]) \notin Wrong
  BY <1>1, <1>2, <1>3, <1>5, GetGives
<1>. QED
  BY <1>4, <1>5

(* Where the gateways' members come from: their key, of a sort that is not *)
(* a decimal or a list if it is spoilt.                                    *)
LEMMA UsedMember ==
    ASSUME WireIInv, first.how = "value", type \in DOMAIN Uses,
           NEW m \in Uses[type]
    PROVE  /\ m \in DOMAIN Constructed.members /\ m \in DOMAIN Constructed.reads
           /\ m \in DOMAIN Types[type].reads
           /\ Constructed.reads[m] = Types[type].reads[m]
           /\ Constructed.members[m] = Types[type].members[m]
<1>1. CASE type \notin DOMAIN Responce
  <2>1. Constructed = Types[type]
    BY <1>1 DEF Constructed
  <2>2. m \in DOMAIN Types[type].reads
    BY <1>1, UsesRead
  <2>. QED
    BY <2>1, <2>2, ValueReceived DEF Fits
<1>2. CASE type \in DOMAIN Responce
  <2>1. m = "orderId"
    BY <1>2 DEF Uses, Responce
  <2>2. PICK T : Named(T) /\ Types[type] = Plain(T)
                 /\ "orderId" \in DOMAIN T /\ T["orderId"] = "num"
    BY <1>2, ResponcesFit, TypesUsed
  <2>3. ResponceOf(json) \in DOMAIN Responce
        /\ Constructed = Responce[ResponceOf(json)]
    BY <1>2, ValueReceived DEF Codecs
  <2>4. PICK S : Named(S) /\ Constructed = Plain(S)
                 /\ "orderId" \in DOMAIN S /\ S["orderId"] = "num"
    BY <2>3, ResponcesFit
  <2>. QED
    BY <2>1, <2>2, <2>4 DEF Plain, Codec, Own
<1>. QED
  BY <1>1, <1>2

LEMMA MadeUpNothing == WireIInv => NothingMadeUp
<1>. SUFFICES ASSUME WireIInv, first.how = "value", type \in DOMAIN Uses,
                     NEW m \in Uses[type]
              PROVE  \/ first.v[m] = m
                     \/ /\ m \in DOMAIN Types[type].reads
                        /\ Types[type].reads[m] \in spoilt
                        /\ Types[type].members[m] \in {"num", "int", "bool", "str"}
  BY DEF NothingMadeUp
<1>. DEFINE codec == Constructed
            p == codec.reads[m]
<1>1. /\ m \in DOMAIN codec.members /\ m \in DOMAIN codec.reads
      /\ m \in DOMAIN Types[type].reads
      /\ p = Types[type].reads[m]
      /\ codec.members[m] = Types[type].members[m]
  BY UsedMember
<1>2. /\ Fits(codec) /\ TextAt(json, p) \in {m} \cup Wrong
      /\ first.v[m] = Get(codec, m, json)
      /\ Get(codec, m, json) \notin {"throw", "die"}
  BY <1>1, ValueReceived DEF Readable
<1>3. CASE TextAt(json, p) \notin Wrong
  BY <1>1, <1>2, <1>3, GetGives
<1>4. CASE TextAt(json, p) \in Wrong
  <2>1. codec.members[m] \in Numeric \/ codec.members[m] = "str"
    BY <1>1, <1>2, <1>4, GetGives
  <2>2. m \notin Wrong
    BY <1>1, <1>2 DEF Fits, Named
  <2>3. p \in spoilt
    BY <1>1, <1>4, <2>2, ValueReceived, FlightKey
  <2>. QED
    BY <1>1, <2>1, <2>3 DEF Numeric
<1>. QED
  BY <1>3, <1>4

LEMMA TripReturns == WireIInv => RoundTrip
<1>. SUFFICES ASSUME WireIInv, again.how \notin {"none", "not JSON"},
                     type \notin Lossy
              PROVE  again = first
  BY DEF RoundTrip
<1>. DEFINE codec == Constructed
            k == Printed(codec, first.v)
<1>1. first.how = "value" /\ len \in codec.json /\ again \in ConstructAny(type, k)
  BY EndedIs DEF WireIInv
<1>2. /\ type \in DOMAIN Types /\ Fits(codec) /\ Readable(codec, json)
      /\ first \in Construct(codec, json)
  BY <1>1, ValueReceived
<1>3. PrintsAsRead(codec) /\ again \in Construct(codec, k)
  <2>1. CASE type \notin DOMAIN Responce
    BY <1>1, <1>2, <2>1, TypesFit DEF Constructed, ConstructAny
  <2>2. CASE type \in DOMAIN Responce
    <3>1. PICK q \in DOMAIN Responce : q = ResponceOf(json) /\ codec = Responce[q]
      BY <1>1, <2>2, ValueReceived DEF Codecs
    <3>2. ResponceOf(k) = q /\ q # "TEST"
      BY <3>1, ResponcePrinted DEF Responce
    <3>. QED
      BY <1>1, <2>2, <3>1, <3>2, ResponcesFit DEF ConstructAny
  <2>. QED
    BY <2>1, <2>2
<1>. QED
  BY <1>1, <1>2, <1>3, PrintsBack


(* A value never holds a token that is no value.                           *)
LEMMA ValuesHold ==
    ASSUME NEW codec, Fits(codec), NEW j, NEW r \in Construct(codec, j)
    PROVE  \A m \in DOMAIN r.v :
              r.v[m] \notin {"absent", "null", "throw", "die"}
<1>1. CASE r.how # "value"
  BY <1>1, ValueIs DEF Nothing
<1>2. CASE r.how = "value"
  <2>1. ASSUME NEW m \in DOMAIN codec.members
        PROVE  Get(codec, m, j) \notin {"absent", "null", "throw", "die"}
    <3>1. Get(codec, m, j) \notin {"throw", "die"}
      BY <1>2, ValueIs
    <3>. QED
      BY <3>1, GetGives DEF Wrong
  <2>. QED
    BY <1>2, <2>1, ValueIs
<1>. QED
  BY <1>1, <1>2

LEMMA WireTyped == WireIInv => WireTypeOK
<1>1. ASSUME NEW t \in DOMAIN Types, NEW j, NEW r \in ConstructAny(t, j)
      PROVE  /\ r.how \in {"value", "throw", "die"} /\ (r.how # "value" => r.v = Nothing)
             /\ \A m \in DOMAIN r.v :
                   r.v[m] \notin {"absent", "null", "throw", "die"}
  <2>1. CASE r = Ended("die")
    BY <2>1, EndedIs DEF Nothing
  <2>2. CASE /\ t \in DOMAIN Responce => ResponceOf(j) \in DOMAIN Responce
             /\ r \in Construct(Codecs(t, j), j)
    <3>1. Fits(Codecs(t, j))
      BY <2>2, TypesFit, ResponcesFit DEF Codecs
    <3>. QED
      BY <2>2, <3>1, ValueIs, ValuesHold
  <2>. QED
    BY <2>1, <2>2, ConstructAnyIs
<1>2. ASSUME NEW how
      PROVE  Ended(how).how = how /\ Ended(how).v = Nothing
             /\ \A m \in DOMAIN Ended(how).v : FALSE
  BY EndedIs DEF Nothing
<1>3. ASSUME WireIInv PROVE WireTypeOK
  <2>. DEFINE Sound(r) ==
                /\ r.how \in {"none", "value", "throw", "die", "not JSON"}
                /\ r.how # "value" => r.v = Nothing
                /\ \A m \in DOMAIN r.v : r.v[m] \notin Wrong \ {"word"}
                /\ \A m \in DOMAIN r.v : r.v[m] \notin {"throw", "die"}
  <2>1. ASSUME NEW j, NEW r \in ConstructAny(type, j) PROVE Sound(r)
    BY <1>1, <1>3, <2>1 DEF WireIInv, Wrong
  <2>2. Sound(Ended("none")) /\ Sound(Ended("not JSON"))
    BY <1>2
  <2>3. Sound(first)
    BY <1>3, <2>1, <2>2 DEF WireIInv
  <2>4. Sound(again)
    <3>1. again = Ended("none") \/ again = Ended("not JSON")
          \/ \E j : again \in ConstructAny(type, j)
      BY <1>3 DEF WireIInv
    <3>. QED
      BY <2>1, <2>2, <3>1
  <2>5. /\ len \in Length
        /\ spoilt \subseteq DOMAIN Message(Types[type])
        /\ DOMAIN json \subseteq DOMAIN Message(Types[type])
    BY <1>3 DEF WireIInv, InFlight
  <2>. QED
    BY <2>3, <2>4, <2>5 DEF WireTypeOK
<1>. QED
  BY <1>3

(* For every type of message, any lengths of its arrays and any keys of it *)
(* spoilt: what a callback gets of a message is what the exchange wrote,   *)
(* and printing it gives it back where operator<< is the inverse of        *)
(* construct (T::construct, __get_json, operator<< of types.cpp).          *)
THEOREM WireFaithfulAlways == WireSpec => []WireFaithful
<1>1. WireIInv => WireFaithful
  BY WireTyped, MadeUpNothing, SpeltDecimals, TripReturns DEF WireFaithful
<1>. QED
  BY <1>1, WireInvariant, PTL

-----------------------------------------------------------------------------
(* Codes: the words, the symbols and the terms of an order.                *)

Sent(o) ==
    IF o.instrument_type = "Spot" THEN new_order(o) ELSE future_new_order(o)

Words == {e_status_to_string[e] : e \in e_status} \cup NewStatus

CodeIInv ==
    /\ input # None => input \in OrderInputs
    /\ sent # None =>
         /\ input # None /\ Converts(input)
         /\ input.instrument_type \in {"Spot", "FFuture"}
         /\ sent = Sent(input)
    /\ said # None => sent # None /\ \E w \in Words : said = <<w>>
    /\ report # None =>
         /\ said # None
         /\ report.status \in Statuses(Head(said))
         /\ \/ /\ report.symbol = from_binance_symbol(sent.symbol)
               /\ report.side = input.side /\ report.order_type = input.order_type
            \/ /\ report.symbol = input.symbol
               /\ report.side \in {from_binance_side[s] : s \in e_side_from_string(sent.side)}
               /\ report.order_type \in
                    {from_binance_type(t) : t \in e_type_from_string(sent.type)}

(* The last place of the last syllable of a word is its end. *)
LEMMA LastPlace ==
    ASSUME NEW S, NEW word \in Seq(S), word # <<>>
    PROVE  rfind(word, Last(word)) = Len(word)
<1> DEFINE I == {i \in 1 .. Len(word) : word[i] = Last(word)}
<1>1. Len(word) \in I /\ I \subseteq 1 .. Len(word)
  BY DEF Last
<1>2. Max(I) = Len(word)
  <2>1. Len(word) \in I /\ \A y \in I : Len(word) >= y
    BY <1>1
  <2>2. \A x \in I : (\A y \in I : x >= y) => x = Len(word)
    BY <1>1
  <2> QED BY <2>1, <2>2 DEF Max
<1> QED BY <1>1, <1>2 DEF SelectLastInSeq, rfind

(* A word that ends with a syllable is what is before it and the syllable. *)
LEMMA LastCutOff ==
    ASSUME NEW S, NEW b \in Seq(S), NEW c \in S
    PROVE  /\ b \o <<c>> \in Seq(S) /\ b \o <<c>> # <<>>
           /\ Last(b \o <<c>>) = c
           /\ Cut(b \o <<c>>, Len(b \o <<c>>)) = <<b, <<c>>>>
<1> DEFINE word == b \o <<c>>
<1>1. <<c>> \in Seq(S)
  OBVIOUS
<1>2. Len(<<c>>) = 1 /\ <<c>>[1] = c
  OBVIOUS
<1>3. Len(b) \in Nat
  OBVIOUS
<1>4. /\ word \in Seq(S) /\ Len(word) = Len(b) + Len(<<c>>)
      /\ \A i \in 1 .. Len(b) + Len(<<c>>) :
            word[i] = IF i <= Len(b) THEN b[i] ELSE <<c>>[i - Len(b)]
  BY <1>1, ConcatProperties
<1> HIDE DEF word
<1>5. /\ Len(word) = Len(b) + 1 /\ word[Len(word)] = c
      /\ \A i \in 1 .. Len(b) : word[i] = b[i]
  BY <1>2, <1>3, <1>4
<1>6. SubSeq(word, 1, Len(word) - 1) = b
  <2>1. \A i \in 1 .. Len(word) - 1 : word[i] \in S
    BY <1>3, <1>4, <1>5
  <2>2. /\ SubSeq(word, 1, Len(word) - 1) \in Seq(S)
        /\ Len(SubSeq(word, 1, Len(word) - 1)) = Len(b)
        /\ \A i \in 1 .. Len(b) : SubSeq(word, 1, Len(word) - 1)[i] = word[i]
    BY <1>3, <1>5, <2>1, SubSeqProperties
  <2> QED BY <1>5, <2>2, SeqEqual
<1>7. SubSeq(word, Len(word), Len(word)) = <<c>>
  <2>1. Len(word) \in Int /\ word[Len(word)] \in S
    BY <1>3, <1>5
  <2>2. /\ SubSeq(word, Len(word), Len(word)) \in Seq(S)
        /\ Len(SubSeq(word, Len(word), Len(word))) = 1
        /\ SubSeq(word, Len(word), Len(word))[1] = c
    BY <1>5, <2>1, SubSeqProperties
  <2> DEFINE end == SubSeq(word, Len(word), Len(word))
             one == <<c>>
  <2>3. /\ end \in Seq(S) /\ Len(end) = 1 /\ end[1] = c
        /\ one \in Seq(S) /\ Len(one) = 1 /\ one[1] = c
    BY <1>1, <1>2, <2>2
  <2> HIDE DEF end, one
  <2>4. \A i \in 1 .. Len(end) : end[i] = one[i]
    BY <2>3
  <2>5. end = one
    BY <2>3, <2>4, SeqEqual
  <2> QED BY <2>5 DEF end, one
<1>8. word # <<>>
  BY <1>3, <1>4, <1>5
<1> QED BY <1>4, <1>5, <1>6, <1>7, <1>8 DEF Cut, Last, word

(* A pair of coins whose quote is listed comes back as it was sent. *)
LEMMA SymbolComesBack ==
    ASSUME NEW b \in Base, NEW c \in quote_coins
    PROVE  from_binance_symbol(to_binance_symbol(Symbol("lower", <<b, <<c>>>>)))
               = Symbol("lower", <<b, <<c>>>>)
<1> DEFINE word == b \o <<c>>
           S == Range(b) \cup {c}
<1>1. b \in Seq(S) /\ c \in S
  BY CodesAssumption, SeqMonotonic
<1> HIDE DEF S
<1>2. /\ word \in Seq(S) /\ word # <<>> /\ Last(word) = c
      /\ Cut(word, Len(word)) = <<b, <<c>>>>
  BY <1>1, LastCutOff
<1> HIDE DEF word
<1>3. rfind(word, Last(word)) = Len(word)
  BY <1>2, LastPlace
<1>4. Head(to_binance_symbol(Symbol("lower", <<b, <<c>>>>)).coins) = word
  BY DEF to_binance_symbol, Symbol, word
<1> QED BY <1>2, <1>3, <1>4 DEF from_binance_symbol

(* A symbol in lower case is a pair, one in upper case a word. *)
CaseOfCoins(symbol) ==
    Len(symbol.coins) = IF symbol.case = "lower" THEN 2 ELSE 1

LEMMA SymbolShape ==
    ASSUME NEW o \in OrderInputs
    PROVE  /\ CaseOfCoins(o.symbol)
           /\ CaseOfCoins(from_binance_symbol(to_binance_symbol(o.symbol)))
<1>1. PICK b \in Base, q \in Quote : o.symbol = Symbol("lower", <<b, q>>)
  BY DEF OrderInputs
<1>2. CaseOfCoins(o.symbol)
  BY <1>1 DEF CaseOfCoins, Symbol
<1> DEFINE up == to_binance_symbol(o.symbol)
<1>3. CaseOfCoins(up)
  BY <1>1 DEF CaseOfCoins, Symbol, to_binance_symbol
<1>4. \/ from_binance_symbol(up) = up
      \/ \E w, k : from_binance_symbol(up) = Symbol("lower", Cut(w, k))
  BY DEF from_binance_symbol
<1>5. ASSUME NEW w, NEW k PROVE CaseOfCoins(Symbol("lower", Cut(w, k)))
  BY DEF CaseOfCoins, Symbol, Cut
<1> HIDE DEF up
<1>6. CaseOfCoins(from_binance_symbol(up))
  BY <1>3, <1>4, <1>5
<1> QED BY <1>2, <1>6 DEF up

(* The words of a side, a type and a status read back as they were said. *)
LEMMA SideComesBack ==
    ASSUME NEW s \in DOMAIN to_binance_side
    PROVE  /\ {from_binance_side[e] :
                  e \in e_side_from_string(e_side_to_string[to_binance_side[s]])} = {s}
           /\ s \in Side
<1>1. s = "Buy" \/ s = "Sell"
  BY DEF to_binance_side
<1>2. CASE s = "Buy"
  <2>1. e_side_to_string[to_binance_side[s]] = "BUY"
    BY <1>2 DEF e_side_to_string, to_binance_side
  <2>2. e_side_from_string("BUY") = {"buy"}
    BY DEF e_side_from_string, Parse
  <2> QED BY <1>2, <2>1, <2>2 DEF from_binance_side, Side
<1>3. CASE s = "Sell"
  <2>1. e_side_to_string[to_binance_side[s]] = "SELL"
    BY <1>3 DEF e_side_to_string, to_binance_side
  <2>2. e_side_from_string("SELL") = {"sell"}
    BY DEF e_side_from_string, Parse
  <2> QED BY <1>3, <2>1, <2>2 DEF from_binance_side, Side
<1> QED BY <1>1, <1>2, <1>3

LEMMA TypeComesBack ==
    ASSUME NEW t \in DOMAIN to_binance_type
    PROVE  /\ {from_binance_type(e) :
                  e \in e_type_from_string(e_type_to_string[to_binance_type[t]])} = {t}
           /\ t \in OrderType
<1>1. t = "Limit" \/ t = "Market"
  BY DEF to_binance_type
<1>2. CASE t = "Limit"
  <2>1. e_type_to_string[to_binance_type[t]] = "LIMIT"
    BY <1>2 DEF e_type_to_string, to_binance_type
  <2>2. e_type_from_string("LIMIT") = {"limit"}
    BY DEF e_type_from_string, Parse
  <2>3. from_binance_type("limit") = "Limit"
    BY DEF from_binance_type
  <2> QED BY <1>2, <2>1, <2>2, <2>3 DEF OrderType
<1>3. CASE t = "Market"
  <2>1. e_type_to_string[to_binance_type[t]] = "MARKET"
    BY <1>3 DEF e_type_to_string, to_binance_type
  <2>2. e_type_from_string("MARKET") = {"market"}
    BY DEF e_type_from_string, Parse
  <2>3. from_binance_type("market") = "Market"
    BY DEF from_binance_type
  <2> QED BY <1>3, <2>1, <2>2, <2>3 DEF OrderType
<1> QED BY <1>1, <1>2, <1>3

(* What is sent of an order. *)
LEMMA SentTerms ==
    ASSUME NEW o \in OrderInputs, Converts(o)
    PROVE  /\ Sent(o) # None
           /\ Sent(o).symbol = to_binance_symbol(o.symbol)
           /\ Sent(o).side = e_side_to_string[to_binance_side[o.side]]
           /\ Sent(o).type = e_type_to_string[to_binance_type[o.order_type]]
           /\ o.order_type = "Limit" => Sent(o).time = "GTC"
           /\ o.order_type # "Limit" => "time" \notin DOMAIN Sent(o)
           /\ o.instrument_type = "Spot" => Sent(o).resp = "FULL"
           /\ o.instrument_type # "Spot" =>
                Sent(o).position_side
                    = e_position_side_to_string[to_binance_direction[o.position_side]]
<1>1. o.order_type \in {"Limit", "Market"}
  BY DEF Converts, to_binance_type
<1> DEFINE extra == IF to_binance_type[o.order_type] = "market" THEN <<>>
                    ELSE [time |-> e_time_to_string["GTC"]]
           T == Terms(o)
<1>2. o.order_type = "Limit" => DOMAIN extra = {"time"} /\ extra["time"] = "GTC"
  BY DEF to_binance_type, e_time_to_string
<1>3. o.order_type # "Limit" => DOMAIN extra = {}
  BY <1>1 DEF to_binance_type
<1>4. /\ DOMAIN T = {"symbol", "side", "type"} \cup DOMAIN extra
      /\ T.symbol = to_binance_symbol(o.symbol)
      /\ T.side = e_side_to_string[to_binance_side[o.side]]
      /\ T.type = e_type_to_string[to_binance_type[o.order_type]]
      /\ o.order_type = "Limit" => T["time"] = extra["time"]
  <2>1. T = ([symbol |-> to_binance_symbol(o.symbol),
                 side |-> e_side_to_string[to_binance_side[o.side]],
                 type |-> e_type_to_string[to_binance_type[o.order_type]]] ++ extra)
    BY DEF Terms
  <2> HIDE DEF extra, T
  <2> QED BY <1>2, <1>3, <2>1 DEF ++
<1> HIDE DEF extra, T
<1>5. CASE o.instrument_type = "Spot"
  <2>1. Sent(o) = (T ++ [resp |-> "FULL"])
    BY <1>5 DEF Sent, new_order, e_trade_resp_type_to_string, T
  <2> QED BY <1>1, <1>2, <1>3, <1>4, <1>5, <2>1 DEF ++, None
<1>6. CASE o.instrument_type # "Spot"
  <2>1. Sent(o) =
          (T ++ [position_side |->
                    e_position_side_to_string[to_binance_direction[o.position_side]]])
    BY <1>6 DEF Sent, future_new_order, T
  <2> QED BY <1>1, <1>2, <1>3, <1>4, <1>6, <2>1 DEF ++, None
<1> QED BY <1>5, <1>6

(* A report has only statuses the books know, and they are final exactly   *)
(* for the words that end an order.                                        *)
LEMMA StatusOfWord ==
    ASSUME NEW w \in Words, NEW s \in Statuses(w)
    PROVE  /\ s \in OrderStatus
           /\ w \notin NewStatus =>
                (is_final_status(s) <=> w \in {"FILLED", "CANCELED", "REJECTED", "EXPIRED"})
<1>1. PICK e \in e_status_from_string(w) : s = from_binance_status(e)
  BY DEF Statuses
<1>2. s \in OrderStatus
  BY <1>1 DEF from_binance_status, OrderStatus
<1>3. ASSUME w \notin NewStatus
      PROVE  is_final_status(s) <=> w \in {"FILLED", "CANCELED", "REJECTED", "EXPIRED"}
  <2>1. PICK x \in e_status : w = e_status_to_string[x]
    BY <1>3 DEF Words
  <2>2. CASE x = "newx"
    <3>1. w = "NEW" BY <2>1, <2>2 DEF e_status_to_string
    <3>2. e = "newx" BY <1>1, <3>1 DEF e_status_from_string, Parse
    <3> QED BY <1>1, <3>1, <3>2 DEF from_binance_status, is_final_status
  <2>3. CASE x = "partially_filled"
    <3>1. w = "PARTIALLY_FILLED" BY <2>1, <2>3 DEF e_status_to_string
    <3>2. e = "partially_filled" BY <1>1, <3>1 DEF e_status_from_string, Parse
    <3> QED BY <1>1, <3>1, <3>2 DEF from_binance_status, is_final_status
  <2>4. CASE x = "filled"
    <3>1. w = "FILLED" BY <2>1, <2>4 DEF e_status_to_string
    <3>2. e = "filled" BY <1>1, <3>1 DEF e_status_from_string, Parse
    <3> QED BY <1>1, <3>1, <3>2 DEF from_binance_status, is_final_status
  <2>5. CASE x = "canceled"
    <3>1. w = "CANCELED" BY <2>1, <2>5 DEF e_status_to_string
    <3>2. e = "canceled" BY <1>1, <3>1 DEF e_status_from_string, Parse
    <3> QED BY <1>1, <3>1, <3>2 DEF from_binance_status, is_final_status
  <2>6. CASE x = "pending_cancel"
    <3>1. w = "PENDING_CANCEL" BY <2>1, <2>6 DEF e_status_to_string
    <3>2. e = "pending_cancel" BY <1>1, <3>1 DEF e_status_from_string, Parse
    <3> QED BY <1>1, <3>1, <3>2 DEF from_binance_status, is_final_status
  <2>7. CASE x = "rejected"
    <3>1. w = "REJECTED" BY <2>1, <2>7 DEF e_status_to_string
    <3>2. e = "rejected" BY <1>1, <3>1 DEF e_status_from_string, Parse
    <3> QED BY <1>1, <3>1, <3>2 DEF from_binance_status, is_final_status
  <2>8. CASE x = "expired"
    <3>1. w = "EXPIRED" BY <2>1, <2>8 DEF e_status_to_string
    <3>2. e = "expired" BY <1>1, <3>1 DEF e_status_from_string, Parse
    <3> QED BY <1>1, <3>1, <3>2 DEF from_binance_status, is_final_status
  <2> QED BY <2>1, <2>2, <2>3, <2>4, <2>5, <2>6, <2>7, <2>8 DEF e_status
<1> QED BY <1>2, <1>3

(* An input is no None, and neither is what is sent. *)
LEMMA InputIsSomething == \A o \in OrderInputs : o # None
BY DEF OrderInputs, None

LEMMA SentIsSomething == \A s : <<s>> # None /\ Head(<<s>>) = s
BY DEF None

(* The initial state. *)
LEMMA CodeInitInv == CodeInit => CodeIInv
BY DEF CodeInit, CodeIInv

(* Every step keeps the invariant. *)
LEMMA CodeNextInv == CodeIInv /\ [CodeNext]_codeVars => CodeIInv'
<1> SUFFICES ASSUME CodeIInv, [CodeNext]_codeVars PROVE CodeIInv'
  OBVIOUS
<1>1. ASSUME NEW o \in OrderInputs, insert_order(o)
      PROVE  CodeIInv'
  <2>1. input = None /\ input' = o /\ o # None /\ UNCHANGED <<said, report>>
    BY <1>1, InputIsSomething DEF insert_order
  <2>2. sent = None /\ said = None /\ report = None
    BY <2>1 DEF CodeIInv
  <2>3. sent' # None =>
          /\ Converts(o) /\ o.instrument_type \in {"Spot", "FFuture"}
          /\ sent' = Sent(o)
    BY <1>1 DEF insert_order, Sent
  <2> QED BY <2>1, <2>2, <2>3 DEF CodeIInv
<1>2. ASSUME NEW w \in Words, ExchangeSays(w)
      PROVE  CodeIInv'
  BY <1>2 DEF ExchangeSays, CodeIInv
<1>3. CASE OnUpdate
  <2>1. /\ said # None /\ UNCHANGED <<input, sent, said>>
        /\ report'.status \in Statuses(Head(said))
        /\ report'.symbol = from_binance_symbol(sent.symbol)
        /\ report'.side = input.side /\ report'.order_type = input.order_type
    BY <1>3 DEF OnUpdate
  <2> QED BY <2>1 DEF CodeIInv
<1>4. CASE OnOrderInfo
  <2>1. /\ said # None /\ UNCHANGED <<input, sent, said>>
        /\ report'.status \in Statuses(Head(said))
        /\ report'.symbol = input.symbol
        /\ report'.side \in {from_binance_side[s] : s \in e_side_from_string(sent.side)}
        /\ report'.order_type \in {from_binance_type(t) : t \in e_type_from_string(sent.type)}
    BY <1>4 DEF OnOrderInfo
  <2> QED BY <2>1 DEF CodeIInv
<1>5. CASE UNCHANGED codeVars
  BY <1>5 DEF codeVars, CodeIInv
<1> QED BY <1>1, <1>2, <1>3, <1>4, <1>5 DEF CodeNext, Words

(* Everything a report says goes back to what the trader was asked. *)
LEMMA CodeInvTerms == CodeIInv => TermsKept
<1> SUFFICES ASSUME CodeIInv PROVE TermsKept
  OBVIOUS
<1>1. ASSUME sent # None
      PROVE  /\ input \in OrderInputs /\ Converts(input) /\ sent = Sent(input)
             /\ input.instrument_type \in {"Spot", "FFuture"}
  BY <1>1 DEF CodeIInv
<1>2. ASSUME report # None
      PROVE  /\ report.side = input.side /\ report.order_type = input.order_type
             /\ report.side \in Side /\ report.order_type \in OrderType
  <2>1. sent # None /\ said # None
    BY <1>2 DEF CodeIInv
  <2>2. /\ input.side \in DOMAIN to_binance_side
        /\ input.order_type \in DOMAIN to_binance_type
        /\ sent.side = e_side_to_string[to_binance_side[input.side]]
        /\ sent.type = e_type_to_string[to_binance_type[input.order_type]]
    BY <1>1, <2>1, SentTerms DEF Converts
  <2>3. \/ report.side = input.side /\ report.order_type = input.order_type
        \/ /\ report.side \in {from_binance_side[s] : s \in e_side_from_string(sent.side)}
           /\ report.order_type \in {from_binance_type(t) : t \in e_type_from_string(sent.type)}
    BY <1>2 DEF CodeIInv
  <2>4. /\ {from_binance_side[s] : s \in e_side_from_string(sent.side)} = {input.side}
        /\ input.side \in Side
    BY <2>2, SideComesBack
  <2>5. /\ {from_binance_type(t) : t \in e_type_from_string(sent.type)} = {input.order_type}
        /\ input.order_type \in OrderType
    BY <2>2, TypeComesBack
  <2> QED BY <2>3, <2>4, <2>5
<1>3. ASSUME report # None
      PROVE  /\ CaseOfCoins(report.symbol)
             /\ input.symbol.coins[2] \in {<<c>> : c \in quote_coins} =>
                   report.symbol = input.symbol
  <2>1. sent # None /\ said # None
    BY <1>3 DEF CodeIInv
  <2>2. input \in OrderInputs /\ sent.symbol = to_binance_symbol(input.symbol)
    BY <1>1, <2>1, SentTerms
  <2>3. \/ report.symbol = from_binance_symbol(to_binance_symbol(input.symbol))
        \/ report.symbol = input.symbol
    BY <1>3, <2>2 DEF CodeIInv
  <2>4. CaseOfCoins(report.symbol)
    BY <2>2, <2>3, SymbolShape
  <2>5. ASSUME input.symbol.coins[2] \in {<<c>> : c \in quote_coins}
        PROVE  from_binance_symbol(to_binance_symbol(input.symbol)) = input.symbol
    <3>1. PICK b \in Base, q \in Quote : input.symbol = Symbol("lower", <<b, q>>)
      BY <2>2 DEF OrderInputs
    <3>2. PICK c \in quote_coins : q = <<c>>
      BY <2>5, <3>1 DEF Symbol
    <3> QED BY <3>1, <3>2, SymbolComesBack
  <2> QED BY <2>3, <2>4, <2>5
<1>4. CodeTypeOK
  <2>1. ASSUME report # None PROVE report.status \in OrderStatus
    <3>1. PICK w \in Words : said = <<w>>
      BY <2>1 DEF CodeIInv
    <3>2. report.status \in Statuses(w)
      BY <2>1, <3>1, SentIsSomething DEF CodeIInv
    <3> QED BY <3>2, StatusOfWord
  <2> QED BY <1>2, <1>3, <2>1 DEF CodeTypeOK, CaseOfCoins
<1>5. Understood
  <2> SUFFICES ASSUME sent # None
               PROVE  /\ IF input.order_type = "Limit" THEN e_time_from_string(sent.time) = {"GTC"}
                         ELSE "time" \notin DOMAIN sent
                      /\ IF input.instrument_type = "Spot"
                         THEN e_trade_resp_type_from_string(sent.resp) = {"FULL"}
                         ELSE e_position_side_from_string(sent.position_side)
                                  = {to_binance_direction[input.position_side]}
    BY DEF Understood
  <2>1. e_time_from_string("GTC") = {"GTC"}
    BY DEF e_time_from_string, Parse
  <2>2. e_trade_resp_type_from_string("FULL") = {"FULL"}
    BY DEF e_trade_resp_type_from_string, Parse
  <2>3. ASSUME NEW d \in Direction
        PROVE  e_position_side_from_string(e_position_side_to_string[to_binance_direction[d]])
                   = {to_binance_direction[d]}
    <3>1. e_position_side_from_string("LONG") = {"p_long"}
      BY DEF e_position_side_from_string, Parse
    <3>2. e_position_side_from_string("SHORT") = {"p_short"}
      BY DEF e_position_side_from_string, Parse
    <3>3. CASE d = "Long"
      BY <3>1, <3>3 DEF to_binance_direction, e_position_side_to_string
    <3>4. CASE d = "Short"
      BY <3>2, <3>4 DEF to_binance_direction, e_position_side_to_string
    <3> QED BY <3>3, <3>4 DEF Direction
  <2>4. input.position_side \in Direction
    BY <1>1 DEF OrderInputs
  <2> QED BY <1>1, <2>1, <2>2, <2>3, <2>4, SentTerms
<1>6. ReportIsOfInput
  BY <1>2, <1>3 DEF ReportIsOfInput
<1> QED BY <1>4, <1>5, <1>6 DEF TermsKept

LEMMA CodeInvFinal == CodeIInv => FinalWhenDone
<1> SUFFICES ASSUME CodeIInv, report # None, Head(said) \notin NewStatus
             PROVE  is_final_status(report.status)
                       <=> Head(said) \in {"FILLED", "CANCELED", "REJECTED", "EXPIRED"}
  BY DEF FinalWhenDone
<1>1. PICK w \in Words : said = <<w>>
  BY DEF CodeIInv
<1>2. Head(said) = w /\ report.status \in Statuses(w)
  BY <1>1, SentIsSomething DEF CodeIInv
<1> QED BY <1>2, StatusOfWord

(* The invariant holds in every state. *)
LEMMA CodeInvariant == CodeSpec => []CodeIInv
<1>1. CodeIInv /\ [CodeNext]_codeVars => CodeIInv'
  BY CodeNextInv
<1> QED BY CodeInitInv, <1>1, PTL DEF CodeSpec

(* For every coin and every order: what a report says are the terms of the *)
(* input of the order, through both enumerations and both spellings of a   *)
(* symbol (type_convert_binance.h, enums.cpp, trader_binance.cpp).         *)
THEOREM TermsKeptAlways == CodeSpec => []TermsKept
BY CodeInvariant, CodeInvTerms, PTL

(* A report is final exactly when the exchange is done with the order,     *)
(* whatever words are added to its statuses (from_binance(status),         *)
(* is_final_status).                                                       *)
THEOREM FinalWhenDoneAlways == CodeSpec => []FinalWhenDone
BY CodeInvariant, CodeInvFinal, PTL

-----------------------------------------------------------------------------
(* Messages: the records of the journal.                                   *)

(* The members of a struct when every name is as it was set last. *)
MemberIs(s, w) ==
    [m \in Fields(s) |-> Val(m, IF m \in Names THEN w[m] ELSE "number")]

(* What to_json writes of a struct. *)
Dump(k, members) ==
    [m \in Json[k].writes |->
        IF m \in Names THEN Getter(Structs[k], members, m) ELSE <<members[m]>>]

(* What from_json makes of it. *)
Loaded(k, members, dump) ==
    [m \in DOMAIN members |->
        IF m \in DOMAIN Json[k].reads
        THEN IF Json[k].reads[m] \in DOMAIN dump THEN Head(dump[Json[k].reads[m]])
             ELSE Val(m, "junk")
        ELSE Val(m, "stale")]

MessageIInv ==
    /\ sets \in 0 .. MaxSet
    /\ \/ /\ kind = NoFrame /\ mem = Empty /\ wrote = Empty
          /\ dumped = Empty /\ back = Empty /\ order = Empty
       \/ /\ kind \in DOMAIN Structs
          /\ wrote \in [Fields(Structs[kind]) \cap Names -> Given \cup {"empty"}]
          /\ mem = MemberIs(Structs[kind], wrote)
          /\ dumped # Empty => dumped = Dump(kind, mem)
          /\ back # Empty =>
               /\ dumped # Empty /\ Json[kind].reads # <<>>
               /\ back = Loaded(kind, mem, dumped)
          /\ order # Empty => kind = "OrderInput" /\ order \in Filled

-----------------------------------------------------------------------------
(* The least of a set that has one. *)
LEMMA MinIs ==
    ASSUME NEW S \in SUBSET Int, NEW x \in S, \A y \in S : x <= y
    PROVE  Min(S) = x
<1>1. \A z \in S : (\A y \in S : z <= y) => z = x
  OBVIOUS
<1> QED BY <1>1 DEF Min

LEMMA LeastNat ==
    ASSUME NEW T, T \subseteq Nat, T # {}
    PROVE  \E n \in T : \A m \in T : n <= m
<1> DEFINE R == OpToRel(<, Nat)
<1>1. IsWellFoundedOn(R, Nat)
  BY NatLessThanWellFounded
<1>2. \E x \in T : \A y \in T : ~(<<y, x>> \in R)
  <2> HIDE DEF R
  <2> QED BY <1>1, WFMin
<1>3. PICK n \in T : \A m \in T : <<m, n>> \notin R
  BY <1>2
<1>4. ASSUME NEW m \in T PROVE n <= m
  <2>1. <<m, n>> \notin R
    BY <1>3
  <2>2. m \in Nat /\ n \in Nat
    OBVIOUS
  <2>3. ~(m < n)
    BY <2>1, <2>2 DEF OpToRel
  <2> QED BY <2>2, <2>3
<1> QED BY <1>4

(* The place of a member of a struct. *)
LEMMA PlaceIs ==
    ASSUME NEW s, NEW m \in Fields(s)
    PROVE  Place(s, m) \in DOMAIN s /\ s[Place(s, m)] = m
BY DEF Place, Fields

(* A name starts with its own member; one that fits its array ends there. *)
LEMMA GetterStarts ==
    ASSUME NEW s, NEW n \in Nat, DOMAIN s = 1 .. n, Len(s) = n,
           NEW m \in Fields(s) \cap Names, NEW members
    PROVE  /\ Head(Getter(s, members, m)) = members[m]
           /\ members[m].how # "full" => Getter(s, members, m) = <<members[m]>>
<1> DEFINE at      == Place(s, m)
           name(i) == i \in DOMAIN s /\ s[i] \in Names
           ends    == {i \in at .. Len(s) + 1 : name(i) => members[s[i]].how # "full"}
           nul     == Min(ends)
           get     == [k \in 1 .. nul - at + 1 |->
                         IF name(at + k - 1) THEN members[s[at + k - 1]] ELSE "bytes"]
<1>1. at \in 1 .. n /\ s[at] = m /\ name(at)
  BY PlaceIs
<1>2. Getter(s, members, m) = get
  BY DEF Getter
<1> HIDE DEF at
<1>3. ends \subseteq Nat /\ (\A i \in ends : at <= i /\ i \in Int) /\ n + 1 \in ends
  BY <1>1
<1> HIDE DEF ends
<1>4. nul \in Int /\ at <= nul /\ (at \in ends => nul = at)
  <2>1. PICK x \in ends : \A y \in ends : x <= y
    BY <1>3, LeastNat
  <2>2. nul = x
    BY <1>3, <2>1, MinIs
  <2> QED BY <1>1, <1>3, <2>1, <2>2
<1> HIDE DEF nul
<1>5. 1 \in 1 .. nul - at + 1 /\ at + 1 - 1 = at
  BY <1>1, <1>4
<1>6. get[1] = members[m]
  <2>1. get[1] = IF name(at + 1 - 1) THEN members[s[at + 1 - 1]] ELSE "bytes"
    BY <1>5
  <2> HIDE DEF name, get
  <2> QED BY <1>1, <1>5, <2>1
<1>7. Head(get) = members[m]
  BY <1>6
<1>8. ASSUME members[m].how # "full" PROVE get = <<members[m]>>
  <2>1. at \in ends
    BY <1>1, <1>8 DEF ends
  <2>2. 1 .. nul - at + 1 = {1}
    BY <1>1, <1>4, <2>1
  <2>3. get = [k \in {1} |-> members[m]]
    <3>1. \A k \in {1} : at + k - 1 = at
      BY <1>1
    <3> HIDE DEF name
    <3> QED BY <1>1, <2>2, <3>1
  <2> HIDE DEF get
  <2>4. <<members[m]>> = [k \in {1} |-> members[m]]
    OBVIOUS
  <2> QED BY <2>3, <2>4
<1> QED BY <1>2, <1>7, <1>8

-----------------------------------------------------------------------------
(* The structs. *)
LEMMA StructIsSequence ==
    ASSUME NEW k \in DOMAIN Structs
    PROVE  \E n \in Nat : DOMAIN Structs[k] = 1 .. n /\ Len(Structs[k]) = n
<1>1. CASE k = "Instrument" BY <1>1 DEF Structs, Instrument
<1>2. CASE k = "Ticker" BY <1>2 DEF Structs, Ticker
<1>3. CASE k = "Depth" BY <1>3 DEF Structs, Depth
<1>4. CASE k = "Trade" BY <1>4 DEF Structs, Trade
<1>5. CASE k = "IndexPrice" BY <1>5 DEF Structs, IndexPrice
<1>6. CASE k = "Bar" BY <1>6 DEF Structs, Bar
<1>7. CASE k = "OrderInput" BY <1>7 DEF Structs, OrderInput
<1>8. CASE k = "OrderAction" BY <1>8 DEF Structs, OrderAction
<1>9. CASE k = "OrderActionError" BY <1>9 DEF Structs, OrderActionError
<1>10. CASE k = "Order" BY <1>10 DEF Structs, Order
<1>11. CASE k = "MyTrade" BY <1>11 DEF Structs, MyTrade
<1>12. CASE k = "Asset" BY <1>12 DEF Structs, Asset
<1>13. CASE k = "Position" BY <1>13 DEF Structs, Position
<1> QED BY <1>1, <1>2, <1>3, <1>4, <1>5, <1>6, <1>7, <1>8, <1>9, <1>10, <1>11, <1>12, <1>13
        DEF Structs

(* The JSON of a struct is not read, or every member that is not lost is   *)
(* read from the key it was written to.                                    *)
NotLost(k, m) == ~(k \in DOMAIN Lost /\ m \in Lost[k])
ReadBack(F, k, codec) ==
    \/ codec.reads = <<>>
    \/ \A m \in F : NotLost(k, m) =>
          m \in DOMAIN codec.reads /\ codec.reads[m] = m /\ m \in codec.writes

LEMMA BothReadBack ==
    ASSUME NEW F, NEW k
    PROVE  ReadBack(F, k, Both(F))
BY DEF ReadBack, Both, JsonOf, Same

LEMMA WriteOnlyReadBack ==
    ASSUME NEW F, NEW k, NEW S
    PROVE  ReadBack(F, k, WriteOnly(S))
BY DEF ReadBack, WriteOnly, JsonOf

LEMMA JsonReadsBack ==
    ASSUME NEW k \in DOMAIN Structs
    PROVE  ReadBack(Fields(Structs[k]), k, Json[k])
<1>1. CASE k = "Instrument"
  <2>1. Json[k] = Instrument_json BY <1>1 DEF Json
  <2> QED BY <2>1, WriteOnlyReadBack DEF Instrument_json
<1>2. CASE k = "Ticker"
  <2>1. Json[k] = Ticker_json /\ Structs[k] = Ticker BY <1>2 DEF Json, Structs
  <2> QED BY <2>1, BothReadBack DEF Ticker_json
<1>3. CASE k = "Depth"
  <2>1. Json[k] = Depth_json /\ Structs[k] = Depth BY <1>3 DEF Json, Structs
  <2>2. k \in DOMAIN Lost /\ Lost[k] = {"source_id"} BY <1>3 DEF Lost
  <2> QED BY <2>1, <2>2 DEF Depth_json, ReadBack, NotLost, JsonOf, Same
<1>4. CASE k = "Trade"
  <2>1. Json[k] = Trade_json /\ Structs[k] = Trade BY <1>4 DEF Json, Structs
  <2> QED BY <2>1, BothReadBack DEF Trade_json
<1>5. CASE k = "IndexPrice"
  <2>1. Json[k] = IndexPrice_json /\ Structs[k] = IndexPrice BY <1>5 DEF Json, Structs
  <2> QED BY <2>1, BothReadBack DEF IndexPrice_json
<1>6. CASE k = "Bar"
  <2>1. Json[k] = Bar_json BY <1>6 DEF Json
  <2> QED BY <2>1, WriteOnlyReadBack DEF Bar_json
<1>7. CASE k = "OrderInput"
  <2>1. Json[k] = OrderInput_json /\ Structs[k] = OrderInput BY <1>7 DEF Json, Structs
  <2>2. k \in DOMAIN Lost /\ Lost[k] = {"order_id"} BY <1>7 DEF Lost
  <2> QED BY <2>1, <2>2 DEF OrderInput_json, ReadBack, NotLost, JsonOf, Same
<1>8. CASE k = "OrderAction"
  <2>1. Json[k] = OrderAction_json /\ Structs[k] = OrderAction BY <1>8 DEF Json, Structs
  <2> QED BY <2>1, BothReadBack DEF OrderAction_json
<1>9. CASE k = "OrderActionError"
  <2>1. Json[k] = OrderActionError_json /\ Structs[k] = OrderActionError
    BY <1>9 DEF Json, Structs
  <2> QED BY <2>1, BothReadBack DEF OrderActionError_json
<1>10. CASE k = "Order"
  <2>1. Json[k] = Order_json /\ Structs[k] = Order BY <1>10 DEF Json, Structs
  <2>2. k \in DOMAIN Lost /\ Lost[k] = {"avg_price"} BY <1>10 DEF Lost
  <2> QED BY <2>1, <2>2 DEF Order_json, ReadBack, NotLost, Both, JsonOf, Same
<1>11. CASE k = "MyTrade"
  <2>1. Json[k] = MyTrade_json /\ Structs[k] = MyTrade BY <1>11 DEF Json, Structs
  <2> QED BY <2>1, BothReadBack DEF MyTrade_json
<1>12. CASE k = "Asset"
  <2>1. Json[k] = Asset_json BY <1>12 DEF Json
  <2> QED BY <2>1, WriteOnlyReadBack DEF Asset_json
<1>13. CASE k = "Position"
  <2>1. Json[k] = Position_json BY <1>13 DEF Json
  <2> QED BY <2>1, WriteOnlyReadBack DEF Position_json
<1> QED BY <1>1, <1>2, <1>3, <1>4, <1>5, <1>6, <1>7, <1>8, <1>9, <1>10, <1>11, <1>12, <1>13
        DEF Structs

-----------------------------------------------------------------------------
(* The record and its histories. *)
LEMMA NoFrameIsNoStruct == NoFrame \notin DOMAIN Structs
BY DEF NoFrame, Structs

LEMMA MessageInitInv == MessageInit => MessageIInv
BY MessagesAssumption DEF MessageInit, MessageIInv

LEMMA MessageNextInv == MessageIInv /\ [MessageNext]_messageVars => MessageIInv'
<1> SUFFICES ASSUME MessageIInv, [MessageNext]_messageVars PROVE MessageIInv'
  OBVIOUS
<1>1. ASSUME NEW k \in DOMAIN Structs, OpenData(k)
      PROVE  MessageIInv'
  <2>1. /\ kind = NoFrame /\ kind' = k /\ UNCHANGED <<sets, dumped, back, order>>
        /\ mem' = [m \in Fields(Structs[k]) |->
                      Val(m, IF m \in Names THEN "empty" ELSE "number")]
        /\ wrote' = [m \in Fields(Structs[k]) \cap Names |-> "empty"]
    BY <1>1 DEF OpenData
  <2>2. dumped = Empty /\ back = Empty /\ order = Empty /\ sets \in 0 .. MaxSet
    BY <2>1, NoFrameIsNoStruct DEF MessageIInv
  <2>3. wrote' \in [Fields(Structs[k]) \cap Names -> Given \cup {"empty"}]
    BY <2>1
  <2>4. mem' = MemberIs(Structs[k], wrote')
    BY <2>1 DEF MemberIs
  <2> QED BY <2>1, <2>2, <2>3, <2>4 DEF MessageIInv
<1>2. ASSUME NEW m \in Names, NEW how \in Given, SetName(m, how)
      PROVE  MessageIInv'
  <2>1. /\ sets < MaxSet /\ dumped = Empty /\ order = Empty
        /\ m \in DOMAIN mem /\ mem' = [mem EXCEPT ![m] = Val(m, how)]
        /\ sets' = sets + 1 /\ wrote' = [wrote EXCEPT ![m] = how]
        /\ UNCHANGED <<kind, dumped, back, order>>
    BY <1>2 DEF SetName, Strncpy
  <2>2. mem # Empty
    BY <2>1 DEF Empty
  <2>3. /\ kind \in DOMAIN Structs
        /\ wrote \in [Fields(Structs[kind]) \cap Names -> Given \cup {"empty"}]
        /\ mem = MemberIs(Structs[kind], wrote)
        /\ back = Empty /\ sets \in 0 .. MaxSet
    BY <2>1, <2>2 DEF MessageIInv
  <2>4. sets' \in 0 .. MaxSet
    BY <2>1, <2>3, MessagesAssumption
  <2>5. wrote' \in [Fields(Structs[kind]) \cap Names -> Given \cup {"empty"}]
    BY <2>1, <2>3
  <2>6. mem' = MemberIs(Structs[kind], wrote')
    <3>1. m \in Fields(Structs[kind])
      BY <2>1, <2>3 DEF MemberIs
    <3> QED BY <2>1, <2>3, <3>1 DEF MemberIs
  <2> QED BY <2>1, <2>3, <2>4, <2>5, <2>6 DEF MessageIInv
<1>3. CASE ToJson
  <2>1. /\ kind # NoFrame /\ dumped = Empty /\ dumped' = Dump(kind, mem)
        /\ UNCHANGED <<kind, mem, sets, wrote, back, order>>
    BY <1>3 DEF ToJson, Dump
  <2>2. Filled' = Filled
    BY <2>1 DEF Filled, Names4, Ids, Numbers
  <2> QED BY <2>1, <2>2 DEF MessageIInv
<1>4. CASE FromJson
  <2>1. /\ dumped # Empty /\ back = Empty /\ Json[kind].reads # <<>>
        /\ back' = Loaded(kind, mem, dumped)
        /\ UNCHANGED <<kind, mem, sets, wrote, dumped, order>>
    BY <1>4 DEF FromJson, Loaded
  <2>2. Filled' = Filled
    BY <2>1 DEF Filled, Names4, Ids, Numbers
  <2> QED BY <2>1, <2>2 DEF MessageIInv
<1>5. CASE OrderFromInput
  <2>1. /\ kind = "OrderInput" /\ order = Empty /\ order' \in Filled
        /\ UNCHANGED <<kind, mem, sets, wrote, dumped, back>>
    BY <1>5 DEF OrderFromInput
  <2>2. Filled' = Filled
    BY <2>1 DEF Filled, Names4, Ids, Numbers
  <2>3. kind # NoFrame
    BY <2>1 DEF NoFrame
  <2> QED BY <2>1, <2>2, <2>3 DEF MessageIInv
<1>6. CASE UNCHANGED messageVars
  <2>1. UNCHANGED <<kind, mem, sets, wrote, dumped, back, order>>
    BY <1>6 DEF messageVars
  <2>2. Filled' = Filled
    BY <2>1 DEF Filled, Names4, Ids, Numbers
  <2> QED BY <2>1, <2>2 DEF MessageIInv
<1> QED BY <1>1, <1>2, <1>3, <1>4, <1>5, <1>6 DEF MessageNext

LEMMA MessageInvariant == MessageSpec => []MessageIInv
<1>1. MessageIInv /\ [MessageNext]_messageVars => MessageIInv'
  BY MessageNextInv
<1> QED BY MessageInitInv, <1>1, PTL DEF MessageSpec

(* The members of a record are those of its struct. *)
LEMMA MembersOfRecord ==
    ASSUME MessageIInv, kind # NoFrame
    PROVE  /\ kind \in DOMAIN Structs
           /\ DOMAIN mem = Fields(Structs[kind])
           /\ DOMAIN wrote = Fields(Structs[kind]) \cap Names
           /\ \A m \in DOMAIN wrote : mem[m] = Val(m, wrote[m])
           /\ \A m \in DOMAIN mem : mem[m].how \in Given \cup {"empty", "number"}
<1>1. /\ kind \in DOMAIN Structs
      /\ wrote \in [Fields(Structs[kind]) \cap Names -> Given \cup {"empty"}]
      /\ mem = MemberIs(Structs[kind], wrote)
  BY DEF MessageIInv
<1>2. \A m \in DOMAIN mem : mem[m].how \in Given \cup {"empty", "number"}
  BY <1>1 DEF MemberIs, Val
<1> QED BY <1>1, <1>2 DEF MemberIs

(* Names are read as they were set. *)
LEMMA MessageInvNames == MessageIInv => NamesApart
<1> SUFFICES ASSUME MessageIInv, NEW m \in DOMAIN wrote, wrote[m] # "full"
             PROVE  Getter(Structs[kind], mem, m) = <<Val(m, wrote[m])>>
  BY DEF NamesApart
<1>1. kind # NoFrame
  BY NoFrameIsNoStruct DEF MessageIInv, Empty
<1>2. /\ kind \in DOMAIN Structs /\ m \in Fields(Structs[kind]) \cap Names
      /\ mem[m] = Val(m, wrote[m])
  BY <1>1, MembersOfRecord
<1>3. mem[m].how # "full"
  BY <1>2 DEF Val
<1>4. PICK n \in Nat : DOMAIN Structs[kind] = 1 .. n /\ Len(Structs[kind]) = n
  BY <1>2, StructIsSequence
<1>5. Getter(Structs[kind], mem, m) = <<mem[m]>>
  BY <1>2, <1>3, <1>4, GetterStarts
<1> QED BY <1>2, <1>5

(* What is read from the JSON is what was written. *)
LEMMA MessageInvJson == MessageIInv => JsonKeeps
<1> SUFFICES ASSUME MessageIInv, back # Empty, NEW m \in DOMAIN mem, NotLost(kind, m)
             PROVE  back[m] = mem[m]
  BY DEF JsonKeeps, NotLost
<1>1. kind # NoFrame
  BY NoFrameIsNoStruct DEF MessageIInv, Empty
<1>2. /\ kind \in DOMAIN Structs /\ DOMAIN mem = Fields(Structs[kind])
      /\ dumped = Dump(kind, mem) /\ back = Loaded(kind, mem, dumped)
      /\ Json[kind].reads # <<>>
  BY <1>1, MembersOfRecord DEF MessageIInv
<1>3. PICK n \in Nat : DOMAIN Structs[kind] = 1 .. n /\ Len(Structs[kind]) = n
  BY <1>2, StructIsSequence
<1>4. m \in DOMAIN Json[kind].reads /\ Json[kind].reads[m] = m /\ m \in Json[kind].writes
  BY <1>2, JsonReadsBack DEF ReadBack
<1>5. m \in DOMAIN dumped /\ back[m] = Head(dumped[m])
  BY <1>2, <1>4 DEF Loaded, Dump
<1>6. Head(dumped[m]) = mem[m]
  <2>1. CASE m \in Names
    <3>1. dumped[m] = Getter(Structs[kind], mem, m)
      BY <1>2, <1>4, <2>1 DEF Dump
    <3> QED BY <1>2, <1>3, <2>1, <3>1, GetterStarts
  <2>2. CASE m \notin Names
    <3>1. dumped[m] = <<mem[m]>>
      BY <1>2, <1>4, <2>2 DEF Dump
    <3> QED BY <3>1
  <2> QED BY <2>1, <2>2
<1> QED BY <1>5, <1>6

-----------------------------------------------------------------------------
(* The order made of an input. *)

(* Where the members of an order are. *)
OrderNames == {"symbol", "exchange_id", "account_id", "source_id"}
OrderIds   == {"strategy_id", "order_id"}

LEMMA OrderLayout ==
    /\ DOMAIN Order = 1 .. 25 /\ Len(Order) = 25
    /\ \A i \in DOMAIN Order : Order[i] \in OrderIds => i <= 2
    /\ \A i \in DOMAIN Order : Order[i] \in OrderNames => i >= 4
    /\ OrderNames \cup OrderIds \cup CopiedNumbers \cup SetNumbers \subseteq Fields(Order)
<1>1. DOMAIN Order = 1 .. 25 /\ Len(Order) = 25
  BY DEF Order
<1>2. Order[1] = "strategy_id" /\ Order[2] = "order_id" /\ Order[3] = "ex_order_id"
  BY DEF Order
<1>3. \A i \in 4 .. 25 : Order[i] \notin OrderIds
  BY DEF Order, OrderIds
<1>4. \A i \in 1 .. 3 : Order[i] \notin OrderNames
  <2>1. \A i \in 1 .. 3 : i = 1 \/ i = 2 \/ i = 3
    OBVIOUS
  <2> QED BY <1>2, <2>1 DEF OrderNames
<1>5. /\ "symbol" = Order[4] /\ "exchange_id" = Order[6]
      /\ "account_id" = Order[7] /\ "source_id" = Order[8]
  BY DEF Order
<1>6. /\ Order[5] = "instrument_type" /\ Order[9] = "price" /\ Order[10] = "volume"
      /\ Order[11] = "volume_traded" /\ Order[12] = "volume_left" /\ Order[13] = "stop_price"
      /\ Order[14] = "close_pnl" /\ Order[18] = "status" /\ Order[19] = "time_condition"
      /\ Order[20] = "side" /\ Order[21] = "position_side" /\ Order[22] = "order_type"
  BY DEF Order
<1>7. OrderNames \cup OrderIds \subseteq Fields(Order)
  BY <1>1, <1>2, <1>5 DEF OrderNames, OrderIds, Fields
<1>8. CopiedNumbers \cup SetNumbers \subseteq Fields(Order)
  BY <1>1, <1>6 DEF CopiedNumbers, SetNumbers, Fields
<1>9. \A i \in DOMAIN Order : Order[i] \in OrderIds => i <= 2
  <2>1. \A i \in 1 .. 25 : i <= 3 \/ i \in 4 .. 25
    OBVIOUS
  <2>2. Order[3] \notin OrderIds
    BY <1>2 DEF OrderIds
  <2>3. \A i \in 1 .. 25 : i <= 3 /\ i # 3 => i <= 2
    OBVIOUS
  <2> QED BY <1>1, <1>3, <2>1, <2>2, <2>3
<1>10. \A i \in DOMAIN Order : Order[i] \in OrderNames => i >= 4
  <2>1. \A i \in 1 .. 25 : i \in 1 .. 3 \/ i >= 4
    OBVIOUS
  <2> QED BY <1>1, <1>4, <2>1
<1> QED BY <1>1, <1>7, <1>8, <1>9, <1>10

(* The names of an input are those an order takes. *)
LEMMA InputLayout ==
    /\ Fields(OrderInput) \cap Names = OrderNames
    /\ OrderIds \cup CopiedNumbers \subseteq Fields(OrderInput)
<1>1. Fields(OrderInput) =
        {"strategy_id", "order_id", "symbol", "exchange_id", "source_id", "account_id",
         "instrument_type", "price", "stop_price", "volume", "side", "position_side",
         "order_type", "time_condition", "reduce_only"}
  <2>1. DOMAIN OrderInput = 1 .. 15
    BY DEF OrderInput
  <2>2. \A i \in 1 .. 15 : i \in {1, 2, 3, 4, 5, 6, 7, 8, 9, 10, 11, 12, 13, 14, 15}
    OBVIOUS
  <2>3. /\ OrderInput[1] = "strategy_id" /\ OrderInput[2] = "order_id"
        /\ OrderInput[3] = "symbol" /\ OrderInput[4] = "exchange_id"
        /\ OrderInput[5] = "source_id" /\ OrderInput[6] = "account_id"
        /\ OrderInput[7] = "instrument_type" /\ OrderInput[8] = "price"
        /\ OrderInput[9] = "stop_price" /\ OrderInput[10] = "volume"
        /\ OrderInput[11] = "side" /\ OrderInput[12] = "position_side"
        /\ OrderInput[13] = "order_type" /\ OrderInput[14] = "time_condition"
        /\ OrderInput[15] = "reduce_only"
    BY DEF OrderInput
  <2>4. Fields(OrderInput) = {OrderInput[i] : i \in 1 .. 15}
    BY <2>1 DEF Fields
  <2> QED BY <2>2, <2>3, <2>4
<1> QED BY <1>1 DEF OrderNames, OrderIds, CopiedNumbers, Names

(* strcpy leaves the ids alone; a text that fits changes its name only. *)
LEMMA StrcpyOnOrder ==
    ASSUME NEW m \in OrderNames, NEW o, NEW text, NEW p \in Strcpy(Order, o, m, text)
    PROVE  /\ DOMAIN p = DOMAIN o
           /\ \A x \in OrderIds \cap DOMAIN o : p[x] = o[x]
           /\ Len(text) = 1 =>
                p = [x \in DOMAIN o |-> IF x = m THEN Head(text) ELSE o[x]]
<1> DEFINE at == Place(Order, m)
           over(n) == {Order[i] : i \in (at + 1) .. (at + n)}
           copy(n) == [x \in DOMAIN o |->
                         IF x = m THEN Head(text)
                         ELSE IF x \in over(n) THEN Val(x, "junk") ELSE o[x]]
<1>1. PICK n \in (IF Len(text) = 1 THEN {0} ELSE 1 .. Len(Order) - at) : p = copy(n)
  BY DEF Strcpy
<1>2. at \in 4 .. 25
  BY OrderLayout, PlaceIs
<1>3. n \in 0 .. 25 - at
  BY <1>1, <1>2, OrderLayout
<1>4. \A x \in OrderIds : x # m /\ x \notin over(n)
  <2>1. \A i \in (at + 1) .. (at + n) : i \in DOMAIN Order /\ ~(i <= 2)
    BY <1>2, <1>3, OrderLayout
  <2>2. \A i \in (at + 1) .. (at + n) : Order[i] \notin OrderIds
    BY <2>1, OrderLayout
  <2>3. OrderIds \cap OrderNames = {}
    BY DEF OrderIds, OrderNames
  <2> QED BY <2>2, <2>3
<1>5. ASSUME Len(text) = 1
      PROVE  copy(n) = [x \in DOMAIN o |-> IF x = m THEN Head(text) ELSE o[x]]
  <2>1. n = 0
    BY <1>1, <1>5
  <2>2. (at + 1) .. (at + n) = {}
    BY <1>2, <2>1
  <2>3. over(n) = {}
    BY <2>2
  <2> HIDE DEF over
  <2> QED BY <2>3
<1> HIDE DEF over
<1> QED BY <1>1, <1>4, <1>5

(* The names of an order are copied one after the other. *)
CopyNames(o0, p) ==
    LET get(m) == Getter(OrderInput, mem, m)
    IN  \E o1 \in Strcpy(Order, o0, "symbol", get("symbol")) :
          \E o2 \in Strcpy(Order, o1, "exchange_id", get("exchange_id")) :
            \E o3 \in Strcpy(Order, o2, "account_id", get("account_id")) :
              p \in Strcpy(Order, o3, "source_id", get("source_id"))

LEMMA Names4Copies ==
    ASSUME NEW o0, NEW p \in Names4(o0)
    PROVE  CopyNames(o0, p)
BY DEF Names4, CopyNames

LEMMA NamesKeepIds ==
    ASSUME NEW o0, DOMAIN o0 = Fields(Order), NEW p \in Names4(o0)
    PROVE  /\ DOMAIN p = Fields(Order)
           /\ \A x \in OrderIds : p[x] = o0[x]
<1> DEFINE get(m) == Getter(OrderInput, mem, m)
<1>1. PICK o1 \in Strcpy(Order, o0, "symbol", get("symbol")) :
        \E o2 \in Strcpy(Order, o1, "exchange_id", get("exchange_id")) :
          \E o3 \in Strcpy(Order, o2, "account_id", get("account_id")) :
            p \in Strcpy(Order, o3, "source_id", get("source_id"))
  BY Names4Copies DEF CopyNames
<1>2. PICK o2 \in Strcpy(Order, o1, "exchange_id", get("exchange_id")) :
        \E o3 \in Strcpy(Order, o2, "account_id", get("account_id")) :
          p \in Strcpy(Order, o3, "source_id", get("source_id"))
  BY <1>1
<1>3. PICK o3 \in Strcpy(Order, o2, "account_id", get("account_id")) :
        p \in Strcpy(Order, o3, "source_id", get("source_id"))
  BY <1>2
<1> HIDE DEF get
<1>4. {"symbol", "exchange_id", "account_id", "source_id"} \subseteq OrderNames
  BY DEF OrderNames
<1>5. OrderIds \subseteq Fields(Order)
  BY OrderLayout
<1>6. DOMAIN o1 = Fields(Order) /\ \A x \in OrderIds : o1[x] = o0[x]
  BY <1>4, <1>5, StrcpyOnOrder
<1>7. DOMAIN o2 = Fields(Order) /\ \A x \in OrderIds : o2[x] = o0[x]
  BY <1>4, <1>5, <1>6, StrcpyOnOrder
<1>8. DOMAIN o3 = Fields(Order) /\ \A x \in OrderIds : o3[x] = o0[x]
  BY <1>4, <1>5, <1>7, StrcpyOnOrder
<1> QED BY <1>3, <1>4, <1>5, <1>8, StrcpyOnOrder

(* Names that fit are all there, and nothing else is overwritten. *)
LEMMA NamesFit ==
    ASSUME NEW o0, DOMAIN o0 = Fields(Order), NEW p \in Names4(o0),
           \A m \in OrderNames : Getter(OrderInput, mem, m) = <<mem[m]>>
    PROVE  \A x \in Fields(Order) : p[x] = IF x \in OrderNames THEN mem[x] ELSE o0[x]
<1> DEFINE get(m) == Getter(OrderInput, mem, m)
           put(o, m) == [x \in DOMAIN o |-> IF x = m THEN mem[m] ELSE o[x]]
<1>1. PICK o1 \in Strcpy(Order, o0, "symbol", get("symbol")) :
        \E o2 \in Strcpy(Order, o1, "exchange_id", get("exchange_id")) :
          \E o3 \in Strcpy(Order, o2, "account_id", get("account_id")) :
            p \in Strcpy(Order, o3, "source_id", get("source_id"))
  BY Names4Copies DEF CopyNames
<1>2. PICK o2 \in Strcpy(Order, o1, "exchange_id", get("exchange_id")) :
        \E o3 \in Strcpy(Order, o2, "account_id", get("account_id")) :
          p \in Strcpy(Order, o3, "source_id", get("source_id"))
  BY <1>1
<1>3. PICK o3 \in Strcpy(Order, o2, "account_id", get("account_id")) :
        p \in Strcpy(Order, o3, "source_id", get("source_id"))
  BY <1>2
<1>4. \A m \in OrderNames : Len(get(m)) = 1 /\ Head(get(m)) = mem[m]
  <2> TAKE m \in OrderNames
  <2>1. get(m) = <<mem[m]>>
    OBVIOUS
  <2> HIDE DEF get
  <2> QED BY <2>1
<1> HIDE DEF get
<1>5. ASSUME NEW m \in OrderNames, NEW o, NEW q \in Strcpy(Order, o, m, get(m))
      PROVE  q = put(o, m)
  BY <1>4, <1>5, StrcpyOnOrder
<1>6. "symbol" \in OrderNames /\ "exchange_id" \in OrderNames
      /\ "account_id" \in OrderNames /\ "source_id" \in OrderNames
  BY DEF OrderNames
<1>7. o1 = put(o0, "symbol")
  BY <1>5, <1>6
<1>8. o2 = put(o1, "exchange_id")
  BY <1>5, <1>6
<1>9. o3 = put(o2, "account_id")
  BY <1>5, <1>6
<1>10. p = put(o3, "source_id")
  BY <1>3, <1>5, <1>6
<1> QED BY <1>7, <1>8, <1>9, <1>10 DEF OrderNames

LEMMA MessageInvOrder == MessageIInv => OrderOfInput
<1> SUFFICES ASSUME MessageIInv, order # Empty PROVE OrderOfInput
  BY DEF OrderOfInput
<1> DEFINE o0 == Ids(Blank(Order, "stale"))
<1>1. kind = "OrderInput" /\ kind # NoFrame /\ order \in Filled
  BY NoFrameIsNoStruct DEF MessageIInv
<1>2. Structs[kind] = OrderInput /\ DOMAIN mem = Fields(OrderInput)
      /\ \A m \in DOMAIN mem : mem[m].how \in Given \cup {"empty", "number"}
  BY <1>1, MembersOfRecord DEF Structs
<1>3. PICK p \in Names4(o0) : order = Numbers(p)
  BY <1>1 DEF Filled
<1>4. /\ DOMAIN o0 = Fields(Order)
      /\ \A x \in Fields(Order) :
            o0[x] = IF x \in OrderIds THEN mem[x] ELSE Val(x, "stale")
  BY OrderLayout DEF Ids, Blank, OrderIds
<1> HIDE DEF o0
<1>5. DOMAIN p = Fields(Order) /\ \A x \in OrderIds : p[x] = o0[x]
  BY <1>3, <1>4, NamesKeepIds
<1>6. DOMAIN order = Fields(Order)
      /\ \A x \in Fields(Order) :
           order[x] = IF x \in CopiedNumbers THEN mem[x]
                      ELSE IF x \in SetNumbers THEN Val(x, "number") ELSE p[x]
  BY <1>3, <1>5 DEF Numbers
<1>7. /\ OrderIds \cap (CopiedNumbers \cup SetNumbers) = {}
      /\ OrderNames \cap (CopiedNumbers \cup SetNumbers \cup OrderIds) = {}
      /\ CopiedNumbers \cap SetNumbers = {}
  BY DEF OrderIds, OrderNames, CopiedNumbers, SetNumbers
<1>8. \A m \in CopiedNumbers \cup OrderIds : order[m] = mem[m]
  BY <1>4, <1>5, <1>6, <1>7, OrderLayout
<1>9. \A m \in SetNumbers : order[m].how = "number"
  <2>1. \A m \in SetNumbers : order[m] = Val(m, "number")
    BY <1>6, <1>7, OrderLayout
  <2>2. \A m : Val(m, "number").how = "number"
    BY DEF Val
  <2> QED BY <2>1, <2>2
<1>10. ASSUME \A m \in DOMAIN mem : mem[m].how # "full"
       PROVE  /\ \A m \in DOMAIN mem \cap Names : order[m] = mem[m]
              /\ \A m \in DOMAIN order : order[m].how # "junk"
  <2>1. /\ Fields(OrderInput) \cap Names = OrderNames
        /\ OrderIds \cup CopiedNumbers \subseteq Fields(OrderInput)
    BY InputLayout
  <2>2. \A m \in OrderNames : Getter(OrderInput, mem, m) = <<mem[m]>>
    <3>1. PICK n \in Nat : DOMAIN OrderInput = 1 .. n /\ Len(OrderInput) = n
      BY <1>1, <1>2, StructIsSequence, MembersOfRecord
    <3> QED BY <1>2, <1>10, <2>1, <3>1, GetterStarts
  <2>3. \A x \in Fields(Order) : p[x] = IF x \in OrderNames THEN mem[x] ELSE o0[x]
    BY <1>3, <1>4, <2>2, NamesFit
  <2>4. \A m \in DOMAIN mem \cap Names : order[m] = mem[m]
    BY <1>2, <1>6, <1>7, <2>1, <2>3, OrderLayout
  <2>5. ASSUME NEW m \in DOMAIN order PROVE order[m].how # "junk"
    <3>1. order[m] \in {mem[m], Val(m, "number"), Val(m, "stale")}
          /\ (order[m] = mem[m] =>
                 m \in DOMAIN mem \/ order[m] \in {Val(m, "number"), Val(m, "stale")})
      BY <1>2, <1>4, <1>6, <2>1, <2>3
    <3> QED BY <1>2, <3>1 DEF Val, Given
  <2> QED BY <2>4, <2>5
<1> QED BY <1>8, <1>9, <1>10 DEF OrderOfInput, OrderIds

LEMMA MessageInvTyped == MessageIInv => MessageTypeOK
<1> SUFFICES ASSUME MessageIInv PROVE MessageTypeOK
  OBVIOUS
<1>1. kind \in DOMAIN Structs \cup {NoFrame} /\ sets \in 0 .. MaxSet
  BY DEF MessageIInv
<1>2. ASSUME kind # NoFrame
      PROVE  /\ DOMAIN mem = Fields(Structs[kind])
             /\ back # Empty => DOMAIN back = Fields(Structs[kind])
             /\ order # Empty => DOMAIN order = Fields(Order)
             /\ \A m \in DOMAIN mem : mem[m].how \in How
  <2>1. /\ DOMAIN mem = Fields(Structs[kind])
        /\ \A m \in DOMAIN mem : mem[m].how \in How
    BY <1>2, MembersOfRecord DEF How
  <2>2. back # Empty => DOMAIN back = DOMAIN mem
    BY <1>2 DEF MessageIInv, Loaded
  <2>3. ASSUME order # Empty PROVE DOMAIN order = Fields(Order)
    <3> DEFINE o0 == Ids(Blank(Order, "stale"))
    <3>1. PICK p \in Names4(o0) : order = Numbers(p)
      BY <1>2, <2>3 DEF MessageIInv, Filled
    <3>2. DOMAIN o0 = Fields(Order)
      BY DEF Ids, Blank
    <3> HIDE DEF o0
    <3>3. DOMAIN p = Fields(Order)
      BY <3>1, <3>2, NamesKeepIds
    <3> QED BY <3>1, <3>3 DEF Numbers
  <2> QED BY <2>1, <2>2, <2>3
<1> QED BY <1>1, <1>2 DEF MessageTypeOK

LEMMA MessageInvRecord == MessageIInv => RecordKept
BY MessageInvTyped, MessageInvNames, MessageInvJson, MessageInvOrder DEF RecordKept

(* For every struct and any number of names set: a record keeps what was   *)
(* put into it, through its JSON and into the order of an input (setters,  *)
(* to_json, from_json and order_from_input of msg.h).                      *)
THEOREM RecordKeptAlways == MessageSpec => []RecordKept
BY MessageInvariant, MessageInvRecord, PTL
=============================================================================
