-------------------------------- MODULE Rest --------------------------------
(***************************************************************************)
(* The REST client of the Binance gateways (binapi/api.cpp): one queue of  *)
(* requests, filled by the event loop and emptied by the I/O thread that   *)
(* runs the asio handlers.  Nothing locks the queue or m_write_in_process, *)
(* so the two threads interleave between any two statements that touch     *)
(* them; a single push, pop or move is taken as one step.  (A new order    *)
(* gets a client of its own; cancels, queries, leverage and keep-alives    *)
(* share one.)                                                             *)
(*                                                                         *)
(* A request is a call of one api method.  Of its text only one thing      *)
(* matters: get and delete carry their parameters in the target, post and  *)
(* put in the body, and async_post MOVES the body out of the queue.        *)
(***************************************************************************)
EXTENDS Naturals, Sequences, FiniteSets

CONSTANTS
    Request,     \* the calls that are made
    CallOf,      \* the api method of each
    MaxFlight    \* bound: HTTP exchanges ever started

(* The http verb of every method of api. *)
MarketVerb ==
    [ping |-> "get", server_time |-> "get", price |-> "get", prices |-> "get",
     avg_price |-> "get", ticker |-> "get", tickers |-> "get",
     exchange_info |-> "get", depths |-> "get", trade |-> "get",
     trades |-> "get", agg_trade |-> "get", agg_trades |-> "get",
     klines |-> "get"]

AccountVerb ==
    [account_info |-> "get", order_info |-> "get", future_order_info |-> "get",
     open_orders |-> "get", all_orders |-> "get"]

OrderVerb ==
    [new_order |-> "post", new_test_order |-> "post", cancel_order |-> "delete",
     future_cancel_order |-> "delete", my_trades |-> "get"]

StreamVerb ==
    [start_user_data_stream |-> "post", ping_user_data_stream |-> "put",
     close_user_data_stream |-> "delete"]

FutureVerb ==
    [future_new_order |-> "post", ffuture_adjust_leverage |-> "post",
     future_start_user_data_stream |-> "post",
     future_ping_user_data_stream |-> "put", future_exchange_info |-> "get"]

Tables == {MarketVerb, AccountVerb, OrderVerb, StreamVerb, FutureVerb}
Method == UNION {DOMAIN t : t \in Tables}
Verb(m) == LET t == CHOOSE t \in Tables : m \in DOMAIN t IN t[m]

(* A signed request always has data (timestamp and signature); of the others *)
(* those that take no argument have none.  The gateways call some methods    *)
(* without a callback: the caller waits for the answer.                      *)
NoData ==
    {"ping", "server_time", "prices", "tickers", "exchange_info",
     "future_exchange_info", "start_user_data_stream",
     "future_start_user_data_stream"}
Waits ==
    {"exchange_info", "future_exchange_info", "start_user_data_stream",
     "future_start_user_data_stream"}

ASSUME RestAssumption ==
    /\ CallOf \in [Request -> Method]
    /\ MaxFlight \in Nat

VARIABLES
    queue,     \* m_async_requests: a call and whether it still has its data
    busy,      \* m_write_in_process
    flights,   \* HTTP exchanges under way
    started,   \* number of exchanges ever started
    loop, io,  \* where the two threads are
    calls,     \* requests not yet made
    told,      \* what the callback of a request was called with
    executed,  \* how often the exchange has executed a request
    failed,    \* did the last exchange that ended fail?
    dead,      \* an assertion of the code failed, or front() of an empty queue
    raced      \* history: the threads overlapped in async_post

vars == <<queue, busy, flights, started, loop, io, calls, told, executed,
          failed, dead, raced>>

Stage == <<"resolve", "connect", "handshake", "write", "read", "shutdown">>
NoReply == "no reply"

(* What an answer of the exchange is to the callback: an empty body is a   *)
(* success with an empty value; an object that T::construct does not       *)
(* understand throws, and invoke swallows it without calling back.         *)
Body == {"object", "empty", "error", "html", "unexpected"}

Invoke(body) ==
    CASE body \in {"object", "empty"} -> "ok"
      [] body \in {"error", "html"} -> "error"
      [] body = "unexpected" -> "silent"

(* Mutation of SyncResult: the body is returned for the error. *)
SyncResultRaw(body) == body

(* What it is to a caller that waits: a page of HTML sets the error of the *)
(* wrong result, and an exception or no JSON at all that of the right one. *)
SyncResult(body) == IF body \in {"object", "html"} THEN "ok" ELSE "error"

(* Parameters travel in the body of post and put, and only there. *)
InBody(r) == Verb(CallOf[r]) \in {"post", "put"} /\ CallOf[r] \notin NoData
Complete(f) == InBody(f.req) => f.data

TypeOK ==
    /\ queue \in Seq([req : Request, data : BOOLEAN])
    /\ busy \in BOOLEAN /\ failed \in BOOLEAN /\ dead \in BOOLEAN
    /\ raced \in BOOLEAN
    /\ flights \subseteq [id : 1 .. MaxFlight, req : Request, data : BOOLEAN,
                          stage : 1 .. Len(Stage), body : Body \cup {NoReply}]
    /\ started \in 0 .. MaxFlight
    /\ loop \in {"idle", "check", "take"}
    /\ io \in {"idle", "failed", "release", "next", "take"}
    /\ calls \subseteq Request
    /\ told \in [Request -> Seq([from : Request \cup {"nobody"},
                                 as : {"ok", "error", "silent"},
                                 body : Body \cup {NoReply}])]
    /\ executed \in [Request -> Nat]

Init ==
    /\ queue = <<>> /\ busy = FALSE /\ flights = {} /\ started = 0
    /\ loop = "idle" /\ io = "idle"
    /\ calls = Request
    /\ told = [r \in Request |-> <<>>]
    /\ executed = [r \in Request |-> 0]
    /\ failed = FALSE /\ dead = FALSE /\ raced = FALSE

-----------------------------------------------------------------------------
(* post and async_post, which both threads run. *)

(* post: the data of get and delete has been moved into the target. *)
Post(r) ==
    /\ loop = "idle" /\ r \in calls /\ CallOf[r] \notin Waits
    /\ queue' = Append(queue, [req |-> r, data |-> InBody(r)])
    /\ calls' = calls \ {r}
    /\ loop' = "check"
    /\ UNCHANGED <<busy, flights, started, io, told, executed, failed, dead>>

(* post without a callback, and sync_post: a connection of its own, which *)
(* touches neither the queue nor m_write_in_process.  A request that gets  *)
(* no reply may have been executed.                                        *)
SyncPost(r) ==
    /\ loop = "idle" /\ r \in calls /\ CallOf[r] \in Waits
    /\ \E b \in Body \cup {NoReply} :
          /\ told' = [told EXCEPT ![r] =
                        <<[from |-> r, as |-> SyncResult(b), body |-> b]>>]
          /\ \E n \in IF b = NoReply THEN {0, 1}
                     ELSE IF b \in {"error", "html"} THEN {0} ELSE {1} :
                executed' = [executed EXCEPT ![r] = n]
    /\ calls' = calls \ {r}
    /\ UNCHANGED <<queue, busy, flights, started, loop, io, failed, dead>>

(* Mutation of Take: the data is copied, not moved. *)
TakeCopies ==
    /\ queue # <<>> /\ started < MaxFlight
    /\ busy' = TRUE
    /\ started' = started + 1
    /\ flights' = flights \cup
          {[id |-> started', req |-> queue[1].req, data |-> queue[1].data,
            stage |-> 1, body |-> NoReply]}
    /\ UNCHANGED <<queue, dead>>

(* The rest of async_post once m_write_in_process was read as false: set it, *)
(* copy the target of the front request, move its data, start to resolve.    *)
Take ==
    IF queue = <<>>
    THEN dead' = TRUE /\ UNCHANGED <<queue, busy, flights, started>>
    ELSE /\ started < MaxFlight
         /\ busy' = TRUE
         /\ started' = started + 1
         /\ flights' = flights \cup
               {[id |-> started', req |-> queue[1].req, data |-> queue[1].data,
                 stage |-> 1, body |-> NoReply]}
         /\ queue' = [queue EXCEPT ![1].data = FALSE]
         /\ UNCHANGED dead

(* Mutation of LoopCheck: m_write_in_process is not looked at. *)
LoopCheckAlways ==
    /\ loop = "check"
    /\ loop' = "take"
    /\ UNCHANGED <<queue, busy, flights, started, io, calls, told, executed,
                   failed, dead>>

LoopCheck ==
    /\ loop = "check"
    /\ loop' = IF busy THEN "idle" ELSE "take"
    /\ UNCHANGED <<queue, busy, flights, started, io, calls, told, executed,
                   failed, dead>>

LoopTake ==
    /\ loop = "take" /\ Take
    /\ loop' = "idle"
    /\ UNCHANGED <<io, calls, told, executed, failed>>

-----------------------------------------------------------------------------
(* The handlers of the I/O thread. *)

(* Mutation of ProcessReply: the request that came last is answered. *)
ProcessReplyNewest(reply) ==
    /\ queue # <<>>
    /\ told' = [told EXCEPT ![queue[Len(queue)].req] = Append(@, reply)]
    /\ queue' = SubSeq(queue, 1, Len(queue) - 1)
    /\ UNCHANGED dead

(* process_reply: the oldest request is popped, whatever the reply is to. *)
ProcessReply(reply) ==
    IF queue = <<>>
    THEN dead' = TRUE /\ UNCHANGED <<queue, told>>
    ELSE /\ told' = [told EXCEPT ![queue[1].req] = Append(@, reply)]
         /\ queue' = Tail(queue)
         /\ UNCHANGED dead

(* on_resolve, on_connect, on_handshake, on_write, on_read without an error. *)
Advance(f) ==
    /\ io = "idle" /\ f \in flights
    /\ f.stage < Len(Stage)
    /\ Stage[f.stage] = "read" => f.body # NoReply
    /\ flights' = (flights \ {f}) \cup {[f EXCEPT !.stage = @ + 1]}
    /\ UNCHANGED <<queue, busy, started, loop, io, calls, told, executed,
                   failed, dead>>

(* One of them with an error: m_write_in_process is reset first ... *)
Fail(f) ==
    /\ io = "idle" /\ f \in flights
    /\ f.stage < Len(Stage)
    /\ flights' = flights \ {f}
    /\ busy' = FALSE
    /\ io' = "failed" /\ failed' = TRUE
    /\ UNCHANGED <<queue, started, loop, calls, told, executed, dead>>

(* ... then the callback gets the error; the rest of the queue is left. *)
ReplyError ==
    /\ io = "failed"
    /\ ProcessReply([from |-> "nobody", as |-> "error", body |-> NoReply])
    /\ io' = "idle"
    /\ UNCHANGED <<busy, flights, started, loop, calls, executed, failed>>

(* The host name cannot be set for TLS: on_resolve just returns. *)
SetHostNameFails(f) ==
    /\ io = "idle" /\ f \in flights /\ Stage[f.stage] = "resolve"
    /\ flights' = flights \ {f}
    /\ failed' = TRUE
    /\ UNCHANGED <<queue, busy, started, loop, io, calls, told, executed, dead>>

(* Mutation of OnShutdown: the reply is not processed. *)
OnShutdownLost(f) ==
    /\ io = "idle" /\ f \in flights /\ Stage[f.stage] = "shutdown"
    /\ flights' = flights \ {f}
    /\ io' = "release" /\ failed' = FALSE
    /\ UNCHANGED <<queue, told, dead, busy, started, loop, calls, executed>>

OnShutdown(f) ==
    /\ io = "idle" /\ f \in flights /\ Stage[f.stage] = "shutdown"
    /\ ProcessReply([from |-> f.req, as |-> Invoke(f.body), body |-> f.body])
    /\ flights' = flights \ {f}
    /\ io' = "release" /\ failed' = FALSE
    /\ UNCHANGED <<busy, started, loop, calls, executed>>

Release ==
    /\ io = "release"
    /\ busy' = FALSE
    /\ io' = "next"
    /\ UNCHANGED <<queue, flights, started, loop, calls, told, executed, failed,
                   dead>>

(* Mutation of IoCheck: the rest of the queue waits for the next post. *)
IoCheckNever ==
    /\ io = "next"
    /\ io' = "idle"
    /\ UNCHANGED <<queue, busy, flights, started, loop, calls, told, executed,
                   failed, dead>>

IoCheck ==
    /\ io = "next"
    /\ io' = IF queue = <<>> \/ busy THEN "idle" ELSE "take"
    /\ UNCHANGED <<queue, busy, flights, started, loop, calls, told, executed,
                   failed, dead>>

IoTake ==
    /\ io = "take" /\ Take
    /\ io' = "idle"
    /\ UNCHANGED <<loop, calls, told, executed, failed>>

-----------------------------------------------------------------------------
(* The exchange. *)
Serve(f) ==
    /\ f \in flights /\ Stage[f.stage] = "read" /\ f.body = NoReply
    /\ \E b \in IF Complete(f) THEN Body ELSE {"error", "html"} :
          /\ flights' = (flights \ {f}) \cup {[f EXCEPT !.body = b]}
          /\ executed' = IF b \in {"error", "html"} THEN executed
                         ELSE [executed EXCEPT ![f.req] = @ + 1]
    /\ UNCHANGED <<queue, busy, started, loop, io, calls, told, failed, dead>>

Handlers ==
    \/ \E f \in flights : Advance(f) \/ Fail(f) \/ OnShutdown(f)
    \/ ReplyError \/ Release \/ IoCheck \/ IoTake

(* The two ways the threads collide: the event loop has seen                *)
(* m_write_in_process unset while the I/O thread is about to pop the front, *)
(* or has seen the same; or the loop stood still in post for so long that   *)
(* its request has been answered before it looks.                           *)
Overlap ==
    \/ loop = "take" /\ io \in {"failed", "take"}
    \/ loop # "idle" /\ queue = <<>>

Next ==
    /\ ~dead
    /\ \/ \E r \in Request : Post(r) \/ SyncPost(r)
       \/ LoopCheck \/ LoopTake
       \/ Handlers
       \/ \E f \in flights : SetHostNameFails(f) \/ Serve(f)
    /\ raced' = (raced \/ Overlap')

Spec == Init /\ [][Next]_vars

(* Both threads run on, and every operation on a socket ends: with an answer *)
(* or with an error (there is no timeout in the client, TCP has its own).    *)
Fairness ==
    /\ WF_vars((LoopCheck \/ LoopTake) /\ Next)
    /\ WF_vars(Handlers /\ Next)
    /\ WF_vars((\E f \in flights : Serve(f)) /\ Next)

FairSpec == Spec /\ Fairness
-----------------------------------------------------------------------------
(* The client is idle: no exchange, and no thread about to start one. *)
Idle == flights = {} /\ loop = "idle" /\ io = "idle"

(* Unless the threads overlapped, there is one exchange at a time and it is *)
(* for the request at the front of the queue, which process_reply will pop. *)
FrontInFlight ==
    ~raced => \A f \in flights :
                 /\ flights = {f} /\ busy
                 /\ queue # <<>> /\ queue[1].req = f.req

(* Unless they overlapped, a callback gets the answer to its own request. *)
Matched ==
    ~raced => /\ ~dead
              /\ \A r \in Request : \A i \in DOMAIN told[r] :
                    told[r][i].from \in {r, "nobody"}

(* Even if they did, no callback is called twice, and a request with a     *)
(* body (set leverage, keep the stream alive) is not executed twice: the   *)
(* body is moved out of the queue when it is first sent.                   *)
AtMostOnce ==
    \A r \in Request : /\ Len(told[r]) <= 1
                       /\ InBody(r) => executed[r] <= 1

(* Requests are left waiting in an idle client only behind a failure. *)
StallsBehindFailure == Idle /\ queue # <<>> => failed

(* Every request is answered, or waits in a client that a failure has left *)
(* idle (the next post wakes it, unless on_resolve gave up without         *)
(* resetting m_write_in_process), or the process has died.                 *)
Answered ==
    \A r \in Request :
       r \notin calls ~> told[r] # <<>> \/ (Idle /\ failed) \/ dead

(* The queue and the exchanges keep step: the answer that comes next is to *)
(* the front of the queue and goes to its callback, and nothing waits in   *)
(* an idle client but behind a failure (async_post, process_reply).        *)
InStep == TypeOK /\ FrontInFlight /\ Matched /\ StallsBehindFailure
=============================================================================
