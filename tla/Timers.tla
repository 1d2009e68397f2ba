------------------------------- MODULE Timers --------------------------------
(***************************************************************************)
(* Timers: an application asks the master for a Time event after a while   *)
(* (TimeRequest), the master keeps a task for it and answers with one Time *)
(* frame in the commands journal of the application (master::produce_one). *)
(* The frame does not say which timer it is for: every timer of the        *)
(* application compares its gen_time with its own checkpoint and duration, *)
(* strictly, and only once per frame (apprentice::timer, time_interval,    *)
(* timeout).                                                               *)
(*                                                                         *)
(* Times are relative to the present, so that time can go on for ever: the *)
(* due time of a timer and of a task, the age of a frame.  What is long    *)
(* overdue stays where every comparison comes out the same.  Writing a     *)
(* frame takes time: no two frames have the same gen_time.                 *)
(***************************************************************************)
EXTENDS Integers, Sequences, FiniteSets, SequencesExt

CONSTANTS
    App,        \* applications
    MaxTimer,   \* bound: timers of one process
    Delay,      \* after how long a timer is set to fire, also in the past
    Duration,   \* of intervals and timeouts
    MaxLag,     \* bound: the age at which an event has been read
    MaxRequest  \* bound: requests the master has not read, enough for all timers

ASSUME TimersAssumption ==
    /\ {MaxTimer, MaxLag, MaxRequest} \subseteq Nat /\ MaxTimer <= MaxRequest
    /\ Delay \subseteq Int /\ Duration \subseteq Nat

Id   == 0 .. MaxTimer - 1
Kind == {"timer", "interval", "timeout"}

VARIABLES
    running,   \* applications whose process is alive
    known,     \* applications registered with the master
    used,      \* timer_usage_count_ of each process
    timers,    \* its subscriptions: when they are due, a partial function
    requests,  \* TimeRequest frames the master has not read
    tasks,     \* timer_tasks_: when they are due, a partial function
    times      \* ages of the Time frames the application has not read

vars == <<running, known, used, timers, requests, tasks, times>>

-----------------------------------------------------------------------------
(* Time. *)

(* A due time that no event can be as old as. *)
Overdue == -(MaxLag + 1)
Later(x, y) == IF x > y THEN x ELSE y

OlderTimers(T) == [i \in DOMAIN T |-> [T[i] EXCEPT !.due = Later(@ - 1, Overdue)]]
OlderTasks(K)  == [i \in DOMAIN K |-> [K[i] EXCEPT !.left = Later(@ - 1, 0)]]
OlderTimes(q)  == [i \in DOMAIN q |-> q[i] + 1]

(* Time may pass: no event gets too old by it. *)
Room(q) == \A i \in DOMAIN q : q[i] < MaxLag

(* One unit of time passes, in which a process may have written: T, K, R   *)
(* and Q are the timers, tasks, requests and times it leaves to a.         *)
Pass(a, T, K, R, Q) ==
    /\ Room(Q) /\ \A b \in App \ {a} : Room(times[b])
    /\ timers' = [b \in App |-> OlderTimers(IF b = a THEN T ELSE timers[b])]
    /\ tasks'  = [b \in App |-> OlderTasks(IF b = a THEN K ELSE tasks[b])]
    /\ times'  = [b \in App |-> OlderTimes(IF b = a THEN Q ELSE times[b])]
    /\ requests' = [requests EXCEPT ![a] = R]

(* Nothing happens for a while. *)
Tick ==
    /\ \E a \in App : Pass(a, timers[a], tasks[a], requests[a], times[a])
    /\ UNCHANGED <<running, known, used>>

-----------------------------------------------------------------------------
(* The application. *)

Timer(kind, due, dur) == [kind |-> kind, due |-> due, dur |-> dur]
Request(i, dur) == [id |-> i, dur |-> dur, own |-> TRUE]

(* f with x for i. *)
With(f, i, x) == [k \in DOMAIN f \cup {i} |-> IF k = i THEN x ELSE f[k]]

(* An event of some age is being handled: unread ones are younger. *)
Handling(a, age) == \A k \in DOMAIN times[a] : times[a][k] < age

(* Mutant: the count of timers is not raised. *)
SubscribeUncounted(a, timer) ==
    /\ a \in running /\ used[a] < MaxTimer /\ Len(requests[a]) < MaxRequest
    /\ Pass(a, With(timers[a], used[a], timer), tasks[a],
            Append(requests[a], Request(used[a], timer.dur)), times[a])
    /\ UNCHANGED <<running, known, used>>

(* The subscription and its first request, made by a process that is       *)
(* handling an event of the given age.                                     *)
Subscribe(a, timer) ==
    /\ a \in running /\ used[a] < MaxTimer /\ Len(requests[a]) < MaxRequest
    /\ used' = [used EXCEPT ![a] = @ + 1]
    /\ Pass(a, With(timers[a], used[a], timer), tasks[a],
            Append(requests[a], Request(used[a], timer.dur)), times[a])
    /\ UNCHANGED <<running, known>>

(* apprentice::add_timer, timer: the duration is what is left from now_ to *)
(* the time asked for.                                                     *)
AddTimer(a, age, delay) ==
    Handling(a, age) /\ Subscribe(a, Timer("timer", delay, delay + age))

(* apprentice::add_time_interval, time_interval *)
AddTimeInterval(a, age, d) ==
    Handling(a, age) /\ Subscribe(a, Timer("interval", d - age, d))

(* apprentice::timeout *)
AddTimeout(a, age, d) ==
    Handling(a, age) /\ Subscribe(a, Timer("timeout", d - age, d))

(* The timers a Time event of some age fires. *)
Fired(T, age) == {i \in DOMAIN T : -age > T[i].due}

(* A timer (first) and a timeout (an error) are done, an interval is due   *)
(* again after its duration.                                               *)
Rearmed(T, F, age) ==
    [i \in {i \in DOMAIN T : i \notin F \/ T[i].kind = "interval"} |->
        IF i \in F THEN [T[i] EXCEPT !.due = T[i].dur - age] ELSE T[i]]

(* The requests for some timers again, one after the other. *)
Again(T, F) == LET s == SetToSeq(F) IN [k \in 1 .. Len(s) |-> Request(s[k], T[s[k]].dur)]

(* A Time event is handled. *)
OnTime(a) ==
    LET age == Head(times[a])
        F   == Fired(timers[a], age)
        I   == {i \in F : timers[a][i].kind = "interval"}
    IN  /\ a \in running /\ times[a] # <<>>
        /\ Len(requests[a]) + Cardinality(I) <= MaxRequest
        /\ Pass(a, Rearmed(timers[a], F, age), tasks[a],
                requests[a] \o Again(timers[a], I), Tail(times[a]))
        /\ UNCHANGED <<running, known, used>>

(* Another event is handled: the timeouts W whose source it comes from     *)
(* wait anew, any other that is late ends with an error.                   *)
OnEvent(a, age, W) ==
    LET F == {i \in Fired(timers[a], age) \ W : timers[a][i].kind = "timeout"}
    IN  /\ a \in running /\ Handling(a, age) /\ W \cup F # {}
        /\ Len(requests[a]) + Cardinality(W) <= MaxRequest
        /\ Pass(a, [i \in DOMAIN timers[a] \ F |->
                      IF i \in W THEN [timers[a][i] EXCEPT !.due = timers[a][i].dur - age]
                      ELSE timers[a][i]],
                tasks[a], requests[a] \o Again(timers[a], W), times[a])
        /\ UNCHANGED <<running, known, used>>

-----------------------------------------------------------------------------
(* The master. *)

(* Mutant: a task there is already is kept. *)
OnTimeRequestKeeps(a) ==
    /\ requests[a] # <<>> /\ a \in known
    /\ LET r == Head(requests[a])
       IN  tasks' = [tasks EXCEPT ![a] =
                       @ @@ (r.id :> [left |-> Later(r.dur, 0), own |-> r.own])]
    /\ requests' = [requests EXCEPT ![a] = Tail(@)]
    /\ UNCHANGED <<running, known, used, timers, times>>

(* The handler of TimeRequest: a task of the same id is overwritten. *)
OnTimeRequest(a) ==
    /\ requests[a] # <<>> /\ a \in known
    /\ LET r == Head(requests[a])
       IN  tasks' = [tasks EXCEPT ![a] =
                       With(@, r.id, [left |-> Later(r.dur, 0), own |-> r.own])]
    /\ requests' = [requests EXCEPT ![a] = Tail(@)]
    /\ UNCHANGED <<running, known, used, timers, times>>

(* Mutant: the scan of the tasks ends at the first that is not due. *)
SendTimeInOrder(a, i) ==
    /\ i \in DOMAIN tasks[a] /\ \A k \in DOMAIN tasks[a] : k <= i => tasks[a][k].left = 0
    /\ Pass(a, timers[a], [k \in DOMAIN tasks[a] \ {i} |-> tasks[a][k]],
            requests[a], IF a \in running THEN Append(times[a], -1) ELSE times[a])
    /\ UNCHANGED <<running, known, used>>

(* master::produce_one: a task that is due is answered once.  What is      *)
(* written for a dead process nobody will read.                            *)
SendTime(a, i) ==
    /\ i \in DOMAIN tasks[a] /\ tasks[a][i].left = 0
    /\ Pass(a, timers[a], [k \in DOMAIN tasks[a] \ {i} |-> tasks[a][k]],
            requests[a], IF a \in running THEN Append(times[a], -1) ELSE times[a])
    /\ UNCHANGED <<running, known, used>>

-----------------------------------------------------------------------------
(* Processes end, are found dead and come back. *)

Start(a) ==
    /\ a \notin running \cup known
    /\ running' = running \cup {a} /\ known' = known \cup {a}
    /\ times' = [times EXCEPT ![a] = <<>>]
    /\ UNCHANGED <<used, timers, requests, tasks>>

Disown(q) == [k \in DOMAIN q |-> [q[k] EXCEPT !.own = FALSE]]

Die(a) ==
    /\ a \in running
    /\ running' = running \ {a}
    /\ used' = [used EXCEPT ![a] = 0]
    /\ timers' = [timers EXCEPT ![a] = <<>>]
    /\ requests' = [requests EXCEPT ![a] = Disown(@)]
    /\ tasks' = [tasks EXCEPT ![a] = Disown(@)]
    /\ times' = [times EXCEPT ![a] = <<>>]
    /\ UNCHANGED known

(* Mutant: the tasks stay. *)
DeregisterKeepsTasks(a) ==
    /\ a \in known \ running
    /\ known' = known \ {a}
    /\ requests' = [requests EXCEPT ![a] = <<>>]
    /\ times' = [times EXCEPT ![a] = <<>>]
    /\ UNCHANGED <<running, used, timers, tasks>>

(* master::deregister_app: its journals are left, its tasks erased. *)
Deregister(a) ==
    /\ a \in known \ running
    /\ known' = known \ {a}
    /\ requests' = [requests EXCEPT ![a] = <<>>]
    /\ tasks' = [tasks EXCEPT ![a] = <<>>]
    /\ times' = [times EXCEPT ![a] = <<>>]
    /\ UNCHANGED <<running, used, timers>>

-----------------------------------------------------------------------------
Init ==
    /\ running = {} /\ known = {}
    /\ used = [a \in App |-> 0] /\ timers = [a \in App |-> <<>>]
    /\ requests = [a \in App |-> <<>>] /\ tasks = [a \in App |-> <<>>]
    /\ times = [a \in App |-> <<>>]

Next ==
    \/ Tick
    \/ \E a \in App :
         \/ \E age \in 0 .. MaxLag :
              \/ \E d \in Delay : AddTimer(a, age, d)
              \/ \E d \in Duration : AddTimeInterval(a, age, d) \/ AddTimeout(a, age, d)
              \/ \E W \in SUBSET {i \in DOMAIN timers[a] : timers[a][i].kind = "timeout"} :
                   OnEvent(a, age, W)
         \/ OnTime(a) \/ OnTimeRequest(a)
         \/ \E i \in Id : SendTime(a, i)
         \/ Start(a) \/ Die(a) \/ Deregister(a)

Spec == Init /\ [][Next]_vars

(* Time goes on, and so do the loops of the master and the applications.   *)
Fairness ==
    /\ WF_vars(Tick)
    /\ \A a \in App : /\ WF_vars(OnTime(a)) /\ WF_vars(OnTimeRequest(a))
                      /\ \A i \in Id : WF_vars(SendTime(a, i))

FairSpec == Spec /\ Fairness

-----------------------------------------------------------------------------
TypeOK ==
    /\ running \subseteq App /\ known \subseteq App
    /\ used \in [App -> 0 .. MaxTimer]
    /\ \A a \in App :
         /\ DOMAIN timers[a] \subseteq 0 .. used[a] - 1
         /\ \A i \in DOMAIN timers[a] :
              timers[a][i].kind \in Kind /\ timers[a][i].due >= Overdue
         /\ \A k \in DOMAIN requests[a] : requests[a][k].id \in Id
         /\ DOMAIN tasks[a] \subseteq Id
         /\ \A i \in DOMAIN tasks[a] : tasks[a][i].left >= 0
         /\ \A k \in DOMAIN times[a] : times[a][k] \in 0 .. MaxLag

(* A Time event that fires a timer is always on its way, in one of its     *)
(* three forms: although an event may have fired, and asked for, any other *)
(* timer, no timer is left behind by being compared too early.             *)
Awaited ==
    \A a \in running : \A i \in DOMAIN timers[a] :
        \/ \E k \in DOMAIN requests[a] : requests[a][k].id = i
        \/ i \in DOMAIN tasks[a] /\ tasks[a][i].left > timers[a][i].due
        \/ \E k \in DOMAIN times[a] : -times[a][k] > timers[a][i].due

(* The master keeps no task of an application it does not know (it has no  *)
(* writer for it), and none of an earlier process, whose timers had the    *)
(* same ids.                                                               *)
OwnSession ==
    \A a \in App :
        /\ a \notin known => tasks[a] = <<>> /\ requests[a] = <<>>
        /\ a \in running => /\ \A k \in DOMAIN requests[a] : requests[a][k].own
                            /\ \A i \in DOMAIN tasks[a] : tasks[a][i].own

(* No timer stays overdue for ever: it fires, and an interval then waits   *)
(* for its next time, or its process ends.                                 *)
Fires ==
    \A a \in App, i \in Id :
        []<>(i \in DOMAIN timers[a] => timers[a][i].due > Overdue)

(* Every timer has its event under way, asked for by its own process       *)
(* (timer, time_interval and timeout of apprentice.h, master::react).      *)
TimersServed == TypeOK /\ OwnSession /\ Awaited
=============================================================================
