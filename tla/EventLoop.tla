------------------------------ MODULE EventLoop ------------------------------
(***************************************************************************)
(* The event loop of one process (hero::produce_one) over the journals its *)
(* reader has joined.  A journal is what EventLog says it is: a growing    *)
(* sequence of frames.  The writers live in other processes, so frames     *)
(* appear while reader::sort looks at one journal after the other, and a   *)
(* frame gets its gen_time before it becomes visible.                      *)
(*                                                                         *)
(* Frames may carry commands for the loop: RequestReadFrom joins a         *)
(* journal, Deregister disjoins the journals of a location.  The master    *)
(* disjoins between two polls, an apprentice in the middle of the event.   *)
(***************************************************************************)
EXTENDS Integers, Sequences, FiniteSets

CONSTANTS
    Journal,       \* (location, dest) pairs
    Home,          \* the journal the process has joined before it loops
    Location,      \* locations of the writing processes
    LocationOf,    \* the location a journal belongs to
    None,          \* nullptr
    Master,        \* is this process the master?
    Command,       \* commands that are published: "read_from", "deregister"
    Tick,          \* by how much time may advance between two frames
    MaxFrame,      \* bound: frames per journal
    MaxClock       \* bound: time

ASSUME JournalAssumption ==
    /\ Home \in Journal /\ None \notin Journal
    /\ LocationOf \in [Journal -> Location]
    /\ Master \in BOOLEAN
    /\ Command \subseteq {"read_from", "deregister"}
    /\ Master => "deregister" \notin Command
    /\ Tick \subseteq Nat /\ MaxFrame \in Nat /\ MaxClock \in Nat

VARIABLES
    clock,     \* now_in_nano, one clock domain
    stamp,     \* gen_time of the frame each writer is about to publish, 0: none
    log,       \* the published frames of each journal
    journals,  \* reader::journals_
    pos,       \* number of the frame each journal's cursor is on
    current,   \* reader::current_
    pc,        \* "poll", "sort", "check", "handle", "next"
    todo,      \* journals reader::sort has still to look at
    mintime,   \* min_time of reader::sort
    then,      \* where reader::sort returns to
    now,       \* hero::now_
    first,     \* history: the frame each journal was joined at
    got,       \* history: frames delivered since the journal was joined
    offered    \* history: gen_times of the frames there were when sort began

lvars == <<pc, todo, mintime, then, offered>>
vars  == <<clock, stamp, log, journals, pos, current, lvars, now, first, got>>

HasData(j)  == pos[j] <= Len(log[j])
GenTime(j)  == log[j][pos[j]].gen

-----------------------------------------------------------------------------
(* The writers: close_frame stamps a frame, then makes it visible. *)

(* What a frame asks for: nothing, that a journal is read from a time on,   *)
(* or that a location is forgotten.                                         *)
Message(c, j, t) == [cmd |-> c, journal |-> j, from |-> t]
Messages ==
    {Message("data", Home, 0)}
      \cup {Message(c, j, t) : c \in Command, j \in Journal \ {Home},
                               t \in IF Master THEN {0} ELSE 0 .. clock}

Stamp(j) ==
    /\ stamp[j] = 0 /\ Len(log[j]) < MaxFrame /\ clock < MaxClock
    /\ \E k \in Tick :
         /\ clock' = clock + k
         /\ stamp' = [stamp EXCEPT ![j] = clock + k]
    /\ UNCHANGED <<log, journals, pos, current, lvars, now, first, got>>

(* An apprentice takes commands from the master's journal only. *)
Publish(j, m) ==
    /\ stamp[j] # 0
    /\ m.cmd = "data" \/ Master \/ j = Home
    /\ log' = [log EXCEPT ![j] = Append(@, [gen |-> stamp[j], msg |-> m])]
    /\ stamp' = [stamp EXCEPT ![j] = 0]
    /\ UNCHANGED <<clock, journals, pos, current, lvars, now, first, got>>

-----------------------------------------------------------------------------
(* reader::sort *)

StartSort(js, ret) == pc' = "sort" /\ then' = ret /\ todo' = js /\ mintime' = clock

(* Mutation of DataAvailable: only the current journal is looked at. *)
DataAvailableUnsorted ==
    pc' = "check" /\ offered' = {} /\ UNCHANGED <<todo, mintime, then>>

(* data_available sorts before it looks at the current frame. *)
DataAvailable ==
    /\ StartSort(journals, "check")
    /\ offered' = {GenTime(j) : j \in {k \in journals : HasData(k)}}

(* Mutation of SortOne: the last journal that has a frame wins. *)
SortOneLast(j) ==
    /\ pc = "sort" /\ j \in todo
    /\ todo' = todo \ {j}
    /\ IF HasData(j)
         THEN mintime' = GenTime(j) /\ current' = j
         ELSE UNCHANGED <<mintime, current>>
    /\ UNCHANGED <<clock, stamp, log, journals, pos, pc, then, now, first, got, offered>>

(* One journal is looked at.  The order of journals_ is the order in which *)
(* they were joined; here it may be any.                                   *)
SortOne(j) ==
    /\ pc = "sort" /\ j \in todo
    /\ todo' = todo \ {j}
    /\ IF HasData(j) /\ GenTime(j) <= mintime
         THEN mintime' = GenTime(j) /\ current' = j
         ELSE UNCHANGED <<mintime, current>>
    /\ UNCHANGED <<clock, stamp, log, journals, pos, pc, then, now, first, got, offered>>

SortDone ==
    /\ pc = "sort" /\ todo = {}
    /\ \/ then = "again" /\ DataAvailable
       \/ /\ then # "again" /\ pc' = then
          /\ then' = "poll" /\ mintime' = 0 /\ UNCHANGED <<todo, offered>>
    /\ UNCHANGED <<clock, stamp, log, journals, pos, current, now, first, got>>

-----------------------------------------------------------------------------
(* hero::produce_one *)

Poll ==
    /\ pc = "poll"
    /\ DataAvailable
    /\ UNCHANGED <<clock, stamp, log, journals, pos, current, now, first, got>>

(* The current frame goes to the subscribers of events_. *)
Deliver ==
    /\ pc = "check" /\ current # None
    /\ HasData(current)
    /\ now' = GenTime(current)
    /\ got' = [got EXCEPT ![current] = Append(@, pos[current])]
    /\ pc' = "handle"
    /\ UNCHANGED <<clock, stamp, log, journals, pos, current, todo, mintime, then,
                   first, offered>>

Idle ==
    /\ pc = "check"
    /\ current # None => ~HasData(current)
    /\ pc' = "poll" /\ offered' = {}
    /\ UNCHANGED <<clock, stamp, log, journals, pos, current, todo, mintime, then,
                   now, first, got>>

-----------------------------------------------------------------------------
(* reader::join and reader::disjoin *)

(* journal::seek_to_time: frame k is the first one after that time. *)
SeeksTo(j, time, k) ==
    /\ \A i \in 1 .. k - 1 : log[j][i].gen <= time
    /\ k <= Len(log[j]) => log[j][k].gen > time

(* Mutation of Join: a journal that is joined already starts again. *)
JoinAgain(j, from) ==
    \E k \in 1 .. Len(log[j]) + 1 :
       /\ SeeksTo(j, from, k)
       /\ journals' = journals \cup {j}
       /\ pos' = [pos EXCEPT ![j] = k]
       /\ UNCHANGED <<first, got>>

(* A journal that is joined already is left as it is. *)
Join(j, from) ==
    \/ j \in journals /\ UNCHANGED <<journals, pos, first, got>>
    \/ /\ j \notin journals
       /\ \E k \in 1 .. Len(log[j]) + 1 :
            /\ SeeksTo(j, from, k)
            /\ journals' = journals \cup {j}
            /\ pos' = [pos EXCEPT ![j] = k]
            /\ first' = [first EXCEPT ![j] = k]
            /\ got' = [got EXCEPT ![j] = <<>>]

Remaining(loc) == {j \in journals : LocationOf[j] # loc}

(* Mutation of Disjoin: current_ is left as it was. *)
DisjoinKeepsCurrent(loc, ret) ==
    /\ journals' = Remaining(loc)
    /\ UNCHANGED current
    /\ StartSort(Remaining(loc), ret)

Disjoin(loc, ret) ==
    /\ journals' = Remaining(loc)
    /\ current' = None
    /\ StartSort(Remaining(loc), ret)

(* The subscribers run: on_read_from of an apprentice, the request         *)
(* handlers of the master, deregister_location_from_event.                 *)
Handle ==
    LET m == log[current][pos[current]].msg IN
    /\ pc = "handle"
    /\ \/ /\ m.cmd = "data"
          /\ pc' = "next"
          /\ UNCHANGED <<journals, pos, current, todo, mintime, then, first, got>>
       \/ /\ m.cmd = "read_from"
          /\ Join(m.journal, IF Master THEN GenTime(current) ELSE m.from)
          /\ pc' = "next"
          /\ UNCHANGED <<current, todo, mintime, then>>
       \/ /\ m.cmd = "deregister"
          /\ Disjoin(LocationOf[m.journal], "next")
          /\ UNCHANGED <<pos, first, got>>
    /\ offered' = {}
    /\ UNCHANGED <<clock, stamp, log, now>>

(* Mutation of Advance: a handler has called reader::next itself. *)
AdvanceTwice ==
    /\ pc = "next" /\ current # None
    /\ pos' = [pos EXCEPT ![current] = @ + 2]
    /\ StartSort(journals, "again")
    /\ UNCHANGED <<clock, stamp, log, journals, current, now, first, got, offered>>

(* reader::next: advance, then sort; data_available sorts again. *)
Advance ==
    /\ pc = "next"
    /\ \/ current = None /\ UNCHANGED pos
       \/ current # None /\ pos' = [pos EXCEPT ![current] = @ + 1]
    /\ StartSort(journals, "again")
    /\ UNCHANGED <<clock, stamp, log, journals, current, now, first, got, offered>>

(* master::register_app joins the journals of a new application on a       *)
(* notice, between two events.                                             *)
MasterJoin(j) ==
    /\ Master /\ pc = "poll"
    /\ Join(j, clock)
    /\ \/ current = None /\ StartSort(journals', "poll")
       \/ current # None /\ UNCHANGED <<pc, todo, mintime, then>>
    /\ UNCHANGED <<clock, stamp, log, current, now, offered>>

(* master::deregister_app, called by health_check between two polls. *)
MasterLeave(loc) ==
    /\ Master /\ pc = "poll"
    /\ loc # LocationOf[Home]
    /\ Disjoin(loc, "poll")
    /\ UNCHANGED <<clock, stamp, log, pos, now, first, got, offered>>

-----------------------------------------------------------------------------
Init ==
    /\ clock = 1
    /\ stamp = [j \in Journal |-> 0]
    /\ log = [j \in Journal |-> <<>>]
    /\ journals = {Home} /\ current = None
    /\ pos = [j \in Journal |-> 1]
    /\ pc = "poll" /\ todo = {} /\ mintime = 0 /\ then = "poll" /\ offered = {}
    /\ now = 0
    /\ first = [j \in Journal |-> 1]
    /\ got = [j \in Journal |-> <<>>]

Loop ==
    \/ Poll \/ (\E j \in Journal : SortOne(j)) \/ SortDone
    \/ Deliver \/ Idle \/ Handle \/ Advance

Next ==
    \/ \E j \in Journal : Stamp(j) \/ \E m \in Messages : Publish(j, m)
    \/ Loop
    \/ \E j \in Journal : MasterJoin(j)
    \/ \E loc \in Location : MasterLeave(loc)

Spec == Init /\ [][Next]_vars

(* hero::produce loops as long as the process lives, every turn of the     *)
(* loop comes to data_available whatever the master did before it, and a   *)
(* writer that has stamped a frame publishes it.                           *)
Fairness ==
    /\ WF_vars(Loop) /\ SF_vars(Poll)
    /\ \A j \in Journal : WF_vars(\E m \in Messages : Publish(j, m))

FairSpec == Spec /\ Fairness

-----------------------------------------------------------------------------
Frame == [gen : Nat, msg : [cmd : {"data", "read_from", "deregister"},
                            journal : Journal, from : Nat]]

(* The shape of the state of reader and hero; a cursor is never further    *)
(* than the place of the frame to come.                                    *)
TypeOK ==
    /\ clock \in Nat /\ mintime \in Nat /\ now \in Nat
    /\ stamp \in [Journal -> Nat]
    /\ log \in [Journal -> Seq(Frame)]
    /\ journals \in SUBSET Journal /\ todo \in SUBSET Journal
    /\ pos \in [Journal -> Nat] /\ first \in [Journal -> Nat]
    /\ current \in Journal \cup {None}
    /\ pc \in {"poll", "sort", "check", "handle", "next"}
    /\ then \in {"poll", "again", "check", "next"}
    /\ offered \in SUBSET Nat
    /\ got \in [Journal -> Seq(Nat)]
    /\ \A j \in journals : pos[j] \in 1 .. Len(log[j]) + 1

(* current_ is a raw pointer into journals_: it never outlives the journal *)
(* it points to, although journals come and go while an event is handled.  *)
NoDangling == current # None => current \in journals

(* The frames of a journal reach the application one after the other, none *)
(* twice and none left out, from the frame it was joined at.               *)
EachOnce ==
    \A j \in journals : \A i \in 1 .. Len(got[j]) : got[j][i] = first[j] + i - 1

(* The event that is handled is not newer than any frame that was visible  *)
(* when data_available began to sort, although frames of other journals    *)
(* appear while it sorts.                                                  *)
OldestFirst == pc = "handle" => \A g \in offered : now <= g

(* Every frame of a joined journal is handled, unless its journal is left. *)
EveryFrame ==
    \A j \in Journal : \A k \in 1 .. MaxFrame :
       (j \in journals /\ first[j] <= k /\ k <= Len(log[j]))
          ~> (j \notin journals \/ \E i \in 1 .. Len(got[j]) : got[j][i] = k)
=============================================================================
