------------------------------ MODULE EventLog -------------------------------
(***************************************************************************)
(* What a journal promises to those who use it: one append-only sequence   *)
(* of events, and for every subscriber a cursor that starts behind the     *)
(* events up to its from_time and moves over the rest one by one.          *)
(***************************************************************************)
EXTENDS Integers, Sequences

CONSTANTS Subscriber, From

VARIABLES events,  \* gen_time of every published event, in order
          from,    \* from_time each subscriber asked for
          at,      \* number of the next event of a subscriber, 0: not joined
          got      \* numbers of the events it was given

evars == <<events, from, at, got>>

Init ==
    /\ events = <<>>
    /\ from = [s \in Subscriber |-> 0]
    /\ at = [s \in Subscriber |-> 0]
    /\ got = [s \in Subscriber |-> <<>>]

(* One event is added, not older than those before it. *)
Publish ==
    /\ Len(events') = Len(events) + 1
    /\ \A i \in 1 .. Len(events) :
          events'[i] = events[i] /\ events[i] <= events'[Len(events')]
    /\ UNCHANGED <<from, at, got>>

Request(s, f) ==
    /\ at[s] = 0
    /\ from' = [from EXCEPT ![s] = f]
    /\ UNCHANGED <<events, at, got>>

(* "subscribe events after this time, 0 means from start" *)
Subscribe(s, k) ==
    /\ at[s] = 0
    /\ \A i \in 1 .. k : events[i] <= from[s]
    /\ k < Len(events) => events[k + 1] > from[s]
    /\ at' = [at EXCEPT ![s] = k + 1]
    /\ UNCHANGED <<events, from, got>>

Deliver(s) ==
    /\ at[s] \in 1 .. Len(events)
    /\ got' = [got EXCEPT ![s] = Append(@, at[s])]
    /\ at' = [at EXCEPT ![s] = @ + 1]
    /\ UNCHANGED <<events, from>>

Next ==
    \/ Publish
    \/ \E s \in Subscriber :
         \/ \E f \in From : Request(s, f)
         \/ \E k \in 0 .. Len(events) : Subscribe(s, k)
         \/ Deliver(s)

Spec == Init /\ [][Next]_evars
=============================================================================
