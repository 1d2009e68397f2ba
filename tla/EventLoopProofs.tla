-------------------------- MODULE EventLoopProofs ---------------------------
(***************************************************************************)
(* Proofs about EventLoop for any number of journals, locations and        *)
(* frames: current_ never dangles, cursors stay in their journals, the     *)
(* oldest visible frame is handled first, and every frame is handled once. *)
(***************************************************************************)
EXTENDS EventLoop, TLAPS

(* The frame under a cursor was selected by the sort that is running. *)
Selected == current # None /\ HasData(current) /\ GenTime(current) = mintime

(* current_ points into journals_, and so will it after the sort. *)
IPointer ==
    /\ current \in journals \cup {None}
    /\ todo \subseteq journals

(* The clock is ahead of every time stamp. *)
ITime ==
    /\ mintime <= clock
    /\ \A j \in Journal : stamp[j] <= clock
    /\ \A j \in Journal : \A i \in 1 .. Len(log[j]) : log[j][i].gen <= clock

(* The event that is handled exists, also after a disjoin in its middle. *)
IEvent ==
    /\ pc = "handle" => current # None
    /\ (pc \in {"handle", "next"} \/ (pc = "sort" /\ then = "next")) =>
          (current # None => HasData(current))

(* What sort has selected is as old as everything it has looked at. *)
ISort ==
    /\ (pc = "sort" /\ then = "check") =>
          /\ Selected \/ \A g \in offered : g <= mintime
          /\ \A g \in offered :
               \/ \E j \in todo : HasData(j) /\ GenTime(j) = g
               \/ Selected /\ mintime <= g
    /\ pc = "check" =>
          \A g \in offered : current # None /\ HasData(current) /\ GenTime(current) <= g
    /\ OldestFirst

IInv == TypeOK /\ IPointer /\ ITime /\ IEvent /\ ISort

-----------------------------------------------------------------------------
(* What a writer appends is a frame. *)
LEMMA MessageType ==
    ASSUME TypeOK, NEW j \in Journal, NEW m \in Messages
    PROVE  [gen |-> stamp[j], msg |-> m] \in Frame
  <1>1. m \in [cmd : {"data", "read_from", "deregister"}, journal : Journal, from : Nat]
    <2>1. CASE m = Message("data", Home, 0)
      BY <2>1, JournalAssumption DEF Message
    <2>2. CASE m # Message("data", Home, 0)
      <3> DEFINE Times == IF Master THEN {0} ELSE 0 .. clock
      <3>1. PICK c \in Command, k \in Journal \ {Home}, t \in Times : m = Message(c, k, t)
        BY <2>2 DEF Messages
      <3>2. t \in Nat BY DEF TypeOK
      <3> QED BY <3>1, <3>2, JournalAssumption DEF Message
    <2> QED BY <2>1, <2>2
  <1> QED BY <1>1 DEF TypeOK, Frame

(* A published frame stays where it is when another one is published. *)
LEMMA PublishKeeps ==
    ASSUME TypeOK, NEW j \in Journal, NEW f \in Frame,
           log' = [log EXCEPT ![j] = Append(@, f)]
    PROVE  /\ log' \in [Journal -> Seq(Frame)]
           /\ Len(log'[j]) = Len(log[j]) + 1
           /\ log'[j][Len(log[j]) + 1] = f
           /\ \A k \in Journal : Len(log[k]) <= Len(log'[k])
           /\ \A k \in Journal : \A i \in 1 .. Len(log[k]) : log'[k][i] = log[k][i]
           /\ \A k \in Journal : k # j => log'[k] = log[k]
  <1>1. log[j] \in Seq(Frame) BY DEF TypeOK
  <1>2. log'[j] = Append(log[j], f) BY DEF TypeOK
  <1>3. \A k \in Journal : k # j => log'[k] = log[k] BY DEF TypeOK
  <1>4. log' \in [Journal -> Seq(Frame)] BY <1>1, <1>2 DEF TypeOK
  <1>5. \A k \in Journal : Len(log[k]) \in Nat BY DEF TypeOK
  <1> QED BY <1>1, <1>2, <1>3, <1>4, <1>5

(* The times of published frames are numbers. *)
LEMMA FrameTimes ==
    ASSUME TypeOK
    PROVE  /\ \A j \in Journal : Len(log[j]) \in Nat
           /\ \A j \in Journal : \A i \in 1 .. Len(log[j]) :
                 log[j][i] \in Frame /\ log[j][i].gen \in Nat
           /\ \A j \in journals : j \in Journal /\ pos[j] \in Nat /\ pos[j] >= 1
           /\ \A j \in journals : HasData(j) => pos[j] \in 1 .. Len(log[j])
           /\ \A j \in journals : HasData(j) => GenTime(j) \in Nat
  <1>1. \A j \in Journal : Len(log[j]) \in Nat BY DEF TypeOK
  <1>2. \A j \in Journal : \A i \in 1 .. Len(log[j]) : log[j][i] \in Frame
    BY DEF TypeOK
  <1>3. \A j \in journals : j \in Journal /\ pos[j] \in Nat /\ pos[j] >= 1
    BY <1>1 DEF TypeOK
  <1>4. \A j \in journals : HasData(j) => pos[j] \in 1 .. Len(log[j])
    BY <1>1, <1>3 DEF HasData
  <1>5. \A j \in Journal : \A i \in 1 .. Len(log[j]) : log[j][i].gen \in Nat
    BY <1>2 DEF Frame
  <1> QED BY <1>1, <1>2, <1>3, <1>4, <1>5 DEF GenTime

-----------------------------------------------------------------------------
(* Initially every part of the invariant holds. *)
LEMMA InitIInv == Init => IInv
  <1> SUFFICES ASSUME Init PROVE IInv OBVIOUS
  <1>1. TypeOK BY JournalAssumption DEF Init, TypeOK
  <1>2. IPointer BY JournalAssumption DEF Init, IPointer
  <1>3. ITime BY DEF Init, ITime
  <1>4. IEvent BY DEF Init, IEvent
  <1>5. ISort BY DEF Init, ISort, OldestFirst
  <1> QED BY <1>1, <1>2, <1>3, <1>4, <1>5 DEF IInv

(* Stamping a frame moves the clock forward only. *)
LEMMA StampIInv ==
    ASSUME IInv, NEW j \in Journal, Stamp(j)
    PROVE  IInv'
  <1> USE DEF IInv
  <1>1. PICK k \in Tick : clock' = clock + k /\ stamp' = [stamp EXCEPT ![j] = clock + k]
    BY DEF Stamp
  <1>2. k \in Nat /\ clock \in Nat BY <1>1, JournalAssumption DEF TypeOK
  <1>3. UNCHANGED <<log, journals, pos, current, lvars, now, first, got>> BY DEF Stamp
  <1>s. stamp \in [Journal -> Nat] BY DEF TypeOK
  <1>t. clock' \in Nat /\ stamp' \in [Journal -> Nat] BY <1>1, <1>2, <1>s
  <1>4. TypeOK' BY <1>3, <1>t DEF TypeOK, lvars
  <1>5. IPointer' BY <1>3 DEF IPointer, lvars
  <1>6. ITime'
    <2>1. \A i \in Journal : stamp[i] \in Nat /\ stamp[i] <= clock BY <1>s DEF ITime
    <2>2. \A i \in Journal : stamp'[i] <= clock' BY <1>1, <1>2, <1>s, <2>1
    <2>3. mintime' <= clock' BY <1>1, <1>2, <1>3 DEF ITime, TypeOK, lvars
    <2>4. \A q \in Journal : \A i \in 1 .. Len(log[q]) : log[q][i].gen <= clock'
      BY <1>1, <1>2, FrameTimes DEF ITime
    <2> QED BY <1>3, <2>2, <2>3, <2>4 DEF ITime
  <1>7. IEvent' BY <1>3 DEF IEvent, HasData, lvars
  <1>8. ISort' BY <1>3 DEF ISort, Selected, OldestFirst, HasData, GenTime, lvars
  <1> QED BY <1>4, <1>5, <1>6, <1>7, <1>8

(* Publishing a frame makes data appear and changes none. *)
LEMMA PublishIInv ==
    ASSUME IInv, NEW j \in Journal, NEW m \in Messages, Publish(j, m)
    PROVE  IInv'
  <1> USE DEF IInv
  <1> DEFINE f == [gen |-> stamp[j], msg |-> m]
  <1>1. f \in Frame BY MessageType
  <1>2. /\ log' = [log EXCEPT ![j] = Append(@, f)]
        /\ stamp' = [stamp EXCEPT ![j] = 0]
        /\ UNCHANGED <<clock, journals, pos, current, lvars, now, first, got>>
    BY DEF Publish
  <1>f. f.gen = stamp[j] OBVIOUS
  <1> HIDE DEF f
  <1>3. /\ log' \in [Journal -> Seq(Frame)]
        /\ Len(log'[j]) = Len(log[j]) + 1
        /\ log'[j][Len(log[j]) + 1] = f
        /\ \A k \in Journal : Len(log[k]) <= Len(log'[k])
        /\ \A k \in Journal : \A i \in 1 .. Len(log[k]) : log'[k][i] = log[k][i]
        /\ \A k \in Journal : k # j => log'[k] = log[k]
    BY <1>1, <1>2, PublishKeeps
  <1>a. log \in [Journal -> Seq(Frame)] BY DEF TypeOK
  <1>4. \A k \in Journal : Len(log[k]) \in Nat /\ Len(log'[k]) \in Nat
    BY <1>3, <1>a
  <1>5. \A k \in journals : HasData(k) => HasData(k)' /\ GenTime(k)' = GenTime(k)
    BY <1>2, <1>3, <1>4, FrameTimes DEF HasData, GenTime
  <1>6. TypeOK'
    <2>1. stamp' \in [Journal -> Nat] BY <1>2 DEF TypeOK
    <2>2. \A k \in journals' : pos'[k] \in 1 .. Len(log'[k]) + 1
      BY <1>2, <1>3, <1>4, FrameTimes DEF TypeOK
    <2> QED BY <1>2, <1>3, <2>1, <2>2 DEF TypeOK, lvars
  <1>7. IPointer' BY <1>2 DEF IPointer, lvars
  <1>8. ITime'
    <2>1. \A k \in Journal : stamp'[k] <= clock' BY <1>2 DEF ITime, TypeOK
    <2>2. \A k \in Journal : \A i \in 1 .. Len(log'[k]) : log'[k][i].gen <= clock'
      <3> TAKE k \in Journal
      <3> TAKE i \in 1 .. Len(log'[k])
      <3>1. CASE i <= Len(log[k])
        BY <1>2, <1>3, <1>4, <3>1 DEF ITime
      <3>2. CASE i > Len(log[k])
        <4>1. k = j /\ i = Len(log[j]) + 1 BY <1>3, <1>4, <3>2
        <4> QED BY <4>1, <1>2, <1>3, <1>f DEF ITime
      <3> QED BY <1>4, <3>1, <3>2
    <2> QED BY <1>2, <2>1, <2>2 DEF ITime, lvars
  <1>9. IEvent' BY <1>2, <1>5 DEF IEvent, IPointer, lvars
  <1>10. ISort'
    <2>1. /\ pc' = pc /\ then' = then /\ offered' = offered /\ mintime' = mintime
          /\ current' = current /\ todo' = todo /\ now' = now
      BY <1>2 DEF lvars
    <2>2. Selected => Selected' BY <1>5, <2>1 DEF Selected, IPointer
    <2>3. \A k \in todo : HasData(k) => HasData(k)' /\ GenTime(k)' = GenTime(k)
      BY <1>5 DEF IPointer
    <2>4. (current # None /\ HasData(current)) =>
             HasData(current)' /\ GenTime(current)' = GenTime(current)
      BY <1>5, <2>1 DEF IPointer
    <2>5. (pc' = "sort" /\ then' = "check") =>
             /\ Selected' \/ \A g \in offered' : g <= mintime'
             /\ \A g \in offered' :
                  \/ \E k \in todo' : HasData(k)' /\ GenTime(k)' = g
                  \/ Selected' /\ mintime' <= g
      BY <2>1, <2>2, <2>3 DEF ISort
    <2>6. pc' = "check" =>
             \A g \in offered' : current' # None /\ HasData(current)' /\ GenTime(current)' <= g
      BY <2>1, <2>4 DEF ISort
    <2>7. OldestFirst' BY <2>1 DEF ISort, OldestFirst
    <2> QED BY <2>5, <2>6, <2>7 DEF ISort
  <1> QED BY <1>6, <1>7, <1>8, <1>9, <1>10

-----------------------------------------------------------------------------
(* The steps of sort and of the loop. *)

(* Starting a sort of the joined journals. *)
LEMMA StartSortTypes ==
    ASSUME IInv, NEW ret \in {"poll", "again", "check", "next"}, NEW js \in SUBSET Journal,
           StartSort(js, ret)
    PROVE  /\ pc' = "sort" /\ then' = ret /\ todo' = js /\ mintime' = clock
           /\ mintime' \in Nat /\ todo' \in SUBSET Journal
  BY DEF StartSort, IInv, TypeOK

(* data_available: everything that is there is still to be looked at. *)
LEMMA DataAvailableIInv ==
    ASSUME IInv, DataAvailable,
           UNCHANGED <<clock, stamp, log, journals, pos, current, now, first, got>>
    PROVE  IInv'
  <1> USE DEF IInv
  <1>1. /\ pc' = "sort" /\ then' = "check" /\ todo' = journals /\ mintime' = clock
        /\ offered' = {GenTime(j) : j \in {k \in journals : HasData(k)}}
    BY DEF DataAvailable, StartSort
  <1>2. offered' \in SUBSET Nat BY <1>1, FrameTimes
  <1>3. TypeOK' BY <1>1, <1>2 DEF TypeOK
  <1>4. IPointer' BY <1>1 DEF IPointer
  <1>5. ITime' BY <1>1 DEF ITime, TypeOK
  <1>6. IEvent' BY <1>1 DEF IEvent
  <1>7. ISort'
    <2>1. \A g \in offered' : \E j \in todo' : HasData(j)' /\ GenTime(j)' = g
      BY <1>1 DEF HasData, GenTime
    <2>2. \A g \in offered' : g <= mintime'
      BY <1>1, FrameTimes DEF ITime, GenTime
    <2> QED BY <1>1, <2>1, <2>2 DEF ISort, OldestFirst
  <1> QED BY <1>3, <1>4, <1>5, <1>6, <1>7

(* One look of sort: what it selects is not newer than what it has seen. *)
LEMMA SortOneIInv ==
    ASSUME IInv, NEW j \in Journal, SortOne(j)
    PROVE  IInv'
  <1> USE DEF IInv
  <1>1. /\ pc = "sort" /\ j \in todo /\ j \in journals /\ todo' = todo \ {j}
        /\ UNCHANGED <<clock, stamp, log, journals, pos, pc, then, now, first, got, offered>>
    BY DEF SortOne, IPointer
  <1>2. j # None /\ clock \in Nat /\ mintime \in Nat
    BY JournalAssumption DEF TypeOK
  <1>a. \A g \in offered : g \in Nat BY DEF TypeOK
  <1>3. CASE HasData(j) /\ GenTime(j) <= mintime
    <2>1. mintime' = GenTime(j) /\ current' = j BY <1>3 DEF SortOne
    <2>2. GenTime(j) \in Nat BY <1>1, <1>3, FrameTimes
    <2>3. TypeOK' BY <1>1, <2>1, <2>2 DEF TypeOK
    <2>4. IPointer' BY <1>1, <2>1 DEF IPointer
    <2>5. ITime' BY <1>1, <1>2, <1>3, <2>1, <2>2 DEF ITime
    <2>6. HasData(j)' /\ GenTime(j)' = GenTime(j) BY <1>1, <1>3 DEF HasData, GenTime
    <2>7. Selected' BY <1>2, <2>1, <2>6 DEF Selected, HasData, GenTime
    <2>8. IEvent' BY <1>1, <2>7 DEF IEvent, Selected
    <2>9. ISort'
      <3>1. ASSUME then = "check", NEW g \in offered
            PROVE  \/ \E k \in todo' : HasData(k)' /\ GenTime(k)' = g
                   \/ mintime' <= g
        <4>1. CASE \E k \in todo : HasData(k) /\ GenTime(k) = g
          <5>1. PICK k \in todo : HasData(k) /\ GenTime(k) = g BY <4>1
          <5>2. CASE k = j BY <2>1, <2>2, <5>1, <5>2
          <5>3. CASE k # j BY <1>1, <5>1, <5>3 DEF HasData, GenTime
          <5> QED BY <5>2, <5>3
        <4>2. CASE mintime <= g BY <1>2, <1>3, <1>a, <2>1, <2>2, <4>2
        <4> QED BY <1>1, <3>1, <4>1, <4>2 DEF ISort
      <3> QED BY <1>1, <2>7, <3>1 DEF ISort, OldestFirst
    <2> QED BY <2>3, <2>4, <2>5, <2>8, <2>9
  <1>4. CASE ~(HasData(j) /\ GenTime(j) <= mintime)
    <2>1. UNCHANGED <<mintime, current>> BY <1>4 DEF SortOne
    <2>2. TypeOK' BY <1>1, <2>1 DEF TypeOK
    <2>3. IPointer' BY <1>1, <2>1 DEF IPointer
    <2>4. ITime' BY <1>1, <2>1 DEF ITime
    <2>5. IEvent' BY <1>1, <2>1 DEF IEvent, HasData
    <2>6. Selected' = Selected BY <1>1, <2>1 DEF Selected, HasData, GenTime
    <2>7. ISort'
      <3>1. ASSUME then = "check", NEW g \in offered
            PROVE  \/ \E k \in todo' : HasData(k)' /\ GenTime(k)' = g
                   \/ Selected /\ mintime <= g
        <4>1. CASE \E k \in todo : HasData(k) /\ GenTime(k) = g
          <5>1. PICK k \in todo : HasData(k) /\ GenTime(k) = g BY <4>1
          <5>2. CASE k = j
            <6>1. HasData(j) /\ GenTime(j) = g /\ ~(g <= mintime) BY <1>4, <5>1, <5>2
            <6>2. Selected BY <1>1, <3>1, <6>1 DEF ISort
            <6> QED BY <1>2, <1>a, <6>1, <6>2
          <5>3. CASE k # j BY <1>1, <5>1, <5>3 DEF HasData, GenTime
          <5> QED BY <5>2, <5>3
        <4> QED BY <1>1, <3>1, <4>1 DEF ISort
      <3>2. then = "check" => Selected \/ \A g \in offered : g <= mintime
        BY <1>1 DEF ISort
      <3> QED BY <1>1, <2>1, <2>6, <3>1, <3>2 DEF ISort, OldestFirst
    <2> QED BY <2>2, <2>3, <2>4, <2>5, <2>7
  <1> QED BY <1>3, <1>4

(* sort returns. *)
LEMMA SortDoneIInv ==
    ASSUME IInv, SortDone
    PROVE  IInv'
  <1> USE DEF IInv
  <1>1. /\ pc = "sort" /\ todo = {}
        /\ UNCHANGED <<clock, stamp, log, journals, pos, current, now, first, got>>
    BY DEF SortDone
  <1>2. CASE then = "again"
    BY <1>1, <1>2, DataAvailableIInv DEF SortDone
  <1>3. CASE then # "again"
    <2>1. pc' = then /\ then' = "poll" /\ mintime' = 0 /\ UNCHANGED <<todo, offered>>
      BY <1>3 DEF SortDone
    <2>2. TypeOK' BY <1>1, <1>3, <2>1 DEF TypeOK
    <2>3. IPointer' BY <1>1, <2>1 DEF IPointer
    <2>4. ITime' BY <1>1, <2>1 DEF ITime, TypeOK
    <2>5. IEvent' BY <1>1, <2>1 DEF IEvent, HasData, TypeOK
    <2>6. ISort'
      <3>1. ASSUME then = "check", NEW g \in offered
            PROVE  current # None /\ HasData(current) /\ GenTime(current) <= g
        BY <1>1, <3>1 DEF ISort, Selected
      <3> QED BY <1>1, <2>1, <3>1 DEF ISort, OldestFirst, HasData, GenTime, TypeOK
    <2> QED BY <2>2, <2>3, <2>4, <2>5, <2>6
  <1> QED BY <1>2, <1>3

(* The event that is delivered is as old as everything that was offered. *)
LEMMA DeliverIInv ==
    ASSUME IInv, Deliver
    PROVE  IInv'
  <1> USE DEF IInv
  <1>1. /\ pc = "check" /\ current # None /\ HasData(current)
        /\ now' = GenTime(current) /\ pc' = "handle"
        /\ got' = [got EXCEPT ![current] = Append(@, pos[current])]
        /\ UNCHANGED <<clock, stamp, log, journals, pos, current, todo, mintime, then,
                       first, offered>>
    BY DEF Deliver
  <1>2. current \in journals /\ current \in Journal BY <1>1 DEF IPointer, TypeOK
  <1>3. TypeOK'
    <2>1. now' \in Nat BY <1>1, <1>2, FrameTimes
    <2>2. pos[current] \in Nat BY <1>2, FrameTimes
    <2>3. got' \in [Journal -> Seq(Nat)] BY <1>1, <1>2, <2>2 DEF TypeOK
    <2> QED BY <1>1, <2>1, <2>3 DEF TypeOK
  <1>4. IPointer' BY <1>1 DEF IPointer
  <1>5. ITime' BY <1>1 DEF ITime
  <1>6. IEvent' BY <1>1 DEF IEvent, HasData
  <1>7. ISort' BY <1>1 DEF ISort, OldestFirst
  <1> QED BY <1>3, <1>4, <1>5, <1>6, <1>7

LEMMA IdleIInv ==
    ASSUME IInv, Idle
    PROVE  IInv'
  <1> USE DEF IInv
  <1>1. /\ pc' = "poll" /\ offered' = {}
        /\ UNCHANGED <<clock, stamp, log, journals, pos, current, todo, mintime, then,
                       now, first, got>>
    BY DEF Idle
  <1>2. TypeOK' BY <1>1 DEF TypeOK
  <1>3. IPointer' BY <1>1 DEF IPointer
  <1>4. ITime' BY <1>1 DEF ITime
  <1>5. IEvent' BY <1>1 DEF IEvent
  <1>6. ISort' BY <1>1 DEF ISort, OldestFirst
  <1> QED BY <1>2, <1>3, <1>4, <1>5, <1>6

(* Joining a journal touches no other one, and puts its cursor in it. *)
LEMMA JoinKeeps ==
    ASSUME TypeOK, NEW j \in Journal, NEW from, Join(j, from)
    PROVE  /\ journals \subseteq journals' /\ journals' \in SUBSET Journal
           /\ pos' \in [Journal -> Nat] /\ first' \in [Journal -> Nat]
           /\ got' \in [Journal -> Seq(Nat)]
           /\ \A k \in journals : pos'[k] = pos[k] /\ first'[k] = first[k] /\ got'[k] = got[k]
           /\ \A k \in journals' : k \notin journals =>
                 k = j /\ pos'[k] = first'[k] /\ got'[k] = <<>>
           /\ \A k \in journals' : pos'[k] \in 1 .. Len(log[k]) + 1
  <1>1. CASE j \in journals /\ UNCHANGED <<journals, pos, first, got>>
    BY <1>1 DEF TypeOK
  <1>2. CASE j \notin journals
    <2>1. PICK k \in 1 .. Len(log[j]) + 1 :
            /\ journals' = journals \cup {j}
            /\ pos' = [pos EXCEPT ![j] = k]
            /\ first' = [first EXCEPT ![j] = k]
            /\ got' = [got EXCEPT ![j] = <<>>]
      BY <1>2 DEF Join
    <2>2. k \in Nat /\ <<>> \in Seq(Nat) BY FrameTimes
    <2> QED BY <1>2, <2>1, <2>2 DEF TypeOK
  <1> QED BY <1>1, <1>2 DEF Join

(* Joining a journal leaves the events that are there alone. *)
LEMMA JoinData ==
    ASSUME TypeOK, NEW j \in Journal, NEW from, Join(j, from), UNCHANGED log
    PROVE  \A k \in journals : HasData(k)' = HasData(k) /\ GenTime(k)' = GenTime(k)
  BY JoinKeeps DEF HasData, GenTime

(* A disjoin leaves no pointer behind and starts a sort of the rest. *)
LEMMA DisjoinIInv ==
    ASSUME IInv, NEW loc \in Location, NEW ret \in {"poll", "next"}, Disjoin(loc, ret),
           UNCHANGED <<clock, stamp, log, pos, now, first, got>>, offered' \in SUBSET Nat
    PROVE  IInv'
  <1> USE DEF IInv
  <1>1. /\ pc' = "sort" /\ then' = ret /\ todo' = journals' /\ mintime' = clock
        /\ current' = None /\ journals' \subseteq journals
    BY DEF Disjoin, StartSort, Remaining
  <1>2. TypeOK' BY <1>1 DEF TypeOK
  <1>3. IPointer' BY <1>1 DEF IPointer
  <1>4. ITime' BY <1>1 DEF ITime, TypeOK
  <1>5. IEvent' BY <1>1 DEF IEvent
  <1>6. ISort' BY <1>1 DEF ISort, OldestFirst
  <1> QED BY <1>2, <1>3, <1>4, <1>5, <1>6

(* What a subscriber does to the reader. *)
LEMMA HandleIInv ==
    ASSUME IInv, Handle
    PROVE  IInv'
  <1> USE DEF IInv
  <1> DEFINE m == log[current][pos[current]].msg
  <1>1. /\ pc = "handle" /\ offered' = {} /\ UNCHANGED <<clock, stamp, log, now>>
    BY DEF Handle
  <1>2. current # None /\ current \in journals /\ HasData(current)
    BY <1>1 DEF IEvent, IPointer
  <1>3. m.journal \in Journal
    <2>1. log[current][pos[current]] \in Frame BY <1>2, FrameTimes
    <2> QED BY <2>1 DEF Frame
  <1>4. CASE /\ pc' = "next"
             /\ UNCHANGED <<journals, pos, current, todo, mintime, then, first, got>>
    <2>1. TypeOK' BY <1>1, <1>4 DEF TypeOK
    <2>2. IPointer' BY <1>4 DEF IPointer
    <2>3. ITime' BY <1>1, <1>4 DEF ITime
    <2>4. IEvent' BY <1>1, <1>2, <1>4 DEF IEvent, HasData
    <2>5. ISort' BY <1>1, <1>4 DEF ISort, OldestFirst
    <2> QED BY <2>1, <2>2, <2>3, <2>4, <2>5
  <1>5. CASE \E from : /\ Join(m.journal, from) /\ pc' = "next"
                       /\ UNCHANGED <<current, todo, mintime, then>>
    <2>1. PICK from : Join(m.journal, from) BY <1>5
    <2> HIDE DEF m
    <2>2. TypeOK' BY <1>1, <1>3, <1>5, <2>1, JoinKeeps DEF TypeOK
    <2>3. IPointer' BY <1>3, <1>5, <2>1, JoinKeeps DEF IPointer
    <2>4. ITime' BY <1>1, <1>5 DEF ITime
    <2>5. HasData(current)' BY <1>1, <1>2, <1>3, <1>5, <2>1, JoinKeeps DEF HasData
    <2>6. IEvent' BY <1>5, <2>5 DEF IEvent
    <2>7. ISort' BY <1>1, <1>5 DEF ISort, OldestFirst
    <2> QED BY <2>2, <2>3, <2>4, <2>6, <2>7
  <1>6. CASE Disjoin(LocationOf[m.journal], "next") /\ UNCHANGED <<pos, first, got>>
    <2>1. LocationOf[m.journal] \in Location BY <1>3, JournalAssumption
    <2> HIDE DEF m
    <2> QED BY <1>1, <1>6, <2>1, DisjoinIInv
  <1> QED BY <1>4, <1>5, <1>6 DEF Handle

(* The cursor leaves the event, there is a place for it to go to. *)
LEMMA AdvanceIInv ==
    ASSUME IInv, Advance
    PROVE  IInv'
  <1> USE DEF IInv
  <1>1. /\ pc = "next"
        /\ pc' = "sort" /\ then' = "again" /\ todo' = journals /\ mintime' = clock
        /\ UNCHANGED <<clock, stamp, log, journals, current, now, first, got, offered>>
    BY DEF Advance, StartSort
  <1>2. CASE current = None /\ UNCHANGED pos
    BY <1>1, <1>2 DEF TypeOK, IPointer, ITime, IEvent, ISort, OldestFirst
  <1>3. CASE current # None /\ pos' = [pos EXCEPT ![current] = @ + 1]
    <2>1. current \in journals /\ HasData(current) BY <1>1, <1>3 DEF IEvent, IPointer
    <2>2. pos[current] \in 1 .. Len(log[current]) /\ Len(log[current]) \in Nat
      BY <2>1, FrameTimes
    <2>3. TypeOK' BY <1>1, <1>3, <2>1, <2>2 DEF TypeOK
    <2>4. IPointer' BY <1>1 DEF IPointer
    <2>5. ITime' BY <1>1 DEF ITime, TypeOK
    <2> QED BY <1>1, <2>3, <2>4, <2>5 DEF IEvent, ISort, OldestFirst
  <1> QED BY <1>2, <1>3 DEF Advance

(* The master joins a journal between two events. *)
LEMMA MasterJoinIInv ==
    ASSUME IInv, NEW j \in Journal, MasterJoin(j)
    PROVE  IInv'
  <1> USE DEF IInv
  <1>1. /\ pc = "poll" /\ Join(j, clock)
        /\ UNCHANGED <<clock, stamp, log, current, now, offered>>
    BY DEF MasterJoin
  <1>2. CASE current = None /\ StartSort(journals', "poll")
    <2>1. /\ pc' = "sort" /\ then' = "poll" /\ todo' = journals' /\ mintime' = clock
      BY <1>2 DEF StartSort
    <2>2. TypeOK' BY <1>1, <2>1, JoinKeeps DEF TypeOK
    <2>3. IPointer' BY <1>1, <1>2, <2>1 DEF IPointer
    <2>a. clock \in Nat BY DEF TypeOK
    <2>b. mintime' <= clock' BY <1>1, <2>1, <2>a
    <2>4. ITime' BY <1>1, <2>b DEF ITime
    <2> QED BY <2>1, <2>2, <2>3, <2>4 DEF IEvent, ISort, OldestFirst
  <1>3. CASE current # None /\ UNCHANGED <<pc, todo, mintime, then>>
    <2>1. TypeOK' BY <1>1, <1>3, JoinKeeps DEF TypeOK
    <2>2. IPointer' BY <1>1, <1>3, JoinKeeps DEF IPointer
    <2>3. ITime' BY <1>1, <1>3 DEF ITime
    <2> QED BY <1>1, <1>3, <2>1, <2>2, <2>3 DEF IEvent, ISort, OldestFirst
  <1> QED BY <1>2, <1>3 DEF MasterJoin

LEMMA MasterLeaveIInv ==
    ASSUME IInv, NEW loc \in Location, MasterLeave(loc)
    PROVE  IInv'
  BY DisjoinIInv DEF MasterLeave, IInv, TypeOK

-----------------------------------------------------------------------------
(* The loop keeps the invariant, whatever the writers do meanwhile. *)
THEOREM LoopInvariance == Spec => []IInv
  <1>1. ASSUME IInv, [Next]_vars PROVE IInv'
    <2>1. ASSUME NEW j \in Journal, Stamp(j) PROVE IInv' BY <1>1, <2>1, StampIInv
    <2>2. ASSUME NEW j \in Journal, NEW m \in Messages, Publish(j, m) PROVE IInv'
      BY <1>1, <2>2, PublishIInv
    <2>3. CASE Poll BY <1>1, <2>3, DataAvailableIInv DEF Poll
    <2>4. ASSUME NEW j \in Journal, SortOne(j) PROVE IInv' BY <1>1, <2>4, SortOneIInv
    <2>5. CASE SortDone BY <1>1, <2>5, SortDoneIInv
    <2>6. CASE Deliver BY <1>1, <2>6, DeliverIInv
    <2>7. CASE Idle BY <1>1, <2>7, IdleIInv
    <2>8. CASE Handle BY <1>1, <2>8, HandleIInv
    <2>9. CASE Advance BY <1>1, <2>9, AdvanceIInv
    <2>10. ASSUME NEW j \in Journal, MasterJoin(j) PROVE IInv'
      BY <1>1, <2>10, MasterJoinIInv
    <2>11. ASSUME NEW loc \in Location, MasterLeave(loc) PROVE IInv'
      BY <1>1, <2>11, MasterLeaveIInv
    <2>12. CASE UNCHANGED vars
      BY <1>1, <2>12 DEF vars, lvars, IInv, TypeOK, IPointer, ITime, IEvent, ISort,
                         Selected, OldestFirst, HasData, GenTime
    <2> QED BY <1>1, <2>1, <2>2, <2>3, <2>4, <2>5, <2>6, <2>7, <2>8, <2>9, <2>10,
               <2>11, <2>12 DEF Next, Loop
  <1> QED BY <1>1, InitIInv, PTL DEF Spec

(* Every cursor of the reader stays in its journal: the master and the     *)
(* apprentices never read behind the place of the frame to come.           *)
THEOREM LoopTypeCorrect == Spec => []TypeOK
  BY LoopInvariance, PTL DEF IInv

(* current_ never points to a journal that disjoin has destroyed. *)
THEOREM PointerIsValid == Spec => []NoDangling
  <1>1. IInv => NoDangling BY DEF IInv, IPointer, NoDangling
  <1> QED BY <1>1, LoopInvariance, PTL

(* The event that is handled is not newer than any frame that was visible  *)
(* when data_available began to sort.                                      *)
THEOREM OldestIsFirst == Spec => []OldestFirst
  <1>1. IInv => OldestFirst BY DEF IInv, ISort
  <1> QED BY <1>1, LoopInvariance, PTL

-----------------------------------------------------------------------------
(* Every frame once. *)

(* No frame asks an apprentice to disjoin, so no sort runs in the middle   *)
(* of an event.                                                            *)
IQuiet ==
    /\ \A j \in Journal : \A i \in 1 .. Len(log[j]) : log[j][i].msg.cmd # "deregister"
    /\ then # "next"
    /\ pc \in {"handle", "next"} => current # None

(* The current journal's cursor is still on the frame that is handled. *)
Pending(j) == IF pc \in {"handle", "next"} /\ current = j THEN 1 ELSE 0

(* A cursor is as far as frames were delivered. *)
ICount ==
    \A j \in journals : pos[j] + Pending(j) = first[j] + Len(got[j])

IOnce == IQuiet /\ ICount /\ EachOnce

(* Steps that touch neither cursors nor what was delivered, and neither    *)
(* begin nor end an event.                                                 *)
LEMMA OnceKept ==
    ASSUME IInv, IOnce, UNCHANGED <<log, pos, first, got>>, journals' \subseteq journals,
           pc \notin {"handle", "next"}, pc' \notin {"handle", "next"}, then' # "next"
    PROVE  IOnce'
  BY DEF IOnce, IQuiet, ICount, Pending, EachOnce

(* A writer's steps leave the reader alone. *)
LEMMA WriterOnce ==
    ASSUME IInv, IOnce, "deregister" \notin Command, NEW j \in Journal,
           Stamp(j) \/ \E m \in Messages : Publish(j, m)
    PROVE  IOnce'
  <1>1. UNCHANGED <<journals, pos, current, pc, then, first, got>>
    BY DEF Stamp, Publish, lvars
  <1>2. \A k \in Journal : \A i \in 1 .. Len(log'[k]) : log'[k][i].msg.cmd # "deregister"
    <2>1. CASE Stamp(j) BY <2>1 DEF Stamp, IOnce, IQuiet
    <2>2. ASSUME NEW m \in Messages, Publish(j, m)
          PROVE  \A k \in Journal : \A i \in 1 .. Len(log'[k]) :
                    log'[k][i].msg.cmd # "deregister"
      <3> DEFINE f == [gen |-> stamp[j], msg |-> m]
      <3>1. f \in Frame BY MessageType DEF IInv
      <3>2. log' = [log EXCEPT ![j] = Append(@, f)] BY <2>2 DEF Publish
      <3>3. f.msg = m OBVIOUS
      <3>4. m.cmd # "deregister"
        <4>1. CASE m = Message("data", Home, 0) BY <4>1 DEF Message
        <4>2. CASE m # Message("data", Home, 0)
          <5> DEFINE Times == IF Master THEN {0} ELSE 0 .. clock
          <5>1. PICK c \in Command, k \in Journal \ {Home}, t \in Times : m = Message(c, k, t)
            BY <4>2 DEF Messages
          <5> QED BY <5>1 DEF Message
        <4> QED BY <4>1, <4>2
      <3> HIDE DEF f
      <3>5. /\ log' \in [Journal -> Seq(Frame)]
            /\ Len(log'[j]) = Len(log[j]) + 1
            /\ log'[j][Len(log[j]) + 1] = f
            /\ \A k \in Journal : \A i \in 1 .. Len(log[k]) : log'[k][i] = log[k][i]
            /\ \A k \in Journal : k # j => log'[k] = log[k]
        BY <3>1, <3>2, PublishKeeps DEF IInv
      <3>6. \A k \in Journal : Len(log[k]) \in Nat BY DEF IInv, TypeOK
      <3> TAKE k \in Journal
      <3> TAKE i \in 1 .. Len(log'[k])
      <3>7. CASE k = j /\ i = Len(log[j]) + 1 BY <3>3, <3>4, <3>5, <3>7
      <3>8. CASE ~(k = j /\ i = Len(log[j]) + 1)
        <4>1. i \in 1 .. Len(log[k]) BY <3>5, <3>6, <3>8
        <4> QED BY <3>5, <4>1 DEF IOnce, IQuiet
      <3> QED BY <3>7, <3>8
    <2> QED BY <2>1, <2>2
  <1> QED BY <1>1, <1>2 DEF IOnce, IQuiet, ICount, Pending, EachOnce

(* A delivery is of the frame after the last one. *)
LEMMA DeliverOnce ==
    ASSUME IInv, IOnce, Deliver
    PROVE  IOnce'
  <1>1. /\ pc = "check" /\ current # None /\ pc' = "handle"
        /\ got' = [got EXCEPT ![current] = Append(@, pos[current])]
        /\ UNCHANGED <<log, journals, pos, current, then, first>>
    BY DEF Deliver
  <1>2. current \in journals /\ current \in Journal
    BY <1>1 DEF IInv, IPointer, TypeOK
  <1>3. got \in [Journal -> Seq(Nat)] /\ pos \in [Journal -> Nat] /\ first \in [Journal -> Nat]
        /\ journals \subseteq Journal
    BY DEF IInv, TypeOK
  <1>4. \A j \in journals : pos[j] = first[j] + Len(got[j])
    BY <1>1, <1>3 DEF IOnce, ICount, Pending
  <1>5. /\ got'[current] = Append(got[current], pos[current])
        /\ \A j \in Journal : j # current => got'[j] = got[j]
    BY <1>1, <1>2, <1>3
  <1>6. /\ Len(got'[current]) = Len(got[current]) + 1
        /\ got'[current][Len(got[current]) + 1] = pos[current]
        /\ \A i \in 1 .. Len(got[current]) : got'[current][i] = got[current][i]
        /\ Len(got[current]) \in Nat
    BY <1>2, <1>3, <1>5
  <1>7. ICount'
    BY <1>1, <1>2, <1>3, <1>4, <1>5, <1>6 DEF ICount, Pending
  <1>8. EachOnce'
    <2> SUFFICES ASSUME NEW j \in journals, NEW i \in 1 .. Len(got'[j])
                 PROVE  got'[j][i] = first[j] + i - 1
      BY <1>1 DEF EachOnce
    <2>1. CASE j # current
      BY <1>3, <1>5, <2>1 DEF IOnce, EachOnce
    <2>2. CASE j = current
      <3>1. CASE i \in 1 .. Len(got[current]) BY <1>6, <2>2, <3>1 DEF IOnce, EachOnce
      <3>2. CASE i = Len(got[current]) + 1
        <4>1. pos[current] = first[current] + Len(got[current]) BY <1>2, <1>4
        <4>2. first[current] \in Nat BY <1>2, <1>3
        <4> QED BY <1>6, <2>2, <3>2, <4>1, <4>2
      <3> QED BY <1>6, <2>2, <3>1, <3>2
    <2> QED BY <2>1, <2>2
  <1>9. IQuiet' BY <1>1 DEF IOnce, IQuiet
  <1> QED BY <1>7, <1>8, <1>9 DEF IOnce

(* A journal that is joined starts its count anew. *)
LEMMA JoinOnce ==
    ASSUME IInv, IOnce, NEW j \in Journal, NEW from, Join(j, from),
           UNCHANGED <<log, current>>, then' # "next",
           \/ pc = "handle" /\ pc' = "next"
           \/ pc = "poll" /\ pc' \in {"poll", "sort"}
    PROVE  IOnce'
  <1>1. /\ journals \subseteq journals'
        /\ first' \in [Journal -> Nat] /\ journals' \in SUBSET Journal
        /\ \A k \in journals : pos'[k] = pos[k] /\ first'[k] = first[k] /\ got'[k] = got[k]
        /\ \A k \in journals' : k \notin journals =>
               k = j /\ pos'[k] = first'[k] /\ got'[k] = <<>>
    BY JoinKeeps DEF IInv
  <1>2. current # None => current \in journals BY DEF IInv, IPointer
  <1>3. \A k \in journals : Pending(k)' = Pending(k) BY DEF Pending
  <1>4. \A k \in journals' : k \notin journals => Pending(k)' = 0
    <2>1. CASE pc = "poll" BY <2>1 DEF Pending
    <2>2. CASE pc = "handle"
      <3>1. current \in journals BY <1>2, <2>2 DEF IOnce, IQuiet
      <3> QED BY <3>1 DEF Pending
    <2> QED BY <2>1, <2>2
  <1>5. ICount'
    <2> SUFFICES ASSUME NEW k \in journals'
                 PROVE  pos'[k] + Pending(k)' = first'[k] + Len(got'[k])
      BY DEF ICount
    <2>1. CASE k \in journals BY <1>1, <1>3, <2>1 DEF IOnce, ICount
    <2>2. CASE k \notin journals
      <3>1. Pending(k)' = 0 /\ pos'[k] = first'[k] /\ Len(got'[k]) = 0 /\ first'[k] \in Nat
        BY <1>1, <1>4, <2>2
      <3> QED BY <3>1
    <2> QED BY <2>1, <2>2
  <1>6. EachOnce' BY <1>1 DEF IOnce, EachOnce
  <1>7. IQuiet' BY DEF IOnce, IQuiet
  <1> QED BY <1>5, <1>6, <1>7 DEF IOnce

(* The subscribers of a frame that asks for nothing, or for a journal. *)
LEMMA HandleOnce ==
    ASSUME IInv, IOnce, Handle
    PROVE  IOnce'
  <1> DEFINE m == log[current][pos[current]].msg
  <1>1. pc = "handle" /\ UNCHANGED log BY DEF Handle
  <1>2. current \in journals /\ HasData(current)
    BY <1>1 DEF IInv, IEvent, IPointer
  <1>3. /\ pos[current] \in 1 .. Len(log[current])
        /\ current \in Journal /\ log[current][pos[current]] \in Frame
    BY <1>2, FrameTimes DEF IInv
  <1>4. m.cmd # "deregister" /\ m.journal \in Journal
    BY <1>3 DEF IOnce, IQuiet, Frame
  <1>5. CASE /\ pc' = "next"
             /\ UNCHANGED <<journals, pos, current, todo, mintime, then, first, got>>
    BY <1>1, <1>5 DEF IOnce, IQuiet, ICount, Pending, EachOnce
  <1>6. CASE \E from : /\ Join(m.journal, from) /\ pc' = "next"
                       /\ UNCHANGED <<current, todo, mintime, then>>
    <2>1. then' # "next" BY <1>6 DEF IOnce, IQuiet
    <2> HIDE DEF m
    <2> QED BY <1>1, <1>4, <1>6, <2>1, JoinOnce
  <1> QED BY <1>4, <1>5, <1>6 DEF Handle

(* next moves the cursor over the frame that was delivered. *)
LEMMA AdvanceOnce ==
    ASSUME IInv, IOnce, Advance
    PROVE  IOnce'
  <1>1. /\ pc = "next" /\ current # None /\ pc' = "sort" /\ then' = "again"
        /\ pos' = [pos EXCEPT ![current] = @ + 1]
        /\ UNCHANGED <<log, journals, current, first, got>>
    BY DEF Advance, StartSort, IOnce, IQuiet
  <1>2. current \in journals /\ journals \subseteq Journal /\ pos \in [Journal -> Nat]
    BY <1>1 DEF IInv, IPointer, TypeOK
  <1>3. ICount' BY <1>1, <1>2 DEF IOnce, ICount, Pending
  <1> QED BY <1>1, <1>3 DEF IOnce, IQuiet, EachOnce

(* Where no frame disjoins a journal in the middle of an event (the        *)
(* master, and an apprentice until somebody is deregistered), every frame  *)
(* of a joined journal is handled exactly once and in its order.           *)
THEOREM HandledOnce ==
    ASSUME "deregister" \notin Command
    PROVE  Spec => []EachOnce
  <1>1. ASSUME Init PROVE IOnce
    <2>1. IQuiet BY <1>1 DEF Init, IQuiet
    <2>2. Home \in Journal BY JournalAssumption
    <2>3. Pending(Home) = 0 BY <1>1 DEF Init, Pending
    <2>4. pos[Home] = 1 /\ first[Home] = 1 /\ Len(got[Home]) = 0 /\ journals = {Home}
      BY <1>1, <2>2 DEF Init
    <2>5. ICount BY <2>3, <2>4 DEF ICount
    <2>6. EachOnce BY <2>4 DEF EachOnce
    <2> QED BY <2>1, <2>5, <2>6 DEF IOnce
  <1>2. ASSUME IInv, IOnce, [Next]_vars PROVE IOnce'
    <2>1. ASSUME NEW j \in Journal, Stamp(j) \/ \E m \in Messages : Publish(j, m)
          PROVE  IOnce'
      BY <1>2, <2>1, WriterOnce
    <2>2. CASE Poll BY <1>2, <2>2, OnceKept DEF Poll, DataAvailable, StartSort
    <2>3. ASSUME NEW j \in Journal, SortOne(j) PROVE IOnce'
      BY <1>2, <2>3, OnceKept DEF SortOne, IOnce, IQuiet
    <2>4. CASE SortDone
      BY <1>2, <2>4, OnceKept DEF SortDone, DataAvailable, StartSort, IOnce, IQuiet, IInv, TypeOK
    <2>5. CASE Deliver BY <1>2, <2>5, DeliverOnce
    <2>6. CASE Idle BY <1>2, <2>6, OnceKept DEF Idle, IOnce, IQuiet
    <2>7. CASE Handle BY <1>2, <2>7, HandleOnce
    <2>8. CASE Advance BY <1>2, <2>8, AdvanceOnce
    <2>9. ASSUME NEW j \in Journal, MasterJoin(j) PROVE IOnce'
      BY <1>2, <2>9, JoinOnce DEF MasterJoin, StartSort, IOnce, IQuiet
    <2>10. ASSUME NEW loc \in Location, MasterLeave(loc) PROVE IOnce'
      BY <1>2, <2>10, OnceKept DEF MasterLeave, Disjoin, Remaining, StartSort
    <2>11. CASE UNCHANGED vars
      BY <1>2, <2>11 DEF vars, lvars, IOnce, IQuiet, ICount, Pending, EachOnce
    <2> QED BY <1>2, <2>1, <2>2, <2>3, <2>4, <2>5, <2>6, <2>7, <2>8, <2>9, <2>10,
               <2>11 DEF Next, Loop
  <1>3. IOnce => EachOnce BY DEF IOnce
  <1> QED BY <1>1, <1>2, <1>3, LoopInvariance, PTL DEF Spec
=============================================================================
