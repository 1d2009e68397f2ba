---------------------------- MODULE TimersProofs -----------------------------
(***************************************************************************)
(* Proofs about the components that divide time.                           *)
(*   Timers  for any number of applications and timers, any delays and     *)
(*           durations and any age of an event: every timer has its event  *)
(*           under way, and what the master keeps belongs to the process   *)
(*           that runs.                                                    *)
(*   Bars    for any interval, any clock and any trades: each bar is of    *)
(*           the trades of its time.                                       *)
(***************************************************************************)
EXTENDS Timers, Bars, TLAPS, FiniteSetTheorems

TimerRecord   == [kind : Kind, due : Int, dur : Int]
RequestRecord == [id : Id, dur : Int, own : BOOLEAN]
TaskRecord    == [left : Nat, own : BOOLEAN]

(* One application: u timers used, its timers, requests, tasks and times,  *)
(* also in the middle of a step that takes time.                           *)
Shape(u, T, R, K, Q) ==
    /\ u \in 0 .. MaxTimer
    /\ T \in [DOMAIN T -> TimerRecord] /\ DOMAIN T \subseteq 0 .. u - 1
    /\ \A i \in DOMAIN T : T[i].due <= Later(T[i].dur, 0)
    /\ R \in Seq(RequestRecord)
    /\ K \in [DOMAIN K -> TaskRecord] /\ DOMAIN K \subseteq Id
    /\ Q \in Seq(Int) /\ \A k \in DOMAIN Q : Q[k] \in -1 .. MaxLag

(* After the step a timer is due before a task for it that is made now.    *)
Settled(T, Q) ==
    /\ \A i \in DOMAIN T : T[i].due >= Overdue /\ T[i].due < Later(T[i].dur, 0)
    /\ \A k \in DOMAIN Q : Q[k] \in 0 .. MaxLag

Awaits(i, T, R, K, Q) ==
    \/ \E k \in DOMAIN R : R[k].id = i
    \/ i \in DOMAIN K /\ K[i].left > T[i].due
    \/ \E k \in DOMAIN Q : -Q[k] > T[i].due

(* Of one that runs: requests are its own, for the duration of their timer. *)
Asked(u, T, R) ==
    \A k \in DOMAIN R :
        /\ R[k].own /\ R[k].id < u
        /\ R[k].id \in DOMAIN T => R[k].dur = T[R[k].id].dur
Served(u, T, R, K, Q) ==
    /\ Asked(u, T, R)
    /\ \A i \in DOMAIN K : K[i].own
    /\ \A i \in DOMAIN T : Awaits(i, T, R, K, Q)

TInv ==
    /\ running \subseteq known /\ known \subseteq App
    /\ used \in [App -> Nat]
    /\ DOMAIN timers = App /\ DOMAIN requests = App /\ DOMAIN tasks = App /\ DOMAIN times = App
    /\ \A a \in App :
          /\ Shape(used[a], timers[a], requests[a], tasks[a], times[a])
          /\ Settled(timers[a], times[a])
          /\ a \in running => Served(used[a], timers[a], requests[a], tasks[a], times[a])
          /\ a \notin running => used[a] = 0
          /\ a \notin known => tasks[a] = <<>> /\ requests[a] = <<>>

-----------------------------------------------------------------------------
(* A set in some order. *)
LEMMA Listed ==
    ASSUME NEW S, IsFiniteSet(S)
    PROVE  /\ SetToSeq(S) \in Seq(S) /\ Len(SetToSeq(S)) = Cardinality(S)
           /\ \A x \in S : \E k \in 1 .. Len(SetToSeq(S)) : SetToSeq(S)[k] = x
           /\ \A k \in 1 .. Len(SetToSeq(S)) : SetToSeq(S)[k] \in S
  <1> DEFINE n == Cardinality(S)
             s == SetToSeq(S)
  <1>1. n \in Nat BY FS_CardinalityType
  <1>2. \E f \in [1 .. n -> S] : IsInjective(f)
    BY FS_NatBijection, FS_CardinalityType DEF ExistsBijection, Bijection, Injection
  <1>3. s \in [1 .. n -> S] /\ IsInjective(s) BY <1>2 DEF SetToSeq
  <1> HIDE DEF s
  <1>4. s \in Injection(1 .. n, S) BY <1>3 DEF Injection
  <1>5. IsFiniteSet(1 .. n) /\ Cardinality(1 .. n) = n BY <1>1, FS_Interval
  <1>6. s \in Surjection(1 .. n, S) BY <1>4, <1>5, FS_Injection
  <1>7. \A x \in S : \E k \in 1 .. n : s[k] = x BY <1>6 DEF Surjection
  <1>8. s \in Seq(S) /\ Len(s) = n BY <1>1, <1>3
  <1> QED BY <1>3, <1>7, <1>8 DEF s
(* One sequence behind another. *)
LEMMA Joined ==
    ASSUME NEW S, NEW s \in Seq(S), NEW t \in Seq(S)
    PROVE  /\ s \o t \in Seq(S)
           /\ \A k \in DOMAIN s : k \in DOMAIN (s \o t) /\ (s \o t)[k] = s[k]
           /\ \A k \in DOMAIN t : \E l \in DOMAIN (s \o t) : (s \o t)[l] = t[k]
           /\ \A l \in DOMAIN (s \o t) : \/ l \in DOMAIN s /\ (s \o t)[l] = s[l]
                                         \/ \E k \in DOMAIN t : (s \o t)[l] = t[k]
  <1> DEFINE r == s \o t
  <1>1. /\ DOMAIN s = 1 .. Len(s) /\ DOMAIN t = 1 .. Len(t) /\ Len(s) \in Nat /\ Len(t) \in Nat
        /\ r \in Seq(S) /\ Len(r) = Len(s) + Len(t) /\ DOMAIN r = 1 .. Len(r)
        /\ \A l \in 1 .. Len(s) + Len(t) : r[l] = IF l <= Len(s) THEN s[l] ELSE t[l - Len(s)]
    OBVIOUS
  <1> HIDE DEF r
  <1>2. \A k \in DOMAIN t : Len(s) + k \in DOMAIN r /\ r[Len(s) + k] = t[k] BY <1>1
  <1>3. \A l \in DOMAIN r : l \in DOMAIN s \/ l - Len(s) \in DOMAIN t BY <1>1
  <1>4. \A l \in DOMAIN r : l \notin DOMAIN s => r[l] = t[l - Len(s)] BY <1>1
  <1>5. \A k \in DOMAIN s : k \in DOMAIN r /\ r[k] = s[k] BY <1>1
  <1> QED BY <1>1, <1>2, <1>3, <1>4, <1>5 DEF r

-----------------------------------------------------------------------------
(* Time passes. *)

LEMMA Nothing ==
    /\ OlderTasks(<<>>) = <<>>
    /\ DOMAIN <<>> = {}
  BY DEF OlderTasks

LEMMA Aging ==
    ASSUME NEW u, NEW T, NEW R, NEW K, NEW Q, Shape(u, T, R, K, Q), Room(Q)
    PROVE  /\ Shape(u, OlderTimers(T), R, OlderTasks(K), OlderTimes(Q))
           /\ Settled(OlderTimers(T), OlderTimes(Q))
           /\ Served(u, T, R, K, Q) => Served(u, OlderTimers(T), R, OlderTasks(K), OlderTimes(Q))
  <1> DEFINE T2 == OlderTimers(T)
             K2 == OlderTasks(K)
             Q2 == OlderTimes(Q)
  <1>0. MaxLag \in Nat /\ Overdue = -(MaxLag + 1) BY TimersAssumption DEF Overdue
  <1>1. /\ DOMAIN T2 = DOMAIN T
        /\ \A i \in DOMAIN T : /\ T[i] \in TimerRecord /\ T2[i] \in TimerRecord
                               /\ T2[i].dur = T[i].dur /\ T2[i].due = Later(T[i].due - 1, Overdue)
    <2>1. /\ DOMAIN T2 = DOMAIN T /\ T \in [DOMAIN T -> TimerRecord]
          /\ \A i \in DOMAIN T : T2[i] = [T[i] EXCEPT !.due = Later(@ - 1, Overdue)]
      BY DEF OlderTimers, Shape
    <2> HIDE DEF T2
    <2> SUFFICES ASSUME NEW i \in DOMAIN T
                 PROVE  /\ T[i] \in TimerRecord /\ T2[i] \in TimerRecord
                        /\ T2[i].dur = T[i].dur /\ T2[i].due = Later(T[i].due - 1, Overdue)
      BY <2>1
    <2>2. T[i] \in TimerRecord /\ T2[i] = [T[i] EXCEPT !.due = Later(@ - 1, Overdue)] BY <2>1
    <2>3. Later(T[i].due - 1, Overdue) \in Int BY <1>0, <2>2 DEF TimerRecord, Later
    <2> QED BY <2>2, <2>3 DEF TimerRecord
  <1>2. /\ DOMAIN K2 = DOMAIN K
        /\ \A i \in DOMAIN K : /\ K[i] \in TaskRecord /\ K2[i] \in TaskRecord
                               /\ K2[i].own = K[i].own /\ K2[i].left = Later(K[i].left - 1, 0)
    BY DEF OlderTasks, Shape, TaskRecord, Later
  <1>3. /\ DOMAIN Q2 = DOMAIN Q /\ Q2 \in Seq(Int)
        /\ \A k \in DOMAIN Q : Q[k] \in Int /\ Q2[k] = Q[k] + 1 /\ Q[k] \in -1 .. MaxLag - 1
    <2>1. Q \in Seq(Int) /\ \A k \in DOMAIN Q : Q[k] \in -1 .. MaxLag /\ Q[k] < MaxLag
      BY DEF Shape, Room
    <2>2. DOMAIN Q = 1 .. Len(Q) /\ Len(Q) \in Nat BY <2>1
    <2>3. Q2 = [k \in 1 .. Len(Q) |-> Q[k] + 1] BY <2>2 DEF OlderTimes
    <2>4. \A k \in 1 .. Len(Q) : Q[k] \in Int /\ Q[k] + 1 \in Int /\ Q[k] \in -1 .. MaxLag - 1
      BY <1>0, <2>1, <2>2
    <2> HIDE DEF Q2
    <2> QED BY <2>2, <2>3, <2>4
  <1>4. T2 \in [DOMAIN T2 -> TimerRecord] /\ K2 \in [DOMAIN K2 -> TaskRecord]
    <2>1. T2 = [i \in DOMAIN T |-> T2[i]] BY DEF OlderTimers
    <2>2. K2 = [i \in DOMAIN K |-> K2[i]] BY DEF OlderTasks
    <2> HIDE DEF T2, K2
    <2> QED BY <1>1, <1>2, <2>1, <2>2
  <1> HIDE DEF T2, K2, Q2
  <1>5. \A i \in DOMAIN T : T2[i].due >= Overdue /\ T2[i].due < Later(T2[i].dur, 0)
    <2> TAKE i \in DOMAIN T
    <2>1. T[i].due <= Later(T[i].dur, 0) /\ T[i].due \in Int /\ T[i].dur \in Int
      BY <1>1 DEF Shape, TimerRecord
    <2> QED BY <1>0, <1>1, <2>1 DEF Later
  <1>6. \A k \in DOMAIN Q2 : Q2[k] \in 0 .. MaxLag BY <1>0, <1>3
  <1>7. \A i \in DOMAIN T2 : T2[i].due <= Later(T2[i].dur, 0)
    BY <1>1, <1>5 DEF Later, TimerRecord
  <1>8. Shape(u, T2, R, K2, Q2)
    BY <1>0, <1>1, <1>2, <1>3, <1>4, <1>6, <1>7 DEF Shape
  <1>9. ASSUME NEW i \in DOMAIN T, Awaits(i, T, R, K, Q) PROVE Awaits(i, T2, R, K2, Q2)
    <2>1. T[i].due \in Int /\ T2[i].due = Later(T[i].due - 1, Overdue)
      BY <1>1 DEF TimerRecord
    <2>2. CASE i \in DOMAIN K /\ K[i].left > T[i].due
      <3>1. K[i].left \in Nat /\ K2[i].left = Later(K[i].left - 1, 0) BY <1>2, <2>2 DEF TaskRecord
      <3> QED BY <1>0, <1>2, <2>1, <2>2, <3>1 DEF Awaits, Later
    <2>3. ASSUME NEW k \in DOMAIN Q, -Q[k] > T[i].due PROVE -Q2[k] > T2[i].due
      BY <1>0, <1>3, <2>1, <2>3 DEF Later
    <2> QED BY <1>3, <1>9, <2>2, <2>3 DEF Awaits
  <1>10. Asked(u, T, R) => Asked(u, T2, R) BY <1>1 DEF Asked
  <1>11. Served(u, T, R, K, Q) => Served(u, T2, R, K2, Q2)
    BY <1>1, <1>2, <1>9, <1>10 DEF Served
  <1>12. Settled(T2, Q2) BY <1>1, <1>5, <1>6 DEF Settled
  <1> QED BY <1>8, <1>11, <1>12 DEF T2, K2, Q2

(* A step that takes time: it is enough to look at the application that    *)
(* takes it, before the time has passed.                                   *)
LEMMA PassStep ==
    ASSUME TInv, NEW a \in App, NEW u \in Nat, NEW T, NEW K, NEW R, NEW Q,
           Pass(a, T, K, R, Q), UNCHANGED <<running, known>>, used' = [used EXCEPT ![a] = u],
           Shape(u, T, R, K, Q),
           a \in running => Served(u, T, R, K, Q),
           a \notin running => u = 0,
           a \notin known => K = <<>> /\ R = <<>>
    PROVE  TInv'
  <1>1. /\ used' \in [App -> Nat]
        /\ DOMAIN timers' = App /\ DOMAIN requests' = App /\ DOMAIN tasks' = App /\ DOMAIN times' = App
    BY DEF Pass, TInv
  <1>2. /\ used'[a] = u /\ timers'[a] = OlderTimers(T) /\ requests'[a] = R
        /\ tasks'[a] = OlderTasks(K) /\ times'[a] = OlderTimes(Q) /\ Room(Q)
    BY DEF Pass, TInv
  <1>3. ASSUME NEW b \in App \ {a}
        PROVE  /\ used'[b] = used[b] /\ timers'[b] = OlderTimers(timers[b])
               /\ requests'[b] = requests[b] /\ tasks'[b] = OlderTasks(tasks[b])
               /\ times'[b] = OlderTimes(times[b]) /\ Room(times[b])
    BY <1>3 DEF Pass, TInv
  <1>4. /\ Shape(used'[a], timers'[a], requests'[a], tasks'[a], times'[a])
        /\ Settled(timers'[a], times'[a])
        /\ a \in running => Served(used'[a], timers'[a], requests'[a], tasks'[a], times'[a])
    BY <1>2, Aging
  <1>5. ASSUME NEW b \in App \ {a}
        PROVE  /\ Shape(used'[b], timers'[b], requests'[b], tasks'[b], times'[b])
               /\ Settled(timers'[b], times'[b])
               /\ b \in running => Served(used'[b], timers'[b], requests'[b], tasks'[b], times'[b])
    <2>1. /\ Shape(used[b], timers[b], requests[b], tasks[b], times[b])
          /\ b \in running => Served(used[b], timers[b], requests[b], tasks[b], times[b])
      BY DEF TInv
    <2> QED BY <1>3, <2>1, Aging
  <1>6. \A b \in App : /\ b \notin running => used'[b] = 0
                       /\ b \notin known => tasks'[b] = <<>> /\ requests'[b] = <<>>
    <2> TAKE b \in App
    <2>1. CASE b = a BY <1>2, <2>1, Nothing
    <2>2. CASE b # a BY <1>3, <2>2, Nothing DEF TInv
    <2> QED BY <2>1, <2>2
  <1> QED BY <1>1, <1>4, <1>5, <1>6 DEF TInv

-----------------------------------------------------------------------------
(* The steps. *)

(* One more timer. *)
LEMMA SubscribeStep ==
    ASSUME TInv, NEW a \in App, NEW timer \in TimerRecord,
           timer.due <= Later(timer.dur, 0), Subscribe(a, timer)
    PROVE  TInv'
  <1> DEFINE u == used[a]
             T == timers[a]
             R == requests[a]
             x == Request(u, timer.dur)
             T2 == With(T, u, timer)
             R2 == Append(R, x)
  <1>1. /\ a \in running /\ u < MaxTimer /\ used' = [used EXCEPT ![a] = u + 1]
        /\ Pass(a, T2, tasks[a], R2, times[a])
        /\ UNCHANGED <<running, known>>
    BY DEF Subscribe, TInv
  <1>2. /\ Shape(u, T, R, tasks[a], times[a]) /\ Served(u, T, R, tasks[a], times[a])
        /\ u \in Nat /\ a \in known /\ MaxTimer \in Nat
    BY <1>1, TimersAssumption DEF TInv
  <1>3. /\ DOMAIN T2 = DOMAIN T \cup {u} /\ u \notin DOMAIN T /\ T2[u] = timer
        /\ \A i \in DOMAIN T : T2[i] = T[i]
        /\ T2 \in [DOMAIN T2 -> TimerRecord]
    <2>1. u \notin DOMAIN T /\ T \in [DOMAIN T -> TimerRecord] BY <1>2 DEF Shape
    <2>2. T2 = [i \in DOMAIN T \cup {u} |-> IF i = u THEN timer ELSE T[i]] BY DEF With
    <2> HIDE DEF T2
    <2> QED BY <2>1, <2>2
  <1>4. x \in RequestRecord /\ x.id = u /\ x.dur = timer.dur /\ x.own
    BY <1>1, <1>2 DEF Request, RequestRecord, TimerRecord, Id
  <1> HIDE DEF x, T2
  <1>5. /\ R2 \in Seq(RequestRecord) /\ Len(R) \in Nat
        /\ DOMAIN R = 1 .. Len(R) /\ DOMAIN R2 = 1 .. Len(R) + 1
        /\ R2[Len(R) + 1] = x /\ \A k \in DOMAIN R : R2[k] = R[k]
    BY <1>2, <1>4 DEF Shape
  <1> HIDE DEF R2, R, T, u
  <1>6. Shape(u + 1, T2, R2, tasks[a], times[a])
    BY <1>1, <1>2, <1>3, <1>5 DEF Shape
  <1>7. Asked(u + 1, T2, R2)
    <2> SUFFICES ASSUME NEW k \in DOMAIN R2
                 PROVE  /\ R2[k].own /\ R2[k].id < u + 1
                        /\ R2[k].id \in DOMAIN T2 => R2[k].dur = T2[R2[k].id].dur
      BY DEF Asked
    <2>1. CASE k = Len(R) + 1 BY <1>2, <1>3, <1>4, <1>5, <2>1
    <2>2. CASE k \in DOMAIN R
      <3>1. R[k] \in RequestRecord /\ R2[k] = R[k] BY <1>2, <1>5, <2>2 DEF Shape
      <3>2. /\ R[k].own /\ R[k].id < u /\ R[k].id \in Nat
            /\ R[k].id \in DOMAIN T => R[k].dur = T[R[k].id].dur
        BY <1>2, <2>2, <3>1 DEF Served, Asked, RequestRecord, Id
      <3> QED BY <1>2, <1>3, <3>1, <3>2
    <2> QED BY <1>5, <2>1, <2>2
  <1>8. \A i \in DOMAIN T2 : Awaits(i, T2, R2, tasks[a], times[a])
    <2> TAKE i \in DOMAIN T2
    <2>1. CASE i = u BY <1>4, <1>5, <2>1 DEF Awaits
    <2>2. CASE i \in DOMAIN T BY <1>2, <1>3, <1>5, <2>2 DEF Awaits, Served
    <2> QED BY <1>3, <2>1, <2>2
  <1>9. Served(u + 1, T2, R2, tasks[a], times[a]) BY <1>2, <1>7, <1>8 DEF Served
  <1>10. u + 1 \in Nat /\ Append(R, x) = R2 BY <1>2 DEF R2
  <1> QED BY <1>1, <1>2, <1>6, <1>9, <1>10, PassStep

(* The requests for some timers again. *)
LEMMA AgainRequests ==
    ASSUME NEW T, NEW F, NEW u \in 0 .. MaxTimer, F \subseteq DOMAIN T,
           T \in [DOMAIN T -> TimerRecord], DOMAIN T \subseteq 0 .. u - 1
    PROVE  /\ Again(T, F) \in Seq(RequestRecord)
           /\ \A k \in DOMAIN Again(T, F) :
                 /\ Again(T, F)[k].own /\ Again(T, F)[k].id \in F
                 /\ Again(T, F)[k].dur = T[Again(T, F)[k].id].dur
           /\ \A i \in F : \E k \in DOMAIN Again(T, F) : Again(T, F)[k].id = i
  <1> DEFINE s == SetToSeq(F)
             A == Again(T, F)
  <1>1. IsFiniteSet(F)
    <2>0. MaxTimer \in Nat /\ u \in Int /\ u - 1 \in Int BY TimersAssumption
    <2>1. IsFiniteSet(0 .. u - 1) BY <2>0, FS_Interval
    <2> QED BY <2>1, FS_Subset
  <1>2. /\ s \in Seq(F) /\ Len(s) \in Nat
        /\ \A x \in F : \E k \in 1 .. Len(s) : s[k] = x
        /\ \A k \in 1 .. Len(s) : s[k] \in F
    BY <1>1, Listed
  <1>3. A = [k \in 1 .. Len(s) |-> Request(s[k], T[s[k]].dur)] BY DEF Again
  <1> HIDE DEF s, A
  <1>4. DOMAIN A = 1 .. Len(s) BY <1>3
  <1>5. \A k \in 1 .. Len(s) : /\ A[k] \in RequestRecord /\ A[k].own
                               /\ A[k].id = s[k] /\ A[k].dur = T[s[k]].dur
    <2> TAKE k \in 1 .. Len(s)
    <2>1. A[k] = Request(s[k], T[s[k]].dur) BY <1>3
    <2>3. MaxTimer \in Nat BY TimersAssumption
    <2>4. s[k] \in F /\ s[k] \in DOMAIN T /\ s[k] \in 0 .. u - 1 BY <1>2
    <2>5. T[s[k]] \in TimerRecord BY <2>4
    <2>2. s[k] \in F /\ s[k] \in Id /\ T[s[k]].dur \in Int
      BY <2>3, <2>4, <2>5 DEF TimerRecord, Id
    <2> QED BY <2>1, <2>2 DEF Request, RequestRecord
  <1>6. A \in Seq(RequestRecord) BY <1>2, <1>3, <1>4, <1>5
  <1>7. \A k \in DOMAIN A : A[k].own /\ A[k].id \in F /\ A[k].dur = T[A[k].id].dur
    BY <1>2, <1>4, <1>5
  <1>8. \A i \in F : \E k \in DOMAIN A : A[k].id = i
    <2> TAKE i \in F
    <2>1. PICK k \in 1 .. Len(s) : s[k] = i BY <1>2
    <2> QED BY <1>4, <1>5, <2>1
  <1>9. A = Again(T, F) BY DEF A
  <1> QED BY <1>6, <1>7, <1>8, <1>9

(* Some timers end, the timers W are due anew and asked for again; what    *)
(* was awaited for the others still is.                                    *)
Rearms(a, T2, W, Q, age) ==
    /\ DOMAIN T2 \subseteq DOMAIN timers[a] /\ W \subseteq DOMAIN T2
    /\ T2 = [i \in DOMAIN T2 |->
               IF i \in W THEN [timers[a][i] EXCEPT !.due = timers[a][i].dur - age]
               ELSE timers[a][i]]
    /\ Q \in Seq(Int) /\ \A k \in DOMAIN Q : Q[k] \in 0 .. MaxLag
    /\ \A i \in DOMAIN T2 \ W : \A k \in DOMAIN times[a] :
          -times[a][k] > timers[a][i].due => \E l \in DOMAIN Q : Q[l] = times[a][k]
    /\ Pass(a, T2, tasks[a], requests[a] \o Again(timers[a], W), Q)
    /\ UNCHANGED <<running, known, used>>

LEMMA RearmStep ==
    ASSUME TInv, NEW a \in App, a \in running, NEW T2, NEW W, NEW Q, NEW age \in Nat,
           Rearms(a, T2, W, Q, age)
    PROVE  TInv'
  <1> USE DEF Rearms
  <1> DEFINE u == used[a]
             T == timers[a]
             R == requests[a]
             A == Again(T, W)
             R2 == R \o A
  <1>1. /\ Shape(u, T, R, tasks[a], times[a]) /\ Served(u, T, R, tasks[a], times[a])
        /\ u \in Nat /\ a \in known /\ DOMAIN used = App /\ used \in [App -> Nat]
    BY DEF TInv
  <1>2. /\ u \in 0 .. MaxTimer /\ T \in [DOMAIN T -> TimerRecord] /\ DOMAIN T \subseteq 0 .. u - 1
        /\ R \in Seq(RequestRecord)
    BY <1>1 DEF Shape
  <1>3. /\ A \in Seq(RequestRecord)
        /\ \A k \in DOMAIN A : A[k].own /\ A[k].id \in W /\ A[k].dur = T[A[k].id].dur
        /\ \A i \in W : \E k \in DOMAIN A : A[k].id = i
    BY <1>2, AgainRequests
  <1> HIDE DEF A
  <1>4. \A i \in DOMAIN T2 :
          /\ T2[i] \in TimerRecord /\ T2[i].dur = T[i].dur
          /\ T2[i].due <= Later(T2[i].dur, 0)
          /\ i \notin W => T2[i] = T[i]
    <2> TAKE i \in DOMAIN T2
    <2>1. T[i] \in TimerRecord /\ T[i].due <= Later(T[i].dur, 0) BY <1>1, <1>2 DEF Shape
    <2>2. CASE i \in W
      <3>1. T2[i] = [T[i] EXCEPT !.due = T[i].dur - age] BY <2>2
      <3> QED BY <2>1, <2>2, <3>1 DEF TimerRecord, Later
    <2>3. CASE i \notin W BY <2>1, <2>3
    <2> QED BY <2>2, <2>3
  <1>5. T2 \in [DOMAIN T2 -> TimerRecord] BY <1>4
  <1> HIDE DEF R
  <1>6. /\ R2 \in Seq(RequestRecord)
        /\ \A k \in DOMAIN R : k \in DOMAIN R2 /\ R2[k] = R[k]
        /\ \A k \in DOMAIN A : \E l \in DOMAIN R2 : R2[l] = A[k]
        /\ \A l \in DOMAIN R2 : \/ l \in DOMAIN R /\ R2[l] = R[l]
                                \/ \E k \in DOMAIN A : R2[l] = A[k]
    BY <1>2, <1>3, Joined
  <1> HIDE DEF R2
  <1>7. Shape(u, T2, R2, tasks[a], Q)
    <2>1. \A k \in DOMAIN Q : Q[k] \in -1 .. MaxLag BY TimersAssumption
    <2> QED BY <1>1, <1>2, <1>4, <1>5, <1>6, <2>1 DEF Shape
  <1>8. Asked(u, T2, R2)
    <2> SUFFICES ASSUME NEW l \in DOMAIN R2
                 PROVE  /\ R2[l].own /\ R2[l].id < u
                        /\ R2[l].id \in DOMAIN T2 => R2[l].dur = T2[R2[l].id].dur
      BY DEF Asked
    <2>1. CASE l \in DOMAIN R /\ R2[l] = R[l]
      <3>1. /\ R[l].own /\ R[l].id < u
            /\ R[l].id \in DOMAIN T => R[l].dur = T[R[l].id].dur
        BY <1>1, <2>1 DEF Served, Asked
      <3>2. DOMAIN T2 \subseteq DOMAIN T OBVIOUS
      <3> HIDE DEF T, u
      <3>3. R[l].id \in DOMAIN T2 => R[l].dur = T2[R[l].id].dur BY <1>4, <3>1, <3>2
      <3> QED BY <2>1, <3>1, <3>3
    <2>2. ASSUME NEW k \in DOMAIN A, R2[l] = A[k]
          PROVE  /\ R2[l].own /\ R2[l].id < u
                 /\ R2[l].id \in DOMAIN T2 => R2[l].dur = T2[R2[l].id].dur
      <3>1. A[k].own /\ A[k].id \in W /\ A[k].dur = T[A[k].id].dur BY <1>3
      <3>2. A[k].id \in DOMAIN T2 /\ A[k].id \in 0 .. u - 1 BY <1>2, <3>1
      <3> QED BY <1>1, <1>4, <2>2, <3>1, <3>2
    <2> QED BY <1>6, <2>1, <2>2
  <1>9. \A i \in DOMAIN T2 : Awaits(i, T2, R2, tasks[a], Q)
    <2> TAKE i \in DOMAIN T2
    <2>1. CASE i \in W
      <3>1. PICK k \in DOMAIN A : A[k].id = i BY <1>3, <2>1
      <3>2. \E l \in DOMAIN R2 : R2[l] = A[k] BY <1>6
      <3> QED BY <3>1, <3>2 DEF Awaits
    <2>2. CASE i \notin W
      <3>1. T2[i] = T[i] /\ Awaits(i, T, R, tasks[a], times[a]) BY <1>1, <1>4, <2>2 DEF Served
      <3>2. ASSUME NEW k \in DOMAIN times[a], -times[a][k] > T[i].due
            PROVE  \E l \in DOMAIN Q : -Q[l] > T2[i].due
        <4>1. PICK l \in DOMAIN Q : Q[l] = times[a][k] BY <2>2, <3>2
        <4> QED BY <3>1, <3>2, <4>1
      <3> QED BY <1>6, <3>1, <3>2 DEF Awaits
    <2> QED BY <2>1, <2>2
  <1>10. Served(u, T2, R2, tasks[a], Q) BY <1>1, <1>8, <1>9 DEF Served
  <1>11. used' = [used EXCEPT ![a] = u] BY <1>1
  <1>12. Pass(a, T2, tasks[a], R2, Q) /\ UNCHANGED <<running, known>> BY DEF A, R, R2
  <1> QED BY <1>1, <1>7, <1>10, <1>11, <1>12, PassStep

(* A Time event: the intervals it fires are due anew, and it is no longer  *)
(* on its way.                                                             *)
LEMMA OnTimeStep ==
    ASSUME TInv, NEW a \in App, OnTime(a)
    PROVE  TInv'
  <1> DEFINE T == timers[a]
             q == times[a]
             age == Head(q)
             F == Fired(T, age)
             I == {i \in F : T[i].kind = "interval"}
             T2 == Rearmed(T, F, age)
  <1>1. /\ a \in running /\ q # <<>>
        /\ Pass(a, T2, tasks[a], requests[a] \o Again(T, I), Tail(q))
        /\ UNCHANGED <<running, known, used>>
    BY DEF OnTime
  <1>2. /\ q \in Seq(Int) /\ \A k \in DOMAIN q : q[k] \in 0 .. MaxLag
        /\ T \in [DOMAIN T -> TimerRecord] /\ MaxLag \in Nat
    BY TimersAssumption DEF TInv, Shape, Settled
  <1> HIDE DEF q
  <1>3. /\ Tail(q) \in Seq(Int) /\ Len(q) \in Nat \ {0} /\ age = q[1] /\ age \in 0 .. MaxLag
        /\ DOMAIN q = 1 .. Len(q) /\ DOMAIN Tail(q) = 1 .. Len(q) - 1
        /\ \A k \in DOMAIN Tail(q) : Tail(q)[k] = q[k + 1] /\ k + 1 \in DOMAIN q
    <2>1. Len(q) \in Nat \ {0} /\ DOMAIN q = 1 .. Len(q) /\ age = q[1] BY <1>1, <1>2
    <2>2. Tail(q) \in Seq(Int) /\ DOMAIN Tail(q) = 1 .. Len(q) - 1 BY <1>1, <1>2, <2>1
    <2>3. \A k \in DOMAIN Tail(q) : Tail(q)[k] = q[k + 1] /\ k + 1 \in DOMAIN q
      BY <1>1, <1>2, <2>1, <2>2
    <2>4. 1 \in DOMAIN q BY <2>1
    <2> QED BY <1>2, <2>1, <2>2, <2>3, <2>4
  <1>4. age \in Nat /\ \A k \in DOMAIN Tail(q) : Tail(q)[k] \in 0 .. MaxLag BY <1>2, <1>3
  <1> HIDE DEF age
  <1>5. /\ DOMAIN T2 \subseteq DOMAIN T /\ I \subseteq DOMAIN T2
        /\ T2 = [i \in DOMAIN T2 |->
                   IF i \in I THEN [T[i] EXCEPT !.due = T[i].dur - age] ELSE T[i]]
        /\ \A i \in DOMAIN T2 \ I : ~(-age > T[i].due)
    BY DEF Rearmed, Fired
  <1> HIDE DEF I, T2, F
  <1>6. ASSUME NEW i \in DOMAIN T2 \ I, NEW k \in DOMAIN q, -q[k] > T[i].due
        PROVE  \E l \in DOMAIN Tail(q) : Tail(q)[l] = q[k]
    <2>1. k # 1 BY <1>3, <1>5, <1>6
    <2>2. k - 1 \in DOMAIN Tail(q) /\ Tail(q)[k - 1] = q[k - 1 + 1] BY <1>3, <2>1
    <2>3. k - 1 + 1 = k BY <1>3
    <2> QED BY <2>2, <2>3
  <1> HIDE DEF T
  <1>7. T = timers[a] /\ q = times[a] BY DEF T, q
  <1>8. Rearms(a, T2, I, Tail(q), age) BY <1>1, <1>3, <1>4, <1>5, <1>6, <1>7 DEF Rearms
  <1> QED BY <1>1, <1>4, <1>8, RearmStep

(* Another event: some timeouts end, the timeouts W are due anew.          *)
LEMMA OnEventStep ==
    ASSUME TInv, NEW a \in App, NEW age \in 0 .. MaxLag,
           NEW W \in SUBSET {i \in DOMAIN timers[a] : timers[a][i].kind = "timeout"},
           OnEvent(a, age, W)
    PROVE  TInv'
  <1> DEFINE T == timers[a]
             F == {i \in Fired(T, age) \ W : T[i].kind = "timeout"}
             T2 == [i \in DOMAIN T \ F |->
                      IF i \in W THEN [T[i] EXCEPT !.due = T[i].dur - age] ELSE T[i]]
  <1>1. /\ a \in running
        /\ Pass(a, T2, tasks[a], requests[a] \o Again(T, W), times[a])
        /\ UNCHANGED <<running, known, used>>
    BY DEF OnEvent
  <1>2. /\ times[a] \in Seq(Int) /\ \A k \in DOMAIN times[a] : times[a][k] \in 0 .. MaxLag
        /\ age \in Nat
    BY TimersAssumption DEF TInv, Shape, Settled
  <1>3. /\ DOMAIN T2 \subseteq DOMAIN T /\ W \subseteq DOMAIN T2
        /\ T2 = [i \in DOMAIN T2 |->
                   IF i \in W THEN [T[i] EXCEPT !.due = T[i].dur - age] ELSE T[i]]
    BY DEF Fired
  <1> HIDE DEF T2, F
  <1>4. Rearms(a, T2, W, times[a], age) BY <1>1, <1>2, <1>3 DEF Rearms
  <1> QED BY <1>1, <1>2, <1>4, RearmStep

(* A request is taken: a task is due after the timer it is for.            *)
LEMMA OnTimeRequestStep ==
    ASSUME TInv, NEW a \in App, OnTimeRequest(a)
    PROVE  TInv'
  <1> DEFINE u == used[a]
             T == timers[a]
             R == requests[a]
             K == tasks[a]
             r == Head(R)
             x == [left |-> Later(r.dur, 0), own |-> r.own]
             K2 == With(K, r.id, x)
  <1>1. /\ R # <<>> /\ a \in known
        /\ tasks' = [tasks EXCEPT ![a] = K2]
        /\ requests' = [requests EXCEPT ![a] = Tail(R)]
        /\ UNCHANGED <<running, known, used, timers, times>>
    BY DEF OnTimeRequest
  <1>2. /\ Shape(u, T, R, K, times[a]) /\ Settled(T, times[a])
        /\ a \in running => Served(u, T, R, K, times[a])
        /\ R \in Seq(RequestRecord)
    BY DEF TInv, Shape
  <1> HIDE DEF R
  <1>3. /\ Tail(R) \in Seq(RequestRecord) /\ r = R[1] /\ r \in RequestRecord
        /\ 1 \in DOMAIN R
        /\ \A k \in DOMAIN Tail(R) : k + 1 \in DOMAIN R /\ Tail(R)[k] = R[k + 1]
        /\ \A k \in DOMAIN R \ {1} : k - 1 \in DOMAIN Tail(R) /\ Tail(R)[k - 1] = R[k]
    <2>1. Len(R) \in Nat \ {0} /\ DOMAIN R = 1 .. Len(R) /\ r = R[1] BY <1>1, <1>2
    <2>2. Tail(R) \in Seq(RequestRecord) /\ DOMAIN Tail(R) = 1 .. Len(R) - 1
      BY <1>1, <1>2, <2>1
    <2>3. \A k \in DOMAIN Tail(R) : k + 1 \in DOMAIN R /\ Tail(R)[k] = R[k + 1]
      BY <1>1, <1>2, <2>1, <2>2
    <2>4. \A k \in DOMAIN R \ {1} : k - 1 \in DOMAIN Tail(R) /\ k - 1 + 1 = k BY <2>1, <2>2
    <2>5. 1 \in DOMAIN R BY <2>1
    <2>6. r \in RequestRecord BY <1>2, <2>1, <2>5
    <2>7. \A k \in DOMAIN R \ {1} : Tail(R)[k - 1] = R[k]
      <3> TAKE k \in DOMAIN R \ {1}
      <3>1. k - 1 \in DOMAIN Tail(R) /\ k - 1 + 1 = k BY <2>4
      <3>2. Tail(R)[k - 1] = R[k - 1 + 1] BY <2>3, <3>1
      <3> QED BY <3>1, <3>2
    <2> QED BY <2>1, <2>2, <2>3, <2>4, <2>5, <2>6, <2>7
  <1> HIDE DEF r
  <1>4. x \in TaskRecord /\ x.left = Later(r.dur, 0) /\ x.own = r.own /\ r.id \in Id
        /\ r.dur \in Int
    <2>1. r.dur \in Int /\ r.own \in BOOLEAN /\ r.id \in Id BY <1>3 DEF RequestRecord
    <2>2. Later(r.dur, 0) \in Nat BY <2>1 DEF Later
    <2> QED BY <2>1, <2>2 DEF TaskRecord
  <1> HIDE DEF x
  <1>5. /\ DOMAIN K2 = DOMAIN K \cup {r.id} /\ K2[r.id] = x
        /\ \A i \in DOMAIN K \ {r.id} : K2[i] = K[i]
        /\ K2 \in [DOMAIN K2 -> TaskRecord]
    <2>1. K \in [DOMAIN K -> TaskRecord] BY <1>2 DEF Shape
    <2>2. K2 = [i \in DOMAIN K \cup {r.id} |-> IF i = r.id THEN x ELSE K[i]] BY DEF With
    <2> HIDE DEF K2, K
    <2> QED BY <1>4, <2>1, <2>2
  <1> HIDE DEF K2
  <1>6. Shape(u, T, Tail(R), K2, times[a]) BY <1>2, <1>3, <1>4, <1>5 DEF Shape
  <1>7. ASSUME a \in running PROVE Served(u, T, Tail(R), K2, times[a])
    <2>1. /\ Asked(u, T, R) /\ \A i \in DOMAIN K : K[i].own
          /\ \A i \in DOMAIN T : Awaits(i, T, R, K, times[a])
      BY <1>2, <1>7 DEF Served
    <2>2. Asked(u, T, Tail(R)) BY <1>3, <2>1 DEF Asked
    <2>3. r.own /\ (r.id \in DOMAIN T => r.dur = T[r.id].dur) BY <1>3, <2>1 DEF Asked
    <2>4. \A i \in DOMAIN K2 : K2[i].own BY <1>4, <1>5, <2>1, <2>3
    <2>5. ASSUME NEW i \in DOMAIN T PROVE Awaits(i, T, Tail(R), K2, times[a])
      <3>1. CASE i = r.id
        <4>1. K2[i].left = Later(T[i].dur, 0) /\ i \in DOMAIN K2
          BY <1>4, <1>5, <2>3, <2>5, <3>1
        <4>2. T[i].due < Later(T[i].dur, 0) /\ T[i].due \in Int /\ T[i].dur \in Int
          BY <1>2, <2>5 DEF Shape, Settled, TimerRecord
        <4> QED BY <4>1, <4>2 DEF Awaits, Later
      <3>2. CASE i # r.id
        <4>1. ASSUME NEW k \in DOMAIN R, R[k].id = i
              PROVE  \E l \in DOMAIN Tail(R) : Tail(R)[l].id = i
          <5>1. k # 1 BY <1>3, <3>2, <4>1
          <5>2. k - 1 \in DOMAIN Tail(R) /\ Tail(R)[k - 1] = R[k] BY <1>3, <5>1
          <5> QED BY <4>1, <5>2
        <4>2. i \in DOMAIN K => i \in DOMAIN K2 /\ K2[i] = K[i] BY <1>5, <3>2
        <4>3. Awaits(i, T, R, K, times[a]) BY <2>1
        <4> HIDE DEF K, T
        <4> QED BY <4>1, <4>2, <4>3 DEF Awaits
      <3> QED BY <3>1, <3>2
    <2> QED BY <2>2, <2>4, <2>5 DEF Served
  <1>8. /\ tasks'[a] = K2 /\ requests'[a] = Tail(R) /\ DOMAIN tasks' = App /\ DOMAIN requests' = App
        /\ \A b \in App \ {a} : tasks'[b] = tasks[b] /\ requests'[b] = requests[b]
    BY <1>1 DEF TInv
  <1>9. ASSUME NEW b \in App
        PROVE  /\ Shape(used'[b], timers'[b], requests'[b], tasks'[b], times'[b])
               /\ Settled(timers'[b], times'[b])
               /\ b \in running' =>
                    Served(used'[b], timers'[b], requests'[b], tasks'[b], times'[b])
               /\ b \notin running' => used'[b] = 0
               /\ b \notin known' => tasks'[b] = <<>> /\ requests'[b] = <<>>
    <2>1. CASE b = a
      <3>1. a \notin running => used[a] = 0 BY DEF TInv
      <3> QED BY <1>1, <1>2, <1>6, <1>7, <1>8, <2>1, <3>1
    <2>2. CASE b # a BY <1>1, <1>8, <2>2 DEF TInv
    <2> QED BY <2>1, <2>2
  <1> QED BY <1>1, <1>8, <1>9 DEF TInv

-----------------------------------------------------------------------------
(* The initial states and every step. *)
LEMMA TInit == Init => TInv
  <1> SUFFICES ASSUME Init PROVE TInv OBVIOUS
  <1> QED BY TimersAssumption
       DEF Init, TInv, Shape, Settled, TimerRecord, TaskRecord, RequestRecord, Later

LEMMA TNext ==
    ASSUME TInv, [Next]_vars
    PROVE  TInv'
  <1>0. TimersAssumption /\ MaxLag \in Nat BY TimersAssumption
  <1>1. CASE UNCHANGED vars
    BY <1>1 DEF vars, TInv
  <1>2. CASE Tick
    <2>1. PICK a \in App : Pass(a, timers[a], tasks[a], requests[a], times[a])
      BY <1>2 DEF Tick
    <2>2. /\ UNCHANGED <<running, known, used>>
          /\ used[a] \in Nat /\ used' = [used EXCEPT ![a] = used[a]]
      BY <1>2 DEF Tick, TInv
    <2> QED BY <2>1, <2>2, PassStep DEF TInv
  <1> SUFFICES ASSUME NEW a \in App,
                      \/ \E age \in 0 .. MaxLag :
                           \/ \E d \in Delay : AddTimer(a, age, d)
                           \/ \E d \in Duration :
                                AddTimeInterval(a, age, d) \/ AddTimeout(a, age, d)
                           \/ \E W \in SUBSET {i \in DOMAIN timers[a] :
                                               timers[a][i].kind = "timeout"} :
                                OnEvent(a, age, W)
                      \/ OnTime(a) \/ OnTimeRequest(a)
                      \/ \E i \in Id : SendTime(a, i)
                      \/ Start(a) \/ Die(a) \/ Deregister(a)
               PROVE  TInv'
    BY <1>1, <1>2 DEF Next
  <1>3. ASSUME NEW age \in 0 .. MaxLag, NEW d \in Delay, AddTimer(a, age, d) PROVE TInv'
    <2> DEFINE t == Timer("timer", d, d + age)
    <2>1. Subscribe(a, t) /\ age \in Nat /\ d \in Int BY <1>0, <1>3 DEF AddTimer, TimersAssumption
    <2>2. t \in TimerRecord /\ t.due = d /\ t.dur = d + age
      BY <2>1 DEF Timer, TimerRecord, Kind
    <2>3. t.due <= Later(t.dur, 0) BY <2>1, <2>2 DEF Later
    <2> QED BY <2>1, <2>2, <2>3, SubscribeStep
  <1>4. ASSUME NEW age \in 0 .. MaxLag, NEW d \in Duration, NEW kind \in {"interval", "timeout"},
               Subscribe(a, Timer(kind, d - age, d))
        PROVE  TInv'
    <2> DEFINE t == Timer(kind, d - age, d)
    <2>1. age \in Nat /\ d \in Nat BY <1>0 DEF TimersAssumption
    <2>2. t \in TimerRecord /\ t.due = d - age /\ t.dur = d
      BY <2>1 DEF Timer, TimerRecord, Kind
    <2>3. t.due <= Later(t.dur, 0) BY <2>1, <2>2 DEF Later
    <2> QED BY <1>4, <2>2, <2>3, SubscribeStep
  <1>5. ASSUME NEW i \in Id, SendTime(a, i) PROVE TInv'
    <2> DEFINE T == timers[a]
               K == tasks[a]
               R == requests[a]
               q == times[a]
               K2 == [k \in DOMAIN K \ {i} |-> K[k]]
               Q == IF a \in running THEN Append(q, -1) ELSE q
    <2>1. /\ i \in DOMAIN K /\ K[i].left = 0 /\ Pass(a, T, K2, R, Q)
          /\ UNCHANGED <<running, known, used>>
      BY <1>5 DEF SendTime
    <2>2. /\ Shape(used[a], T, R, K, q) /\ Settled(T, q) /\ used[a] \in Nat
          /\ a \in running => Served(used[a], T, R, K, q)
          /\ a \notin running => used[a] = 0
          /\ used' = [used EXCEPT ![a] = used[a]]
      BY <2>1 DEF TInv
    <2>3. a \in known /\ (a \notin known => K2 = <<>> /\ R = <<>>)
      <3>1. a \notin known => K = <<>> BY DEF TInv
      <3>2. a \in known BY <2>1, <3>1, Nothing
      <3> QED BY <3>2
    <2>4. /\ K \in [DOMAIN K -> TaskRecord] /\ DOMAIN K \subseteq Id /\ q \in Seq(Int)
          /\ \A k \in DOMAIN q : q[k] \in -1 .. MaxLag
      BY <2>2 DEF Shape
    <2>5. /\ DOMAIN K2 = DOMAIN K \ {i} /\ \A k \in DOMAIN K \ {i} : K2[k] = K[k]
          /\ K2 \in [DOMAIN K2 -> TaskRecord]
      BY <2>4
    <2> HIDE DEF q
    <2>6. /\ Q \in Seq(Int) /\ \A k \in DOMAIN Q : Q[k] \in -1 .. MaxLag
          /\ \A k \in DOMAIN q : k \in DOMAIN Q /\ Q[k] = q[k]
          /\ a \in running => \E k \in DOMAIN Q : Q[k] = -1
      <3>1. CASE a \in running
        <4>1. Q = Append(q, -1) /\ Len(q) \in Nat /\ DOMAIN q = 1 .. Len(q) BY <2>4, <3>1
        <4> HIDE DEF Q
        <4>2. /\ Q \in Seq(Int) /\ DOMAIN Q = 1 .. Len(q) + 1 /\ Q[Len(q) + 1] = -1
              /\ \A k \in 1 .. Len(q) : Q[k] = q[k]
          BY <2>4, <4>1
        <4>3. \A k \in DOMAIN Q : Q[k] \in -1 .. MaxLag
          <5> TAKE k \in DOMAIN Q
          <5>1. k = Len(q) + 1 \/ k \in DOMAIN q BY <4>1, <4>2
          <5> QED BY <1>0, <2>4, <4>1, <4>2, <5>1
        <4>4. Len(q) + 1 \in DOMAIN Q /\ \A k \in DOMAIN q : k \in DOMAIN Q /\ Q[k] = q[k]
          BY <4>1, <4>2
        <4> QED BY <4>2, <4>3, <4>4
      <3>2. CASE a \notin running BY <2>4, <3>2
      <3> QED BY <3>1, <3>2
    <2> HIDE DEF K2, Q
    <2>7. Shape(used[a], T, R, K2, Q) BY <2>2, <2>5, <2>6 DEF Shape
    <2>8. ASSUME a \in running PROVE Served(used[a], T, R, K2, Q)
      <3>1. /\ Asked(used[a], T, R) /\ \A k \in DOMAIN K : K[k].own
            /\ \A k \in DOMAIN T : Awaits(k, T, R, K, q)
        BY <2>2, <2>8 DEF Served
      <3>2. ASSUME NEW j \in DOMAIN T PROVE Awaits(j, T, R, K2, Q)
        <4>1. T[j].due \in Int BY <2>2, <3>2 DEF Shape, TimerRecord
        <4>2. Awaits(j, T, R, K, q) BY <3>1
        <4>3. CASE j = i /\ K[i].left > T[j].due
          <5>1. PICK k \in DOMAIN Q : Q[k] = -1 BY <2>6, <2>8
          <5>2. -Q[k] > T[j].due BY <2>1, <4>1, <4>3, <5>1
          <5> QED BY <5>2 DEF Awaits
        <4>4. CASE ~(j = i /\ K[i].left > T[j].due)
          <5>1. j \in DOMAIN K /\ K[j].left > T[j].due =>
                  j \in DOMAIN K2 /\ K2[j].left > T[j].due
            BY <2>5, <4>4
          <5>2. (\E k \in DOMAIN q : -q[k] > T[j].due) => \E k \in DOMAIN Q : -Q[k] > T[j].due
            BY <2>6
          <5> QED BY <4>2, <5>1, <5>2 DEF Awaits
        <4> QED BY <4>3, <4>4
      <3>3. \A k \in DOMAIN K2 : K2[k].own BY <2>5, <3>1
      <3> QED BY <3>1, <3>2, <3>3 DEF Served
    <2> QED BY <2>1, <2>2, <2>3, <2>7, <2>8, PassStep
  <1>6. CASE Start(a)
    <2>1. \A b \in App : b \notin running => used[b] = 0 BY DEF TInv
    <2>2. ASSUME NEW b \in App
          PROVE  /\ Shape(used[b], timers[b], requests[b], tasks[b], times'[b])
                 /\ Settled(timers[b], times'[b])
                 /\ b \in running' => Served(used[b], timers[b], requests[b], tasks[b], times'[b])
      <3>1. CASE b = a
        <4>1. /\ times'[a] = <<>> /\ tasks[a] = <<>> /\ requests[a] = <<>> /\ used[a] = 0
          BY <1>6, <2>1 DEF Start, TInv
        <4>2. Shape(used[a], timers[a], requests[a], tasks[a], times[a]) /\ Settled(timers[a], times[a])
          BY DEF TInv
        <4>3. DOMAIN timers[a] = {} BY <4>1, <4>2 DEF Shape
        <4>4. Shape(used[a], timers[a], requests[a], tasks[a], times'[a]) /\ Settled(timers[a], times'[a])
          BY <4>1, <4>2 DEF Shape, Settled
        <4>5. Served(used[a], timers[a], requests[a], tasks[a], times'[a])
          BY <4>1, <4>3 DEF Served, Asked
        <4> QED BY <3>1, <4>4, <4>5
      <3>2. CASE b # a BY <1>6, <3>2 DEF Start, TInv
      <3> QED BY <3>1, <3>2
    <2> QED BY <1>6, <2>1, <2>2 DEF Start, TInv
  <1>7. CASE Die(a)
    <2>1. \A b \in App \ {a} : /\ used'[b] = used[b] /\ timers'[b] = timers[b]
                               /\ requests'[b] = requests[b] /\ tasks'[b] = tasks[b]
                               /\ times'[b] = times[b] /\ (b \in running' <=> b \in running)
      BY <1>7 DEF Die, TInv
    <2>2. /\ used'[a] = 0 /\ timers'[a] = <<>> /\ requests'[a] = Disown(requests[a])
          /\ tasks'[a] = Disown(tasks[a]) /\ times'[a] = <<>> /\ a \notin running'
          /\ used' \in [App -> Nat] /\ DOMAIN timers' = App /\ DOMAIN requests' = App
          /\ DOMAIN tasks' = App /\ DOMAIN times' = App /\ known' = known /\ a \in known
          /\ running' \subseteq known
      BY <1>7 DEF Die, TInv
    <2>3. Shape(0, <<>>, Disown(requests[a]), Disown(tasks[a]), <<>>)
      <3>1. /\ requests[a] \in Seq(RequestRecord) /\ tasks[a] \in [DOMAIN tasks[a] -> TaskRecord]
            /\ DOMAIN tasks[a] \subseteq Id /\ MaxTimer \in Nat
        BY TimersAssumption DEF TInv, Shape
      <3>2. Disown(requests[a]) \in Seq(RequestRecord)
        <4>1. DOMAIN requests[a] = 1 .. Len(requests[a]) /\ Len(requests[a]) \in Nat BY <3>1
        <4>2. \A k \in 1 .. Len(requests[a]) :
                [requests[a][k] EXCEPT !.own = FALSE] \in RequestRecord
          <5> TAKE k \in 1 .. Len(requests[a])
          <5>1. requests[a][k] \in RequestRecord BY <3>1, <4>1
          <5> QED BY <5>1 DEF RequestRecord
        <4>3. Disown(requests[a]) =
                [k \in 1 .. Len(requests[a]) |-> [requests[a][k] EXCEPT !.own = FALSE]]
          BY <4>1 DEF Disown
        <4> QED BY <4>1, <4>2, <4>3
      <3>3. /\ Disown(tasks[a]) \in [DOMAIN Disown(tasks[a]) -> TaskRecord]
            /\ DOMAIN Disown(tasks[a]) \subseteq Id
        <4>1. \A k \in DOMAIN tasks[a] : [tasks[a][k] EXCEPT !.own = FALSE] \in TaskRecord
          BY <3>1 DEF TaskRecord
        <4> QED BY <3>1, <4>1 DEF Disown
      <3> QED BY <3>1, <3>2, <3>3, Nothing DEF Shape
    <2>4. Settled(<<>>, <<>>) BY DEF Settled
    <2>5. ASSUME NEW b \in App
          PROVE  /\ Shape(used'[b], timers'[b], requests'[b], tasks'[b], times'[b])
                 /\ Settled(timers'[b], times'[b])
                 /\ b \in running' =>
                      Served(used'[b], timers'[b], requests'[b], tasks'[b], times'[b])
                 /\ b \notin running' => used'[b] = 0
                 /\ b \notin known' => tasks'[b] = <<>> /\ requests'[b] = <<>>
      <3>1. CASE b = a BY <2>2, <2>3, <2>4, <3>1
      <3>2. CASE b # a BY <2>1, <2>2, <3>2 DEF TInv
      <3> QED BY <3>1, <3>2
    <2> QED BY <2>2, <2>5 DEF TInv
  <1>8. CASE Deregister(a)
    <2>1. \A b \in App \ {a} : /\ requests'[b] = requests[b] /\ tasks'[b] = tasks[b]
                               /\ times'[b] = times[b] /\ (b \in known' <=> b \in known)
      BY <1>8 DEF Deregister, TInv
    <2>2. /\ requests'[a] = <<>> /\ tasks'[a] = <<>> /\ times'[a] = <<>> /\ a \notin running
          /\ DOMAIN requests' = App /\ DOMAIN tasks' = App /\ DOMAIN times' = App
          /\ UNCHANGED <<running, used, timers>> /\ running \subseteq known'
          /\ known' \subseteq App
      BY <1>8 DEF Deregister, TInv
    <2>3. /\ Shape(used[a], timers[a], <<>>, <<>>, <<>>) /\ Settled(timers[a], <<>>)
      BY DEF TInv, Shape, Settled
    <2>5. ASSUME NEW b \in App
          PROVE  /\ Shape(used'[b], timers'[b], requests'[b], tasks'[b], times'[b])
                 /\ Settled(timers'[b], times'[b])
                 /\ b \in running' =>
                      Served(used'[b], timers'[b], requests'[b], tasks'[b], times'[b])
                 /\ b \notin running' => used'[b] = 0
                 /\ b \notin known' => tasks'[b] = <<>> /\ requests'[b] = <<>>
      <3>1. CASE b = a BY <2>2, <2>3, <3>1 DEF TInv
      <3>2. CASE b # a BY <2>1, <2>2, <3>2 DEF TInv
      <3> QED BY <3>1, <3>2
    <2> QED BY <2>2, <2>5 DEF TInv
  <1>9. CASE OnTime(a) BY <1>9, OnTimeStep
  <1>10. CASE OnTimeRequest(a) BY <1>10, OnTimeRequestStep
  <1>11. ASSUME NEW age \in 0 .. MaxLag,
                NEW W \in SUBSET {i \in DOMAIN timers[a] : timers[a][i].kind = "timeout"},
                OnEvent(a, age, W)
         PROVE  TInv'
    BY <1>11, OnEventStep
  <1>12. ASSUME NEW age \in 0 .. MaxLag, NEW d \in Duration,
                AddTimeInterval(a, age, d) \/ AddTimeout(a, age, d)
         PROVE  TInv'
    BY <1>4, <1>12 DEF AddTimeInterval, AddTimeout
  <1> QED BY <1>3, <1>5, <1>6, <1>7, <1>8, <1>9, <1>10, <1>11, <1>12

(* What the invariant says of a state. *)
LEMMA TServed == TInv => TimersServed
  <1> SUFFICES ASSUME TInv PROVE TimersServed OBVIOUS
  <1>0. MaxTimer \in Nat BY TimersAssumption
  <1>1. ASSUME NEW a \in App
        PROVE  /\ used[a] \in 0 .. MaxTimer /\ DOMAIN timers[a] \subseteq 0 .. used[a] - 1
               /\ \A i \in DOMAIN timers[a] :
                    timers[a][i].kind \in Kind /\ timers[a][i].due >= Overdue
               /\ \A k \in DOMAIN requests[a] : requests[a][k].id \in Id
               /\ DOMAIN tasks[a] \subseteq Id
               /\ \A i \in DOMAIN tasks[a] : tasks[a][i].left >= 0
               /\ \A k \in DOMAIN times[a] : times[a][k] \in 0 .. MaxLag
    <2>1. /\ Shape(used[a], timers[a], requests[a], tasks[a], times[a])
          /\ Settled(timers[a], times[a])
      BY DEF TInv
    <2>2. \A i \in DOMAIN timers[a] : timers[a][i] \in TimerRecord BY <2>1 DEF Shape
    <2>3. \A k \in DOMAIN requests[a] : requests[a][k] \in RequestRecord BY <2>1 DEF Shape
    <2>4. \A i \in DOMAIN tasks[a] : tasks[a][i] \in TaskRecord BY <2>1 DEF Shape
    <2>5. \A i \in DOMAIN timers[a] : timers[a][i].kind \in Kind BY <2>2 DEF TimerRecord
    <2>6. \A k \in DOMAIN requests[a] : requests[a][k].id \in Id BY <2>3 DEF RequestRecord
    <2>7. \A i \in DOMAIN tasks[a] : tasks[a][i].left >= 0 BY <2>4 DEF TaskRecord
    <2> QED BY <2>1, <2>5, <2>6, <2>7 DEF Shape, Settled
  <1>2. TypeOK BY <1>1 DEF TInv, TypeOK
  <1>3. OwnSession BY DEF TInv, Served, Asked, OwnSession
  <1>4. Awaited BY DEF TInv, Served, Awaits, Awaited
  <1> QED BY <1>2, <1>3, <1>4 DEF TimersServed

-----------------------------------------------------------------------------
(* The inductive invariant holds whatever timers are set, however late     *)
(* their events are read and whenever processes end and come back (the     *)
(* subscriptions of apprentice.h, the tasks of master.cpp).                *)
THEOREM TimersInvariance == Spec => []TInv
  <1> QED BY TInit, TNext, PTL DEF Spec

(* Every timer of a process that runs has an event under way that is late  *)
(* enough to fire it, asked for by this process and not by an earlier one  *)
(* (timer, time_interval and timeout of apprentice.h, master::react).      *)
THEOREM NoTimerForgotten == Spec => []TimersServed
  <1> QED BY TimersInvariance, TServed, PTL

-----------------------------------------------------------------------------
(* Bars: the bars of the trades of an instrument.                          *)

(* A bar, a trade that was read, and a whole number of intervals. *)
BarRecord ==
    [start : Nat, end : Nat, count : Nat, open : Int, close : Int, low : Int, high : Int]
TradeRead == [time : Nat, price : Int, late : BOOLEAN]
Whole(x) == \E m \in Nat : x = m * TimeInterval

(* The trades of a sequence at some times that were not late. *)
TradesDuring(s, T) == {i \in DOMAIN s : s[i].time \in T /\ ~s[i].late}

(* The bar is of the trades C: all that are in its time and not at its     *)
(* ends, and some at its ends.                                             *)
BarIsOf(s, b, C) ==
    /\ TradesDuring(s, b.start + 1 .. b.end - 1) \subseteq C
    /\ C \subseteq TradesDuring(s, b.start .. b.end)
    /\ b.count = Cardinality(C)
    /\ C # {} =>
         /\ \E i \in C : b.open = s[i].price /\ \A j \in C : i <= j
         /\ \E i \in C : b.close = s[i].price /\ \A j \in C : j <= i
         /\ \E i \in C : b.low = s[i].price
         /\ \E i \in C : b.high = s[i].price
         /\ \A i \in C : b.low <= s[i].price /\ s[i].price <= b.high

InPlace(b) == b.end = b.start + TimeInterval /\ Whole(b.start)

GoodBar(s, b) ==
    /\ b \in BarRecord /\ InPlace(b)
    /\ \E C \in SUBSET (DOMAIN s) : BarIsOf(s, b, C)

BarIInv ==
    /\ written \in Seq(BarRecord) /\ traded \in Seq(TradeRead)
    /\ bar = NoBar => written = <<>> /\ traded = <<>>
    /\ bar # NoBar =>
         /\ GoodBar(traded, bar)
         /\ \A i \in DOMAIN traded : traded[i].time <= bar.end
    /\ \A k \in DOMAIN written :
         /\ GoodBar(traded, written[k]) /\ written[k].end <= bar.start
         /\ k > 1 => written[k].start >= written[k - 1].end
    /\ \A i \in DOMAIN traded :
         ~traded[i].late =>
            \/ traded[i].time \in bar.start .. bar.end
            \/ \E k \in DOMAIN written :
                 traded[i].time \in written[k].start .. written[k].end

-----------------------------------------------------------------------------
(* The least and the greatest of a set that has one. *)
LEMMA MinIs ==
    ASSUME NEW S \in SUBSET Int, NEW x \in S, \A y \in S : x <= y
    PROVE  Min(S) = x
<1>1. \A z \in S : (\A y \in S : z <= y) => z = x
  OBVIOUS
<1> QED BY <1>1 DEF Min

LEMMA MaxIs ==
    ASSUME NEW S \in SUBSET Int, NEW x \in S, \A y \in S : x >= y
    PROVE  Max(S) = x
<1>1. \A z \in S : (\A y \in S : z >= y) => z = x
  OBVIOUS
<1> QED BY <1>1 DEF Max

LEMMA MinOfTwo ==
    ASSUME NEW x \in Int, NEW y \in Int
    PROVE  Min({x, y}) = IF x <= y THEN x ELSE y
<1>1. CASE x <= y
  BY <1>1, MinIs
<1>2. CASE ~(x <= y)
  BY <1>2, MinIs
<1> QED BY <1>1, <1>2

LEMMA MaxOfTwo ==
    ASSUME NEW x \in Int, NEW y \in Int
    PROVE  Max({x, y}) = IF x <= y THEN y ELSE x
<1>1. CASE x <= y
  BY <1>1, MaxIs
<1>2. CASE ~(x <= y)
  BY <1>2, MaxIs
<1> QED BY <1>1, <1>2

-----------------------------------------------------------------------------
(* The arithmetic of intervals. *)
LEMMA WholeDivides ==
    ASSUME NEW x \in Nat, Whole(x)
    PROVE  x % TimeInterval = 0
<1>1. TimeInterval \in Nat /\ TimeInterval > 0
  BY BarsAssumption
<1>2. PICK m \in Nat : x = m * TimeInterval
  BY DEF Whole
<1>3. (m * TimeInterval) % TimeInterval = 0
  BY <1>1, Z3
<1> QED BY <1>2, <1>3

LEMMA WholeNext ==
    ASSUME NEW now \in Nat
    PROVE  /\ now - (now % TimeInterval) + TimeInterval \in Nat
           /\ Whole(now - (now % TimeInterval) + TimeInterval)
<1>1. TimeInterval \in Nat /\ TimeInterval > 0
  BY BarsAssumption
<1>2. now \div TimeInterval \in Nat /\ now % TimeInterval \in Nat
  BY <1>1
<1>3. now = TimeInterval * (now \div TimeInterval) + (now % TimeInterval)
  BY <1>1
<1>4. now - (now % TimeInterval) + TimeInterval = (now \div TimeInterval + 1) * TimeInterval
  BY <1>1, <1>2, <1>3
<1>5. now \div TimeInterval + 1 \in Nat
  BY <1>2
<1>6. Whole(now - (now % TimeInterval) + TimeInterval)
  BY <1>4, <1>5 DEF Whole
<1>7. now - (now % TimeInterval) + TimeInterval \in Nat
  BY <1>1, <1>2, <1>3
<1> QED BY <1>6, <1>7

LEMMA WholeSkipped ==
    ASSUME NEW e \in Nat, Whole(e), NEW n \in Nat
    PROVE  e + n * TimeInterval \in Nat /\ Whole(e + n * TimeInterval)
<1>1. TimeInterval \in Nat
  BY BarsAssumption
<1>2. PICK m \in Nat : e = m * TimeInterval
  BY DEF Whole
<1>3. e + n * TimeInterval = (m + n) * TimeInterval
  BY <1>1, <1>2
<1> QED BY <1>1, <1>3 DEF Whole

(* Whole intervals are skipped while they end before the trade. *)
LEMMA SkippedEndBefore ==
    ASSUME NEW e \in Nat, NEW t \in Nat, t > e
    PROVE  LET n == (t - e - 1) \div TimeInterval
           IN  n \in Nat /\ e + n * TimeInterval < t /\ t <= e + n * TimeInterval + TimeInterval
<1> DEFINE n == (t - e - 1) \div TimeInterval
           r == (t - e - 1) % TimeInterval
<1>1. TimeInterval \in Nat /\ TimeInterval > 0
  BY BarsAssumption
<1>2. t - e - 1 \in Nat
  OBVIOUS
<1>3. n \in Nat /\ r \in 0 .. TimeInterval - 1
  BY <1>1, <1>2
<1>4. t - e - 1 = TimeInterval * n + r
  BY <1>1, <1>2
<1>5. n * TimeInterval = TimeInterval * n /\ n * TimeInterval \in Nat
  BY <1>1, <1>3
<1> HIDE DEF n, r
<1>6. e + n * TimeInterval < t /\ t <= e + n * TimeInterval + TimeInterval
  BY <1>1, <1>3, <1>4, <1>5
<1> QED BY <1>3, <1>6 DEF n

-----------------------------------------------------------------------------
(* What the next trade does to the trades of a bar. *)

(* The trades before are where they were. *)
LEMMA AppendedTrade ==
    ASSUME NEW s \in Seq(TradeRead), NEW x \in TradeRead
    PROVE  /\ Append(s, x) \in Seq(TradeRead)
           /\ DOMAIN Append(s, x) = DOMAIN s \cup {Len(s) + 1}
           /\ DOMAIN s = 1 .. Len(s) /\ Len(s) \in Nat
           /\ \A i \in DOMAIN s : Append(s, x)[i] = s[i]
           /\ Append(s, x)[Len(s) + 1] = x
           /\ Len(s) + 1 \notin DOMAIN s
OBVIOUS

LEMMA PricesAndTimes ==
    ASSUME NEW s \in Seq(TradeRead)
    PROVE  \A i \in DOMAIN s : s[i].time \in Nat /\ s[i].price \in Int /\ s[i].late \in BOOLEAN
<1>1. \A i \in DOMAIN s : s[i] \in TradeRead
  OBVIOUS
<1> QED BY <1>1 DEF TradeRead

(* The trades at some times are as before, and perhaps the new one. *)
LEMMA DuringAppended ==
    ASSUME NEW s \in Seq(TradeRead), NEW x \in TradeRead, NEW T
    PROVE  TradesDuring(Append(s, x), T) =
             TradesDuring(s, T) \cup (IF x.time \in T /\ ~x.late THEN {Len(s) + 1} ELSE {})
BY AppendedTrade DEF TradesDuring

(* A trade that is not inside a bar changes nothing for it. *)
LEMMA BarLeftAlone ==
    ASSUME NEW s \in Seq(TradeRead), NEW x \in TradeRead, NEW b, NEW C,
           C \subseteq DOMAIN s, BarIsOf(s, b, C),
           x.late \/ x.time \notin b.start + 1 .. b.end - 1
    PROVE  BarIsOf(Append(s, x), b, C)
<1> DEFINE s2 == Append(s, x)
<1>1. \A i \in C : s2[i] = s[i]
  BY AppendedTrade
<1>2. TradesDuring(s2, b.start + 1 .. b.end - 1) \subseteq C
  <2>1. TradesDuring(s2, b.start + 1 .. b.end - 1) = TradesDuring(s, b.start + 1 .. b.end - 1)
    <3> DEFINE T == b.start + 1 .. b.end - 1
    <3>1. ~(x.time \in T /\ ~x.late)
      OBVIOUS
    <3> HIDE DEF T
    <3>2. TradesDuring(s2, T) = TradesDuring(s, T)
      BY <3>1, DuringAppended
    <3> QED BY <3>2 DEF T
  <2> QED BY <2>1 DEF BarIsOf
<1>3. C \subseteq TradesDuring(s2, b.start .. b.end)
  <2>1. TradesDuring(s, b.start .. b.end) \subseteq TradesDuring(s2, b.start .. b.end)
    BY DuringAppended
  <2> QED BY <2>1 DEF BarIsOf
<1> HIDE DEF s2
<1>4. b.count = Cardinality(C)
  BY DEF BarIsOf
<1>5. C # {} =>
         /\ \E i \in C : b.open = s2[i].price /\ \A j \in C : i <= j
         /\ \E i \in C : b.close = s2[i].price /\ \A j \in C : j <= i
         /\ \E i \in C : b.low = s2[i].price
         /\ \E i \in C : b.high = s2[i].price
         /\ \A i \in C : b.low <= s2[i].price /\ s2[i].price <= b.high
  BY <1>1 DEF BarIsOf
<1> QED BY <1>2, <1>3, <1>4, <1>5 DEF BarIsOf, s2

LEMMA GoodBarLeftAlone ==
    ASSUME NEW s \in Seq(TradeRead), NEW x \in TradeRead, NEW b, GoodBar(s, b),
           x.late \/ x.time \notin b.start + 1 .. b.end - 1
    PROVE  GoodBar(Append(s, x), b)
<1>1. PICK C \in SUBSET (DOMAIN s) : BarIsOf(s, b, C)
  BY DEF GoodBar
<1>2. BarIsOf(Append(s, x), b, C)
  BY <1>1, BarLeftAlone
<1>3. C \in SUBSET (DOMAIN Append(s, x))
  BY AppendedTrade
<1> QED BY <1>2, <1>3 DEF GoodBar

(* A trade: what the exchange says of it, and what is remembered. *)
Is(t, x) == t.time = x.time /\ t.price = x.price

(* A bar counts a trade in its time. *)
LEMMA BarCounts ==
    ASSUME NEW s \in Seq(TradeRead), NEW x \in TradeRead, NEW t, Is(t, x),
           NEW b, GoodBar(s, b), x.time \in b.start .. b.end, ~x.late
    PROVE  /\ GoodBar(Append(s, x), Counted(b, t))
           /\ Counted(b, t).start = b.start /\ Counted(b, t).end = b.end
<1>1. PICK C \in SUBSET (DOMAIN s) : BarIsOf(s, b, C)
  BY DEF GoodBar
<1> DEFINE n  == Len(s) + 1
           s2 == Append(s, x)
           C2 == C \cup {n}
           p  == x.price
           b2 == [start |-> b.start, end |-> b.end, count |-> b.count + 1,
                  open |-> IF b.count = 0 THEN p ELSE b.open, close |-> p,
                  low |-> IF b.count = 0 \/ p <= b.low THEN p ELSE b.low,
                  high |-> IF b.count = 0 \/ b.high <= p THEN p ELSE b.high]
<1>2. b \in BarRecord /\ InPlace(b) /\ p \in Int
  BY DEF GoodBar, TradeRead
<1>3. Counted(b, t) = b2
  <2>1. t.price = p /\ t.time = x.time
    BY DEF Is
  <2>2. CASE b.count = 0
    <3>1. Min({p, p}) = p /\ Max({p, p}) = p
      BY <1>2, MinOfTwo, MaxOfTwo
    <3> QED BY <1>2, <2>1, <2>2, <3>1 DEF Counted, Opened, BarRecord
  <2>3. CASE b.count # 0
    <3>1. b.low \in Int /\ b.high \in Int
      BY <1>2 DEF BarRecord
    <3>2. Min({b.low, p}) = (IF p <= b.low THEN p ELSE b.low)
      BY <1>2, <3>1, MinOfTwo
    <3>3. Max({b.high, p}) = (IF b.high <= p THEN p ELSE b.high)
      BY <1>2, <3>1, MaxOfTwo
    <3> QED BY <1>2, <2>1, <2>3, <3>2, <3>3 DEF Counted, BarRecord
  <2> QED BY <2>2, <2>3
<1>4. b2 \in BarRecord /\ InPlace(b2)
  BY <1>2 DEF BarRecord, InPlace
<1>5. /\ DOMAIN s2 = DOMAIN s \cup {n} /\ DOMAIN s = 1 .. Len(s) /\ Len(s) \in Nat
      /\ \A i \in C : s2[i] = s[i] /\ i < n /\ i \in Nat
      /\ s2[n] = x /\ n \notin C /\ n \in Nat
  <2>1. /\ DOMAIN s2 = DOMAIN s \cup {n} /\ DOMAIN s = 1 .. Len(s) /\ Len(s) \in Nat
        /\ \A i \in DOMAIN s : s2[i] = s[i]
        /\ s2[n] = x
    BY AppendedTrade
  <2> HIDE DEF s2
  <2>2. \A i \in C : i < n /\ i \in Nat
    BY <2>1
  <2> QED BY <2>1, <2>2
<1>6. IsFiniteSet(C) /\ Cardinality(C2) = Cardinality(C) + 1
  <2>1. IsFiniteSet(C)
    <3>1. IsFiniteSet(1 .. Len(s)) /\ C \subseteq 1 .. Len(s)
      BY <1>1, <1>5, FS_Interval
    <3> QED BY <3>1, FS_Subset
  <2> QED BY <1>5, <2>1, FS_AddElement
<1>7. TradesDuring(s2, b.start + 1 .. b.end - 1) \subseteq C2
  BY <1>1, DuringAppended DEF BarIsOf
<1>8. C2 \subseteq TradesDuring(s2, b.start .. b.end)
  BY <1>1, DuringAppended DEF BarIsOf
<1>9. b.count = Cardinality(C) /\ (b.count = 0 <=> C = {})
  BY <1>1, <1>6, FS_EmptySet DEF BarIsOf
<1> HIDE DEF s2, n
<1>10. /\ \E i \in C2 : b2.open = s2[i].price /\ \A j \in C2 : i <= j
       /\ \E i \in C2 : b2.close = s2[i].price /\ \A j \in C2 : j <= i
       /\ \E i \in C2 : b2.low = s2[i].price
       /\ \E i \in C2 : b2.high = s2[i].price
       /\ \A i \in C2 : b2.low <= s2[i].price /\ s2[i].price <= b2.high
  <2>1. s2[n].price = p
    BY <1>5
  <2>2. CASE C = {}
    <3>1. C2 = {n} /\ b2.open = p /\ b2.close = p /\ b2.low = p /\ b2.high = p
      BY <1>9, <2>2
    <3> HIDE DEF C2, b2, p
    <3> QED BY <1>2, <1>5, <2>1, <3>1
  <2>3. CASE C # {}
    <3>1. b2.open = b.open /\ b2.close = p
      BY <1>9, <2>3
    <3>2. /\ b2.low = IF p <= b.low THEN p ELSE b.low
          /\ b2.high = IF b.high <= p THEN p ELSE b.high
      BY <1>9, <2>3
    <3>3. b.low \in Int /\ b.high \in Int
      BY <1>2 DEF BarRecord
    <3>4. /\ \E i \in C : b.open = s2[i].price /\ \A j \in C : i <= j
          /\ \E i \in C : b.low = s2[i].price
          /\ \E i \in C : b.high = s2[i].price
          /\ \A i \in C : b.low <= s2[i].price /\ s2[i].price <= b.high /\ s2[i].price \in Int
      <4>1. \A i \in C : s[i].price \in Int
        BY <1>1, PricesAndTimes
      <4> QED BY <1>1, <1>5, <2>3, <4>1 DEF BarIsOf
    <3> HIDE DEF b2, p
    <3>5. \E i \in C2 : b2.open = s2[i].price /\ \A j \in C2 : i <= j
      BY <1>5, <3>1, <3>4
    <3>6. \E i \in C2 : b2.close = s2[i].price /\ \A j \in C2 : j <= i
      <4>1. \A j \in C2 : j <= n
        BY <1>5
      <4> QED BY <2>1, <3>1, <4>1
    <3>7. (\E i \in C2 : b2.low = s2[i].price) /\ (\E i \in C2 : b2.high = s2[i].price)
      BY <2>1, <3>2, <3>4
    <3>8. \A i \in C2 : b2.low <= s2[i].price /\ s2[i].price <= b2.high
      BY <1>2, <2>1, <3>2, <3>3, <3>4
    <3> QED BY <3>5, <3>6, <3>7, <3>8
  <2> QED BY <2>2, <2>3
<1>11. BarIsOf(s2, b2, C2)
  <2>1. b2.start = b.start /\ b2.end = b.end /\ b2.count = Cardinality(C2)
    BY <1>6, <1>9
  <2> HIDE DEF b2, C2
  <2> QED BY <1>7, <1>8, <1>10, <2>1 DEF BarIsOf
<1>12. C2 \in SUBSET (DOMAIN s2)
  BY <1>5
<1> QED BY <1>3, <1>4, <1>11, <1>12 DEF GoodBar, s2

(* A bar without trades, when none is in its time. *)
LEMMA GoodNewBar ==
    ASSUME NEW start \in Nat, Whole(start)
    PROVE  GoodBar(<<>>, NewBar(start))
<1> DEFINE b == NewBar(start)
<1>1. TimeInterval \in Nat
  BY BarsAssumption
<1>2. b \in BarRecord /\ InPlace(b)
  BY <1>1 DEF NewBar, BarRecord, InPlace
<1>3. b.count = Cardinality({})
  BY FS_EmptySet DEF NewBar
<1>4. BarIsOf(<<>>, b, {})
  <2>1. \A T : TradesDuring(<<>>, T) = {}
    BY DEF TradesDuring
  <2> HIDE DEF b
  <2> QED BY <1>3, <2>1 DEF BarIsOf
<1> QED BY <1>2, <1>4 DEF GoodBar

(* A trade past a bar is the first of the next that it reaches. *)
LEMMA BarReopens ==
    ASSUME NEW s \in Seq(TradeRead), NEW x \in TradeRead, NEW t, Is(t, x),
           NEW b \in BarRecord, InPlace(b), x.time >= b.end, ~x.late,
           \A i \in DOMAIN s : s[i].time <= b.end
    PROVE  /\ GoodBar(Append(s, x), Reopened(b, t))
           /\ Reopened(b, t).start >= b.end
           /\ x.time \in Reopened(b, t).start .. Reopened(b, t).end
<1> DEFINE n  == Len(s) + 1
           s2 == Append(s, x)
           p  == x.price
           k  == IF t.time = b.end THEN 0 ELSE (t.time - b.end - 1) \div TimeInterval
           st == b.end + k * TimeInterval
           b2 == [start |-> st, end |-> st + TimeInterval, count |-> 1,
                  open |-> p, close |-> p, low |-> p, high |-> p]
<1>1. /\ TimeInterval \in Nat /\ TimeInterval > 0 /\ p \in Int /\ x.time \in Nat
      /\ b.start \in Nat /\ b.end \in Nat /\ t.time = x.time /\ t.price = p
  BY BarsAssumption DEF TradeRead, BarRecord, Is
<1>2. Whole(b.end)
  <2>1. b.end = b.start + 1 * TimeInterval /\ Whole(b.start)
    BY <1>1 DEF InPlace
  <2> QED BY <1>1, <2>1, WholeSkipped
<1>3. k \in Nat /\ st <= x.time /\ x.time <= st + TimeInterval
  <2>1. CASE t.time = b.end
    <3>1. k = 0 /\ k * TimeInterval = 0
      BY <1>1, <2>1
    <3> QED BY <1>1, <2>1, <3>1
  <2>2. CASE t.time # b.end
    <3>1. x.time > b.end
      BY <1>1, <2>2
    <3>2. k = (x.time - b.end - 1) \div TimeInterval
      BY <1>1, <2>2
    <3>3. k \in Nat /\ b.end + k * TimeInterval < x.time
          /\ x.time <= b.end + k * TimeInterval + TimeInterval
      BY <1>1, <3>1, <3>2, SkippedEndBefore
    <3> HIDE DEF k
    <3>4. k * TimeInterval \in Nat
      BY <1>1, <3>3
    <3> QED BY <1>1, <3>3, <3>4
  <2> QED BY <2>1, <2>2
<1> HIDE DEF k
<1>4. st \in Nat /\ Whole(st) /\ st >= b.end
  <2>1. k * TimeInterval \in Nat
    BY <1>1, <1>3
  <2> QED BY <1>1, <1>2, <1>3, <2>1, WholeSkipped
<1>5. Reopened(b, t) = b2
  BY <1>1, <1>3 DEF Reopened, NewBar, Opened, k
<1> HIDE DEF st
<1>6. b2 \in BarRecord /\ InPlace(b2)
  BY <1>1, <1>4 DEF BarRecord, InPlace
<1>7. \A i \in DOMAIN s : s[i].time \in Nat /\ s[i].time <= st
  <2>1. \A i \in DOMAIN s : s[i].time \in Nat
    BY PricesAndTimes
  <2> QED BY <1>1, <1>4, <2>1
<1>8. TradesDuring(s, st + 1 .. st + TimeInterval - 1) = {}
  BY <1>1, <1>4, <1>7 DEF TradesDuring
<1>9. TradesDuring(s2, st + 1 .. st + TimeInterval - 1) \subseteq {n}
  BY <1>8, DuringAppended
<1>10. {n} \subseteq TradesDuring(s2, st .. st + TimeInterval)
  <2>1. x.time \in st .. st + TimeInterval
    BY <1>1, <1>3, <1>4
  <2>2. n \in TradesDuring(s2, st .. st + TimeInterval)
    BY <2>1, DuringAppended
  <2> QED BY <2>2
<1>11. s2[n] = x /\ n \in Nat /\ n \in DOMAIN s2
  BY AppendedTrade
<1>12. Cardinality({n}) = 1
  BY FS_Singleton
<1> HIDE DEF s2, n
<1>13. BarIsOf(s2, b2, {n})
  <2>1. /\ b2.start = st /\ b2.end = st + TimeInterval /\ b2.count = 1
        /\ b2.open = p /\ b2.close = p /\ b2.low = p /\ b2.high = p
    OBVIOUS
  <2>2. s2[n].price = p
    BY <1>11
  <2> HIDE DEF b2, p
  <2>3. /\ TradesDuring(s2, b2.start + 1 .. b2.end - 1) \subseteq {n}
        /\ {n} \subseteq TradesDuring(s2, b2.start .. b2.end)
        /\ b2.count = Cardinality({n})
    <3>1. b2.start + 1 .. b2.end - 1 = st + 1 .. st + TimeInterval - 1
      BY <1>1, <1>4, <2>1
    <3>2. b2.start .. b2.end = st .. st + TimeInterval
      BY <2>1
    <3> QED BY <1>9, <1>10, <1>12, <2>1, <3>1, <3>2
  <2>4. /\ \E i \in {n} : b2.open = s2[i].price /\ \A j \in {n} : i <= j
        /\ \E i \in {n} : b2.close = s2[i].price /\ \A j \in {n} : j <= i
        /\ \E i \in {n} : b2.low = s2[i].price
        /\ \E i \in {n} : b2.high = s2[i].price
        /\ \A i \in {n} : b2.low <= s2[i].price /\ s2[i].price <= b2.high
    BY <1>1, <1>11, <2>1, <2>2
  <2> QED BY <2>3, <2>4 DEF BarIsOf
<1>14. GoodBar(s2, b2)
  BY <1>6, <1>11, <1>13 DEF GoodBar
<1>15. x.time \in st .. st + TimeInterval
  BY <1>1, <1>3, <1>4
<1> QED BY <1>4, <1>5, <1>14, <1>15 DEF s2

-----------------------------------------------------------------------------
(* The invariant of the bars. *)
LEMMA BarInitInv == BarInit => BarIInv
<1> SUFFICES ASSUME BarInit PROVE BarIInv
  OBVIOUS
<1>1. written = <<>> /\ traded = <<>> /\ bar = NoBar
  BY DEF BarInit
<1>2. <<>> \in Seq(BarRecord) /\ <<>> \in Seq(TradeRead) /\ DOMAIN <<>> = {}
  OBVIOUS
<1> QED BY <1>1, <1>2 DEF BarIInv

LEMMA BarIsNoRecord == ~(NoBar \in BarRecord)
BY DEF NoBar, BarRecord

(* A subscription starts the first bar, if there is none. *)
LEMMA FirstBarKeeps ==
    ASSUME BarIInv, NEW now \in Clock,
           bar' = FirstBar(now) \/ bar' = bar,
           UNCHANGED <<written, traded>>
    PROVE  BarIInv'
<1>1. CASE bar' = bar
  BY <1>1 DEF BarIInv
<1>2. CASE bar # NoBar
  <2>1. bar' = bar
    BY <1>2 DEF FirstBar
  <2> QED BY <1>1, <2>1
<1>3. CASE bar = NoBar /\ bar' = FirstBar(now)
  <2> DEFINE start == now - (now % TimeInterval) + TimeInterval
  <2>1. start \in Nat /\ Whole(start)
    BY BarsAssumption, WholeNext
  <2>2. bar' = NewBar(start)
    BY <1>3 DEF FirstBar
  <2> HIDE DEF start
  <2>3. GoodBar(<<>>, bar')
    BY <2>1, <2>2, GoodNewBar
  <2>4. bar' # NoBar
    BY <2>3, BarIsNoRecord DEF GoodBar
  <2>5. written' = <<>> /\ traded' = <<>>
    BY <1>3 DEF BarIInv
  <2>6. <<>> \in Seq(BarRecord) /\ <<>> \in Seq(TradeRead) /\ DOMAIN <<>> = {}
    OBVIOUS
  <2> QED BY <2>3, <2>4, <2>5, <2>6 DEF BarIInv
<1> QED BY <1>1, <1>2, <1>3

(* A trade that is read. *)
LEMMA TradeKeeps ==
    ASSUME BarIInv, NEW t \in [time : Clock, price : Price], OnTrade(t)
    PROVE  BarIInv'
<1> DEFINE x == [time |-> t.time, price |-> t.price, late |-> t.time < bar.start]
           b == Counted(bar, t)
<1>1. /\ bar # NoBar /\ traded' = Append(traded, x)
      /\ t.time >= b.end => written' = Append(written, b) /\ bar' = Reopened(b, t)
      /\ ~(t.time >= b.end) => written' = written /\ bar' = b
  BY DEF OnTrade
<1>2. /\ traded \in Seq(TradeRead) /\ written \in Seq(BarRecord)
      /\ GoodBar(traded, bar) /\ bar \in BarRecord /\ InPlace(bar)
      /\ \A i \in DOMAIN traded : traded[i].time <= bar.end
      /\ \A k \in DOMAIN written :
           /\ GoodBar(traded, written[k]) /\ written[k].end <= bar.start
           /\ k > 1 => written[k].start >= written[k - 1].end
      /\ \A i \in DOMAIN traded :
           ~traded[i].late =>
             \/ traded[i].time \in bar.start .. bar.end
             \/ \E k \in DOMAIN written :
                  traded[i].time \in written[k].start .. written[k].end
  BY <1>1 DEF BarIInv, GoodBar
<1>3. /\ t.time \in Nat /\ t.price \in Int
      /\ TimeInterval \in Nat /\ TimeInterval > 0
      /\ bar.start \in Nat /\ bar.end \in Nat /\ bar.end = bar.start + TimeInterval
  <2>1. t.time \in Clock /\ t.price \in Price
    OBVIOUS
  <2>2. t.time \in Nat /\ t.price \in Int
    <3>1. Clock \subseteq Nat /\ Price \subseteq Int
      BY BarsAssumption
    <3> QED BY <2>1, <3>1
  <2>4. TimeInterval \in Nat /\ TimeInterval > 0
    BY BarsAssumption
  <2>3. bar.start \in Nat /\ bar.end \in Nat
    BY <1>2 DEF BarRecord
  <2> QED BY <1>2, <2>2, <2>3, <2>4 DEF InPlace
<1>4. x \in TradeRead /\ Is(t, x) /\ x.time = t.time /\ (x.late <=> t.time < bar.start)
  <2>1. (t.time < bar.start) \in BOOLEAN
    BY <1>3
  <2>2. x \in TradeRead
    BY <1>3, <2>1 DEF TradeRead
  <2> QED BY <2>2 DEF Is
<1> HIDE DEF x
<1>5. /\ GoodBar(traded', b) /\ b.start = bar.start /\ b.end = bar.end
      /\ b \in BarRecord /\ InPlace(b)
  <2>1. CASE x.time \in bar.start .. bar.end
    <3>1. ~x.late
      BY <1>3, <1>4, <2>1
    <3>2. GoodBar(Append(traded, x), b) /\ b.start = bar.start /\ b.end = bar.end
      BY <1>2, <1>4, <2>1, <3>1, BarCounts
    <3> QED BY <1>1, <3>2 DEF GoodBar
  <2>2. CASE x.time \notin bar.start .. bar.end
    <3>1. b = bar
      BY <1>4, <2>2 DEF Counted
    <3>2. x.time \notin bar.start + 1 .. bar.end - 1
      BY <1>3, <1>4, <2>2
    <3>3. GoodBar(Append(traded, x), bar)
      BY <1>2, <1>4, <3>2, GoodBarLeftAlone
    <3> QED BY <1>1, <1>2, <3>1, <3>3
  <2> QED BY <2>1, <2>2
<1> HIDE DEF b
<1>6. /\ traded' \in Seq(TradeRead) /\ Len(traded) \in Nat
      /\ DOMAIN traded' = DOMAIN traded \cup {Len(traded) + 1}
      /\ \A i \in DOMAIN traded : traded'[i] = traded[i]
      /\ traded'[Len(traded) + 1] = x
  BY <1>1, <1>2, <1>4, AppendedTrade
<1>7. \A k \in DOMAIN written :
         /\ GoodBar(traded', written[k])
         /\ written[k].start \in Nat /\ written[k].end \in Nat
         /\ written[k].end <= bar.start
         /\ k > 1 => written[k].start >= written[k - 1].end
  <2> TAKE k \in DOMAIN written
  <2>1. GoodBar(traded, written[k]) /\ written[k].end <= bar.start
    BY <1>2
  <2>2. written[k].start \in Nat /\ written[k].end \in Nat
    BY <2>1 DEF GoodBar, BarRecord
  <2>3. x.late \/ x.time \notin written[k].start + 1 .. written[k].end - 1
    BY <1>3, <1>4, <2>1, <2>2
  <2>4. GoodBar(traded', written[k])
    BY <1>1, <1>2, <1>4, <2>1, <2>3, GoodBarLeftAlone
  <2> QED BY <1>2, <2>1, <2>2, <2>4
<1>8. CASE ~(t.time >= b.end)
  <2>1. written' = written /\ bar' = b /\ bar' # NoBar
    BY <1>1, <1>5, <1>8, BarIsNoRecord
  <2>2. \A i \in DOMAIN traded' : traded'[i].time <= b.end
    BY <1>2, <1>3, <1>4, <1>5, <1>6, <1>8
  <2>3. \A i \in DOMAIN traded' :
           ~traded'[i].late =>
             \/ traded'[i].time \in b.start .. b.end
             \/ \E k \in DOMAIN written :
                  traded'[i].time \in written[k].start .. written[k].end
    <3> SUFFICES ASSUME NEW i \in DOMAIN traded', ~traded'[i].late
                 PROVE  \/ traded'[i].time \in b.start .. b.end
                        \/ \E k \in DOMAIN written :
                             traded'[i].time \in written[k].start .. written[k].end
      OBVIOUS
    <3>1. CASE i \in DOMAIN traded
      BY <1>2, <1>5, <1>6, <3>1
    <3>2. CASE i = Len(traded) + 1
      <4>1. x.time \in b.start .. b.end
        BY <1>3, <1>4, <1>5, <1>6, <1>8, <3>2
      <4> QED BY <1>6, <3>2, <4>1
    <3> QED BY <1>6, <3>1, <3>2
  <2>4. \A k \in DOMAIN written : written[k].end <= b.start
    BY <1>5, <1>7
  <2> QED BY <1>2, <1>5, <1>6, <1>7, <2>1, <2>2, <2>3, <2>4 DEF BarIInv
<1>9. CASE t.time >= b.end
  <2> DEFINE r == Reopened(b, t)
  <2>1. written' = Append(written, b) /\ bar' = r
    BY <1>1, <1>9
  <2>2. x.time >= b.end /\ ~x.late
    BY <1>3, <1>4, <1>5, <1>9
  <2>3. \A i \in DOMAIN traded : traded[i].time <= b.end
    BY <1>2, <1>5
  <2>4. GoodBar(traded', r) /\ r.start >= b.end /\ x.time \in r.start .. r.end
    BY <1>1, <1>2, <1>4, <1>5, <2>2, <2>3, BarReopens
  <2> HIDE DEF r
  <2>5. r \in BarRecord /\ InPlace(r) /\ r.start \in Nat /\ r.end \in Nat /\ r # NoBar
    BY <2>4, BarIsNoRecord DEF GoodBar, BarRecord
  <2>6. r.end >= b.end
    BY <1>3, <1>5, <2>4, <2>5 DEF InPlace
  <2>7. \A i \in DOMAIN traded' : traded'[i].time <= r.end
    <3>1. \A i \in DOMAIN traded : traded[i].time \in Nat
      BY <1>2, PricesAndTimes
    <3> QED BY <1>3, <1>4, <1>5, <1>6, <2>3, <2>4, <2>5, <2>6, <3>1
  <2>8. /\ written' \in Seq(BarRecord) /\ Len(written) \in Nat
        /\ DOMAIN written = 1 .. Len(written)
        /\ DOMAIN written' = 1 .. Len(written) + 1
        /\ \A k \in DOMAIN written : written'[k] = written[k]
        /\ written'[Len(written) + 1] = b
    BY <1>2, <1>5, <2>1
  <2>9. \A k \in DOMAIN written' :
           /\ GoodBar(traded', written'[k]) /\ written'[k].end <= r.start
           /\ k > 1 => written'[k].start >= written'[k - 1].end
    <3> TAKE k \in DOMAIN written'
    <3>1. CASE k \in DOMAIN written
      <4>1. written'[k] = written[k] /\ (k > 1 => written'[k - 1] = written[k - 1])
        BY <2>8, <3>1
      <4> QED BY <1>3, <1>5, <1>7, <2>4, <2>5, <3>1, <4>1
    <3>2. CASE k = Len(written) + 1
      <4>1. written'[k] = b
        BY <2>8, <3>2
      <4>2. ASSUME k > 1
            PROVE  b.start >= written'[k - 1].end
        <5>1. k - 1 \in DOMAIN written /\ written'[k - 1] = written[k - 1]
          BY <2>8, <3>2, <4>2
        <5> QED BY <1>5, <1>7, <5>1
      <4> QED BY <1>5, <2>4, <4>1, <4>2
    <3> QED BY <2>8, <3>1, <3>2
  <2>10. \A i \in DOMAIN traded' :
           ~traded'[i].late =>
             \/ traded'[i].time \in r.start .. r.end
             \/ \E k \in DOMAIN written' :
                  traded'[i].time \in written'[k].start .. written'[k].end
    <3> SUFFICES ASSUME NEW i \in DOMAIN traded', ~traded'[i].late
                 PROVE  \/ traded'[i].time \in r.start .. r.end
                        \/ \E k \in DOMAIN written' :
                             traded'[i].time \in written'[k].start .. written'[k].end
      OBVIOUS
    <3>1. CASE i \in DOMAIN traded
      <4>1. traded'[i] = traded[i]
        BY <1>6, <3>1
      <4>2. CASE traded[i].time \in bar.start .. bar.end
        <5>1. Len(written) + 1 \in DOMAIN written'
          BY <2>8
        <5> QED BY <1>5, <2>8, <4>1, <4>2, <5>1
      <4>3. CASE \E k \in DOMAIN written : traded[i].time \in written[k].start .. written[k].end
        <5>1. PICK k \in DOMAIN written : traded[i].time \in written[k].start .. written[k].end
          BY <4>3
        <5>2. k \in DOMAIN written' /\ written'[k] = written[k]
          BY <2>8
        <5> QED BY <4>1, <5>1, <5>2
      <4> QED BY <1>2, <3>1, <4>1, <4>2, <4>3
    <3>2. CASE i = Len(traded) + 1
      BY <1>6, <2>4, <3>2
    <3> QED BY <1>6, <3>1, <3>2
  <2> QED BY <1>6, <2>1, <2>4, <2>5, <2>7, <2>8, <2>9, <2>10 DEF BarIInv
<1> QED BY <1>8, <1>9

LEMMA BarNextInv == BarIInv /\ [BarNext]_barVars => BarIInv'
<1> SUFFICES ASSUME BarIInv, [BarNext]_barVars PROVE BarIInv'
  OBVIOUS
<1>1. ASSUME NEW now \in Clock, OnSubscribe(now)
      PROVE  BarIInv'
  <2>1. (bar' = FirstBar(now) \/ bar' = bar) /\ UNCHANGED <<written, traded>>
    BY <1>1 DEF OnSubscribe
  <2> QED BY <2>1, FirstBarKeeps
<1>2. ASSUME NEW now \in Clock, OnRequestWriteTo(now)
      PROVE  BarIInv'
  <2>1. (bar' = FirstBar(now) \/ bar' = bar) /\ UNCHANGED <<written, traded>>
    BY <1>2 DEF OnRequestWriteTo
  <2> QED BY <2>1, FirstBarKeeps
<1>3. ASSUME NEW t \in [time : Clock, price : Price], OnTrade(t)
      PROVE  BarIInv'
  BY <1>3, TradeKeeps
<1>4. CASE UNCHANGED barVars
  BY <1>4 DEF barVars, BarIInv
<1> QED BY <1>1, <1>2, <1>3, <1>4 DEF BarNext

LEMMA BarInvariant == BarSpec => []BarIInv
<1>1. BarIInv /\ [BarNext]_barVars => BarIInv'
  BY BarNextInv
<1> QED BY BarInitInv, <1>1, PTL DEF BarSpec

-----------------------------------------------------------------------------
(* What the trades of a bar make of it. *)
LEMMA GoodBarIsOfTrades ==
    ASSUME traded \in Seq(TradeRead), NEW b, GoodBar(traded, b)
    PROVE  LET may  == During(b.start .. b.end)
               must == During(b.start + 1 .. b.end - 1)
           IN  /\ b.count \in Cardinality(must) .. Cardinality(may)
               /\ b.count > 0 =>
                    /\ {b.open, b.close, b.low, b.high} \subseteq Prices(may)
                    /\ b.low  = Min(Prices(must) \cup {b.low, b.open, b.close})
                    /\ b.high = Max(Prices(must) \cup {b.high, b.open, b.close})
                    /\ may = must =>
                         b.open = traded[Min(may)].price /\ b.close = traded[Max(may)].price
<1> DEFINE may  == During(b.start .. b.end)
           must == During(b.start + 1 .. b.end - 1)
<1>1. PICK C \in SUBSET (DOMAIN traded) : BarIsOf(traded, b, C)
  BY DEF GoodBar
<1>2. must \subseteq C /\ C \subseteq may /\ may \subseteq DOMAIN traded
  <2>1. \A T : During(T) = TradesDuring(traded, T)
    BY DEF During, TradesDuring
  <2> QED BY <1>1, <2>1 DEF BarIsOf, TradesDuring
<1>3. DOMAIN traded = 1 .. Len(traded) /\ Len(traded) \in Nat
  OBVIOUS
<1> HIDE DEF may, must
<1>4. /\ IsFiniteSet(C) /\ IsFiniteSet(must)
      /\ Cardinality(must) \in Nat /\ Cardinality(C) \in Nat /\ Cardinality(may) \in Nat
      /\ Cardinality(must) <= Cardinality(C) /\ Cardinality(C) <= Cardinality(may)
  <2>1. IsFiniteSet(DOMAIN traded)
    BY <1>3, FS_Interval
  <2>2. IsFiniteSet(may)
    BY <1>2, <2>1, FS_Subset
  <2>3. IsFiniteSet(C) /\ Cardinality(C) <= Cardinality(may)
    BY <1>2, <2>2, FS_Subset
  <2>4. IsFiniteSet(must) /\ Cardinality(must) <= Cardinality(C)
    BY <1>2, <2>3, FS_Subset
  <2> QED BY <2>2, <2>3, <2>4, FS_CardinalityType
<1>5. b.count = Cardinality(C)
  BY <1>1 DEF BarIsOf
<1>6. b.count \in Cardinality(must) .. Cardinality(may)
  BY <1>4, <1>5
<1>7. ASSUME b.count > 0
      PROVE  /\ {b.open, b.close, b.low, b.high} \subseteq Prices(may)
             /\ b.low  = Min(Prices(must) \cup {b.low, b.open, b.close})
             /\ b.high = Max(Prices(must) \cup {b.high, b.open, b.close})
             /\ may = must =>
                  b.open = traded[Min(may)].price /\ b.close = traded[Max(may)].price
  <2>1. C # {}
    BY <1>4, <1>5, <1>7, FS_EmptySet
  <2>2. PICK first \in C : b.open = traded[first].price /\ \A j \in C : first <= j
    BY <1>1, <2>1 DEF BarIsOf
  <2>3. PICK last \in C : b.close = traded[last].price /\ \A j \in C : j <= last
    BY <1>1, <2>1 DEF BarIsOf
  <2>4. PICK l \in C : b.low = traded[l].price
    BY <1>1, <2>1 DEF BarIsOf
  <2>5. PICK h \in C : b.high = traded[h].price
    BY <1>1, <2>1 DEF BarIsOf
  <2>6. \A i \in C : b.low <= traded[i].price /\ traded[i].price <= b.high /\ traded[i].price \in Int
    BY <1>1, <2>1, PricesAndTimes DEF BarIsOf
  <2>7. {b.open, b.close, b.low, b.high} \subseteq Prices(may)
    BY <1>2, <2>2, <2>3, <2>4, <2>5 DEF Prices
  <2>8. b.low = Min(Prices(must) \cup {b.low, b.open, b.close})
    <3> DEFINE S == Prices(must) \cup {b.low, b.open, b.close}
    <3>1. \A y \in S : y \in Int /\ b.low <= y
      BY <1>2, <2>2, <2>3, <2>4, <2>6 DEF Prices
    <3>2. b.low \in S
      OBVIOUS
    <3> HIDE DEF S
    <3>3. Min(S) = b.low
      BY <3>1, <3>2, MinIs
    <3> QED BY <3>3 DEF S
  <2>9. b.high = Max(Prices(must) \cup {b.high, b.open, b.close})
    <3> DEFINE S == Prices(must) \cup {b.high, b.open, b.close}
    <3>1. \A y \in S : y \in Int /\ b.high >= y
      BY <1>2, <2>2, <2>3, <2>5, <2>6 DEF Prices
    <3>2. b.high \in S
      OBVIOUS
    <3> HIDE DEF S
    <3>3. Max(S) = b.high
      BY <3>1, <3>2, MaxIs
    <3> QED BY <3>3 DEF S
  <2>10. ASSUME may = must
         PROVE  b.open = traded[Min(may)].price /\ b.close = traded[Max(may)].price
    <3>1. may = C
      BY <1>2, <2>10
    <3>2. \A i \in may : i \in Int
      BY <1>2, <1>3
    <3>3. Min(may) = first
      BY <2>2, <3>1, <3>2, MinIs
    <3>4. Max(may) = last
      BY <2>3, <3>1, <3>2, MaxIs
    <3> QED BY <2>2, <2>3, <3>3, <3>4
  <2> QED BY <2>7, <2>8, <2>9, <2>10
<1> QED BY <1>6, <1>7 DEF may, must

(* The bars written and the one that is open. *)
LEMMA AllBars ==
    ASSUME BarIInv
    PROVE  /\ bar = NoBar => DOMAIN Bars = {} /\ DOMAIN written = {} /\ DOMAIN traded = {}
           /\ bar # NoBar =>
                /\ DOMAIN Bars = 1 .. Len(written) + 1 /\ Len(written) \in Nat
                /\ DOMAIN written = 1 .. Len(written)
                /\ \A k \in DOMAIN written : Bars[k] = written[k]
                /\ Bars[Len(written) + 1] = bar
<1>1. written \in Seq(BarRecord)
  BY DEF BarIInv
<1>2. CASE bar = NoBar
  <2>1. written = <<>> /\ traded = <<>>
    BY <1>2 DEF BarIInv
  <2>2. Bars = <<>> \o <<>>
    BY <1>2, <2>1 DEF Bars
  <2>3. DOMAIN Bars = {}
    BY <2>2
  <2> QED BY <1>2, <2>1, <2>3
<1>3. CASE bar # NoBar
  <2>1. bar \in BarRecord
    BY <1>3 DEF BarIInv, GoodBar
  <2>2. Bars = written \o <<bar>>
    BY <1>3 DEF Bars
  <2>3. written \o <<bar>> = Append(written, bar)
    BY <1>1, <2>1
  <2> QED BY <1>1, <1>3, <2>1, <2>2, <2>3
<1> QED BY <1>2, <1>3

LEMMA BarInvFaithful == BarIInv => BarsFaithful
<1> SUFFICES ASSUME BarIInv PROVE BarsFaithful
  OBVIOUS
<1>1. CASE bar = NoBar
  <2>1. DOMAIN Bars = {} /\ DOMAIN traded = {}
    BY <1>1, AllBars
  <2>2. BarIsOfTrades
    BY <2>1 DEF BarIsOfTrades
  <2>3. BarsAdjoin
    BY <2>1 DEF BarsAdjoin
  <2> QED BY <2>2, <2>3 DEF BarsFaithful
<1>2. CASE bar # NoBar
  <2>1. /\ DOMAIN Bars = 1 .. Len(written) + 1 /\ Len(written) \in Nat
        /\ DOMAIN written = 1 .. Len(written)
        /\ \A k \in DOMAIN written : Bars[k] = written[k]
        /\ Bars[Len(written) + 1] = bar
    BY <1>2, AllBars
  <2>2. \A k \in DOMAIN Bars : GoodBar(traded, Bars[k])
    BY <1>2, <2>1 DEF BarIInv
  <2>3. traded \in Seq(TradeRead)
    BY DEF BarIInv
  <2>4. BarIsOfTrades
    BY <2>2, <2>3, GoodBarIsOfTrades DEF BarIsOfTrades
  <2>5. \A k \in DOMAIN Bars :
          /\ Bars[k].end = Bars[k].start + TimeInterval
          /\ Bars[k].start % TimeInterval = 0
    <3> TAKE k \in DOMAIN Bars
    <3>1. InPlace(Bars[k]) /\ Bars[k].start \in Nat
      BY <2>2 DEF GoodBar, BarRecord
    <3> QED BY <3>1, WholeDivides DEF InPlace
  <2>6. \A k \in DOMAIN Bars : k > 1 => Bars[k].start >= Bars[k - 1].end
    <3> SUFFICES ASSUME NEW k \in DOMAIN Bars, k > 1
                 PROVE  Bars[k].start >= Bars[k - 1].end
      OBVIOUS
    <3>1. k - 1 \in DOMAIN written /\ Bars[k - 1] = written[k - 1]
      BY <2>1
    <3>2. CASE k \in DOMAIN written
      BY <2>1, <3>1, <3>2 DEF BarIInv
    <3>3. CASE k = Len(written) + 1
      <4>1. written[k - 1].end <= bar.start
        BY <3>1 DEF BarIInv
      <4>2. written[k - 1] \in BarRecord /\ bar \in BarRecord
        BY <1>2, <3>1 DEF BarIInv, GoodBar
      <4>3. written[k - 1].end \in Nat /\ bar.start \in Nat
        BY <4>2 DEF BarRecord
      <4> QED BY <2>1, <3>1, <3>3, <4>1, <4>3
    <3> QED BY <2>1, <3>2, <3>3
  <2>7. \A i \in DOMAIN traded :
          ~traded[i].late =>
            \E k \in DOMAIN Bars : traded[i].time \in Bars[k].start .. Bars[k].end
    <3> SUFFICES ASSUME NEW i \in DOMAIN traded, ~traded[i].late
                 PROVE  \E k \in DOMAIN Bars : traded[i].time \in Bars[k].start .. Bars[k].end
      OBVIOUS
    <3>1. \/ traded[i].time \in bar.start .. bar.end
          \/ \E k \in DOMAIN written : traded[i].time \in written[k].start .. written[k].end
      BY DEF BarIInv
    <3>2. CASE traded[i].time \in bar.start .. bar.end
      <4>1. Len(written) + 1 \in DOMAIN Bars
        BY <2>1
      <4> QED BY <2>1, <3>2, <4>1
    <3>3. CASE \E k \in DOMAIN written : traded[i].time \in written[k].start .. written[k].end
      <4>1. PICK k \in DOMAIN written : traded[i].time \in written[k].start .. written[k].end
        BY <3>3
      <4>2. k \in DOMAIN Bars /\ Bars[k] = written[k]
        BY <2>1
      <4> QED BY <4>1, <4>2
    <3> QED BY <3>1, <3>2, <3>3
  <2>8. BarsAdjoin
    BY <2>5, <2>6, <2>7 DEF BarsAdjoin
  <2> QED BY <2>4, <2>8 DEF BarsFaithful
<1> QED BY <1>1, <1>2

(* For every interval, every clock and every sequence of trades: each bar  *)
(* is of the trades of its time, and the bars leave no time of a trade     *)
(* out (BarGenerator::subscribe, BarGenerator::on_start).                  *)
THEOREM BarsFaithfulAlways == BarSpec => []BarsFaithful
BY BarInvariant, BarInvFaithful, PTL
=============================================================================
