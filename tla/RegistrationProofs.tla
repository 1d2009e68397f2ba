------------------------- MODULE RegistrationProofs --------------------------
(***************************************************************************)
(* Proofs about Registration for any number of applications, processes and *)
(* requests.                                                               *)
(***************************************************************************)
EXTENDS Registration, TLAPS, FiniteSetTheorems, WellFoundedInduction

Arg == SUBSET (App \cup {"master"} \cup Channel)
Rec == [gen : Nat, typ : FrameType, arg : Arg]
Req == [typ : Request, peer : App]

(* A journal: its frames are in the order of their times. *)
Rising(J) == \A i, j \in 1 .. Len(J) : i < j => J[i].gen < J[j].gen
Journal(J, now) ==
    /\ J \in Seq(Rec)
    /\ \A i \in 1 .. Len(J) : J[i].gen \in 1 .. now
    /\ Rising(J)

(* What the master says of the applications: in its public journal and in  *)
(* the commands journals.                                                  *)
PublicRec(f) ==
    /\ f.typ \in {"Register", "Deregister", "Channel"}
    /\ f.arg \subseteq (IF f.typ = "Channel" THEN Channel ELSE App)
CommandRec(f) ==
    /\ f.typ \in {"WriteTo", "ReadFrom", "ReadFromPublic", "Location", "Channel",
                  "RequestStart", "SessionEnd"}
    /\ f.typ \in {"ReadFrom", "ReadFromPublic", "Location"} => f.arg \subseteq App
    /\ f.typ = "Channel" => f.arg \subseteq Channel
    /\ f.typ = "WriteTo" => f.arg = {"master"} \/ f.arg \subseteq App
    /\ f.typ \in {"RequestStart", "SessionEnd"} => f.arg = {}

IMaster ==
    /\ inbox \in Seq(Pid) /\ \A i \in 1 .. Len(inbox) : st[inbox[i]] # "none"
    /\ locations \subseteq App /\ files \subseteq App /\ Old \subseteq files
    /\ channels \subseteq Channel /\ tracked \subseteq Pid /\ clock \in Nat
    /\ DOMAIN commands = App /\ DOMAIN requests = App /\ asked \in 0 .. MaxRequest
    /\ \A a \in App : requests[a] \in Seq(Req)
    /\ \A a \in App : \A i \in 1 .. Len(requests[a]) : requests[a][i].peer # a

IFrames ==
    /\ Journal(public, clock)
    /\ \A i \in 1 .. Len(public) : PublicRec(public[i])
    /\ \A a \in App : Journal(commands[a], clock)
    /\ \A a \in App : \A i \in 1 .. Len(commands[a]) : CommandRec(commands[a][i])

ITracked ==
    /\ \A p \in tracked : st[p] # "none" /\ app[p] \in locations
    /\ \A p, q \in tracked : app[p] = app[q] => p = q
    /\ \A a \in App : requests[a] # <<>> => a \in locations
    /\ \A c \in channels : c.source \in locations

ProcessOK(p) ==
    /\ st[p] \in Status /\ app[p] \in App \cup {NoApp} /\ fresh[p] \in BOOLEAN
    /\ stale[p] \in {"none", "public", "commands"} /\ hasty[p] \in BOOLEAN
    /\ known[p] \subseteq App /\ links[p] \subseteq Channel
    /\ reads[p] \subseteq App \X BOOLEAN /\ writes[p] \subseteq App \cup {"master"}
    /\ pub[p] \in 1 .. Len(public) + 1 /\ cmd[p] \in Nat
    /\ st[p] # "none" => app[p] \in App /\ cmd[p] <= Len(commands[app[p]]) + 1
    /\ st[p] = "none" => /\ app[p] = NoApp /\ cmd[p] = 0 /\ known[p] = {} /\ links[p] = {}
                         /\ reads[p] = {} /\ writes[p] = {}
    /\ Alive(p) => (st[p] = "waiting" <=> cmd[p] = 0)
IProcess == \A p \in Pid : ProcessOK(p)

IDomains ==
    /\ DOMAIN app = Pid /\ DOMAIN st = Pid /\ DOMAIN pub = Pid /\ DOMAIN cmd = Pid
    /\ DOMAIN stale = Pid /\ DOMAIN known = Pid /\ DOMAIN links = Pid
    /\ DOMAIN reads = Pid /\ DOMAIN writes = Pid /\ DOMAIN fresh = Pid
    /\ DOMAIN hasty = Pid

(* An application has one living process. *)
IAlone == \A p, q \in Pid : Alive(p) /\ Alive(q) /\ app[p] = app[q] => p = q

(* Frames that a process will read: once it has joined its commands        *)
(* journal those at its cursor and behind, before that those behind the    *)
(* next Register.                                                          *)
Com(p, i) == commands[app[p]][i]
Pending(p, i) ==
    /\ app[p] \in App /\ i \in 1 .. Len(commands[app[p]])
    /\ IF cmd[p] = 0
       THEN \E j \in pub[p] .. Len(public) :
              public[j].typ = "Register" /\ public[j].gen < Com(p, i).gen
       ELSE i >= cmd[p]

ToMaster(f) == f.typ = "WriteTo" /\ f.arg = {"master"}

(* Whoever is or will be welcomed is the one the master has registered.    *)
Welcomed(p) ==
    /\ Alive(p)
    /\ "master" \in writes[p] \/ \E i \in Nat : Pending(p, i) /\ ToMaster(Com(p, i))
ISession ==
    \A p \in Pid : Welcomed(p) =>
       /\ app[p] \in locations
       /\ \A q \in tracked : app[q] = app[p] => q = p

(* And is looked at, unless a process has died of what it read. *)
Started(p) ==
    /\ Alive(p)
    /\ st[p] = "started" \/ \E i \in Nat : Pending(p, i) /\ Com(p, i).typ = "RequestStart"
IWaiting == \A i \in 1 .. Len(inbox) : Alive(inbox[i]) \/ Harmed(app[inbox[i]])
ITracks ==
    ~EarlyDeath =>
       /\ IWaiting
       /\ Tracked
       /\ \A p \in Pid : Started(p) => p \in tracked \/ Harmed(app[p])

IShape == IMaster /\ IFrames /\ IDomains /\ IProcess
IBase == IShape /\ ITracked /\ IAlone /\ ISession /\ ITracks

-----------------------------------------------------------------------------
(* Sequences. *)

LEMMA Appended ==
    ASSUME NEW S, NEW s \in Seq(S), NEW e \in S
    PROVE  /\ Append(s, e) \in Seq(S) /\ Len(s) \in Nat /\ Len(Append(s, e)) = Len(s) + 1
           /\ \A k \in 1 .. Len(s) : Append(s, e)[k] = s[k] /\ s[k] \in S
           /\ Append(s, e)[Len(s) + 1] = e
  OBVIOUS

LEMMA Tailed ==
    ASSUME NEW S, NEW s \in Seq(S), s # <<>>
    PROVE  /\ Tail(s) \in Seq(S) /\ Len(s) \in Nat /\ Len(s) >= 1 /\ Len(Tail(s)) = Len(s) - 1
           /\ Head(s) = s[1] /\ s[1] \in S
           /\ \A k \in 1 .. Len(Tail(s)) : k + 1 \in 1 .. Len(s) /\ Tail(s)[k] = s[k + 1]
  OBVIOUS

LEMMA Joined ==
    ASSUME NEW S, NEW s \in Seq(S), NEW t \in Seq(S)
    PROVE  /\ s \o t \in Seq(S) /\ Len(s \o t) = Len(s) + Len(t)
           /\ Len(s) \in Nat /\ Len(t) \in Nat /\ \A k \in 1 .. Len(s) : s[k] \in S
           /\ \A k \in 1 .. Len(s) + Len(t) :
                 (s \o t)[k] = IF k <= Len(s) THEN s[k] ELSE t[k - Len(s)]
  <1>1. s \o t \in Seq(S) /\ Len(s \o t) = Len(s) + Len(t) OBVIOUS
  <1>2. Len(s) \in Nat /\ Len(t) \in Nat /\ \A k \in 1 .. Len(s) : s[k] \in S OBVIOUS
  <1>3. \A k \in 1 .. Len(s) + Len(t) :
           (s \o t)[k] = IF k <= Len(s) THEN s[k] ELSE t[k - Len(s)]
    OBVIOUS
  <1> QED BY <1>1, <1>2, <1>3

LEMMA FourMore ==
    ASSUME NEW S, NEW s \in Seq(S), NEW a \in S, NEW b \in S, NEW c \in S, NEW d \in S,
           NEW r, r = s \o <<a, b, c, d>>
    PROVE  /\ r \in Seq(S) /\ Len(s) \in Nat /\ Len(r) = Len(s) + 4
           /\ \A k \in 1 .. Len(s) : r[k] = s[k]
           /\ r[Len(s) + 1] = a /\ r[Len(s) + 2] = b /\ r[Len(s) + 3] = c /\ r[Len(s) + 4] = d
  <1> DEFINE t == <<a, b, c, d>>
  <1>1. t \in Seq(S) /\ Len(t) = 4 /\ t[1] = a /\ t[2] = b /\ t[3] = c /\ t[4] = d OBVIOUS
  <1>2. r = s \o t OBVIOUS
  <1> HIDE DEF t
  <1>3. Len(t) \in Nat /\ t \in Seq(S) BY <1>1
  <1>4. /\ s \o t \in Seq(S) /\ Len(s \o t) = Len(s) + Len(t) /\ Len(s) \in Nat
        /\ \A k \in 1 .. Len(s) + Len(t) :
              (s \o t)[k] = IF k <= Len(s) THEN s[k] ELSE t[k - Len(s)]
    BY <1>3, Joined, Zenon
  <1>5. /\ r \in Seq(S) /\ Len(r) = Len(s) + Len(t) /\ Len(s) \in Nat
        /\ \A k \in 1 .. Len(s) + Len(t) : r[k] = IF k <= Len(s) THEN s[k] ELSE t[k - Len(s)]
    BY <1>2, <1>4, Zenon
  <1> HIDE <1>2, <1>4
  <1> QED BY <1>1, <1>5

(* The cursor that SeekCommands finds divides the journal at a time. *)
LEMMA Sought ==
    ASSUME NEW J \in Seq(Rec), Rising(J), NEW t \in Nat, NEW n,
           n = 1 + Cardinality({i \in 1 .. Len(J) : J[i].gen <= t})
    PROVE  n \in 1 .. Len(J) + 1 /\ \A i \in 1 .. Len(J) : i >= n <=> J[i].gen > t
  <1> DEFINE S == {i \in 1 .. Len(J) : J[i].gen <= t}
             c == Cardinality(S)
  <1>1. Len(J) \in Nat /\ \A i \in 1 .. Len(J) : J[i].gen \in Nat
    <2>1. Len(J) \in Nat /\ \A i \in 1 .. Len(J) : J[i] \in Rec OBVIOUS
    <2> QED BY <2>1 DEF Rec
  <1>2. IsFiniteSet(1 .. Len(J)) /\ Cardinality(1 .. Len(J)) = Len(J)
    <2>1. Len(J) \in Nat /\ Len(J) \in Int /\ 1 \in Int BY <1>1
    <2>2. /\ IsFiniteSet(1 .. Len(J))
          /\ Cardinality(1 .. Len(J)) = IF 1 <= Len(J) THEN Len(J) - 1 + 1 ELSE 0
      BY <2>1, FS_Interval
    <2> QED BY <2>1, <2>2
  <1>3. IsFiniteSet(S) /\ c \in Nat /\ c <= Len(J)
    <2>1. S \subseteq 1 .. Len(J) OBVIOUS
    <2> HIDE DEF S
    <2> QED BY <1>2, <2>1, FS_Subset, FS_CardinalityType
  <1>4. ASSUME NEW i \in S PROVE i <= c
    <2>1. 1 .. i \subseteq S BY <1>1 DEF Rising
    <2>2. Cardinality(1 .. i) = i BY FS_Interval, <1>1
    <2>3. i \in Nat BY <1>1
    <2> HIDE DEF S
    <2>4. Cardinality(1 .. i) <= Cardinality(S) BY <1>3, <2>1, FS_Subset
    <2> QED BY <1>3, <2>2, <2>3, <2>4
  <1>5. ASSUME NEW i \in 1 .. Len(J), i \notin S PROVE c < i
    <2>1. S \subseteq 1 .. i - 1 BY <1>1, <1>5 DEF Rising
    <2>2. IsFiniteSet(1 .. i - 1) /\ Cardinality(1 .. i - 1) = i - 1
      <3>1. i - 1 \in Int /\ 1 \in Int /\ i >= 1 BY <1>1
      <3> QED BY <3>1, FS_Interval
    <2> HIDE DEF S
    <2>3. Cardinality(S) <= Cardinality(1 .. i - 1) BY <2>1, <2>2, FS_Subset
    <2>4. i \in Nat BY <1>1
    <2> QED BY <2>2, <2>3, <2>4, <1>3
  <1>6. n = 1 + c OBVIOUS
  <1>7. \A i \in 1 .. Len(J) : i \in S <=> ~(J[i].gen > t) BY <1>1
  <1> HIDE DEF S, c
  <1>8. n \in 1 .. Len(J) + 1 BY <1>1, <1>3, <1>6
  <1>9. ASSUME NEW i \in 1 .. Len(J) PROVE i >= n <=> i \notin S
    <2>1. i \in Nat BY <1>1
    <2>2. i \in S => i <= c BY <1>4
    <2>3. i \notin S => c < i BY <1>5
    <2> QED BY <2>1, <2>2, <2>3, <1>3, <1>6
  <1> QED BY <1>7, <1>8, <1>9

-----------------------------------------------------------------------------
(* What the master writes. *)

(* K is the journal J with frames of times after t, up to u, behind it. *)
Grown(J, K, t, u) ==
    /\ K \in Seq(Rec) /\ Len(J) <= Len(K)
    /\ \A i \in 1 .. Len(J) : K[i] = J[i]
    /\ \A i \in Len(J) + 1 .. Len(K) : K[i].gen \in t + 1 .. u
    /\ \A i, j \in Len(J) + 1 .. Len(K) : i < j => K[i].gen < K[j].gen

LEMMA Unwritten ==
    ASSUME NEW J \in Seq(Rec), NEW t \in Nat, NEW u \in Nat
    PROVE  Grown(J, J, t, u)
  <1>1. Len(J) \in Nat OBVIOUS
  <1> QED BY <1>1 DEF Grown

LEMMA OneWritten ==
    ASSUME NEW J \in Seq(Rec), NEW f \in Rec, NEW t \in Nat, NEW u \in Nat, f.gen \in t + 1 .. u
    PROVE  Grown(J, Append(J, f), t, u)
  <1> DEFINE K == Append(J, f)
  <1>1. /\ K \in Seq(Rec) /\ Len(J) \in Nat /\ Len(K) = Len(J) + 1 /\ K[Len(J) + 1] = f
        /\ \A k \in 1 .. Len(J) : K[k] = J[k]
    BY Appended
  <1> HIDE DEF K
  <1> QED BY <1>1 DEF Grown

LEMMA FourLast ==
    ASSUME NEW n \in Nat, NEW t \in Nat, NEW K,
           K[n + 1].gen = t + 2, K[n + 2].gen = t + 3, K[n + 3].gen = t + 4, K[n + 4].gen = t + 5
    PROVE  /\ \A i \in n + 1 .. n + 4 : i = n + 1 \/ i = n + 2 \/ i = n + 3 \/ i = n + 4
           /\ \A i \in n + 1 .. n + 4 : K[i].gen \in t + 1 .. t + 5
           /\ \A i, j \in n + 1 .. n + 4 : i < j => K[i].gen < K[j].gen
  <1>1. \A i \in n + 1 .. n + 4 : i = n + 1 \/ i = n + 2 \/ i = n + 3 \/ i = n + 4 OBVIOUS
  <1>2. \A i \in n + 1 .. n + 4 : K[i].gen = t + 1 + (i - n) BY <1>1
  <1> QED BY <1>1, <1>2

LEMMA FourWritten ==
    ASSUME NEW J \in Seq(Rec), NEW t \in Nat, NEW K \in Seq(Rec), Len(K) = Len(J) + 4,
           \A k \in 1 .. Len(J) : K[k] = J[k],
           K[Len(J) + 1].gen = t + 2, K[Len(J) + 2].gen = t + 3,
           K[Len(J) + 3].gen = t + 4, K[Len(J) + 4].gen = t + 5
    PROVE  /\ Grown(J, K, t, t + 5)
           /\ \A i \in Len(J) + 1 .. Len(J) + 4 :
                 i = Len(J) + 1 \/ i = Len(J) + 2 \/ i = Len(J) + 3 \/ i = Len(J) + 4
  <1>1. Len(J) \in Nat OBVIOUS
  <1> DEFINE n == Len(J)
  <1>2. /\ \A i \in n + 1 .. n + 4 : i = n + 1 \/ i = n + 2 \/ i = n + 3 \/ i = n + 4
        /\ \A i \in n + 1 .. n + 4 : K[i].gen \in t + 1 .. t + 5
        /\ \A i, j \in n + 1 .. n + 4 : i < j => K[i].gen < K[j].gen
    BY <1>1, FourLast, Zenon
  <1>3. Len(J) <= Len(K) BY <1>1
  <1> QED BY <1>2, <1>3, Zenon DEF Grown

LEMMA GrownJournal ==
    ASSUME NEW J, NEW K, NEW t \in Nat, NEW u \in Nat, t <= u, Journal(J, t), Grown(J, K, t, u)
    PROVE  Journal(K, u)
  <1>1. Len(J) \in Nat /\ Len(K) \in Nat BY DEF Journal, Grown
  <1>2. \A i \in 1 .. Len(J) : K[i] = J[i] /\ J[i].gen \in 1 .. t BY DEF Journal, Grown
  <1>3. \A i \in 1 .. Len(K) : i \in 1 .. Len(J) \/ i \in Len(J) + 1 .. Len(K) BY <1>1
  <1>4. \A i \in 1 .. Len(K) : K[i].gen \in 1 .. u BY <1>2, <1>3 DEF Grown
  <1>5. ASSUME NEW i \in 1 .. Len(K), NEW j \in 1 .. Len(K), i < j PROVE K[i].gen < K[j].gen
    <2>1. CASE j \in 1 .. Len(J)
      <3>1. i \in 1 .. Len(J) BY <1>5, <2>1, <1>1
      <3> QED BY <2>1, <3>1, <1>2, <1>5 DEF Journal, Rising
    <2>2. CASE j \in Len(J) + 1 .. Len(K) /\ i \in 1 .. Len(J)
      BY <2>2, <1>2 DEF Grown
    <2>3. CASE j \in Len(J) + 1 .. Len(K) /\ i \in Len(J) + 1 .. Len(K)
      BY <2>3, <1>5 DEF Grown
    <2> QED BY <1>3, <2>1, <2>2, <2>3
  <1> QED BY <1>4, <1>5 DEF Journal, Rising, Grown

LEMMA FrameIs ==
    ASSUME NEW g \in Nat, NEW t \in FrameType, NEW x \in Arg
    PROVE  /\ Frame(g, t, x) \in Rec
           /\ Frame(g, t, x).gen = g /\ Frame(g, t, x).typ = t /\ Frame(g, t, x).arg = x
  BY DEF Frame, Rec

LEMMA Args ==
    /\ \A x : x \subseteq App => x \in Arg
    /\ \A x : x \subseteq Channel => x \in Arg
    /\ {"master"} \in Arg /\ {} \in Arg
  BY DEF Arg

LEMMA PlaceFrame ==
    ASSUME NEW g \in Nat, NEW L, L \subseteq App, NEW t \in {"Register", "Deregister"}
    PROVE  LET f == Frame(g, t, L) IN
           f \in Rec /\ PublicRec(f) /\ f.gen = g /\ f.typ = t /\ f.arg = L
  <1>1. L \in Arg /\ t \in FrameType BY Args DEF FrameType
  <1> QED BY <1>1, FrameIs DEF PublicRec

LEMMA OrderFrame ==
    ASSUME NEW g \in Nat, NEW L, L \subseteq App,
           NEW t \in {"WriteTo", "ReadFrom", "ReadFromPublic", "Location"}
    PROVE  LET f == Frame(g, t, L) IN
           f \in Rec /\ CommandRec(f) /\ f.gen = g /\ f.typ = t /\ f.arg = L
  <1>1. L \in Arg /\ t \in FrameType BY Args DEF FrameType
  <1> QED BY <1>1, FrameIs DEF CommandRec

LEMMA ChannelFrame ==
    ASSUME NEW g \in Nat, NEW C, C \subseteq Channel
    PROVE  LET f == Frame(g, "Channel", C) IN
           /\ f \in Rec /\ CommandRec(f) /\ PublicRec(f)
           /\ f.gen = g /\ f.typ = "Channel" /\ f.arg = C
  <1>1. C \in Arg /\ "Channel" \in FrameType BY Args DEF FrameType
  <1> QED BY <1>1, FrameIs DEF CommandRec, PublicRec

LEMMA MasterFrame ==
    ASSUME NEW g \in Nat
    PROVE  LET f == Frame(g, "WriteTo", {"master"}) IN
           /\ f \in Rec /\ CommandRec(f) /\ ToMaster(f)
           /\ f.gen = g /\ f.typ = "WriteTo" /\ f.arg = {"master"}
  <1>1. {"master"} \in Arg /\ "WriteTo" \in FrameType BY Args DEF FrameType
  <1> QED BY <1>1, FrameIs DEF CommandRec, ToMaster

LEMMA PlainFrame ==
    ASSUME NEW g \in Nat, NEW t \in {"RequestStart", "SessionEnd"}
    PROVE  LET f == Frame(g, t, {}) IN
           f \in Rec /\ CommandRec(f) /\ f.gen = g /\ f.typ = t /\ f.arg = {}
  <1>1. {} \in Arg /\ t \in FrameType BY Args DEF FrameType
  <1> QED BY <1>1, FrameIs DEF CommandRec

(* The journals of the master only grow, with frames of later times. *)
Wrote ==
    /\ clock' \in Nat /\ clock <= clock'
    /\ Grown(public, public', clock, clock')
    /\ DOMAIN commands' = App
    /\ \A a \in App : Grown(commands[a], commands'[a], clock, clock')

LEMMA WroteFrames ==
    ASSUME IMaster, IFrames, Wrote,
           \A i \in Len(public) + 1 .. Len(public') : PublicRec(public'[i]),
           \A a \in App : \A i \in Len(commands[a]) + 1 .. Len(commands'[a]) :
              CommandRec(commands'[a][i])
    PROVE  IFrames'
  <1>0. clock \in Nat /\ clock' \in Nat /\ clock <= clock' BY DEF IMaster, Wrote
  <1>1. Journal(public', clock') BY <1>0, GrownJournal DEF IFrames, Wrote
  <1>2. \A a \in App : Journal(commands'[a], clock') BY <1>0, GrownJournal DEF IFrames, Wrote
  <1>3. \A i \in 1 .. Len(public') : PublicRec(public'[i])
    <2>1. Len(public) \in Nat /\ Len(public') \in Nat BY <1>1 DEF IFrames, Journal
    <2>2. \A i \in 1 .. Len(public) : PublicRec(public'[i])
      BY DEF IFrames, Wrote, Grown
    <2>3. \A i \in 1 .. Len(public') : i \in 1 .. Len(public) \/ i \in Len(public) + 1 .. Len(public')
      BY <2>1
    <2> QED BY <2>2, <2>3
  <1>4. ASSUME NEW a \in App
        PROVE  \A i \in 1 .. Len(commands'[a]) : CommandRec(commands'[a][i])
    <2>1. Len(commands[a]) \in Nat /\ Len(commands'[a]) \in Nat BY <1>2 DEF IFrames, Journal
    <2>2. \A i \in 1 .. Len(commands[a]) : CommandRec(commands'[a][i])
      BY DEF IFrames, Wrote, Grown
    <2>3. \A i \in 1 .. Len(commands'[a]) :
             i \in 1 .. Len(commands[a]) \/ i \in Len(commands[a]) + 1 .. Len(commands'[a])
      BY <2>1
    <2> QED BY <2>2, <2>3
  <1> QED BY <1>1, <1>2, <1>3, <1>4 DEF IFrames, Journal

(* What register_app does with the request at the head of the socket. *)
RegisterWrites(p, a, n, m) ==
    /\ p \in Pid /\ p = inbox[1] /\ a \in App /\ a \notin locations /\ st[p] # "none"
    /\ n \in Nat /\ m \in Nat
    /\ Len(public') = n + 1 /\ public'[n + 1] = Frame(clock + 1, "Register", {a})
    /\ Len(commands'[a]) = m + 4
    /\ commands'[a][m + 1] = Frame(clock + 2, "WriteTo", {"master"})
    /\ ToMaster(commands'[a][m + 1]) /\ commands'[a][m + 1].gen = clock + 2
    /\ commands'[a][m + 2] = Frame(clock + 3, "Location", locations \cup {a})
    /\ commands'[a][m + 3] = Frame(clock + 4, "Channel", channels)
    /\ commands'[a][m + 4] = Frame(clock + 5, "RequestStart", {})
    /\ \A b \in App : b # a => commands'[b] = commands[b]
    /\ clock' = clock + 5
    /\ Wrote /\ IFrames'

LEMMA RegisterFrames ==
    ASSUME IMaster, IFrames, IProcess, RegisterApp,
           NEW p, p = Head(inbox), NEW a, a = app[p],
           NEW n, n = Len(public), NEW m, m = Len(commands[a])
    PROVE  RegisterWrites(p, a, n, m)
  <1>1. p \in Pid /\ p = inbox[1] /\ st[p] # "none" /\ a \in App
    <2>1. p = inbox[1] /\ p \in Pid /\ Len(inbox) \in Nat /\ Len(inbox) >= 1
      BY Tailed DEF IMaster, RegisterApp
    <2>2. st[p] # "none" BY <2>1 DEF IMaster
    <2> QED BY <2>1, <2>2 DEF IProcess, ProcessOK
  <1>2. /\ a \notin locations /\ clock' = clock + 5 /\ clock \in Nat
        /\ public' = Append(public, Frame(clock + 1, "Register", {a}))
        /\ commands' = [commands EXCEPT ![a] = commands[a] \o Welcome(a, clock + 1)]
    BY DEF RegisterApp, IMaster
  <1>3. public \in Seq(Rec) /\ \A b \in App : commands[b] \in Seq(Rec) BY DEF IFrames, Journal
  <1>4. /\ commands'[a] = commands[a] \o Welcome(a, clock + 1) /\ DOMAIN commands' = App
        /\ \A b \in App : b # a => commands'[b] = commands[b]
    BY <1>1, <1>2 DEF IMaster
  <1> DEFINE w1 == Frame(clock + 2, "WriteTo", {"master"})
             w2 == Frame(clock + 3, "Location", locations \cup {a})
             w3 == Frame(clock + 4, "Channel", channels)
             w4 == Frame(clock + 5, "RequestStart", {})
             r  == Frame(clock + 1, "Register", {a})
  <1>5. Welcome(a, clock + 1) = <<w1, w2, w3, w4>>
    <2>1. clock + 1 + 1 = clock + 2 /\ clock + 1 + 2 = clock + 3 /\ clock + 1 + 3 = clock + 4
          /\ clock + 1 + 4 = clock + 5
      BY <1>2
    <2> QED BY <2>1 DEF Welcome
  <1>6. {a} \subseteq App /\ locations \cup {a} \subseteq App /\ channels \subseteq Channel
    BY <1>1 DEF IMaster
  <1>7. clock + 1 \in Nat /\ clock + 2 \in Nat /\ clock + 3 \in Nat /\ clock + 4 \in Nat
        /\ clock + 5 \in Nat
    BY <1>2
  <1>8. /\ r \in Rec /\ PublicRec(r) /\ r.gen = clock + 1
        /\ w1 \in Rec /\ CommandRec(w1) /\ w1.gen = clock + 2 /\ ToMaster(w1)
        /\ w2 \in Rec /\ CommandRec(w2) /\ w2.gen = clock + 3
        /\ w3 \in Rec /\ CommandRec(w3) /\ w3.gen = clock + 4
        /\ w4 \in Rec /\ CommandRec(w4) /\ w4.gen = clock + 5
    <2>1. r \in Rec /\ PublicRec(r) /\ r.gen = clock + 1 BY <1>6, <1>7, PlaceFrame
    <2>2. w1 \in Rec /\ CommandRec(w1) /\ w1.gen = clock + 2 /\ ToMaster(w1) BY <1>6, <1>7, MasterFrame
    <2>3. w2 \in Rec /\ CommandRec(w2) /\ w2.gen = clock + 3 BY <1>6, <1>7, OrderFrame
    <2>4. w3 \in Rec /\ CommandRec(w3) /\ w3.gen = clock + 4 BY <1>6, <1>7, ChannelFrame
    <2>5. w4 \in Rec /\ CommandRec(w4) /\ w4.gen = clock + 5 BY <1>6, <1>7, PlainFrame
    <2> QED BY <2>1, <2>2, <2>3, <2>4, <2>5
  <1> HIDE DEF w1, w2, w3, w4, r
  <1>9. /\ Len(public') = n + 1 /\ public'[n + 1] = r /\ n \in Nat
        /\ Grown(public, public', clock, clock')
    <2>1. public' = Append(public, r) BY <1>2 DEF r
    <2>2. r.gen \in clock + 1 .. clock' /\ clock' \in Nat BY <1>2, <1>8
    <2>3. Grown(public, public', clock, clock') BY <2>1, <2>2, <1>2, <1>3, <1>8, OneWritten
    <2>4. /\ Len(Append(public, r)) = Len(public) + 1 /\ Append(public, r)[Len(public) + 1] = r
          /\ Len(public) \in Nat
      BY <1>3, <1>8, Appended
    <2> QED BY <2>1, <2>3, <2>4
  <1>10. /\ m \in Nat /\ Len(commands'[a]) = m + 4
         /\ commands'[a][m + 1] = w1 /\ commands'[a][m + 2] = w2
         /\ commands'[a][m + 3] = w3 /\ commands'[a][m + 4] = w4
         /\ \A i \in m + 1 .. Len(commands'[a]) : commands'[a][i] \in {w1, w2, w3, w4}
         /\ Grown(commands[a], commands'[a], clock, clock')
    <2>1. /\ commands[a] \in Seq(Rec) /\ commands'[a] = commands[a] \o <<w1, w2, w3, w4>>
          /\ clock \in Nat
      BY <1>1, <1>2, <1>3, <1>4, <1>5
    <2>2. /\ w1 \in Rec /\ w2 \in Rec /\ w3 \in Rec /\ w4 \in Rec
          /\ w1.gen = clock + 2 /\ w2.gen = clock + 3 /\ w3.gen = clock + 4 /\ w4.gen = clock + 5
      BY <1>8
    <2>3. /\ commands'[a] \in Seq(Rec) /\ Len(commands[a]) \in Nat
          /\ Len(commands'[a]) = Len(commands[a]) + 4
          /\ \A k \in 1 .. Len(commands[a]) : commands'[a][k] = commands[a][k]
          /\ commands'[a][Len(commands[a]) + 1] = w1 /\ commands'[a][Len(commands[a]) + 2] = w2
          /\ commands'[a][Len(commands[a]) + 3] = w3 /\ commands'[a][Len(commands[a]) + 4] = w4
      <3> DEFINE J == commands[a]
                 K == commands'[a]
      <3>1. J \in Seq(Rec) /\ K = J \o <<w1, w2, w3, w4>> BY <2>1
      <3> HIDE DEF J, K
      <3>2. /\ K \in Seq(Rec) /\ Len(J) \in Nat /\ Len(K) = Len(J) + 4
            /\ \A k \in 1 .. Len(J) : K[k] = J[k]
            /\ K[Len(J) + 1] = w1 /\ K[Len(J) + 2] = w2
            /\ K[Len(J) + 3] = w3 /\ K[Len(J) + 4] = w4
        BY <2>2, <3>1, FourMore
      <3> QED BY <3>2 DEF J, K
    <2>4. clock \in Nat /\ clock' = clock + 5 /\ commands[a] \in Seq(Rec) BY <1>1, <1>2, <1>3
    <2>5. /\ Grown(commands[a], commands'[a], clock, clock + 5)
          /\ \A i \in m + 1 .. m + 4 : i = m + 1 \/ i = m + 2 \/ i = m + 3 \/ i = m + 4
      <3>1. commands'[a][Len(commands[a]) + 1].gen = clock + 2 BY <2>2, <2>3, Zenon
      <3>2. commands'[a][Len(commands[a]) + 2].gen = clock + 3 BY <2>2, <2>3, Zenon
      <3>3. commands'[a][Len(commands[a]) + 3].gen = clock + 4 BY <2>2, <2>3, Zenon
      <3>4. commands'[a][Len(commands[a]) + 4].gen = clock + 5 BY <2>2, <2>3, Zenon
      <3> QED BY <2>3, <2>4, <3>1, <3>2, <3>3, <3>4, FourWritten, Zenon
    <2>6. \A i \in m + 1 .. Len(commands'[a]) : commands'[a][i] \in {w1, w2, w3, w4}
      BY <2>3, <2>5, Zenon
    <2> QED BY <2>3, <2>4, <2>5, <2>6
  <1>13. Wrote
    <2>1. \A b \in App : Grown(commands[b], commands'[b], clock, clock')
      BY <1>2, <1>3, <1>4, <1>7, <1>10, Unwritten
    <2> QED BY <2>1, <1>2, <1>4, <1>7, <1>9 DEF Wrote
  <1>14. IFrames'
    <2>1. \A i \in Len(public) + 1 .. Len(public') : PublicRec(public'[i])
      BY <1>8, <1>9
    <2>2. ASSUME NEW b \in App
          PROVE  \A i \in Len(commands[b]) + 1 .. Len(commands'[b]) : CommandRec(commands'[b][i])
      <3>1. CASE b # a
        <4>1. commands'[b] = commands[b] /\ Len(commands[b]) \in Nat BY <3>1, <1>3, <1>4
        <4> QED BY <4>1
      <3>2. CASE b = a BY <3>2, <1>8, <1>10
      <3> QED BY <3>1, <3>2
    <2> QED BY <1>13, <2>1, <2>2, WroteFrames
  <1>15. ToMaster(commands'[a][m + 1]) /\ commands'[a][m + 1].gen = clock + 2 BY <1>8, <1>10
  <1> QED BY <1>1, <1>2, <1>4, <1>9, <1>10, <1>13, <1>14, <1>15 DEF w1, w2, w3, w4, r, RegisterWrites

LEMMA ConnectFrames ==
    ASSUME IMaster, IFrames, NEW s \in App, NEW d \in App, s # d, Connect(s, d)
    PROVE  Wrote /\ IFrames'
  <1> DEFINE w == Frame(clock + 1, "WriteTo", {d})
             r == Frame(clock + 2, "ReadFrom", {s})
             c == Frame(clock + 3, "Channel", {[source |-> s, dest |-> d]})
             told == [commands EXCEPT ![s] = Append(commands[s], w)]
  <1>1. clock \in Nat /\ clock' = clock + 3 /\ DOMAIN commands = App BY DEF IMaster, Connect
  <1>2. /\ commands' = [told EXCEPT ![d] = Append(told[d], r)]
        /\ public' = Append(public, c) /\ channels' = channels \cup {[source |-> s, dest |-> d]}
    BY DEF Connect
  <1>3. public \in Seq(Rec) /\ \A b \in App : commands[b] \in Seq(Rec) BY DEF IFrames, Journal
  <1>4. {d} \subseteq App /\ {s} \subseteq App /\ {[source |-> s, dest |-> d]} \subseteq Channel
    BY DEF Channel
  <1>5. clock + 1 \in Nat /\ clock + 2 \in Nat /\ clock + 3 \in Nat BY <1>1
  <1>6. /\ w \in Rec /\ CommandRec(w) /\ w.gen = clock + 1
        /\ r \in Rec /\ CommandRec(r) /\ r.gen = clock + 2
        /\ c \in Rec /\ PublicRec(c) /\ c.gen = clock + 3
    BY <1>4, <1>5, OrderFrame, ChannelFrame
  <1> HIDE DEF w, r, c
  <1>7. /\ DOMAIN commands' = App
        /\ commands'[s] = Append(commands[s], w) /\ commands'[d] = Append(commands[d], r)
        /\ \A b \in App : b # s /\ b # d => commands'[b] = commands[b]
    BY <1>1, <1>2
  <1> HIDE DEF told
  <1>8. w.gen \in clock + 1 .. clock' /\ r.gen \in clock + 1 .. clock'
        /\ c.gen \in clock + 1 .. clock' /\ clock' \in Nat
    BY <1>1, <1>6
  <1>9. Wrote
    <2>1. Grown(public, public', clock, clock') BY <1>1, <1>2, <1>3, <1>6, <1>8, OneWritten
    <2>2. ASSUME NEW b \in App PROVE Grown(commands[b], commands'[b], clock, clock')
      <3>1. CASE b = s BY <3>1, <1>1, <1>3, <1>6, <1>7, <1>8, OneWritten
      <3>2. CASE b = d BY <3>2, <1>1, <1>3, <1>6, <1>7, <1>8, OneWritten
      <3>3. CASE b # s /\ b # d BY <3>3, <1>1, <1>3, <1>7, <1>8, Unwritten
      <3> QED BY <3>1, <3>2, <3>3
    <2> QED BY <1>1, <1>7, <1>8, <2>1, <2>2 DEF Wrote
  <1>10. IFrames'
    <2>1. \A i \in Len(public) + 1 .. Len(public') : PublicRec(public'[i])
      <3>1. Len(public) \in Nat /\ Len(public') = Len(public) + 1 /\ public'[Len(public) + 1] = c
        BY <1>2, <1>3, <1>6, Appended
      <3> QED BY <3>1, <1>6
    <2>2. ASSUME NEW b \in App
          PROVE  \A i \in Len(commands[b]) + 1 .. Len(commands'[b]) : CommandRec(commands'[b][i])
      <3>1. ASSUME NEW f \in Rec, CommandRec(f), commands'[b] = Append(commands[b], f)
            PROVE  \A i \in Len(commands[b]) + 1 .. Len(commands'[b]) : CommandRec(commands'[b][i])
        <4>1. /\ Len(commands[b]) \in Nat /\ Len(commands'[b]) = Len(commands[b]) + 1
              /\ commands'[b][Len(commands[b]) + 1] = f
          BY <1>3, <3>1, Appended
        <4> QED BY <4>1, <3>1
      <3>2. CASE b = s BY <3>1, <3>2, <1>6, <1>7
      <3>3. CASE b = d BY <3>1, <3>3, <1>6, <1>7
      <3>4. CASE b # s /\ b # d
        <4>1. commands'[b] = commands[b] /\ Len(commands[b]) \in Nat BY <3>4, <1>3, <1>7
        <4> QED BY <4>1
      <3> QED BY <3>2, <3>3, <3>4
    <2> QED BY <1>9, <2>1, <2>2, WroteFrames
  <1> QED BY <1>9, <1>10

LEMMA OneMore ==
    ASSUME NEW J \in Seq(Rec), NEW f \in Rec, NEW K, K = Append(J, f)
    PROVE  \A i \in Len(J) + 1 .. Len(K) : K[i] = f
  <1>1. Len(J) \in Nat /\ Len(K) = Len(J) + 1 /\ K[Len(J) + 1] = f BY Appended
  <1> QED BY <1>1

LEMMA RequestIs ==
    ASSUME IMaster, NEW a \in App, requests[a] # <<>>
    PROVE  LET r == Head(requests[a]) IN
           r \in Req /\ r.typ \in Request /\ r.peer \in App /\ r.peer # a
  <1>1. requests[a] \in Seq(Req) BY DEF IMaster
  <1>2. Head(requests[a]) = requests[a][1] /\ requests[a][1] \in Req /\ 1 \in 1 .. Len(requests[a])
    BY <1>1, Tailed
  <1> QED BY <1>2 DEF Req, IMaster

(* What react writes names locations that are registered. *)
LEMMA HandleFrames ==
    ASSUME IMaster, IFrames, ITracked, NEW a \in App, HandleRequest(a)
    PROVE  /\ Wrote /\ IFrames'
           /\ channels' \subseteq Channel /\ \A c \in channels' : c.source \in locations
           /\ \A b \in App : \A i \in Len(commands[b]) + 1 .. Len(commands'[b]) :
                 /\ commands'[b][i].typ \in {"WriteTo", "ReadFrom", "ReadFromPublic"}
                 /\ commands'[b][i].arg \subseteq locations
           /\ \A i \in Len(public) + 1 .. Len(public') : public'[i].typ = "Channel"
  <1> DEFINE r == Head(requests[a])
  <1>1. r.peer \in App /\ r.peer # a /\ requests[a] # <<>> BY RequestIs DEF HandleRequest
  <1>2. a \in locations /\ locations \subseteq App BY <1>1 DEF ITracked, IMaster
  <1>3. public \in Seq(Rec) /\ \A b \in App : commands[b] \in Seq(Rec) BY DEF IFrames, Journal
  <1>4. clock \in Nat /\ channels \subseteq Channel /\ \A c \in channels : c.source \in locations
    BY DEF IMaster, ITracked
  <1>5. \/ r.peer \notin locations /\ UNCHANGED <<channels, public, commands, clock>>
        \/ r.peer \in locations /\ Connect(a, r.peer)
        \/ r.peer \in locations /\ Connect(r.peer, a)
        \/ /\ r.peer \in locations
           /\ commands' = [commands EXCEPT ![a] =
                              Append(commands[a], Frame(clock + 1, "ReadFromPublic", {r.peer}))]
           /\ clock' = clock + 1
           /\ UNCHANGED <<channels, public>>
    BY DEF HandleRequest
  <1> HIDE DEF r
  <1>6. CASE UNCHANGED <<channels, public, commands, clock>>
    <2>1. Wrote
      <3>1. Grown(public, public', clock, clock') BY <1>3, <1>4, <1>6, Unwritten
      <3>2. \A b \in App : Grown(commands[b], commands'[b], clock, clock')
        BY <1>3, <1>4, <1>6, Unwritten
      <3> QED BY <3>1, <3>2, <1>4, <1>6 DEF Wrote, IMaster
    <2>2. IFrames' BY <1>6 DEF IFrames
    <2>3. Len(public) \in Nat /\ \A b \in App : Len(commands[b]) \in Nat BY <1>3
    <2>4. \A b \in App : Len(commands'[b]) = Len(commands[b]) BY <1>6
    <2> QED BY <2>1, <2>2, <2>3, <2>4, <1>4, <1>6
  <1>7. ASSUME NEW s \in App, NEW d \in App, s # d, s \in locations, d \in locations, Connect(s, d)
        PROVE  /\ Wrote /\ IFrames'
               /\ channels' \subseteq Channel /\ \A c \in channels' : c.source \in locations
               /\ \A b \in App : \A i \in Len(commands[b]) + 1 .. Len(commands'[b]) :
                     /\ commands'[b][i].typ \in {"WriteTo", "ReadFrom", "ReadFromPublic"}
                     /\ commands'[b][i].arg \subseteq locations
               /\ \A i \in Len(public) + 1 .. Len(public') : public'[i].typ = "Channel"
    <2> DEFINE w == Frame(clock + 1, "WriteTo", {d})
               f == Frame(clock + 2, "ReadFrom", {s})
               c == Frame(clock + 3, "Channel", {[source |-> s, dest |-> d]})
    <2>1. /\ commands'[s] = Append(commands[s], w) /\ commands'[d] = Append(commands[d], f)
          /\ \A b \in App : b # s /\ b # d => commands'[b] = commands[b]
          /\ public' = Append(public, c)
          /\ channels' = channels \cup {[source |-> s, dest |-> d]}
          /\ Wrote /\ IFrames'
      <3>1. Wrote /\ IFrames' BY <1>7, ConnectFrames
      <3>2. /\ commands' = [[commands EXCEPT ![s] = Append(commands[s], w)] EXCEPT ![d] =
                               Append([commands EXCEPT ![s] = Append(commands[s], w)][d], f)]
            /\ public' = Append(public, c)
            /\ channels' = channels \cup {[source |-> s, dest |-> d]}
        BY <1>7 DEF Connect
      <3>3. DOMAIN commands = App BY DEF IMaster
      <3> HIDE DEF w, f, c
      <3>4. commands'[s] = Append(commands[s], w) /\ commands'[d] = Append(commands[d], f)
        BY <3>2, <3>3, <1>7
      <3>5. \A b \in App : b # s /\ b # d => commands'[b] = commands[b]
        BY <3>2, <3>3
      <3> QED BY <3>1, <3>2, <3>4, <3>5
    <2>2. /\ w \in Rec /\ w.typ = "WriteTo" /\ w.arg = {d}
          /\ f \in Rec /\ f.typ = "ReadFrom" /\ f.arg = {s}
          /\ c \in Rec /\ c.typ = "Channel"
      <3>1. clock + 1 \in Nat /\ clock + 2 \in Nat /\ clock + 3 \in Nat BY <1>4
      <3>2. {d} \subseteq App /\ {s} \subseteq App /\ {[source |-> s, dest |-> d]} \subseteq Channel
        BY DEF Channel
      <3> QED BY <3>1, <3>2, OrderFrame, ChannelFrame
    <2> HIDE DEF w, f, c
    <2>3. channels' \subseteq Channel /\ \A x \in channels' : x.source \in locations
      BY <2>1, <1>4, <1>7 DEF Channel
    <2>4. \A i \in Len(public) + 1 .. Len(public') : public'[i].typ = "Channel"
      BY <2>1, <2>2, <1>3, OneMore
    <2>5. ASSUME NEW b \in App, NEW i \in Len(commands[b]) + 1 .. Len(commands'[b])
          PROVE  /\ commands'[b][i].typ \in {"WriteTo", "ReadFrom", "ReadFromPublic"}
                 /\ commands'[b][i].arg \subseteq locations
      <3>1. CASE b = s
        <4>1. commands'[b][i] = w BY <3>1, <2>1, <2>2, <1>3, OneMore
        <4> QED BY <4>1, <2>2, <1>7
      <3>2. CASE b = d
        <4>1. commands'[b][i] = f BY <3>2, <2>1, <2>2, <1>3, OneMore
        <4> QED BY <4>1, <2>2, <1>7
      <3>3. CASE b # s /\ b # d
        <4>1. commands'[b] = commands[b] /\ Len(commands[b]) \in Nat BY <3>3, <2>1, <1>3
        <4> QED BY <4>1
      <3> QED BY <3>1, <3>2, <3>3
    <2> QED BY <2>1, <2>3, <2>4, <2>5
  <1>8. CASE r.peer \in locations /\ Connect(a, r.peer) BY <1>1, <1>2, <1>7, <1>8
  <1>9. CASE r.peer \in locations /\ Connect(r.peer, a) BY <1>1, <1>2, <1>7, <1>9
  <1>10. CASE /\ r.peer \in locations
              /\ commands' = [commands EXCEPT ![a] =
                                 Append(commands[a], Frame(clock + 1, "ReadFromPublic", {r.peer}))]
              /\ clock' = clock + 1
              /\ UNCHANGED <<channels, public>>
    <2> DEFINE f == Frame(clock + 1, "ReadFromPublic", {r.peer})
    <2>1. /\ f \in Rec /\ CommandRec(f) /\ f.gen = clock + 1
          /\ f.typ = "ReadFromPublic" /\ f.arg = {r.peer}
      <3>1. clock + 1 \in Nat /\ {r.peer} \subseteq App BY <1>1, <1>4
      <3> QED BY <3>1, OrderFrame
    <2>2. /\ commands'[a] = Append(commands[a], f) /\ DOMAIN commands' = App
          /\ \A b \in App : b # a => commands'[b] = commands[b]
          /\ clock' = clock + 1 /\ public' = public /\ channels' = channels
      BY <1>10 DEF IMaster
    <2> HIDE DEF f
    <2>3. clock' \in Nat /\ clock <= clock' /\ f.gen \in clock + 1 .. clock' BY <2>1, <2>2, <1>4
    <2>4. Wrote
      <3>1. Grown(public, public', clock, clock') BY <2>2, <2>3, <1>3, <1>4, Unwritten
      <3>2. ASSUME NEW b \in App PROVE Grown(commands[b], commands'[b], clock, clock')
        <4>1. CASE b = a BY <4>1, <2>1, <2>2, <2>3, <1>3, <1>4, OneWritten
        <4>2. CASE b # a BY <4>2, <2>2, <2>3, <1>3, <1>4, Unwritten
        <4> QED BY <4>1, <4>2
      <3> QED BY <3>1, <3>2, <2>2, <2>3 DEF Wrote
    <2>5. ASSUME NEW b \in App, NEW i \in Len(commands[b]) + 1 .. Len(commands'[b])
          PROVE  commands'[b][i] = f
      <3>1. CASE b = a BY <3>1, <2>1, <2>2, <1>3, OneMore
      <3>2. CASE b # a
        <4>1. commands'[b] = commands[b] /\ Len(commands[b]) \in Nat BY <3>2, <2>2, <1>3
        <4> QED BY <4>1
      <3> QED BY <3>1, <3>2
    <2>6. \A i \in Len(public) + 1 .. Len(public') : PublicRec(public'[i]) /\ public'[i].typ = "Channel"
      <3>1. Len(public) \in Nat BY <1>3
      <3> QED BY <3>1, <2>2
    <2>7. IFrames' BY <2>1, <2>4, <2>5, <2>6, WroteFrames
    <2>8. \A c \in channels' : c.source \in locations BY <2>2, <1>4
    <2>9. channels' \subseteq Channel BY <2>2, <1>4
    <2>10. ASSUME NEW b \in App, NEW i \in Len(commands[b]) + 1 .. Len(commands'[b])
           PROVE  /\ commands'[b][i].typ \in {"WriteTo", "ReadFrom", "ReadFromPublic"}
                  /\ commands'[b][i].arg \subseteq locations
      BY <2>1, <2>5, <1>10
    <2> QED BY <2>4, <2>6, <2>7, <2>8, <2>9, <2>10
  <1> QED BY <1>5, <1>6, <1>8, <1>9, <1>10

LEMMA EndFrames ==
    ASSUME IMaster, IFrames, IProcess, ITracked, NEW p \in Pid, DeregisterApp(p)
    PROVE  /\ app[p] \in App /\ app[p] \in locations /\ p \in tracked
           /\ commands'[app[p]] = Append(commands[app[p]], Frame(clock + 1, "SessionEnd", {}))
           /\ \A b \in App : b # app[p] => commands'[b] = commands[b]
           /\ public' = Append(public, Frame(clock + 2, "Deregister", {app[p]}))
           /\ clock' = clock + 2
           /\ Wrote /\ IFrames'
  <1> DEFINE a == app[p]
             f == Frame(clock + 1, "SessionEnd", {})
             g == Frame(clock + 2, "Deregister", {a})
  <1>1. p \in tracked /\ a \in App /\ a \in locations BY DEF DeregisterApp, ITracked, IProcess, ProcessOK
  <1>2. /\ commands' = [commands EXCEPT ![a] = Append(commands[a], f)]
        /\ public' = Append(public, g) /\ clock' = clock + 2 /\ clock \in Nat
    BY DEF DeregisterApp, IMaster
  <1>3. public \in Seq(Rec) /\ \A b \in App : commands[b] \in Seq(Rec) BY DEF IFrames, Journal
  <1>4. /\ f \in Rec /\ CommandRec(f) /\ f.gen = clock + 1
        /\ g \in Rec /\ PublicRec(g) /\ g.gen = clock + 2
    <2>1. clock + 1 \in Nat /\ clock + 2 \in Nat /\ {a} \subseteq App BY <1>1, <1>2
    <2> QED BY <2>1, PlaceFrame, PlainFrame
  <1> HIDE DEF f, g
  <1>5. /\ commands'[a] = Append(commands[a], f) /\ DOMAIN commands' = App
        /\ \A b \in App : b # a => commands'[b] = commands[b]
    BY <1>1, <1>2 DEF IMaster
  <1>6. /\ clock' \in Nat /\ clock <= clock' /\ clock \in Nat
        /\ f.gen \in clock + 1 .. clock' /\ g.gen \in clock + 1 .. clock'
    BY <1>2, <1>4
  <1>7. Wrote
    <2>1. Grown(public, public', clock, clock') BY <1>2, <1>3, <1>4, <1>6, OneWritten
    <2>2. ASSUME NEW b \in App PROVE Grown(commands[b], commands'[b], clock, clock')
      <3>1. CASE b = a BY <3>1, <1>3, <1>4, <1>5, <1>6, OneWritten
      <3>2. CASE b # a BY <3>2, <1>3, <1>5, <1>6, Unwritten
      <3> QED BY <3>1, <3>2
    <2> QED BY <2>1, <2>2, <1>5, <1>6 DEF Wrote
  <1>8. ASSUME NEW b \in App, NEW i \in Len(commands[b]) + 1 .. Len(commands'[b])
        PROVE  CommandRec(commands'[b][i])
    <2>1. CASE b = a
      <3>1. commands'[b][i] = f BY <2>1, <1>3, <1>4, <1>5, OneMore
      <3> QED BY <3>1, <1>4
    <2>2. CASE b # a
      <3>1. commands'[b] = commands[b] /\ Len(commands[b]) \in Nat BY <2>2, <1>3, <1>5
      <3> QED BY <3>1
    <2> QED BY <2>1, <2>2
  <1>9. ASSUME NEW i \in Len(public) + 1 .. Len(public') PROVE PublicRec(public'[i])
    <2>1. public'[i] = g BY <1>2, <1>3, <1>4, OneMore
    <2> QED BY <2>1, <1>4
  <1>10. IFrames' BY <1>7, <1>8, <1>9, WroteFrames
  <1> QED BY <1>1, <1>2, <1>5, <1>7, <1>10 DEF f, g

-----------------------------------------------------------------------------
(* The shape of the state. *)

Same(p) ==
    /\ app'[p] = app[p] /\ st'[p] = st[p] /\ pub'[p] = pub[p] /\ cmd'[p] = cmd[p]
    /\ stale'[p] = stale[p] /\ known'[p] = known[p] /\ links'[p] = links[p]
    /\ reads'[p] = reads[p] /\ writes'[p] = writes[p] /\ fresh'[p] = fresh[p]
    /\ hasty'[p] = hasty[p]

(* A process that does nothing is still right when the journals grow. *)
LEMMA ProcessStays ==
    ASSUME NEW p \in Pid, ProcessOK(p), Same(p), IFrames, Wrote
    PROVE  ProcessOK(p)'
  <1>1. Len(public) \in Nat /\ Len(public') \in Nat /\ Len(public) <= Len(public')
    BY DEF IFrames, Journal, Wrote, Grown
  <1>2. ASSUME st[p] # "none" PROVE cmd[p] <= Len(commands'[app[p]]) + 1
    <2>1. app[p] \in App /\ cmd[p] <= Len(commands[app[p]]) + 1 /\ cmd[p] \in Nat
      BY <1>2 DEF ProcessOK
    <2>2. /\ Len(commands[app[p]]) \in Nat /\ Len(commands'[app[p]]) \in Nat
          /\ Len(commands[app[p]]) <= Len(commands'[app[p]])
      BY <2>1 DEF IFrames, Journal, Wrote, Grown
    <2> QED BY <2>1, <2>2
  <1>3. pub[p] \in 1 .. Len(public') + 1 BY <1>1 DEF ProcessOK
  <1> QED BY <1>2, <1>3 DEF ProcessOK, Same, Alive

LEMMA Quiet ==
    ASSUME IMaster, IFrames, UNCHANGED <<public, commands, clock>>
    PROVE  Wrote /\ IFrames'
  <1>1. public \in Seq(Rec) /\ \A b \in App : commands[b] \in Seq(Rec) BY DEF IFrames, Journal
  <1>2. clock \in Nat /\ DOMAIN commands = App BY DEF IMaster
  <1>3. Grown(public, public', clock, clock') BY <1>1, <1>2, Unwritten
  <1>4. \A b \in App : Grown(commands[b], commands'[b], clock, clock') BY <1>1, <1>2, Unwritten
  <1>5. IFrames' BY DEF IFrames
  <1> QED BY <1>2, <1>3, <1>4, <1>5 DEF Wrote

LEMMA InitShape == Init => IShape
  <1> SUFFICES ASSUME Init PROVE IShape OBVIOUS
  <1>1. IMaster
    <2>1. inbox \in Seq(Pid) /\ Len(inbox) = 0 BY DEF Init
    <2>2. \A a \in App : requests[a] \in Seq(Req) /\ Len(requests[a]) = 0 BY DEF Init
    <2>3. asked \in 0 .. MaxRequest BY RegistrationAssumption DEF Init
    <2>4. Old \subseteq App BY RegistrationAssumption
    <2> QED BY <2>1, <2>2, <2>3, <2>4 DEF Init, IMaster
  <1>2. IFrames
    <2>1. ASSUME NEW J, J = <<>> PROVE Journal(J, 0) /\ Len(J) = 0
      <3>1. J \in Seq(Rec) /\ Len(J) = 0 BY <2>1
      <3> QED BY <3>1 DEF Journal, Rising
    <2> QED BY <2>1 DEF Init, IFrames
  <1>3. IDomains BY DEF Init, IDomains
  <1>4. ASSUME NEW p \in Pid PROVE ProcessOK(p)
    <2>1. /\ app[p] = NoApp /\ st[p] = "none" /\ pub[p] = 1 /\ cmd[p] = 0 /\ stale[p] = "none"
          /\ known[p] = {} /\ links[p] = {} /\ reads[p] = {} /\ writes[p] = {}
          /\ fresh[p] = FALSE /\ hasty[p] = FALSE /\ public = <<>>
      BY DEF Init
    <2>2. Len(public) = 0 BY <2>1
    <2>3. pub[p] \in 1 .. Len(public) + 1 /\ cmd[p] \in Nat BY <2>1, <2>2
    <2>4. /\ app[p] = NoApp /\ st[p] = "none" /\ cmd[p] = 0
          /\ known[p] = {} /\ links[p] = {} /\ reads[p] = {} /\ writes[p] = {}
          /\ fresh[p] \in BOOLEAN /\ hasty[p] \in BOOLEAN /\ stale[p] \in {"none", "public", "commands"}
      BY <2>1
    <2> QED BY <2>3, <2>4 DEF ProcessOK, Alive, Status
  <1> QED BY <1>1, <1>2, <1>3, <1>4 DEF IShape, IProcess

LEMMA ShapeRegister ==
    ASSUME IShape, ITracked, RegisterApp
    PROVE  IShape' /\ Wrote
  <1> USE DEF IShape
  <1>1. PICK p : p = Head(inbox) OBVIOUS
  <1>2. PICK a : a = app[p] OBVIOUS
  <1>3. p \in Pid /\ a \in App /\ Wrote /\ IFrames'
    <2>1. RegisterWrites(p, a, Len(public), Len(commands[a])) BY <1>1, <1>2, RegisterFrames
    <2> QED BY <2>1 DEF RegisterWrites
  <1>4. IDomains' BY DEF RegisterApp, pvars, IDomains
  <1>5. IProcess'
    <2>1. \A q \in Pid : Same(q) BY DEF RegisterApp, pvars, Same
    <2> QED BY <2>1, <1>3, ProcessStays DEF IProcess
  <1>6. IMaster'
    <2>1. inbox' \in Seq(Pid) /\ \A i \in 1 .. Len(inbox') : st'[inbox'[i]] # "none"
      <3>1. inbox \in Seq(Pid) /\ inbox # <<>> /\ inbox' = Tail(inbox) /\ st' = st
        BY DEF IMaster, RegisterApp, pvars
      <3>2. /\ inbox' \in Seq(Pid)
            /\ \A k \in 1 .. Len(inbox') : k + 1 \in 1 .. Len(inbox) /\ inbox'[k] = inbox[k + 1]
        BY <3>1, Tailed
      <3> QED BY <3>1, <3>2 DEF IMaster
    <2>2. /\ locations' = locations \cup {a} /\ files' = files \cup {a} /\ channels' = channels
          /\ tracked' = Track(p) /\ requests' = requests /\ asked' = asked
      BY <1>1, <1>2 DEF RegisterApp
    <2>3. tracked' \subseteq Pid BY <2>2, <1>3 DEF Track, IMaster
    <2>4. clock' \in Nat /\ DOMAIN commands' = App BY <1>3 DEF Wrote
    <2> QED BY <2>1, <2>2, <2>3, <2>4, <1>3 DEF IMaster
  <1> QED BY <1>3, <1>4, <1>5, <1>6

LEMMA ShapeRefuse ==
    ASSUME IShape, RefuseApp
    PROVE  IShape' /\ Wrote
  <1> USE DEF IShape
  <1>1. Wrote /\ IFrames' BY Quiet DEF RefuseApp
  <1>2. IDomains' BY DEF RefuseApp, pvars, IDomains
  <1>3. IProcess'
    <2>1. \A q \in Pid : Same(q) BY DEF RefuseApp, pvars, Same
    <2> QED BY <2>1, <1>1, ProcessStays DEF IProcess
  <1>4. IMaster'
    <2>1. inbox \in Seq(Pid) /\ inbox # <<>> /\ inbox' = Tail(inbox) /\ st' = st
      BY DEF IMaster, RefuseApp, pvars
    <2>2. /\ inbox' \in Seq(Pid)
          /\ \A k \in 1 .. Len(inbox') : k + 1 \in 1 .. Len(inbox) /\ inbox'[k] = inbox[k + 1]
      BY <2>1, Tailed
    <2>3. \A i \in 1 .. Len(inbox') : st'[inbox'[i]] # "none" BY <2>1, <2>2 DEF IMaster
    <2> QED BY <2>2, <2>3 DEF IMaster, RefuseApp
  <1> QED BY <1>1, <1>2, <1>3, <1>4

LEMMA ShapeHandle ==
    ASSUME IShape, ITracked, NEW a \in App, HandleRequest(a)
    PROVE  IShape' /\ Wrote
  <1> USE DEF IShape
  <1>1. Wrote /\ IFrames' /\ channels' \subseteq Channel BY HandleFrames
  <1>2. /\ requests[a] # <<>> /\ requests' = [requests EXCEPT ![a] = Tail(requests[a])]
        /\ UNCHANGED <<inbox, locations, files, tracked, asked, pvars>>
    BY DEF HandleRequest
  <1>3. IDomains' BY <1>2 DEF pvars, IDomains
  <1>4. IProcess'
    <2>1. \A q \in Pid : Same(q) BY <1>2 DEF pvars, Same
    <2> QED BY <2>1, <1>1, ProcessStays DEF IProcess
  <1>5. IMaster'
    <2>1. /\ DOMAIN requests' = App /\ requests'[a] = Tail(requests[a])
          /\ \A b \in App : b # a => requests'[b] = requests[b]
      BY <1>2 DEF IMaster
    <2>2. ASSUME NEW b \in App
          PROVE  requests'[b] \in Seq(Req) /\ \A i \in 1 .. Len(requests'[b]) : requests'[b][i].peer # b
      <3>1. CASE b # a BY <3>1, <2>1 DEF IMaster
      <3>2. CASE b = a
        <4>1. requests[a] \in Seq(Req) BY DEF IMaster
        <4>2. /\ requests'[a] \in Seq(Req)
              /\ \A k \in 1 .. Len(requests'[a]) :
                    k + 1 \in 1 .. Len(requests[a]) /\ requests'[a][k] = requests[a][k + 1]
          BY <4>1, <1>2, <2>1, Tailed
        <4> QED BY <3>2, <4>2 DEF IMaster
      <3> QED BY <3>1, <3>2
    <2>3. clock' \in Nat /\ DOMAIN commands' = App BY <1>1 DEF Wrote
    <2> QED BY <2>1, <2>2, <2>3, <1>1, <1>2 DEF IMaster, pvars
  <1> QED BY <1>1, <1>3, <1>4, <1>5

LEMMA ShapeDeregister ==
    ASSUME IShape, ITracked, NEW p \in Pid, DeregisterApp(p)
    PROVE  IShape' /\ Wrote
  <1> USE DEF IShape
  <1>1. Wrote /\ IFrames' /\ app[p] \in App BY EndFrames
  <1>2. /\ tracked' = tracked \ {p} /\ locations' = locations \ {app[p]}
        /\ channels' = channels \ ChannelsOf(channels, app[p])
        /\ requests' = [requests EXCEPT ![app[p]] = <<>>]
        /\ UNCHANGED <<inbox, files, asked, pvars>>
    BY DEF DeregisterApp
  <1>3. IDomains' BY <1>2 DEF pvars, IDomains
  <1>4. IProcess'
    <2>1. \A q \in Pid : Same(q) BY <1>2 DEF pvars, Same
    <2> QED BY <2>1, <1>1, ProcessStays DEF IProcess
  <1>5. IMaster'
    <2>1. DOMAIN requests' = App /\ \A b \in App : requests'[b] = IF b = app[p] THEN <<>> ELSE requests[b]
      BY <1>1, <1>2 DEF IMaster
    <2>2. ASSUME NEW b \in App
          PROVE  requests'[b] \in Seq(Req) /\ \A i \in 1 .. Len(requests'[b]) : requests'[b][i].peer # b
      <3>1. CASE b # app[p] BY <3>1, <2>1 DEF IMaster
      <3>2. CASE b = app[p]
        <4>1. requests'[b] = <<>> BY <3>2, <2>1
        <4>2. requests'[b] \in Seq(Req) /\ Len(requests'[b]) = 0 BY <4>1
        <4> QED BY <4>2
      <3> QED BY <3>1, <3>2
    <2>3. clock' \in Nat /\ DOMAIN commands' = App BY <1>1 DEF Wrote
    <2> QED BY <2>1, <2>2, <2>3, <1>2 DEF IMaster, pvars
  <1> QED BY <1>1, <1>3, <1>4, <1>5

LEMMA ShapeStart ==
    ASSUME IShape, NEW p \in Pid, NEW a \in App, Start(p, a)
    PROVE  IShape' /\ Wrote
  <1> USE DEF IShape
  <1>1. Wrote /\ IFrames' BY Quiet DEF Start
  <1>2. IDomains' BY DEF Start, IDomains
  <1>3. IProcess'
    <2>1. \A q \in Pid : q # p => Same(q) BY DEF Start, Same
    <2>2. /\ app'[p] = a /\ st'[p] = "waiting" /\ pub'[p] = Len(public) + 1
          /\ stale'[p] = stale[p] /\ hasty'[p] = hasty[p]
          /\ fresh'[p] \in BOOLEAN /\ cmd'[p] = cmd[p]
          /\ known'[p] = known[p] /\ links'[p] = links[p] /\ reads'[p] = reads[p]
          /\ writes'[p] = writes[p] /\ st[p] = "none" /\ public' = public /\ commands' = commands
      BY DEF Start, IDomains
    <2>3. /\ cmd[p] = 0 /\ known[p] = {} /\ links[p] = {} /\ reads[p] = {} /\ writes[p] = {}
          /\ stale[p] \in {"none", "public", "commands"} /\ hasty[p] \in BOOLEAN
      BY <2>2 DEF IProcess, ProcessOK
    <2>4. Len(public) \in Nat /\ Len(commands[a]) \in Nat /\ clock \in Nat
      BY DEF IFrames, Journal, IMaster
    <2>5. pub'[p] \in 1 .. Len(public') + 1 /\ cmd'[p] <= Len(commands'[app'[p]]) + 1
          /\ cmd'[p] \in Nat
      BY <2>2, <2>3, <2>4
    <2>6. ProcessOK(p)' BY <2>2, <2>3, <2>4, <2>5 DEF ProcessOK, Alive, Status
    <2> QED BY <2>1, <2>6, <1>1, ProcessStays DEF IProcess
  <1>4. IMaster'
    <2>1. inbox \in Seq(Pid) /\ inbox' = Append(inbox, p) BY DEF IMaster, Start
    <2>2. /\ inbox' \in Seq(Pid) /\ Len(inbox) \in Nat /\ Len(inbox') = Len(inbox) + 1
          /\ \A k \in 1 .. Len(inbox) : inbox'[k] = inbox[k]
          /\ inbox'[Len(inbox) + 1] = p
      BY <2>1, Appended
    <2>3. ASSUME NEW i \in 1 .. Len(inbox') PROVE st'[inbox'[i]] # "none"
      <3>1. CASE i = Len(inbox) + 1 BY <3>1, <2>2 DEF Start, IDomains
      <3>2. CASE i # Len(inbox) + 1
        <4>1. i \in 1 .. Len(inbox) BY <3>2, <2>2
        <4>2. inbox[i] \in Pid /\ st[inbox[i]] # "none" BY <4>1, <2>1 DEF IMaster
        <4>3. st[p] = "none" /\ st' = [st EXCEPT ![p] = "waiting"] BY DEF Start
        <4> QED BY <4>1, <4>2, <4>3, <2>2
      <3> QED BY <3>1, <3>2
    <2> QED BY <2>2, <2>3 DEF IMaster, Start
  <1> QED BY <1>1, <1>2, <1>3, <1>4

(* A process that is gone. *)
LEMMA ShapeGone ==
    ASSUME IShape, NEW p \in Pid, Die(p) \/ Timeout(p)
    PROVE  /\ IShape' /\ Wrote
           /\ Alive(p) /\ \E s \in {"dead", "stopped"} : st' = [st EXCEPT ![p] = s]
           /\ UNCHANGED <<mvars, requests, asked, app, pub, cmd, stale, known, links,
                          reads, writes, fresh, hasty>>
  <1> USE DEF IShape
  <1>1. UNCHANGED <<mvars, requests, asked, app, pub, cmd, stale, known, links,
                    reads, writes, fresh, hasty>>
    BY DEF Die, Timeout
  <1>2. PICK s \in {"dead", "stopped"} : st' = [st EXCEPT ![p] = s] BY DEF Die, Timeout
  <1>3. Alive(p) BY DEF Die, Timeout, Alive
  <1>4. Wrote /\ IFrames' BY <1>1, Quiet DEF mvars
  <1>5. IDomains' BY <1>1, <1>2 DEF IDomains
  <1>6. IProcess'
    <2>1. \A q \in Pid : q # p => Same(q) BY <1>1, <1>2 DEF Same
    <2>2. st'[p] = s /\ st[p] # "none" BY <1>2, <1>3 DEF IDomains, Alive
    <2>3. ProcessOK(p)' BY <2>2, <1>1 DEF IProcess, ProcessOK, Alive, Status, mvars
    <2> QED BY <2>1, <2>3, <1>4, ProcessStays DEF IProcess
  <1>7. IMaster'
    <2>1. ASSUME NEW i \in 1 .. Len(inbox) PROVE st'[inbox[i]] # "none"
      <3>1. inbox[i] \in Pid /\ st[inbox[i]] # "none" BY DEF IMaster
      <3> QED BY <3>1, <1>2
    <2> QED BY <2>1, <1>1 DEF IMaster, mvars
  <1> QED BY <1>1, <1>2, <1>3, <1>4, <1>5, <1>6, <1>7

LEMMA ShapeRequest ==
    ASSUME IShape, NEW p \in Pid, NEW t \in Request, NEW peer \in App, AppRequest(p, t, peer)
    PROVE  IShape' /\ Wrote
  <1> USE DEF IShape
  <1>1. UNCHANGED <<mvars, pvars>> BY DEF AppRequest
  <1>2. Wrote /\ IFrames' BY <1>1, Quiet DEF mvars
  <1>3. IDomains' BY <1>1 DEF IDomains, pvars
  <1>4. IProcess'
    <2>1. \A q \in Pid : Same(q) BY <1>1 DEF Same, pvars
    <2> QED BY <2>1, <1>2, ProcessStays DEF IProcess
  <1>5. IMaster'
    <2> DEFINE r == [typ |-> t, peer |-> peer]
    <2>1. app[p] \in App /\ peer # app[p] /\ peer \in App
      BY DEF AppRequest, Alive, IProcess, ProcessOK
    <2>2. r \in Req /\ r.peer = peer BY DEF Req
    <2>3. /\ requests' = [requests EXCEPT ![app[p]] = Append(requests[app[p]], r)]
          /\ asked' = asked + 1 /\ asked < MaxRequest
      BY DEF AppRequest
    <2> HIDE DEF r
    <2>4. /\ DOMAIN requests' = App /\ requests'[app[p]] = Append(requests[app[p]], r)
          /\ \A b \in App : b # app[p] => requests'[b] = requests[b]
      BY <2>1, <2>3 DEF IMaster
    <2>5. ASSUME NEW b \in App
          PROVE  requests'[b] \in Seq(Req) /\ \A i \in 1 .. Len(requests'[b]) : requests'[b][i].peer # b
      <3>1. CASE b # app[p] BY <3>1, <2>4 DEF IMaster
      <3>2. CASE b = app[p]
        <4>1. requests[b] \in Seq(Req) /\ requests'[b] = Append(requests[b], r)
          BY <3>2, <2>4 DEF IMaster
        <4>2. /\ requests'[b] \in Seq(Req) /\ Len(requests[b]) \in Nat
              /\ Len(requests'[b]) = Len(requests[b]) + 1
              /\ \A k \in 1 .. Len(requests[b]) : requests'[b][k] = requests[b][k]
              /\ requests'[b][Len(requests[b]) + 1] = r
          BY <4>1, <2>2, Appended
        <4>3. \A k \in 1 .. Len(requests[b]) : requests[b][k].peer # b BY DEF IMaster
        <4>4. r.peer # b BY <2>1, <2>2, <3>2
        <4>5. \A i \in 1 .. Len(requests'[b]) : i \in 1 .. Len(requests[b]) \/ i = Len(requests[b]) + 1
          BY <4>2
        <4> QED BY <4>2, <4>3, <4>4, <4>5
      <3> QED BY <3>1, <3>2
    <2>6. asked' \in 0 .. MaxRequest BY <2>3, RegistrationAssumption DEF IMaster
    <2> QED BY <2>4, <2>5, <2>6, <1>1 DEF IMaster, mvars, pvars
  <1> QED BY <1>2, <1>3, <1>4, <1>5

(* What a process does with a frame: the others stay as they are, and so   *)
(* does the master.                                                        *)
(* What reading a frame of the public journal does to the process. *)
PublicRead(p, f) ==
    /\ IShape' /\ Wrote /\ f \in Rec /\ PublicRec(f) /\ f.gen \in 1 .. clock
    /\ Alive(p) /\ app[p] \in App /\ pub[p] \in 1 .. Len(public) /\ pub'[p] = pub[p] + 1
    /\ \A q \in Pid : q # p => Same(q)
    /\ app' = app /\ fresh' = fresh /\ writes' = writes /\ (hasty[p] => hasty'[p])
    /\ ~hasty'[p] => ~SkipsCommand(p, f)
    /\ f.typ # "Register" => st' = st /\ cmd' = cmd
    /\ st[p] # "waiting" => st' = st /\ cmd' = cmd
    /\ st[p] = "waiting" /\ f.typ = "Register" =>
         /\ st'[p] = (IF app[p] \in files THEN "joined" ELSE "fault")
         /\ cmd'[p] \in 1 .. Len(commands[app[p]]) + 1
         /\ \A i \in 1 .. Len(commands[app[p]]) :
              i >= cmd'[p] <=> Com(p, i).gen > f.gen
    /\ known'[p] = CASE f.typ = "Register" -> known[p] \cup f.arg
                     [] f.typ = "Deregister" -> known[p] \ f.arg
                     [] f.typ = "Channel" -> known[p]
    /\ links'[p] = CASE f.typ = "Register" -> links[p]
                     [] f.typ = "Deregister" -> {c \in links[p] : c.source \notin f.arg}
                     [] f.typ = "Channel" -> links[p] \cup f.arg
    /\ reads'[p] = CASE f.typ = "Deregister" -> {r \in reads[p] : r[1] \notin f.arg}
                     [] OTHER -> reads[p]

LEMMA ShapePublic ==
    ASSUME IShape, NEW p \in Pid, ReadPublic(p), NEW f, f = public[pub[p]]
    PROVE  PublicRead(p, f)
  <1> USE DEF IShape
  <1>1. /\ Alive(p) /\ pub[p] <= Len(public) /\ app' = app /\ fresh' = fresh /\ writes' = writes
        /\ pub' = [pub EXCEPT ![p] = pub[p] + 1]
        /\ hasty' = [hasty EXCEPT ![p] = hasty[p] \/ SkipsCommand(p, f)]
        /\ \E s \in {"none", "public", "commands"} : stale' = [stale EXCEPT ![p] = s]
        /\ UNCHANGED <<mvars, requests, asked>>
        /\ \/ f.typ = "Register" /\ OnRegister(p, f)
           \/ f.typ = "Deregister" /\ OnDeregister(p, f)
           \/ f.typ = "Channel" /\ OnChannel(p, f) /\ UNCHANGED <<st, cmd>>
    BY DEF ReadPublic, PublicFrame, HasPublic, Left
  <1>2. /\ app[p] \in App /\ pub[p] \in 1 .. Len(public)
    <2>1. st[p] # "none" BY <1>1 DEF Alive
    <2>2. Len(public) \in Nat BY DEF IFrames, Journal
    <2> QED BY <1>1, <2>1, <2>2 DEF IProcess, ProcessOK
  <1>3. f \in Rec /\ PublicRec(f) /\ f.gen \in 1 .. clock BY <1>2 DEF IFrames, Journal
  <1>4. Wrote /\ IFrames' BY <1>1, Quiet DEF mvars
  <1>5. ASSUME NEW q \in Pid, q # p PROVE Same(q)
    <2>1. CASE f.typ = "Register" /\ OnRegister(p, f)
      <3>1. known'[q] = known[q] /\ links' = links /\ reads' = reads
        BY <1>5, <2>1 DEF OnRegister
      <3>2. \/ UNCHANGED <<st, cmd>>
            \/ /\ st' = [st EXCEPT ![p] = IF app[p] \in files THEN "joined" ELSE "fault"]
               /\ cmd' = [cmd EXCEPT ![p] = SeekCommands(app[p], f.gen)]
        BY <2>1 DEF OnRegister
      <3>3. st'[q] = st[q] /\ cmd'[q] = cmd[q] BY <1>5, <3>2
        DEF IDomains
      <3> QED BY <3>1, <3>3, <1>1, <1>5 DEF Same
    <2>2. CASE f.typ = "Deregister" /\ OnDeregister(p, f)
      BY <1>1, <1>5, <2>2 DEF Same, OnDeregister
    <2>3. CASE f.typ = "Channel" /\ OnChannel(p, f) /\ UNCHANGED <<st, cmd>>
      BY <1>1, <1>5, <2>3 DEF Same, OnChannel
    <2> QED BY <1>1, <2>1, <2>2, <2>3
  <1>6. IDomains' BY <1>1 DEF IDomains, OnRegister, OnDeregister, OnChannel
  <1>7. f.typ # "Register" => st' = st /\ cmd' = cmd
    BY <1>1 DEF OnDeregister
  <1>8. st[p] # "waiting" => st' = st /\ cmd' = cmd
    BY <1>1 DEF OnRegister, OnDeregister
  <1>9. ASSUME st[p] = "waiting", f.typ = "Register"
        PROVE  /\ st'[p] = (IF app[p] \in files THEN "joined" ELSE "fault")
               /\ cmd'[p] \in 1 .. Len(commands[app[p]]) + 1
               /\ \A i \in 1 .. Len(commands[app[p]]) : i >= cmd'[p] <=> Com(p, i).gen > f.gen
    <2>1. /\ st' = [st EXCEPT ![p] = IF app[p] \in files THEN "joined" ELSE "fault"]
          /\ cmd' = [cmd EXCEPT ![p] = SeekCommands(app[p], f.gen)]
      BY <1>1, <1>9 DEF OnRegister
    <2>2. cmd'[p] = 1 + Cardinality({i \in 1 .. Len(commands[app[p]]) :
                                        commands[app[p]][i].gen <= f.gen})
      BY <2>1 DEF SeekCommands, IDomains
    <2>3. commands[app[p]] \in Seq(Rec) /\ Rising(commands[app[p]]) /\ f.gen \in Nat
      BY <1>2, <1>3 DEF IFrames, Journal
    <2>4. /\ cmd'[p] \in 1 .. Len(commands[app[p]]) + 1
          /\ \A i \in 1 .. Len(commands[app[p]]) : i >= cmd'[p] <=> commands[app[p]][i].gen > f.gen
      BY <2>2, <2>3, Sought
    <2> QED BY <2>1, <2>4 DEF IDomains, Com
  <1>10. known'[p] = CASE f.typ = "Register" -> known[p] \cup f.arg
                       [] f.typ = "Deregister" -> known[p] \ f.arg
                       [] f.typ = "Channel" -> known[p]
    BY <1>1 DEF IDomains, OnRegister, OnDeregister, OnChannel
  <1>11. links'[p] = CASE f.typ = "Register" -> links[p]
                       [] f.typ = "Deregister" -> {c \in links[p] : c.source \notin f.arg}
                       [] f.typ = "Channel" -> links[p] \cup f.arg
    BY <1>1 DEF IDomains, OnRegister, OnDeregister, OnChannel
  <1>12. reads'[p] = CASE f.typ = "Deregister" -> {r \in reads[p] : r[1] \notin f.arg}
                       [] OTHER -> reads[p]
    BY <1>1 DEF IDomains, OnRegister, OnDeregister, OnChannel
  <1>13. /\ pub'[p] = pub[p] + 1 /\ stale'[p] \in {"none", "public", "commands"}
         /\ hasty'[p] = (hasty[p] \/ SkipsCommand(p, f))
    BY <1>1 DEF IDomains
  <1>14. ProcessOK(p)'
    <2>1. ProcessOK(p) BY DEF IProcess
    <2>2. known'[p] \subseteq App /\ links'[p] \subseteq Channel
      <3>1. f.typ \in {"Register", "Deregister", "Channel"} BY <1>3 DEF PublicRec
      <3>2. f.typ # "Channel" => f.arg \subseteq App BY <1>3 DEF PublicRec
      <3>3. f.typ = "Channel" => f.arg \subseteq Channel BY <1>3 DEF PublicRec
      <3> QED BY <2>1, <3>1, <3>2, <3>3, <1>10, <1>11 DEF ProcessOK
    <2>3. reads'[p] \subseteq App \X BOOLEAN BY <2>1, <1>12 DEF ProcessOK
    <2>4. pub'[p] \in 1 .. Len(public') + 1
      <3>1. Len(public) \in Nat /\ public' = public BY <1>1 DEF IFrames, Journal, mvars
      <3> QED BY <3>1, <1>2, <1>13
    <2>5. stale'[p] \in {"none", "public", "commands"} /\ hasty'[p] \in BOOLEAN
      BY <1>13, Zenon
    <2>6. /\ st'[p] \in Status /\ st'[p] # "none" /\ cmd'[p] \in Nat
          /\ cmd'[p] <= Len(commands'[app'[p]]) + 1
          /\ Alive(p)' => (st'[p] = "waiting" <=> cmd'[p] = 0)
      <3>1. Len(commands[app[p]]) \in Nat /\ commands' = commands
        BY <1>1, <1>2 DEF IFrames, Journal, mvars
      <3>2. CASE st' = st /\ cmd' = cmd BY <3>1, <3>2, <2>1, <1>1 DEF ProcessOK, Alive
      <3>3. CASE st[p] = "waiting" /\ f.typ = "Register"
        <4>1. cmd'[p] \in Nat /\ cmd'[p] # 0 /\ cmd'[p] <= Len(commands'[app'[p]]) + 1
          BY <3>1, <3>3, <1>1, <1>9
        <4>2. st'[p] \in {"joined", "fault"} BY <3>3, <1>9
        <4> QED BY <4>1, <4>2 DEF Status
      <3> QED BY <3>2, <3>3, <1>7, <1>8
    <2> QED BY <2>1, <2>2, <2>3, <2>4, <2>5, <2>6, <1>1, <1>2 DEF ProcessOK
  <1>15. IProcess' BY <1>4, <1>5, <1>14, ProcessStays DEF IProcess
  <1>16. IMaster'
    <2>1. ASSUME NEW i \in 1 .. Len(inbox) PROVE st'[inbox[i]] # "none"
      <3>1. inbox[i] \in Pid /\ st[inbox[i]] # "none" BY DEF IMaster
      <3>2. st'[p] # "none" BY <1>1, <1>7, <1>8, <1>9 DEF Alive
      <3> QED BY <3>1, <3>2, <1>5 DEF Same
    <2> QED BY <2>1, <1>1 DEF IMaster, mvars
  <1> QED BY <1>1, <1>2, <1>3, <1>4, <1>5, <1>6, <1>7, <1>8, <1>9, <1>10, <1>11, <1>12, <1>13,
             <1>15, <1>16 DEF PublicRead


(* A frame of the commands journal. *)
(* What reading a frame of the commands journal does to it. *)
CommandRead(p, f) ==
    /\ IShape' /\ Wrote /\ f \in Rec /\ CommandRec(f) /\ f.gen \in 1 .. clock
    /\ Alive(p) /\ app[p] \in App /\ cmd[p] \in 1 .. Len(commands[app[p]])
    /\ cmd'[p] = cmd[p] + 1 /\ st[p] # "waiting"
    /\ \A q \in Pid : q # p => Same(q)
    /\ app' = app /\ fresh' = fresh /\ pub' = pub /\ (hasty[p] => hasty'[p])
    /\ ~hasty'[p] => ~SkipsPublic(p, f)
    /\ \/ /\ f.typ = "WriteTo" /\ writes'[p] = writes[p] \cup f.arg
          /\ st'[p] = IF (f.arg \cap writes[p]) \subseteq known[p] THEN st[p] ELSE "threw"
          /\ known' = known /\ links' = links /\ reads' = reads
       \/ /\ f.typ \in {"ReadFrom", "ReadFromPublic"}
          /\ writes' = writes /\ known' = known /\ links' = links
          /\ \/ /\ f.arg \subseteq known[p] /\ st' = st
                /\ reads'[p] = reads[p] \cup (f.arg \X {f.typ = "ReadFromPublic"})
             \/ /\ ~(f.arg \subseteq known[p]) /\ st'[p] = "threw" /\ reads' = reads
       \/ /\ f.typ = "Location" /\ known'[p] = known[p] \cup f.arg
          /\ st' = st /\ writes' = writes /\ links' = links /\ reads' = reads
       \/ /\ f.typ = "Channel" /\ links'[p] = links[p] \cup f.arg
          /\ st' = st /\ writes' = writes /\ known' = known /\ reads' = reads
       \/ /\ f.typ = "RequestStart" /\ st'[p] = "started"
          /\ writes' = writes /\ known' = known /\ links' = links /\ reads' = reads
       \/ /\ f.typ = "SessionEnd" /\ st' = st
          /\ writes' = writes /\ known' = known /\ links' = links /\ reads' = reads

LEMMA ShapeCommand ==
    ASSUME IShape, NEW p \in Pid, ReadCommand(p), NEW f, f = Com(p, cmd[p])
    PROVE  CommandRead(p, f)
  <1> USE DEF IShape
  <1>1. /\ Alive(p) /\ cmd[p] # 0 /\ cmd[p] <= Len(commands[app[p]])
        /\ app' = app /\ fresh' = fresh /\ pub' = pub
        /\ cmd' = [cmd EXCEPT ![p] = cmd[p] + 1]
        /\ hasty' = [hasty EXCEPT ![p] = hasty[p] \/ SkipsPublic(p, f)]
        /\ \E s \in {"none", "public", "commands"} : stale' = [stale EXCEPT ![p] = s]
        /\ UNCHANGED <<mvars, requests, asked>>
        /\ \/ f.typ = "WriteTo" /\ OnWriteTo(p, f) /\ UNCHANGED <<known, links, reads>>
           \/ /\ f.typ \in {"ReadFrom", "ReadFromPublic"}
              /\ OnReadFrom(p, f) /\ UNCHANGED <<known, links, writes>>
           \/ /\ f.typ = "Location"
              /\ known' = [known EXCEPT ![p] = known[p] \cup f.arg]
              /\ UNCHANGED <<st, links, reads, writes>>
           \/ f.typ = "Channel" /\ OnChannel(p, f) /\ UNCHANGED <<st, writes>>
           \/ /\ f.typ = "RequestStart"
              /\ st' = [st EXCEPT ![p] = "started"]
              /\ UNCHANGED <<known, links, reads, writes>>
           \/ f.typ = "SessionEnd" /\ UNCHANGED <<st, known, links, reads, writes>>
    BY DEF ReadCommand, CommandFrame, HasCommand, Com, Left
  <1>2. /\ app[p] \in App /\ cmd[p] \in 1 .. Len(commands[app[p]]) /\ st[p] # "waiting"
    <2>1. st[p] # "none" BY <1>1 DEF Alive
    <2>2. app[p] \in App /\ cmd[p] \in Nat /\ st[p] # "waiting"
      BY <1>1, <2>1 DEF IProcess, ProcessOK
    <2>3. Len(commands[app[p]]) \in Nat BY <2>2 DEF IFrames, Journal
    <2> QED BY <1>1, <2>2, <2>3
  <1>3. f \in Rec /\ CommandRec(f) /\ f.gen \in 1 .. clock
    BY <1>2 DEF IFrames, Journal, Com
  <1>4. Wrote /\ IFrames' BY <1>1, Quiet DEF mvars
  <1> DEFINE Effect ==
              \/ /\ f.typ = "WriteTo" /\ writes'[p] = writes[p] \cup f.arg
                 /\ st'[p] = IF (f.arg \cap writes[p]) \subseteq known[p] THEN st[p] ELSE "threw"
                 /\ known' = known /\ links' = links /\ reads' = reads
              \/ /\ f.typ \in {"ReadFrom", "ReadFromPublic"}
                 /\ writes' = writes /\ known' = known /\ links' = links
                 /\ \/ /\ f.arg \subseteq known[p] /\ st' = st
                       /\ reads'[p] = reads[p] \cup (f.arg \X {f.typ = "ReadFromPublic"})
                    \/ /\ ~(f.arg \subseteq known[p]) /\ st'[p] = "threw" /\ reads' = reads
              \/ /\ f.typ = "Location" /\ known'[p] = known[p] \cup f.arg
                 /\ st' = st /\ writes' = writes /\ links' = links /\ reads' = reads
              \/ /\ f.typ = "Channel" /\ links'[p] = links[p] \cup f.arg
                 /\ st' = st /\ writes' = writes /\ known' = known /\ reads' = reads
              \/ /\ f.typ = "RequestStart" /\ st'[p] = "started"
                 /\ writes' = writes /\ known' = known /\ links' = links /\ reads' = reads
              \/ /\ f.typ = "SessionEnd" /\ st' = st
                 /\ writes' = writes /\ known' = known /\ links' = links /\ reads' = reads
  <1>5. Effect /\ IDomains' /\ \A q \in Pid : q # p => Same(q)
    <2>1. CASE f.typ = "WriteTo" /\ OnWriteTo(p, f) /\ UNCHANGED <<known, links, reads>>
      BY <1>1, <2>1 DEF OnWriteTo, IDomains, Same
    <2>2. CASE /\ f.typ \in {"ReadFrom", "ReadFromPublic"}
               /\ OnReadFrom(p, f) /\ UNCHANGED <<known, links, writes>>
      BY <1>1, <2>2 DEF OnReadFrom, IDomains, Same
    <2>3. CASE /\ f.typ = "Location"
               /\ known' = [known EXCEPT ![p] = known[p] \cup f.arg]
               /\ UNCHANGED <<st, links, reads, writes>>
      BY <1>1, <2>3 DEF IDomains, Same
    <2>4. CASE f.typ = "Channel" /\ OnChannel(p, f) /\ UNCHANGED <<st, writes>>
      BY <1>1, <2>4 DEF OnChannel, IDomains, Same
    <2>5. CASE /\ f.typ = "RequestStart"
               /\ st' = [st EXCEPT ![p] = "started"]
               /\ UNCHANGED <<known, links, reads, writes>>
      BY <1>1, <2>5 DEF IDomains, Same
    <2>6. CASE f.typ = "SessionEnd" /\ UNCHANGED <<st, known, links, reads, writes>>
      BY <1>1, <2>6 DEF IDomains, Same
    <2> QED BY <1>1, <2>1, <2>2, <2>3, <2>4, <2>5, <2>6
  <1>6. /\ cmd'[p] = cmd[p] + 1 /\ stale'[p] \in {"none", "public", "commands"}
        /\ hasty'[p] = (hasty[p] \/ SkipsPublic(p, f))
    BY <1>1 DEF IDomains
  <1>7. ProcessOK(p)'
    <2>1. ProcessOK(p) BY DEF IProcess
    <2>2. /\ f.typ = "WriteTo" => f.arg \subseteq App \cup {"master"}
          /\ f.typ \in {"ReadFrom", "ReadFromPublic", "Location"} => f.arg \subseteq App
          /\ f.typ = "Channel" => f.arg \subseteq Channel
      BY <1>3 DEF CommandRec
    <2>3. known'[p] \subseteq App /\ links'[p] \subseteq Channel
      BY <1>5, <2>1, <2>2 DEF ProcessOK
    <2>4. reads'[p] \subseteq App \X BOOLEAN
      <3>1. CASE reads'[p] = reads[p] \cup (f.arg \X {f.typ = "ReadFromPublic"}) /\ f.arg \subseteq App
        BY <3>1, <2>1 DEF ProcessOK
      <3>2. CASE reads' = reads BY <3>2, <2>1 DEF ProcessOK
      <3> QED BY <3>1, <3>2, <1>5, <2>2
    <2>5. writes'[p] \subseteq App \cup {"master"} BY <1>5, <2>1, <2>2 DEF ProcessOK
    <2>6. st'[p] \in Status /\ st'[p] \notin {"none", "waiting"}
      <3>1. st'[p] \in {st[p], "threw", "started"} BY <1>5
      <3>2. st[p] \in Status /\ st[p] \notin {"none", "waiting"} BY <2>1, <1>1, <1>2 DEF Alive, ProcessOK
      <3> QED BY <3>1, <3>2 DEF Status
    <2>7. /\ cmd'[p] \in Nat /\ cmd'[p] # 0 /\ cmd'[p] <= Len(commands'[app'[p]]) + 1
          /\ pub'[p] \in 1 .. Len(public') + 1
      <3>1. Len(commands[app[p]]) \in Nat /\ commands' = commands /\ public' = public
        BY <1>1, <1>2 DEF IFrames, Journal, mvars
      <3> QED BY <3>1, <2>1, <1>1, <1>2, <1>6 DEF ProcessOK
    <2>8. stale'[p] \in {"none", "public", "commands"} /\ hasty'[p] \in BOOLEAN
      BY <1>6, Zenon
    <2> QED BY <2>1, <2>3, <2>4, <2>5, <2>6, <2>7, <2>8, <1>1, <1>2 DEF ProcessOK
  <1>8. IProcess' BY <1>4, <1>5, <1>7, ProcessStays DEF IProcess
  <1>9. IMaster'
    <2>1. ASSUME NEW i \in 1 .. Len(inbox) PROVE st'[inbox[i]] # "none"
      <3>1. inbox[i] \in Pid /\ st[inbox[i]] # "none" BY DEF IMaster
      <3>2. st'[p] # "none" BY <1>1, <1>5 DEF Alive
      <3> QED BY <3>1, <3>2, <1>5 DEF Same
    <2> QED BY <2>1, <1>1 DEF IMaster, mvars
  <1> QED BY <1>1, <1>2, <1>3, <1>4, <1>5, <1>6, <1>8, <1>9 DEF CommandRead

(* A Deregister that is given out again: a frame of the commands journal   *)
(* is passed over for it.                                                  *)
TwiceRead(p) ==
    /\ IShape' /\ Wrote /\ Alive(p) /\ app[p] \in App
    /\ cmd[p] \in 1 .. Len(commands[app[p]]) /\ cmd'[p] = cmd[p] + 1
    /\ \A q \in Pid : q # p => Same(q)
    /\ UNCHANGED <<mvars, requests, asked, app, st, pub, writes, fresh>> /\ hasty'[p] = TRUE

LEMMA ShapeTwice ==
    ASSUME IShape, NEW p \in Pid, ReadDeregisterTwice(p)
    PROVE  TwiceRead(p)
  <1> USE DEF IShape
  <1> DEFINE f == PublicFrame(p)
  <1>1. /\ Alive(p) /\ cmd[p] # 0 /\ cmd[p] <= Len(commands[app[p]])
        /\ pub[p] <= Len(public) /\ f.typ = "Deregister"
        /\ known' = [known EXCEPT ![p] = known[p] \ f.arg]
        /\ links' = [links EXCEPT ![p] = {c \in links[p] : c.source \notin f.arg}]
        /\ reads' = [reads EXCEPT ![p] = {r \in reads[p] : r[1] \notin f.arg}]
        /\ cmd' = [cmd EXCEPT ![p] = cmd[p] + 1]
        /\ stale' = [stale EXCEPT ![p] = "none"] /\ hasty' = [hasty EXCEPT ![p] = TRUE]
        /\ UNCHANGED <<mvars, requests, asked, app, st, pub, writes, fresh>>
    BY DEF ReadDeregisterTwice, SkipsCommand, HasPublic, HasCommand
  <1> HIDE DEF f
  <1>2. app[p] \in App /\ cmd[p] \in 1 .. Len(commands[app[p]]) /\ st[p] # "waiting"
    <2>1. st[p] # "none" BY <1>1 DEF Alive
    <2>2. app[p] \in App /\ cmd[p] \in Nat /\ st[p] # "waiting"
      BY <1>1, <2>1 DEF IProcess, ProcessOK
    <2>3. Len(commands[app[p]]) \in Nat BY <2>2 DEF IFrames, Journal
    <2> QED BY <1>1, <2>2, <2>3
  <1>3. Wrote /\ IFrames' BY <1>1, Quiet DEF mvars
  <1>4. IDomains' BY <1>1 DEF IDomains
  <1>5. \A q \in Pid : q # p => Same(q) BY <1>1 DEF Same
  <1>6. /\ cmd'[p] = cmd[p] + 1 /\ hasty'[p] = TRUE /\ stale'[p] = "none"
        /\ known'[p] \subseteq known[p] /\ links'[p] \subseteq links[p]
        /\ reads'[p] \subseteq reads[p]
    BY <1>1 DEF IDomains
  <1>7. ProcessOK(p)'
    <2>1. ProcessOK(p) BY DEF IProcess
    <2>2. /\ known'[p] \subseteq App /\ links'[p] \subseteq Channel
          /\ reads'[p] \subseteq App \X BOOLEAN
      BY <2>1, <1>6 DEF ProcessOK
    <2>3. /\ cmd'[p] \in Nat /\ cmd'[p] # 0 /\ cmd'[p] <= Len(commands'[app'[p]]) + 1
          /\ pub'[p] \in 1 .. Len(public') + 1
      <3>1. Len(commands[app[p]]) \in Nat /\ commands' = commands /\ public' = public
        BY <1>1, <1>2 DEF IFrames, Journal, mvars
      <3> QED BY <3>1, <2>1, <1>1, <1>2, <1>6 DEF ProcessOK
    <2> QED BY <2>1, <2>2, <2>3, <1>1, <1>2, <1>6 DEF ProcessOK, Alive
  <1>8. IProcess' BY <1>3, <1>5, <1>7, ProcessStays DEF IProcess
  <1>9. IMaster' BY <1>1 DEF IMaster, mvars
  <1> QED BY <1>1, <1>2, <1>3, <1>4, <1>5, <1>6, <1>8, <1>9 DEF TwiceRead

-----------------------------------------------------------------------------
(* What a process has still to read. *)

(* Frames written now are later than every frame that was there.           *)
LEMMA PendingKept ==
    ASSUME IMaster, IFrames, Wrote, NEW p, app[p] \in App, pub[p] \in 1 .. Len(public) + 1,
           app'[p] = app[p], pub'[p] = pub[p], cmd'[p] = cmd[p]
    PROVE  /\ \A i \in 1 .. Len(commands[app[p]]) :
                 /\ Com(p, i)' = Com(p, i)
                 /\ Pending(p, i)' <=> Pending(p, i)
           /\ \A i : Pending(p, i)' => i \in 1 .. Len(commands'[app[p]])
           /\ Len(commands[app[p]]) <= Len(commands'[app[p]])
  <1> DEFINE C == commands[app[p]]
             D == commands'[app[p]]
  <1>1. /\ C \in Seq(Rec) /\ D \in Seq(Rec) /\ Len(C) \in Nat /\ Len(D) \in Nat
        /\ Len(C) <= Len(D) /\ \A i \in 1 .. Len(C) : D[i] = C[i]
    BY DEF IFrames, Journal, Wrote, Grown
  <1>2. /\ Len(public) \in Nat /\ Len(public') \in Nat /\ Len(public) <= Len(public')
        /\ \A j \in 1 .. Len(public) : public'[j] = public[j]
    BY DEF IFrames, Journal, Wrote, Grown
  <1>3. clock \in Nat /\ \A i \in 1 .. Len(C) : C[i].gen \in 1 .. clock
    BY DEF IFrames, Journal, IMaster
  <1>4. clock' \in Nat /\ \A j \in Len(public) + 1 .. Len(public') : public'[j].gen \in clock + 1 .. clock'
    BY DEF Wrote, Grown
  <1>5. pub[p] \in Nat /\ pub[p] >= 1 BY <1>2
  <1> HIDE DEF C, D
  <1>6. ASSUME NEW i \in 1 .. Len(C)
        PROVE  (\E j \in pub[p] .. Len(public') : public'[j].typ = "Register" /\ public'[j].gen < C[i].gen)
                 <=> (\E j \in pub[p] .. Len(public) : public[j].typ = "Register" /\ public[j].gen < C[i].gen)
    <2>1. ASSUME NEW j \in pub[p] .. Len(public'), public'[j].gen < C[i].gen
          PROVE  j \in pub[p] .. Len(public)
      BY <2>1, <1>2, <1>3, <1>4, <1>5
    <2>2. \A j \in pub[p] .. Len(public) : j \in pub[p] .. Len(public') /\ public'[j] = public[j]
      BY <1>2, <1>5
    <2> QED BY <2>1, <2>2
  <1>7. ASSUME NEW i \in 1 .. Len(C)
        PROVE  Com(p, i)' = Com(p, i) /\ (Pending(p, i)' <=> Pending(p, i))
    <2>1. i \in 1 .. Len(D) /\ D[i] = C[i] BY <1>1
    <2> QED BY <2>1, <1>6 DEF C, D, Pending, Com
  <1>8. \A i : Pending(p, i)' => i \in 1 .. Len(D) BY DEF D, Pending
  <1> QED BY <1>1, <1>7, <1>8 DEF C, D

(* Joining the commands journal changes nothing of it. *)
LEMMA PendingPublic ==
    ASSUME IShape, NEW p \in Pid, ReadPublic(p)
    PROVE  \A i : /\ Com(p, i)' = Com(p, i)
                  /\ Pending(p, i)' <=> Pending(p, i)
  <1> PICK f : f = public[pub[p]] OBVIOUS
  <1>1. UNCHANGED <<public, commands, app>> BY DEF ReadPublic, mvars
  <1>2. /\ Alive(p) /\ app[p] \in App /\ pub[p] \in 1 .. Len(public) /\ pub'[p] = pub[p] + 1
        /\ f.typ # "Register" => st' = st /\ cmd' = cmd
        /\ st[p] # "waiting" => st' = st /\ cmd' = cmd
        /\ st[p] = "waiting" /\ f.typ = "Register" =>
             /\ cmd'[p] \in 1 .. Len(commands[app[p]]) + 1
             /\ \A i \in 1 .. Len(commands[app[p]]) : i >= cmd'[p] <=> Com(p, i).gen > f.gen
    BY ShapePublic DEF PublicRead
  <1>3. st[p] = "waiting" <=> cmd[p] = 0 BY <1>2 DEF IShape, IProcess, ProcessOK
  <1>4. ASSUME NEW i PROVE Com(p, i)' = Com(p, i) BY <1>1 DEF Com
  <1>5. ASSUME NEW i PROVE Pending(p, i)' <=> Pending(p, i)
    <2>1. CASE st[p] # "waiting" BY <2>1, <1>1, <1>2, <1>3 DEF Pending, Com
    <2>2. CASE st[p] = "waiting" /\ f.typ # "Register"
      <3>1. cmd[p] = 0 /\ cmd'[p] = 0 BY <2>2, <1>2, <1>3
      <3>2. \A j : j \in pub[p] .. Len(public) /\ public[j].typ = "Register"
                     <=> j \in pub'[p] .. Len(public) /\ public[j].typ = "Register"
        <4>1. Len(public) \in Nat BY DEF IShape, IFrames, Journal
        <4>2. \A j : j \in pub[p] .. Len(public) <=> j = pub[p] \/ j \in pub'[p] .. Len(public)
          BY <4>1, <1>2
        <4> QED BY <4>2, <2>2
      <3> QED BY <3>1, <3>2, <1>1 DEF Pending, Com
    <2>3. CASE st[p] = "waiting" /\ f.typ = "Register"
      <3>1. cmd[p] = 0 /\ cmd'[p] # 0 BY <2>3, <1>2, <1>3
      <3>2. ASSUME NEW g \in Nat
            PROVE (\E j \in pub[p] .. Len(public) : public[j].typ = "Register" /\ public[j].gen < g)
                     <=> g > f.gen
        <4>1. Len(public) \in Nat /\ \A j \in 1 .. Len(public) : public[j].gen \in Nat
          BY DEF IShape, IFrames, Journal, IMaster
        <4>2. \A j \in pub[p] .. Len(public) : j \in 1 .. Len(public) /\ (j = pub[p] \/ pub[p] < j)
          BY <4>1, <1>2
        <4>3. \A j \in pub[p] .. Len(public) : j = pub[p] \/ f.gen < public[j].gen
          BY <4>1, <4>2, <1>2 DEF IShape, IFrames, Journal, Rising
        <4>4. pub[p] \in pub[p] .. Len(public) /\ f.gen \in Nat BY <4>1, <1>2
        <4>5. ASSUME NEW j \in pub[p] .. Len(public), public[j].gen < g PROVE g > f.gen
          BY <4>1, <4>2, <4>3, <4>4, <4>5
        <4> QED BY <4>4, <4>5, <2>3
      <3>3. i \in 1 .. Len(commands[app[p]]) => Com(p, i).gen \in Nat
        BY <1>2 DEF IShape, IFrames, Journal, IMaster, Com
      <3>4. i \in 1 .. Len(commands[app[p]]) =>
              (i >= cmd'[p] <=> \E j \in pub[p] .. Len(public) :
                                  public[j].typ = "Register" /\ public[j].gen < Com(p, i).gen)
        BY <3>2, <3>3, <2>3, <1>2
      <3> QED BY <3>1, <3>4, <1>1 DEF Pending, Com
    <2> QED BY <2>1, <2>2, <2>3
  <1> QED BY <1>4, <1>5

LEMMA PendingCommand ==
    ASSUME IShape, NEW p \in Pid, ReadCommand(p) \/ ReadDeregisterTwice(p)
    PROVE  /\ Pending(p, cmd[p]) /\ cmd[p] \in Nat
           /\ \A i : /\ Com(p, i)' = Com(p, i)
                     /\ Pending(p, i)' <=> Pending(p, i) /\ i # cmd[p]
  <1>1. UNCHANGED <<public, commands, app, pub>> BY DEF ReadCommand, ReadDeregisterTwice, mvars
  <1>2. /\ app[p] \in App /\ cmd[p] \in 1 .. Len(commands[app[p]]) /\ cmd'[p] = cmd[p] + 1
    BY ShapeCommand, ShapeTwice DEF CommandRead, TwiceRead
  <1>3. cmd[p] \in Nat /\ cmd[p] # 0 /\ cmd'[p] # 0 /\ cmd[p] >= cmd[p] BY <1>2
  <1>4. ASSUME NEW i PROVE Com(p, i)' = Com(p, i) BY <1>1 DEF Com
  <1>5. ASSUME NEW i PROVE Pending(p, i)' <=> Pending(p, i) /\ i # cmd[p]
    <2>1. Len(commands[app[p]]) \in Nat BY <1>2 DEF IShape, IFrames, Journal
    <2>2. i \in 1 .. Len(commands[app[p]]) => (i >= cmd'[p] <=> i >= cmd[p] /\ i # cmd[p])
      BY <2>1, <1>2, <1>3
    <2> QED BY <2>2, <1>1, <1>3 DEF Pending
  <1>6. Pending(p, cmd[p]) BY <1>2, <1>3 DEF Pending
  <1> QED BY <1>3, <1>4, <1>5, <1>6

LEMMA PendingStart ==
    ASSUME IShape, NEW p \in Pid, NEW a \in App, Start(p, a)
    PROVE  \A i : ~Pending(p, i)'
  <1>1. pub'[p] = Len(public) + 1 /\ public' = public BY DEF Start, IShape, IDomains
  <1>2. cmd'[p] = 0
    <2>1. st[p] = "none" /\ cmd' = cmd BY DEF Start
    <2> QED BY <2>1 DEF IShape, IProcess, ProcessOK
  <1>3. ASSUME NEW j \in pub'[p] .. Len(public') PROVE FALSE
    <2>1. Len(public) \in Nat BY DEF IShape, IFrames, Journal
    <2> QED BY <2>1, <1>1
  <1> QED BY <1>2, <1>3 DEF Pending

-----------------------------------------------------------------------------
(* The sessions: what the master keeps and the process it belongs to.      *)

LEMMA InitBase == Init => IBase
  <1> SUFFICES ASSUME Init PROVE IBase OBVIOUS
  <1>1. IShape BY InitShape
  <1>2. ITracked BY DEF Init, ITracked
  <1>3. \A p \in Pid : st[p] = "none" BY DEF Init
  <1>4. \A p \in Pid : ~Alive(p) BY <1>3 DEF Alive
  <1>5. IAlone BY <1>4 DEF IAlone
  <1>6. ISession BY <1>4 DEF ISession, Welcomed
  <1>7. ITracks
    <2>1. Len(inbox) = 0 BY DEF Init
    <2>2. IWaiting BY <2>1 DEF IWaiting
    <2> QED BY <2>2, <1>4 DEF ITracks, Started, Tracked, Init
  <1> QED BY <1>1, <1>2, <1>5, <1>6, <1>7 DEF IBase

LEMMA HarmedStays ==
    ASSUME \A q \in Pid : st[q] \in {"fault", "threw"} => app'[q] = app[q] /\ st'[q] = st[q],
           NEW a, Harmed(a)
    PROVE  Harmed(a)'
  <1>1. PICK q \in Pid : app[q] = a /\ st[q] \in {"fault", "threw"} BY DEF Harmed
  <1> QED BY <1>1 DEF Harmed

(* A step of the processes only. *)
LEMMA SessionsStay ==
    ASSUME IBase, UNCHANGED <<tracked, locations, channels>>,
           \A a \in App : requests'[a] # <<>> => a \in locations,
           \A q \in Pid : st[q] # "none" => app'[q] = app[q] /\ st'[q] # "none",
           \A q \in Pid : st[q] \in {"fault", "threw"} => st'[q] = st[q],
           \A q \in Pid : /\ Welcomed(q)' => Welcomed(q)
                          /\ Started(q)' => Started(q),
           ~EarlyDeath => IWaiting'
    PROVE  ITracked' /\ ISession' /\ ITracks'
  <1> USE DEF IBase
  <1>1. tracked \subseteq Pid /\ \A q \in tracked : st[q] # "none" /\ app[q] \in locations
    BY DEF IShape, IMaster, ITracked
  <1>2. \A q \in tracked : app'[q] = app[q] /\ st'[q] # "none" BY <1>1
  <1>3. ITracked' BY <1>1, <1>2 DEF ITracked
  <1>4. ISession'
    <2>1. ASSUME NEW q \in Pid, Welcomed(q)' PROVE Welcomed(q) /\ app'[q] = app[q]
      BY <2>1 DEF Welcomed, Alive
    <2> QED BY <2>1, <1>2 DEF ISession
  <1>5. \A a : Harmed(a) => Harmed(a)' BY HarmedStays
  <1>6. ITracks'
    <2>1. Tracked => Tracked' BY <1>2, <1>5 DEF Tracked
    <2>2. ASSUME NEW q \in Pid, Started(q)' PROVE Started(q) /\ app'[q] = app[q]
      BY <2>2 DEF Started, Alive
    <2> QED BY <2>1, <2>2, <1>5 DEF ITracks
  <1> QED BY <1>3, <1>4, <1>6

(* Those who wait for the master wait on. *)
LEMMA WaitingStays ==
    ASSUME IBase, ~EarlyDeath, inbox' = inbox, app' = app,
           \A q \in Pid : st[q] \in {"fault", "threw"} => st'[q] = st[q],
           \A i \in 1 .. Len(inbox) :
              Alive(inbox[i]) => Alive(inbox[i])' \/ st'[inbox[i]] \in {"fault", "threw"}
    PROVE  IWaiting'
  <1>1. ASSUME NEW i \in 1 .. Len(inbox) PROVE Alive(inbox[i])' \/ Harmed(app[inbox[i]])'
    <2>1. inbox[i] \in Pid BY DEF IBase, IShape, IMaster
    <2>2. CASE Alive(inbox[i]) BY <2>1, <2>2 DEF Harmed
    <2>3. CASE Harmed(app[inbox[i]])
      <3>1. PICK a : a = app[inbox[i]] OBVIOUS
      <3>2. Harmed(a)' BY <2>3, <3>1, HarmedStays
      <3> QED BY <3>1, <3>2 DEF Harmed
    <2> QED BY <2>2, <2>3 DEF IBase, ITracks, IWaiting
  <1> QED BY <1>1 DEF IWaiting, Harmed

LEMMA AloneStays ==
    ASSUME IAlone, app' = app, \A q \in Pid : Alive(q)' => Alive(q)
    PROVE  IAlone'
  BY DEF IAlone

(* Journals and cursors of q are as they were. *)
LEMMA PendingSame ==
    ASSUME UNCHANGED <<public, commands>>, NEW q, app'[q] = app[q], pub'[q] = pub[q], cmd'[q] = cmd[q]
    PROVE  \A i : /\ Com(q, i)' = Com(q, i)
                  /\ Pending(q, i)' <=> Pending(q, i)
  BY DEF Pending, Com

LEMMA SessionSame ==
    ASSUME UNCHANGED <<public, commands>>, NEW q, Same(q)
    PROVE  /\ Welcomed(q)' <=> Welcomed(q)
           /\ Started(q)' <=> Started(q)
           /\ Alive(q)' <=> Alive(q)
  <1>1. \A i : Com(q, i)' = Com(q, i) /\ (Pending(q, i)' <=> Pending(q, i))
    BY PendingSame DEF Same
  <1>2. Alive(q)' <=> Alive(q) BY DEF Same, Alive
  <1>3. Welcomed(q)' <=> Welcomed(q) BY <1>1, <1>2 DEF Same, Welcomed, ToMaster
  <1>4. Started(q)' <=> Started(q) BY <1>1, <1>2 DEF Same, Started
  <1> QED BY <1>2, <1>3, <1>4

LEMMA BaseStart ==
    ASSUME IBase, NEW p \in Pid, NEW a \in App, Start(p, a)
    PROVE  IBase'
  <1> USE DEF IBase
  <1>1. IShape' BY ShapeStart
  <1>2. /\ st[p] = "none" /\ st' = [st EXCEPT ![p] = "waiting"] /\ app' = [app EXCEPT ![p] = a]
        /\ UNCHANGED <<tracked, locations, channels, requests, public, commands, writes>>
        /\ inbox' = Append(inbox, p) /\ \A q \in Pid : app[q] = a => ~Alive(q)
    BY DEF Start
  <1>3. app'[p] = a /\ st'[p] = "waiting" BY <1>2 DEF IShape, IDomains
  <1>4. \A q \in Pid : q # p => Same(q) BY DEF Start, Same
  <1>5. IAlone'
    <2>1. \A q \in Pid : q # p /\ Alive(q)' => Alive(q) /\ app'[q] = app[q] BY <1>4 DEF Same, Alive
    <2> QED BY <2>1, <1>2, <1>3 DEF IAlone
  <1>6. \A q \in Pid : (Welcomed(q)' => Welcomed(q)) /\ (Started(q)' => Started(q))
    <2>1. \A i : ~Pending(p, i)' BY PendingStart
    <2>2. "master" \notin writes'[p]
      BY <1>2 DEF IShape, IProcess, ProcessOK
    <2>3. ~Welcomed(p)' /\ ~Started(p)' BY <2>1, <2>2, <1>3 DEF Welcomed, Started
    <2> QED BY <2>3, <1>2, <1>4, SessionSame
  <1>7. ASSUME ~EarlyDeath PROVE IWaiting'
    <2>1. inbox \in Seq(Pid) BY DEF IShape, IMaster
    <2>2. /\ Len(inbox) \in Nat /\ Len(inbox') = Len(inbox) + 1
          /\ \A k \in 1 .. Len(inbox) : inbox'[k] = inbox[k] /\ inbox[k] \in Pid
          /\ inbox'[Len(inbox) + 1] = p
      BY <2>1, <1>2, Appended
    <2>3. \A i \in 1 .. Len(inbox') : i \in 1 .. Len(inbox) \/ i = Len(inbox) + 1 BY <2>2
    <2>4. ASSUME NEW i \in 1 .. Len(inbox) PROVE Alive(inbox[i])' \/ Harmed(app[inbox[i]])'
      <3>1. PICK q \in Pid : q = inbox[i] BY <2>2
      <3>2. st[q] # "none" /\ q # p BY <3>1, <1>2 DEF IShape, IMaster
      <3>3. Alive(q) \/ Harmed(app[q]) BY <3>1, <1>7 DEF ITracks, IWaiting
      <3>4. app'[q] = app[q] /\ st'[q] = st[q] BY <3>2, <1>4 DEF Same
      <3>5. Harmed(app[q]) => Harmed(app[q])'
        <4>1. ASSUME Harmed(app[q]) PROVE Harmed(app[q])'
          <5>1. PICK r \in Pid : app[r] = app[q] /\ st[r] \in {"fault", "threw"} BY <4>1 DEF Harmed
          <5>2. r # p BY <5>1, <1>2
          <5>3. app'[r] = app[r] /\ st'[r] = st[r] BY <5>2, <1>4 DEF Same
          <5> QED BY <5>1, <5>3, <3>4 DEF Harmed
        <4> QED BY <4>1
      <3>6. Alive(q) => Alive(q)' BY <3>4 DEF Alive
      <3>7. inbox'[i] = q BY <2>2, <3>1
      <3> QED BY <3>3, <3>5, <3>6, <3>7 DEF Alive, Harmed
    <2>5. st'[inbox'[Len(inbox) + 1]] = "waiting" BY <2>2, <1>3
    <2>6. ASSUME NEW i \in 1 .. Len(inbox') PROVE Alive(inbox[i])' \/ Harmed(app[inbox[i]])'
      <3>1. CASE i \in 1 .. Len(inbox) BY <3>1, <2>4
      <3>2. CASE i = Len(inbox) + 1 BY <3>2, <2>5 DEF Alive
      <3> QED BY <2>3, <3>1, <3>2
    <2> QED BY <2>6 DEF IWaiting
  <1>8. \A q \in Pid : st[q] # "none" => app'[q] = app[q] /\ st'[q] # "none" BY <1>2, <1>4 DEF Same
  <1>9. \A q \in Pid : st[q] \in {"fault", "threw"} => st'[q] = st[q] BY <1>2, <1>4 DEF Same
  <1>10. \A b \in App : requests'[b] # <<>> => b \in locations BY <1>2 DEF ITracked
  <1>11. ITracked' /\ ISession' /\ ITracks'
    BY <1>2, <1>6, <1>7, <1>8, <1>9, <1>10, SessionsStay
  <1> QED BY <1>1, <1>5, <1>11

LEMMA BaseGone ==
    ASSUME IBase, NEW p \in Pid, Die(p) \/ Timeout(p)
    PROVE  IBase'
  <1> USE DEF IBase
  <1>1. /\ IShape' /\ Alive(p)
        /\ UNCHANGED <<mvars, requests, asked, app, pub, cmd, stale, known, links,
                       reads, writes, fresh, hasty>>
    BY ShapeGone
  <1>2. PICK s \in {"dead", "stopped"} : st' = [st EXCEPT ![p] = s] BY ShapeGone
  <1>3. st'[p] = s /\ \A q \in Pid : q # p => Same(q)
    BY <1>1, <1>2 DEF IShape, IDomains, Same
  <1>4. \A q \in Pid : Alive(q)' => Alive(q) /\ q # p BY <1>3 DEF Same, Alive
  <1>5. IAlone' BY <1>1, <1>4, AloneStays
  <1>6. \A q \in Pid : (Welcomed(q)' => Welcomed(q)) /\ (Started(q)' => Started(q))
    <2>1. ~Welcomed(p)' /\ ~Started(p)' BY <1>4 DEF Welcomed, Started
    <2> QED BY <2>1, <1>1, <1>3, SessionSame DEF mvars
  <1>7. \A q \in Pid : st[q] \in {"fault", "threw"} => st'[q] = st[q]
    BY <1>1, <1>3 DEF Same, Alive
  <1>8. ASSUME ~EarlyDeath PROVE IWaiting'
    <2>1. ~Queued(p) BY <1>8 DEF Die, Timeout
    <2>2. \A i \in 1 .. Len(inbox) : inbox[i] # p /\ inbox[i] \in Pid
      BY <2>1 DEF Queued, IShape, IMaster
    <2>3. \A i \in 1 .. Len(inbox) : Alive(inbox[i]) => st'[inbox[i]] = st[inbox[i]]
      BY <2>2, <1>3 DEF Same
    <2> QED BY <2>3, <1>1, <1>7, <1>8, WaitingStays DEF mvars, Alive
  <1>9. \A q \in Pid : st[q] # "none" => app'[q] = app[q] /\ st'[q] # "none"
    BY <1>1, <1>3 DEF Same
  <1>10. \A b \in App : requests'[b] # <<>> => b \in locations BY <1>1 DEF ITracked
  <1>11. ITracked' /\ ISession' /\ ITracks'
    BY <1>1, <1>6, <1>7, <1>8, <1>9, <1>10, SessionsStay DEF mvars
  <1> QED BY <1>1, <1>5, <1>11

LEMMA BaseRequest ==
    ASSUME IBase, NEW p \in Pid, NEW t \in Request, NEW peer \in App, AppRequest(p, t, peer)
    PROVE  IBase'
  <1> USE DEF IBase
  <1>1. IShape' BY ShapeRequest
  <1>2. UNCHANGED <<mvars, pvars>> /\ Alive(p) /\ "master" \in writes[p] BY DEF AppRequest
  <1>3. \A q \in Pid : Same(q) BY <1>2 DEF pvars, Same
  <1>4. IAlone' BY <1>2, <1>3, AloneStays DEF pvars, Same, Alive
  <1>5. \A q \in Pid : (Welcomed(q)' => Welcomed(q)) /\ (Started(q)' => Started(q))
    BY <1>2, <1>3, SessionSame DEF mvars
  <1>6. ~EarlyDeath => IWaiting' BY <1>2 DEF ITracks, IWaiting, mvars, pvars, Alive, Harmed
  <1>7. app[p] \in locations BY <1>2 DEF ISession, Welcomed
  <1>8. \A b \in App : b # app[p] => requests'[b] = requests[b]
    BY DEF AppRequest, IShape, IMaster
  <1>9. \A b \in App : requests'[b] # <<>> => b \in locations BY <1>7, <1>8 DEF ITracked
  <1>10. /\ \A q \in Pid : st[q] # "none" => app'[q] = app[q] /\ st'[q] # "none"
         /\ \A q \in Pid : st[q] \in {"fault", "threw"} => st'[q] = st[q]
    BY <1>3 DEF Same
  <1>11. ITracked' /\ ISession' /\ ITracks'
    BY <1>2, <1>5, <1>6, <1>9, <1>10, SessionsStay DEF mvars
  <1> QED BY <1>1, <1>4, <1>11

LEMMA BasePublic ==
    ASSUME IBase, NEW p \in Pid, ReadPublic(p)
    PROVE  IBase'
  <1> USE DEF IBase
  <1> PICK f : f = public[pub[p]] OBVIOUS
  <1>1. /\ IShape' /\ Alive(p) /\ \A q \in Pid : q # p => Same(q)
        /\ app' = app /\ writes' = writes
        /\ f.typ # "Register" => st' = st /\ cmd' = cmd
        /\ st[p] # "waiting" => st' = st /\ cmd' = cmd
        /\ st[p] = "waiting" /\ f.typ = "Register" => st'[p] \in {"joined", "fault"}
    BY ShapePublic DEF PublicRead
  <1>2. UNCHANGED <<mvars, requests, asked>> BY DEF ReadPublic
  <1>3. st'[p] \in {st[p], "joined", "fault"} /\ (st'[p] = "started" => st[p] = "started")
    BY <1>1
  <1>4. \A q \in Pid : Alive(q)' => Alive(q) BY <1>1 DEF Same, Alive
  <1>5. IAlone' BY <1>1, <1>4, AloneStays
  <1>6. \A i : Com(p, i)' = Com(p, i) /\ (Pending(p, i)' <=> Pending(p, i)) BY PendingPublic
  <1>7. (Welcomed(p)' => Welcomed(p)) /\ (Started(p)' => Started(p))
    BY <1>1, <1>3, <1>6 DEF Welcomed, Started, ToMaster
  <1>8. \A q \in Pid : (Welcomed(q)' => Welcomed(q)) /\ (Started(q)' => Started(q))
    BY <1>1, <1>2, <1>7, SessionSame DEF mvars
  <1>9. \A q \in Pid : st[q] \in {"fault", "threw"} => st'[q] = st[q]
    BY <1>1 DEF Same, Alive
  <1>10. \A q \in Pid : st[q] # "none" => app'[q] = app[q] /\ st'[q] # "none"
    BY <1>1, <1>3 DEF Same
  <1>11. ASSUME ~EarlyDeath PROVE IWaiting'
    <2>1. ASSUME NEW q \in Pid, Alive(q) PROVE Alive(q)' \/ st'[q] \in {"fault", "threw"}
      BY <2>1, <1>1, <1>3 DEF Same, Alive
    <2>2. \A i \in 1 .. Len(inbox) : inbox[i] \in Pid BY DEF IShape, IMaster
    <2>3. \A i \in 1 .. Len(inbox) :
             Alive(inbox[i]) => st'[inbox[i]] \in {"waiting", "joined", "started", "fault", "threw"}
      BY <2>1, <2>2 DEF Alive
    <2> QED BY <2>3, <1>1, <1>2, <1>9, <1>11, WaitingStays DEF mvars, Alive
  <1>12. \A b \in App : requests'[b] # <<>> => b \in locations BY <1>2 DEF ITracked
  <1>13. ITracked' /\ ISession' /\ ITracks'
    BY <1>2, <1>8, <1>9, <1>10, <1>11, <1>12, SessionsStay DEF mvars
  <1> QED BY <1>1, <1>5, <1>13

LEMMA BaseCommand ==
    ASSUME IBase, NEW p \in Pid, ReadCommand(p)
    PROVE  IBase'
  <1> USE DEF IBase
  <1> PICK f : f = Com(p, cmd[p]) OBVIOUS
  <1>1. /\ IShape' /\ CommandRec(f) /\ Alive(p) /\ app' = app
        /\ \A q \in Pid : q # p => Same(q)
        /\ writes'[p] = writes[p] \/ (f.typ = "WriteTo" /\ writes'[p] = writes[p] \cup f.arg)
        /\ st'[p] \in {st[p], "threw"} \/ (f.typ = "RequestStart" /\ st'[p] = "started")
    BY ShapeCommand DEF CommandRead
  <1>2. UNCHANGED <<mvars, requests, asked>> BY DEF ReadCommand
  <1>3. \A q \in Pid : Alive(q)' => Alive(q) BY <1>1 DEF Same, Alive
  <1>4. IAlone' BY <1>1, <1>3, AloneStays
  <1>5. /\ Pending(p, cmd[p]) /\ cmd[p] \in Nat
        /\ \A i : Com(p, i)' = Com(p, i) /\ (Pending(p, i)' => Pending(p, i))
    BY PendingCommand
  <1>6. Welcomed(p)' => Welcomed(p)
    <2>1. f.typ = "WriteTo" => ToMaster(f) \/ f.arg \subseteq App BY <1>1 DEF CommandRec, ToMaster
    <2>2. "master" \in writes'[p] => "master" \in writes[p] \/ ToMaster(f)
      BY <2>1, <1>1, RegistrationAssumption
    <2>3. \A i : ToMaster(Com(p, i))' <=> ToMaster(Com(p, i)) BY <1>5 DEF ToMaster
    <2> QED BY <2>2, <2>3, <1>1, <1>5 DEF Welcomed
  <1>7. Started(p)' => Started(p)
    <2>1. st'[p] = "started" => st[p] = "started" \/ f.typ = "RequestStart" BY <1>1
    <2> QED BY <2>1, <1>1, <1>5 DEF Started
  <1>8. \A q \in Pid : (Welcomed(q)' => Welcomed(q)) /\ (Started(q)' => Started(q))
    BY <1>1, <1>2, <1>6, <1>7, SessionSame DEF mvars
  <1>9. \A q \in Pid : st[q] \in {"fault", "threw"} => st'[q] = st[q]
    BY <1>1 DEF Same, Alive
  <1>10. \A q \in Pid : st[q] # "none" => app'[q] = app[q] /\ st'[q] # "none"
    BY <1>1 DEF Same, Alive
  <1>11. ASSUME ~EarlyDeath PROVE IWaiting'
    <2>1. ASSUME NEW q \in Pid, Alive(q)
          PROVE  st'[q] \in {"waiting", "joined", "started", "fault", "threw"}
      BY <2>1, <1>1 DEF Same, Alive
    <2>2. \A i \in 1 .. Len(inbox) : inbox[i] \in Pid BY DEF IShape, IMaster
    <2> QED BY <2>1, <2>2, <1>1, <1>2, <1>9, <1>11, WaitingStays DEF mvars, Alive
  <1>12. \A b \in App : requests'[b] # <<>> => b \in locations BY <1>2 DEF ITracked
  <1>13. ITracked' /\ ISession' /\ ITracks'
    BY <1>2, <1>8, <1>9, <1>10, <1>11, <1>12, SessionsStay DEF mvars
  <1> QED BY <1>1, <1>4, <1>13

LEMMA BaseTwice ==
    ASSUME IBase, NEW p \in Pid, ReadDeregisterTwice(p)
    PROVE  IBase'
  <1> USE DEF IBase
  <1>1. /\ IShape' /\ Alive(p) /\ \A q \in Pid : q # p => Same(q)
        /\ UNCHANGED <<mvars, requests, asked, app, st, pub, writes, fresh>>
    BY ShapeTwice DEF TwiceRead
  <1>2. \A q \in Pid : Alive(q)' => Alive(q) BY <1>1 DEF Alive
  <1>3. IAlone' BY <1>1, <1>2, AloneStays
  <1>4. \A i : Com(p, i)' = Com(p, i) /\ (Pending(p, i)' => Pending(p, i)) BY PendingCommand
  <1>5. (Welcomed(p)' => Welcomed(p)) /\ (Started(p)' => Started(p))
    BY <1>1, <1>2, <1>4 DEF Welcomed, Started, ToMaster
  <1>6. \A q \in Pid : (Welcomed(q)' => Welcomed(q)) /\ (Started(q)' => Started(q))
    BY <1>1, <1>5, SessionSame DEF mvars
  <1>7. ~EarlyDeath => IWaiting' BY <1>1 DEF ITracks, IWaiting, mvars, Alive, Harmed
  <1>8. \A b \in App : requests'[b] # <<>> => b \in locations BY <1>1 DEF ITracked
  <1>9. /\ \A q \in Pid : st[q] # "none" => app'[q] = app[q] /\ st'[q] # "none"
        /\ \A q \in Pid : st[q] \in {"fault", "threw"} => st'[q] = st[q]
    BY <1>1
  <1>10. ITracked' /\ ISession' /\ ITracks'
    BY <1>1, <1>6, <1>7, <1>8, <1>9, SessionsStay DEF mvars
  <1> QED BY <1>1, <1>3, <1>10

(* Frames that start nobody change nothing for a process. *)
LEMMA SessionGrows ==
    ASSUME IShape, Wrote, UNCHANGED pvars, NEW q \in Pid, Alive(q),
           \A i \in Len(commands[app[q]]) + 1 .. Len(commands'[app[q]]) :
              ~ToMaster(commands'[app[q]][i]) /\ commands'[app[q]][i].typ # "RequestStart"
    PROVE  (Welcomed(q)' => Welcomed(q)) /\ (Started(q)' => Started(q))
  <1> DEFINE C == commands[app[q]]
             D == commands'[app[q]]
  <1>1. app[q] \in App /\ pub[q] \in 1 .. Len(public) + 1
    BY DEF IShape, IProcess, ProcessOK, Alive
  <1>2. /\ app'[q] = app[q] /\ pub'[q] = pub[q] /\ cmd'[q] = cmd[q] /\ writes' = writes /\ st' = st
        /\ app' = app
    BY DEF pvars
  <1>3. /\ \A i \in 1 .. Len(C) : Com(q, i)' = Com(q, i) /\ (Pending(q, i)' <=> Pending(q, i))
        /\ \A i : Pending(q, i)' => i \in 1 .. Len(D)
    BY <1>1, <1>2, PendingKept DEF IShape
  <1>4. \A i \in 1 .. Len(D) : i \in 1 .. Len(C) \/ i \in Len(C) + 1 .. Len(D)
    <2>1. Len(C) \in Nat /\ Len(D) \in Nat BY <1>1 DEF IShape, IFrames, Journal, Wrote, Grown
    <2> QED BY <2>1
  <1>5. \A i : Com(q, i)' = D[i] BY <1>2 DEF Com
  <1> HIDE DEF C, D
  <1>6. \A i : ToMaster(Com(q, i))' <=> ToMaster(D[i]) BY <1>5 DEF ToMaster
  <1>7. \A i : Pending(q, i)' /\ ToMaster(Com(q, i))' => Pending(q, i) /\ ToMaster(Com(q, i))
    <2>1. ASSUME NEW i, Pending(q, i)', ToMaster(Com(q, i))' PROVE i \in 1 .. Len(C)
      BY <2>1, <1>3, <1>4, <1>6 DEF C, D
    <2>2. \A i \in 1 .. Len(C) : ToMaster(Com(q, i))' <=> ToMaster(Com(q, i)) BY <1>3 DEF ToMaster
    <2> QED BY <2>1, <2>2, <1>3
  <1>8. \A i : Pending(q, i)' /\ (Com(q, i).typ)' = "RequestStart"
                  => Pending(q, i) /\ Com(q, i).typ = "RequestStart"
    <2>1. ASSUME NEW i, Pending(q, i)', (Com(q, i).typ)' = "RequestStart" PROVE i \in 1 .. Len(C)
      BY <2>1, <1>3, <1>4, <1>5 DEF C, D
    <2> QED BY <2>1, <1>3
  <1> QED BY <1>2, <1>7, <1>8 DEF Welcomed, Started, Alive

LEMMA TrackIs ==
    ASSUME NEW p
    PROVE  /\ tracked \subseteq Track(p) /\ (Alive(p) => p \in Track(p))
           /\ \A q \in Track(p) : q \in tracked \/ (q = p /\ Alive(p))
  <1>1. CASE Alive(p) BY <1>1, Zenon DEF Track
  <1>2. CASE ~Alive(p) BY <1>2, Zenon DEF Track
  <1> QED BY <1>1, <1>2

LEMMA BaseRegister ==
    ASSUME IBase, RegisterApp
    PROVE  IBase'
  <1> USE DEF IBase
  <1> PICK p : p = Head(inbox) OBVIOUS
  <1> PICK a : a = app[p] OBVIOUS
  <1> PICK n : n = Len(public) OBVIOUS
  <1> PICK m : m = Len(commands[a]) OBVIOUS
  <1>1. /\ p \in Pid /\ p = inbox[1] /\ a \in App /\ a \notin locations /\ st[p] # "none"
        /\ \A b \in App : b # a => commands'[b] = commands[b]
    <2>1. RegisterWrites(p, a, n, m) BY RegisterFrames DEF IShape
    <2> QED BY <2>1 DEF RegisterWrites
  <1>2. IShape' /\ Wrote BY ShapeRegister
  <1>3. /\ inbox # <<>> /\ inbox' = Tail(inbox) /\ locations' = locations \cup {a}
        /\ tracked' = Track(p) /\ UNCHANGED <<channels, requests, asked, pvars>>
        /\ app' = app /\ st' = st
    BY DEF RegisterApp, pvars
  <1>4. tracked \subseteq Pid /\ \A q \in tracked : st[q] # "none" /\ app[q] \in locations /\ app[q] # a
    BY <1>1 DEF ITracked, IShape, IMaster
  <1>5. /\ tracked \subseteq tracked' /\ (Alive(p) => p \in tracked')
        /\ \A q \in tracked' : q \in tracked \/ (q = p /\ Alive(p))
    <2>1. tracked' = Track(p) BY <1>3
    <2> QED BY <2>1, TrackIs
  <1>6. ITracked' BY <1>1, <1>3, <1>4, <1>5 DEF ITracked
  <1>7. IAlone' BY <1>3 DEF IAlone, Alive
  <1>8. ASSUME NEW q \in Pid, Alive(q), app[q] # a
        PROVE  (Welcomed(q)' => Welcomed(q)) /\ (Started(q)' => Started(q))
    <2>1. app[q] \in App BY <1>8 DEF IShape, IProcess, ProcessOK, Alive
    <2>2. commands'[app[q]] = commands[app[q]] /\ Len(commands[app[q]]) \in Nat
      BY <1>1, <1>8, <2>1 DEF IShape, IFrames, Journal
    <2>3. \A i \in Len(commands[app[q]]) + 1 .. Len(commands'[app[q]]) : FALSE BY <2>2
    <2> QED BY <2>3, <1>2, <1>3, <1>8, SessionGrows
  <1>9. ISession'
    <2>1. ASSUME NEW q \in Pid, Welcomed(q)'
          PROVE  app[q] \in locations' /\ \A r \in tracked' : app[r] = app[q] => r = q
      <3>1. Alive(q) BY <2>1, <1>3 DEF Welcomed, Alive
      <3>2. CASE app[q] = a
        <4>1. \A r \in tracked' : app[r] = a => r = p /\ Alive(p) BY <1>4, <1>5
        <4> QED BY <4>1, <3>1, <3>2, <1>1, <1>3 DEF IAlone
      <3>3. CASE app[q] # a
        <4>1. Welcomed(q) BY <2>1, <3>1, <3>3, <1>8
        <4>2. app[q] \in locations /\ \A r \in tracked : app[r] = app[q] => r = q
          BY <4>1 DEF ISession
        <4> QED BY <4>2, <3>3, <1>3, <1>5
      <3> QED BY <3>2, <3>3
    <2> QED BY <2>1, <1>3 DEF ISession
  <1>10. ITracks'
    <2> SUFFICES ASSUME ~EarlyDeath
                 PROVE  /\ IWaiting' /\ Tracked'
                        /\ \A q \in Pid : Started(q)' => q \in tracked' \/ Harmed(app[q])'
      BY DEF ITracks
    <2>1. \A b : Harmed(b) => Harmed(b)' BY <1>3 DEF Harmed
    <2>2. Alive(p) \/ Harmed(a)
      <3>1. 1 \in 1 .. Len(inbox) BY <1>3, Tailed DEF IShape, IMaster
      <3> QED BY <3>1, <1>1 DEF ITracks, IWaiting
    <2>3. IWaiting'
      <3>1. \A k \in 1 .. Len(inbox') : k + 1 \in 1 .. Len(inbox) /\ inbox'[k] = inbox[k + 1]
        BY <1>3, Tailed DEF IShape, IMaster
      <3>2. \A k \in 1 .. Len(inbox') : Alive(inbox'[k]) \/ Harmed(app[inbox'[k]])
        BY <3>1 DEF ITracks, IWaiting
      <3>3. \A q : Alive(q)' <=> Alive(q) BY <1>3 DEF Alive
      <3>4. \A k \in 1 .. Len(inbox') : Alive(inbox[k])' \/ Harmed(app[inbox[k]])'
        BY <3>2, <1>3 DEF Alive, Harmed
      <3> QED BY <3>4 DEF IWaiting
    <2>4. Tracked'
      <3>1. Tracked BY DEF ITracks
      <3>2. \A b \in locations' : (\E q \in tracked' : app[q] = b) \/ Harmed(b)
        BY <3>1, <2>2, <1>3, <1>5 DEF Tracked
      <3> QED BY <3>2, <2>1, <1>3 DEF Tracked
    <2>5. ASSUME NEW q \in Pid, Started(q)' PROVE q \in tracked' \/ Harmed(app[q])'
      <3>1. Alive(q) /\ app' = app BY <2>5, <1>3 DEF Started, Alive
      <3>2. CASE app[q] = a
        <4>1. CASE Alive(p) BY <4>1, <3>1, <3>2, <1>1, <1>5 DEF IAlone
        <4>2. CASE Harmed(a) BY <4>2, <3>1, <3>2, <2>1 DEF Harmed
        <4> QED BY <4>1, <4>2, <2>2
      <3>3. CASE app[q] # a
        <4>1. Started(q) BY <2>5, <3>1, <3>3, <1>8
        <4>2. q \in tracked \/ Harmed(app[q]) BY <4>1 DEF ITracks
        <4> QED BY <4>2, <3>1, <1>3, <1>5 DEF Harmed
      <3> QED BY <3>2, <3>3
    <2> QED BY <2>3, <2>4, <2>5
  <1> QED BY <1>2, <1>6, <1>7, <1>9, <1>10

LEMMA BaseRefuse ==
    ASSUME IBase, RefuseApp
    PROVE  IBase'
  <1> USE DEF IBase
  <1>1. IShape' BY ShapeRefuse
  <1>2. /\ inbox # <<>> /\ inbox' = Tail(inbox)
        /\ UNCHANGED <<locations, channels, tracked, public, commands, requests, pvars>>
        /\ app' = app /\ st' = st
    BY DEF RefuseApp, pvars
  <1>3. \A q \in Pid : Same(q) BY <1>2 DEF pvars, Same
  <1>4. IAlone' BY <1>2, AloneStays DEF Alive
  <1>5. \A q \in Pid : (Welcomed(q)' => Welcomed(q)) /\ (Started(q)' => Started(q))
    BY <1>2, <1>3, SessionSame
  <1>6. ASSUME ~EarlyDeath PROVE IWaiting'
    <2>1. \A k \in 1 .. Len(inbox') : k + 1 \in 1 .. Len(inbox) /\ inbox'[k] = inbox[k + 1]
      BY <1>2, Tailed DEF IShape, IMaster
    <2>2. \A k \in 1 .. Len(inbox') : Alive(inbox'[k]) \/ Harmed(app[inbox'[k]])
      BY <2>1, <1>6 DEF ITracks, IWaiting
    <2>3. \A k \in 1 .. Len(inbox') : Alive(inbox[k])' \/ Harmed(app[inbox[k]])'
      BY <2>2, <1>2 DEF Alive, Harmed
    <2> QED BY <2>3 DEF IWaiting
  <1>7. \A b \in App : requests'[b] # <<>> => b \in locations BY <1>2 DEF ITracked
  <1>8. /\ \A q \in Pid : st[q] # "none" => app'[q] = app[q] /\ st'[q] # "none"
        /\ \A q \in Pid : st[q] \in {"fault", "threw"} => st'[q] = st[q]
    BY <1>2
  <1>9. ITracked' /\ ISession' /\ ITracks'
    BY <1>2, <1>5, <1>6, <1>7, <1>8, SessionsStay
  <1> QED BY <1>1, <1>4, <1>9

LEMMA BaseHandle ==
    ASSUME IBase, NEW a \in App, HandleRequest(a)
    PROVE  IBase'
  <1> USE DEF IBase
  <1>1. IShape' /\ Wrote BY ShapeHandle
  <1>2. /\ \A c \in channels' : c.source \in locations
        /\ \A b \in App : \A i \in Len(commands[b]) + 1 .. Len(commands'[b]) :
              /\ commands'[b][i].typ \in {"WriteTo", "ReadFrom", "ReadFromPublic"}
              /\ commands'[b][i].arg \subseteq locations
    BY HandleFrames DEF IShape
  <1>3. /\ requests[a] # <<>> /\ requests' = [requests EXCEPT ![a] = Tail(requests[a])]
        /\ UNCHANGED <<inbox, locations, files, tracked, asked, pvars>> /\ app' = app /\ st' = st
    BY DEF HandleRequest, pvars
  <1>4. IAlone' BY <1>3, AloneStays DEF Alive
  <1>5. "master" \notin locations BY RegistrationAssumption DEF IShape, IMaster
  <1>6. ASSUME NEW q \in Pid PROVE (Welcomed(q)' => Welcomed(q)) /\ (Started(q)' => Started(q))
    <2>1. CASE Alive(q)
      <3>1. app[q] \in App BY <2>1 DEF IShape, IProcess, ProcessOK, Alive
      <3>2. \A i \in Len(commands[app[q]]) + 1 .. Len(commands'[app[q]]) :
               ~ToMaster(commands'[app[q]][i]) /\ commands'[app[q]][i].typ # "RequestStart"
        BY <3>1, <1>2, <1>5 DEF ToMaster
      <3> QED BY <3>2, <2>1, <1>1, <1>3, SessionGrows
    <2>2. CASE ~Alive(q) BY <2>2, <1>3 DEF Welcomed, Started, Alive
    <2> QED BY <2>1, <2>2
  <1>7. ITracked'
    <2>1. \A b \in App : requests'[b] # <<>> => requests[b] # <<>>
      BY <1>3 DEF IShape, IMaster
    <2> QED BY <2>1, <1>2, <1>3 DEF ITracked
  <1>8. ISession' BY <1>3, <1>6 DEF ISession
  <1>9. ITracks'
    <2>1. \A b : Harmed(b)' <=> Harmed(b) BY <1>3 DEF Harmed
    <2>2. IWaiting => IWaiting' BY <1>3 DEF IWaiting, Alive, Harmed
    <2>3. Tracked => Tracked' BY <1>3, <2>1 DEF Tracked
    <2>4. ASSUME NEW q \in Pid, Started(q)', ~EarlyDeath PROVE q \in tracked' \/ Harmed(app[q])'
      BY <2>4, <1>3, <1>6 DEF ITracks, Harmed
    <2> QED BY <2>2, <2>3, <2>4 DEF ITracks
  <1> QED BY <1>1, <1>4, <1>7, <1>8, <1>9

LEMMA BaseDeregister ==
    ASSUME IBase, NEW p \in Pid, DeregisterApp(p)
    PROVE  IBase'
  <1> USE DEF IBase
  <1> DEFINE a == app[p]
             f == Frame(clock + 1, "SessionEnd", {})
  <1>1. IShape' /\ Wrote BY ShapeDeregister
  <1>2. /\ a \in App /\ a \in locations /\ p \in tracked
        /\ commands'[a] = Append(commands[a], f)
        /\ \A b \in App : b # a => commands'[b] = commands[b]
    BY EndFrames DEF IShape
  <1>3. /\ tracked' = tracked \ {p} /\ locations' = locations \ {a} /\ ~Alive(p)
        /\ channels' = channels \ ChannelsOf(channels, a)
        /\ requests' = [requests EXCEPT ![a] = <<>>]
        /\ UNCHANGED <<inbox, files, asked, pvars>> /\ app' = app /\ st' = st
    BY DEF DeregisterApp, pvars
  <1>4. f \in Rec /\ f.typ = "SessionEnd"
    <2>1. clock + 1 \in Nat BY DEF IShape, IMaster
    <2> QED BY <2>1, PlainFrame
  <1> HIDE DEF f
  <1>5. IAlone' BY <1>3, AloneStays DEF Alive
  <1>6. ASSUME NEW q \in Pid PROVE (Welcomed(q)' => Welcomed(q)) /\ (Started(q)' => Started(q))
    <2>1. CASE Alive(q)
      <3>1. app[q] \in App BY <2>1 DEF IShape, IProcess, ProcessOK, Alive
      <3>2. commands[app[q]] \in Seq(Rec) BY <3>1 DEF IShape, IFrames, Journal
      <3>3. \A i \in Len(commands[app[q]]) + 1 .. Len(commands'[app[q]]) : commands'[app[q]][i] = f
        <4>1. CASE app[q] = a BY <4>1, <3>2, <1>2, <1>4, OneMore
        <4>2. CASE app[q] # a
          <5>1. commands'[app[q]] = commands[app[q]] /\ Len(commands[app[q]]) \in Nat
            BY <4>2, <3>1, <3>2, <1>2
          <5> QED BY <5>1
        <4> QED BY <4>1, <4>2
      <3> QED BY <3>3, <2>1, <1>1, <1>3, <1>4, SessionGrows DEF ToMaster
    <2>2. CASE ~Alive(q) BY <2>2, <1>3 DEF Welcomed, Started, Alive
    <2> QED BY <2>1, <2>2
  <1>7. ITracked'
    <2>1. \A q \in tracked' : st[q] # "none" /\ app[q] \in locations /\ app[q] # a
      BY <1>2, <1>3 DEF ITracked
    <2>2. \A b \in App : requests'[b] # <<>> => requests[b] # <<>> /\ b # a
      BY <1>2, <1>3 DEF IShape, IMaster
    <2>3. \A c \in channels' : c.source \in locations /\ c.source # a
      BY <1>3 DEF ChannelsOf, ITracked
    <2> QED BY <2>1, <2>2, <2>3, <1>3 DEF ITracked
  <1>8. ISession'
    <2>1. ASSUME NEW q \in Pid, Welcomed(q)
          PROVE  app[q] \in locations /\ app[q] # a /\ \A r \in tracked' : app[r] = app[q] => r = q
      <3>1. Alive(q) BY <2>1 DEF Welcomed
      <3> QED BY <2>1, <3>1, <1>2, <1>3 DEF ISession
    <2> QED BY <2>1, <1>3, <1>6 DEF ISession
  <1>9. ITracks'
    <2>1. \A b : Harmed(b)' <=> Harmed(b) BY <1>3 DEF Harmed
    <2>2. IWaiting => IWaiting' BY <1>3 DEF IWaiting, Alive, Harmed
    <2>3. Tracked => Tracked' BY <1>3, <2>1 DEF Tracked
    <2>4. ASSUME NEW q \in Pid, Started(q)', ~EarlyDeath PROVE q \in tracked' \/ Harmed(app[q])'
      <3>1. Started(q) /\ Alive(q) BY <2>4, <1>6 DEF Started
      <3>2. q # p BY <3>1, <1>3
      <3> QED BY <3>1, <3>2, <2>4, <1>3 DEF ITracks, Harmed
    <2> QED BY <2>2, <2>3, <2>4 DEF ITracks
  <1> QED BY <1>1, <1>5, <1>7, <1>8, <1>9

LEMMA BaseStep == IBase /\ [Next]_vars => IBase'
  <1> SUFFICES ASSUME IBase, [Next]_vars PROVE IBase' OBVIOUS
  <1>1. CASE RegisterApp BY <1>1, BaseRegister
  <1>2. CASE RefuseApp BY <1>2, BaseRefuse
  <1>3. ASSUME NEW a \in App, HandleRequest(a) PROVE IBase' BY <1>3, BaseHandle
  <1>4. ASSUME NEW p \in Pid, DeregisterApp(p) PROVE IBase' BY <1>4, BaseDeregister
  <1>5. ASSUME NEW p \in Pid, ReadPublic(p) PROVE IBase' BY <1>5, BasePublic
  <1>6. ASSUME NEW p \in Pid, ReadCommand(p) \/ ReadDeregisterTwice(p) PROVE IBase'
    BY <1>6, BaseCommand, BaseTwice
  <1>7. ASSUME NEW p \in Pid, Die(p) \/ Timeout(p) PROVE IBase' BY <1>7, BaseGone
  <1>8. ASSUME NEW p \in Pid, NEW a \in App, Start(p, a) PROVE IBase' BY <1>8, BaseStart
  <1>9. ASSUME NEW p \in Pid, NEW peer \in App, NEW t \in Request, AppRequest(p, t, peer)
        PROVE IBase'
    BY <1>9, BaseRequest
  <1>10. CASE UNCHANGED vars
    <2>1. UNCHANGED <<inbox, locations, files, channels, tracked, public, commands, clock,
                      requests, asked, app, st, pub, cmd, stale, known, links, reads,
                      writes, fresh, hasty>>
      BY <1>10 DEF vars, mvars, pvars
    <2>2. IShape' BY <2>1 DEF IBase, IShape, IMaster, IFrames, IDomains, IProcess, ProcessOK, Alive
    <2>3. ITracked' /\ IAlone' BY <2>1 DEF IBase, ITracked, IAlone, Alive
    <2>4. ISession' BY <2>1 DEF IBase, ISession, Welcomed, Pending, Com, ToMaster, Alive
    <2>5. ITracks'
      BY <2>1 DEF IBase, ITracks, IWaiting, Tracked, Harmed, Started, Pending, Com, Alive
    <2> QED BY <2>2, <2>3, <2>4, <2>5 DEF IBase
  <1> QED BY <1>1, <1>2, <1>3, <1>4, <1>5, <1>6, <1>7, <1>8, <1>9, <1>10 DEF Next, Master, Listen


(* What is kept for every process is a function. *)
Plain(F) == F = [x \in DOMAIN F |-> F[x]]
IFunctions ==
    /\ Plain(app) /\ Plain(st) /\ Plain(stale) /\ Plain(known) /\ Plain(links)
    /\ Plain(reads) /\ Plain(writes) /\ Plain(fresh) /\ Plain(hasty)

LEMMA Excepted == \A F, x, y : Plain([F EXCEPT ![x] = y])
  BY DEF Plain

LEMMA FunctionsStay == IFunctions /\ [Next]_vars => IFunctions'
  <1> SUFFICES ASSUME IFunctions, [Next]_vars PROVE IFunctions' OBVIOUS
  <1> USE Excepted DEF IFunctions
  <1>1. CASE Master
    <2>1. UNCHANGED pvars BY <1>1 DEF Master, RegisterApp, RefuseApp, HandleRequest
    <2> QED BY <2>1 DEF pvars
  <1>2. ASSUME NEW p \in Pid, DeregisterApp(p) PROVE IFunctions'
    BY <1>2 DEF DeregisterApp, pvars
  <1>3. ASSUME NEW p \in Pid, ReadPublic(p) PROVE IFunctions'
    <2> DEFINE f == PublicFrame(p)
    <2>2. Plain(stale)' /\ Plain(hasty)' /\ Plain(app)' /\ Plain(writes)' /\ Plain(fresh)'
      BY <1>3 DEF ReadPublic, Left
    <2>3. CASE OnRegister(p, f)
      <3>1. Plain(known)' /\ Plain(links)' /\ Plain(reads)' BY <2>3 DEF OnRegister
      <3>2. Plain(st)'
        <4>1. CASE st' = st BY <4>1
        <4>2. CASE st' = [st EXCEPT ![p] = IF app[p] \in files THEN "joined" ELSE "fault"]
          BY <4>2
        <4> QED BY <2>3, <4>1, <4>2 DEF OnRegister
      <3> QED BY <2>2, <3>1, <3>2
    <2>4. CASE OnDeregister(p, f)
      <3>1. Plain(known)' /\ Plain(links)' /\ Plain(reads)' BY <2>4 DEF OnDeregister
      <3>2. Plain(st)' BY <2>4 DEF OnDeregister
      <3> QED BY <2>2, <3>1, <3>2
    <2>5. CASE OnChannel(p, f) /\ st' = st
      <3>1. Plain(known)' /\ Plain(links)' /\ Plain(reads)' BY <2>5 DEF OnChannel
      <3>2. Plain(st)' BY <2>5
      <3> QED BY <2>2, <3>1, <3>2
    <2>6. OnRegister(p, f) \/ OnDeregister(p, f) \/ (OnChannel(p, f) /\ st' = st)
      BY <1>3 DEF ReadPublic
    <2> QED BY <2>3, <2>4, <2>5, <2>6
  <1>4. ASSUME NEW p \in Pid, ReadCommand(p) PROVE IFunctions'
    <2> DEFINE f == CommandFrame(p)
    <2>1. Plain(stale)' /\ Plain(hasty)' /\ Plain(app)' /\ Plain(fresh)'
      BY <1>4 DEF ReadCommand, Left
    <2>2. CASE OnWriteTo(p, f) /\ UNCHANGED <<known, links, reads>>
      <3>1. Plain(writes)' BY <2>2 DEF OnWriteTo
      <3>2. Plain(st)' BY <2>2 DEF OnWriteTo
      <3> QED BY <2>1, <2>2, <3>1, <3>2
    <2>3. CASE OnReadFrom(p, f) /\ UNCHANGED <<known, links, writes>>
      <3>1. Plain(reads)'
        <4>1. CASE reads' = reads BY <4>1
        <4>2. CASE reads' = [reads EXCEPT ![p] = @ \cup (f.arg \X {f.typ = "ReadFromPublic"})]
          BY <4>2
        <4> QED BY <2>3, <4>1, <4>2 DEF OnReadFrom
      <3>2. Plain(st)' BY <2>3 DEF OnReadFrom
      <3> QED BY <2>1, <2>3, <3>1, <3>2
    <2>4. CASE OnChannel(p, f) /\ UNCHANGED <<st, writes>>
      <3>1. Plain(known)' /\ Plain(links)' /\ Plain(reads)' BY <2>4 DEF OnChannel
      <3> QED BY <2>1, <2>4, <3>1
    <2>5. CASE known' = [known EXCEPT ![p] = @ \cup f.arg] /\ UNCHANGED <<st, links, reads, writes>>
      BY <2>1, <2>5
    <2>6. CASE st' = [st EXCEPT ![p] = "started"] /\ UNCHANGED <<known, links, reads, writes>>
      BY <2>1, <2>6
    <2>7. CASE UNCHANGED <<st, known, links, reads, writes>>
      BY <2>1, <2>7
    <2>8. \/ OnWriteTo(p, f) /\ UNCHANGED <<known, links, reads>>
          \/ OnReadFrom(p, f) /\ UNCHANGED <<known, links, writes>>
          \/ OnChannel(p, f) /\ UNCHANGED <<st, writes>>
          \/ known' = [known EXCEPT ![p] = @ \cup f.arg] /\ UNCHANGED <<st, links, reads, writes>>
          \/ st' = [st EXCEPT ![p] = "started"] /\ UNCHANGED <<known, links, reads, writes>>
          \/ UNCHANGED <<st, known, links, reads, writes>>
      BY <1>4 DEF ReadCommand
    <2> QED BY <2>2, <2>3, <2>4, <2>5, <2>6, <2>7, <2>8
  <1>5. ASSUME NEW p \in Pid, Die(p) \/ Timeout(p) PROVE IFunctions'
    BY <1>5 DEF Die, Timeout
  <1>6. ASSUME NEW p \in Pid, NEW a \in App, Start(p, a) PROVE IFunctions'
    BY <1>6 DEF Start
  <1>7. ASSUME NEW p \in Pid, NEW peer \in App, NEW t \in Request, AppRequest(p, t, peer)
        PROVE IFunctions'
    BY <1>7 DEF AppRequest, pvars
  <1>8. CASE UNCHANGED vars BY <1>8 DEF vars, pvars
  <1>9. ASSUME NEW p \in Pid, ReadDeregisterTwice(p) PROVE IFunctions'
    BY <1>9 DEF ReadDeregisterTwice
  <1> QED BY <1>1, <1>2, <1>3, <1>4, <1>5, <1>6, <1>7, <1>8, <1>9 DEF Next, Listen

LEMMA BaseShows == IBase /\ IFunctions => TypeOK /\ ChannelSources /\ (~EarlyDeath => Tracked /\ Session)
  <1> SUFFICES ASSUME IBase, IFunctions PROVE TypeOK /\ ChannelSources /\ (~EarlyDeath => Tracked /\ Session)
    OBVIOUS
  <1> USE DEF IBase
  <1>1. /\ \A i \in 1 .. Len(inbox) : inbox[i] \in Pid
        /\ locations \subseteq App /\ files \subseteq App /\ channels \subseteq Channel
        /\ tracked \subseteq Pid /\ clock \in Nat /\ asked \in 0 .. MaxRequest
    BY DEF IShape, IMaster
  <1>2. \A i \in 1 .. Len(public) : FrameOK(public[i])
    <2> SUFFICES ASSUME NEW i \in 1 .. Len(public) PROVE FrameOK(public[i]) OBVIOUS
    <2>1. public[i].gen \in 1 .. clock /\ PublicRec(public[i]) BY DEF IShape, IFrames, Journal
    <2> QED BY <2>1 DEF PublicRec, FrameOK, FrameType
  <1>3. \A a \in App : \A i \in 1 .. Len(commands[a]) : FrameOK(commands[a][i])
    <2> SUFFICES ASSUME NEW a \in App, NEW i \in 1 .. Len(commands[a])
                 PROVE FrameOK(commands[a][i])
      OBVIOUS
    <2>1. commands[a][i].gen \in 1 .. clock /\ CommandRec(commands[a][i])
      BY DEF IShape, IFrames, Journal
    <2> QED BY <2>1 DEF CommandRec, FrameOK, FrameType
  <1>4. \A a \in App : \A i \in 1 .. Len(requests[a]) :
           requests[a][i] \in [typ : Request, peer : App]
    <2> SUFFICES ASSUME NEW a \in App, NEW i \in 1 .. Len(requests[a])
                 PROVE  requests[a][i] \in Req
      BY DEF Req
    <2>1. requests[a] \in Seq(Req) BY DEF IShape, IMaster
    <2> QED BY <2>1
  <1>5. \A p \in Pid : ProcessOK(p) BY DEF IShape, IProcess
  <1>6. IDomains BY DEF IShape
  <1>7. /\ app \in [Pid -> App \cup {NoApp}] /\ st \in [Pid -> Status]
        /\ stale \in [Pid -> {"none", "public", "commands"}] /\ hasty \in [Pid -> BOOLEAN]
        /\ known \in [Pid -> SUBSET App] /\ links \in [Pid -> SUBSET Channel]
        /\ reads \in [Pid -> SUBSET (App \X BOOLEAN)]
        /\ writes \in [Pid -> SUBSET (App \cup {"master"})]
        /\ fresh \in [Pid -> BOOLEAN]
    BY <1>5, <1>6 DEF IDomains, ProcessOK, IFunctions, Plain
  <1>8. /\ \A p \in Pid : pub[p] \in 1 .. Len(public) + 1
        /\ \A p \in Pid : cmd[p] # 0 => cmd[p] \in 1 .. Len(commands[app[p]]) + 1
    <2>1. \A p \in Pid : pub[p] \in 1 .. Len(public) + 1 BY <1>5 DEF ProcessOK
    <2>2. ASSUME NEW p \in Pid, cmd[p] # 0 PROVE cmd[p] \in 1 .. Len(commands[app[p]]) + 1
      <3>1. /\ cmd[p] \in Nat /\ st[p] # "none" /\ app[p] \in App
            /\ cmd[p] <= Len(commands[app[p]]) + 1
        BY <1>5, <2>2 DEF ProcessOK
      <3>2. Len(commands[app[p]]) \in Nat BY <3>1 DEF IShape, IFrames, Journal
      <3> QED BY <3>1, <3>2, <2>2
    <2> QED BY <2>1, <2>2
  <1>9. TypeOK BY <1>1, <1>2, <1>3, <1>4, <1>7, <1>8 DEF TypeOK
  <1>10. ChannelSources BY DEF ITracked, ChannelSources
  <1>11. ASSUME ~EarlyDeath PROVE Tracked /\ Session
    <2>1. Tracked BY <1>11 DEF ITracks
    <2>2. ASSUME NEW p \in Pid, st[p] = "started"
          PROVE  (p \in tracked /\ app[p] \in locations) \/ Harmed(app[p])
      <3>1. Started(p) BY <2>2 DEF Started, Alive
      <3>2. p \in tracked \/ Harmed(app[p]) BY <1>11, <3>1 DEF ITracks
      <3> QED BY <3>2 DEF ITracked
    <2> QED BY <2>1, <2>2 DEF Session
  <1> QED BY <1>9, <1>10, <1>11

(* The shape of the state, and that every channel that the master          *)
(* announces has a registered source: deregister_app erases the channels   *)
(* of a source with its location and drops what it had asked, whenever     *)
(* processes die and whenever they are restarted.                          *)
THEOREM ChannelsHaveSources == Spec => [](TypeOK /\ ChannelSources)
  <1>1. Init => IBase /\ IFunctions BY InitBase DEF Init, IFunctions, Plain
  <1>2. (IBase /\ IFunctions) /\ [Next]_vars => (IBase /\ IFunctions)'
    BY BaseStep, FunctionsStay
  <1>3. IBase /\ IFunctions => TypeOK /\ ChannelSources BY BaseShows
  <1> QED BY <1>1, <1>2, <1>3, PTL DEF Spec

(* What the master keeps belongs to processes whose death it will notice:  *)
(* if no process dies before the master has read its Register              *)
(* (Master.on_register asks psutil for the process), every location has a  *)
(* process that health_check looks at, and a running application is that   *)
(* process; unless one has died of what the master wrote for another.      *)
THEOREM SessionsKept ==
    ASSUME ~EarlyDeath
    PROVE  Spec => []Sessions
  <1>1. Init => IBase /\ IFunctions BY InitBase DEF Init, IFunctions, Plain
  <1>2. (IBase /\ IFunctions) /\ [Next]_vars => (IBase /\ IFunctions)'
    BY BaseStep, FunctionsStay
  <1>3. IBase /\ IFunctions => Sessions BY BaseShows DEF Sessions
  <1> QED BY <1>1, <1>2, <1>3, PTL DEF Spec

-----------------------------------------------------------------------------
(* What the frames of the public journal before the nth say: the locations *)
(* and the channels that there were then.                                  *)
Locs(P, n) ==
    {a \in App : \E i \in 1 .. n - 1 :
        /\ P[i].typ = "Register" /\ a \in P[i].arg
        /\ \A j \in i + 1 .. n - 1 : ~(P[j].typ = "Deregister" /\ a \in P[j].arg)}
Chans(P, n) ==
    {c \in Channel : \E i \in 1 .. n - 1 :
        /\ P[i].typ = "Channel" /\ c \in P[i].arg
        /\ \A j \in i + 1 .. n - 1 : ~(P[j].typ = "Deregister" /\ c.source \in P[j].arg)}

(* The time g is just before frame n. *)
Cut(P, n, g) ==
    /\ n \in 1 .. Len(P) + 1
    /\ \A j \in 1 .. n - 1 : P[j].gen < g
    /\ \A j \in n .. Len(P) : g < P[j].gen

(* A frame of a commands journal says what the public journal said then. *)
Timely(P, f) ==
    \A n \in 1 .. Len(P) + 1 : Cut(P, n, f.gen) =>
       /\ f.typ = "Location" => f.arg = Locs(P, n)
       /\ f.typ = "Channel" => f.arg = Chans(P, n)
       /\ f.typ \in {"WriteTo", "ReadFrom", "ReadFromPublic"} =>
             f.arg \subseteq Locs(P, n) \/ (f.typ = "WriteTo" /\ f.arg = {"master"})

Apart(P, f) == \A j \in 1 .. Len(P) : P[j].gen # f.gen

ITimely ==
    /\ \A a \in App : \A i \in 1 .. Len(commands[a]) :
          Timely(public, commands[a][i]) /\ Apart(public, commands[a][i])
    /\ locations = Locs(public, Len(public) + 1)
    /\ channels = Chans(public, Len(public) + 1)

LEMMA LocsStep ==
    ASSUME NEW P, NEW n \in Nat, n >= 1
    PROVE  /\ \A a \in App :
                 a \in Locs(P, n + 1) <=>
                    \/ P[n].typ = "Register" /\ a \in P[n].arg
                    \/ a \in Locs(P, n) /\ ~(P[n].typ = "Deregister" /\ a \in P[n].arg)
           /\ \A c \in Channel :
                 c \in Chans(P, n + 1) <=>
                    \/ P[n].typ = "Channel" /\ c \in P[n].arg
                    \/ c \in Chans(P, n) /\ ~(P[n].typ = "Deregister" /\ c.source \in P[n].arg)
  <1>1. n + 1 - 1 = n /\ \A i : i \in 1 .. n <=> i \in 1 .. n - 1 \/ i = n OBVIOUS
  <1>2. \A j : ~(j \in n + 1 .. n) OBVIOUS
  <1>3. \A i \in 1 .. n - 1 : \A j : j \in i + 1 .. n <=> j \in i + 1 .. n - 1 \/ j = n OBVIOUS
  <1>4. ASSUME NEW a \in App
        PROVE  a \in Locs(P, n + 1) <=>
                  \/ P[n].typ = "Register" /\ a \in P[n].arg
                  \/ a \in Locs(P, n) /\ ~(P[n].typ = "Deregister" /\ a \in P[n].arg)
    <2> DEFINE R(i) == P[i].typ = "Register" /\ a \in P[i].arg
               D(j) == P[j].typ = "Deregister" /\ a \in P[j].arg
    <2>1. a \in Locs(P, n + 1) <=> \E i \in 1 .. n : R(i) /\ \A j \in i + 1 .. n : ~D(j)
      BY <1>1 DEF Locs
    <2>2. a \in Locs(P, n) <=> \E i \in 1 .. n - 1 : R(i) /\ \A j \in i + 1 .. n - 1 : ~D(j)
      BY DEF Locs
    <2> HIDE DEF R, D
    <2>3. (\E i \in 1 .. n : R(i) /\ \A j \in i + 1 .. n : ~D(j)) <=>
             R(n) \/ ((\E i \in 1 .. n - 1 : R(i) /\ \A j \in i + 1 .. n - 1 : ~D(j)) /\ ~D(n))
      BY <1>1, <1>2, <1>3, Zenon
    <2> QED BY <2>1, <2>2, <2>3 DEF R, D
  <1>5. ASSUME NEW c \in Channel
        PROVE  c \in Chans(P, n + 1) <=>
                  \/ P[n].typ = "Channel" /\ c \in P[n].arg
                  \/ c \in Chans(P, n) /\ ~(P[n].typ = "Deregister" /\ c.source \in P[n].arg)
    <2> DEFINE R(i) == P[i].typ = "Channel" /\ c \in P[i].arg
               D(j) == P[j].typ = "Deregister" /\ c.source \in P[j].arg
    <2>1. c \in Chans(P, n + 1) <=> \E i \in 1 .. n : R(i) /\ \A j \in i + 1 .. n : ~D(j)
      BY <1>1 DEF Chans
    <2>2. c \in Chans(P, n) <=> \E i \in 1 .. n - 1 : R(i) /\ \A j \in i + 1 .. n - 1 : ~D(j)
      BY DEF Chans
    <2> HIDE DEF R, D
    <2>3. (\E i \in 1 .. n : R(i) /\ \A j \in i + 1 .. n : ~D(j)) <=>
             R(n) \/ ((\E i \in 1 .. n - 1 : R(i) /\ \A j \in i + 1 .. n - 1 : ~D(j)) /\ ~D(n))
      BY <1>1, <1>2, <1>3, Zenon
    <2> QED BY <2>1, <2>2, <2>3 DEF R, D
  <1> QED BY <1>4, <1>5

(* What is behind the nth frame does not matter. *)
LEMMA LocsSame ==
    ASSUME NEW P, NEW Q, NEW n \in Nat, \A k \in 1 .. n - 1 : Q[k] = P[k]
    PROVE  Locs(Q, n) = Locs(P, n) /\ Chans(Q, n) = Chans(P, n)
  <1>1. \A i \in 1 .. n - 1 : \A j \in i + 1 .. n - 1 : j \in 1 .. n - 1 OBVIOUS
  <1>2. Locs(Q, n) = Locs(P, n) BY <1>1 DEF Locs
  <1>3. Chans(Q, n) = Chans(P, n) BY <1>1 DEF Chans
  <1> QED BY <1>2, <1>3

LEMMA GrownSame ==
    ASSUME NEW J \in Seq(Rec), NEW K, NEW t, NEW u, Grown(J, K, t, u),
           NEW n \in 1 .. Len(J) + 1
    PROVE  Locs(K, n) = Locs(J, n) /\ Chans(K, n) = Chans(J, n)
  <1>1. Len(J) \in Nat OBVIOUS
  <1>2. n \in Nat /\ \A k \in 1 .. n - 1 : k \in 1 .. Len(J) BY <1>1
  <1>3. \A k \in 1 .. n - 1 : K[k] = J[k] BY <1>2 DEF Grown
  <1> QED BY <1>2, <1>3, LocsSame

(* A time of a frame that was there before the journal grew. *)
LEMMA CutOld ==
    ASSUME NEW J, NEW K, NEW t \in Nat, NEW u \in Nat, Journal(J, t), Grown(J, K, t, u),
           NEW g \in 1 .. t, NEW n, Cut(K, n, g)
    PROVE  n \in 1 .. Len(J) + 1 /\ Cut(J, n, g)
  <1>1. Len(J) \in Nat /\ Len(K) \in Nat /\ Len(J) <= Len(K) BY DEF Journal, Grown
  <1>2. n \in 1 .. Len(K) + 1 BY DEF Cut
  <1>3. n \in 1 .. Len(J) + 1
    <2> SUFFICES ASSUME n > Len(J) + 1 PROVE FALSE BY <1>1, <1>2
    <2>1. Len(J) + 1 \in 1 .. n - 1 /\ Len(J) + 1 \in Len(J) + 1 .. Len(K) BY <1>1, <1>2
    <2>2. K[Len(J) + 1].gen < g /\ K[Len(J) + 1].gen \in t + 1 .. u BY <2>1 DEF Cut, Grown
    <2> QED BY <2>2
  <1>4. \A j \in 1 .. n - 1 : j \in 1 .. Len(J) BY <1>1, <1>3
  <1>5. \A j \in n .. Len(J) : j \in 1 .. Len(J) /\ j \in n .. Len(K) BY <1>1, <1>3
  <1>6. \A j \in 1 .. Len(J) : K[j] = J[j] BY DEF Grown
  <1> QED BY <1>3, <1>4, <1>5, <1>6 DEF Cut

LEMMA TimelyStep ==
    ASSUME IMaster, IFrames, Wrote, ITimely,
           \A a \in App : \A i \in Len(commands[a]) + 1 .. Len(commands'[a]) :
              Timely(public', commands'[a][i]) /\ Apart(public', commands'[a][i]),
           locations' = Locs(public', Len(public') + 1),
           channels' = Chans(public', Len(public') + 1)
    PROVE  ITimely'
  <1>1. clock \in Nat /\ clock' \in Nat /\ Journal(public, clock)
        /\ Grown(public, public', clock, clock') /\ public \in Seq(Rec)
    BY DEF IMaster, IFrames, Wrote, Journal
  <1>2. ASSUME NEW a \in App, NEW i \in 1 .. Len(commands'[a])
        PROVE  Timely(public', commands'[a][i]) /\ Apart(public', commands'[a][i])
    <2> DEFINE C == commands[a]
    <2>1. Len(C) \in Nat /\ Len(commands'[a]) \in Nat /\ Len(C) <= Len(commands'[a])
      BY DEF IFrames, Journal, Wrote, Grown
    <2>2. CASE i \in 1 .. Len(C)
      <3>1. PICK f : f = C[i] OBVIOUS
      <3>2. f = commands'[a][i] BY <2>2, <3>1 DEF Wrote, Grown
      <3>3. f.gen \in 1 .. clock /\ Timely(public, f) /\ Apart(public, f)
        BY <2>2, <3>1 DEF IFrames, Journal, ITimely
      <3>4. Apart(public', f)
        <4>1. Len(public) \in Nat /\ Len(public') \in Nat BY <1>1 DEF Grown
        <4>2. \A j \in 1 .. Len(public') : j \in 1 .. Len(public) \/ j \in Len(public) + 1 .. Len(public')
          BY <4>1
        <4>3. \A j \in 1 .. Len(public) : public'[j].gen # f.gen BY <1>1, <3>3 DEF Apart, Grown
        <4>4. \A j \in Len(public) + 1 .. Len(public') : public'[j].gen # f.gen
          <5>1. \A j \in Len(public) + 1 .. Len(public') : public'[j].gen \in clock + 1 .. clock'
            BY <1>1 DEF Grown
          <5> QED BY <5>1, <3>3, <1>1
        <4> QED BY <4>2, <4>3, <4>4 DEF Apart
      <3>5. ASSUME NEW n \in 1 .. Len(public') + 1, Cut(public', n, f.gen)
            PROVE  /\ n \in 1 .. Len(public) + 1 /\ Cut(public, n, f.gen)
                   /\ Locs(public', n) = Locs(public, n) /\ Chans(public', n) = Chans(public, n)
        <4>1. n \in 1 .. Len(public) + 1 /\ Cut(public, n, f.gen) BY <1>1, <3>3, <3>5, CutOld
        <4> QED BY <4>1, <1>1, GrownSame
      <3>6. Timely(public', f) BY <3>3, <3>5 DEF Timely
      <3> QED BY <3>2, <3>4, <3>6
    <2>3. CASE i \in Len(C) + 1 .. Len(commands'[a]) BY <2>3
    <2> QED BY <2>1, <2>2, <2>3
  <1> QED BY <1>2 DEF ITimely

LEMMA SeqGen ==
    ASSUME NEW J \in Seq(Rec)
    PROVE  Len(J) \in Nat /\ \A j \in 1 .. Len(J) : J[j] \in Rec /\ J[j].gen \in Nat
  <1>1. Len(J) \in Nat /\ \A j \in 1 .. Len(J) : J[j] \in Rec OBVIOUS
  <1> QED BY <1>1 DEF Rec

LEMMA FourOnly ==
    ASSUME NEW m \in Nat
    PROVE  /\ \A i \in m + 1 .. m + 4 : i = m + 1 \/ i = m + 2 \/ i = m + 3 \/ i = m + 4
           /\ m + 1 \in m + 1 .. m + 4 /\ m + 2 \in m + 1 .. m + 4
           /\ m + 3 \in m + 1 .. m + 4 /\ m + 4 \in m + 1 .. m + 4
  OBVIOUS

LEMMA CutOne ==
    ASSUME NEW P \in Seq(Rec), NEW g \in Nat, NEW m, NEW n, Cut(P, m, g), Cut(P, n, g)
    PROVE  m = n
  <1>1. Len(P) \in Nat /\ m \in 1 .. Len(P) + 1 /\ n \in 1 .. Len(P) + 1 BY DEF Cut
  <1>2. \A j \in 1 .. Len(P) : P[j].gen \in Nat BY SeqGen
  <1>3. ASSUME NEW x \in 1 .. Len(P) + 1, NEW y \in 1 .. Len(P) + 1, x < y,
               Cut(P, x, g), Cut(P, y, g)
        PROVE  FALSE
    <2>1. x \in 1 .. y - 1 /\ x \in x .. Len(P) /\ x \in 1 .. Len(P) BY <1>1, <1>3
    <2>2. P[x].gen < g /\ g < P[x].gen /\ P[x].gen \in Nat BY <2>1, <1>2, <1>3 DEF Cut
    <2> QED BY <2>2
  <1> QED BY <1>1, <1>3

LEMMA TimelyAt ==
    ASSUME NEW P \in Seq(Rec), NEW f \in Rec, NEW m, Cut(P, m, f.gen),
           f.typ = "Location" => f.arg = Locs(P, m),
           f.typ = "Channel" => f.arg = Chans(P, m),
           f.typ \in {"WriteTo", "ReadFrom", "ReadFromPublic"} =>
              f.arg \subseteq Locs(P, m) \/ (f.typ = "WriteTo" /\ f.arg = {"master"})
    PROVE  Timely(P, f) /\ Apart(P, f)
  <1>1. f.gen \in Nat BY DEF Rec
  <1>2. \A n \in 1 .. Len(P) + 1 : Cut(P, n, f.gen) => n = m BY <1>1, CutOne
  <1>3. Timely(P, f) BY <1>2 DEF Timely
  <1>4. Len(P) \in Nat /\ m \in 1 .. Len(P) + 1 BY DEF Cut
  <1>5. \A j \in 1 .. Len(P) : P[j].gen \in Nat BY SeqGen
  <1>6. \A j \in 1 .. Len(P) : j \in 1 .. m - 1 \/ j \in m .. Len(P) BY <1>4
  <1>7. \A j \in 1 .. Len(P) : P[j].gen < f.gen \/ f.gen < P[j].gen BY <1>6 DEF Cut
  <1>8. Apart(P, f) BY <1>1, <1>5, <1>7 DEF Apart
  <1> QED BY <1>3, <1>8

(* The time of a frame that is written now is behind all frames that were  *)
(* there, and before or behind the one that is written with it.            *)
LEMMA CutNew ==
    ASSUME NEW P, NEW t \in Nat, Journal(P, t), NEW Q \in Seq(Rec),
           Len(Q) = Len(P) + 1, \A k \in 1 .. Len(P) : Q[k] = P[k],
           NEW g \in Nat, g > t
    PROVE  /\ g < Q[Len(P) + 1].gen => Cut(Q, Len(P) + 1, g)
           /\ Q[Len(P) + 1].gen < g => Cut(Q, Len(P) + 2, g)
  <1>1. Len(P) \in Nat /\ \A k \in 1 .. Len(P) : P[k].gen \in 1 .. t BY DEF Journal
  <1>2. \A k \in 1 .. Len(P) : Q[k].gen < g BY <1>1
  <1>3. /\ \A k \in Len(P) + 1 .. Len(Q) : k = Len(P) + 1
        /\ \A k \in 1 .. Len(P) + 1 - 1 : k \in 1 .. Len(P)
        /\ \A k \in 1 .. Len(P) + 2 - 1 : k \in 1 .. Len(P) \/ k = Len(P) + 1
        /\ \A k : ~(k \in Len(P) + 2 .. Len(Q))
    BY <1>1
  <1>4. Len(P) + 1 \in 1 .. Len(Q) + 1 /\ Len(P) + 2 \in 1 .. Len(Q) + 1 BY <1>1
  <1> QED BY <1>2, <1>3, <1>4 DEF Cut

LEMMA CutEnd ==
    ASSUME NEW P, NEW t \in Nat, Journal(P, t), NEW g \in Nat, g > t
    PROVE  Cut(P, Len(P) + 1, g)
  <1>1. Len(P) \in Nat /\ \A k \in 1 .. Len(P) : P[k].gen \in 1 .. t BY DEF Journal
  <1>2. \A k \in 1 .. Len(P) + 1 - 1 : k \in 1 .. Len(P) BY <1>1
  <1>3. \A k : ~(k \in Len(P) + 1 .. Len(P)) BY <1>1
  <1> QED BY <1>1, <1>2, <1>3 DEF Cut

LEMMA LocsSubset ==
    ASSUME NEW P, NEW n
    PROVE  Locs(P, n) \subseteq App /\ Chans(P, n) \subseteq Channel
  BY DEF Locs, Chans

LEMMA TimelyInit == Init => ITimely
  <1> SUFFICES ASSUME Init PROVE ITimely OBVIOUS
  <1>1. public = <<>> /\ Len(public) = 0 /\ \A a \in App : Len(commands[a]) = 0 BY DEF Init
  <1>2. Len(public) + 1 - 1 = 0 BY <1>1
  <1>3. Locs(public, Len(public) + 1) = {} /\ Chans(public, Len(public) + 1) = {}
    BY <1>2 DEF Locs, Chans
  <1>4. locations = {} /\ channels = {} BY DEF Init
  <1> QED BY <1>1, <1>3, <1>4 DEF ITimely

LEMMA TimelyQuiet ==
    ASSUME ITimely, UNCHANGED <<public, commands, locations, channels>>
    PROVE  ITimely'
  BY DEF ITimely

LEMMA TimelyRegister ==
    ASSUME IShape, ITimely, RegisterApp
    PROVE  ITimely'
  <1> PICK p : p = Head(inbox) OBVIOUS
  <1> PICK a : a = app[p] OBVIOUS
  <1> PICK n : n = Len(public) OBVIOUS
  <1> PICK m : m = Len(commands[a]) OBVIOUS
  <1>1. /\ a \in App /\ n \in Nat /\ m \in Nat
        /\ Len(public') = n + 1 /\ public'[n + 1] = Frame(clock + 1, "Register", {a})
        /\ Len(commands'[a]) = m + 4
        /\ ToMaster(commands'[a][m + 1]) /\ commands'[a][m + 1].gen = clock + 2
        /\ commands'[a][m + 2] = Frame(clock + 3, "Location", locations \cup {a})
        /\ commands'[a][m + 3] = Frame(clock + 4, "Channel", channels)
        /\ commands'[a][m + 4] = Frame(clock + 5, "RequestStart", {})
        /\ \A b \in App : b # a => commands'[b] = commands[b]
        /\ Wrote
    <2>1. RegisterWrites(p, a, n, m) BY RegisterFrames DEF IShape
    <2> QED BY <2>1 DEF RegisterWrites
  <1>2. /\ clock \in Nat /\ Journal(public, clock) /\ public' \in Seq(Rec) /\ public \in Seq(Rec)
        /\ \A k \in 1 .. n : public'[k] = public[k]
        /\ Grown(public, public', clock, clock')
    BY <1>1 DEF IShape, IMaster, IFrames, Wrote, Grown, Journal
  <1>3. locations \subseteq App /\ channels \subseteq Channel BY DEF IShape, IMaster
  <1>4. locations' = locations \cup {a} /\ channels' = channels BY DEF RegisterApp
  <1>5. Locs(public', n + 1) = locations /\ Chans(public', n + 1) = channels
    <2>1. n + 1 \in 1 .. Len(public) + 1 BY <1>1
    <2>2. locations = Locs(public, n + 1) /\ channels = Chans(public, n + 1) BY DEF ITimely
    <2> QED BY <2>1, <2>2, <1>2, GrownSame, Zenon
  <1>6. /\ public'[n + 1].gen = clock + 1 /\ public'[n + 1].typ = "Register"
        /\ public'[n + 1].arg = {a}
    BY <1>1 DEF Frame
  <1>7. Locs(public', n + 2) = locations \cup {a} /\ Chans(public', n + 2) = channels
    <2>1. n + 1 \in Nat /\ n + 1 >= 1 /\ n + 1 + 1 = n + 2 BY <1>1
    <2>2. \A x \in App : x \in Locs(public', n + 2) <=> x \in {a} \/ x \in locations
      BY <2>1, <1>5, <1>6, LocsStep
    <2>3. \A c \in Channel : c \in Chans(public', n + 2) <=> c \in channels
      BY <2>1, <1>5, <1>6, LocsStep
    <2>4. Locs(public', n + 2) \subseteq App /\ Chans(public', n + 2) \subseteq Channel
      BY LocsSubset
    <2>5. Locs(public', n + 2) = locations \cup {a} BY <2>2, <2>4, <1>1, <1>3
    <2>6. Chans(public', n + 2) = channels BY <2>3, <2>4, <1>3
    <2> QED BY <2>5, <2>6
  <1>8. ASSUME NEW g \in Nat, g > clock + 1 PROVE Cut(public', n + 2, g)
    <2>1. g > clock BY <1>8, <1>2
    <2> QED BY <2>1, <1>1, <1>2, <1>6, <1>8, CutNew
  <1>9. /\ commands'[a][m + 1].gen = clock + 2 /\ commands'[a][m + 1].typ = "WriteTo"
        /\ commands'[a][m + 1].arg = {"master"}
        /\ commands'[a][m + 2].gen = clock + 3 /\ commands'[a][m + 2].typ = "Location"
        /\ commands'[a][m + 2].arg = locations \cup {a}
        /\ commands'[a][m + 3].gen = clock + 4 /\ commands'[a][m + 3].typ = "Channel"
        /\ commands'[a][m + 3].arg = channels
        /\ commands'[a][m + 4].gen = clock + 5 /\ commands'[a][m + 4].typ = "RequestStart"
    BY <1>1 DEF Frame, ToMaster
  <1>10. commands'[a] \in Seq(Rec) BY <1>1 DEF Wrote, Grown
  <1>11. ASSUME NEW i \in m + 1 .. m + 4
         PROVE  Timely(public', commands'[a][i]) /\ Apart(public', commands'[a][i])
    <2> PICK f : f = commands'[a][i] OBVIOUS
    <2>1. f \in Rec
      <3>1. i \in 1 .. Len(commands'[a]) BY <1>1
      <3> QED BY <3>1, <1>10
    <2>2. i = m + 1 \/ i = m + 2 \/ i = m + 3 \/ i = m + 4 BY <1>1, FourOnly, Zenon
    <2>3. f.gen \in Nat /\ f.gen > clock + 1
      <3>1. f.gen \in {clock + 2, clock + 3, clock + 4, clock + 5} BY <2>2, <1>9, Zenon
      <3>2. clock \in Nat BY <1>2
      <3>3. \A g : g \in {clock + 2, clock + 3, clock + 4, clock + 5} => g \in Nat /\ g > clock + 1
        BY <3>2
      <3> QED BY <3>1, <3>3, Zenon
    <2>4. Cut(public', n + 2, f.gen) BY <2>3, <1>8
    <2>5. /\ f.typ = "Location" => f.arg = Locs(public', n + 2)
          /\ f.typ = "Channel" => f.arg = Chans(public', n + 2)
          /\ f.typ \in {"WriteTo", "ReadFrom", "ReadFromPublic"} =>
                f.typ = "WriteTo" /\ f.arg = {"master"}
      <3>1. CASE i = m + 1 BY <3>1, <1>9
      <3>2. CASE i = m + 2 BY <3>2, <1>7, <1>9
      <3>3. CASE i = m + 3 BY <3>3, <1>7, <1>9
      <3>4. CASE i = m + 4 BY <3>4, <1>9
      <3> QED BY <2>2, <3>1, <3>2, <3>3, <3>4
    <2> QED BY <2>1, <2>4, <2>5, <1>2, TimelyAt
  <1>12. ASSUME NEW b \in App, NEW i \in Len(commands[b]) + 1 .. Len(commands'[b])
         PROVE  Timely(public', commands'[b][i]) /\ Apart(public', commands'[b][i])
    <2>1. CASE b = a BY <2>1, <1>1, <1>11
    <2>2. CASE b # a
      <3>1. Len(commands[b]) \in Nat /\ commands'[b] = commands[b]
        BY <2>2, <1>1 DEF IShape, IFrames, Journal
      <3> QED BY <3>1
    <2> QED BY <2>1, <2>2
  <1>13. Len(public') + 1 = n + 2 BY <1>1
  <1> QED BY <1>1, <1>4, <1>7, <1>12, <1>13, TimelyStep DEF IShape

(* A channel is connected; a request for a public journal is passed on. *)
Connected(s, d) ==
    /\ Len(public') = Len(public) + 1
    /\ public'[Len(public) + 1] = Frame(clock + 3, "Channel", {[source |-> s, dest |-> d]})
    /\ channels' = channels \cup {[source |-> s, dest |-> d]}
    /\ \A b \in App : \A i \in Len(commands[b]) + 1 .. Len(commands'[b]) :
          \/ b = s /\ commands'[b][i] = Frame(clock + 1, "WriteTo", {d})
          \/ b = d /\ commands'[b][i] = Frame(clock + 2, "ReadFrom", {s})
PassedOn(a, peer) ==
    /\ public' = public /\ channels' = channels
    /\ \A b \in App : \A i \in Len(commands[b]) + 1 .. Len(commands'[b]) :
          b = a /\ commands'[b][i] = Frame(clock + 1, "ReadFromPublic", {peer})

LEMMA ConnectSays ==
    ASSUME IMaster, IFrames, NEW s \in App, NEW d \in App, s # d, Connect(s, d)
    PROVE  Connected(s, d)
  <1> DEFINE w == Frame(clock + 1, "WriteTo", {d})
             f == Frame(clock + 2, "ReadFrom", {s})
             c == Frame(clock + 3, "Channel", {[source |-> s, dest |-> d]})
  <1>1. /\ commands' = [[commands EXCEPT ![s] = Append(commands[s], w)] EXCEPT ![d] =
                           Append([commands EXCEPT ![s] = Append(commands[s], w)][d], f)]
        /\ public' = Append(public, c)
        /\ channels' = channels \cup {[source |-> s, dest |-> d]}
    BY DEF Connect
  <1>2. DOMAIN commands = App /\ clock \in Nat BY DEF IMaster
  <1>3. public \in Seq(Rec) /\ \A b \in App : commands[b] \in Seq(Rec) BY DEF IFrames, Journal
  <1>4. w \in Rec /\ f \in Rec /\ c \in Rec
    <2>1. clock + 1 \in Nat /\ clock + 2 \in Nat /\ clock + 3 \in Nat BY <1>2
    <2>2. {d} \subseteq App /\ {s} \subseteq App /\ {[source |-> s, dest |-> d]} \subseteq Channel
      BY DEF Channel
    <2> QED BY <2>1, <2>2, OrderFrame, ChannelFrame
  <1> HIDE DEF w, f, c
  <1>5. commands'[s] = Append(commands[s], w) /\ commands'[d] = Append(commands[d], f)
    BY <1>1, <1>2
  <1>6. \A b \in App : b # s /\ b # d => commands'[b] = commands[b]
    BY <1>1, <1>2
  <1>7. Len(public') = Len(public) + 1 /\ public'[Len(public) + 1] = c
    BY <1>1, <1>3, <1>4, Appended
  <1>8. ASSUME NEW b \in App, NEW i \in Len(commands[b]) + 1 .. Len(commands'[b])
        PROVE  (b = s /\ commands'[b][i] = w) \/ (b = d /\ commands'[b][i] = f)
    <2>1. CASE b = s BY <2>1, <1>3, <1>4, <1>5, OneMore
    <2>2. CASE b = d BY <2>2, <1>3, <1>4, <1>5, OneMore
    <2>3. CASE b # s /\ b # d
      <3>1. commands'[b] = commands[b] /\ Len(commands[b]) \in Nat BY <2>3, <1>3, <1>6
      <3> QED BY <3>1
    <2> QED BY <2>1, <2>2, <2>3
  <1> QED BY <1>1, <1>7, <1>8 DEF Connected, w, f, c

LEMMA HandleSays ==
    ASSUME IMaster, IFrames, ITracked, NEW a \in App, HandleRequest(a)
    PROVE  /\ a \in locations
           /\ \/ UNCHANGED <<channels, public, commands, clock>>
              \/ \E s, d \in locations : s # d /\ Connected(s, d)
              \/ \E peer \in locations : PassedOn(a, peer)
  <1> DEFINE r == Head(requests[a])
  <1>1. r.peer \in App /\ r.peer # a /\ requests[a] # <<>> BY RequestIs DEF HandleRequest
  <1>2. a \in locations /\ locations \subseteq App BY <1>1 DEF ITracked, IMaster
  <1>3. \/ UNCHANGED <<channels, public, commands, clock>>
        \/ r.peer \in locations /\ Connect(a, r.peer)
        \/ r.peer \in locations /\ Connect(r.peer, a)
        \/ /\ r.peer \in locations
           /\ commands' = [commands EXCEPT ![a] =
                              Append(commands[a], Frame(clock + 1, "ReadFromPublic", {r.peer}))]
           /\ UNCHANGED <<channels, public>>
    BY DEF HandleRequest
  <1> HIDE DEF r
  <1>4. CASE r.peer \in locations /\ Connect(a, r.peer) BY <1>1, <1>2, <1>4, ConnectSays
  <1>5. CASE r.peer \in locations /\ Connect(r.peer, a) BY <1>1, <1>2, <1>5, ConnectSays
  <1>6. CASE /\ r.peer \in locations
             /\ commands' = [commands EXCEPT ![a] =
                                Append(commands[a], Frame(clock + 1, "ReadFromPublic", {r.peer}))]
             /\ UNCHANGED <<channels, public>>
    <2> DEFINE f == Frame(clock + 1, "ReadFromPublic", {r.peer})
    <2>1. f \in Rec
      <3>1. clock + 1 \in Nat /\ {r.peer} \subseteq App BY <1>1 DEF IMaster
      <3> QED BY <3>1, OrderFrame
    <2>2. /\ commands'[a] = Append(commands[a], f)
          /\ \A b \in App : b # a => commands'[b] = commands[b]
      BY <1>6 DEF IMaster
    <2> HIDE DEF f
    <2>3. \A b \in App : commands[b] \in Seq(Rec) BY DEF IFrames, Journal
    <2>4. ASSUME NEW b \in App, NEW i \in Len(commands[b]) + 1 .. Len(commands'[b])
          PROVE  b = a /\ commands'[b][i] = f
      <3>1. CASE b = a BY <3>1, <2>1, <2>2, <2>3, OneMore
      <3>2. CASE b # a
        <4>1. commands'[b] = commands[b] /\ Len(commands[b]) \in Nat BY <3>2, <2>2, <2>3
        <4> QED BY <4>1
      <3> QED BY <3>1, <3>2
    <2>5. PassedOn(a, r.peer) BY <1>6, <2>4 DEF PassedOn, f
    <2> QED BY <2>5, <1>2, <1>6
  <1> QED BY <1>2, <1>3, <1>4, <1>5, <1>6

LEMMA TimelyHandle ==
    ASSUME IShape, ITracked, ITimely, NEW a \in App, HandleRequest(a)
    PROVE  ITimely'
  <1> USE DEF IShape
  <1>1. Wrote /\ IFrames' BY HandleFrames
  <1>2. locations' = locations BY DEF HandleRequest
  <1>3. /\ clock \in Nat /\ Journal(public, clock) /\ public' \in Seq(Rec) /\ public \in Seq(Rec)
        /\ \A k \in 1 .. Len(public) : public'[k] = public[k] /\ Len(public) \in Nat
        /\ Grown(public, public', clock, clock')
        /\ locations \subseteq App /\ channels \subseteq Channel
    BY <1>1 DEF IMaster, IFrames, Wrote, Grown, Journal
  <1> PICK n : n = Len(public) OBVIOUS
  <1>4. n \in Nat BY <1>3
  <1>5. locations = Locs(public, n + 1) /\ channels = Chans(public, n + 1) BY DEF ITimely
  <1>6. Locs(public', n + 1) = locations /\ Chans(public', n + 1) = channels
    <2>1. n + 1 \in 1 .. Len(public) + 1 BY <1>4
    <2> QED BY <2>1, <1>3, <1>5, GrownSame, Zenon
  <1>7. ASSUME NEW b \in App, NEW i \in Len(commands[b]) + 1 .. Len(commands'[b])
        PROVE  commands'[b][i] \in Rec
    <2>1. commands'[b] \in Seq(Rec) /\ Len(commands[b]) \in Nat /\ Len(commands'[b]) \in Nat
      BY <1>1 DEF Wrote, Grown, IFrames, Journal
    <2>2. i \in 1 .. Len(commands'[b]) BY <2>1
    <2> QED BY <2>1, <2>2
  <1>8. CASE UNCHANGED <<channels, public, commands, clock>> BY <1>2, <1>8, TimelyQuiet
  <1>9. ASSUME NEW s \in locations, NEW d \in locations, s # d, Connected(s, d) PROVE ITimely'
    <2>1. /\ Len(public') = n + 1 /\ public'[n + 1].typ = "Channel"
          /\ public'[n + 1].gen = clock + 3
          /\ public'[n + 1].arg = {[source |-> s, dest |-> d]}
          /\ channels' = channels \cup {[source |-> s, dest |-> d]}
      BY <1>9 DEF Connected, Frame
    <2>2. Locs(public', n + 2) = locations /\ Chans(public', n + 2) = channels'
      <3>1. n + 1 \in Nat /\ n + 1 >= 1 /\ n + 1 + 1 = n + 2 BY <1>4
      <3>2. \A x \in App : x \in Locs(public', n + 2) <=> x \in locations
        BY <3>1, <2>1, <1>6, LocsStep
      <3>3. \A c \in Channel : c \in Chans(public', n + 2) <=>
                                  c = [source |-> s, dest |-> d] \/ c \in channels
        BY <3>1, <2>1, <1>6, LocsStep
      <3>4. Locs(public', n + 2) \subseteq App /\ Chans(public', n + 2) \subseteq Channel
        BY LocsSubset
      <3>5. [source |-> s, dest |-> d] \in Channel BY <1>3 DEF Channel
      <3>6. Locs(public', n + 2) = locations BY <3>2, <3>4, <1>3
      <3>7. Chans(public', n + 2) = channels' BY <3>3, <3>4, <3>5, <2>1, <1>3
      <3> QED BY <3>6, <3>7
    <2>3. ASSUME NEW b \in App, NEW i \in Len(commands[b]) + 1 .. Len(commands'[b])
          PROVE  Timely(public', commands'[b][i]) /\ Apart(public', commands'[b][i])
      <3> PICK f : f = commands'[b][i] OBVIOUS
      <3>1. f \in Rec BY <1>7
      <3>2. f = Frame(clock + 1, "WriteTo", {d}) \/ f = Frame(clock + 2, "ReadFrom", {s})
        BY <1>9 DEF Connected
      <3>3. f.gen \in {clock + 1, clock + 2} /\ f.typ \in {"WriteTo", "ReadFrom"}
            /\ f.arg \subseteq locations
        BY <3>2 DEF Frame
      <3>4. f.gen \in Nat /\ f.gen > clock /\ f.gen < public'[n + 1].gen
        <4>1. clock \in Nat BY <1>3
        <4>2. \A g \in {clock + 1, clock + 2} : g \in Nat /\ g > clock /\ g < clock + 3
          BY <4>1
        <4> QED BY <4>2, <3>3, <2>1, Zenon
      <3>5. Cut(public', n + 1, f.gen) BY <3>4, <2>1, <1>3, CutNew
      <3> QED BY <3>1, <3>3, <3>5, <1>3, <1>6, TimelyAt
    <2>4. Len(public') + 1 = n + 2 BY <2>1, <1>4
    <2> QED BY <1>1, <1>2, <2>2, <2>3, <2>4, TimelyStep
  <1>10. ASSUME NEW peer \in locations, PassedOn(a, peer) PROVE ITimely'
    <2>1. public' = public /\ channels' = channels BY <1>10 DEF PassedOn
    <2>2. ASSUME NEW b \in App, NEW i \in Len(commands[b]) + 1 .. Len(commands'[b])
          PROVE  Timely(public', commands'[b][i]) /\ Apart(public', commands'[b][i])
      <3> PICK f : f = commands'[b][i] OBVIOUS
      <3>1. f \in Rec BY <1>7
      <3>2. f = Frame(clock + 1, "ReadFromPublic", {peer}) BY <1>10 DEF PassedOn
      <3>3. f.gen = clock + 1 /\ f.typ = "ReadFromPublic" /\ f.arg \subseteq locations
        BY <3>2 DEF Frame
      <3>4. f.gen \in Nat /\ f.gen > clock
        <4>1. clock \in Nat BY <1>3
        <4> QED BY <4>1, <3>3
      <3>5. Cut(public, n + 1, f.gen) BY <3>4, <1>3, CutEnd
      <3> QED BY <3>1, <3>3, <3>5, <2>1, <1>3, <1>5, TimelyAt
    <2> QED BY <1>1, <1>2, <1>5, <2>1, <2>2, TimelyStep
  <1> QED BY <1>8, <1>9, <1>10, HandleSays

LEMMA TimelyDeregister ==
    ASSUME IShape, ITracked, ITimely, NEW p \in Pid, DeregisterApp(p)
    PROVE  ITimely'
  <1> USE DEF IShape
  <1> PICK a : a = app[p] OBVIOUS
  <1> PICK n : n = Len(public) OBVIOUS
  <1> DEFINE f == Frame(clock + 1, "SessionEnd", {})
             g == Frame(clock + 2, "Deregister", {a})
  <1>1. /\ a \in App /\ commands'[a] = Append(commands[a], f)
        /\ \A b \in App : b # a => commands'[b] = commands[b]
        /\ public' = Append(public, g) /\ Wrote
    BY EndFrames
  <1>2. /\ clock \in Nat /\ Journal(public, clock) /\ public' \in Seq(Rec) /\ public \in Seq(Rec)
        /\ \A k \in 1 .. Len(public) : public'[k] = public[k]
        /\ Grown(public, public', clock, clock')
        /\ \A b \in App : commands[b] \in Seq(Rec)
    BY <1>1 DEF IMaster, IFrames, Wrote, Grown, Journal
  <1>3. /\ locations' = locations \ {a} /\ channels' = channels \ ChannelsOf(channels, a)
        /\ locations \subseteq App /\ channels \subseteq Channel
    BY DEF DeregisterApp, IMaster
  <1>4. /\ f \in Rec /\ f.gen = clock + 1 /\ f.typ = "SessionEnd"
        /\ g \in Rec /\ g.gen = clock + 2 /\ g.typ = "Deregister" /\ g.arg = {a}
    <2>1. clock + 1 \in Nat /\ clock + 2 \in Nat /\ {a} \subseteq App BY <1>1, <1>2
    <2> QED BY <2>1, PlaceFrame, PlainFrame
  <1> HIDE DEF f, g
  <1>5. n \in Nat /\ Len(public') = n + 1 /\ public'[n + 1] = g
    BY <1>1, <1>2, <1>4, Appended
  <1>6. Locs(public', n + 1) = locations /\ Chans(public', n + 1) = channels
    <2>1. n + 1 \in 1 .. Len(public) + 1 BY <1>5
    <2>2. locations = Locs(public, n + 1) /\ channels = Chans(public, n + 1) BY DEF ITimely
    <2> QED BY <2>1, <2>2, <1>2, GrownSame, Zenon
  <1>7. Locs(public', n + 2) = locations' /\ Chans(public', n + 2) = channels'
    <2>1. n + 1 \in Nat /\ n + 1 >= 1 /\ n + 1 + 1 = n + 2 BY <1>5
    <2>2. \A x \in App : x \in Locs(public', n + 2) <=> x \in locations /\ x # a
      BY <2>1, <1>4, <1>5, <1>6, LocsStep
    <2>3. \A c \in Channel : c \in Chans(public', n + 2) <=> c \in channels /\ c.source # a
      BY <2>1, <1>4, <1>5, <1>6, LocsStep
    <2>4. Locs(public', n + 2) \subseteq App /\ Chans(public', n + 2) \subseteq Channel
      BY LocsSubset
    <2>5. Locs(public', n + 2) = locations' BY <2>2, <2>4, <1>3
    <2>6. Chans(public', n + 2) = channels' BY <2>3, <2>4, <1>3 DEF ChannelsOf
    <2> QED BY <2>5, <2>6
  <1>8. ASSUME NEW b \in App, NEW i \in Len(commands[b]) + 1 .. Len(commands'[b])
        PROVE  Timely(public', commands'[b][i]) /\ Apart(public', commands'[b][i])
    <2>1. CASE b = a
      <3>1. commands'[b][i] = f BY <2>1, <1>1, <1>2, <1>4, OneMore
      <3>2. f.gen \in Nat /\ f.gen > clock /\ f.gen < public'[n + 1].gen BY <1>2, <1>4, <1>5
      <3>3. Cut(public', n + 1, f.gen) BY <3>2, <1>2, <1>5, CutNew
      <3> QED BY <3>1, <3>3, <1>2, <1>4, TimelyAt
    <2>2. CASE b # a
      <3>1. Len(commands[b]) \in Nat /\ commands'[b] = commands[b] BY <2>2, <1>1, <1>2
      <3> QED BY <3>1
    <2> QED BY <2>1, <2>2
  <1>9. Len(public') + 1 = n + 2 BY <1>5
  <1> QED BY <1>1, <1>7, <1>8, <1>9, TimelyStep

LEMMA TimelyNext == IBase /\ ITimely /\ [Next]_vars => ITimely'
  <1> SUFFICES ASSUME IBase, ITimely, [Next]_vars PROVE ITimely' OBVIOUS
  <1> USE DEF IBase
  <1>1. CASE RegisterApp BY <1>1, TimelyRegister
  <1>2. CASE RefuseApp BY <1>2, TimelyQuiet DEF RefuseApp
  <1>3. ASSUME NEW a \in App, HandleRequest(a) PROVE ITimely' BY <1>3, TimelyHandle
  <1>4. ASSUME NEW p \in Pid, DeregisterApp(p) PROVE ITimely' BY <1>4, TimelyDeregister
  <1>5. ASSUME NEW p \in Pid, ReadPublic(p) PROVE ITimely'
    BY <1>5, TimelyQuiet DEF ReadPublic, mvars
  <1>6. ASSUME NEW p \in Pid, ReadCommand(p) \/ ReadDeregisterTwice(p) PROVE ITimely'
    BY <1>6, TimelyQuiet DEF ReadCommand, ReadDeregisterTwice, mvars
  <1>7. ASSUME NEW p \in Pid, Die(p) \/ Timeout(p) PROVE ITimely'
    BY <1>7, TimelyQuiet DEF Die, Timeout, mvars
  <1>8. ASSUME NEW p \in Pid, NEW a \in App, Start(p, a) PROVE ITimely'
    BY <1>8, TimelyQuiet DEF Start
  <1>9. ASSUME NEW p \in Pid, NEW peer \in App, NEW t \in Request, AppRequest(p, t, peer)
        PROVE ITimely'
    BY <1>9, TimelyQuiet DEF AppRequest, mvars
  <1>10. CASE UNCHANGED vars BY <1>10, TimelyQuiet DEF vars, mvars
  <1> QED BY <1>1, <1>2, <1>3, <1>4, <1>5, <1>6, <1>7, <1>8, <1>9, <1>10 DEF Next, Master, Listen

-----------------------------------------------------------------------------
(* A process that was never given a frame before an older one reads both   *)
(* journals in the order of their times: what it has still to read of one  *)
(* is later than what it has read of the other.                            *)
Ordered(p) ==
    \A i \in 1 .. Len(commands[app[p]]), j \in 1 .. Len(public) :
       /\ i >= cmd[p] /\ j < pub[p] => public[j].gen < Com(p, i).gen
       /\ i < cmd[p] /\ j >= pub[p] => Com(p, i).gen < public[j].gen
IOrder == \A p \in Pid : cmd[p] # 0 /\ ~hasty[p] => Ordered(p)

LEMMA JournalIs ==
    ASSUME NEW J, NEW t \in Nat, Journal(J, t)
    PROVE  /\ J \in Seq(Rec) /\ Len(J) \in Nat
           /\ \A j \in 1 .. Len(J) : J[j].gen \in 1 .. t /\ J[j].gen \in Nat
           /\ \A i, j \in 1 .. Len(J) : i < j => J[i].gen < J[j].gen
  <1>1. J \in Seq(Rec) /\ \A j \in 1 .. Len(J) : J[j].gen \in 1 .. t BY DEF Journal
  <1>2. Len(J) \in Nat BY <1>1
  <1>3. \A j \in 1 .. Len(J) : J[j].gen \in Nat BY <1>1
  <1> QED BY <1>1, <1>2, <1>3 DEF Journal, Rising

LEMMA GrownIs ==
    ASSUME NEW J, NEW K, NEW t \in Nat, NEW u \in Nat, Journal(J, t), Grown(J, K, t, u)
    PROVE  /\ Len(K) \in Nat /\ Len(J) <= Len(K)
           /\ \A j \in 1 .. Len(J) : j \in 1 .. Len(K) /\ K[j] = J[j]
           /\ \A j \in Len(J) + 1 .. Len(K) : K[j].gen \in t + 1 .. u
           /\ \A j \in 1 .. Len(K) : j \in 1 .. Len(J) \/ j \in Len(J) + 1 .. Len(K)
  <1>1. Len(J) \in Nat BY JournalIs
  <1>2. Len(K) \in Nat /\ Len(J) <= Len(K) BY DEF Grown
  <1>3. \A j \in 1 .. Len(K) : j \in 1 .. Len(J) \/ j \in Len(J) + 1 .. Len(K) BY <1>1, <1>2
  <1>4. \A j \in 1 .. Len(J) : j \in 1 .. Len(K) BY <1>1, <1>2
  <1> QED BY <1>2, <1>3, <1>4 DEF Grown

(* A process does nothing, or it ends. *)
Still(p) ==
    /\ app'[p] = app[p] /\ pub'[p] = pub[p] /\ cmd'[p] = cmd[p] /\ fresh'[p] = fresh[p]
    /\ known'[p] = known[p] /\ links'[p] = links[p]
    /\ reads'[p] = reads[p] /\ writes'[p] = writes[p] /\ hasty'[p] = hasty[p]
    /\ st'[p] = st[p] \/ st'[p] \in {"dead", "stopped"}

LEMMA WroteStep == IBase /\ [Next]_vars => Wrote
  <1> SUFFICES ASSUME IBase, [Next]_vars PROVE Wrote OBVIOUS
  <1> USE DEF IBase
  <1>1. CASE RegisterApp BY <1>1, ShapeRegister
  <1>2. CASE RefuseApp BY <1>2, ShapeRefuse
  <1>3. ASSUME NEW a \in App, HandleRequest(a) PROVE Wrote BY <1>3, ShapeHandle
  <1>4. ASSUME NEW q \in Pid, DeregisterApp(q) PROVE Wrote BY <1>4, ShapeDeregister
  <1>5. ASSUME NEW q \in Pid, ReadPublic(q) PROVE Wrote BY <1>5, ShapePublic DEF PublicRead
  <1>6. ASSUME NEW q \in Pid, ReadCommand(q) PROVE Wrote BY <1>6, ShapeCommand DEF CommandRead
  <1>7. ASSUME NEW q \in Pid, ReadDeregisterTwice(q) PROVE Wrote
    BY <1>7, ShapeTwice DEF TwiceRead
  <1>8. ASSUME NEW q \in Pid, Die(q) \/ Timeout(q) PROVE Wrote BY <1>8, ShapeGone
  <1>9. ASSUME NEW q \in Pid, NEW a \in App, Start(q, a) PROVE Wrote BY <1>9, ShapeStart
  <1>10. ASSUME NEW q \in Pid, NEW peer \in App, NEW t \in Request, AppRequest(q, t, peer)
         PROVE  Wrote
    BY <1>10, ShapeRequest
  <1>11. CASE UNCHANGED vars BY <1>11, Quiet DEF vars, mvars, IShape
  <1> QED BY <1>1, <1>2, <1>3, <1>4, <1>5, <1>6, <1>7, <1>8, <1>9, <1>10, <1>11
      DEF Next, Master, Listen

LEMMA StepIs ==
    ASSUME IBase, [Next]_vars, NEW p \in Pid
    PROVE  /\ Wrote
           /\ \/ Still(p) \/ ReadPublic(p) \/ ReadCommand(p) \/ ReadDeregisterTwice(p)
              \/ \E a \in App : Start(p, a)
  <1> USE DEF IBase
  <1>1. CASE RegisterApp
    BY <1>1, ShapeRegister DEF RegisterApp, pvars, Still
  <1>2. CASE RefuseApp
    BY <1>2, ShapeRefuse DEF RefuseApp, pvars, Still
  <1>3. ASSUME NEW a \in App, HandleRequest(a) PROVE Wrote /\ Still(p)
    BY <1>3, ShapeHandle DEF HandleRequest, pvars, Still
  <1>4. ASSUME NEW q \in Pid, DeregisterApp(q) PROVE Wrote /\ Still(p)
    BY <1>4, ShapeDeregister DEF DeregisterApp, pvars, Still
  <1>5. ASSUME NEW q \in Pid, ReadPublic(q) PROVE Wrote /\ (Still(p) \/ ReadPublic(p))
    <2>1. Wrote /\ \A x \in Pid : x # q => Same(x) BY <1>5, ShapePublic DEF PublicRead
    <2> QED BY <2>1, <1>5 DEF Same, Still
  <1>6. ASSUME NEW q \in Pid, ReadCommand(q) PROVE Wrote /\ (Still(p) \/ ReadCommand(p))
    <2>1. Wrote /\ \A x \in Pid : x # q => Same(x) BY <1>6, ShapeCommand DEF CommandRead
    <2> QED BY <2>1, <1>6 DEF Same, Still
  <1>7. ASSUME NEW q \in Pid, Die(q) \/ Timeout(q) PROVE Wrote /\ Still(p)
    <2>1. Wrote BY <1>7, ShapeGone
    <2>2. UNCHANGED <<app, pub, cmd, known, links, reads, writes, fresh, hasty>>
      BY <1>7 DEF Die, Timeout
    <2>3. st'[p] = st[p] \/ st'[p] \in {"dead", "stopped"}
      BY <1>7 DEF Die, Timeout, IShape, IDomains
    <2> QED BY <2>1, <2>2, <2>3 DEF Still
  <1>8. ASSUME NEW q \in Pid, NEW a \in App, Start(q, a)
        PROVE  Wrote /\ (Still(p) \/ \E b \in App : Start(p, b))
    <2>1. Wrote BY <1>8, ShapeStart
    <2>2. CASE p = q BY <2>1, <2>2, <1>8
    <2>3. CASE p # q
      <3>1. Still(p) BY <2>3, <1>8 DEF Start, Still, IShape, IDomains
      <3> QED BY <2>1, <3>1
    <2> QED BY <2>2, <2>3
  <1>9. ASSUME NEW q \in Pid, NEW peer \in App, NEW t \in Request, AppRequest(q, t, peer)
        PROVE  Wrote /\ Still(p)
    BY <1>9, ShapeRequest DEF AppRequest, pvars, Still
  <1>10. CASE UNCHANGED vars
    <2>1. Wrote BY <1>10, Quiet DEF vars, mvars, IShape
    <2> QED BY <2>1, <1>10 DEF vars, pvars, Still
  <1>11. ASSUME NEW q \in Pid, ReadDeregisterTwice(q)
         PROVE  Wrote /\ (Still(p) \/ ReadDeregisterTwice(p))
    <2>1. Wrote /\ \A x \in Pid : x # q => Same(x) BY <1>11, ShapeTwice DEF TwiceRead
    <2> QED BY <2>1, <1>11 DEF Same, Still
  <1> QED BY <1>1, <1>2, <1>3, <1>4, <1>5, <1>6, <1>7, <1>8, <1>9, <1>10, <1>11
      DEF Next, Master, Listen

(* The mark stays; a Deregister that is given out again sets it. *)
LEMMA HastyStays ==
    ASSUME IBase, [Next]_vars, NEW p \in Pid, ~hasty'[p]
    PROVE  ~hasty[p] /\ ~ReadDeregisterTwice(p)
  <1> USE DEF IBase
  <1>1. CASE Still(p)
    <2>1. hasty'[p] = hasty[p] BY <1>1 DEF Still
    <2>2. ASSUME ReadDeregisterTwice(p) PROVE FALSE BY <2>2, ShapeTwice DEF TwiceRead
    <2> QED BY <2>1, <2>2
  <1>2. CASE ReadPublic(p)
    <2>1. ~hasty[p] BY <1>2, ShapePublic DEF PublicRead
    <2>2. ASSUME ReadDeregisterTwice(p) PROVE FALSE BY <2>2, ShapeTwice DEF TwiceRead
    <2> QED BY <2>1, <2>2
  <1>3. CASE ReadCommand(p)
    <2>1. ~hasty[p] BY <1>3, ShapeCommand DEF CommandRead
    <2>2. ASSUME ReadDeregisterTwice(p) PROVE FALSE BY <2>2, ShapeTwice DEF TwiceRead
    <2> QED BY <2>1, <2>2
  <1>4. CASE ReadDeregisterTwice(p) BY <1>4, ShapeTwice DEF TwiceRead
  <1>5. ASSUME NEW a \in App, Start(p, a) PROVE ~hasty[p] /\ ~ReadDeregisterTwice(p)
    <2>1. ~hasty[p] BY <1>5 DEF Start
    <2>2. ASSUME ReadDeregisterTwice(p) PROVE FALSE BY <2>2, ShapeTwice DEF TwiceRead
    <2> QED BY <2>1, <2>2
  <1> QED BY <1>1, <1>2, <1>3, <1>4, <1>5, StepIs

LEMMA OrderKept ==
    ASSUME IShape, Wrote, NEW p \in Pid, cmd[p] # 0, Ordered(p), Still(p)
    PROVE  Ordered(p)'
  <1> USE DEF IShape
  <1>1. /\ app[p] \in App /\ cmd[p] \in Nat /\ pub[p] \in Nat /\ pub[p] <= Len(public) + 1
        /\ cmd[p] <= Len(commands[app[p]]) + 1 /\ Len(public) \in Nat
    <2>1. Len(public) \in Nat BY DEF IFrames, Journal
    <2> QED BY <2>1 DEF IProcess, ProcessOK
  <1> DEFINE C == commands[app[p]]
             D == commands'[app[p]]
  <1>2. /\ Len(C) \in Nat /\ Len(D) \in Nat /\ Len(public') \in Nat /\ Len(public) <= Len(public')
        /\ \A i \in 1 .. Len(C) : D[i] = C[i] /\ C[i].gen \in 1 .. clock
        /\ \A i \in Len(C) + 1 .. Len(D) : D[i].gen \in clock + 1 .. clock'
        /\ \A j \in 1 .. Len(public) : public'[j] = public[j] /\ public[j].gen \in 1 .. clock
        /\ \A j \in Len(public) + 1 .. Len(public') : public'[j].gen \in clock + 1 .. clock'
        /\ clock \in Nat /\ clock' \in Nat
    <2>1. clock \in Nat /\ clock' \in Nat BY DEF Wrote, IMaster
    <2>2. Journal(C, clock) /\ Grown(C, D, clock, clock') BY <1>1 DEF IFrames, Wrote
    <2>3. Journal(public, clock) /\ Grown(public, public', clock, clock') BY DEF IFrames, Wrote
    <2> HIDE DEF C, D
    <2>6. Len(C) \in Nat /\ \A i \in 1 .. Len(C) : C[i].gen \in 1 .. clock
      BY <2>1, <2>2, JournalIs
    <2>7. /\ Len(D) \in Nat /\ \A i \in 1 .. Len(C) : D[i] = C[i]
          /\ \A i \in Len(C) + 1 .. Len(D) : D[i].gen \in clock + 1 .. clock'
      <3>1. Len(D) \in Nat BY <2>1, <2>2, GrownIs, Zenon
      <3>2. \A i \in 1 .. Len(C) : D[i] = C[i] BY <2>2, Zenon DEF Grown
      <3>3. \A i \in Len(C) + 1 .. Len(D) : D[i].gen \in clock + 1 .. clock'
        BY <2>1, <2>2, GrownIs, Zenon
      <3> QED BY <3>1, <3>2, <3>3
    <2>4. /\ Len(C) \in Nat /\ Len(D) \in Nat
          /\ \A i \in 1 .. Len(C) : D[i] = C[i] /\ C[i].gen \in 1 .. clock
          /\ \A i \in Len(C) + 1 .. Len(D) : D[i].gen \in clock + 1 .. clock'
      BY <2>6, <2>7
    <2>5. /\ Len(public') \in Nat /\ Len(public) <= Len(public')
          /\ \A j \in 1 .. Len(public) : public'[j] = public[j] /\ public[j].gen \in 1 .. clock
          /\ \A j \in Len(public) + 1 .. Len(public') : public'[j].gen \in clock + 1 .. clock'
      BY <2>1, <2>3, GrownIs, JournalIs
    <2> QED BY <2>1, <2>4, <2>5
  <1>3. \A i \in 1 .. Len(C), j \in 1 .. Len(public) :
           /\ i >= cmd[p] /\ j < pub[p] => public[j].gen < C[i].gen
           /\ i < cmd[p] /\ j >= pub[p] => C[i].gen < public[j].gen
    BY DEF Ordered, Com
  <1>4. app'[p] = app[p] /\ pub'[p] = pub[p] /\ cmd'[p] = cmd[p] BY DEF Still
  <1> HIDE DEF C, D
  <1>5. ASSUME NEW i \in 1 .. Len(D), NEW j \in 1 .. Len(public')
        PROVE  /\ i >= cmd[p] /\ j < pub[p] => public'[j].gen < D[i].gen
               /\ i < cmd[p] /\ j >= pub[p] => D[i].gen < public'[j].gen
    <2>1. ASSUME i >= cmd[p], j < pub[p] PROVE public'[j].gen < D[i].gen
      <3>1. j \in 1 .. Len(public) BY <2>1, <1>1
      <3>2. CASE i \in 1 .. Len(C) BY <3>1, <3>2, <2>1, <1>2, <1>3
      <3>3. CASE i \in Len(C) + 1 .. Len(D) BY <3>1, <3>3, <1>2
      <3> QED BY <3>2, <3>3, <1>2
    <2>2. ASSUME i < cmd[p], j >= pub[p] PROVE D[i].gen < public'[j].gen
      <3>1. i \in 1 .. Len(C) BY <2>2, <1>1, <1>2 DEF C
      <3>2. CASE j \in 1 .. Len(public) BY <3>1, <3>2, <2>2, <1>2, <1>3
      <3>3. CASE j \in Len(public) + 1 .. Len(public') BY <3>1, <3>3, <1>2
      <3> QED BY <3>2, <3>3, <1>1, <1>2
    <2> QED BY <2>1, <2>2
  <1> QED BY <1>4, <1>5 DEF Ordered, Com, D

(* The frame that is read is between what was read of the other journal    *)
(* and what was not.                                                       *)
LEMMA OrderPublic ==
    ASSUME IShape, NEW p \in Pid, ReadPublic(p), ~hasty'[p], cmd[p] # 0 => Ordered(p),
           cmd'[p] # 0
    PROVE  Ordered(p)'
  <1> USE DEF IShape
  <1> PICK f : f = public[pub[p]] OBVIOUS
  <1> DEFINE C == commands[app[p]]
  <1>1. /\ Alive(p) /\ app[p] \in App /\ pub[p] \in 1 .. Len(public) /\ pub'[p] = pub[p] + 1
        /\ app' = app /\ f.gen \in 1 .. clock
        /\ f.typ # "Register" => st' = st /\ cmd' = cmd
        /\ st[p] # "waiting" => st' = st /\ cmd' = cmd
        /\ st[p] = "waiting" /\ f.typ = "Register" =>
             \A i \in 1 .. Len(C) : i >= cmd'[p] <=> C[i].gen > f.gen
    BY ShapePublic DEF Com, PublicRead
  <1>2. st[p] = "waiting" <=> cmd[p] = 0 BY <1>1 DEF IProcess, ProcessOK
  <1>3. UNCHANGED <<public, commands>> /\ ~SkipsCommand(p, f)
    BY ShapePublic DEF ReadPublic, mvars, PublicRead
  <1>4. /\ Len(public) \in Nat /\ Len(C) \in Nat /\ clock \in Nat
        /\ \A j \in 1 .. Len(public) : public[j].gen \in 1 .. clock
        /\ \A i \in 1 .. Len(C) : C[i].gen \in 1 .. clock
        /\ Rising(public) /\ Rising(C)
    <2>1. clock \in Nat /\ Journal(public, clock) /\ Journal(C, clock)
      BY <1>1 DEF IFrames, IMaster
    <2> HIDE DEF C
    <2> QED BY <2>1, JournalIs DEF Journal
  <1>5. \A j \in 1 .. Len(public) : /\ j < pub[p] => public[j].gen < f.gen
                                    /\ j > pub[p] => f.gen < public[j].gen
    BY <1>1, <1>4 DEF Rising
  <1>6. ASSUME NEW i \in 1 .. Len(C)
        PROVE  (i >= cmd'[p] => f.gen < C[i].gen) /\ (i < cmd'[p] => C[i].gen <= f.gen)
    <2>1. CASE cmd[p] = 0
      <3>1. st[p] = "waiting" /\ f.typ = "Register" BY <2>1, <1>1, <1>2
      <3>2. i >= cmd'[p] <=> C[i].gen > f.gen BY <3>1, <1>1
      <3>3. cmd'[p] \in Nat
        <4>1. cmd'[p] \in 1 .. Len(commands[app[p]]) + 1 BY <3>1, ShapePublic DEF PublicRead
        <4> QED BY <4>1
      <3>4. i \in Nat /\ f.gen \in Nat /\ C[i].gen \in Nat BY <1>1, <1>4
      <3>5. C[i].gen > f.gen <=> f.gen < C[i].gen BY <3>4
      <3>6. ~(f.gen < C[i].gen) <=> C[i].gen <= f.gen BY <3>4
      <3>7. i < cmd'[p] <=> ~(i >= cmd'[p]) BY <3>3, <3>4
      <3> HIDE DEF C
      <3> QED BY <3>2, <3>5, <3>6, <3>7, Zenon
    <2>2. CASE cmd[p] # 0
      <3>1. cmd'[p] = cmd[p] /\ cmd[p] \in Nat /\ cmd[p] <= Len(C) + 1
        BY <2>2, <1>1, <1>2 DEF IProcess, ProcessOK, Alive
      <3>2. i < cmd[p] => C[i].gen < f.gen
        <4>1. Ordered(p) /\ pub[p] >= pub[p] BY <2>2, <1>1
        <4> QED BY <4>1, <1>1 DEF Ordered, Com
      <3>3. ASSUME i >= cmd[p] PROVE f.gen < C[i].gen
        <4>1. cmd[p] \in 1 .. Len(C) BY <3>1, <3>3, <2>2, <1>4
        <4>2. C[cmd[p]].gen > f.gen
          <5>1. HasCommand(p) BY <4>1, <2>2, <1>1 DEF HasCommand
          <5>2. ~(C[cmd[p]].gen <= f.gen) BY <5>1, <1>3 DEF SkipsCommand, CommandFrame
          <5> QED BY <5>2, <4>1, <1>1, <1>4
        <4>3. i = cmd[p] \/ C[cmd[p]].gen < C[i].gen
          <5>1. i = cmd[p] \/ cmd[p] < i BY <4>1, <3>3, <1>4
          <5> QED BY <5>1, <4>1, <1>4 DEF Rising
        <4>4. f.gen \in Nat /\ C[i].gen \in Nat /\ C[cmd[p]].gen \in Nat
          <5>1. \A k \in 1 .. Len(C) : C[k].gen \in Nat BY <1>4
          <5> QED BY <5>1, <4>1, <1>1
        <4> QED BY <4>2, <4>3, <4>4
      <3> QED BY <3>1, <3>2, <3>3, <1>1, <1>4
    <2> QED BY <2>1, <2>2
  <1> HIDE DEF C
  <1>7. ASSUME NEW i \in 1 .. Len(C), NEW j \in 1 .. Len(public)
        PROVE  /\ i >= cmd'[p] /\ j < pub'[p] => public[j].gen < C[i].gen
               /\ i < cmd'[p] /\ j >= pub'[p] => C[i].gen < public[j].gen
    <2>1. j < pub'[p] => j < pub[p] \/ j = pub[p] BY <1>1, <1>4
    <2>2. j >= pub'[p] => j > pub[p] BY <1>1, <1>4
    <2>3. j < pub'[p] => public[j].gen <= f.gen BY <2>1, <1>1, <1>4, <1>5
    <2>4. j >= pub'[p] => f.gen < public[j].gen BY <2>2, <1>5
    <2>5. f.gen \in Nat /\ C[i].gen \in Nat /\ public[j].gen \in Nat BY <1>1, <1>4
    <2> QED BY <2>3, <2>4, <2>5, <1>6
  <1> QED BY <1>1, <1>3, <1>7 DEF Ordered, Com, C

LEMMA CommandCut ==
    ASSUME IShape, NEW p \in Pid, ReadCommand(p), ~hasty'[p], Ordered(p)
    PROVE  /\ Cut(public, pub[p], Com(p, cmd[p]).gen)
           /\ \A j \in pub[p] .. Len(public) : Com(p, cmd[p]).gen < public[j].gen
  <1> USE DEF IShape
  <1> PICK f : f = Com(p, cmd[p]) OBVIOUS
  <1>1. /\ Alive(p) /\ app[p] \in App /\ cmd[p] \in 1 .. Len(commands[app[p]])
        /\ f.gen \in 1 .. clock
    BY ShapeCommand DEF CommandRead
  <1>2. /\ Len(public) \in Nat /\ clock \in Nat /\ pub[p] \in 1 .. Len(public) + 1
        /\ \A j \in 1 .. Len(public) : public[j].gen \in 1 .. clock
        /\ Rising(public)
    BY <1>1 DEF IFrames, Journal, IMaster, IProcess, ProcessOK
  <1>3. HasPublic(p) => public[pub[p]].gen > f.gen
    <2>1. ~SkipsPublic(p, f) BY ShapeCommand DEF CommandRead
    <2>2. HasPublic(p) => pub[p] \in 1 .. Len(public) BY <1>2 DEF HasPublic
    <2> QED BY <2>1, <2>2, <1>1, <1>2 DEF SkipsPublic, PublicFrame
  <1>4. cmd[p] >= cmd[p] BY <1>1
  <1>5. \A j \in 1 .. pub[p] - 1 : public[j].gen < f.gen
    <2>1. \A j \in 1 .. pub[p] - 1 : j \in 1 .. Len(public) /\ j < pub[p] BY <1>2
    <2> QED BY <2>1, <1>1, <1>4 DEF Ordered
  <1>6. ASSUME NEW j \in pub[p] .. Len(public) PROVE f.gen < public[j].gen
    <2>1. pub[p] \in 1 .. Len(public) /\ j \in 1 .. Len(public) BY <1>2
    <2>2. public[pub[p]].gen > f.gen
      <3>1. HasPublic(p) BY <2>1, <1>1 DEF HasPublic
      <3> QED BY <3>1, <1>3
    <2>3. j = pub[p] \/ public[pub[p]].gen < public[j].gen BY <2>1, <1>2 DEF Rising
    <2> QED BY <2>1, <2>2, <2>3, <1>1, <1>2
  <1> QED BY <1>2, <1>5, <1>6 DEF Cut

LEMMA OrderCommand ==
    ASSUME IShape, NEW p \in Pid, ReadCommand(p), ~hasty'[p], Ordered(p)
    PROVE  Ordered(p)'
  <1> USE DEF IShape
  <1> PICK f : f = Com(p, cmd[p]) OBVIOUS
  <1> DEFINE C == commands[app[p]]
  <1>1. /\ Alive(p) /\ app[p] \in App /\ cmd[p] \in 1 .. Len(C) /\ cmd'[p] = cmd[p] + 1
        /\ f.gen \in 1 .. clock /\ app' = app /\ pub' = pub
    BY ShapeCommand DEF CommandRead
  <1>2. UNCHANGED <<public, commands>> BY DEF ReadCommand, mvars
  <1>3. /\ Len(public) \in Nat /\ Len(C) \in Nat /\ clock \in Nat /\ pub[p] \in 1 .. Len(public) + 1
        /\ \A j \in 1 .. Len(public) : public[j].gen \in 1 .. clock
        /\ \A i \in 1 .. Len(C) : C[i].gen \in 1 .. clock
        /\ Rising(C) /\ f = C[cmd[p]]
    BY <1>1 DEF IFrames, Journal, IMaster, IProcess, ProcessOK, Com
  <1>4. \A j \in pub[p] .. Len(public) : f.gen < public[j].gen BY CommandCut
  <1>5. \A i \in 1 .. Len(C), j \in 1 .. Len(public) :
           /\ i >= cmd[p] /\ j < pub[p] => public[j].gen < C[i].gen
           /\ i < cmd[p] /\ j >= pub[p] => C[i].gen < public[j].gen
    BY DEF Ordered, Com
  <1> HIDE DEF C
  <1>6. ASSUME NEW i \in 1 .. Len(C), NEW j \in 1 .. Len(public)
        PROVE  /\ i >= cmd'[p] /\ j < pub[p] => public[j].gen < C[i].gen
               /\ i < cmd'[p] /\ j >= pub[p] => C[i].gen < public[j].gen
    <2>1. i >= cmd'[p] => i >= cmd[p] BY <1>1
    <2>2. i < cmd'[p] => i < cmd[p] \/ i = cmd[p] BY <1>1
    <2>3. j >= pub[p] => j \in pub[p] .. Len(public) BY <1>3
    <2>4. j >= pub[p] => f.gen < public[j].gen BY <2>3, <1>4
    <2> QED BY <2>1, <2>2, <2>4, <1>3, <1>5
  <1> QED BY <1>1, <1>2, <1>6 DEF Ordered, Com, C

LEMMA OrderNext ==
    ASSUME IBase, [Next]_vars, IOrder
    PROVE  IOrder'
  <1> USE DEF IBase
  <1> SUFFICES ASSUME NEW p \in Pid, cmd'[p] # 0, ~hasty'[p] PROVE Ordered(p)' BY DEF IOrder
  <1>0. ~hasty[p] /\ ~ReadDeregisterTwice(p) BY HastyStays
  <1>1. Wrote BY StepIs
  <1>2. CASE Still(p) BY <1>0, <1>1, <1>2, OrderKept DEF IOrder, Still
  <1>3. CASE ReadPublic(p) BY <1>0, <1>3, OrderPublic DEF IOrder
  <1>4. CASE ReadCommand(p)
    <2>1. cmd[p] # 0 BY <1>4 DEF ReadCommand, HasCommand
    <2> QED BY <2>1, <1>0, <1>4, OrderCommand DEF IOrder
  <1>5. ASSUME NEW a \in App, Start(p, a) PROVE FALSE
    <2>1. st[p] = "none" /\ cmd' = cmd BY <1>5 DEF Start
    <2> QED BY <2>1 DEF IShape, IProcess, ProcessOK
  <1> QED BY <1>0, <1>2, <1>3, <1>4, <1>5, StepIs

-----------------------------------------------------------------------------
(* What a process knows of the locations and the channels: never more than *)
(* the frames of the public journal that it has read say, and as much from *)
(* the snapshot on that it gets before it is started.                      *)
Synced(p) == known[p] = Locs(public, pub[p])
Linked(p) == links[p] = Chans(public, pub[p])
Before(p, i, t) == \E k \in 1 .. i - 1 : Pending(p, k) /\ Com(p, k).typ = t

KnownOK(p) ==
    /\ known[p] \subseteq Locs(public, pub[p]) /\ links[p] \subseteq Chans(public, pub[p])
    /\ st[p] = "started" => Synced(p) /\ Linked(p)
    /\ \A i \in Nat : Alive(p) /\ Pending(p, i) /\ Com(p, i).typ = "RequestStart" =>
         /\ Synced(p) \/ Before(p, i, "Location")
         /\ Linked(p) \/ Before(p, i, "Channel")
IKnown == \A p \in Pid : ~hasty[p] => KnownOK(p)

LEMMA KnownPublic ==
    ASSUME IShape, NEW p \in Pid, ReadPublic(p),
           known[p] \subseteq Locs(public, pub[p]), links[p] \subseteq Chans(public, pub[p])
    PROVE  /\ known'[p] \subseteq Locs(public, pub[p])' /\ links'[p] \subseteq Chans(public, pub[p])'
           /\ Synced(p) => Synced(p)'
           /\ Linked(p) => Linked(p)'
  <1> PICK f : f = public[pub[p]] OBVIOUS
  <1>1. /\ PublicRec(f) /\ pub[p] \in 1 .. Len(public) /\ pub'[p] = pub[p] + 1
        /\ known'[p] = CASE f.typ = "Register" -> known[p] \cup f.arg
                         [] f.typ = "Deregister" -> known[p] \ f.arg
                         [] f.typ = "Channel" -> known[p]
        /\ links'[p] = CASE f.typ = "Register" -> links[p]
                         [] f.typ = "Deregister" -> {c \in links[p] : c.source \notin f.arg}
                         [] f.typ = "Channel" -> links[p] \cup f.arg
    <2>1. PublicRead(p, f) BY ShapePublic
    <2> QED BY <2>1 DEF PublicRead
  <1>2. public' = public BY DEF ReadPublic, mvars
  <1> PICK n : n = pub[p] OBVIOUS
  <1>3. n \in Nat /\ n >= 1 /\ pub'[p] = n + 1 BY <1>1
  <1>4. /\ Locs(public, n) \subseteq App /\ Chans(public, n) \subseteq Channel
        /\ Locs(public, n + 1) \subseteq App /\ Chans(public, n + 1) \subseteq Channel
    BY LocsSubset
  <1>5. /\ \A a \in App : a \in Locs(public, n + 1) <=>
              \/ f.typ = "Register" /\ a \in f.arg
              \/ a \in Locs(public, n) /\ ~(f.typ = "Deregister" /\ a \in f.arg)
        /\ \A c \in Channel : c \in Chans(public, n + 1) <=>
              \/ f.typ = "Channel" /\ c \in f.arg
              \/ c \in Chans(public, n) /\ ~(f.typ = "Deregister" /\ c.source \in f.arg)
    BY <1>3, LocsStep
  <1> DEFINE L == Locs(public, n)
             M == Locs(public, n + 1)
             S == Chans(public, n)
             T == Chans(public, n + 1)
  <1>6. known[p] \subseteq L /\ links[p] \subseteq S OBVIOUS
  <1> HIDE DEF L, M, S, T
  <1>7. CASE f.typ = "Register"
    <2>1. f.arg \subseteq App BY <1>1, <1>7 DEF PublicRec
    <2>2. known'[p] = known[p] \cup f.arg /\ links'[p] = links[p] BY <1>1, <1>7
    <2>3. M = L \cup f.arg BY <2>1, <1>4, <1>5, <1>7 DEF L, M
    <2>4. T = S BY <1>4, <1>5, <1>7 DEF S, T
    <2> QED BY <2>2, <2>3, <2>4, <1>2, <1>3, <1>6 DEF Synced, Linked, L, M, S, T
  <1>8. CASE f.typ = "Deregister"
    <2>1. /\ known'[p] = known[p] \ f.arg
          /\ links'[p] = {c \in links[p] : c.source \notin f.arg}
      BY <1>1, <1>8
    <2>2. M = L \ f.arg BY <1>4, <1>5, <1>8 DEF L, M
    <2>3. T = {c \in S : c.source \notin f.arg} BY <1>4, <1>5, <1>8 DEF S, T
    <2> QED BY <2>1, <2>2, <2>3, <1>2, <1>3, <1>6 DEF Synced, Linked, L, M, S, T
  <1>9. CASE f.typ = "Channel"
    <2>1. f.arg \subseteq Channel BY <1>1, <1>9 DEF PublicRec
    <2>2. known'[p] = known[p] /\ links'[p] = links[p] \cup f.arg BY <1>1, <1>9
    <2>3. M = L BY <1>4, <1>5, <1>9 DEF L, M
    <2>4. T = S \cup f.arg BY <2>1, <1>4, <1>5, <1>9 DEF S, T
    <2> QED BY <2>2, <2>3, <2>4, <1>2, <1>3, <1>6 DEF Synced, Linked, L, M, S, T
  <1> QED BY <1>1, <1>7, <1>8, <1>9 DEF PublicRec

(* A frame of the commands journal says what the process has read. *)
LEMMA CommandTimely ==
    ASSUME IShape, ITimely, NEW p \in Pid, ReadCommand(p), ~hasty'[p], Ordered(p),
           NEW f, f = Com(p, cmd[p])
    PROVE  /\ f.typ = "Location" => f.arg = Locs(public, pub[p])
           /\ f.typ = "Channel" => f.arg = Chans(public, pub[p])
           /\ f.typ \in {"WriteTo", "ReadFrom", "ReadFromPublic"} =>
                 \/ f.arg \subseteq Locs(public, pub[p])
                 \/ f.typ = "WriteTo" /\ f.arg = {"master"}
  <1>1. app[p] \in App /\ cmd[p] \in 1 .. Len(commands[app[p]]) BY ShapeCommand DEF CommandRead
  <1>2. Timely(public, f) BY <1>1 DEF ITimely, Com
  <1>3. Cut(public, pub[p], f.gen) BY CommandCut
  <1>4. pub[p] \in 1 .. Len(public) + 1 BY DEF IShape, IProcess, ProcessOK
  <1> QED BY <1>2, <1>3, <1>4 DEF Timely

LEMMA KnownCommand ==
    ASSUME IShape, ITimely, NEW p \in Pid, ReadCommand(p), ~hasty'[p], Ordered(p),
           known[p] \subseteq Locs(public, pub[p]), links[p] \subseteq Chans(public, pub[p])
    PROVE  /\ known'[p] \subseteq Locs(public, pub[p])' /\ links'[p] \subseteq Chans(public, pub[p])'
           /\ Synced(p) \/ Com(p, cmd[p]).typ = "Location" => Synced(p)'
           /\ Linked(p) \/ Com(p, cmd[p]).typ = "Channel" => Linked(p)'
  <1> PICK f : f = Com(p, cmd[p]) OBVIOUS
  <1>1. public' = public /\ pub' = pub BY DEF ReadCommand, mvars
  <1>2. /\ f.typ = "Location" => f.arg = Locs(public, pub[p])
        /\ f.typ = "Channel" => f.arg = Chans(public, pub[p])
    BY CommandTimely
  <1>3. /\ \/ f.typ = "Location" /\ known'[p] = known[p] \cup f.arg
           \/ f.typ # "Location" /\ known'[p] = known[p]
        /\ \/ f.typ = "Channel" /\ links'[p] = links[p] \cup f.arg
           \/ f.typ # "Channel" /\ links'[p] = links[p]
    BY ShapeCommand DEF CommandRead
  <1> DEFINE L == Locs(public, pub[p])
             S == Chans(public, pub[p])
  <1>4. known[p] \subseteq L /\ links[p] \subseteq S OBVIOUS
  <1>5. /\ f.typ = "Location" => f.arg = L
        /\ f.typ = "Channel" => f.arg = S
    BY <1>2
  <1> HIDE DEF L, S
  <1>6. known'[p] \subseteq L /\ (known[p] = L \/ f.typ = "Location" => known'[p] = L)
    BY <1>3, <1>4, <1>5
  <1>7. links'[p] \subseteq S /\ (links[p] = S \/ f.typ = "Channel" => links'[p] = S)
    BY <1>3, <1>4, <1>5
  <1> QED BY <1>1, <1>6, <1>7 DEF Synced, Linked, L, S

(* The frames that RegisterApp writes are read by every process of the     *)
(* application that is there.                                              *)
LEMMA RegisterPending ==
    ASSUME IShape, NEW p, NEW a, NEW n, NEW m, RegisterApp, RegisterWrites(p, a, n, m),
           n = Len(public), m = Len(commands[a]),
           NEW q \in Pid, st[q] # "none", app[q] = a
    PROVE  /\ \A i \in m + 1 .. m + 4 : Pending(q, i)'
           /\ n + 1 \in pub[q] .. Len(public') /\ public'[n + 1].typ = "Register"
           /\ public'[n + 1].arg = {a} /\ public'[n + 1].gen = clock + 1
  <1>1. /\ n \in Nat /\ m \in Nat /\ clock \in Nat /\ a \in App
        /\ Len(public') = n + 1 /\ public'[n + 1] = Frame(clock + 1, "Register", {a})
        /\ Len(commands'[a]) = m + 4
        /\ ToMaster(commands'[a][m + 1]) /\ commands'[a][m + 1].gen = clock + 2
        /\ commands'[a][m + 2] = Frame(clock + 3, "Location", locations \cup {a})
        /\ commands'[a][m + 3] = Frame(clock + 4, "Channel", channels)
        /\ commands'[a][m + 4] = Frame(clock + 5, "RequestStart", {})
    BY DEF RegisterWrites, IShape, IMaster
  <1>2. UNCHANGED <<app, pub, cmd>> BY DEF RegisterApp, pvars
  <1>3. pub[q] \in 1 .. n + 1 /\ cmd[q] \in Nat /\ cmd[q] <= m + 1
    BY DEF IShape, IProcess, ProcessOK
  <1>4. /\ public'[n + 1].gen = clock + 1 /\ public'[n + 1].typ = "Register"
        /\ public'[n + 1].arg = {a}
    BY <1>1 DEF Frame
  <1>5. /\ commands'[a][m + 2].gen = clock + 3 /\ commands'[a][m + 3].gen = clock + 4
        /\ commands'[a][m + 4].gen = clock + 5
    BY <1>1 DEF Frame
  <1>6. n + 1 \in pub[q] .. Len(public') BY <1>1, <1>3
  <1>7. ASSUME NEW i \in m + 1 .. m + 4 PROVE Pending(q, i)'
    <2>1. i = m + 1 \/ i = m + 2 \/ i = m + 3 \/ i = m + 4 BY <1>1, FourOnly, Zenon
    <2>2. commands'[a][i].gen \in {clock + 2, clock + 3, clock + 4, clock + 5}
      BY <2>1, <1>1, <1>5, Zenon
    <2>3. \A g \in {clock + 2, clock + 3, clock + 4, clock + 5} : clock + 1 < g BY <1>1
    <2>4. public'[n + 1].gen < commands'[a][i].gen BY <2>2, <2>3, <1>4, Zenon
    <2>5. i \in 1 .. Len(commands'[a]) /\ i >= cmd[q]
      <3>1. \A k \in m + 1 .. m + 4 : k \in 1 .. m + 4 /\ k >= cmd[q]
        <4>1. m \in Nat /\ cmd[q] \in Nat /\ cmd[q] <= m + 1 BY <1>1, <1>3
        <4> QED BY <4>1
      <3> QED BY <3>1, <1>1
    <2>6. Com(q, i)' = commands'[a][i] BY <1>2 DEF Com
    <2> QED BY <2>4, <2>5, <2>6, <1>1, <1>2, <1>4, <1>6 DEF Pending
  <1> QED BY <1>4, <1>6, <1>7

(* Only register_app tells a process to start. *)
LEMMA StartIs ==
    ASSUME IBase, [Next]_vars, ~RegisterApp, NEW b \in App,
           NEW i \in Len(commands[b]) + 1 .. Len(commands'[b])
    PROVE  /\ commands'[b][i].typ \in {"WriteTo", "ReadFrom", "ReadFromPublic", "SessionEnd"}
           /\ commands'[b][i].typ # "SessionEnd" =>
                b \in locations /\ commands'[b][i].arg \subseteq locations
           /\ locations' = locations \/ commands'[b][i].typ = "SessionEnd"
  <1> USE DEF IBase
  <1>1. commands[b] \in Seq(Rec) /\ Len(commands[b]) \in Nat
    BY DEF IShape, IFrames, Journal
  <1>2. commands' # commands
    <2> SUFFICES ASSUME commands' = commands PROVE FALSE OBVIOUS
    <2> QED BY <1>1
  <1>3. ASSUME NEW a \in App, HandleRequest(a)
        PROVE  /\ commands'[b][i].typ \in {"WriteTo", "ReadFrom", "ReadFromPublic"}
               /\ b \in locations /\ commands'[b][i].arg \subseteq locations
               /\ locations' = locations
    <2>1. /\ commands'[b][i].typ \in {"WriteTo", "ReadFrom", "ReadFromPublic"}
          /\ commands'[b][i].arg \subseteq locations
      BY <1>3, HandleFrames DEF IShape
    <2>2. b \in locations
      <3>1. /\ a \in locations
            /\ \/ \E s, d \in locations : s # d /\ Connected(s, d)
               \/ \E peer \in locations : PassedOn(a, peer)
        BY <1>2, <1>3, HandleSays DEF IShape
      <3>2. ASSUME NEW s \in locations, NEW d \in locations, Connected(s, d) PROVE b \in locations
        BY <3>2 DEF Connected
      <3>3. ASSUME NEW peer \in locations, PassedOn(a, peer) PROVE b \in locations
        BY <3>1, <3>3 DEF PassedOn
      <3> QED BY <3>1, <3>2, <3>3
    <2> QED BY <2>1, <2>2, <1>3 DEF HandleRequest
  <1>4. ASSUME NEW p \in Pid, DeregisterApp(p) PROVE commands'[b][i].typ = "SessionEnd"
    <2> DEFINE f == Frame(clock + 1, "SessionEnd", {})
    <2>1. /\ app[p] \in App /\ commands'[app[p]] = Append(commands[app[p]], f)
          /\ \A x \in App : x # app[p] => commands'[x] = commands[x]
      BY <1>4, EndFrames DEF IShape
    <2>2. f \in Rec /\ f.typ = "SessionEnd"
      <3>1. clock + 1 \in Nat BY DEF IShape, IMaster
      <3> QED BY <3>1, PlainFrame
    <2> HIDE DEF f
    <2>3. b = app[p]
      <3> SUFFICES ASSUME b # app[p] PROVE FALSE OBVIOUS
      <3>1. commands'[b] = commands[b] BY <2>1
      <3> QED BY <3>1, <1>1
    <2>4. commands'[b][i] = f BY <2>1, <2>2, <2>3, <1>1, OneMore
    <2> QED BY <2>2, <2>4
  <1>5. \/ \E a \in App : HandleRequest(a)
        \/ \E p \in Pid : DeregisterApp(p)
        \/ commands' = commands
    BY DEF Next, Master, Listen, RefuseApp, ReadPublic, ReadCommand, ReadDeregisterTwice, Die, Timeout, Start,
           AppRequest, vars, mvars
  <1> QED BY <1>2, <1>3, <1>4, <1>5

LEMMA StillPlaces ==
    ASSUME IShape, Wrote, NEW p \in Pid, Still(p)
    PROVE  /\ Locs(public, pub[p])' = Locs(public, pub[p])
           /\ Chans(public, pub[p])' = Chans(public, pub[p])
           /\ Synced(p)' <=> Synced(p)
           /\ Linked(p)' <=> Linked(p)
  <1>1. public \in Seq(Rec) /\ Grown(public, public', clock, clock')
    BY DEF IShape, IFrames, Journal, Wrote
  <1>2. pub[p] \in 1 .. Len(public) + 1 BY DEF IShape, IProcess, ProcessOK
  <1>3. Locs(public', pub[p]) = Locs(public, pub[p]) /\ Chans(public', pub[p]) = Chans(public, pub[p])
    BY <1>1, <1>2, GrownSame, Zenon
  <1> QED BY <1>3 DEF Still, Synced, Linked

(* What was to be read before a frame still is. *)
LEMMA BeforeKept ==
    ASSUME IShape, Wrote, NEW p \in Pid, Still(p), app[p] \in App,
           NEW i \in 1 .. Len(commands[app[p]]), NEW t, Before(p, i, t)
    PROVE  Before(p, i, t)'
  <1>1. app'[p] = app[p] /\ pub'[p] = pub[p] /\ cmd'[p] = cmd[p] BY DEF Still
  <1>2. PICK k \in 1 .. i - 1 : Pending(p, k) /\ Com(p, k).typ = t BY DEF Before
  <1>3. k \in 1 .. Len(commands[app[p]])
    <2>1. Len(commands[app[p]]) \in Nat BY DEF IShape, IFrames, Journal
    <2> QED BY <2>1
  <1>4. pub[p] \in 1 .. Len(public) + 1 BY DEF IShape, IProcess, ProcessOK
  <1>5. Com(p, k)' = Com(p, k) /\ (Pending(p, k)' <=> Pending(p, k))
    BY <1>1, <1>3, <1>4, PendingKept DEF IShape
  <1> QED BY <1>2, <1>5 DEF Before

LEMMA KnownStill ==
    ASSUME IShape, Wrote, NEW p \in Pid, Still(p), KnownOK(p),
           app[p] \in App => \A i \in Len(commands[app[p]]) + 1 .. Len(commands'[app[p]]) :
                                commands'[app[p]][i].typ # "RequestStart"
    PROVE  KnownOK(p)'
  <1>1. /\ Locs(public, pub[p])' = Locs(public, pub[p])
        /\ Chans(public, pub[p])' = Chans(public, pub[p])
        /\ Synced(p)' <=> Synced(p)
        /\ Linked(p)' <=> Linked(p)
    BY StillPlaces
  <1>2. /\ known'[p] \subseteq Locs(public, pub[p])' /\ links'[p] \subseteq Chans(public, pub[p])'
        /\ st'[p] = "started" => Synced(p)' /\ Linked(p)'
    BY <1>1 DEF KnownOK, Still
  <1>3. ASSUME NEW i \in Nat, Alive(p)', Pending(p, i)', Com(p, i)'.typ = "RequestStart"
        PROVE  /\ Synced(p)' \/ Before(p, i, "Location")'
               /\ Linked(p)' \/ Before(p, i, "Channel")'
    <2>1. Alive(p) BY <1>3 DEF Alive, Still
    <2>2. /\ app[p] \in App /\ pub[p] \in 1 .. Len(public) + 1 /\ app'[p] = app[p]
          /\ pub'[p] = pub[p] /\ cmd'[p] = cmd[p]
      BY <2>1 DEF Alive, IShape, IProcess, ProcessOK, Still
    <2>3. i \in 1 .. Len(commands'[app[p]]) BY <1>3, <2>2 DEF Pending
    <2>4. i \in 1 .. Len(commands[app[p]])
      <3>1. Len(commands[app[p]]) \in Nat /\ Len(commands'[app[p]]) \in Nat
        BY <2>2 DEF IShape, IFrames, Journal, Wrote, Grown
      <3>2. i \notin Len(commands[app[p]]) + 1 .. Len(commands'[app[p]])
        <4>1. Com(p, i)' = commands'[app[p]][i] BY <2>2 DEF Com
        <4> QED BY <4>1, <1>3, <2>2
      <3> QED BY <3>1, <3>2, <2>3
    <2>5. Com(p, i)' = Com(p, i) /\ (Pending(p, i)' <=> Pending(p, i))
      BY <2>2, <2>4, PendingKept DEF IShape
    <2>6. /\ Synced(p) \/ Before(p, i, "Location")
          /\ Linked(p) \/ Before(p, i, "Channel")
      BY <2>1, <2>5, <1>3 DEF KnownOK
    <2> QED BY <2>2, <2>4, <2>6, <1>1, BeforeKept
  <1> QED BY <1>2, <1>3 DEF KnownOK

LEMMA KnownRegister ==
    ASSUME IBase, NEW q \in Pid, KnownOK(q), RegisterApp
    PROVE  KnownOK(q)'
  <1> USE DEF IBase
  <1> PICK p : p = Head(inbox) OBVIOUS
  <1> PICK a : a = app[p] OBVIOUS
  <1> PICK n : n = Len(public) OBVIOUS
  <1> PICK m : m = Len(commands[a]) OBVIOUS
  <1>1. RegisterWrites(p, a, n, m) BY RegisterFrames DEF IShape
  <1>2. /\ m \in Nat /\ a \in App /\ Wrote
        /\ Len(commands'[a]) = m + 4
        /\ ToMaster(commands'[a][m + 1])
        /\ commands'[a][m + 2].typ = "Location"
        /\ commands'[a][m + 3].typ = "Channel"
        /\ commands'[a][m + 4].typ = "RequestStart"
        /\ \A b \in App : b # a => commands'[b] = commands[b]
    BY <1>1 DEF RegisterWrites, Frame
  <1>3. UNCHANGED pvars /\ Still(q) BY DEF RegisterApp, pvars, Still
  <1>4. CASE app[q] # a
    <2>1. ASSUME app[q] \in App
          PROVE  \A i \in Len(commands[app[q]]) + 1 .. Len(commands'[app[q]]) : FALSE
      <3>1. commands'[app[q]] = commands[app[q]] /\ Len(commands[app[q]]) \in Nat
        BY <2>1, <1>2, <1>4 DEF IShape, IFrames, Journal
      <3> QED BY <3>1
    <2> QED BY <2>1, <1>2, <1>3, KnownStill
  <1>5. CASE app[q] = a
    <2>0. st[q] # "none" BY <1>2, <1>5, RegistrationAssumption DEF IShape, IProcess, ProcessOK
    <2>1. \A i \in m + 1 .. m + 4 : Pending(q, i)' BY <2>0, <1>1, <1>5, RegisterPending
    <2>2. /\ Locs(public, pub[q])' = Locs(public, pub[q])
          /\ Chans(public, pub[q])' = Chans(public, pub[q])
          /\ Synced(q)' <=> Synced(q)
          /\ Linked(q)' <=> Linked(q)
      BY <1>2, <1>3, StillPlaces
    <2>3. ASSUME NEW i \in Nat, Alive(q)', Pending(q, i)', Com(q, i)'.typ = "RequestStart"
          PROVE  /\ Synced(q)' \/ Before(q, i, "Location")'
                 /\ Linked(q)' \/ Before(q, i, "Channel")'
      <3>1. Alive(q) /\ app'[q] = app[q] /\ pub'[q] = pub[q] /\ cmd'[q] = cmd[q]
        BY <2>3, <1>3 DEF Alive, pvars
      <3>2. i \in 1 .. m + 4 BY <2>3, <3>1, <1>2, <1>5 DEF Pending
      <3>3. CASE i \in 1 .. m
        <4>1. pub[q] \in 1 .. Len(public) + 1 BY DEF IShape, IProcess, ProcessOK
        <4>2. Com(q, i)' = Com(q, i) /\ (Pending(q, i)' <=> Pending(q, i))
          BY <4>1, <3>1, <3>3, <1>2, <1>5, PendingKept DEF IShape
        <4>3. /\ Synced(q) \/ Before(q, i, "Location")
              /\ Linked(q) \/ Before(q, i, "Channel")
          BY <4>2, <3>1, <2>3 DEF KnownOK
        <4> QED BY <4>3, <3>3, <2>2, <1>2, <1>3, <1>5, BeforeKept
      <3>4. CASE i \in m + 1 .. m + 4
        <4>1. i = m + 1 \/ i = m + 2 \/ i = m + 3 \/ i = m + 4 BY <3>4, <1>2, FourOnly, Zenon
        <4>2. \A k : Com(q, k)' = commands'[a][k] BY <3>1, <1>5 DEF Com
        <4>3. i = m + 4
          <5>1. commands'[a][i].typ = "RequestStart" BY <4>2, <2>3
          <5>2. commands'[a][m + 1].typ = "WriteTo" BY <1>2 DEF ToMaster
          <5> QED BY <5>1, <5>2, <4>1, <1>2
        <4>4. m + 2 \in 1 .. i - 1 /\ m + 3 \in 1 .. i - 1 BY <4>3, <1>2
        <4>5. Pending(q, m + 2)' /\ Pending(q, m + 3)' BY <2>1, <1>2, FourOnly, Zenon
        <4> QED BY <4>2, <4>4, <4>5, <1>2 DEF Before
      <3> QED BY <3>2, <3>3, <3>4, <1>2
    <2> QED BY <2>2, <2>3, <1>3 DEF KnownOK, pvars
  <1> QED BY <1>4, <1>5

LEMMA KnownListen ==
    ASSUME IBase, ITimely, IOrder, NEW p \in Pid, ~hasty[p], ~hasty'[p], KnownOK(p),
           ReadPublic(p) \/ ReadCommand(p)
    PROVE  KnownOK(p)'
  <1> USE DEF IBase
  <1>1. CASE ReadPublic(p)
    <2> PICK f : f = public[pub[p]] OBVIOUS
    <2>1. PublicRead(p, f) BY <1>1, ShapePublic
    <2>2. /\ known'[p] \subseteq Locs(public, pub[p])' /\ links'[p] \subseteq Chans(public, pub[p])'
          /\ Synced(p) => Synced(p)'
          /\ Linked(p) => Linked(p)'
      BY <1>1, KnownPublic DEF KnownOK
    <2>3. \A i : Com(p, i)' = Com(p, i) /\ (Pending(p, i)' <=> Pending(p, i))
      BY <1>1, PendingPublic
    <2>4. st'[p] = "started" => st[p] = "started" BY <2>1 DEF PublicRead
    <2>5. Alive(p) BY <2>1 DEF PublicRead
    <2>6. \A i, t : Before(p, i, t)' <=> Before(p, i, t) BY <2>3 DEF Before
    <2> QED BY <2>2, <2>3, <2>4, <2>5, <2>6 DEF KnownOK
  <1>2. CASE ReadCommand(p)
    <2> PICK f : f = Com(p, cmd[p]) OBVIOUS
    <2>1. CommandRead(p, f) BY <1>2, ShapeCommand
    <2>2. /\ Alive(p) /\ cmd[p] # 0 /\ cmd[p] \in Nat BY <2>1, <1>2 DEF CommandRead, ReadCommand, HasCommand
    <2>3. /\ known'[p] \subseteq Locs(public, pub[p])' /\ links'[p] \subseteq Chans(public, pub[p])'
          /\ Synced(p) \/ f.typ = "Location" => Synced(p)'
          /\ Linked(p) \/ f.typ = "Channel" => Linked(p)'
      BY <2>2, <1>2, KnownCommand DEF KnownOK, IOrder
    <2>4. /\ Pending(p, cmd[p])
          /\ \A i : Com(p, i)' = Com(p, i) /\ (Pending(p, i)' <=> Pending(p, i) /\ i # cmd[p])
      BY <1>2, PendingCommand
    <2>5. \A k : Pending(p, k) => k >= cmd[p] BY <2>2 DEF Pending
    <2>6. ASSUME st'[p] = "started" PROVE Synced(p)' /\ Linked(p)'
      <3>1. CASE st[p] = "started" BY <3>1, <2>3 DEF KnownOK
      <3>2. CASE st[p] # "started"
        <4>1. f.typ = "RequestStart" BY <3>2, <2>6, <2>1 DEF CommandRead
        <4>2. /\ Synced(p) \/ Before(p, cmd[p], "Location")
              /\ Linked(p) \/ Before(p, cmd[p], "Channel")
          BY <4>1, <2>2, <2>4 DEF KnownOK
        <4>3. \A k \in 1 .. cmd[p] - 1 : ~Pending(p, k)
          <5>1. \A k \in 1 .. cmd[p] - 1 : ~(k >= cmd[p]) BY <2>2
          <5> QED BY <5>1, <2>2, <2>5
        <4> QED BY <4>2, <4>3, <2>3 DEF Before
      <3> QED BY <3>1, <3>2
    <2>7. ASSUME NEW i \in Nat, Pending(p, i)', Com(p, i)'.typ = "RequestStart"
          PROVE  /\ Synced(p)' \/ Before(p, i, "Location")'
                 /\ Linked(p)' \/ Before(p, i, "Channel")'
      <3>1. Pending(p, i) /\ Com(p, i).typ = "RequestStart" BY <2>4, <2>7
      <3>2. /\ Synced(p) \/ Before(p, i, "Location")
            /\ Linked(p) \/ Before(p, i, "Channel")
        BY <3>1, <2>2 DEF KnownOK
      <3>3. \A t : Before(p, i, t) => f.typ = t \/ Before(p, i, t)'
        BY <2>4 DEF Before
      <3> QED BY <3>2, <3>3, <2>3
    <2> QED BY <2>3, <2>6, <2>7 DEF KnownOK
  <1> QED BY <1>1, <1>2

LEMMA KnownNext ==
    ASSUME IBase, ITimely, IOrder, [Next]_vars, IKnown
    PROVE  IKnown'
  <1> SUFFICES ASSUME NEW p \in Pid, ~hasty'[p] PROVE KnownOK(p)' BY DEF IKnown
  <1>0. ~hasty[p] /\ ~ReadDeregisterTwice(p) BY HastyStays
  <1>1. KnownOK(p) BY <1>0 DEF IKnown
  <1>2. Wrote BY StepIs
  <1>3. CASE RegisterApp BY <1>1, <1>3, KnownRegister
  <1>4. CASE ~RegisterApp /\ Still(p)
    <2>1. ASSUME app[p] \in App, NEW i \in Len(commands[app[p]]) + 1 .. Len(commands'[app[p]])
          PROVE  commands'[app[p]][i].typ # "RequestStart"
      BY <2>1, <1>4, StartIs
    <2> QED BY <2>1, <1>1, <1>2, <1>4, KnownStill DEF IBase
  <1>5. CASE ReadPublic(p) \/ ReadCommand(p) BY <1>0, <1>1, <1>5, KnownListen
  <1>6. ASSUME NEW a \in App, Start(p, a) PROVE KnownOK(p)'
    <2>1. /\ st[p] = "none" /\ st'[p] = "waiting" /\ known' = known /\ links' = links
      BY <1>6 DEF Start, IBase, IShape, IDomains
    <2>2. known[p] = {} /\ links[p] = {} BY <2>1 DEF IBase, IShape, IProcess, ProcessOK
    <2>3. \A i : ~Pending(p, i)' BY <1>6, PendingStart DEF IBase
    <2> QED BY <2>1, <2>2, <2>3 DEF KnownOK
  <1> QED BY <1>0, <1>2, <1>3, <1>4, <1>5, <1>6, StepIs

-----------------------------------------------------------------------------
(* A process whose location was free when it was started: it has nothing   *)
(* to read before it is registered, and then what register_app has written *)
(* for it comes before everything else.                                    *)
Later(p, f) ==
    \A j \in 1 .. Len(public) :
       public[j].typ = "Register" /\ app[p] \in public[j].arg => public[j].gen < f.gen
Unregistered(p) ==
    /\ reads[p] = {} /\ writes[p] = {} /\ st[p] # "started"
    /\ \A i : ~Pending(p, i)
Registered(p) ==
    /\ \A q \in tracked : app[q] = app[p] => q = p
    /\ Synced(p) \/ \E k : Pending(p, k) /\ Com(p, k).typ = "Location"
    /\ cmd[p] = 0 => \E j \in pub[p] .. Len(public) :
                       public[j].typ = "Register" /\ app[p] \in public[j].arg
Order(p, i) ==
    /\ Later(p, Com(p, i))
    /\ ToMaster(Com(p, i)) =>
         /\ "master" \notin writes[p]
         /\ \A k : Pending(p, k) /\ ToMaster(Com(p, k)) => k = i
    /\ Com(p, i).typ \in {"WriteTo", "ReadFrom", "ReadFromPublic"} =>
         ToMaster(Com(p, i)) \/ Synced(p) \/ Before(p, i, "Location")
FreshOK(p) ==
    fresh[p] /\ Alive(p) =>
       /\ app[p] \notin locations => Unregistered(p)
       /\ app[p] \in locations => Registered(p)
       /\ \A i : Pending(p, i) => Order(p, i)
IFresh == \A p \in Pid : ~hasty[p] => FreshOK(p)

LEMMA FreshStill ==
    ASSUME IShape, Wrote, app' = app, NEW p \in Pid, Still(p), FreshOK(p),
           app[p] \in locations' <=> app[p] \in locations,
           \A q \in tracked' : app[q] = app[p] => q \in tracked,
           \A j \in Len(public) + 1 .. Len(public') :
              ~(public'[j].typ = "Register" /\ app[p] \in public'[j].arg),
           app[p] \in App => \A i \in Len(commands[app[p]]) + 1 .. Len(commands'[app[p]]) :
              app[p] \in locations /\ ~ToMaster(commands'[app[p]][i])
    PROVE  FreshOK(p)'
  <1> SUFFICES ASSUME fresh'[p], Alive(p)' PROVE /\ app[p] \notin locations' => Unregistered(p)'
                                                 /\ app[p] \in locations' => Registered(p)'
                                                 /\ \A i : Pending(p, i)' => Order(p, i)'
    BY DEF FreshOK
  <1>1. /\ fresh[p] /\ Alive(p) /\ st'[p] = st[p] /\ app'[p] = app[p] /\ pub'[p] = pub[p]
        /\ cmd'[p] = cmd[p] /\ reads'[p] = reads[p] /\ writes'[p] = writes[p]
    BY DEF Still, Alive
  <1>2. app[p] \in App /\ pub[p] \in 1 .. Len(public) + 1
    BY <1>1 DEF Alive, IShape, IProcess, ProcessOK
  <1> DEFINE C == commands[app[p]]
             D == commands'[app[p]]
  <1>3. /\ \A i \in 1 .. Len(C) : Com(p, i)' = Com(p, i) /\ (Pending(p, i)' <=> Pending(p, i))
        /\ \A i : Pending(p, i)' => i \in 1 .. Len(D)
    BY <1>1, <1>2, PendingKept DEF IShape
  <1>4. Journal(C, clock) /\ Grown(C, D, clock, clock') /\ clock \in Nat /\ clock' \in Nat
    BY <1>2 DEF IShape, IFrames, Wrote, IMaster
  <1>5. Journal(public, clock) /\ Grown(public, public', clock, clock')
    BY DEF IShape, IFrames, Wrote
  <1>6. \A i : Pending(p, i) => i \in 1 .. Len(C) BY DEF Pending
  <1>7. \A i : Com(p, i)' = D[i] BY <1>1 DEF Com
  <1> HIDE DEF C, D
  <1>8. /\ Len(C) \in Nat /\ Len(D) \in Nat
        /\ \A i \in 1 .. Len(D) : i \in 1 .. Len(C) \/ i \in Len(C) + 1 .. Len(D)
        /\ \A i \in Len(C) + 1 .. Len(D) : D[i].gen \in clock + 1 .. clock'
    <2>1. Len(C) \in Nat BY <1>4, JournalIs, Zenon
    <2>2. /\ Len(D) \in Nat
          /\ \A i \in 1 .. Len(D) : i \in 1 .. Len(C) \/ i \in Len(C) + 1 .. Len(D)
      BY <1>4, GrownIs, Zenon
    <2> QED BY <2>1, <2>2, <1>4 DEF Grown
  <1>9. /\ Len(public) \in Nat /\ Len(public') \in Nat /\ Len(public) <= Len(public')
        /\ \A j \in 1 .. Len(public') : j \in 1 .. Len(public) \/ j \in Len(public) + 1 .. Len(public')
        /\ \A j \in 1 .. Len(public) : public'[j] = public[j] /\ public[j].gen \in 1 .. clock
    <2>1. /\ Len(public) \in Nat
          /\ \A j \in 1 .. Len(public) : public[j].gen \in 1 .. clock
      BY <1>4, <1>5, JournalIs, Zenon
    <2>2. /\ Len(public') \in Nat /\ Len(public) <= Len(public')
          /\ \A j \in 1 .. Len(public') : j \in 1 .. Len(public) \/ j \in Len(public) + 1 .. Len(public')
      BY <1>4, <1>5, GrownIs, Zenon
    <2>3. \A j \in 1 .. Len(public) : public'[j] = public[j] BY <1>5 DEF Grown
    <2> QED BY <2>1, <2>2, <2>3
  <1>10. \A i \in Len(C) + 1 .. Len(D) : app[p] \in locations /\ ~ToMaster(D[i])
    BY <1>2 DEF C, D
  <1>11. Synced(p)' <=> Synced(p) BY StillPlaces
  <1>12. ASSUME NEW i, Before(p, i, "Location"), i \in 1 .. Len(C) PROVE Before(p, i, "Location")'
    BY <1>2, <1>12, BeforeKept DEF C
  <1>13. ASSUME NEW f, Later(p, f) PROVE Later(p, f)'
    BY <1>1, <1>9, <1>13 DEF Later
  <1>14. ASSUME app[p] \notin locations' PROVE Unregistered(p)'
    <2>1. Unregistered(p) BY <1>1, <1>14 DEF FreshOK
    <2>2. ASSUME NEW i, Pending(p, i)' PROVE FALSE
      BY <2>1, <2>2, <1>3, <1>8, <1>10, <1>14 DEF Unregistered
    <2> QED BY <2>1, <2>2, <1>1 DEF Unregistered
  <1>15. ASSUME app[p] \in locations' PROVE Registered(p)'
    <2>1. Registered(p) BY <1>1, <1>15 DEF FreshOK
    <2>2. \A q \in tracked' : app[q] = app[p] => q = p BY <2>1 DEF Registered
    <2>3. Synced(p)' \/ \E k : Pending(p, k)' /\ Com(p, k)'.typ = "Location"
      BY <2>1, <1>3, <1>6, <1>11 DEF Registered
    <2>4. ASSUME cmd[p] = 0
          PROVE  \E j \in pub[p] .. Len(public') : public'[j].typ = "Register" /\ app[p] \in public'[j].arg
      <3>1. PICK j \in pub[p] .. Len(public) : public[j].typ = "Register" /\ app[p] \in public[j].arg
        BY <2>1, <2>4 DEF Registered
      <3>2. j \in pub[p] .. Len(public') /\ j \in 1 .. Len(public) BY <1>2, <1>9
      <3> QED BY <3>1, <3>2, <1>9
    <2> QED BY <2>2, <2>3, <2>4, <1>1 DEF Registered
  <1>16. ASSUME NEW i, Pending(p, i)' PROVE Order(p, i)'
    <2>1. i \in 1 .. Len(C) \/ i \in Len(C) + 1 .. Len(D) BY <1>3, <1>8, <1>16 DEF D
    <2>2. CASE i \in 1 .. Len(C)
      <3>1. Com(p, i)' = Com(p, i) /\ Order(p, i) BY <2>2, <1>1, <1>3, <1>16 DEF FreshOK, C
      <3>2. Later(p, Com(p, i))' BY <3>1, <1>13 DEF Order, Later
      <3>3. ASSUME ToMaster(Com(p, i)), NEW k, Pending(p, k)', ToMaster(Com(p, k)')
            PROVE  k = i
        <4>1. k \in 1 .. Len(C) BY <3>3, <1>3, <1>7, <1>8, <1>10 DEF D
        <4>2. Pending(p, k) /\ Com(p, k)' = Com(p, k) BY <4>1, <3>3, <1>3 DEF C
        <4> QED BY <4>2, <3>1, <3>3 DEF Order
      <3> QED BY <3>1, <3>2, <3>3, <2>2, <1>1, <1>11, <1>12 DEF Order, ToMaster
    <2>3. CASE i \in Len(C) + 1 .. Len(D)
      <3> PICK f : f = D[i] OBVIOUS
      <3>1. app[p] \in locations /\ ~ToMaster(f) /\ f.gen \in clock + 1 .. clock'
        BY <2>3, <1>8, <1>10
      <3>2. Later(p, f)'
        <4>1. \A j \in 1 .. Len(public) : public'[j].gen < f.gen BY <3>1, <1>4, <1>9
        <4>2. ASSUME NEW j \in 1 .. Len(public'), public'[j].typ = "Register",
                     app[p] \in public'[j].arg
              PROVE  j \in 1 .. Len(public)
          BY <4>2, <1>9
        <4>3. ASSUME NEW j \in 1 .. Len(public'), public'[j].typ = "Register",
                     app'[p] \in public'[j].arg
              PROVE  public'[j].gen < f.gen
          <5>1. j \in 1 .. Len(public) BY <4>2, <4>3, <1>1
          <5> QED BY <4>1, <5>1
        <4> QED BY <4>3 DEF Later
      <3>3. Synced(p)' \/ Before(p, i, "Location")'
        <4>1. Registered(p) BY <3>1, <1>1 DEF FreshOK
        <4>2. \A k \in 1 .. Len(C) : k \in 1 .. i - 1 BY <2>3, <1>8
        <4> QED BY <4>1, <4>2, <1>3, <1>6, <1>11 DEF Registered, Before, C
      <3>4. Com(p, i)' = f BY <1>7
      <3>5. Later(p, Com(p, i))' BY <3>2, <3>4 DEF Later
      <3>6. ~ToMaster(Com(p, i))' BY <3>1, <3>4 DEF ToMaster
      <3> QED BY <3>3, <3>5, <3>6 DEF Order
    <2> QED BY <2>1, <2>2, <2>3
  <1> QED BY <1>14, <1>15, <1>16

LEMMA FreshRegister ==
    ASSUME IBase, NEW q \in Pid, FreshOK(q), RegisterApp
    PROVE  FreshOK(q)'
  <1> USE DEF IBase
  <1> PICK p : p = Head(inbox) OBVIOUS
  <1> PICK a : a = app[p] OBVIOUS
  <1> PICK n : n = Len(public) OBVIOUS
  <1> PICK m : m = Len(commands[a]) OBVIOUS
  <1>1. RegisterWrites(p, a, n, m) BY RegisterFrames DEF IShape
  <1>2. /\ n \in Nat /\ m \in Nat /\ a \in App /\ a \notin locations /\ p \in Pid /\ Wrote
        /\ Len(commands'[a]) = m + 4 /\ Len(public') = n + 1
        /\ public'[n + 1].gen = clock + 1 /\ public'[n + 1].typ = "Register"
        /\ public'[n + 1].arg = {a}
        /\ ToMaster(commands'[a][m + 1]) /\ commands'[a][m + 1].gen = clock + 2
        /\ commands'[a][m + 2].typ = "Location" /\ commands'[a][m + 2].gen = clock + 3
        /\ commands'[a][m + 3].typ = "Channel" /\ commands'[a][m + 3].gen = clock + 4
        /\ commands'[a][m + 4].typ = "RequestStart" /\ commands'[a][m + 4].gen = clock + 5
        /\ \A b \in App : b # a => commands'[b] = commands[b]
    BY <1>1 DEF RegisterWrites, Frame
  <1>3. UNCHANGED pvars /\ Still(q) BY DEF RegisterApp, pvars, Still
  <1>4. locations' = locations \cup {a} /\ tracked' = Track(p) BY DEF RegisterApp
  <1>5. \A x \in tracked' : x \in tracked \/ (x = p /\ Alive(p)) BY <1>4, TrackIs
  <1>6. CASE app[q] # a
    <2>1. ASSUME app[q] \in App
          PROVE  \A i \in Len(commands[app[q]]) + 1 .. Len(commands'[app[q]]) : FALSE
      <3>1. commands'[app[q]] = commands[app[q]] /\ Len(commands[app[q]]) \in Nat
        BY <2>1, <1>2, <1>6 DEF IShape, IFrames, Journal
      <3> QED BY <3>1
    <2>2. \A j \in Len(public) + 1 .. Len(public') :
             ~(public'[j].typ = "Register" /\ app[q] \in public'[j].arg)
      <3>1. \A j \in n + 1 .. n + 1 : j = n + 1 BY <1>2
      <3> QED BY <3>1, <1>2, <1>6
    <2>3. app[q] \in locations' <=> app[q] \in locations BY <1>4, <1>6
    <2>4. \A x \in tracked' : app[x] = app[q] => x \in tracked BY <1>5, <1>6
    <2>5. app' = app BY <1>3 DEF pvars
    <2> QED BY <2>1, <2>2, <2>3, <2>4, <2>5, <1>2, <1>3, FreshStill
  <1>7. CASE app[q] = a
    <2> SUFFICES ASSUME fresh'[q], Alive(q)' PROVE Registered(q)' /\ \A i : Pending(q, i)' => Order(q, i)'
      BY <1>3, <1>4, <1>7 DEF FreshOK, pvars
    <2>1. fresh[q] /\ Alive(q) /\ st[q] # "none" BY <1>3 DEF Alive, pvars
    <2>2. reads[q] = {} /\ writes[q] = {} /\ \A i : ~Pending(q, i)
      BY <2>1, <1>2, <1>7 DEF FreshOK, Unregistered
    <2>3. /\ \A i \in m + 1 .. m + 4 : Pending(q, i)'
          /\ n + 1 \in pub[q] .. Len(public')
      BY <2>1, <1>1, <1>7, RegisterPending
    <2>4. \A k : Com(q, k)' = commands'[a][k] BY <1>3, <1>7 DEF Com, pvars
    <2>5. ASSUME NEW x \in tracked', app'[x] = app'[q] PROVE x = q
      <3>1. app[x] = a BY <2>5, <1>3, <1>7 DEF pvars
      <3>2. x = p /\ Alive(p) BY <3>1, <1>2, <1>5 DEF ITracked
      <3> QED BY <3>1, <3>2, <2>1, <1>2, <1>7 DEF IAlone
    <2>6. Pending(q, m + 2)' /\ Com(q, m + 2)'.typ = "Location"
      BY <2>3, <2>4, <1>2, FourOnly, Zenon
    <2>7. Registered(q)'
      <3>1. \A x \in tracked' : app'[x] = app'[q] => x = q BY <2>5
      <3>2. /\ n + 1 \in pub'[q] .. Len(public')
            /\ public'[n + 1].typ = "Register" /\ app'[q] \in public'[n + 1].arg
        BY <2>3, <1>2, <1>3, <1>7 DEF pvars
      <3> QED BY <3>1, <3>2, <2>6 DEF Registered
    <2>8. \A i : Pending(q, i)' => i = m + 1 \/ i = m + 2 \/ i = m + 3 \/ i = m + 4
      <3> SUFFICES ASSUME NEW i, Pending(q, i)'
                   PROVE  i = m + 1 \/ i = m + 2 \/ i = m + 3 \/ i = m + 4
        OBVIOUS
      <3>1. pub[q] \in 1 .. Len(public) + 1 /\ app'[q] = app[q] /\ pub'[q] = pub[q] /\ cmd'[q] = cmd[q]
        BY <1>3 DEF IShape, IProcess, ProcessOK, pvars
      <3>2. i \in 1 .. m + 4 BY <3>1, <1>2, <1>7 DEF Pending
      <3>3. i \notin 1 .. m
        <4>1. \A k \in 1 .. m : Pending(q, k)' <=> Pending(q, k)
          BY <3>1, <1>2, <1>7, PendingKept DEF IShape
        <4> QED BY <4>1, <2>2
      <3>4. i \in m + 1 .. m + 4 BY <3>2, <3>3, <1>2
      <3> QED BY <3>4, <1>2, FourOnly, Zenon
    <2>9. ASSUME NEW i, Pending(q, i)' PROVE Order(q, i)'
      <3> PICK f : f = commands'[a][i] OBVIOUS
      <3>1. i = m + 1 \/ i = m + 2 \/ i = m + 3 \/ i = m + 4 BY <2>8, <2>9
      <3>2. f.gen \in {clock + 2, clock + 3, clock + 4, clock + 5} BY <3>1, <1>2
      <3>3. Later(q, f)'
        <4>1. clock \in Nat BY DEF IShape, IMaster
        <4>2. \A j \in 1 .. n : public'[j].gen \in 1 .. clock
          <5>1. \A j \in 1 .. n : public'[j] = public[j] BY <1>2 DEF Wrote, Grown
          <5>2. \A j \in 1 .. n : public[j].gen \in 1 .. clock
            BY DEF IShape, IFrames, Journal
          <5> QED BY <5>1, <5>2
        <4>3. \A j \in 1 .. n + 1 : j \in 1 .. n \/ j = n + 1 BY <1>2
        <4>4. \A j \in 1 .. Len(public') : public'[j].gen \in 1 .. clock \/ public'[j].gen = clock + 1
          BY <4>2, <4>3, <1>2
        <4>5. \A j \in 1 .. Len(public') : public'[j].gen < f.gen BY <4>1, <4>4, <3>2
        <4> QED BY <4>5 DEF Later
      <3>4. \A k : Pending(q, k)' /\ ToMaster(Com(q, k)') => k = m + 1
        <4>1. \A k : Pending(q, k)' => k = m + 1 \/ ~(commands'[a][k].typ = "WriteTo")
          BY <2>8, <1>2
        <4> QED BY <4>1, <2>4 DEF ToMaster
      <3>5. ToMaster(f) => i = m + 1 BY <3>4, <2>4, <2>9
      <3>6. f.typ \in {"WriteTo", "ReadFrom", "ReadFromPublic"} => ToMaster(f)
        BY <3>1, <1>2
      <3>7. Com(q, i)' = f BY <2>4
      <3>8. "master" \notin writes'[q] BY <2>2, <1>3 DEF pvars
      <3>9. Later(q, Com(q, i))' BY <3>3, <3>7 DEF Later
      <3>10. /\ ToMaster(Com(q, i)') <=> ToMaster(f)
             /\ Com(q, i)'.typ = f.typ
        BY <3>7
      <3>11. \A k : Pending(q, k)' /\ ToMaster(Com(q, k)') /\ ToMaster(f) => k = i BY <3>4, <3>5
      <3> QED BY <3>6, <3>8, <3>9, <3>10, <3>11 DEF Order, ToMaster
    <2> QED BY <2>7, <2>9
  <1> QED BY <1>6, <1>7

(* The other steps of the master, and the end of a process. *)
LEMMA FreshDeregister ==
    ASSUME IBase, NEW q \in Pid, FreshOK(q), NEW p \in Pid, DeregisterApp(p)
    PROVE  FreshOK(q)'
  <1> USE DEF IBase
  <1> PICK f : f = Frame(clock + 1, "SessionEnd", {}) OBVIOUS
  <1>1. /\ app[p] \in App /\ Wrote
        /\ commands'[app[p]] = Append(commands[app[p]], f)
        /\ \A x \in App : x # app[p] => commands'[x] = commands[x]
    BY EndFrames DEF IShape
  <1>2. UNCHANGED pvars /\ Still(q) /\ app' = app BY DEF DeregisterApp, pvars, Still
  <1>3. /\ p \in tracked /\ ~Alive(p) /\ tracked' = tracked \ {p}
        /\ locations' = locations \ {app[p]}
    BY DEF DeregisterApp
  <1>4. CASE app[q] = app[p]
    <2> SUFFICES ASSUME fresh'[q], Alive(q)' PROVE FALSE BY DEF FreshOK
    <2>1. fresh[q] /\ Alive(q) BY <1>2 DEF Alive, pvars
    <2>2. Registered(q) BY <2>1, <1>3, <1>4 DEF FreshOK, ITracked
    <2> QED BY <2>1, <2>2, <1>3, <1>4 DEF Registered
  <1>5. CASE app[q] # app[p]
    <2>1. ASSUME app[q] \in App
          PROVE  \A i \in Len(commands[app[q]]) + 1 .. Len(commands'[app[q]]) : FALSE
      <3>1. commands'[app[q]] = commands[app[q]] /\ Len(commands[app[q]]) \in Nat
        BY <2>1, <1>1, <1>5 DEF IShape, IFrames, Journal
      <3> QED BY <3>1
    <2>2. \A j \in Len(public) + 1 .. Len(public') : public'[j].typ # "Register"
      <3>1. /\ public' = Append(public, Frame(clock + 2, "Deregister", {app[p]}))
            /\ public \in Seq(Rec)
        BY DEF DeregisterApp, IShape, IFrames, Journal
      <3>2. /\ Frame(clock + 2, "Deregister", {app[p]}) \in Rec
            /\ Frame(clock + 2, "Deregister", {app[p]}).typ = "Deregister"
        <4>1. clock + 2 \in Nat /\ {app[p]} \subseteq App BY <1>1 DEF IShape, IMaster
        <4> QED BY <4>1, PlaceFrame
      <3> QED BY <3>1, <3>2, OneMore
    <2>3. app[q] \in locations' <=> app[q] \in locations BY <1>3, <1>5
    <2> QED BY <2>1, <2>2, <2>3, <1>1, <1>2, <1>3, FreshStill
  <1> QED BY <1>4, <1>5

LEMMA FreshQuiet ==
    ASSUME IBase, [Next]_vars, NEW q \in Pid, FreshOK(q), Still(q), ~RegisterApp,
           \A p \in Pid : ~DeregisterApp(p), app' = app
    PROVE  FreshOK(q)'
  <1> USE DEF IBase
  <1>1. Wrote BY StepIs
  <1>2. /\ tracked' = tracked /\ locations' = locations
        /\ (\E a \in App : HandleRequest(a)) \/ public' = public
    BY DEF Next, Master, Listen, RefuseApp, HandleRequest, ReadPublic, ReadCommand, ReadDeregisterTwice, Die,
           Timeout, Start, AppRequest, vars, mvars
  <1>3. \A j \in Len(public) + 1 .. Len(public') : public'[j].typ # "Register"
    <2>1. Len(public) \in Nat BY DEF IShape, IFrames, Journal
    <2>2. CASE public' = public BY <2>1, <2>2
    <2>3. ASSUME NEW a \in App, HandleRequest(a)
          PROVE  \A j \in Len(public) + 1 .. Len(public') : public'[j].typ = "Channel"
      BY <2>3, HandleFrames DEF IShape
    <2> QED BY <2>2, <2>3, <1>2
  <1>4. ASSUME app[q] \in App, NEW i \in Len(commands[app[q]]) + 1 .. Len(commands'[app[q]])
        PROVE  app[q] \in locations /\ ~ToMaster(commands'[app[q]][i])
    <2>1. commands'[app[q]] # commands[app[q]]
      <3> SUFFICES ASSUME commands'[app[q]] = commands[app[q]] PROVE FALSE OBVIOUS
      <3>1. Len(commands[app[q]]) \in Nat BY <1>4 DEF IShape, IFrames, Journal
      <3> QED BY <3>1, <1>4
    <2>2. PICK a \in App : HandleRequest(a)
      BY <2>1 DEF Next, Master, Listen, RefuseApp, ReadPublic, ReadCommand, ReadDeregisterTwice, Die,
           Timeout, Start, AppRequest, vars, mvars
    <2>3. /\ commands'[app[q]][i].typ \in {"WriteTo", "ReadFrom", "ReadFromPublic"}
          /\ commands'[app[q]][i].arg \subseteq locations
      BY <2>2, <1>4, HandleFrames DEF IShape
    <2>4. app[q] \in locations BY <2>3, <1>4, StartIs
    <2>5. "master" \notin locations BY RegistrationAssumption DEF IShape, IMaster
    <2> QED BY <2>3, <2>4, <2>5 DEF ToMaster
  <1> QED BY <1>1, <1>2, <1>3, <1>4, FreshStill

LEMMA FreshPublic ==
    ASSUME IBase, NEW p \in Pid, KnownOK(p), FreshOK(p), ReadPublic(p)
    PROVE  FreshOK(p)'
  <1> USE DEF IBase
  <1> PICK f : f = public[pub[p]] OBVIOUS
  <1>1. PublicRead(p, f) BY ShapePublic
  <1>2. UNCHANGED <<public, commands, tracked, locations>> /\ app' = app
    BY <1>1 DEF ReadPublic, mvars, PublicRead
  <1>3. \A i : Com(p, i)' = Com(p, i) /\ (Pending(p, i)' <=> Pending(p, i)) BY PendingPublic
  <1>4. Synced(p) => Synced(p)' BY KnownPublic DEF KnownOK
  <1>5. /\ Alive(p) /\ app[p] \in App /\ pub[p] \in 1 .. Len(public) /\ pub'[p] = pub[p] + 1
        /\ fresh' = fresh /\ writes' = writes
        /\ f.typ # "Register" => st' = st /\ cmd' = cmd
        /\ st[p] # "waiting" => st' = st /\ cmd' = cmd
        /\ st[p] = "waiting" /\ f.typ = "Register" =>
             st'[p] \in {"joined", "fault"} /\ cmd'[p] \in 1 .. Len(commands[app[p]]) + 1
        /\ reads[p] = {} => reads'[p] = {}
    BY <1>1 DEF PublicRead
  <1>6. st[p] = "waiting" <=> cmd[p] = 0 BY <1>5 DEF IShape, IProcess, ProcessOK
  <1> SUFFICES ASSUME fresh'[p] PROVE /\ app[p] \notin locations => Unregistered(p)'
                                      /\ app[p] \in locations => Registered(p)'
                                      /\ \A i : Pending(p, i) => Order(p, i)'
    BY <1>2, <1>3 DEF FreshOK
  <1>7. ASSUME app[p] \notin locations PROVE Unregistered(p)'
    <2>1. Unregistered(p) BY <1>5, <1>7 DEF FreshOK
    <2>2. st'[p] # "started" BY <2>1, <1>5 DEF Unregistered
    <2> QED BY <2>1, <2>2, <1>3, <1>5 DEF Unregistered
  <1>8. ASSUME app[p] \in locations PROVE Registered(p)'
    <2>1. Registered(p) BY <1>5, <1>8 DEF FreshOK
    <2>2. ASSUME cmd'[p] = 0
          PROVE  \E j \in pub'[p] .. Len(public') :
                    public'[j].typ = "Register" /\ app'[p] \in public'[j].arg
      <3>1. cmd[p] = 0 /\ f.typ # "Register" BY <2>2, <1>5, <1>6
      <3>2. PICK j \in pub[p] .. Len(public) : public[j].typ = "Register" /\ app[p] \in public[j].arg
        BY <2>1, <3>1 DEF Registered
      <3>3. j # pub[p] BY <3>1, <3>2
      <3>4. j \in pub[p] + 1 .. Len(public) BY <3>3, <1>5
      <3> QED BY <3>2, <3>4, <1>2, <1>5
    <2>3. \A q \in tracked' : app'[q] = app'[p] => q = p BY <2>1, <1>2 DEF Registered
    <2>4. Synced(p)' \/ \E k : Pending(p, k)' /\ Com(p, k)'.typ = "Location"
      BY <2>1, <1>3, <1>4 DEF Registered
    <2> QED BY <2>2, <2>3, <2>4 DEF Registered
  <1>9. ASSUME NEW i, Pending(p, i) PROVE Order(p, i)'
    <2>1. Order(p, i) BY <1>5, <1>9 DEF FreshOK
    <2>2. Later(p, Com(p, i))' BY <2>1, <1>2, <1>3 DEF Order, Later
    <2>3. ToMaster(Com(p, i)) =>
            /\ "master" \notin writes'[p]
            /\ \A k : Pending(p, k)' /\ ToMaster(Com(p, k)') => k = i
      BY <2>1, <1>3, <1>5 DEF Order
    <2>4. Before(p, i, "Location") => Before(p, i, "Location")' BY <1>3 DEF Before
    <2>5. Com(p, i).typ \in {"WriteTo", "ReadFrom", "ReadFromPublic"} =>
            ToMaster(Com(p, i)) \/ Synced(p)' \/ Before(p, i, "Location")'
      BY <2>1, <2>4, <1>4 DEF Order
    <2>6. Com(p, i)' = Com(p, i) BY <1>3
    <2>7. ToMaster(Com(p, i))' <=> ToMaster(Com(p, i)) BY <2>6 DEF ToMaster
    <2>8. \A k : ToMaster(Com(p, k))' <=> ToMaster(Com(p, k)') BY DEF ToMaster
    <2> QED BY <2>2, <2>3, <2>5, <2>6, <2>7, <2>8 DEF Order
  <1> QED BY <1>7, <1>8, <1>9

LEMMA FreshCommand ==
    ASSUME IBase, ITimely, IOrder, NEW p \in Pid, ~hasty[p], ~hasty'[p], KnownOK(p), FreshOK(p),
           ReadCommand(p)
    PROVE  FreshOK(p)'
  <1> USE DEF IBase
  <1> PICK f : f = Com(p, cmd[p]) OBVIOUS
  <1>1. CommandRead(p, f) BY ShapeCommand
  <1>2. UNCHANGED <<public, commands, tracked, locations>> /\ app' = app
    BY <1>1 DEF ReadCommand, mvars, CommandRead
  <1>3. /\ Pending(p, cmd[p])
        /\ \A i : Com(p, i)' = Com(p, i) /\ (Pending(p, i)' <=> Pending(p, i) /\ i # cmd[p])
    BY PendingCommand
  <1>4. /\ Alive(p) /\ cmd[p] \in Nat /\ cmd[p] # 0 /\ cmd'[p] = cmd[p] + 1 /\ CommandRec(f)
        /\ fresh' = fresh
        /\ writes'[p] = writes[p] \/ (f.typ = "WriteTo" /\ writes'[p] = writes[p] \cup f.arg)
    BY <1>1 DEF CommandRead, ReadCommand, HasCommand
  <1>5. Synced(p) \/ f.typ = "Location" => Synced(p)' BY <1>4, KnownCommand DEF KnownOK, IOrder
  <1> SUFFICES ASSUME fresh'[p] PROVE /\ app[p] \in locations /\ Registered(p)'
                                      /\ \A i : Pending(p, i) /\ i # cmd[p] => Order(p, i)'
    BY <1>2, <1>3 DEF FreshOK
  <1>6. app[p] \in locations BY <1>3, <1>4 DEF FreshOK, Unregistered
  <1>7. Registered(p)'
    <2>1. Registered(p) BY <1>4, <1>6 DEF FreshOK
    <2>2. \A q \in tracked' : app'[q] = app'[p] => q = p BY <2>1, <1>2 DEF Registered
    <2>3. Synced(p)' \/ \E k : Pending(p, k)' /\ Com(p, k)'.typ = "Location"
      BY <2>1, <1>3, <1>5 DEF Registered
    <2>4. cmd'[p] # 0 BY <1>4
    <2> QED BY <2>2, <2>3, <2>4 DEF Registered
  <1>8. ASSUME NEW i, Pending(p, i), i # cmd[p] PROVE Order(p, i)'
    <2>1. Order(p, i) BY <1>4, <1>8 DEF FreshOK
    <2>2. Later(p, Com(p, i))' BY <2>1, <1>2, <1>3 DEF Order, Later
    <2>3. ASSUME ToMaster(Com(p, i)) PROVE "master" \notin writes'[p]
      <3>1. "master" \notin writes[p] /\ ~ToMaster(f) BY <2>1, <2>3, <1>3, <1>8 DEF Order
      <3>2. f.typ = "WriteTo" => "master" \notin f.arg
        BY <3>1, <1>4, RegistrationAssumption DEF CommandRec, ToMaster
      <3> QED BY <3>1, <3>2, <1>4
    <2>4. ToMaster(Com(p, i)) => \A k : Pending(p, k)' /\ ToMaster(Com(p, k)') => k = i
      BY <2>1, <1>3 DEF Order
    <2>5. Before(p, i, "Location") => f.typ = "Location" \/ Before(p, i, "Location")'
      BY <1>3 DEF Before
    <2>6. Com(p, i).typ \in {"WriteTo", "ReadFrom", "ReadFromPublic"} =>
            ToMaster(Com(p, i)) \/ Synced(p)' \/ Before(p, i, "Location")'
      BY <2>1, <2>5, <1>5 DEF Order
    <2>7. Com(p, i)' = Com(p, i) BY <1>3
    <2>8. ToMaster(Com(p, i))' <=> ToMaster(Com(p, i)) BY <2>7 DEF ToMaster
    <2>9. \A k : ToMaster(Com(p, k))' <=> ToMaster(Com(p, k)') BY DEF ToMaster
    <2> QED BY <2>2, <2>3, <2>4, <2>6, <2>7, <2>8, <2>9 DEF Order
  <1> QED BY <1>6, <1>7, <1>8

LEMMA FreshStart ==
    ASSUME IBase, NEW p \in Pid, NEW a \in App, Start(p, a)
    PROVE  FreshOK(p)'
  <1>1. /\ st[p] = "none" /\ st'[p] = "waiting" /\ app'[p] = a
        /\ reads' = reads /\ writes' = writes
        /\ fresh'[p] = (a \notin locations) /\ locations' = locations
    BY DEF Start, IBase, IShape, IDomains
  <1>2. reads[p] = {} /\ writes[p] = {} BY <1>1 DEF IBase, IShape, IProcess, ProcessOK
  <1>3. \A i : ~Pending(p, i)' BY PendingStart DEF IBase
  <1> QED BY <1>1, <1>2, <1>3 DEF FreshOK, Unregistered

LEMMA FreshNext ==
    ASSUME IBase, ITimely, IOrder, IKnown, [Next]_vars, IFresh
    PROVE  IFresh'
  <1> SUFFICES ASSUME NEW q \in Pid, ~hasty'[q] PROVE FreshOK(q)' BY DEF IFresh
  <1>0. ~hasty[q] /\ ~ReadDeregisterTwice(q) BY HastyStays
  <1>1. FreshOK(q) /\ KnownOK(q) BY <1>0 DEF IFresh, IKnown
  <1>2. CASE RegisterApp BY <1>1, <1>2, FreshRegister
  <1>3. ASSUME NEW p \in Pid, DeregisterApp(p) PROVE FreshOK(q)' BY <1>1, <1>3, FreshDeregister
  <1>4. CASE ReadPublic(q) BY <1>1, <1>4, FreshPublic
  <1>5. CASE ReadCommand(q) BY <1>0, <1>1, <1>5, FreshCommand
  <1>6. ASSUME NEW p \in Pid, NEW a \in App, Start(p, a) PROVE FreshOK(q)'
    <2>1. CASE p = q BY <2>1, <1>6, FreshStart
    <2>2. CASE p # q
      <3>1. /\ UNCHANGED <<public, commands, tracked, locations, writes, reads, cmd, known, links>>
            /\ Same(q) /\ app'[p] = a /\ \A x \in Pid : x # p => app'[x] = app[x]
        BY <2>2, <1>6 DEF Start, Same, IBase, IShape, IDomains
      <3>2. p \notin tracked BY <1>6 DEF Start, IBase, ITracked
      <3>3. tracked \subseteq Pid BY DEF IBase, IShape, IMaster
      <3>4. \A x \in tracked' : app'[x] = app[x] BY <3>1, <3>2, <3>3
      <3>5. /\ \A i : Com(q, i)' = Com(q, i) /\ (Pending(q, i)' <=> Pending(q, i))
        BY <3>1, PendingSame DEF Same
      <3>6. /\ Alive(q)' <=> Alive(q)
            /\ Synced(q)' <=> Synced(q)
            /\ \A i, t : Before(q, i, t)' <=> Before(q, i, t)
        BY <3>1, <3>5 DEF Alive, Synced, Before, Same
      <3>7. Registered(q) => Registered(q)'
        BY <3>1, <3>4, <3>5, <3>6 DEF Registered, Same
      <3>8. Unregistered(q) => Unregistered(q)' BY <3>1, <3>5 DEF Unregistered, Same
      <3>9. ASSUME NEW i, Order(q, i) PROVE Order(q, i)'
        <4>1. Com(q, i)' = Com(q, i) BY <3>5
        <4>2. Later(q, Com(q, i))' BY <4>1, <3>1, <3>9 DEF Order, Later, Same
        <4>3. \A k : ToMaster(Com(q, k))' <=> ToMaster(Com(q, k)) BY <3>5 DEF ToMaster
        <4> QED BY <4>1, <4>2, <4>3, <3>1, <3>5, <3>6, <3>9 DEF Order
      <3> QED BY <3>1, <3>5, <3>6, <3>7, <3>8, <3>9, <1>1 DEF FreshOK, Same
    <2> QED BY <2>1, <2>2
  <1>7. CASE /\ Still(q) /\ ~RegisterApp /\ \A p \in Pid : ~DeregisterApp(p)
             /\ app' = app
    BY <1>1, <1>7, FreshQuiet
  <1>8. CASE \A p \in Pid, a \in App : ~Start(p, a)
    <2>1. app' = app
      BY <1>8 DEF Next, Master, Listen, RegisterApp, RefuseApp, HandleRequest, DeregisterApp,
                  ReadPublic, ReadCommand, ReadDeregisterTwice, Die, Timeout, AppRequest, vars, pvars
    <2>2. Still(q) \/ ReadPublic(q) \/ ReadCommand(q)
      BY <1>0, <1>8, StepIs
    <2> QED BY <2>1, <2>2, <1>2, <1>3, <1>4, <1>5, <1>7
  <1> QED BY <1>6, <1>8

-----------------------------------------------------------------------------
(* What a process that was started at a free location is told, it can do:  *)
(* every location it is told of is known to it by then.                    *)
ICrash == \A p \in Pid : fresh[p] /\ ~hasty[p] => st[p] # "threw"

LEMMA CommandSafe ==
    ASSUME IBase, ITimely, IOrder, NEW p \in Pid, ~hasty[p], ~hasty'[p], KnownOK(p), FreshOK(p),
           fresh[p], ReadCommand(p), st[p] # "threw"
    PROVE  st'[p] # "threw"
  <1> USE DEF IBase
  <1> PICK f : f = Com(p, cmd[p]) OBVIOUS
  <1>1. CommandRead(p, f) BY ShapeCommand
  <1>2. Pending(p, cmd[p]) /\ cmd[p] \in Nat BY PendingCommand
  <1>3. Alive(p) /\ cmd[p] # 0 BY <1>1 DEF CommandRead, ReadCommand, HasCommand
  <1>4. Order(p, cmd[p]) BY <1>2, <1>3 DEF FreshOK
  <1>5. ~Before(p, cmd[p], "Location")
    <2>1. \A k \in 1 .. cmd[p] - 1 : ~(k >= cmd[p]) BY <1>2
    <2> QED BY <2>1, <1>3 DEF Before, Pending
  <1>6. f.typ \in {"WriteTo", "ReadFrom", "ReadFromPublic"} /\ ~ToMaster(f) => f.arg \subseteq known[p]
    <2>1. f.typ \in {"WriteTo", "ReadFrom", "ReadFromPublic"} =>
             \/ f.arg \subseteq Locs(public, pub[p])
             \/ f.typ = "WriteTo" /\ f.arg = {"master"}
      BY <1>3, CommandTimely DEF IOrder
    <2>2. f.typ \in {"WriteTo", "ReadFrom", "ReadFromPublic"} /\ ~ToMaster(f) => Synced(p)
      BY <1>4, <1>5 DEF Order
    <2> QED BY <2>1, <2>2 DEF ToMaster, Synced
  <1>7. ToMaster(f) => f.arg \cap writes[p] = {} BY <1>4 DEF Order, ToMaster
  <1>8. \/ f.typ = "WriteTo" /\ st'[p] = IF (f.arg \cap writes[p]) \subseteq known[p] THEN st[p] ELSE "threw"
        \/ f.typ \in {"ReadFrom", "ReadFromPublic"} /\ (st' = st \/ ~(f.arg \subseteq known[p]))
        \/ st' = st \/ st'[p] = "started"
    BY <1>1 DEF CommandRead
  <1>9. CASE f.typ = "WriteTo" /\ st'[p] = IF (f.arg \cap writes[p]) \subseteq known[p] THEN st[p] ELSE "threw"
    <2>1. (f.arg \cap writes[p]) \subseteq known[p] BY <1>6, <1>7, <1>9
    <2> QED BY <2>1, <1>9
  <1>10. CASE f.typ \in {"ReadFrom", "ReadFromPublic"} /\ (st' = st \/ ~(f.arg \subseteq known[p]))
    BY <1>6, <1>10 DEF ToMaster
  <1> QED BY <1>8, <1>9, <1>10

LEMMA CrashNext ==
    ASSUME IBase, ITimely, IOrder, IKnown, IFresh, [Next]_vars, ICrash
    PROVE  ICrash'
  <1> SUFFICES ASSUME NEW p \in Pid, fresh'[p], ~hasty'[p] PROVE st'[p] # "threw" BY DEF ICrash
  <1>0. ~hasty[p] /\ ~ReadDeregisterTwice(p) BY HastyStays
  <1>1. /\ fresh[p] => st[p] # "threw"
        /\ KnownOK(p) /\ FreshOK(p)
    BY <1>0 DEF ICrash, IKnown, IFresh
  <1>2. CASE Still(p) BY <1>1, <1>2 DEF Still
  <1>3. CASE ReadPublic(p)
    <2> PICK f : f = public[pub[p]] OBVIOUS
    <2>1. PublicRead(p, f) BY <1>3, ShapePublic DEF IBase
    <2>2. /\ fresh' = fresh
          /\ st' = st \/ (st'[p] = IF app[p] \in files THEN "joined" ELSE "fault")
      BY <2>1 DEF PublicRead, PublicRec
    <2> QED BY <2>2, <1>1
  <1>4. CASE ReadCommand(p)
    <2> PICK f : f = Com(p, cmd[p]) OBVIOUS
    <2>1. CommandRead(p, f) BY <1>4, ShapeCommand DEF IBase
    <2>2. fresh' = fresh BY <2>1 DEF CommandRead
    <2> QED BY <2>2, <1>0, <1>1, <1>4, CommandSafe
  <1>5. ASSUME NEW a \in App, Start(p, a) PROVE st'[p] = "waiting"
    BY <1>5 DEF Start, IBase, IShape, IDomains
  <1> QED BY <1>0, <1>2, <1>3, <1>4, <1>5, StepIs

(* A process that found no page of its commands journal had read of        *)
(* another application, and its own was never registered before.           *)
IFault ==
    /\ \A j \in 1 .. Len(public) : public[j].typ = "Register" => public[j].arg \subseteq files
    /\ \A p \in Pid : st[p] = "fault" =>
          pub[p] > 1 /\ app[p] \notin Old \cup public[pub[p] - 1].arg

(* Only register_app writes a Register frame. *)
LEMMA RegisterOnly ==
    ASSUME IBase, [Next]_vars, ~RegisterApp
    PROVE  \A j \in Len(public) + 1 .. Len(public') : public'[j].typ # "Register"
  <1>1. Len(public) \in Nat BY DEF IBase, IShape, IFrames, Journal
  <1>2. CASE public' = public BY <1>1, <1>2
  <1>3. ASSUME NEW a \in App, HandleRequest(a)
        PROVE  \A j \in Len(public) + 1 .. Len(public') : public'[j].typ = "Channel"
    BY <1>3, HandleFrames DEF IBase, IShape
  <1>4. ASSUME NEW p \in Pid, DeregisterApp(p)
        PROVE  \A j \in Len(public) + 1 .. Len(public') : public'[j].typ = "Deregister"
    <2>1. /\ public' = Append(public, Frame(clock + 2, "Deregister", {app[p]}))
          /\ public \in Seq(Rec) /\ app[p] \in App /\ clock \in Nat
      BY <1>4, EndFrames DEF IBase, IShape, IFrames, Journal, IMaster
    <2>2. /\ Frame(clock + 2, "Deregister", {app[p]}) \in Rec
          /\ Frame(clock + 2, "Deregister", {app[p]}).typ = "Deregister"
      <3>1. clock + 2 \in Nat /\ {app[p]} \subseteq App BY <2>1
      <3> QED BY <3>1, PlaceFrame
    <2> QED BY <2>1, <2>2, OneMore
  <1>5. (\E a \in App : HandleRequest(a)) \/ (\E p \in Pid : DeregisterApp(p)) \/ public' = public
    BY DEF Next, Master, Listen, RefuseApp, ReadPublic, ReadCommand, ReadDeregisterTwice, Die,
           Timeout, Start, AppRequest, vars, mvars
  <1> QED BY <1>2, <1>3, <1>4, <1>5

(* A journal that exists is not taken away. *)
LEMMA FilesStay == [Next]_vars => files \subseteq files'
  BY DEF Next, Master, Listen, RegisterApp, RefuseApp, HandleRequest, DeregisterApp, ReadPublic,
         ReadCommand, ReadDeregisterTwice, Die, Timeout, Start, AppRequest, vars, mvars

LEMMA NamedFiles ==
    ASSUME IBase, [Next]_vars, IFault
    PROVE  \A j \in 1 .. Len(public') : public'[j].typ = "Register" => public'[j].arg \subseteq files'
  <1> USE DEF IBase
  <1>1. Wrote BY WroteStep
  <1>2. /\ \A j \in 1 .. Len(public) : public'[j] = public[j]
        /\ \A j \in 1 .. Len(public') : j \in 1 .. Len(public) \/ j \in Len(public) + 1 .. Len(public')
    <2>1. /\ Grown(public, public', clock, clock') /\ Journal(public, clock)
          /\ clock \in Nat /\ clock' \in Nat
      BY <1>1 DEF Wrote, IShape, IFrames, IMaster
    <2>2. \A j \in 1 .. Len(public') : j \in 1 .. Len(public) \/ j \in Len(public) + 1 .. Len(public')
      BY <2>1, GrownIs, Zenon
    <2>3. \A j \in 1 .. Len(public) : public'[j] = public[j] BY <2>1 DEF Grown
    <2> QED BY <2>2, <2>3
  <1>3. CASE RegisterApp
    <2> PICK p : p = Head(inbox) OBVIOUS
    <2> PICK a : a = app[p] OBVIOUS
    <2>1. RegisterWrites(p, a, Len(public), Len(commands[a]))
      BY <1>3, RegisterFrames DEF IShape
    <2>2. /\ Len(public) \in Nat /\ Len(public') = Len(public) + 1 /\ a \in App /\ clock \in Nat
          /\ public'[Len(public) + 1] = Frame(clock + 1, "Register", {a})
      BY <2>1 DEF RegisterWrites, IShape, IMaster
    <2>3. Frame(clock + 1, "Register", {a}).arg = {a}
      <3>1. clock + 1 \in Nat /\ {a} \subseteq App BY <2>2
      <3> QED BY <3>1, PlaceFrame
    <2>4. files' = files \cup {a} BY <1>3 DEF RegisterApp
    <2>5. \A j \in Len(public) + 1 .. Len(public') : j = Len(public) + 1 BY <2>2
    <2> QED BY <1>2, <2>2, <2>3, <2>4, <2>5 DEF IFault
  <1>4. CASE ~RegisterApp
    <2>1. \A j \in Len(public) + 1 .. Len(public') : public'[j].typ # "Register"
      BY <1>4, RegisterOnly
    <2> QED BY <1>2, <2>1, FilesStay DEF IFault
  <1> QED BY <1>3, <1>4

LEMMA FaultNext ==
    ASSUME IBase, [Next]_vars, IFault
    PROVE  IFault'
  <1> USE DEF IBase
  <1>1. \A j \in 1 .. Len(public) : public'[j] = public[j]
    <2>1. Wrote BY WroteStep
    <2> QED BY <2>1 DEF Wrote, Grown
  <1>2. ASSUME NEW p \in Pid, st'[p] = "fault"
        PROVE  pub'[p] > 1 /\ app'[p] \notin Old \cup public'[pub'[p] - 1].arg
    <2>1. /\ pub[p] \in 1 .. Len(public) + 1 /\ Len(public) \in Nat
          /\ st[p] = "fault" => pub[p] > 1 /\ app[p] \notin Old \cup public[pub[p] - 1].arg
      BY DEF IFault, IShape, IProcess, ProcessOK, IFrames, Journal
    <2>2. CASE Still(p)
      <3>1. st[p] = "fault" /\ app'[p] = app[p] /\ pub'[p] = pub[p] BY <1>2, <2>2 DEF Still
      <3>2. pub[p] - 1 \in 1 .. Len(public) BY <3>1, <2>1
      <3> QED BY <1>1, <2>1, <3>1, <3>2
    <2>3. CASE ReadPublic(p)
      <3> PICK f : f = public[pub[p]] OBVIOUS
      <3>1. PublicRead(p, f) BY <2>3, ShapePublic
      <3>2. /\ pub[p] \in 1 .. Len(public) /\ pub'[p] = pub[p] + 1 /\ app' = app
            /\ st[p] # "fault"
        BY <3>1 DEF PublicRead, Alive
      <3>3. f.typ = "Register" /\ app[p] \notin files BY <1>2, <3>1, <3>2 DEF PublicRead
      <3>4. f.arg \subseteq files /\ Old \subseteq files BY <3>2, <3>3 DEF IFault, IShape, IMaster
      <3>5. pub'[p] - 1 = pub[p] /\ pub'[p] > 1 BY <3>2
      <3> QED BY <1>1, <3>2, <3>3, <3>4, <3>5
    <2>4. CASE ReadCommand(p)
      <3> PICK f : f = Com(p, cmd[p]) OBVIOUS
      <3>1. CommandRead(p, f) BY <2>4, ShapeCommand
      <3> QED BY <1>2, <3>1 DEF CommandRead, Alive
    <2>5. CASE ReadDeregisterTwice(p) BY <1>2, <2>5, ShapeTwice DEF TwiceRead, Alive
    <2>6. ASSUME NEW a \in App, Start(p, a) PROVE FALSE
      BY <1>2, <2>6 DEF Start, IShape, IDomains
    <2> QED BY <2>2, <2>3, <2>4, <2>5, <2>6, StepIs
  <1> QED BY <1>2, NamedFiles DEF IFault

-----------------------------------------------------------------------------
(* A process reads the journal of a source if it was told so after its own *)
(* registration and has not read of the end of that source since.          *)
Ends(f, a) == f.typ = "Deregister" /\ a \in f.arg
Opens(f, a) == f.typ = "ReadFrom" /\ a \in f.arg
Told(p, a) ==
    \E i \in 1 .. cmd[p] - 1 :
       /\ Opens(Com(p, i), a) /\ Later(p, Com(p, i))
       /\ \A j \in 1 .. pub[p] - 1 : Ends(public[j], a) => public[j].gen < Com(p, i).gen
ReadsOK(p) ==
    fresh[p] /\ Alive(p) /\ app[p] \in locations =>
       \A a \in App : <<a, FALSE>> \in reads[p] <=> Told(p, a)
IReads == \A p \in Pid : ~hasty[p] => ReadsOK(p)

LEMMA ReadsStill ==
    ASSUME IShape, Wrote, NEW p \in Pid, Still(p), ReadsOK(p),
           app[p] \in locations' => app[p] \in locations,
           \A j \in Len(public) + 1 .. Len(public') :
              ~(public'[j].typ = "Register" /\ app[p] \in public'[j].arg)
    PROVE  ReadsOK(p)'
  <1> SUFFICES ASSUME fresh'[p], Alive(p)', app'[p] \in locations', NEW a \in App
               PROVE  <<a, FALSE>> \in reads'[p] <=> Told(p, a)'
    BY DEF ReadsOK
  <1>1. /\ fresh[p] /\ Alive(p) /\ app'[p] = app[p] /\ pub'[p] = pub[p]
        /\ cmd'[p] = cmd[p] /\ reads'[p] = reads[p] /\ app[p] \in locations
    BY DEF Still, Alive
  <1>2. <<a, FALSE>> \in reads[p] <=> Told(p, a) BY <1>1 DEF ReadsOK
  <1>3. /\ app[p] \in App /\ pub[p] \in 1 .. Len(public) + 1
        /\ cmd[p] \in Nat /\ cmd[p] <= Len(commands[app[p]]) + 1
    BY <1>1 DEF Alive, IShape, IProcess, ProcessOK
  <1> DEFINE C == commands[app[p]]
  <1>4. Len(C) \in Nat /\ \A i \in 1 .. Len(C) : Com(p, i)' = Com(p, i)
    <2>1. Len(C) \in Nat BY <1>3 DEF IShape, IFrames, Journal
    <2>2. \A i \in 1 .. Len(C) : Com(p, i)' = Com(p, i)
      BY <1>1, <1>3, PendingKept DEF IShape
    <2> QED BY <2>1, <2>2
  <1>5. Journal(public, clock) /\ Grown(public, public', clock, clock') /\ clock \in Nat /\ clock' \in Nat
    BY DEF IShape, IFrames, Wrote, IMaster
  <1>6. Len(public) \in Nat BY <1>5, JournalIs, Zenon
  <1>7. \A j \in 1 .. Len(public) : public'[j] = public[j] BY <1>5 DEF Grown
  <1>8. \A j \in 1 .. Len(public') : j \in 1 .. Len(public) \/ j \in Len(public) + 1 .. Len(public')
    BY <1>5, GrownIs, Zenon
  <1>9. \A j \in 1 .. Len(public) : j \in 1 .. Len(public')
    BY <1>5, GrownIs, Zenon
  <1>10. ASSUME NEW f PROVE Later(p, f)' <=> Later(p, f)
    <2>1. Later(p, f) <=> \A j \in 1 .. Len(public') :
             public'[j].typ = "Register" /\ app[p] \in public'[j].arg => public'[j].gen < f.gen
      BY <1>7, <1>8, <1>9 DEF Later
    <2> QED BY <2>1, <1>1 DEF Later
  <1>11. \A i \in 1 .. cmd[p] - 1 : i \in 1 .. Len(C) BY <1>3, <1>4
  <1>12. \A j \in 1 .. pub[p] - 1 : public'[j] = public[j]
    <2>1. \A j \in 1 .. pub[p] - 1 : j \in 1 .. Len(public) BY <1>3, <1>6
    <2> QED BY <2>1, <1>7
  <1>13. \A i \in 1 .. cmd[p] - 1 : Com(p, i)' = Com(p, i) BY <1>4, <1>11
  <1> HIDE DEF C
  <1>14. Told(p, a)' <=> Told(p, a)
    <2>1. ASSUME NEW i \in 1 .. cmd[p] - 1
          PROVE  /\ Later(p, Com(p, i))' <=> Later(p, Com(p, i))
                 /\ Opens(Com(p, i), a)' <=> Opens(Com(p, i), a)
                 /\ (\A j \in 1 .. pub[p] - 1 : Ends(public[j], a) => public[j].gen < Com(p, i).gen)'
                       <=> \A j \in 1 .. pub[p] - 1 : Ends(public[j], a) => public[j].gen < Com(p, i).gen
      <3> PICK f : f = Com(p, i) OBVIOUS
      <3>1. Com(p, i)' = f BY <1>13
      <3>2. Later(p, f)' <=> Later(p, f) BY <1>10
      <3>3. Later(p, Com(p, i))' <=> Later(p, f)' BY <3>1 DEF Later
      <3> QED BY <3>1, <3>2, <3>3, <1>1, <1>12 DEF Opens, Ends
    <2> QED BY <2>1, <1>1 DEF Told
  <1> QED BY <1>1, <1>2, <1>14

LEMMA ReadsRegister ==
    ASSUME IBase, NEW q \in Pid, FreshOK(q), ReadsOK(q), RegisterApp
    PROVE  ReadsOK(q)'
  <1> USE DEF IBase
  <1> PICK p : p = Head(inbox) OBVIOUS
  <1> PICK a : a = app[p] OBVIOUS
  <1> PICK n : n = Len(public) OBVIOUS
  <1> PICK m : m = Len(commands[a]) OBVIOUS
  <1>1. RegisterWrites(p, a, n, m) BY RegisterFrames DEF IShape
  <1>2. /\ n \in Nat /\ m \in Nat /\ a \in App /\ a \notin locations /\ Wrote
        /\ Len(public') = n + 1 /\ public'[n + 1].gen = clock + 1
        /\ public'[n + 1].typ = "Register" /\ public'[n + 1].arg = {a}
    BY <1>1 DEF RegisterWrites, Frame
  <1>3. UNCHANGED pvars /\ Still(q) /\ locations' = locations \cup {a}
    BY DEF RegisterApp, pvars, Still
  <1>4. CASE app[q] # a
    <2>1. \A j \in Len(public) + 1 .. Len(public') :
             ~(public'[j].typ = "Register" /\ app[q] \in public'[j].arg)
      <3>1. \A j \in n + 1 .. n + 1 : j = n + 1 BY <1>2
      <3> QED BY <3>1, <1>2, <1>4
    <2> QED BY <2>1, <1>2, <1>3, <1>4, ReadsStill
  <1>5. CASE app[q] = a
    <2> SUFFICES ASSUME fresh'[q], Alive(q)', NEW x \in App
                 PROVE  <<x, FALSE>> \notin reads'[q] /\ ~Told(q, x)'
      BY DEF ReadsOK
    <2>1. fresh[q] /\ Alive(q) BY <1>3 DEF Alive, pvars
    <2>2. reads[q] = {} BY <2>1, <1>2, <1>5 DEF FreshOK, Unregistered
    <2>3. /\ pub[q] \in 1 .. Len(public) + 1 /\ cmd[q] \in Nat /\ cmd[q] <= m + 1
          /\ app'[q] = app[q] /\ pub'[q] = pub[q] /\ cmd'[q] = cmd[q]
      BY <2>1, <1>3, <1>5 DEF Alive, IShape, IProcess, ProcessOK, pvars
    <2>4. \A i \in 1 .. cmd'[q] - 1 : i \in 1 .. m BY <2>3, <1>2
    <2>5. \A i \in 1 .. m : Com(q, i)' = Com(q, i) /\ Com(q, i).gen \in 1 .. clock
      <3>1. \A i \in 1 .. m : Com(q, i)' = Com(q, i)
        BY <2>3, <1>2, <1>5, PendingKept DEF IShape
      <3>2. \A i \in 1 .. m : Com(q, i).gen \in 1 .. clock
        BY <1>2, <1>5 DEF Com, IShape, IFrames, Journal
      <3> QED BY <3>1, <3>2
    <2>6. clock \in Nat BY DEF IShape, IMaster
    <2>7. ASSUME NEW i \in 1 .. m PROVE ~Later(q, Com(q, i))'
      <3>1. ~(public'[n + 1].gen < Com(q, i)'.gen) BY <2>5, <2>6, <1>2
      <3>2. n + 1 \in 1 .. Len(public') BY <1>2
      <3> QED BY <3>1, <3>2, <2>3, <1>2, <1>5 DEF Later
    <2> QED BY <2>2, <2>4, <2>7, <1>3 DEF Told, pvars
  <1> QED BY <1>4, <1>5

LEMMA ReadsPublic ==
    ASSUME IBase, IOrder, NEW p \in Pid, ~hasty[p], FreshOK(p), ReadsOK(p), ReadPublic(p)
    PROVE  ReadsOK(p)'
  <1> USE DEF IBase
  <1> PICK f : f = public[pub[p]] OBVIOUS
  <1>1. PublicRead(p, f) BY ShapePublic
  <1>2. UNCHANGED <<public, commands, locations>> /\ app' = app
    BY <1>1 DEF ReadPublic, mvars, PublicRead
  <1>3. /\ Alive(p) /\ app[p] \in App /\ pub[p] \in 1 .. Len(public) /\ pub'[p] = pub[p] + 1
        /\ fresh' = fresh
        /\ f.typ # "Register" => st' = st /\ cmd' = cmd
        /\ st[p] # "waiting" => st' = st /\ cmd' = cmd
        /\ st[p] = "waiting" /\ f.typ = "Register" =>
             /\ cmd'[p] \in 1 .. Len(commands[app[p]]) + 1
             /\ \A i \in 1 .. Len(commands[app[p]]) :
                  i >= cmd'[p] <=> Com(p, i).gen > f.gen
        /\ f.typ = "Deregister" => reads'[p] = {r \in reads[p] : r[1] \notin f.arg}
        /\ f.typ # "Deregister" => reads'[p] = reads[p]
    BY <1>1 DEF PublicRead
  <1>4. /\ st[p] = "waiting" <=> cmd[p] = 0
        /\ cmd[p] \in Nat /\ cmd[p] <= Len(commands[app[p]]) + 1
    BY <1>3 DEF IShape, IProcess, ProcessOK, Alive
  <1> SUFFICES ASSUME fresh[p], app[p] \in locations, NEW a \in App
               PROVE  <<a, FALSE>> \in reads'[p] <=> Told(p, a)'
    BY <1>2, <1>3 DEF ReadsOK
  <1>5. <<a, FALSE>> \in reads[p] <=> Told(p, a) BY <1>3 DEF ReadsOK
  <1>6. \A i : Com(p, i)' = Com(p, i) BY <1>2 DEF Com
  <1>7. \A i : Later(p, Com(p, i))' <=> Later(p, Com(p, i)) BY <1>2, <1>6 DEF Later
  <1>8. \A j : j \in 1 .. pub'[p] - 1 <=> j \in 1 .. pub[p] - 1 \/ j = pub[p]
    BY <1>3
  <1>9. CASE st[p] = "waiting" /\ f.typ = "Register"
    <2>1. ~Told(p, a) BY <1>4, <1>9 DEF Told
    <2>2. Registered(p) BY <1>3 DEF FreshOK
    <2>3. PICK j \in pub[p] .. Len(public) : public[j].typ = "Register" /\ app[p] \in public[j].arg
      BY <2>2, <1>4, <1>9 DEF Registered
    <2>4. /\ Len(public) \in Nat /\ Rising(public) /\ \A k \in 1 .. Len(public) : public[k].gen \in Nat
          /\ Len(commands[app[p]]) \in Nat
          /\ \A i \in 1 .. Len(commands[app[p]]) : Com(p, i).gen \in Nat
      <3>1. Journal(public, clock) /\ Journal(commands[app[p]], clock) /\ clock \in Nat
        BY <1>3 DEF IShape, IFrames, IMaster
      <3>2. Len(public) \in Nat /\ \A k \in 1 .. Len(public) : public[k].gen \in Nat
        BY <3>1, JournalIs, Zenon
      <3>3. /\ Len(commands[app[p]]) \in Nat
            /\ \A i \in 1 .. Len(commands[app[p]]) : commands[app[p]][i].gen \in Nat
        BY <3>1, JournalIs, Zenon
      <3> QED BY <3>1, <3>2, <3>3 DEF Journal, Com
    <2>5. j \in 1 .. Len(public) BY <2>4, <1>3
    <2>6. f.gen <= public[j].gen
      <3>1. pub[p] < j \/ pub[p] = j BY <2>4, <1>3
      <3> QED BY <3>1, <2>4, <2>5, <1>3 DEF Rising
    <2>7. ASSUME NEW i \in 1 .. cmd'[p] - 1 PROVE ~Later(p, Com(p, i))
      <3>1. i \in 1 .. Len(commands[app[p]]) /\ ~(i >= cmd'[p]) BY <2>4, <1>3, <1>9
      <3>2. ~(Com(p, i).gen > f.gen) BY <3>1, <1>3, <1>9
      <3>3. ~(public[j].gen < Com(p, i).gen) BY <3>1, <3>2, <2>4, <2>5, <2>6, <1>3
      <3> QED BY <3>3, <2>3, <2>5 DEF Later
    <2>8. ~Told(p, a)' BY <2>7, <1>7 DEF Told
    <2> QED BY <2>1, <2>8, <1>3, <1>5, <1>9
  <1>10. CASE cmd' = cmd /\ ~Ends(f, a)
    <2>1. <<a, FALSE>> \in reads'[p] <=> <<a, FALSE>> \in reads[p]
      BY <1>3, <1>10 DEF Ends
    <2>2. \A i : (\A j \in 1 .. pub'[p] - 1 : Ends(public[j], a) => public[j].gen < Com(p, i).gen)
             <=> \A j \in 1 .. pub[p] - 1 : Ends(public[j], a) => public[j].gen < Com(p, i).gen
      BY <1>8, <1>10
    <2>3. Told(p, a)' <=> Told(p, a) BY <2>2, <1>2, <1>6, <1>7, <1>10 DEF Told, Opens, Ends
    <2> QED BY <2>1, <2>3, <1>5
  <1>11. CASE cmd' = cmd /\ Ends(f, a)
    <2>1. <<a, FALSE>> \notin reads'[p] BY <1>3, <1>11 DEF Ends
    <2>2. ASSUME NEW i \in 1 .. cmd[p] - 1 PROVE ~(f.gen < Com(p, i).gen)
      <3>1. i \in 1 .. Len(commands[app[p]]) /\ i < cmd[p] /\ cmd[p] # 0
        <4>1. Len(commands[app[p]]) \in Nat BY <1>3 DEF IShape, IFrames, Journal
        <4> QED BY <4>1, <1>4
      <3>2. pub[p] >= pub[p] BY <1>3
      <3>3. Com(p, i).gen < f.gen BY <3>1, <3>2, <1>3 DEF IOrder, Ordered
      <3>4. Com(p, i).gen \in Nat /\ f.gen \in Nat
        <4>1. Journal(commands[app[p]], clock) /\ clock \in Nat BY <1>3 DEF IShape, IFrames, IMaster
        <4>2. commands[app[p]][i].gen \in Nat BY <4>1, <3>1, JournalIs, Zenon
        <4>3. f.gen \in Nat BY <1>1 DEF PublicRead, Rec
        <4> QED BY <4>2, <4>3 DEF Com
      <3> QED BY <3>3, <3>4
    <2>3. pub[p] \in 1 .. pub'[p] - 1 BY <1>3
    <2>4. ~Told(p, a)' BY <2>2, <2>3, <1>2, <1>6, <1>11 DEF Told, Ends
    <2> QED BY <2>1, <2>4
  <1> QED BY <1>3, <1>9, <1>10, <1>11

LEMMA ReadsCommand ==
    ASSUME IBase, IOrder, NEW p \in Pid, ~hasty[p], FreshOK(p), ReadsOK(p), ReadCommand(p)
    PROVE  ReadsOK(p)'
  <1> USE DEF IBase
  <1> PICK f : f = Com(p, cmd[p]) OBVIOUS
  <1>1. CommandRead(p, f) BY ShapeCommand
  <1>2. UNCHANGED <<public, commands, locations>> /\ app' = app
    BY <1>1 DEF ReadCommand, mvars, CommandRead
  <1>3. /\ Alive(p) /\ cmd[p] \in 1 .. Len(commands[app[p]]) /\ cmd'[p] = cmd[p] + 1
        /\ fresh' = fresh /\ pub' = pub
        /\ \/ f.typ \notin {"ReadFrom", "ReadFromPublic"} /\ reads' = reads
           \/ /\ f.typ \in {"ReadFrom", "ReadFromPublic"}
              /\ reads'[p] = reads[p] \cup (f.arg \X {f.typ = "ReadFromPublic"})
           \/ st'[p] = "threw"
    BY <1>1 DEF CommandRead
  <1>4. Pending(p, cmd[p]) /\ cmd[p] \in Nat /\ cmd[p] # 0 BY <1>3, PendingCommand
  <1> SUFFICES ASSUME fresh[p], st'[p] # "threw", app[p] \in locations, NEW a \in App
               PROVE  <<a, FALSE>> \in reads'[p] <=> Told(p, a)'
    BY <1>2, <1>3 DEF ReadsOK, Alive
  <1>5. <<a, FALSE>> \in reads[p] <=> Told(p, a) BY <1>3 DEF ReadsOK
  <1>6. \A i : Com(p, i)' = Com(p, i) BY <1>2 DEF Com
  <1>7. \A i : Later(p, Com(p, i))' <=> Later(p, Com(p, i)) BY <1>2, <1>6 DEF Later
  <1>8. Later(p, f) BY <1>3, <1>4 DEF FreshOK, Order
  <1>9. \A j \in 1 .. pub[p] - 1 : public[j].gen < f.gen
    <2>1. pub[p] \in 1 .. Len(public) + 1 /\ Len(public) \in Nat
      BY DEF IShape, IProcess, ProcessOK, IFrames, Journal
    <2>2. \A j \in 1 .. pub[p] - 1 : j \in 1 .. Len(public) /\ j < pub[p] BY <2>1
    <2>3. cmd[p] >= cmd[p] BY <1>4
    <2> QED BY <2>2, <2>3, <1>3, <1>4 DEF IOrder, Ordered
  <1>10. <<a, FALSE>> \in reads'[p] <=> <<a, FALSE>> \in reads[p] \/ Opens(f, a)
    BY <1>3 DEF Opens
  <1>11. \A i : i \in 1 .. cmd'[p] - 1 <=> i \in 1 .. cmd[p] - 1 \/ i = cmd[p]
    BY <1>3, <1>4
  <1>12. Told(p, a)' <=>
           \E i \in 1 .. cmd'[p] - 1 :
              /\ Opens(Com(p, i), a) /\ Later(p, Com(p, i))
              /\ \A j \in 1 .. pub[p] - 1 : Ends(public[j], a) => public[j].gen < Com(p, i).gen
    BY <1>2, <1>3, <1>6, <1>7 DEF Told, Opens, Ends
  <1>13. Told(p, a)' <=> Told(p, a) \/ Opens(f, a)
    BY <1>8, <1>9, <1>11, <1>12 DEF Told
  <1> QED BY <1>5, <1>10, <1>13

LEMMA ReadsNext ==
    ASSUME IBase, IOrder, IFresh, [Next]_vars, IReads
    PROVE  IReads'
  <1> SUFFICES ASSUME NEW q \in Pid, ~hasty'[q] PROVE ReadsOK(q)' BY DEF IReads
  <1>0. ~hasty[q] /\ ~ReadDeregisterTwice(q) BY HastyStays
  <1>1. ReadsOK(q) /\ FreshOK(q) BY <1>0 DEF IReads, IFresh
  <1>2. Wrote BY WroteStep
  <1>3. CASE RegisterApp BY <1>1, <1>3, ReadsRegister
  <1>4. CASE ReadPublic(q) BY <1>0, <1>1, <1>4, ReadsPublic
  <1>5. CASE ReadCommand(q) BY <1>0, <1>1, <1>5, ReadsCommand
  <1>6. ASSUME NEW a \in App, Start(q, a) PROVE ReadsOK(q)'
    BY <1>6 DEF ReadsOK, Start, IBase, IShape, IDomains
  <1>7. CASE Still(q) /\ ~RegisterApp
    <2>1. locations' \subseteq locations
      BY <1>7 DEF Next, Master, Listen, RefuseApp, HandleRequest, DeregisterApp,
         ReadPublic, ReadCommand, ReadDeregisterTwice, Die, Timeout, Start, AppRequest, vars, mvars
    <2>2. \A j \in Len(public) + 1 .. Len(public') : public'[j].typ # "Register"
      BY <1>7, RegisterOnly
    <2> QED BY <2>1, <2>2, <1>1, <1>2, <1>7, ReadsStill DEF IBase
  <1> QED BY <1>0, <1>3, <1>4, <1>5, <1>6, <1>7, StepIs

-----------------------------------------------------------------------------
(* The last frame of a kind has the latest time of them. *)
LEMMA Last ==
    ASSUME NEW m \in Nat, NEW S, S \subseteq 1 .. m, S # {}
    PROVE  \E i \in S : \A k \in S : k <= i
  <1>0. \A k \in S : k \in Nat OBVIOUS
  <1> DEFINE T == {m - i : i \in S}
  <1>1. T \subseteq Nat /\ T # {}
    <2>1. PICK s \in S : TRUE OBVIOUS
    <2>2. m - s \in T OBVIOUS
    <2>3. T \subseteq Nat OBVIOUS
    <2> QED BY <2>2, <2>3
  <1>2. PICK z \in T : \A y \in T : ~(<<y, z>> \in OpToRel(<, Nat))
    BY <1>1, NatLessThanWellFounded, WFMin
  <1>3. \A y \in T : ~(y < z) BY <1>1, <1>2 DEF OpToRel
  <1>4. PICK i \in S : z = m - i OBVIOUS
  <1>5. \A k \in S : ~(m - k < m - i) BY <1>3, <1>4
  <1>6. \A k \in S : k <= i
    <2> SUFFICES ASSUME NEW k \in S PROVE k <= i OBVIOUS
    <2>1. k \in Nat /\ i \in Nat BY <1>0
    <2>2. ~(m - k < m - i) BY <1>5
    <2> HIDE DEF T
    <2> QED BY <2>1, <2>2
  <1> QED BY <1>6

LEMMA LastTimeIs ==
    ASSUME NEW J, NEW t \in Nat, Journal(J, t), NEW typ, NEW a
    PROVE  /\ LastTime(J, typ, a) \in Nat
           /\ \A i \in 1 .. Len(J) :
                J[i].typ = typ /\ a \in J[i].arg => J[i].gen <= LastTime(J, typ, a)
           /\ \/ LastTime(J, typ, a) = 0
              \/ \E i \in 1 .. Len(J) :
                   J[i].typ = typ /\ a \in J[i].arg /\ LastTime(J, typ, a) = J[i].gen
  <1> DEFINE G == {i \in 1 .. Len(J) : J[i].typ = typ /\ a \in J[i].arg}
             top == CHOOSE i \in G : \A k \in G : k <= i
  <1>1. /\ Len(J) \in Nat /\ \A j \in 1 .. Len(J) : J[j].gen \in Nat
        /\ \A i, j \in 1 .. Len(J) : i < j => J[i].gen < J[j].gen
    BY JournalIs, Zenon
  <1>2. LastTime(J, typ, a) = IF G = {} THEN 0 ELSE J[top].gen BY DEF LastTime
  <1>3. CASE G = {} BY <1>2, <1>3
  <1>4. CASE G # {}
    <2>1. G \subseteq 1 .. Len(J) OBVIOUS
    <2> HIDE DEF G
    <2>2. \E i \in G : \A k \in G : k <= i BY <2>1, <1>1, <1>4, Last
    <2>3. top \in G /\ \A k \in G : k <= top BY <2>2
    <2> HIDE DEF top
    <2>4. LastTime(J, typ, a) = J[top].gen BY <1>2, <1>4
    <2>5. \A k \in G : J[k].gen <= J[top].gen
      <3> SUFFICES ASSUME NEW k \in G PROVE J[k].gen <= J[top].gen OBVIOUS
      <3>1. k \in 1 .. Len(J) /\ top \in 1 .. Len(J) /\ k <= top BY <2>1, <2>3
      <3>2. k < top \/ k = top BY <3>1, <1>1
      <3> QED BY <3>1, <3>2, <1>1
    <2>6. top \in 1 .. Len(J) /\ J[top].typ = typ /\ a \in J[top].arg BY <2>3 DEF G
    <2> QED BY <2>4, <2>5, <2>6, <1>1 DEF G
  <1> QED BY <1>3, <1>4

LEMMA ReadsShow ==
    ASSUME IBase, IFresh, IReads, NEW p \in Pid, CaughtUp(p), fresh[p], ~hasty[p], NEW a \in App
    PROVE  <<a, FALSE>> \in reads[p]
             <=> LET t == LastTime(commands[app[p]], "ReadFrom", a) IN
                 /\ t > LastTime(public, "Deregister", a)
                 /\ t > LastTime(public, "Register", app[p])
  <1> USE DEF IBase, IShape
  <1> DEFINE C == commands[app[p]]
             t == LastTime(C, "ReadFrom", a)
             d == LastTime(public, "Deregister", a)
             r == LastTime(public, "Register", app[p])
  <1>1. /\ st[p] = "started" /\ Alive(p) /\ app[p] \in App /\ cmd[p] # 0
        /\ ~(pub[p] <= Len(public)) /\ ~(cmd[p] <= Len(C))
        /\ pub[p] \in 1 .. Len(public) + 1 /\ cmd[p] \in Nat /\ cmd[p] <= Len(C) + 1
    <2>1. st[p] = "started" /\ Alive(p) BY DEF CaughtUp, Alive
    <2>2. /\ app[p] \in App /\ cmd[p] # 0 /\ pub[p] \in 1 .. Len(public) + 1
          /\ cmd[p] \in Nat /\ cmd[p] <= Len(C) + 1
      BY <2>1 DEF IProcess, ProcessOK
    <2> QED BY <2>1, <2>2 DEF CaughtUp, HasPublic, HasCommand
  <1>2. Journal(public, clock) /\ Journal(C, clock) /\ clock \in Nat
    BY <1>1 DEF IFrames, IMaster
  <1>3. Len(public) \in Nat /\ Len(C) \in Nat BY <1>2, JournalIs, Zenon
  <1>4. pub[p] - 1 = Len(public) /\ cmd[p] - 1 = Len(C) BY <1>1, <1>3
  <1>5. app[p] \in locations
    <2>1. FreshOK(p) BY DEF IFresh
    <2> QED BY <2>1, <1>1 DEF FreshOK, Unregistered
  <1>6. <<a, FALSE>> \in reads[p] <=> Told(p, a) BY <1>1, <1>5 DEF IReads, ReadsOK
  <1>7. Told(p, a) <=>
          \E i \in 1 .. Len(C) :
             /\ C[i].typ = "ReadFrom" /\ a \in C[i].arg
             /\ \A j \in 1 .. Len(public) :
                  public[j].typ = "Register" /\ app[p] \in public[j].arg => public[j].gen < C[i].gen
             /\ \A j \in 1 .. Len(public) :
                  public[j].typ = "Deregister" /\ a \in public[j].arg => public[j].gen < C[i].gen
    BY <1>4 DEF Told, Opens, Ends, Later, Com
  <1>8. /\ t \in Nat
        /\ \A i \in 1 .. Len(C) : C[i].typ = "ReadFrom" /\ a \in C[i].arg => C[i].gen <= t
        /\ t = 0 \/ \E i \in 1 .. Len(C) : C[i].typ = "ReadFrom" /\ a \in C[i].arg /\ t = C[i].gen
    BY <1>2, LastTimeIs
  <1>9. /\ d \in Nat
        /\ \A j \in 1 .. Len(public) :
             public[j].typ = "Deregister" /\ a \in public[j].arg => public[j].gen <= d
        /\ \/ d = 0
           \/ \E j \in 1 .. Len(public) :
                public[j].typ = "Deregister" /\ a \in public[j].arg /\ d = public[j].gen
    BY <1>2, LastTimeIs
  <1>10. /\ r \in Nat
         /\ \A j \in 1 .. Len(public) :
              public[j].typ = "Register" /\ app[p] \in public[j].arg => public[j].gen <= r
         /\ \/ r = 0
            \/ \E j \in 1 .. Len(public) :
                 public[j].typ = "Register" /\ app[p] \in public[j].arg /\ r = public[j].gen
    BY <1>2, LastTimeIs
  <1>11. /\ \A i \in 1 .. Len(C) : C[i].gen \in Nat /\ C[i].gen > 0
         /\ \A j \in 1 .. Len(public) : public[j].gen \in Nat
    <2>1. \A i \in 1 .. Len(C) : C[i].gen \in 1 .. clock /\ C[i].gen \in Nat
      BY <1>2, JournalIs, Zenon
    <2>2. \A j \in 1 .. Len(public) : public[j].gen \in Nat BY <1>2, JournalIs, Zenon
    <2> QED BY <2>1, <2>2
  <1> HIDE DEF C, t, d, r
  <1>12. ASSUME Told(p, a) PROVE t > d /\ t > r
    <2>1. PICK i \in 1 .. Len(C) :
             /\ C[i].typ = "ReadFrom" /\ a \in C[i].arg
             /\ \A j \in 1 .. Len(public) :
                  public[j].typ = "Register" /\ app[p] \in public[j].arg => public[j].gen < C[i].gen
             /\ \A j \in 1 .. Len(public) :
                  public[j].typ = "Deregister" /\ a \in public[j].arg => public[j].gen < C[i].gen
      BY <1>7, <1>12
    <2>2. C[i].gen <= t /\ C[i].gen \in Nat /\ C[i].gen > 0 BY <2>1, <1>8, <1>11
    <2>3. d < C[i].gen BY <2>1, <2>2, <1>9
    <2>4. r < C[i].gen BY <2>1, <2>2, <1>10
    <2> QED BY <2>2, <2>3, <2>4, <1>8, <1>9, <1>10
  <1>13. ASSUME t > d, t > r PROVE Told(p, a)
    <2>1. t # 0 BY <1>13, <1>9
    <2>2. PICK i \in 1 .. Len(C) : C[i].typ = "ReadFrom" /\ a \in C[i].arg /\ t = C[i].gen
      BY <2>1, <1>8
    <2>3. ASSUME NEW j \in 1 .. Len(public), public[j].typ = "Register", app[p] \in public[j].arg
          PROVE  public[j].gen < C[i].gen
      BY <2>2, <2>3, <1>8, <1>10, <1>11, <1>13
    <2>4. ASSUME NEW j \in 1 .. Len(public), public[j].typ = "Deregister", a \in public[j].arg
          PROVE  public[j].gen < C[i].gen
      BY <2>2, <2>4, <1>8, <1>9, <1>11, <1>13
    <2> QED BY <2>2, <2>3, <2>4, <1>7
  <1>14. Told(p, a) <=> t > d /\ t > r BY <1>12, <1>13
  <1> QED BY <1>6, <1>14 DEF t, d, r, C

-----------------------------------------------------------------------------
(* The invariant of what the processes read and know. *)
IReaders == ITimely /\ IOrder /\ IKnown /\ IFresh /\ ICrash /\ IFault /\ IReads
IInv == IBase /\ IReaders

LEMMA ReadersInit == Init => IInv
  <1> SUFFICES ASSUME Init PROVE IInv OBVIOUS
  <1>1. IBase BY InitBase
  <1>2. ITimely BY TimelyInit
  <1>3. IOrder BY DEF Init, IOrder
  <1>4. \A p \in Pid : /\ known[p] = {} /\ links[p] = {} /\ st[p] = "none" /\ ~fresh[p]
    BY DEF Init
  <1>5. IKnown BY <1>4 DEF IKnown, KnownOK, Alive
  <1>6. IFresh /\ IReads BY <1>4 DEF IFresh, FreshOK, IReads, ReadsOK
  <1>7. ICrash BY <1>4 DEF ICrash
  <1>8. IFault
    <2>1. Len(public) = 0 BY DEF Init
    <2> QED BY <2>1, <1>4 DEF IFault
  <1> QED BY <1>1, <1>2, <1>3, <1>5, <1>6, <1>7, <1>8 DEF IInv, IReaders

LEMMA ReadersNext == IInv /\ [Next]_vars => IInv'
  <1> SUFFICES ASSUME IInv, [Next]_vars PROVE IInv' OBVIOUS
  <1> USE DEF IInv, IReaders
  <1>1. IBase' BY BaseStep
  <1>2. ITimely' BY TimelyNext
  <1>3. IOrder' BY OrderNext
  <1>4. IKnown' BY KnownNext
  <1>5. IFresh' BY FreshNext
  <1>6. ICrash' BY CrashNext
  <1>7. IReads' BY ReadsNext
  <1>8. IFault' BY FaultNext
  <1> QED BY <1>1, <1>2, <1>3, <1>4, <1>5, <1>6, <1>7, <1>8

LEMMA InvShows == IInv => Agreement /\ Follows /\ NoCrash
  <1> SUFFICES ASSUME IInv PROVE Agreement /\ Follows /\ NoCrash OBVIOUS
  <1> USE DEF IInv, IReaders
  <1>1. ASSUME NEW p \in Pid, CaughtUp(p), ~hasty[p]
        PROVE  known[p] = locations /\ links[p] = channels
    <2>1. Synced(p) /\ Linked(p) BY <1>1 DEF IKnown, KnownOK, CaughtUp
    <2>2. pub[p] = Len(public) + 1
      <3>1. pub[p] \in 1 .. Len(public) + 1 /\ Len(public) \in Nat
        BY DEF IBase, IShape, IProcess, ProcessOK, IFrames, Journal
      <3>2. ~(pub[p] <= Len(public)) BY <1>1 DEF CaughtUp, HasPublic, Alive
      <3> QED BY <3>1, <3>2
    <2> QED BY <2>1, <2>2 DEF ITimely, Synced, Linked
  <1>2. Follows BY ReadsShow DEF Follows
  <1>3. NoCrash BY DEF ICrash, IFault, NoCrash
  <1> QED BY <1>1, <1>2, <1>3 DEF Agreement

(* An application that has read everything, and was never given a frame    *)
(* before an older one (data_available), knows the locations and the       *)
(* channels that the master has, however the snapshot of register_app and  *)
(* the announcements of comings and goings were interleaved, for any       *)
(* number of applications and of restarts.                                 *)
THEOREM ApplicationsAgree == Spec => []Agreement
  <1>1. IInv => Agreement BY InvShows
  <1> QED BY <1>1, ReadersInit, ReadersNext, PTL DEF Spec

(* And it reads the journal of a source exactly if the master's last       *)
(* RequestReadFrom for it came after its own registration and after the    *)
(* end of the source's last session (on_read_from, deregister_location),   *)
(* if its own location was free when it was started.                       *)
THEOREM ReadsFollow == Spec => []Follows
  <1>1. IInv => Follows BY InvShows
  <1> QED BY <1>1, ReadersInit, ReadersNext, PTL DEF Spec

(* The ways in which what the master writes kills a process: get_location  *)
(* throws only in a process that was started before its predecessor was    *)
(* deregistered or was given a frame before an older one; and the page of  *)
(* its commands journal is missing only if another application's Register  *)
(* reaches it before its own, which it has then never had.                 *)
THEOREM CrashesNamed == Spec => []NoCrash
  <1>1. IInv => NoCrash BY InvShows
  <1> QED BY <1>1, ReadersInit, ReadersNext, PTL DEF Spec
==============================================================================
