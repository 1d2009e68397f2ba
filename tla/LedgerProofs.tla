---------------------------- MODULE LedgerProofs -----------------------------
(***************************************************************************)
(* Proofs about Ledger for any number of applications and orders, any lag  *)
(* and any number of frames read before older ones.  Whatever is read      *)
(* first, the state is well-formed and clients are told what the ledger    *)
(* holds.  As long as no frame is read before an older one, the ledger     *)
(* survives what it reads, comes to reach everybody, and what it holds of  *)
(* brokers and books is what was reported.                                 *)
(***************************************************************************)
EXTENDS Ledger, FiniteSetTheorems, WellFoundedInduction, TLAPS

(* What a frame is about. *)
Registers(k, a)   == log[k].typ = "Register" /\ log[k].arg = a
Deregisters(k, a) == log[k].typ = "Deregister" /\ log[k].arg = a
Comes(k, a)       == Registers(k, a) \/ Deregisters(k, a)
Locates(k, a)     == log[k].typ = "Location" /\ log[k].j = Cmd("ledger") /\ log[k].arg = a
Grants(k, a)      == log[k].typ = "WriteTo" /\ log[k].arg = a
Starts(k)         == log[k].typ = "RequestStart"
Links(k, c)       == log[k].typ = "Channel" /\ log[k].arg = c /\ log[k].j \in {Public, Cmd("ledger")}
Reports(k, x)     == log[k].typ = "Order" /\ x \in {log[k].j[1], log[k].j[2]}

(* Was a live when the first n frames had been written?                    *)
Alive(n, a) ==
    \/ a \in live /\ \A k \in n + 1 .. Now : ~Comes(k, a)
    \/ \E k \in n + 1 .. Now : Deregisters(k, a) /\ \A m \in n + 1 .. k - 1 : ~Comes(m, a)

-----------------------------------------------------------------------------
(* The log *)
Entry == [j : Journal, typ : FrameType,
          arg : Node \cup {"master"} \cup (Node \X Node) \cup Report
                  \cup [id : OrderId, active : BOOLEAN]]

Shape(f) ==
    /\ f.typ = "Register" => f.j = Public /\ f.arg \in Node
    /\ f.typ = "Location" => f.arg \in Node /\ \E a \in Node : f.j = Cmd(a)
    /\ f.typ = "Deregister" => f.j = Public /\ f.arg \in App
    /\ f.typ = "Channel" => f.arg \in Node \X Node /\ \E a \in Node \cup {"all"} : f.j = Cmd(a)
    /\ f.typ = "WriteTo" => f.j = Cmd("ledger") /\ f.arg \in App \cup {"master"}
    /\ f.typ = "ReadFrom" => f.arg \in Node /\ \E a \in Node : f.j = Cmd(a)
    /\ f.typ = "BrokerState" => f.arg \in Report /\ \E b \in Broker : f.j = <<b, "all">>
    /\ f.typ = "Order" => /\ f.arg \in [id : OrderId, active : BOOLEAN]
                          /\ \E t \in TD, s \in Strategy : f.j = <<t, s>>
    /\ f.typ = "QryAsset" => f.arg \in TD /\ \E s \in Strategy : f.j = <<s, "ledger">>
    /\ f.typ = "RequestStart" => f.j = Cmd("ledger")

ILog ==
    /\ live \subseteq Node /\ links \subseteq Node \X Node
    /\ log \in Seq(Entry) /\ \A i \in 1 .. Now : Shape(log[i])
    /\ asks \in Seq(App)

(* Who is named is live. *)
Named(f) ==
    CASE f.typ = "Register" -> {f.arg}
      [] f.typ \in {"Location", "ReadFrom"} -> {f.arg, f.j[2]}
      [] f.typ = "WriteTo" -> {f.arg} \ {"master"}
      [] f.typ \in {"BrokerState", "Order"} -> {f.j[1]}
      [] OTHER -> {}

INamed == \A i \in 1 .. Now : \A x \in Named(log[i]) : Alive(i, x)

(* Who is live again has been registered again. *)
IBack ==
    \A n \in 0 .. Now : \A m \in 1 .. n : \A a \in Node :
        Deregisters(m, a) /\ Alive(n, a) => \E k \in m + 1 .. n : Registers(k, a)

(* Links are told, and reports follow links. *)
Linked(n, c) == \E m \in 1 .. n : Links(m, c) /\ \A l \in m .. n : ~Deregisters(l, c[1])

(* Who is told to read is told of the channel, and nobody is told of       *)
(* others before being registered.                                         *)
PairsTold ==
    /\ \A k \in 1 .. Now : log[k].typ = "ReadFrom" =>
          k + 1 \in 1 .. Now /\ log[k + 1] = Frame(Public, "Channel", <<log[k].arg, log[k].j[2]>>)
    /\ \A k \in 1 .. Now : log[k].typ \in {"Location", "Channel"} /\ log[k].j # Public =>
          \E m \in 1 .. k - 1 : Registers(m, log[k].j[2])

LinksOK ==
    \A k \in 1 .. Now : Starts(k) =>
        /\ \A c \in links : Linked(Now, c)
        /\ \A i \in k + 1 .. Now : log[i].typ = "Order" => Linked(i, log[i].j)

-----------------------------------------------------------------------------
(* The ledger *)
Up == st \in {"waiting", "joined", "started"}

(* Nothing is left of a ledger that does not run.                          *)
IDown ==
    /\ st = "down" => /\ log = <<>> /\ asks = <<>> /\ begun = 0 /\ ~informed
                      /\ cur = [j \in Journal |-> 0] /\ known = {} /\ channels = {}
                      /\ writers = {} /\ DOMAIN states = {} /\ DOMAIN books = {}
                      /\ since = [x \in Booked |-> 0] /\ subs = [x \in Booked |-> 0]
                      /\ added = {}
    /\ st \in {"joined", "started"} => "ledger" \in live

IType ==
    /\ st \in {"down", "waiting", "joined", "started", "failed", "threw"}
    /\ begun \in 0 .. Now /\ cur \in [Journal -> 0 .. Now + 1]
    /\ known \subseteq Node /\ channels \subseteq Node \X Node
    /\ writers \subseteq Node \cup {"master"}
    /\ DOMAIN states = known \cap Broker /\ \A b \in DOMAIN states : states[b] \in State
    /\ DOMAIN books \subseteq Booked /\ \A x \in DOMAIN books : books[x] \subseteq OrderId
    /\ since \in [Booked -> 0 .. Now] /\ subs \in [Booked -> 0 .. 2] /\ added \subseteq Booked
    /\ informed \in BOOLEAN /\ seen \in [Broker -> State \cup {None}]

IClient ==
    /\ informed => st \in {"started", "threw"}
    /\ ~informed => seen = [b \in Broker |-> None]
    /\ Informed

(* What is joined. *)
ICur ==
    /\ \A a \in App : cur[<<a, "all">>] # 0 <=> a \in known
    /\ known \cap Booked \subseteq added
    /\ \A c \in channels : c[1] \in added => cur[c] # 0
    /\ \A c \in Node \X Node : \A k \in 1 .. Now :
          /\ Links(k, c) /\ k < cur[log[k].j]
          /\ \A l \in k .. cur[Public] - 1 : ~Deregisters(l, c[1])
          => c \in channels
    /\ Up => cur[Public] # 0
    /\ st \in {"joined", "started"} => cur[Cmd("ledger")] # 0

(* The ledger's own registration, with all that master tells it.           *)
Welcomed(r, s) ==
    /\ r \in 1 .. Now /\ s \in 1 .. Now /\ r < s
    /\ Registers(r, "ledger") /\ \A k \in 1 .. r - 1 : ~Registers(k, "ledger")
    /\ \A k \in r + 1 .. s : log[k].j = Cmd("ledger")
    /\ \A k \in 1 .. r : log[k].j # Cmd("ledger")
    /\ \A k \in 1 .. Now : Starts(k) <=> k = s
    /\ \A k \in 1 .. Now : log[k].typ = "Location" /\ log[k].j = Cmd("ledger") => k < s
    /\ \E k \in r + 1 .. s - 1 : Grants(k, "master")
    /\ \A x \in Node : Alive(r, x) => \E k \in r + 1 .. s - 1 : Locates(k, x)

IWait ==
    st = "waiting" =>
      /\ known = {} /\ writers = {} /\ asks = <<>> /\ begun = 0 /\ DOMAIN books = {}
      /\ added = {} /\ \A x \in Booked : subs[x] = 0
      /\ \A j \in Journal \ {Public} : cur[j] = 0
      /\ \A k \in 1 .. cur[Public] - 1 : log[k].typ # "Register"
      /\ "ledger" \notin live => \A k \in 1 .. Now : /\ log[k].j # Cmd("ledger")
                                                    /\ ~Comes(k, "ledger")
      /\ "ledger" \in live => \E r, s \in 1 .. Now : cur[Public] <= r /\ Welcomed(r, s)

Joined(r, s) ==
    /\ Welcomed(r, s) /\ cur[Public] = r + 1
    /\ r < cur[Cmd("ledger")] /\ \A j \in Journal : cur[j] <= s
    /\ \A k \in 1 .. s : log[k].typ = "Register" => k = r
    /\ "ledger" \in known /\ \A x \in known : Alive(r, x)
    /\ \A x \in Node : Alive(r, x) =>
          x \in known \/ \E k \in cur[Cmd("ledger")] .. s - 1 : Locates(k, x)
    /\ "master" \in writers \/ \E k \in cur[Cmd("ledger")] .. s - 1 : Grants(k, "master")
    /\ \A b \in known \cap Broker : states[b] = "Connected"
    /\ \A x \in DOMAIN books : books[x] = {}
    /\ \A t \in TD, u \in Strategy : cur[<<t, u>>] = 0 \/ cur[<<t, u>>] > r
    /\ \A x \in Booked : subs[x] > 0 => since[x] \in r .. s - 1

IJoined == st = "joined" => \E r, s \in 1 .. Now : Joined(r, s)

(* Before its place in the log, the ledger has read everything it will,    *)
(* and behind it nothing.                                                  *)
IPlace ==
    st = "started" =>
      /\ "master" \in writers /\ begun \in 1 .. Now /\ Starts(begun)
      /\ \A i \in Unread : i > begun /\ \A j \in Journal : cur[j] <= i
      /\ \A x \in Node : x \in known <=> Alive(cur[Public] - 1, x)

(* What a broker that is known has said since both were up.                *)
Said(b) ==
    {i \in begun + 1 .. cur[<<b, "all">>] - 1 :
       /\ log[i].typ = "BrokerState" /\ log[i].j[1] = b
       /\ \A k \in 1 .. cur[Public] - 1 : Registers(k, b) => k < i}

IStates ==
    st = "started" =>
      \A b \in known \cap Broker :
        /\ Said(b) = {} => states[b] = "Connected"
        /\ \A i \in Said(b) : (\A k \in Said(b) : k <= i) => states[b] = log[i].arg

(* An application that is up is known and can be written to, or the frame  *)
(* that will make it so is unread.                                         *)
Reaches(a) ==
    \/ \E k \in 1 .. Now : k >= cur[Public] /\ Registers(k, a)
    \/ /\ a \in known
       /\ \/ a \in writers \/ \E k \in 1 .. Len(asks) : asks[k] = a
          \/ \E k \in 1 .. Now : k >= cur[Cmd("ledger")] /\ Grants(k, a)
    \/ /\ a \notin known /\ st # "started"
       /\ \E k \in 1 .. Now : k >= cur[Cmd("ledger")] /\ Locates(k, a)

IReach ==
    st = "joined" \/ st = "started" \/ (st = "waiting" /\ "ledger" \in live) =>
      \A a \in live \cap App : Reaches(a)

(* The reports that make a book: those before the place of the ledger.     *)
Passed(i) == \E j \in Journal : i < cur[j]

Entered(x, o) ==
    {i \in since[x] + 1 .. Now : Reports(i, x) /\ log[i].arg.id = o /\ Passed(i)}

IBooks ==
    /\ \A x \in Booked : subs[x] > 0 => x \in DOMAIN books
    /\ st = "started" =>
         /\ \A x \in Booked : subs[x] > 0 => Passed(since[x])
         /\ \A x \in DOMAIN books :
              /\ subs[x] = 0 => books[x] = {}
              /\ subs[x] > 0 => \A o \in OrderId :
                    o \in books[x] <=> \E i \in Entered(x, o) :
                      log[i].arg.active /\ \A k \in Entered(x, o) : k <= i

Survives == st # "threw"

(* A ledger that has read every frame before the younger ones.             *)
LInv == /\ ILog /\ INamed /\ IBack /\ PairsTold /\ LinksOK
        /\ IDown /\ IType /\ IClient /\ ICur
        /\ IWait /\ IJoined /\ IPlace /\ IStates /\ IReach /\ IBooks
        /\ Survives

(* What holds of any ledger.                                               *)
ITyped == ILog /\ PairsTold /\ IType /\ IClient

Inv == /\ ITyped /\ last \in Journal /\ overtook \in 0 .. MaxOvertake
       /\ st \in {"down", "waiting"} => overtook = 0
       /\ overtook = 0 => LInv

-----------------------------------------------------------------------------
(* Numbers and sequences *)
LEMMA LeastNat ==
    ASSUME NEW T, T \subseteq Nat, T # {}
    PROVE  \E n \in T : \A m \in T : n <= m
  <1> DEFINE R == OpToRel(<, Nat)
  <1>1. IsWellFoundedOn(R, Nat) BY NatLessThanWellFounded
  <1>2. \E x \in T : \A y \in T : ~ (<<y, x>> \in R)
    <2> HIDE DEF R
    <2> QED BY <1>1, WFMin
  <1>3. PICK n \in T : \A m \in T : <<m, n>> \notin R BY <1>2
  <1>4. ASSUME NEW m \in T PROVE n <= m
    <2>1. <<m, n>> \notin R BY <1>3
    <2>2. m \in Nat /\ n \in Nat OBVIOUS
    <2>3. ~ (m < n) BY <2>1, <2>2 DEF OpToRel
    <2> QED BY <2>2, <2>3
  <1> QED BY <1>4

LEMMA GreatestNat ==
    ASSUME NEW N \in Nat, NEW T, T \subseteq 0 .. N, T # {}
    PROVE  \E n \in T : \A m \in T : m <= n
  <1> DEFINE U == {N - m : m \in T}
  <1>0. \A m \in T : m \in 0 .. N /\ N - m \in Nat OBVIOUS
  <1>1. U \subseteq Nat /\ U # {} BY <1>0
  <1>2. PICK u \in U : \A v \in U : u <= v
    <2> HIDE DEF U
    <2> QED BY <1>1, LeastNat
  <1>3. PICK n \in T : u = N - n BY <1>2
  <1>4. ASSUME NEW m \in T PROVE m <= n
    <2>1. N - m \in U OBVIOUS
    <2>2. N - n <= N - m BY <1>2, <1>3, <2>1
    <2>3. m \in 0 .. N /\ n \in 0 .. N OBVIOUS
    <2> QED BY <2>2, <2>3
  <1> QED BY <1>4

LEMMA MaxIs ==
    ASSUME NEW N \in Nat, NEW T, T \subseteq 0 .. N, T # {}
    PROVE  Max(T) \in T /\ \A m \in T : m <= Max(T)
  <1>1. \E n \in T : \A m \in T : n >= m BY GreatestNat
  <1>2. Max(T) \in T /\ \A m \in T : Max(T) >= m BY <1>1 DEF Max
  <1> QED BY <1>2

LEMMA Concat ==
    ASSUME NEW S, NEW s \in Seq(S), NEW t \in Seq(S)
    PROVE  /\ s \o t \in Seq(S)
           /\ Len(s) \in Nat /\ Len(t) \in Nat /\ Len(s \o t) = Len(s) + Len(t)
           /\ \A k \in 1 .. Len(s) : (s \o t)[k] = s[k]
           /\ \A k \in 1 .. Len(t) : (s \o t)[Len(s) + k] = t[k]
           /\ \A k \in Len(s) + 1 .. Len(s) + Len(t) :
                 k - Len(s) \in 1 .. Len(t) /\ (s \o t)[k] = t[k - Len(s)]
  OBVIOUS

LEMMA AppendElements ==
    ASSUME NEW S, NEW s \in Seq(S), NEW e \in S
    PROVE  /\ Append(s, e) \in Seq(S)
           /\ Len(s) \in Nat /\ Len(Append(s, e)) = Len(s) + 1
           /\ Append(s, e)[Len(s) + 1] = e
           /\ \A k \in 1 .. Len(s) : Append(s, e)[k] = s[k] /\ s[k] \in S
           /\ \A k \in 1 .. Len(Append(s, e)) : k \in 1 .. Len(s) \/ k = Len(s) + 1
  OBVIOUS

LEMMA TailElements ==
    ASSUME NEW S, NEW s \in Seq(S), s # <<>>
    PROVE  /\ Tail(s) \in Seq(S) /\ Head(s) \in S
           /\ Len(s) \in Nat /\ Len(s) >= 1 /\ Head(s) = s[1]
           /\ Len(Tail(s)) = Len(s) - 1
           /\ \A k \in 1 .. Len(Tail(s)) : /\ k + 1 \in 1 .. Len(s) /\ k + 1 # 1
                                          /\ Tail(s)[k] = s[k + 1]
  OBVIOUS

(* The names of applications and journals are different.                   *)
LEMMA Names ==
    /\ "ledger" \notin App /\ "master" \notin Node /\ "all" \notin Node
    /\ App \subseteq Node /\ "ledger" \in Node /\ Broker \subseteq App /\ Booked \subseteq App
    /\ TD \subseteq Booked /\ Strategy \subseteq Booked /\ TD \cap Strategy = {}
    /\ TD \subseteq Broker
  BY LedgerAssumption DEF App, Node, Broker, Booked

LEMMA FewNodes == IsFiniteSet(Node)
  BY LedgerAssumption, FS_AddElement DEF Node

LEMMA JournalNames ==
    /\ Public \in Journal
    /\ \A a \in Node : /\ Cmd(a) \in Journal /\ Cmd(a) # Public
                       /\ <<a, "all">> \in Journal /\ <<a, "all">> # Public
    /\ \A a, b \in Node : /\ <<a, b>> \in Journal /\ <<a, b>> # Public
                          /\ Cmd(a) = Cmd(b) => a = b
                          /\ <<a, "all">> # Cmd(b)
    /\ \A a, b, c \in Node : <<a, b>> # <<c, "all">> /\ <<a, b>> # Cmd(c)
  BY Names DEF Journal, Public, Cmd

(* A set in a sequence. *)
LEMMA ListOf ==
    ASSUME NEW S, IsFiniteSet(S)
    PROVE  /\ SetToSeq(S) \in Seq(S)
           /\ \A x \in S : \E k \in 1 .. Len(SetToSeq(S)) : SetToSeq(S)[k] = x
  <1> DEFINE n == Cardinality(S)
  <1>1. n \in Nat /\ ExistsBijection(1 .. n, S) BY FS_CardinalityType
  <1>2. PICK f : f \in Bijection(1 .. n, S) BY <1>1 DEF ExistsBijection
  <1>3. f \in [1 .. n -> S] /\ IsInjective(f) BY <1>2 DEF Bijection, Injection
  <1>4. PICK g : g = SetToSeq(S) OBVIOUS
  <1>5. g \in [1 .. n -> S] /\ IsInjective(g) BY <1>3, <1>4 DEF SetToSeq
  <1>6. g \in Seq(S) /\ Len(g) = n BY <1>1, <1>5
  <1>7. g \in Injection(1 .. n, S) BY <1>5 DEF Injection
  <1>8. IsFiniteSet(1 .. n) /\ Cardinality(1 .. n) = n BY <1>1, FS_Interval
  <1> HIDE DEF n
  <1>9. g \in Surjection(1 .. n, S) BY <1>7, <1>8, FS_Injection DEF n
  <1>10. \A x \in S : \E k \in 1 .. n : g[k] = x BY <1>9 DEF Surjection
  <1> QED BY <1>4, <1>6, <1>10

LEMMA ListsOf ==
    ASSUME NEW S, IsFiniteSet(S), NEW g \in SetToSeqs(S)
    PROVE  /\ g \in Seq(S)
           /\ \A x \in S : \E k \in 1 .. Len(g) : g[k] = x
  <1> DEFINE n == Cardinality(S)
  <1>1. n \in Nat BY FS_CardinalityType
  <1>2. g \in [1 .. n -> S] /\ \A i, j \in 1 .. n : i # j => g[i] # g[j] BY DEF SetToSeqs
  <1>3. g \in Seq(S) /\ Len(g) = n BY <1>1, <1>2
  <1>4. g \in Injection(1 .. n, S) BY <1>2 DEF Injection, IsInjective
  <1>5. IsFiniteSet(1 .. n) /\ Cardinality(1 .. n) = n BY <1>1, FS_Interval
  <1> HIDE DEF n
  <1>6. g \in Surjection(1 .. n, S) BY <1>4, <1>5, FS_Injection DEF n
  <1>7. \A x \in S : \E k \in 1 .. n : g[k] = x BY <1>6 DEF Surjection
  <1> QED BY <1>3, <1>7

-----------------------------------------------------------------------------
(* What is written *)
(* An application comes, leaves, or none does.                             *)
Flips(F) ==
    \/ live' = live /\ \A k \in 1 .. Len(F) : F[k].typ \notin {"Register", "Deregister"}
    \/ \E a \in Node \ live :
          /\ live' = live \cup {a}
          /\ Len(F) >= 1 /\ F[1].typ = "Register" /\ F[1].arg = a
          /\ \A k \in 2 .. Len(F) : F[k].typ \notin {"Register", "Deregister"}
    \/ \E a \in App \cap live :
          /\ live' = live \ {a}
          /\ Len(F) = 1 /\ F[1].typ = "Deregister" /\ F[1].arg = a

Writes(F) ==
    /\ F \in Seq(Entry) /\ log' = log \o F /\ Up
    /\ UNCHANGED <<st, lvars, cvars>>
    /\ live' \subseteq Node /\ links' \subseteq Node \X Node /\ asks' \in Seq(App)
    /\ \A k \in 1 .. Len(F) : Shape(F[k]) /\ Named(F[k]) \subseteq live'
    /\ Flips(F)
    /\ \A k \in 1 .. Len(F) : F[k].typ = "ReadFrom" =>
          /\ k + 1 \in 1 .. Len(F)
          /\ F[k + 1] = Frame(Public, "Channel", <<F[k].arg, F[k].j[2]>>)
    /\ \A k \in 1 .. Len(F) : F[k].typ \in {"Location", "Channel"} /\ F[k].j # Public =>
          F[1].typ = "Register" /\ F[1].arg = F[k].j[2] /\ k > 1
    /\ \A c \in links' :
          \/ /\ c \in links
             /\ \A k \in 1 .. Len(F) : ~(F[k].typ = "Deregister" /\ F[k].arg = c[1])
          \/ /\ \E k \in 1 .. Len(F) : F[k].typ = "Channel" /\ F[k].arg = c /\ F[k].j = Public
             /\ \A k \in 1 .. Len(F) : F[k].typ # "Deregister"
    /\ \A k \in 1 .. Len(F) : F[k].typ = "Order" =>
          F[k].j \in links /\ \A l \in 1 .. Len(F) : F[l].typ # "Deregister"

(* It is not the ledger that comes. *)
Plain(F) ==
    /\ Writes(F)
    /\ \A k \in 1 .. Len(F) :
          /\ F[k].typ # "RequestStart"
          /\ F[k].j = Cmd("ledger") => "ledger" \in live /\ F[k].typ # "Location"
          /\ F[k].typ \in {"Register", "Deregister"} => F[k].arg # "ledger"
    /\ asks = <<>> => asks' = <<>>
    /\ \A k \in 1 .. Len(asks) : \/ asks[k] \notin live'
                                 \/ \E l \in 1 .. Len(asks') : asks'[l] = asks[k]
                                 \/ \E l \in 1 .. Len(F) : F[l].typ = "WriteTo" /\ F[l].arg = asks[k]

LEMMA Grown ==
    ASSUME ILog, NEW F, Writes(F)
    PROVE  /\ Now \in Nat /\ Len(F) \in Nat /\ Now' = Now + Len(F)
           /\ log' \in Seq(Entry)
           /\ \A k \in 1 .. Now : log'[k] = log[k]
           /\ \A k \in 1 .. Len(F) : log'[Now + k] = F[k]
           /\ \A k \in Now + 1 .. Now' : k - Now \in 1 .. Len(F) /\ log'[k] = F[k - Now]
           /\ \A k \in 1 .. Now' : k \in 1 .. Now \/ k \in Now + 1 .. Now'
  <1>1. log \in Seq(Entry) /\ F \in Seq(Entry) /\ log' = log \o F BY DEF ILog, Writes
  <1>2. /\ log' \in Seq(Entry)
        /\ Len(log) \in Nat /\ Len(F) \in Nat /\ Len(log') = Len(log) + Len(F)
        /\ \A k \in 1 .. Len(log) : log'[k] = log[k]
        /\ \A k \in 1 .. Len(F) : log'[Len(log) + k] = F[k]
        /\ \A k \in Len(log) + 1 .. Len(log) + Len(F) :
              k - Len(log) \in 1 .. Len(F) /\ log'[k] = F[k - Len(log)]
    BY <1>1, Concat
  <1>3. \A k \in 1 .. Len(log') : k \in 1 .. Len(log) \/ k \in Len(log) + 1 .. Len(log')
    BY <1>2
  <1> QED BY <1>2, <1>3 DEF Now

(* Who was live then, was; who is live now, is at the end of the log.      *)
LEMMA AliveStays ==
    ASSUME ILog, NEW F, Writes(F)
    PROVE  /\ \A n \in 0 .. Now : \A a : Alive(n, a)' <=> Alive(n, a)
           /\ \A n \in Now + 1 .. Now' : \A a : Alive(n, a)' <=> a \in live'
  <1>0. Now \in Nat BY Grown
  <1> PICK N \in Nat : N = Now BY <1>0
  <1>1. /\ Now = N /\ Len(F) \in Nat /\ Now' = N + Len(F)
        /\ \A k \in 1 .. N : log'[k] = log[k]
        /\ \A k \in 1 .. Len(F) : log'[N + k] = F[k]
        /\ \A k \in N + 1 .. Now' : k - N \in 1 .. Len(F) /\ log'[k] = F[k - N]
    BY Grown
  <1>2. \A a : \A k \in 1 .. N : /\ Comes(k, a)' <=> Comes(k, a)
                                 /\ Deregisters(k, a)' <=> Deregisters(k, a)
    BY <1>1 DEF Comes, Registers, Deregisters
  <1>3. \A a : \A k \in N + 2 .. Now' : ~Comes(k, a)'
    <2> SUFFICES ASSUME NEW k \in N + 2 .. Now'
                 PROVE  log'[k].typ \notin {"Register", "Deregister"}
      BY DEF Comes, Registers, Deregisters
    <2>1. k - N \in 2 .. Len(F) /\ log'[k] = F[k - N] BY <1>1
    <2>2. k - N \in 1 .. Len(F) BY <1>1
    <2> QED BY <1>1, <2>1, <2>2 DEF Writes, Flips
  <1>4. \/ live' = live /\ \A a : N + 1 \in N + 1 .. Now' => ~Comes(N + 1, a)'
        \/ \E b : /\ b \notin live /\ live' = live \cup {b} /\ N + 1 \in N + 1 .. Now'
                  /\ \A a : Comes(N + 1, a)' <=> a = b
                  /\ \A a : ~Deregisters(N + 1, a)'
        \/ \E b : /\ b \in live /\ live' = live \ {b} /\ N + 1 \in N + 1 .. Now'
                  /\ \A a : Comes(N + 1, a)' <=> a = b
                  /\ Deregisters(N + 1, b)'
    <2>1. N + 1 \in N + 1 .. Now' <=> 1 \in 1 .. Len(F) BY <1>1
    <2>2. 1 \in 1 .. Len(F) => log'[N + 1] = F[1] BY <1>1
    <2>3. CASE live' = live /\ \A k \in 1 .. Len(F) : F[k].typ \notin {"Register", "Deregister"}
      <3>1. N + 1 \in N + 1 .. Now' => log'[N + 1].typ \notin {"Register", "Deregister"}
        BY <2>1, <2>2, <2>3
      <3> QED BY <2>3, <3>1 DEF Comes, Registers, Deregisters
    <2>4. ASSUME NEW b \in Node \ live, live' = live \cup {b}, Len(F) >= 1,
                 F[1].typ = "Register", F[1].arg = b
          PROVE  /\ b \notin live /\ live' = live \cup {b} /\ N + 1 \in N + 1 .. Now'
                 /\ \A a : Comes(N + 1, a)' <=> a = b
                 /\ \A a : ~Deregisters(N + 1, a)'
      <3>1. 1 \in 1 .. Len(F) BY <1>1, <2>4
      <3>2. log'[N + 1] = F[1] BY <2>2, <3>1
      <3> QED BY <2>1, <2>4, <3>1, <3>2 DEF Comes, Registers, Deregisters
    <2>5. ASSUME NEW b \in App \cap live, live' = live \ {b}, Len(F) = 1,
                 F[1].typ = "Deregister", F[1].arg = b
          PROVE  /\ b \in live /\ live' = live \ {b} /\ N + 1 \in N + 1 .. Now'
                 /\ \A a : Comes(N + 1, a)' <=> a = b
                 /\ Deregisters(N + 1, b)'
      <3>1. 1 \in 1 .. Len(F) BY <1>1, <2>5
      <3>2. log'[N + 1] = F[1] BY <2>2, <3>1
      <3> QED BY <2>1, <2>5, <3>1, <3>2 DEF Comes, Registers, Deregisters
    <2>6. Flips(F) BY DEF Writes
    <2>7. CASE \E b \in Node \ live :
                 /\ live' = live \cup {b}
                 /\ Len(F) >= 1 /\ F[1].typ = "Register" /\ F[1].arg = b
      BY <2>4, <2>7
    <2>8. CASE \E b \in App \cap live :
                 /\ live' = live \ {b}
                 /\ Len(F) = 1 /\ F[1].typ = "Deregister" /\ F[1].arg = b
      BY <2>5, <2>8
    <2> QED BY <2>3, <2>6, <2>7, <2>8 DEF Flips
  <1>5. ASSUME NEW n \in 0 .. N, NEW a PROVE Alive(n, a)' <=> Alive(n, a)
    <2>1. ASSUME NEW k \in n + 1 .. N, Comes(k, a)
          PROVE  Alive(n, a)' <=> Alive(n, a)
      <3>1. k \in n + 1 .. Now' /\ ~ (\A m \in n + 1 .. Now' : ~Comes(m, a)')
            /\ ~ (\A m \in n + 1 .. N : ~Comes(m, a))
        <4>1. k \in 1 .. N /\ k \in n + 1 .. Now' BY <1>1, <2>1
        <4> QED BY <1>2, <2>1, <4>1
      <3>2. ASSUME Alive(n, a) PROVE Alive(n, a)'
        <4>1. PICK l \in n + 1 .. N : Deregisters(l, a) /\ \A m \in n + 1 .. l - 1 : ~Comes(m, a)
          BY <3>1, <3>2 DEF Alive
        <4>2. l \in n + 1 .. Now' /\ l \in 1 .. N /\ \A m \in n + 1 .. l - 1 : m \in 1 .. N
          BY <1>1
        <4> QED BY <1>2, <4>1, <4>2 DEF Alive
      <3>3. ASSUME Alive(n, a)' PROVE Alive(n, a)
        <4>1. PICK l \in n + 1 .. Now' :
                 Deregisters(l, a)' /\ \A m \in n + 1 .. l - 1 : ~Comes(m, a)'
          BY <3>1, <3>3 DEF Alive
        <4>2. k \in 1 .. N BY <1>1
        <4>3. l <= k
          <5>1. Comes(k, a)' BY <1>2, <2>1, <4>2
          <5>2. k \notin n + 1 .. l - 1 BY <4>1, <5>1
          <5> QED BY <1>1, <5>2
        <4>4. l \in n + 1 .. N /\ l \in 1 .. N /\ \A m \in n + 1 .. l - 1 : m \in 1 .. N
          BY <1>1, <4>2, <4>3
        <4> QED BY <1>2, <4>1, <4>4 DEF Alive
      <3> QED BY <3>2, <3>3
    <2>2. CASE \A k \in n + 1 .. N : ~Comes(k, a)
      <3>1. Alive(n, a) <=> a \in live
        BY <2>2 DEF Alive, Comes
      <3>2. \A k \in n + 1 .. Now' : \/ (k \in n + 1 .. N /\ k \in 1 .. N)
                                     \/ (k = N + 1 /\ k \in N + 1 .. Now')
                                     \/ k \in N + 2 .. Now'
        BY <1>1
      <3>3. \A k \in n + 1 .. Now' : Comes(k, a)' => k = N + 1 /\ k \in N + 1 .. Now'
        BY <1>2, <1>3, <2>2, <3>2
      <3>4. N + 1 \in N + 1 .. Now' => N + 1 \in n + 1 .. Now' BY <1>1
      <3>5. \A m \in n + 1 .. (N + 1) - 1 : m \in n + 1 .. N /\ m \in 1 .. N BY <1>1
      <3>6. \A m \in n + 1 .. (N + 1) - 1 : ~Comes(m, a)' BY <1>2, <2>2, <3>5
      <3>7. CASE N + 1 \in N + 1 .. Now' /\ Comes(N + 1, a)'
        <4>1. \/ a \notin live /\ ~Deregisters(N + 1, a)'
              \/ a \in live /\ Deregisters(N + 1, a)'
          BY <1>4, <3>7
        <4>2. N + 1 \in n + 1 .. Now' /\ ~ (\A k \in n + 1 .. Now' : ~Comes(k, a)')
          BY <3>4, <3>7
        <4>3. Alive(n, a)' <=> Deregisters(N + 1, a)'
          <5>1. ASSUME NEW k \in n + 1 .. Now', Deregisters(k, a)' PROVE k = N + 1
            BY <3>3, <5>1 DEF Comes
          <5> QED BY <3>6, <4>2, <5>1 DEF Alive
        <4> QED BY <3>1, <4>1, <4>3
      <3>8. CASE ~(N + 1 \in N + 1 .. Now' /\ Comes(N + 1, a)')
        <4>1. \A k \in n + 1 .. Now' : ~Comes(k, a)' BY <3>3, <3>8
        <4>2. Alive(n, a)' <=> a \in live' BY <4>1 DEF Alive, Comes
        <4>3. a \in live' <=> a \in live BY <1>4, <3>8
        <4> QED BY <3>1, <4>2, <4>3
      <3> QED BY <3>7, <3>8
    <2> QED BY <2>1, <2>2
  <1>6. ASSUME NEW n \in N + 1 .. Now', NEW a PROVE Alive(n, a)' <=> a \in live'
    <2>1. \A k \in n + 1 .. Now' : k \in N + 2 .. Now' BY <1>1
    <2>2. \A k \in n + 1 .. Now' : ~Comes(k, a)' BY <1>3, <2>1
    <2> QED BY <2>2 DEF Alive, Comes
  <1> QED BY <1>5, <1>6

(* What a step that writes F leaves of a log of N frames. *)
GrownAs(F, N) ==
    /\ Now = N /\ Len(F) \in Nat /\ Now' = N + Len(F) /\ log' \in Seq(Entry)
    /\ \A k \in 1 .. N : log'[k] = log[k] /\ k \in 1 .. Now'
    /\ \A k \in 1 .. Len(F) : log'[N + k] = F[k] /\ N + k \in 1 .. Now'
    /\ \A k \in 1 .. Now' : \/ k \in 1 .. N
                            \/ k > N /\ k - N \in 1 .. Len(F) /\ log'[k] = F[k - N]
    /\ \A n \in 0 .. N : \A a : Alive(n, a)' <=> Alive(n, a)
    /\ \A n \in N + 1 .. Now' : \A a : Alive(n, a)' <=> a \in live'

LEMMA GrownBy ==
    ASSUME ILog, NEW F, Writes(F)
    PROVE  \E N \in Nat : GrownAs(F, N)
  <1>0. Now \in Nat BY Grown
  <1> PICK N \in Nat : N = Now BY <1>0
  <1>1. /\ Now = N /\ Len(F) \in Nat /\ Now' = N + Len(F) /\ log' \in Seq(Entry)
        /\ \A k \in 1 .. N : log'[k] = log[k]
        /\ \A k \in 1 .. Len(F) : log'[N + k] = F[k]
        /\ \A k \in N + 1 .. Now' : k - N \in 1 .. Len(F) /\ log'[k] = F[k - N]
    BY Grown
  <1>2. /\ \A k \in 1 .. N : k \in 1 .. Now'
        /\ \A k \in 1 .. Len(F) : N + k \in 1 .. Now'
        /\ \A k \in 1 .. Now' : k \in 1 .. N \/ (k > N /\ k \in N + 1 .. Now')
    BY <1>1
  <1>3. /\ \A n \in 0 .. N : \A a : Alive(n, a)' <=> Alive(n, a)
        /\ \A n \in N + 1 .. Now' : \A a : Alive(n, a)' <=> a \in live'
    BY AliveStays
  <1>4. \A k \in 1 .. Now' : \/ k \in 1 .. N
                             \/ k > N /\ k - N \in 1 .. Len(F) /\ log'[k] = F[k - N]
    BY <1>1, <1>2
  <1> QED BY <1>1, <1>2, <1>3, <1>4 DEF GrownAs

LEMMA WritesLog ==
    ASSUME ILog, NEW F, Writes(F)
    PROVE  ILog'
  <1> PICK N \in Nat : GrownAs(F, N) BY GrownBy
  <1>1. /\ Now = N /\ Len(F) \in Nat /\ Now' = N + Len(F) /\ log' \in Seq(Entry)
        /\ \A k \in 1 .. N : log'[k] = log[k] /\ k \in 1 .. Now'
        /\ \A k \in 1 .. Now' : \/ k \in 1 .. N
                                \/ k > N /\ k - N \in 1 .. Len(F) /\ log'[k] = F[k - N]
    BY DEF GrownAs
  <1>2. ASSUME NEW k \in 1 .. Now' PROVE Shape(log'[k])
    <2>1. CASE k \in 1 .. N BY <1>1, <2>1 DEF ILog
    <2>2. CASE k - N \in 1 .. Len(F) /\ log'[k] = F[k - N] BY <2>2 DEF Writes
    <2> QED BY <1>1, <2>1, <2>2
  <1>3. \A k \in 1 .. Now' : Shape(log[k])' BY <1>2 DEF Shape
  <1> QED BY <1>1, <1>3 DEF ILog, Writes

LEMMA WritesNamed ==
    ASSUME ILog, INamed, NEW F, Writes(F)
    PROVE  INamed'
  <1> PICK N \in Nat : GrownAs(F, N) BY GrownBy
  <1>1. /\ Now = N /\ Now' = N + Len(F)
        /\ \A k \in 1 .. N : log'[k] = log[k] /\ k \in 1 .. Now'
        /\ \A k \in 1 .. Now' : \/ k \in 1 .. N
                                \/ k > N /\ k - N \in 1 .. Len(F) /\ log'[k] = F[k - N]
        /\ \A n \in 0 .. N : \A a : Alive(n, a)' <=> Alive(n, a)
        /\ \A n \in N + 1 .. Now' : \A a : Alive(n, a)' <=> a \in live'
    BY DEF GrownAs
  <1>2. ASSUME NEW k \in 1 .. Now', NEW x \in Named(log'[k]) PROVE Alive(k, x)'
    <2>1. CASE k \in 1 .. N
      <3>1. x \in Named(log[k]) BY <1>1, <1>2, <2>1
      <3>2. Alive(k, x) BY <1>1, <2>1, <3>1 DEF INamed
      <3> QED BY <1>1, <2>1, <3>2
    <2>2. CASE k > N /\ k - N \in 1 .. Len(F) /\ log'[k] = F[k - N]
      <3>1. x \in live' BY <1>2, <2>2 DEF Writes
      <3>2. k \in N + 1 .. Now' BY <1>1, <2>2
      <3> QED BY <1>1, <3>1, <3>2
    <2> QED BY <1>1, <2>1, <2>2
  <1>3. \A k \in 1 .. Now' : Named(log[k])' = Named(log'[k]) BY DEF Named
  <1> QED BY <1>2, <1>3 DEF INamed

LEMMA WritesBack ==
    ASSUME ILog, IBack, NEW F, Writes(F)
    PROVE  IBack'
  <1> PICK N \in Nat : GrownAs(F, N) BY GrownBy
  <1>1. /\ Now = N /\ Len(F) \in Nat /\ Now' = N + Len(F)
        /\ \A k \in 1 .. N : log'[k] = log[k] /\ k \in 1 .. Now'
        /\ \A k \in 1 .. Len(F) : log'[N + k] = F[k] /\ N + k \in 1 .. Now'
        /\ \A k \in 1 .. Now' : \/ k \in 1 .. N
                                \/ k > N /\ k - N \in 1 .. Len(F) /\ log'[k] = F[k - N]
        /\ \A n \in 0 .. N : \A a : Alive(n, a)' <=> Alive(n, a)
        /\ \A n \in N + 1 .. Now' : \A a : Alive(n, a)' <=> a \in live'
    BY DEF GrownAs
  <1>2. ASSUME NEW n \in 0 .. Now', NEW m \in 1 .. n, NEW a \in Node,
               Deregisters(m, a)', Alive(n, a)'
        PROVE  \E k \in m + 1 .. n : Registers(k, a)'
    <2>1. CASE n \in 0 .. N
      <3>1. m \in 1 .. N /\ \A k \in m + 1 .. n : k \in 1 .. N BY <2>1
      <3>2. Deregisters(m, a) /\ Alive(n, a) BY <1>1, <1>2, <2>1, <3>1 DEF Deregisters
      <3>3. PICK k \in m + 1 .. n : Registers(k, a) BY <1>1, <2>1, <3>2 DEF IBack
      <3>4. Registers(k, a)' BY <1>1, <3>1, <3>3 DEF Registers
      <3> QED BY <3>4
    <2>2. CASE n \in N + 1 .. Now'
      <3>1. a \in live' BY <1>1, <1>2, <2>2
      <3>2. CASE m \in 1 .. N
        <4>1. CASE a \in live
          <5>1. Deregisters(m, a) BY <1>1, <1>2, <3>2 DEF Deregisters
          <5>2. Alive(N, a) BY <1>1, <4>1 DEF Alive
          <5>3. PICK k \in m + 1 .. N : Registers(k, a) BY <1>1, <3>2, <5>1, <5>2 DEF IBack
          <5>4. k \in 1 .. N /\ k \in m + 1 .. n BY <2>2, <3>2
          <5>5. Registers(k, a)' BY <1>1, <5>3, <5>4 DEF Registers
          <5> QED BY <5>4, <5>5
        <4>2. CASE a \notin live
          <5>1. Len(F) >= 1 /\ F[1].typ = "Register" /\ F[1].arg = a
            BY <3>1, <4>2 DEF Writes, Flips
          <5>2. 1 \in 1 .. Len(F) BY <1>1, <5>1
          <5>3. log'[N + 1] = F[1] BY <1>1, <5>2
          <5>4. Registers(N + 1, a)' BY <5>1, <5>3 DEF Registers
          <5>5. N + 1 \in m + 1 .. n BY <2>2, <3>2
          <5> QED BY <5>4, <5>5
        <4> QED BY <4>1, <4>2
      <3>3. CASE m \notin 1 .. N
        <4>1. m \in 1 .. Now' BY <1>1, <2>2
        <4>2. m - N \in 1 .. Len(F) /\ log'[m] = F[m - N] BY <1>1, <3>3, <4>1
        <4>3. F[m - N].typ = "Deregister" /\ F[m - N].arg = a BY <1>2, <4>2 DEF Deregisters
        <4>4. CASE \E b \in App \cap live : live' = live \ {b} /\ Len(F) = 1 /\ F[1].arg = b
          <5>1. m - N = 1 BY <4>2, <4>4
          <5> QED BY <3>1, <4>3, <4>4, <5>1
        <4>5. CASE F[1].typ = "Register" /\ \A k \in 2 .. Len(F) : F[k].typ # "Deregister"
          <5>1. m - N = 1 \/ m - N \in 2 .. Len(F) BY <1>1, <4>2
          <5> QED BY <4>3, <4>5, <5>1
        <4> QED BY <4>2, <4>3, <4>4, <4>5 DEF Writes, Flips
      <3> QED BY <3>2, <3>3
    <2> QED BY <1>1, <2>1, <2>2
  <1>3. \A n \in 0 .. Now' : \A m \in 1 .. n : \A a \in Node :
           Deregisters(m, a)' /\ Alive(n, a)' => \E k \in m + 1 .. n : Registers(k, a)'
    BY <1>2
  <1> QED BY <1>3 DEF IBack

LEMMA WritesPairs ==
    ASSUME ILog, PairsTold, NEW F, Writes(F)
    PROVE  PairsTold'
  <1> PICK N \in Nat : GrownAs(F, N) BY GrownBy
  <1>1. /\ Now = N /\ Len(F) \in Nat /\ Now' = N + Len(F)
        /\ \A k \in 1 .. N : log'[k] = log[k] /\ k \in 1 .. Now'
        /\ \A k \in 1 .. Len(F) : log'[N + k] = F[k] /\ N + k \in 1 .. Now'
        /\ \A k \in 1 .. Now' : \/ k \in 1 .. N
                                \/ k > N /\ k - N \in 1 .. Len(F) /\ log'[k] = F[k - N]
    BY DEF GrownAs
  <1>2. ASSUME NEW k \in 1 .. Now', log'[k].typ = "ReadFrom"
        PROVE  /\ k + 1 \in 1 .. Now'
               /\ log'[k + 1] = Frame(Public, "Channel", <<log'[k].arg, log'[k].j[2]>>)
    <2>1. CASE k \in 1 .. N
      <3>1. log[k].typ = "ReadFrom" BY <1>1, <1>2, <2>1
      <3>2. /\ k + 1 \in 1 .. N
            /\ log[k + 1] = Frame(Public, "Channel", <<log[k].arg, log[k].j[2]>>)
        BY <1>1, <2>1, <3>1 DEF PairsTold
      <3>3. log'[k + 1] = log[k + 1] /\ log'[k] = log[k] BY <1>1, <2>1, <3>2
      <3>4. k + 1 \in 1 .. Now' BY <1>1, <3>2
      <3> QED BY <3>2, <3>3, <3>4
    <2>2. CASE k > N /\ k - N \in 1 .. Len(F) /\ log'[k] = F[k - N]
      <3>1. PICK l \in 1 .. Len(F) : l = k - N BY <2>2
      <3>2. log'[k] = F[l] /\ F[l].typ = "ReadFrom" BY <1>2, <2>2, <3>1
      <3>3. /\ l + 1 \in 1 .. Len(F)
            /\ F[l + 1] = Frame(Public, "Channel", <<F[l].arg, F[l].j[2]>>)
        BY <3>2 DEF Writes
      <3>4. N + (l + 1) = k + 1 BY <3>1
      <3>5. log'[k + 1] = F[l + 1] /\ k + 1 \in 1 .. Now' BY <1>1, <3>3, <3>4
      <3> QED BY <3>2, <3>3, <3>5
    <2> QED BY <1>1, <2>1, <2>2
  <1>3. ASSUME NEW k \in 1 .. Now', log'[k].typ \in {"Location", "Channel"}, log'[k].j # Public
        PROVE  \E m \in 1 .. k - 1 : Registers(m, log[k].j[2])'
    <2>1. CASE k \in 1 .. N
      <3>1. log[k].typ \in {"Location", "Channel"} /\ log[k].j # Public /\ log'[k] = log[k]
        BY <1>1, <1>3, <2>1
      <3>2. PICK m \in 1 .. k - 1 : Registers(m, log[k].j[2])
        BY <1>1, <2>1, <3>1 DEF PairsTold
      <3>3. m \in 1 .. N BY <2>1
      <3>4. log'[m] = log[m] BY <1>1, <3>3
      <3> QED BY <3>1, <3>2, <3>4 DEF Registers
    <2>2. CASE k > N /\ k - N \in 1 .. Len(F) /\ log'[k] = F[k - N]
      <3>1. PICK l \in 1 .. Len(F) : l = k - N BY <2>2
      <3>2. log'[k] = F[l] /\ F[l].typ \in {"Location", "Channel"} /\ F[l].j # Public
        BY <1>3, <2>2, <3>1
      <3>3. F[1].typ = "Register" /\ F[1].arg = F[l].j[2] /\ l > 1 BY <3>2 DEF Writes
      <3>4. 1 \in 1 .. Len(F) /\ N + 1 \in 1 .. k - 1 BY <1>1, <3>1, <3>3
      <3>5. log'[N + 1] = F[1] BY <1>1, <3>4
      <3> QED BY <3>2, <3>3, <3>4, <3>5 DEF Registers
    <2> QED BY <1>1, <2>1, <2>2
  <1>4. /\ \A k \in 1 .. Now' : log'[k].typ = "ReadFrom" =>
              /\ k + 1 \in 1 .. Now'
              /\ log'[k + 1] = Frame(Public, "Channel", <<log'[k].arg, log'[k].j[2]>>)
        /\ \A k \in 1 .. Now' : log'[k].typ \in {"Location", "Channel"} /\ log'[k].j # Public =>
              \E m \in 1 .. k - 1 : Registers(m, log[k].j[2])'
    BY <1>2, <1>3
  <1> QED BY <1>4 DEF PairsTold, Frame, Public

(* Is link c told and has its source stayed, at the time of frame i?       *)
LEMMA LinkedStays ==
    ASSUME ILog, NEW F, Writes(F), NEW i \in 0 .. Now, NEW c
    PROVE  Linked(i, c)' <=> Linked(i, c)
  <1>1. Now \in Nat /\ \A k \in 1 .. Now : log'[k] = log[k] BY Grown
  <1>2. \A m \in 1 .. i : /\ log'[m] = log[m]
                          /\ \A l \in m .. i : log'[l] = log[l]
    BY <1>1
  <1> QED BY <1>2 DEF Linked, Links, Deregisters, Public, Cmd

LEMMA LinkedLater ==
    ASSUME ILog, NEW F, Writes(F), NEW c, Linked(Now, c), NEW i \in Now .. Now',
           \A l \in 1 .. Len(F) : ~(F[l].typ = "Deregister" /\ F[l].arg = c[1])
    PROVE  Linked(i, c)'
  <1>0. Now \in Nat BY Grown
  <1> PICK N \in Nat : N = Now BY <1>0
  <1>1. /\ Now' \in Nat /\ \A k \in 1 .. N : log'[k] = log[k]
        /\ \A k \in N + 1 .. Now' : k - N \in 1 .. Len(F) /\ log'[k] = F[k - N]
    BY Grown
  <1>2. PICK m \in 1 .. N : Links(m, c) /\ \A l \in m .. N : ~Deregisters(l, c[1])
    BY DEF Linked
  <1>3. Links(m, c)' BY <1>1, <1>2 DEF Links, Public, Cmd
  <1>4. ASSUME NEW l \in m .. i PROVE ~Deregisters(l, c[1])'
    <2>1. CASE l \in 1 .. N
      <3>1. l \in m .. N BY <2>1
      <3>2. log'[l] = log[l] BY <1>1, <2>1
      <3> QED BY <1>2, <3>1, <3>2 DEF Deregisters
    <2>2. CASE l \in N + 1 .. Now'
      <3>1. l - N \in 1 .. Len(F) /\ log'[l] = F[l - N] BY <1>1, <2>2
      <3> QED BY <3>1 DEF Deregisters
    <2> QED BY <1>1, <2>1, <2>2
  <1>5. m \in 1 .. i BY <1>1
  <1> QED BY <1>3, <1>4, <1>5 DEF Linked

LEMMA LinkedNow ==
    ASSUME ILog, NEW F, Writes(F), NEW c, NEW k \in 1 .. Len(F),
           F[k].typ = "Channel", F[k].arg = c, F[k].j \in {Public, Cmd("ledger")},
           \A l \in k .. Len(F) : F[l].typ # "Deregister"
    PROVE  \E M \in Nat : M = Now' /\ Linked(M, c)'
  <1>0. Now \in Nat /\ Now' \in Nat BY Grown
  <1> PICK N \in Nat : N = Now BY <1>0
  <1> PICK M \in Nat : M = Now' BY <1>0
  <1>1. /\ M = N + Len(F) /\ Len(F) \in Nat
        /\ \A l \in 1 .. Len(F) : log'[N + l] = F[l]
        /\ \A l \in N + 1 .. M : l - N \in 1 .. Len(F) /\ log'[l] = F[l - N]
    BY Grown
  <1>2. N + k \in 1 .. M /\ log'[N + k] = F[k] BY <1>1
  <1>3. Links(N + k, c)' BY <1>2 DEF Links, Public, Cmd
  <1>4. ASSUME NEW l \in N + k .. M PROVE ~Deregisters(l, c[1])'
    <2>1. l \in N + 1 .. M /\ l - N \in k .. Len(F) BY <1>1
    <2>2. log'[l] = F[l - N] BY <1>1, <2>1
    <2> QED BY <2>1, <2>2 DEF Deregisters
  <1> QED BY <1>2, <1>3, <1>4 DEF Linked

(* Links after a step, however the ledger came to be told of the old ones. *)
LEMMA WritesLinks ==
    ASSUME ILog, NEW F, Writes(F), \A c \in links : Linked(Now, c), NEW c \in links'
    PROVE  \E M \in Nat : M = Now' /\ Linked(M, c)'
  <1>0. Now \in Nat /\ Now' \in Nat /\ Now' = Now + Len(F) /\ Len(F) \in Nat BY Grown
  <1> PICK M \in Nat : M = Now' BY <1>0
  <1>1. CASE /\ c \in links
             /\ \A l \in 1 .. Len(F) : ~(F[l].typ = "Deregister" /\ F[l].arg = c[1])
    <2>1. M \in Now .. Now' BY <1>0
    <2> QED BY <1>1, <2>1, LinkedLater
  <1>2. CASE /\ \E l \in 1 .. Len(F) : F[l].typ = "Channel" /\ F[l].arg = c /\ F[l].j = Public
             /\ \A l \in 1 .. Len(F) : F[l].typ # "Deregister"
    <2>1. PICK k \in 1 .. Len(F) : F[k].typ = "Channel" /\ F[k].arg = c /\ F[k].j = Public
      BY <1>2
    <2>2. \A l \in k .. Len(F) : F[l].typ # "Deregister"
      <3>1. \A l \in k .. Len(F) : l \in 1 .. Len(F) BY <1>0
      <3> QED BY <1>2, <3>1
    <2> QED BY <2>1, <2>2, LinkedNow
  <1> QED BY <1>1, <1>2 DEF Writes

LEMMA PlainLinks ==
    ASSUME ILog, LinksOK, NEW F, Plain(F)
    PROVE  LinksOK'
  <1>0. Writes(F) BY DEF Plain
  <1> PICK N \in Nat : GrownAs(F, N) BY <1>0, GrownBy
  <1>1. /\ Now = N /\ Len(F) \in Nat /\ Now' = N + Len(F)
        /\ \A k \in 1 .. N : log'[k] = log[k] /\ k \in 1 .. Now'
        /\ \A k \in 1 .. Now' : \/ k \in 1 .. N
                                \/ k > N /\ k - N \in 1 .. Len(F) /\ log'[k] = F[k - N]
    BY DEF GrownAs
  <1> PICK M \in Nat : M = Now' BY <1>1
  <1>2. ASSUME NEW k \in 1 .. Now', Starts(k)'
        PROVE  k \in 1 .. N /\ Starts(k)
    <2>1. ASSUME k - N \in 1 .. Len(F), log'[k] = F[k - N] PROVE FALSE
      BY <1>2, <2>1 DEF Plain, Starts
    <2>2. k \in 1 .. N BY <1>1, <2>1
    <2> QED BY <1>1, <1>2, <2>2 DEF Starts
  <1>3. ASSUME NEW k \in 1 .. Now', Starts(k)'
        PROVE  /\ \A c \in links' : Linked(M, c)'
               /\ \A i \in k + 1 .. Now' : \A c :
                     log'[i].typ = "Order" /\ c = log'[i].j => Linked(i, c)'
    <2>1. k \in 1 .. N /\ Starts(k) BY <1>2, <1>3
    <2>2. \A c \in links : Linked(Now, c) BY <1>1, <2>1 DEF LinksOK
    <2>3. \A c \in links' : Linked(M, c)' BY <1>0, <2>2, WritesLinks
    <2>4. ASSUME NEW i \in k + 1 .. Now', NEW c, log'[i].typ = "Order", c = log'[i].j
          PROVE  Linked(i, c)'
      <3>1. i \in 1 .. Now' BY <2>1
      <3>2. CASE i \in 1 .. N
        <4>1. log[i].typ = "Order" /\ c = log[i].j /\ i \in k + 1 .. N BY <1>1, <2>4, <3>2
        <4>2. Linked(i, c) BY <1>1, <2>1, <4>1 DEF LinksOK
        <4>3. i \in 0 .. Now BY <1>1, <3>2
        <4> QED BY <1>0, <4>2, <4>3, LinkedStays
      <3>3. CASE i > N /\ i - N \in 1 .. Len(F) /\ log'[i] = F[i - N]
        <4>1. c \in links /\ \A l \in 1 .. Len(F) : F[l].typ # "Deregister"
          BY <1>0, <2>4, <3>3 DEF Writes
        <4>2. Linked(Now, c) BY <2>2, <4>1
        <4>3. i \in Now .. Now' BY <1>1, <3>1, <3>3
        <4> QED BY <1>0, <4>1, <4>2, <4>3, LinkedLater
      <3> QED BY <1>1, <3>1, <3>2, <3>3
    <2> QED BY <2>3, <2>4
  <1>4. ASSUME NEW k \in 1 .. Now', Starts(k)'
        PROVE  (/\ \A c \in links : Linked(Now, c)
                /\ \A i \in k + 1 .. Now : log[i].typ = "Order" => Linked(i, log[i].j))'
    BY <1>3, <1>4 DEF Linked, Links, Deregisters, Public, Cmd
  <1> QED BY <1>4 DEF LinksOK

(* Nothing the ledger holds changes when it does not run its loop.         *)
LEMMA Same ==
    ASSUME NEW F, Writes(F)
    PROVE  /\ st' = st /\ begun' = begun /\ cur' = cur /\ known' = known /\ channels' = channels
           /\ writers' = writers /\ states' = states /\ books' = books /\ since' = since
           /\ subs' = subs /\ added' = added /\ seen' = seen /\ informed' = informed
           /\ last' = last /\ overtook' = overtook
           /\ st # "down" /\ Up
  BY DEF Writes, lvars, rvars, bvars, wvars, cvars, Up

LEMMA WritesTyped ==
    ASSUME ILog, IType, IClient, NEW F, Writes(F)
    PROVE  IType' /\ IClient'
  <1> PICK N \in Nat : GrownAs(F, N) BY GrownBy
  <1>1. /\ Now = N /\ Len(F) \in Nat /\ Now' = N + Len(F)
        /\ \A k \in 1 .. N : log'[k] = log[k] /\ k \in 1 .. Now'
    BY DEF GrownAs
  <1>2. 0 .. N \subseteq 0 .. Now' /\ 0 .. N + 1 \subseteq 0 .. Now' + 1 BY <1>1
  <1>3. begun' \in 0 .. Now' BY <1>1, <1>2, Same DEF IType
  <1>4. cur' \in [Journal -> 0 .. Now' + 1] BY <1>1, <1>2, Same DEF IType
  <1>5. since' \in [Booked -> 0 .. Now'] BY <1>1, <1>2, Same DEF IType
  <1>6. IType' BY <1>3, <1>4, <1>5, Same DEF IType
  <1>7. IClient' BY Same DEF IClient, Informed
  <1> QED BY <1>6, <1>7

LEMMA WritesType ==
    ASSUME ILog, IType, IClient, IDown, Survives, NEW F, Writes(F),
           "ledger" \in live => "ledger" \in live'
    PROVE  IType' /\ IClient' /\ IDown' /\ Survives'
  <1>1. IType' /\ IClient' BY WritesTyped
  <1>2. IDown' /\ Survives' BY Same DEF IDown, Survives
  <1> QED BY <1>1, <1>2

LEMMA WritesCur ==
    ASSUME ILog, IType, ICur, NEW F, Writes(F)
    PROVE  ICur'
  <1> PICK N \in Nat : GrownAs(F, N) BY GrownBy
  <1>1. /\ Now = N /\ Len(F) \in Nat /\ Now' = N + Len(F)
        /\ \A k \in 1 .. N : log'[k] = log[k] /\ k \in 1 .. Now'
    BY DEF GrownAs
  <1>2. ASSUME NEW c \in Node \X Node, NEW k \in 1 .. Now',
               Links(k, c)', k < cur[log'[k].j],
               \A l \in k .. cur[Public] - 1 : ~Deregisters(l, c[1])'
        PROVE  c \in channels
    <2>1. log'[k].j \in {Public, Cmd("ledger")} BY <1>2 DEF Links, Public, Cmd
    <2>2. Public \in Journal /\ Cmd("ledger") \in Journal BY JournalNames, Names
    <2>3. cur[log'[k].j] \in 0 .. N + 1 /\ cur[Public] \in 0 .. N + 1
      BY <1>1, <2>1, <2>2 DEF IType
    <2>4. k \in 1 .. N BY <1>2, <2>3
    <2>5. \A l \in k .. cur[Public] - 1 : l \in 1 .. N BY <2>3, <2>4
    <2>6. \A l \in k .. cur[Public] - 1 : ~Deregisters(l, c[1])
      BY <1>1, <1>2, <2>5 DEF Deregisters
    <2>7. Links(k, c) BY <1>1, <1>2, <2>4 DEF Links, Public, Cmd
    <2>8. k < cur[log[k].j] BY <1>1, <1>2, <2>4
    <2> QED BY <1>1, <2>4, <2>6, <2>7, <2>8 DEF ICur
  <1>3. \A c \in Node \X Node : \A k \in 1 .. Now' :
           /\ Links(k, c)' /\ k < cur[log'[k].j]
           /\ \A l \in k .. cur[Public] - 1 : ~Deregisters(l, c[1])'
           => c \in channels
    BY <1>2
  <1>4. (\A c \in Node \X Node : \A k \in 1 .. Now :
            /\ Links(k, c) /\ k < cur[log[k].j]
            /\ \A l \in k .. cur[Public] - 1 : ~Deregisters(l, c[1])
            => c \in channels)'
    BY <1>3, Same DEF Public
  <1>5. (Up => cur[Public] # 0)' BY Same DEF ICur, Up, Public
  <1> QED BY <1>4, <1>5, Same DEF ICur, Public, Cmd

LEMMA WritesUnread ==
    ASSUME ILog, IType, NEW F, Writes(F)
    PROVE  \A u \in Unread' : u \in Unread \/ (u > Now /\ u \in 1 .. Now')
  <1> PICK N \in Nat : GrownAs(F, N) BY GrownBy
  <1>1. /\ Now = N /\ Len(F) \in Nat /\ Now' = N + Len(F)
        /\ \A k \in 1 .. N : log'[k] = log[k] /\ k \in 1 .. Now'
    BY DEF GrownAs
  <1>2. ASSUME NEW u \in Unread' PROVE u \in Unread \/ (u > N /\ u \in 1 .. Now')
    <2>1. u \in 1 .. Now' /\ cur[log'[u].j] # 0 /\ cur[log'[u].j] <= u
      BY <1>2, Same DEF Unread
    <2>2. CASE u \in 1 .. N BY <1>1, <2>1, <2>2 DEF Unread
    <2> QED BY <1>1, <2>1, <2>2
  <1> QED BY <1>1, <1>2

LEMMA WritesPlace ==
    ASSUME ILog, IType, ICur, IPlace, NEW F, Writes(F)
    PROVE  IPlace'
  <1> PICK N \in Nat : GrownAs(F, N) BY GrownBy
  <1>1. /\ Now = N /\ Len(F) \in Nat /\ Now' = N + Len(F)
        /\ \A k \in 1 .. N : log'[k] = log[k] /\ k \in 1 .. Now'
        /\ \A n \in 0 .. N : \A a : Alive(n, a)' <=> Alive(n, a)
    BY DEF GrownAs
  <1> SUFFICES ASSUME st = "started" PROVE IPlace'
    BY Same DEF IPlace
  <1>0. \A j \in Journal : cur[j] \in 0 .. N + 1 BY <1>1 DEF IType
  <1>2. begun \in 1 .. N /\ begun \in 1 .. Now' /\ Starts(begun)'
    <2>1. begun \in 1 .. N /\ Starts(begun) BY <1>1 DEF IPlace
    <2>2. log'[begun] = log[begun] /\ begun \in 1 .. Now' BY <1>1, <2>1
    <2> QED BY <2>1, <2>2, Same DEF Starts
  <1>3. ASSUME NEW u \in Unread' PROVE u > begun /\ \A j \in Journal : cur[j] <= u
    <2>1. CASE u \in Unread BY <2>1 DEF IPlace
    <2>2. CASE u > N /\ u \in 1 .. Now' BY <1>0, <1>2, <2>2
    <2> QED BY <1>1, <2>1, <2>2, WritesUnread
  <1> PICK p : p = cur[Public] - 1 OBVIOUS
  <1>4. p \in 0 .. N BY <1>0, JournalNames DEF ICur, Up
  <1>5. \A x \in Node : x \in known <=> Alive(p, x)' BY <1>1, <1>4 DEF IPlace
  <1>6. (\A x \in Node : x \in known <=> Alive(cur[Public] - 1, x))'
    BY <1>5, Same DEF Public
  <1>7. (\A i \in Unread : i > begun /\ \A j \in Journal : cur[j] <= i)' BY <1>3, Same
  <1>8. ("master" \in writers /\ begun \in 1 .. Now /\ Starts(begun))'
    BY <1>2, Same DEF IPlace, Starts
  <1> QED BY <1>6, <1>7, <1>8 DEF IPlace

LEMMA WritesStates ==
    ASSUME ILog, IType, IStates, NEW F, Writes(F)
    PROVE  IStates'
  <1> PICK N \in Nat : GrownAs(F, N) BY GrownBy
  <1>1. /\ Now = N /\ Len(F) \in Nat /\ Now' = N + Len(F)
        /\ \A k \in 1 .. N : log'[k] = log[k] /\ k \in 1 .. Now'
    BY DEF GrownAs
  <1>2. ASSUME NEW b \in Broker PROVE Said(b)' = Said(b)
    <2>1. <<b, "all">> \in Journal /\ Public \in Journal BY JournalNames, Names
    <2>2. cur[<<b, "all">>] \in 0 .. N + 1 /\ cur[Public] \in 0 .. N + 1 /\ begun \in 0 .. N
      BY <1>1, <2>1 DEF IType
    <2>3. \A k \in 1 .. cur[Public] - 1 : log'[k] = log[k] BY <1>1, <2>2
    <2>4. \A k \in begun + 1 .. cur[<<b, "all">>] - 1 : log'[k] = log[k] BY <1>1, <2>2
    <2>5. Said(b)' = {i \in begun + 1 .. cur[<<b, "all">>] - 1 :
             /\ log'[i].typ = "BrokerState" /\ log'[i].j[1] = b
             /\ \A k \in 1 .. cur[Public] - 1 : Registers(k, b)' => k < i}
      BY Same DEF Said, Public
    <2> QED BY <2>3, <2>4, <2>5 DEF Said, Registers
  <1>3. ASSUME NEW b \in Broker, NEW i \in Said(b) PROVE log'[i] = log[i]
    <2>1. <<b, "all">> \in Journal BY JournalNames, Names
    <2>2. cur[<<b, "all">>] \in 0 .. N + 1 /\ begun \in 0 .. N BY <1>1, <2>1 DEF IType
    <2>3. i \in 1 .. N BY <1>3, <2>2 DEF Said
    <2> QED BY <1>1, <2>3
  <1> QED BY <1>2, <1>3, Same DEF IStates

LEMMA WritesBooks ==
    ASSUME ILog, IType, IBooks, NEW F, Writes(F)
    PROVE  IBooks'
  <1> PICK N \in Nat : GrownAs(F, N) BY GrownBy
  <1>1. /\ Now = N /\ Len(F) \in Nat /\ Now' = N + Len(F)
        /\ \A k \in 1 .. N : log'[k] = log[k] /\ k \in 1 .. Now'
    BY DEF GrownAs
  <1>2. \A i : Passed(i)' <=> Passed(i) BY Same DEF Passed
  <1>3. ASSUME NEW x \in Booked, NEW o
        PROVE  /\ Entered(x, o)' = Entered(x, o)
               /\ \A i \in Entered(x, o) : log'[i] = log[i]
    <2>1. since[x] \in 0 .. N BY <1>1 DEF IType
    <2>2. \A i \in since[x] + 1 .. Now' : Passed(i) => i \in 1 .. N
      BY <1>1, <2>1 DEF Passed, IType
    <2>3. \A i \in since[x] + 1 .. N : i \in 1 .. N BY <2>1
    <2>4. Entered(x, o)' = {i \in since[x] + 1 .. Now' :
             /\ log'[i].typ = "Order" /\ x \in {log'[i].j[1], log'[i].j[2]} /\ log'[i].arg.id = o
             /\ Passed(i)}
      BY <1>2, Same DEF Entered, Reports
    <2>5. Entered(x, o) = {i \in since[x] + 1 .. N :
             /\ log[i].typ = "Order" /\ x \in {log[i].j[1], log[i].j[2]} /\ log[i].arg.id = o
             /\ Passed(i)}
      BY <1>1 DEF Entered, Reports
    <2>6. \A i : i \in since[x] + 1 .. Now' /\ Passed(i) <=> i \in since[x] + 1 .. N /\ Passed(i)
      BY <1>1, <2>1, <2>2
    <2>7. \A i \in since[x] + 1 .. N : log'[i] = log[i] BY <1>1, <2>3
    <2>8. Entered(x, o)' = Entered(x, o) BY <2>4, <2>5, <2>6, <2>7
    <2> QED BY <2>5, <2>7, <2>8
  <1>4. (\A x \in Booked : subs[x] > 0 => x \in DOMAIN books)' BY Same DEF IBooks
  <1>5. ASSUME st = "started"
        PROVE  /\ \A x \in Booked : subs[x] > 0 => Passed(since[x])
               /\ \A x \in DOMAIN books :
                    /\ subs[x] = 0 => books[x] = {}
                    /\ subs[x] > 0 => \A o \in OrderId :
                          o \in books[x] <=> \E i \in Entered(x, o)' :
                            log'[i].arg.active /\ \A k \in Entered(x, o)' : k <= i
    <2>1. DOMAIN books \subseteq Booked BY DEF IType
    <2> QED BY <1>3, <1>5, <2>1 DEF IBooks
  <1>6. (st = "started" =>
         /\ \A x \in Booked : subs[x] > 0 => Passed(since[x])
         /\ \A x \in DOMAIN books :
              /\ subs[x] = 0 => books[x] = {}
              /\ subs[x] > 0 => \A o \in OrderId :
                    o \in books[x] <=> \E i \in Entered(x, o) :
                      log[i].arg.active /\ \A k \in Entered(x, o) : k <= i)'
    BY <1>2, <1>5, Same
  <1> QED BY <1>4, <1>6 DEF IBooks

LEMMA PlainWelcomed ==
    ASSUME ILog, NEW F, Plain(F), NEW r, NEW s, Welcomed(r, s)
    PROVE  Welcomed(r, s)'
  <1>0. Writes(F) BY DEF Plain
  <1> PICK N \in Nat : GrownAs(F, N) BY <1>0, GrownBy
  <1>1. /\ Now = N /\ Len(F) \in Nat /\ Now' = N + Len(F)
        /\ \A k \in 1 .. N : log'[k] = log[k] /\ k \in 1 .. Now'
        /\ \A k \in 1 .. Now' : \/ k \in 1 .. N
                                \/ k > N /\ k - N \in 1 .. Len(F) /\ log'[k] = F[k - N]
        /\ \A n \in 0 .. N : \A a : Alive(n, a)' <=> Alive(n, a)
    BY DEF GrownAs
  <1>2. /\ r \in 1 .. N /\ s \in 1 .. N /\ r < s
        /\ \A k \in 1 .. s : k \in 1 .. N
    BY <1>1 DEF Welcomed
  <1>3. Registers(r, "ledger")' /\ \A k \in 1 .. r - 1 : ~Registers(k, "ledger")'
    <2>1. log'[r] = log[r] /\ \A k \in 1 .. r - 1 : log'[k] = log[k] BY <1>1, <1>2
    <2> QED BY <2>1 DEF Welcomed, Registers
  <1>4. /\ \A k \in r + 1 .. s : log'[k].j = Cmd("ledger")
        /\ \A k \in 1 .. r : log'[k].j # Cmd("ledger")
    <2>1. \A k \in r + 1 .. s : k \in 1 .. N BY <1>2
    <2>2. \A k \in 1 .. r : k \in 1 .. N BY <1>2
    <2>3. \A k \in 1 .. N : log'[k] = log[k] BY <1>1
    <2> QED BY <2>1, <2>2, <2>3 DEF Welcomed
  <1>5. ASSUME NEW k \in 1 .. Now'
        PROVE  /\ Starts(k)' <=> k = s
               /\ log'[k].typ = "Location" /\ log'[k].j = Cmd("ledger") => k < s
    <2>1. CASE k \in 1 .. N BY <1>1, <2>1 DEF Welcomed, Starts
    <2>2. CASE k > N /\ k - N \in 1 .. Len(F) /\ log'[k] = F[k - N]
      <3>1. /\ F[k - N].typ # "RequestStart"
            /\ F[k - N].j = Cmd("ledger") => F[k - N].typ # "Location"
        BY <2>2 DEF Plain
      <3> QED BY <1>2, <2>2, <3>1 DEF Starts
    <2> QED BY <1>1, <2>1, <2>2
  <1>6. \E k \in r + 1 .. s - 1 : Grants(k, "master")'
    <2>1. PICK k \in r + 1 .. s - 1 : Grants(k, "master") BY DEF Welcomed
    <2>2. log'[k] = log[k] BY <1>1, <1>2
    <2> QED BY <2>1, <2>2 DEF Grants
  <1>7. ASSUME NEW x \in Node, Alive(r, x)'
        PROVE  \E k \in r + 1 .. s - 1 : Locates(k, x)'
    <2>0. r \in 0 .. N BY <1>2
    <2>1. Alive(r, x) BY <1>1, <1>7, <2>0
    <2>2. PICK k \in r + 1 .. s - 1 : Locates(k, x) BY <2>1 DEF Welcomed
    <2>3. log'[k] = log[k] BY <1>1, <1>2
    <2> QED BY <2>2, <2>3 DEF Locates, Cmd
  <1>8. r \in 1 .. Now' /\ s \in 1 .. Now' BY <1>1, <1>2
  <1> QED BY <1>2, <1>3, <1>4, <1>5, <1>6, <1>7, <1>8 DEF Welcomed, Cmd

(* The ledger does not come, nor go. *)
LEMMA PlainLedger ==
    ASSUME NEW F, Plain(F)
    PROVE  "ledger" \in live' <=> "ledger" \in live
  <1>1. CASE live' = live BY <1>1
  <1>2. ASSUME NEW a \in Node \ live, live' = live \cup {a}, Len(F) >= 1,
               F[1].typ = "Register" /\ F[1].arg = a
        PROVE  a # "ledger"
    <2>1. F \in Seq(Entry) BY DEF Plain, Writes
    <2>2. 1 \in 1 .. Len(F) BY <1>2, <2>1
    <2> QED BY <1>2, <2>2 DEF Plain
  <1>3. Flips(F) BY DEF Plain, Writes
  <1> QED BY <1>1, <1>2, <1>3, Names DEF Flips

LEMMA PlainWait ==
    ASSUME ILog, IType, IWait, NEW F, Plain(F)
    PROVE  IWait'
  <1>0. Writes(F) BY DEF Plain
  <1> PICK N \in Nat : GrownAs(F, N) BY <1>0, GrownBy
  <1>1. /\ Now = N /\ Len(F) \in Nat /\ Now' = N + Len(F)
        /\ \A k \in 1 .. N : log'[k] = log[k] /\ k \in 1 .. Now'
        /\ \A k \in 1 .. Now' : \/ k \in 1 .. N
                                \/ k > N /\ k - N \in 1 .. Len(F) /\ log'[k] = F[k - N]
    BY DEF GrownAs
  <1> SUFFICES ASSUME st = "waiting" PROVE IWait'
    BY <1>0, Same DEF IWait
  <1>2. /\ known = {} /\ writers = {} /\ asks' = <<>> /\ begun = 0 /\ DOMAIN books = {}
        /\ added = {} /\ \A x \in Booked : subs[x] = 0
        /\ \A j \in Journal \ {Public} : cur[j] = 0
    BY DEF IWait, Plain
  <1>3. \A k \in 1 .. cur[Public] - 1 : log'[k].typ # "Register"
    <2>1. cur[Public] \in 0 .. N + 1 BY <1>1, JournalNames DEF IType
    <2>2. N \in Nat /\ \A k \in 1 .. N : log'[k] = log[k] BY <1>1
    <2>3. ASSUME NEW k \in 1 .. cur[Public] - 1 PROVE k \in 1 .. N BY <2>1
    <2>4. \A k \in 1 .. cur[Public] - 1 : log'[k] = log[k] BY <2>2, <2>3
    <2> QED BY <2>4 DEF IWait
  <1>4. ASSUME "ledger" \notin live', NEW k \in 1 .. Now'
        PROVE  log'[k].j # Cmd("ledger") /\ ~Comes(k, "ledger")'
    <2>1. "ledger" \notin live BY <1>4, PlainLedger
    <2>2. CASE k \in 1 .. N
      BY <1>1, <2>1, <2>2 DEF IWait, Comes, Registers, Deregisters
    <2>3. CASE k > N /\ k - N \in 1 .. Len(F) /\ log'[k] = F[k - N]
      <3>1. /\ F[k - N].j # Cmd("ledger")
            /\ F[k - N].typ \in {"Register", "Deregister"} => F[k - N].arg # "ledger"
        BY <2>1, <2>3 DEF Plain
      <3> QED BY <2>3, <3>1 DEF Comes, Registers, Deregisters
    <2> QED BY <1>1, <2>2, <2>3
  <1>5. ASSUME "ledger" \in live'
        PROVE  \E r, s \in 1 .. Now' : cur[Public] <= r /\ Welcomed(r, s)'
    <2>1. "ledger" \in live BY <1>5, PlainLedger
    <2>2. PICK r \in 1 .. N, s \in 1 .. N : cur[Public] <= r /\ Welcomed(r, s)
      BY <1>1, <2>1 DEF IWait
    <2>3. Welcomed(r, s)' BY <2>2, PlainWelcomed
    <2> QED BY <1>1, <2>2, <2>3
  <1>6. (\A k \in 1 .. cur[Public] - 1 : log[k].typ # "Register")' BY <1>0, <1>3, Same DEF Public
  <1>7. ("ledger" \notin live => \A k \in 1 .. Now : /\ log[k].j # Cmd("ledger")
                                                    /\ ~Comes(k, "ledger"))'
    BY <1>4 DEF Cmd
  <1>8. ("ledger" \in live => \E r, s \in 1 .. Now : cur[Public] <= r /\ Welcomed(r, s))'
    BY <1>0, <1>5, Same DEF Public
  <1>9. (\A j \in Journal \ {Public} : cur[j] = 0)' BY <1>0, <1>2, Same DEF Public
  <1> QED BY <1>0, <1>2, <1>6, <1>7, <1>8, <1>9, Same DEF IWait

LEMMA PlainJoined ==
    ASSUME ILog, IType, IJoined, NEW F, Plain(F)
    PROVE  IJoined'
  <1>0. Writes(F) BY DEF Plain
  <1> PICK N \in Nat : GrownAs(F, N) BY <1>0, GrownBy
  <1>1. /\ Now = N /\ Len(F) \in Nat /\ Now' = N + Len(F)
        /\ \A k \in 1 .. N : log'[k] = log[k] /\ k \in 1 .. Now'
        /\ \A n \in 0 .. N : \A a : Alive(n, a)' <=> Alive(n, a)
    BY DEF GrownAs
  <1> SUFFICES ASSUME st = "joined" PROVE IJoined'
    BY <1>0, Same DEF IJoined
  <1>2. PICK r \in 1 .. N, s \in 1 .. N :
        /\ Welcomed(r, s) /\ cur[Public] = r + 1
        /\ r < cur[Cmd("ledger")] /\ \A j \in Journal : cur[j] <= s
        /\ \A k \in 1 .. s : log[k].typ = "Register" => k = r
        /\ "ledger" \in known /\ \A x \in known : Alive(r, x)
        /\ \A x \in Node : Alive(r, x) =>
              x \in known \/ \E k \in cur[Cmd("ledger")] .. s - 1 : Locates(k, x)
        /\ "master" \in writers \/ \E k \in cur[Cmd("ledger")] .. s - 1 : Grants(k, "master")
        /\ \A b \in known \cap Broker : states[b] = "Connected"
        /\ \A x \in DOMAIN books : books[x] = {}
        /\ \A t \in TD, u \in Strategy : cur[<<t, u>>] = 0 \/ cur[<<t, u>>] > r
        /\ \A x \in Booked : subs[x] > 0 => since[x] \in r .. s - 1
    BY <1>1 DEF IJoined, Joined
  <1>3. Welcomed(r, s)' BY <1>2, PlainWelcomed
  <1>4. \A k \in 1 .. s : log'[k].typ = "Register" => k = r BY <1>1, <1>2
  <1>5. \A x : Alive(r, x)' <=> Alive(r, x) BY <1>1
  <1>6. cur[Cmd("ledger")] \in 0 .. N + 1 /\ cur[Cmd("ledger")] > r
    BY <1>1, <1>2, JournalNames, Names DEF IType
  <1>7. \A k \in cur[Cmd("ledger")] .. s - 1 : log'[k] = log[k] BY <1>1, <1>6
  <1>8. \A x \in Node : Alive(r, x)' =>
           x \in known \/ \E k \in cur[Cmd("ledger")] .. s - 1 : Locates(k, x)'
    BY <1>2, <1>5, <1>7 DEF Locates, Cmd
  <1>9. "master" \in writers \/ \E k \in cur[Cmd("ledger")] .. s - 1 : Grants(k, "master")'
    BY <1>2, <1>7 DEF Grants
  <1>10. (/\ Welcomed(r, s) /\ cur[Public] = r + 1
          /\ r < cur[Cmd("ledger")] /\ \A j \in Journal : cur[j] <= s
          /\ \A k \in 1 .. s : log[k].typ = "Register" => k = r)'
    BY <1>0, <1>2, <1>3, <1>4, Same DEF Public, Cmd
  <1>11. (/\ "ledger" \in known /\ \A x \in known : Alive(r, x)
          /\ \A x \in Node : Alive(r, x) =>
                x \in known \/ \E k \in cur[Cmd("ledger")] .. s - 1 : Locates(k, x)
          /\ "master" \in writers \/ \E k \in cur[Cmd("ledger")] .. s - 1 : Grants(k, "master"))'
    BY <1>0, <1>2, <1>5, <1>8, <1>9, Same DEF Cmd
  <1>12. (/\ \A b \in known \cap Broker : states[b] = "Connected"
          /\ \A x \in DOMAIN books : books[x] = {}
          /\ \A t \in TD, u \in Strategy : cur[<<t, u>>] = 0 \/ cur[<<t, u>>] > r
          /\ \A x \in Booked : subs[x] > 0 => since[x] \in r .. s - 1)'
    BY <1>0, <1>2, Same
  <1>13. r \in 1 .. Now' /\ s \in 1 .. Now' BY <1>1
  <1> QED BY <1>10, <1>11, <1>12, <1>13 DEF IJoined, Joined

LEMMA PlainReach ==
    ASSUME ILog, IType, IReach, NEW F, Plain(F)
    PROVE  IReach'
  <1>0. Writes(F) BY DEF Plain
  <1> PICK N \in Nat : GrownAs(F, N) BY <1>0, GrownBy
  <1>1. /\ Now = N /\ Len(F) \in Nat /\ Now' = N + Len(F)
        /\ \A k \in 1 .. N : log'[k] = log[k] /\ k \in 1 .. Now'
        /\ \A k \in 1 .. Len(F) : log'[N + k] = F[k] /\ N + k \in 1 .. Now'
    BY DEF GrownAs
  <1> SUFFICES ASSUME st = "joined" \/ st = "started" \/ (st = "waiting" /\ "ledger" \in live),
                      NEW a \in live' \cap App
               PROVE  Reaches(a)'
    BY <1>0, Same, PlainLedger DEF IReach
  <1>2. /\ cur[Public] \in Nat /\ cur[Public] <= N + 1
        /\ cur[Cmd("ledger")] \in Nat /\ cur[Cmd("ledger")] <= N + 1
    <2>1. Public \in Journal /\ Cmd("ledger") \in Journal BY JournalNames, Names
    <2>2. cur[Public] \in 0 .. N + 1 /\ cur[Cmd("ledger")] \in 0 .. N + 1
      BY <1>1, <2>1 DEF IType
    <2> QED BY <1>1, <2>2
  <1>3. CASE a \notin live
    <2>1. Len(F) >= 1 /\ F[1].typ = "Register" /\ F[1].arg = a
      BY <1>0, <1>3 DEF Writes, Flips
    <2>2. 1 \in 1 .. Len(F) BY <1>1, <2>1
    <2>3. log'[N + 1] = F[1] /\ N + 1 \in 1 .. Now' BY <1>1, <2>2
    <2>4. N + 1 >= cur'[Public] BY <1>0, <1>2, Same
    <2>5. Registers(N + 1, a)' BY <2>1, <2>3 DEF Registers
    <2> QED BY <2>3, <2>4, <2>5 DEF Reaches, Public
  <1>4. CASE a \in live
    <2>1. Reaches(a) BY <1>4 DEF IReach
    <2>2. CASE \E k \in 1 .. N : k >= cur[Public] /\ Registers(k, a)
      <3>1. PICK k \in 1 .. N : k >= cur[Public] /\ Registers(k, a) BY <2>2
      <3>2. log'[k] = log[k] /\ k \in 1 .. Now' BY <1>1
      <3>3. k >= cur'[Public] /\ Registers(k, a)' BY <1>0, <3>1, <3>2, Same DEF Registers
      <3> QED BY <3>2, <3>3 DEF Reaches, Public
    <2>3. CASE a \in known /\ a \in writers
      BY <1>0, <2>3, Same DEF Reaches
    <2>4. CASE a \in known /\ \E k \in 1 .. Len(asks) : asks[k] = a
      <3>1. \/ \E l \in 1 .. Len(asks') : asks'[l] = a
            \/ \E l \in 1 .. Len(F) : F[l].typ = "WriteTo" /\ F[l].arg = a
        BY <2>4 DEF Plain
      <3>2. CASE \E l \in 1 .. Len(asks') : asks'[l] = a
        BY <1>0, <2>4, <3>2, Same DEF Reaches
      <3>3. ASSUME NEW l \in 1 .. Len(F), F[l].typ = "WriteTo", F[l].arg = a
            PROVE  Reaches(a)'
        <4>1. log'[N + l] = F[l] /\ N + l \in 1 .. Now' BY <1>1
        <4>2. N + l >= cur'[Cmd("ledger")] BY <1>0, <1>2, Same
        <4>3. Grants(N + l, a)' BY <3>3, <4>1 DEF Grants
        <4>4. a \in known' BY <1>0, <2>4, Same
        <4> QED BY <4>1, <4>2, <4>3, <4>4 DEF Reaches, Cmd
      <3> QED BY <3>1, <3>2, <3>3
    <2>5. CASE a \in known /\ \E k \in 1 .. N : k >= cur[Cmd("ledger")] /\ Grants(k, a)
      <3>1. PICK k \in 1 .. N : k >= cur[Cmd("ledger")] /\ Grants(k, a) BY <2>5
      <3>2. log'[k] = log[k] /\ k \in 1 .. Now' BY <1>1
      <3>3. k >= cur'[Cmd("ledger")] /\ Grants(k, a)' /\ a \in known'
        BY <1>0, <2>5, <3>1, <3>2, Same DEF Grants
      <3> QED BY <3>2, <3>3 DEF Reaches, Cmd
    <2>6. CASE /\ a \notin known /\ st # "started"
               /\ \E k \in 1 .. N : k >= cur[Cmd("ledger")] /\ Locates(k, a)
      <3>1. PICK k \in 1 .. N : k >= cur[Cmd("ledger")] /\ Locates(k, a) BY <2>6
      <3>2. log'[k] = log[k] /\ k \in 1 .. Now' BY <1>1
      <3>3. k >= cur'[Cmd("ledger")] /\ Locates(k, a)' /\ a \notin known' /\ st' # "started"
        BY <1>0, <2>6, <3>1, <3>2, Same DEF Locates, Cmd
      <3> QED BY <3>2, <3>3 DEF Reaches, Cmd
    <2> QED BY <1>1, <2>1, <2>2, <2>3, <2>4, <2>5, <2>6 DEF Reaches
  <1> QED BY <1>3, <1>4

(* All together. *)
LEMMA PlainHolds ==
    ASSUME LInv, NEW F, Plain(F)
    PROVE  LInv'
  <1>1. Writes(F) /\ ("ledger" \in live => "ledger" \in live') BY PlainLedger DEF Plain
  <1>2. ILog /\ INamed /\ IBack /\ PairsTold /\ LinksOK /\ IDown /\ IType /\ IClient /\ ICur
    BY DEF LInv
  <1>3. IWait /\ IJoined /\ IPlace /\ IStates /\ IReach /\ IBooks /\ Survives BY DEF LInv
  <1>4. ILog' /\ INamed' /\ IBack' /\ PairsTold'
    BY <1>1, <1>2, WritesLog, WritesNamed, WritesBack, WritesPairs
  <1>5. LinksOK' BY <1>2, PlainLinks
  <1>6. IType' /\ IClient' /\ IDown' /\ Survives' BY <1>1, <1>2, <1>3, WritesType
  <1>7. ICur' /\ IPlace' /\ IStates' /\ IBooks'
    BY <1>1, <1>2, <1>3, WritesCur, WritesPlace, WritesStates, WritesBooks
  <1>8. IWait' /\ IJoined' /\ IReach' BY <1>2, <1>3, PlainWait, PlainJoined, PlainReach
  <1> QED BY <1>4, <1>5, <1>6, <1>7, <1>8 DEF LInv

LEMMA Lasts ==
    ASSUME Inv, ITyped', st' = st, last' = last, overtook' = overtook, overtook = 0 => LInv'
    PROVE  Inv'
  <1>1. last' \in Journal' BY DEF Inv, Journal, Public, Cmd
  <1> QED BY <1>1 DEF Inv

LEMMA PlainKeeps ==
    ASSUME Inv, NEW F, Plain(F)
    PROVE  Inv'
  <1>1. Writes(F) BY DEF Plain
  <1>2. /\ st' = st /\ last' = last /\ overtook' = overtook BY <1>1, Same
  <1>3. ITyped' BY <1>1, WritesLog, WritesPairs, WritesTyped DEF Inv, ITyped
  <1>4. overtook = 0 => LInv' BY PlainHolds DEF Inv
  <1> QED BY <1>2, <1>3, <1>4, Lasts

-----------------------------------------------------------------------------
(* No ledger runs. *)
Nothing ==
    /\ live \subseteq Node /\ links \subseteq Node \X Node
    /\ st = "down" /\ log = <<>> /\ asks = <<>> /\ begun = 0 /\ cur = [j \in Journal |-> 0]
    /\ known = {} /\ channels = {} /\ writers = {} /\ DOMAIN states = {} /\ DOMAIN books = {}
    /\ since = [x \in Booked |-> 0] /\ subs = [x \in Booked |-> 0] /\ added = {}
    /\ informed = FALSE /\ seen = [b \in Broker |-> None]
    /\ last \in Journal /\ overtook = 0

LEMMA NothingHolds == Nothing => Inv
  <1> SUFFICES ASSUME Nothing PROVE Inv
    OBVIOUS
  <1> USE DEF Nothing
  <1>1. /\ Now = 0 /\ 1 .. Now = {} /\ log \in Seq(Entry) /\ asks \in Seq(App) /\ Len(asks) = 0
        /\ st = "down" /\ Unread = {} /\ \A n \in Now .. 0 : n = 0
    BY DEF Now, Unread
  <1>2. ILog BY <1>1 DEF ILog
  <1>3. INamed /\ PairsTold /\ LinksOK BY <1>1 DEF INamed, PairsTold, LinksOK
  <1>4. IBack
    <2>1. \A n \in 0 .. Now : 1 .. n = {} BY <1>1
    <2> QED BY <2>1 DEF IBack
  <1>5. IDown BY DEF IDown
  <1>6. IType
    <2>1. begun \in 0 .. Now /\ cur \in [Journal -> 0 .. Now + 1]
          /\ since \in [Booked -> 0 .. Now] /\ subs \in [Booked -> 0 .. 2]
      BY <1>1
    <2> QED BY <2>1 DEF IType
  <1>7. IClient BY DEF IClient, Informed
  <1>8. ICur
    <2>1. \A a \in App : cur[<<a, "all">>] = 0 BY JournalNames, Names
    <2> QED BY <1>1, <2>1 DEF ICur, Up
  <1>9. IWait /\ IJoined /\ IPlace /\ IStates /\ IReach /\ Survives
    BY DEF IWait, IJoined, IPlace, IStates, IReach, Survives
  <1>10. IBooks BY DEF IBooks
  <1>11. LInv BY <1>2, <1>3, <1>4, <1>5, <1>6, <1>7, <1>8, <1>9, <1>10 DEF LInv
  <1>12. last \in Journal /\ overtook \in 0 .. MaxOvertake
    BY LedgerAssumption
  <1> QED BY <1>11, <1>12 DEF Inv, ITyped, LInv

LEMMA NothingLater == Nothing' => Inv'
  BY NothingHolds, PTL

LEMMA DownIsNothing ==
    ASSUME Inv, st = "down"
    PROVE  Nothing
  BY DEF Inv, LInv, ILog, IDown, IType, IClient, Nothing

LEMMA LedgerInit ==
    ASSUME Init
    PROVE  Inv
  <1>1. live \subseteq Node /\ links \subseteq Node \X Node
    <2>1. live \subseteq Node BY Names DEF Init
    <2>2. PICK P \in SUBSET ((live \cap TD) \X (live \cap Strategy)) :
             links = P \cup {<<p[2], p[1]>> : p \in P}
      BY DEF Init
    <2>3. \A p \in P : p \in Node \X Node /\ <<p[2], p[1]>> \in Node \X Node BY <2>1
    <2> QED BY <2>1, <2>2, <2>3
  <1>2. DOMAIN states = {} /\ DOMAIN books = {} BY DEF Init
  <1> QED BY <1>1, <1>2, NothingHolds, JournalNames DEF Init, Nothing

LEMMA LedgerDiesKeeps ==
    ASSUME Inv, LedgerDies
    PROVE  Inv'
  <1>1. live \subseteq Node /\ links \subseteq Node \X Node BY DEF Inv, ITyped, ILog
  <1>2. DOMAIN states' = {} /\ DOMAIN books' = {} BY DEF LedgerDies
  <1>3. last' \in Journal' BY JournalNames DEF LedgerDies, Journal, Public, Cmd
  <1>4. Nothing' BY <1>1, <1>2, <1>3 DEF LedgerDies, Nothing
  <1> QED BY <1>4, NothingLater

(* What is written while no ledger runs changes nothing for the next one.  *)
LEMMA QuietKeeps ==
    ASSUME Inv, st = "down", log' = <<>>, live' \subseteq Node, links' \subseteq Node \X Node,
           UNCHANGED <<asks, st, lvars, cvars>>
    PROVE  Inv'
  <1>1. Nothing BY DownIsNothing
  <1>2. last' \in Journal' BY <1>1 DEF Nothing, lvars, wvars, Journal, Public, Cmd
  <1>3. Nothing' BY <1>1, <1>2 DEF Nothing, lvars, rvars, bvars, wvars, cvars
  <1> QED BY <1>3, NothingLater

-----------------------------------------------------------------------------
(* The steps of the others, when a ledger runs. *)
LEMMA Runs ==
    ASSUME Inv, NEW F, Write(F), st # "down"
    PROVE  log' = log \o F /\ Up
  BY DEF Inv, ITyped, IType, Write, Up

(* Frames of applications that stay.                                       *)
LEMMA PlainIs ==
    ASSUME Inv, NEW F \in Seq(Entry), Write(F), st # "down",
           UNCHANGED <<live, st, lvars, cvars>>,
           \A k \in 1 .. Len(F) : Shape(F[k]) /\ Named(F[k]) \subseteq live,
           \A k \in 1 .. Len(F) :
             F[k].typ \notin {"Register", "Deregister", "RequestStart", "Location"},
           \A k \in 1 .. Len(F) : F[k].j = Cmd("ledger") => "ledger" \in live,
           \A k \in 1 .. Len(F) : F[k].typ = "Channel" => F[k].j = Public,
           \A k \in 1 .. Len(F) : F[k].typ = "Order" => F[k].j \in links,
           \A k \in 1 .. Len(F) : F[k].typ = "ReadFrom" =>
             /\ k + 1 \in 1 .. Len(F)
             /\ F[k + 1] = Frame(Public, "Channel", <<F[k].arg, F[k].j[2]>>),
           links' \subseteq Node \X Node,
           \A c \in links' : \/ c \in links
                             \/ \E k \in 1 .. Len(F) : F[k].typ = "Channel" /\ F[k].arg = c,
           asks' \in Seq(App), asks = <<>> => asks' = <<>>,
           \A k \in 1 .. Len(asks) :
             \/ asks[k] \notin live
             \/ \E l \in 1 .. Len(asks') : asks'[l] = asks[k]
             \/ \E l \in 1 .. Len(F) : F[l].typ = "WriteTo" /\ F[l].arg = asks[k]
    PROVE  Inv'
  <1>1. log' = log \o F /\ Up BY Runs
  <1>2. live' = live /\ live' \subseteq Node BY DEF Inv, ITyped, ILog
  <1>3. Flips(F) BY <1>2 DEF Flips
  <1>4. \A c \in links' :
          \/ /\ c \in links
             /\ \A k \in 1 .. Len(F) : ~(F[k].typ = "Deregister" /\ F[k].arg = c[1])
          \/ /\ \E k \in 1 .. Len(F) : F[k].typ = "Channel" /\ F[k].arg = c /\ F[k].j = Public
             /\ \A k \in 1 .. Len(F) : F[k].typ # "Deregister"
    OBVIOUS
  <1>5. Writes(F) BY <1>1, <1>2, <1>3, <1>4 DEF Writes
  <1>6. Plain(F) BY <1>2, <1>5 DEF Plain
  <1> QED BY <1>6, PlainKeeps

LEMMA EventWrites ==
    ASSUME NEW F, Event(F)
    PROVE  Write(F)
  BY DEF Event

LEMMA BrokerReportsKeeps ==
    ASSUME Inv, NEW b \in Broker, NEW s \in Report, BrokerReports(b, s)
    PROVE  Inv'
  <1>1. PICK F : F = << Frame(<<b, "all">>, "BrokerState", s) >> OBVIOUS
  <1>2. Write(F) /\ b \in live /\ UNCHANGED <<live, links, asks, st, lvars, cvars>>
    BY <1>1, EventWrites DEF BrokerReports
  <1>3. live \subseteq Node /\ links \subseteq Node \X Node /\ asks \in Seq(App) BY DEF Inv, ITyped, ILog
  <1>4. CASE st = "down" BY <1>2, <1>3, <1>4, QuietKeeps DEF Write
  <1>5. CASE st # "down"
    <2>1. b \in Node /\ <<b, "all">> \in Journal /\ <<b, "all">> # Cmd("ledger")
      BY JournalNames, Names
    <2>2. Len(F) = 1 /\ F[1] = [j |-> <<b, "all">>, typ |-> "BrokerState", arg |-> s]
      BY <1>1 DEF Frame
    <2>3. F \in Seq(Entry)
      <3>1. [j |-> <<b, "all">>, typ |-> "BrokerState", arg |-> s] \in Entry
        BY <2>1 DEF Entry, FrameType
      <3> QED BY <1>1, <3>1 DEF Frame
    <2>4. Shape(F[1]) /\ Named(F[1]) = {b} BY <2>2 DEF Shape, Named
    <2>5. \A k \in 1 .. Len(F) : k = 1 BY <2>2
    <2>6. /\ \A k \in 1 .. Len(F) : Shape(F[k]) /\ Named(F[k]) \subseteq live
          /\ \A k \in 1 .. Len(F) :
                F[k].typ \notin {"Register", "Deregister", "RequestStart", "Location"}
          /\ \A k \in 1 .. Len(F) : F[k].j = Cmd("ledger") => "ledger" \in live
          /\ \A k \in 1 .. Len(F) : F[k].typ = "Channel" => F[k].j = Public
          /\ \A k \in 1 .. Len(F) : F[k].typ = "Order" => F[k].j \in links
          /\ \A k \in 1 .. Len(F) : F[k].typ # "ReadFrom"
      BY <1>2, <2>1, <2>2, <2>4, <2>5
    <2>7. \A k \in 1 .. Len(asks) : \E l \in 1 .. Len(asks') : asks'[l] = asks[k] BY <1>2
    <2>8. asks' = asks /\ links' = links BY <1>2
    <2> QED BY <1>2, <1>3, <1>5, <2>3, <2>6, <2>7, <2>8, PlainIs
  <1> QED BY <1>4, <1>5

LEMMA TraderReportsKeeps ==
    ASSUME Inv, NEW t \in TD, NEW s \in Strategy, NEW o \in OrderId, NEW active \in BOOLEAN,
           TraderReports(t, s, o, active)
    PROVE  Inv'
  <1> DEFINE r == [id |-> o, active |-> active]
  <1>1. PICK F : F = << Frame(<<t, s>>, "Order", r) >> OBVIOUS
  <1>2. /\ Write(F) /\ t \in live /\ <<t, s>> \in links
        /\ UNCHANGED <<live, links, asks, st, lvars, cvars>>
    BY <1>1, EventWrites DEF TraderReports
  <1>3. live \subseteq Node /\ links \subseteq Node \X Node /\ asks \in Seq(App) BY DEF Inv, ITyped, ILog
  <1>4. CASE st = "down" BY <1>2, <1>3, <1>4, QuietKeeps DEF Write
  <1>5. CASE st # "down"
    <2>1. /\ t \in Node /\ s \in Node /\ <<t, s>> \in Journal /\ <<t, s>> # Cmd("ledger")
          /\ r \in [id : OrderId, active : BOOLEAN]
      BY JournalNames, Names
    <2>2. Len(F) = 1 /\ F[1] = [j |-> <<t, s>>, typ |-> "Order", arg |-> r]
      BY <1>1 DEF Frame
    <2>3. F \in Seq(Entry)
      <3>1. [j |-> <<t, s>>, typ |-> "Order", arg |-> r] \in Entry
        BY <2>1 DEF Entry, FrameType
      <3> QED BY <1>1, <3>1 DEF Frame
    <2>4. Shape(F[1]) /\ Named(F[1]) = {t} BY <2>1, <2>2 DEF Shape, Named
    <2>5. \A k \in 1 .. Len(F) : k = 1 BY <2>2
    <2> HIDE DEF r
    <2>6. /\ \A k \in 1 .. Len(F) : Shape(F[k]) /\ Named(F[k]) \subseteq live
          /\ \A k \in 1 .. Len(F) :
                F[k].typ \notin {"Register", "Deregister", "RequestStart", "Location"}
          /\ \A k \in 1 .. Len(F) : F[k].j = Cmd("ledger") => "ledger" \in live
          /\ \A k \in 1 .. Len(F) : F[k].typ = "Channel" => F[k].j = Public
          /\ \A k \in 1 .. Len(F) : F[k].typ = "Order" => F[k].j \in links
          /\ \A k \in 1 .. Len(F) : F[k].typ # "ReadFrom"
      BY <1>2, <2>1, <2>2, <2>4, <2>5
    <2>7. \A k \in 1 .. Len(asks) : \E l \in 1 .. Len(asks') : asks'[l] = asks[k] BY <1>2
    <2>8. asks' = asks /\ links' = links BY <1>2
    <2> QED BY <1>2, <1>3, <1>5, <2>3, <2>6, <2>7, <2>8, PlainIs
  <1> QED BY <1>4, <1>5

LEMMA Tuples ==
    ASSUME NEW S, NEW a \in S, NEW b \in S, NEW c \in S, NEW d \in S
    PROVE  /\ << >> \o <<a, b>> = <<a, b>>
           /\ <<a>> \in Seq(S) /\ Len(<<a>>) = 1 /\ <<a>>[1] = a
           /\ <<a, b>> \in Seq(S) /\ Len(<<a, b>>) = 2 /\ <<a, b>>[1] = a /\ <<a, b>>[2] = b
  OBVIOUS

LEMMA Triple ==
    ASSUME NEW S, NEW a \in S, NEW b \in S, NEW c \in S, NEW s, s = <<a>> \o <<b, c>>
    PROVE  s \in Seq(S) /\ Len(s) = 3 /\ s[1] = a /\ s[2] = b /\ s[3] = c
  <1> DEFINE t == <<a>>   u == <<b, c>>
  <1>1. /\ t \in Seq(S) /\ Len(t) = 1 /\ t[1] = a
        /\ u \in Seq(S) /\ Len(u) = 2 /\ u[1] = b /\ u[2] = c
    BY Tuples
  <1>2. s = t \o u OBVIOUS
  <1> HIDE DEF t, u
  <1>3. /\ s \in Seq(S) /\ Len(s) = Len(t) + Len(u)
        /\ \A k \in 1 .. Len(t) : s[k] = t[k]
        /\ \A k \in 1 .. Len(u) : s[Len(t) + k] = u[k]
    BY <1>1, <1>2, Concat
  <1>4. 1 \in 1 .. Len(t) /\ 1 \in 1 .. Len(u) /\ 2 \in 1 .. Len(u)
        /\ Len(t) + 1 = 2 /\ Len(t) + 2 = 3
    BY <1>1
  <1> QED BY <1>1, <1>3, <1>4

LEMMA Quadruple ==
    ASSUME NEW S, NEW a \in S, NEW b \in S, NEW c \in S, NEW d \in S,
           NEW s, s = <<a, b>> \o <<c, d>>
    PROVE  s \in Seq(S) /\ Len(s) = 4 /\ s[1] = a /\ s[2] = b /\ s[3] = c /\ s[4] = d
  <1> DEFINE t == <<a, b>>   u == <<c, d>>
  <1>1. /\ t \in Seq(S) /\ Len(t) = 2 /\ t[1] = a /\ t[2] = b
        /\ u \in Seq(S) /\ Len(u) = 2 /\ u[1] = c /\ u[2] = d
    BY Tuples
  <1>2. s = t \o u OBVIOUS
  <1> HIDE DEF t, u
  <1>3. /\ s \in Seq(S) /\ Len(s) = Len(t) + Len(u)
        /\ \A k \in 1 .. Len(t) : s[k] = t[k]
        /\ \A k \in 1 .. Len(u) : s[Len(t) + k] = u[k]
    BY <1>1, <1>2, Concat
  <1>4. 1 \in 1 .. Len(t) /\ 2 \in 1 .. Len(t) /\ 1 \in 1 .. Len(u) /\ 2 \in 1 .. Len(u)
        /\ Len(t) + 1 = 3 /\ Len(t) + 2 = 4
    BY <1>1
  <1> QED BY <1>1, <1>3, <1>4

LEMMA Quintuple ==
    ASSUME NEW S, NEW a \in S, NEW b \in S, NEW c \in S, NEW d \in S, NEW e \in S,
           NEW u, u = <<c>> \o <<d, e>>, NEW s, s = <<a, b>> \o u
    PROVE  s \in Seq(S) /\ Len(s) = 5 /\ s[1] = a /\ s[2] = b /\ s[3] = c /\ s[4] = d /\ s[5] = e
  <1> DEFINE t == <<a, b>>
  <1>1. t \in Seq(S) /\ Len(t) = 2 /\ t[1] = a /\ t[2] = b BY Tuples
  <1>2. u \in Seq(S) /\ Len(u) = 3 /\ u[1] = c /\ u[2] = d /\ u[3] = e BY Triple
  <1>3. s = t \o u OBVIOUS
  <1> HIDE DEF t
  <1>4. /\ s \in Seq(S) /\ Len(s) = Len(t) + Len(u)
        /\ \A k \in 1 .. Len(t) : s[k] = t[k]
        /\ \A k \in 1 .. Len(u) : s[Len(t) + k] = u[k]
    BY <1>1, <1>2, <1>3, Concat
  <1>5. 1 \in 1 .. Len(t) /\ 2 \in 1 .. Len(t)
        /\ 1 \in 1 .. Len(u) /\ 2 \in 1 .. Len(u) /\ 3 \in 1 .. Len(u)
        /\ Len(t) + 1 = 3 /\ Len(t) + 2 = 4 /\ Len(t) + 3 = 5
    BY <1>1, <1>2
  <1> QED BY <1>1, <1>2, <1>4, <1>5

LEMMA Sextuple ==
    ASSUME NEW S, NEW a \in S, NEW b \in S, NEW c \in S, NEW d \in S, NEW e \in S, NEW f \in S,
           NEW u, u = <<c>> \o <<d, e>>, NEW v, v = <<a, b>> \o u, NEW s, s = v \o <<f>>
    PROVE  /\ s \in Seq(S) /\ Len(s) = 6
           /\ s[1] = a /\ s[2] = b /\ s[3] = c /\ s[4] = d /\ s[5] = e /\ s[6] = f
  <1> DEFINE w == <<f>>
  <1>1. w \in Seq(S) /\ Len(w) = 1 /\ w[1] = f BY Tuples
  <1>2. /\ v \in Seq(S) /\ Len(v) = 5
        /\ v[1] = a /\ v[2] = b /\ v[3] = c /\ v[4] = d /\ v[5] = e
    BY Quintuple
  <1>3. s = v \o w OBVIOUS
  <1> HIDE DEF w
  <1>4. /\ s \in Seq(S) /\ Len(s) = Len(v) + Len(w)
        /\ \A k \in 1 .. Len(v) : s[k] = v[k]
        /\ \A k \in 1 .. Len(w) : s[Len(v) + k] = w[k]
    BY <1>1, <1>2, <1>3, Concat
  <1>5. /\ 1 \in 1 .. Len(v) /\ 2 \in 1 .. Len(v) /\ 3 \in 1 .. Len(v) /\ 4 \in 1 .. Len(v)
        /\ 5 \in 1 .. Len(v) /\ 1 \in 1 .. Len(w) /\ Len(v) + 1 = 6
    BY <1>1, <1>2
  <1> QED BY <1>1, <1>2, <1>4, <1>5

(* The frames of a connection, one by one. *)
LEMMA ConnectFrames ==
    ASSUME NEW a \in Node, NEW b \in Node
    PROVE  /\ Frame(Cmd(b), "ReadFrom", a) \in Entry /\ Shape(Frame(Cmd(b), "ReadFrom", a))
           /\ Named(Frame(Cmd(b), "ReadFrom", a)) = {a, b}
           /\ Frame(Public, "Channel", <<a, b>>) \in Entry
           /\ Shape(Frame(Public, "Channel", <<a, b>>))
           /\ Named(Frame(Public, "Channel", <<a, b>>)) = {}
           /\ Frame(Cmd(b), "ReadFrom", a).arg = a /\ Frame(Cmd(b), "ReadFrom", a).j[2] = b
  <1>1. Cmd(b) \in Journal /\ Public \in Journal BY JournalNames
  <1>2. Frame(Cmd(b), "ReadFrom", a) \in Entry /\ Frame(Public, "Channel", <<a, b>>) \in Entry
    BY <1>1 DEF Frame, Entry, FrameType
  <1>3. Shape(Frame(Cmd(b), "ReadFrom", a)) BY DEF Frame, Shape
  <1>4. Shape(Frame(Public, "Channel", <<a, b>>)) BY DEF Frame, Shape, Public, Cmd
  <1>5. /\ Named(Frame(Cmd(b), "ReadFrom", a)) = {a, b}
        /\ Named(Frame(Public, "Channel", <<a, b>>)) = {}
    BY DEF Frame, Named, Cmd
  <1> QED BY <1>2, <1>3, <1>4, <1>5 DEF Frame, Cmd

LEMMA GrantFrame ==
    ASSUME NEW a \in App
    PROVE  /\ Frame(Cmd("ledger"), "WriteTo", a) \in Entry
           /\ Shape(Frame(Cmd("ledger"), "WriteTo", a))
           /\ Named(Frame(Cmd("ledger"), "WriteTo", a)) = {a}
  <1>1. "ledger" \in Node /\ a \in Node /\ a # "master" BY Names
  <1>2. Cmd("ledger") \in Journal BY <1>1, JournalNames
  <1> QED BY <1>1, <1>2 DEF Frame, Entry, FrameType, Shape, Named

LEMMA AddAccountKeeps ==
    ASSUME Inv, NEW s \in Strategy, NEW t \in TD, AddAccount(s, t)
    PROVE  Inv'
  <1>0. s \in Node /\ t \in Node /\ s # "ledger" /\ t # "ledger" BY Names
  <1>1. PICK F : F = Connected(s, t) \o Connected(t, s) OBVIOUS
  <1>2. /\ Write(F) /\ {s, t} \subseteq live /\ links' = links \cup {<<s, t>>, <<t, s>>}
        /\ UNCHANGED <<live, asks, st, lvars, cvars>>
    BY <1>1, EventWrites DEF AddAccount
  <1>3. live \subseteq Node /\ links' \subseteq Node \X Node /\ asks \in Seq(App)
    BY <1>0, <1>2 DEF Inv, ITyped, ILog
  <1>4. CASE st = "down" BY <1>2, <1>3, <1>4, QuietKeeps DEF Write
  <1>5. CASE st # "down"
    <2> DEFINE f1 == Frame(Cmd(t), "ReadFrom", s)   f2 == Frame(Public, "Channel", <<s, t>>)
               f3 == Frame(Cmd(s), "ReadFrom", t)   f4 == Frame(Public, "Channel", <<t, s>>)
    <2>1. F = <<f1, f2>> \o <<f3, f4>>
      <3>1. << >> \o <<f1, f2>> = <<f1, f2>> /\ << >> \o <<f3, f4>> = <<f3, f4>> BY Tuples
      <3> QED BY <1>0, <1>1, <3>1 DEF Connected, Own
    <2>2. /\ {f1, f2, f3, f4} \subseteq Entry
          /\ Shape(f1) /\ Shape(f2) /\ Shape(f3) /\ Shape(f4)
          /\ Named(f1) = {s, t} /\ Named(f2) = {} /\ Named(f3) = {t, s} /\ Named(f4) = {}
          /\ f1.arg = s /\ f1.j[2] = t /\ f3.arg = t /\ f3.j[2] = s
      BY <1>0, ConnectFrames
    <2>3. /\ f1.typ = "ReadFrom" /\ f2.typ = "Channel" /\ f3.typ = "ReadFrom" /\ f4.typ = "Channel"
          /\ f2.j = Public /\ f4.j = Public /\ f2.arg = <<s, t>> /\ f4.arg = <<t, s>>
          /\ f1.j = Cmd(t) /\ f3.j = Cmd(s)
      BY DEF Frame
    <2>4. f1.j # Cmd("ledger") /\ f3.j # Cmd("ledger") /\ Public # Cmd("ledger")
      BY <1>0, <2>3, JournalNames, Names
    <2>5. /\ f2 = Frame(Public, "Channel", <<f1.arg, f1.j[2]>>)
          /\ f4 = Frame(Public, "Channel", <<f3.arg, f3.j[2]>>)
      BY <2>2
    <2> HIDE DEF f1, f2, f3, f4
    <2>6. F \in Seq(Entry) /\ Len(F) = 4 /\ F[1] = f1 /\ F[2] = f2 /\ F[3] = f3 /\ F[4] = f4
      BY <2>1, <2>2, Quadruple
    <2>7. \A k \in 1 .. Len(F) : k \in {1, 2, 3, 4} BY <2>6
    <2>8. /\ \A k \in 1 .. Len(F) : Shape(F[k]) /\ Named(F[k]) \subseteq live
          /\ \A k \in 1 .. Len(F) :
                F[k].typ \notin {"Register", "Deregister", "RequestStart", "Location"}
          /\ \A k \in 1 .. Len(F) : F[k].j = Cmd("ledger") => "ledger" \in live
          /\ \A k \in 1 .. Len(F) : F[k].typ = "Channel" => F[k].j = Public
          /\ \A k \in 1 .. Len(F) : F[k].typ = "Order" => F[k].j \in links
      BY <1>2, <2>2, <2>3, <2>4, <2>6, <2>7
    <2>9. \A k \in 1 .. Len(F) : F[k].typ = "ReadFrom" =>
             /\ k + 1 \in 1 .. Len(F)
             /\ F[k + 1] = Frame(Public, "Channel", <<F[k].arg, F[k].j[2]>>)
      <3>1. /\ 1 + 1 = 2 /\ 3 + 1 = 4 /\ 2 \in 1 .. Len(F) /\ 4 \in 1 .. Len(F) BY <2>6
      <3> QED BY <2>3, <2>5, <2>6, <2>7, <3>1
    <2>10. \A c \in links' : \/ c \in links
                             \/ \E k \in 1 .. Len(F) : F[k].typ = "Channel" /\ F[k].arg = c
      <3>1. 2 \in 1 .. Len(F) /\ 4 \in 1 .. Len(F) BY <2>6
      <3> QED BY <1>2, <2>3, <2>6, <3>1
    <2>11. asks' = asks /\ \A k \in 1 .. Len(asks) : \E l \in 1 .. Len(asks') : asks'[l] = asks[k]
      BY <1>2
    <2>12. UNCHANGED <<live, st, lvars, cvars>> BY <1>2
    <2> QED BY <1>2, <1>3, <1>5, <2>6, <2>8, <2>9, <2>10, <2>11, <2>12, PlainIs
  <1> QED BY <1>4, <1>5

LEMMA AskAssetKeeps ==
    ASSUME Inv, NEW s \in Strategy, NEW t \in TD, AskAsset(s, t)
    PROVE  Inv'
  <1>0. s \in Node /\ s \in App /\ t \in Node /\ s # "ledger" /\ "ledger" \in Node BY Names
  <1>1. PICK F : F = Connected(s, "ledger") \o Connected("ledger", s)
                       \o << Frame(<<s, "ledger">>, "QryAsset", t) >> OBVIOUS
  <1>2. /\ Write(F) /\ {s, "ledger"} \subseteq live
        /\ links' = links \cup {<<s, "ledger">>, <<"ledger", s>>}
        /\ UNCHANGED <<live, asks, st, lvars, cvars>>
    BY <1>1, EventWrites DEF AskAsset
  <1>3. live \subseteq Node /\ links' \subseteq Node \X Node /\ asks \in Seq(App)
    BY <1>0, <1>2 DEF Inv, ITyped, ILog
  <1>4. CASE st = "down" BY <1>2, <1>3, <1>4, QuietKeeps DEF Write
  <1>5. CASE st # "down"
    <2> DEFINE f1 == Frame(Cmd("ledger"), "ReadFrom", s)
               f2 == Frame(Public, "Channel", <<s, "ledger">>)
               f3 == Frame(Cmd("ledger"), "WriteTo", s)
               f4 == Frame(Cmd(s), "ReadFrom", "ledger")
               f5 == Frame(Public, "Channel", <<"ledger", s>>)
               f6 == Frame(<<s, "ledger">>, "QryAsset", t)
    <2>1. PICK u, v : u = <<f3>> \o <<f4, f5>> /\ v = <<f1, f2>> \o u /\ F = v \o <<f6>>
      <3>1. << >> \o <<f1, f2>> = <<f1, f2>> BY Tuples
      <3> QED BY <1>0, <1>1, <3>1 DEF Connected, Own
    <2>2. /\ {f1, f2, f3, f4, f5} \subseteq Entry
          /\ Shape(f1) /\ Shape(f2) /\ Shape(f3) /\ Shape(f4) /\ Shape(f5)
          /\ Named(f1) = {s, "ledger"} /\ Named(f2) = {} /\ Named(f3) = {s}
          /\ Named(f4) = {"ledger", s} /\ Named(f5) = {}
          /\ f1.arg = s /\ f1.j[2] = "ledger" /\ f4.arg = "ledger" /\ f4.j[2] = s
      BY <1>0, ConnectFrames, GrantFrame
    <2>3. /\ f1.typ = "ReadFrom" /\ f2.typ = "Channel" /\ f3.typ = "WriteTo"
          /\ f4.typ = "ReadFrom" /\ f5.typ = "Channel" /\ f6.typ = "QryAsset"
          /\ f2.j = Public /\ f5.j = Public /\ f2.arg = <<s, "ledger">> /\ f5.arg = <<"ledger", s>>
      BY DEF Frame
    <2>4. f6 \in Entry /\ Shape(f6) /\ Named(f6) = {}
      <3>1. <<s, "ledger">> \in Journal BY <1>0, JournalNames
      <3> QED BY <1>0, <3>1 DEF Frame, Entry, FrameType, Shape, Named
    <2>5. /\ f2 = Frame(Public, "Channel", <<f1.arg, f1.j[2]>>)
          /\ f5 = Frame(Public, "Channel", <<f4.arg, f4.j[2]>>)
      BY <2>2
    <2> HIDE DEF f1, f2, f3, f4, f5, f6
    <2>6. /\ F \in Seq(Entry) /\ Len(F) = 6 /\ F[1] = f1 /\ F[2] = f2 /\ F[3] = f3
          /\ F[4] = f4 /\ F[5] = f5 /\ F[6] = f6
      BY <2>1, <2>2, <2>4, Sextuple
    <2>7. \A k \in 1 .. Len(F) : k \in {1, 2, 3, 4, 5, 6} BY <2>6
    <2>8. /\ \A k \in 1 .. Len(F) : Shape(F[k]) /\ Named(F[k]) \subseteq live
          /\ \A k \in 1 .. Len(F) :
                F[k].typ \notin {"Register", "Deregister", "RequestStart", "Location"}
          /\ \A k \in 1 .. Len(F) : F[k].j = Cmd("ledger") => "ledger" \in live
          /\ \A k \in 1 .. Len(F) : F[k].typ = "Channel" => F[k].j = Public
          /\ \A k \in 1 .. Len(F) : F[k].typ = "Order" => F[k].j \in links
      BY <1>2, <2>2, <2>3, <2>4, <2>6, <2>7
    <2>9. \A k \in 1 .. Len(F) : F[k].typ = "ReadFrom" =>
             /\ k + 1 \in 1 .. Len(F)
             /\ F[k + 1] = Frame(Public, "Channel", <<F[k].arg, F[k].j[2]>>)
      <3>1. /\ 1 + 1 = 2 /\ 4 + 1 = 5 /\ 2 \in 1 .. Len(F) /\ 5 \in 1 .. Len(F) BY <2>6
      <3> QED BY <2>3, <2>5, <2>6, <2>7, <3>1
    <2>10. \A c \in links' : \/ c \in links
                             \/ \E k \in 1 .. Len(F) : F[k].typ = "Channel" /\ F[k].arg = c
      <3>1. 2 \in 1 .. Len(F) /\ 5 \in 1 .. Len(F) BY <2>6
      <3> QED BY <1>2, <2>3, <2>6, <3>1
    <2>11. asks' = asks /\ \A k \in 1 .. Len(asks) : \E l \in 1 .. Len(asks') : asks'[l] = asks[k]
      BY <1>2
    <2>12. UNCHANGED <<live, st, lvars, cvars>> BY <1>2
    <2> QED BY <1>2, <1>3, <1>5, <2>6, <2>8, <2>9, <2>10, <2>11, <2>12, PlainIs
  <1> QED BY <1>4, <1>5

(* The master grants a writer, or the location asked for is gone. *)
LEMMA GrantWriterWrites ==
    ASSUME Inv, asks # <<>>, "ledger" \in live, asks' = Tail(asks), Head(asks) \in live,
           links' = links \cup {<<"ledger", Head(asks)>>},
           Write(Connected("ledger", Head(asks))),
           UNCHANGED <<live, st, lvars, cvars>>
    PROVE  Inv'
  <1>1. live \subseteq Node /\ links \subseteq Node \X Node /\ asks \in Seq(App) BY DEF Inv, ITyped, ILog
  <1> PICK a : a = Head(asks) OBVIOUS
  <1>2. /\ a \in App /\ a \in live /\ asks' \in Seq(App)
        /\ Len(asks) >= 1 /\ a = asks[1] /\ Len(asks) \in Nat /\ Len(asks') = Len(asks) - 1
        /\ \A k \in 1 .. Len(asks') : k + 1 \in 1 .. Len(asks) /\ asks'[k] = asks[k + 1]
    BY <1>1, TailElements
  <1>3. a \in Node /\ a # "ledger" /\ "ledger" \in Node BY <1>2, Names
  <1>4. st # "down" BY DEF Inv, LInv, IDown
  <1> DEFINE f1 == Frame(Cmd("ledger"), "WriteTo", a)   f2 == Frame(Cmd(a), "ReadFrom", "ledger")
             f3 == Frame(Public, "Channel", <<"ledger", a>>)
  <1>5. PICK F : F = <<f1>> \o <<f2, f3>> OBVIOUS
  <1>6. Write(F) BY <1>5 DEF Connected, Own
  <1>7. /\ {f1, f2, f3} \subseteq Entry /\ Shape(f1) /\ Shape(f2) /\ Shape(f3)
        /\ Named(f1) = {a} /\ Named(f2) = {"ledger", a} /\ Named(f3) = {}
        /\ f2.arg = "ledger" /\ f2.j[2] = a
    BY <1>2, <1>3, ConnectFrames, GrantFrame
  <1>8. /\ f1.typ = "WriteTo" /\ f1.arg = a /\ f2.typ = "ReadFrom"
        /\ f3.typ = "Channel" /\ f3.j = Public /\ f3.arg = <<"ledger", a>>
        /\ f3 = Frame(Public, "Channel", <<f2.arg, f2.j[2]>>)
    BY <1>7 DEF Frame
  <1> HIDE DEF f1, f2, f3
  <1>9. F \in Seq(Entry) /\ Len(F) = 3 /\ F[1] = f1 /\ F[2] = f2 /\ F[3] = f3
    BY <1>5, <1>7, Triple
  <1>10. /\ \A k \in 1 .. Len(F) : k \in {1, 2, 3}
         /\ 1 \in 1 .. Len(F) /\ 3 \in 1 .. Len(F) /\ 2 + 1 = 3
    BY <1>9
  <1>11. /\ \A k \in 1 .. Len(F) : Shape(F[k]) /\ Named(F[k]) \subseteq live
         /\ \A k \in 1 .. Len(F) :
               F[k].typ \notin {"Register", "Deregister", "RequestStart", "Location"}
         /\ \A k \in 1 .. Len(F) : F[k].j = Cmd("ledger") => "ledger" \in live
         /\ \A k \in 1 .. Len(F) : F[k].typ = "Channel" => F[k].j = Public
         /\ \A k \in 1 .. Len(F) : F[k].typ = "Order" => F[k].j \in links
    BY <1>2, <1>7, <1>8, <1>9, <1>10
  <1>12. \A k \in 1 .. Len(F) : F[k].typ = "ReadFrom" =>
             /\ k + 1 \in 1 .. Len(F)
             /\ F[k + 1] = Frame(Public, "Channel", <<F[k].arg, F[k].j[2]>>)
    BY <1>8, <1>9, <1>10
  <1>13. \A c \in links' : \/ c \in links
                           \/ \E k \in 1 .. Len(F) : F[k].typ = "Channel" /\ F[k].arg = c
    BY <1>8, <1>9, <1>10
  <1>14. links' \subseteq Node \X Node BY <1>1, <1>3
  <1>15. ASSUME NEW k \in 1 .. Len(asks)
         PROVE  \/ \E l \in 1 .. Len(asks') : asks'[l] = asks[k]
                \/ \E l \in 1 .. Len(F) : F[l].typ = "WriteTo" /\ F[l].arg = asks[k]
    <2>1. CASE k = 1 BY <1>2, <1>8, <1>9, <1>10, <2>1
    <2>2. CASE k # 1
      <3>1. k - 1 \in 1 .. Len(asks') /\ (k - 1) + 1 = k BY <1>2, <2>2
      <3>2. asks'[k - 1] = asks[k] BY <1>2, <3>1
      <3> QED BY <3>1, <3>2
    <2> QED BY <2>1, <2>2
  <1> QED BY <1>2, <1>4, <1>6, <1>9, <1>11, <1>12, <1>13, <1>14, <1>15, PlainIs

(* The log stays as it is. *)
LEMMA LogStays ==
    ASSUME live' = live, links' = links, log' = log
    PROVE  /\ Now' = Now
           /\ \A k, x : /\ Registers(k, x)' <=> Registers(k, x)
                        /\ Deregisters(k, x)' <=> Deregisters(k, x)
                        /\ Locates(k, x)' <=> Locates(k, x)
                        /\ Grants(k, x)' <=> Grants(k, x)
                        /\ Links(k, x)' <=> Links(k, x)
                        /\ Reports(k, x)' <=> Reports(k, x)
                        /\ Alive(k, x)' <=> Alive(k, x)
                        /\ Linked(k, x)' <=> Linked(k, x)
                        /\ Welcomed(k, x)' <=> Welcomed(k, x)
           /\ \A k : Starts(k)' <=> Starts(k)
  <1>1. Now' = Now BY DEF Now
  <1>2. \A k, x : /\ Registers(k, x)' <=> Registers(k, x)
                  /\ Deregisters(k, x)' <=> Deregisters(k, x)
    BY DEF Registers, Deregisters
  <1>3. \A k, x : Locates(k, x)' <=> Locates(k, x) BY DEF Locates, Cmd
  <1>4. \A k, x : Grants(k, x)' <=> Grants(k, x) BY DEF Grants
  <1>5. \A k, x : Links(k, x)' <=> Links(k, x) BY DEF Links, Public, Cmd
  <1>6. \A k, x : Reports(k, x)' <=> Reports(k, x) BY DEF Reports
  <1>7. \A k : Starts(k)' <=> Starts(k) BY DEF Starts
  <1>8. \A k, x : Comes(k, x)' <=> Comes(k, x) BY <1>2 DEF Comes
  <1>9. \A k, x : Alive(k, x)' <=> Alive(k, x) BY <1>1, <1>2, <1>8 DEF Alive
  <1>10. \A k, x : Linked(k, x)' <=> Linked(k, x) BY <1>2, <1>5 DEF Linked
  <1>11. ASSUME NEW r, NEW s PROVE Welcomed(r, s)' <=> Welcomed(r, s)
    <2>1. (\E k \in r + 1 .. s - 1 : Grants(k, "master")') <=> (\E k \in r + 1 .. s - 1 : Grants(k, "master"))
      BY <1>4
    <2>2. (\A x \in Node : Alive(r, x)' => \E k \in r + 1 .. s - 1 : Locates(k, x)')
            <=> (\A x \in Node : Alive(r, x) => \E k \in r + 1 .. s - 1 : Locates(k, x))
      BY <1>3, <1>9
    <2>3. (Registers(r, "ledger") /\ \A k \in 1 .. r - 1 : ~Registers(k, "ledger"))'
            <=> (Registers(r, "ledger") /\ \A k \in 1 .. r - 1 : ~Registers(k, "ledger"))
      BY <1>2
    <2>4. (\A k \in 1 .. Now' : Starts(k)' <=> k = s) <=> (\A k \in 1 .. Now : Starts(k) <=> k = s)
      BY <1>1, <1>7
    <2> QED BY <1>1, <2>1, <2>2, <2>3, <2>4 DEF Welcomed, Cmd
  <1> QED BY <1>1, <1>2, <1>3, <1>4, <1>5, <1>6, <1>7, <1>9, <1>10, <1>11

LEMMA LogTyped ==
    ASSUME ILog, PairsTold, live' = live, links' = links, log' = log, asks' \in Seq(App)
    PROVE  ILog' /\ PairsTold'
  <1>1. Now' = Now BY DEF Now
  <1>2. ILog' BY <1>1 DEF ILog
  <1>3. PairsTold' BY <1>1, LogStays DEF PairsTold
  <1> QED BY <1>2, <1>3

(* Nothing the ledger has, and nothing it reads, changes.                  *)
LEMMA GrantWriterSkips ==
    ASSUME LInv, asks # <<>>, asks' = Tail(asks), Head(asks) \notin live,
           UNCHANGED <<live, links, log, st, lvars, cvars>>
    PROVE  LInv'
  <1>1. asks \in Seq(App) BY DEF LInv, ILog
  <1>2. /\ asks' \in Seq(App) /\ Head(asks) = asks[1]
        /\ Len(asks) \in Nat /\ Len(asks) >= 1 /\ Len(asks') = Len(asks) - 1
        /\ \A k \in 1 .. Len(asks') : k + 1 \in 1 .. Len(asks) /\ asks'[k] = asks[k + 1]
    BY <1>1, TailElements
  <1>3. /\ st # "down" /\ st # "waiting" BY DEF LInv, IDown, IWait
  <1>4. /\ st' = st /\ begun' = begun /\ cur' = cur /\ known' = known /\ channels' = channels
        /\ writers' = writers /\ states' = states /\ books' = books /\ since' = since
        /\ subs' = subs /\ added' = added /\ seen' = seen /\ informed' = informed
        /\ live' = live /\ links' = links /\ log' = log
    BY DEF lvars, rvars, bvars, cvars
  <1>5. Now' = Now /\ Unread' = Unread /\ (Up <=> Up')
    BY <1>4 DEF Now, Unread, Up
  <1>6. ILog' BY <1>2, <1>4, <1>5 DEF LInv, ILog
  <1>7. INamed' /\ IBack' BY <1>4, <1>5 DEF LInv, INamed, IBack, Alive, Comes, Registers, Deregisters
  <1>8. PairsTold' /\ LinksOK'
    BY <1>4, <1>5 DEF LInv, PairsTold, LinksOK, Linked, Links, Starts, Registers, Deregisters
  <1>9. IDown' /\ IType' /\ IClient' /\ Survives'
    BY <1>3, <1>4, <1>5 DEF LInv, IDown, IType, IClient, Informed, Survives
  <1>10. ICur' BY <1>4, <1>5 DEF LInv, ICur, Links, Deregisters
  <1>11. IWait' BY <1>3, <1>4 DEF IWait
  <1>12. IJoined' /\ IPlace'
    <2>1. IJoined'
      <3>1. ASSUME NEW a, NEW b, Joined(a, b) PROVE Joined(a, b)'
        <4>1. Welcomed(a, b)' <=> Welcomed(a, b) BY <1>4, LogStays
        <4>2. /\ \A x : Alive(a, x)' <=> Alive(a, x)
              /\ \A k, x : Locates(k, x)' <=> Locates(k, x)
              /\ \A k, x : Grants(k, x)' <=> Grants(k, x)
          BY <1>4, LogStays
        <4> QED BY <1>4, <3>1, <4>1, <4>2 DEF Joined
      <3> QED BY <1>4, <1>5, <3>1 DEF LInv, IJoined
    <2>2. IPlace' BY <1>4, <1>5, LogStays DEF LInv, IPlace
    <2> QED BY <2>1, <2>2
  <1>13. IStates'
    <2>1. \A b : Said(b)' = Said(b) BY <1>4, LogStays DEF Said
    <2> QED BY <1>4, <2>1 DEF LInv, IStates
  <1>14. IBooks' BY <1>4, <1>5 DEF LInv, IBooks, Entered, Passed, Reports
  <1>15. IReach'
    <2> SUFFICES ASSUME st = "joined" \/ st = "started", NEW a \in live \cap App PROVE Reaches(a)'
      BY <1>3, <1>4 DEF IReach
    <2>1. Reaches(a) BY DEF LInv, IReach
    <2>2. ASSUME NEW k \in 1 .. Len(asks), asks[k] = a
          PROVE  \E l \in 1 .. Len(asks') : asks'[l] = a
      <3>1. k # 1 BY <1>2, <2>2
      <3>2. k - 1 \in 1 .. Len(asks') /\ (k - 1) + 1 = k BY <1>2, <3>1
      <3>3. asks'[k - 1] = asks[k] BY <1>2, <3>2
      <3> QED BY <2>2, <3>2, <3>3
    <2> QED BY <1>4, <1>5, <2>1, <2>2 DEF Reaches, Registers, Grants, Locates
  <1> QED BY <1>6, <1>7, <1>8, <1>9, <1>10, <1>11, <1>12, <1>13, <1>14, <1>15 DEF LInv

LEMMA GrantWriterKeeps ==
    ASSUME Inv, GrantWriter
    PROVE  Inv'
  <1>1. CASE Head(asks) \in live BY <1>1, GrantWriterWrites DEF GrantWriter
  <1>2. CASE Head(asks) \notin live
    <2>1. /\ asks # <<>> /\ asks' = Tail(asks)
          /\ UNCHANGED <<live, links, log, st, lvars, cvars>>
      BY <1>2 DEF GrantWriter
    <2>2. overtook = 0 => LInv' BY <1>2, <2>1, GrantWriterSkips DEF Inv
    <2>3. asks' \in Seq(App)
      <3>1. asks \in Seq(App) BY DEF Inv, ITyped, ILog
      <3> QED BY <2>1, <3>1, TailElements
    <2>4. ILog' /\ PairsTold' BY <2>1, <2>3, LogTyped DEF Inv, ITyped
    <2>5. IType' /\ IClient'
      <3>1. Now' = Now BY <2>1 DEF Now
      <3> QED BY <2>1, <3>1 DEF Inv, ITyped, IType, IClient, Informed, lvars, rvars, bvars, cvars
    <2> QED BY <2>1, <2>2, <2>4, <2>5, Lasts DEF ITyped, lvars, wvars
  <1> QED BY <1>1, <1>2

(* An application goes. *)
LEMMA DownKeeps ==
    ASSUME Inv, NEW a \in Node, Down(a)
    PROVE  Inv'
  <1>1. PICK F : F = << Frame(Public, "Deregister", a) >> OBVIOUS
  <1>2. /\ a \in live /\ (a = "ledger" => st = "down")
        /\ live' = live \ {a} /\ links' = {c \in links : c[1] # a} /\ Write(F)
        /\ UNCHANGED <<asks, st, lvars, cvars>>
    BY <1>1, EventWrites DEF Down
  <1>3. live' \subseteq Node /\ links' \subseteq Node \X Node /\ asks \in Seq(App)
    BY <1>2 DEF Inv, ITyped, ILog
  <1>4. CASE st = "down" BY <1>2, <1>3, <1>4, QuietKeeps DEF Write
  <1>5. CASE st # "down"
    <2>1. log' = log \o F /\ Up BY <1>2, <1>5, Runs
    <2>2. a \in App /\ Public \in Journal /\ Public # Cmd("ledger")
      BY <1>2, <1>5, JournalNames, Names DEF Node
    <2>3. Len(F) = 1 /\ F[1] = [j |-> Public, typ |-> "Deregister", arg |-> a]
      BY <1>1 DEF Frame
    <2>4. F \in Seq(Entry)
      <3>1. [j |-> Public, typ |-> "Deregister", arg |-> a] \in Entry
        BY <2>2, Names DEF Entry, FrameType
      <3> QED BY <1>1, <3>1 DEF Frame
    <2>5. Shape(F[1]) /\ Named(F[1]) = {} BY <2>2, <2>3 DEF Shape, Named
    <2>6. \A k \in 1 .. Len(F) : k = 1 BY <2>3
    <2>7. Flips(F) BY <1>2, <2>2, <2>3 DEF Flips
    <2>8. /\ \A k \in 1 .. Len(F) : Shape(F[k]) /\ Named(F[k]) \subseteq live'
          /\ \A k \in 1 .. Len(F) : F[k].typ = "Deregister" /\ F[k].arg = a /\ F[k].j = Public
      BY <2>3, <2>5, <2>6
    <2>9. \A c \in links' : c \in links /\ c[1] # a BY <1>2
    <2>10. Writes(F) BY <1>2, <1>3, <2>1, <2>4, <2>7, <2>8, <2>9 DEF Writes
    <2>11. Plain(F)
      <3>1. a # "ledger" BY <1>2, <1>5
      <3> QED BY <1>2, <2>2, <2>8, <2>10, <3>1 DEF Plain
    <2> QED BY <2>11, PlainKeeps
  <1> QED BY <1>4, <1>5

(* What the master tells of its locations and of its channels.             *)
Locations(a, L) == [i \in 1 .. Len(L) |-> Frame(Cmd(a), "Location", L[i])]
Channels(a, C)  == [i \in 1 .. Len(C) |-> Frame(Cmd(a), "Channel", C[i])]

LEMMA FunctionSeq ==
    ASSUME NEW S, NEW n \in Nat, NEW f \in [1 .. n -> S]
    PROVE  f \in Seq(S) /\ Len(f) = n
  OBVIOUS

LEMMA Lists ==
    ASSUME NEW a \in Node, NEW L \in Seq(Node), NEW C \in Seq(Node \X Node)
    PROVE  /\ Locations(a, L) \in Seq(Entry) /\ Len(Locations(a, L)) = Len(L)
           /\ Channels(a, C) \in Seq(Entry) /\ Len(Channels(a, C)) = Len(C)
           /\ \A k \in 1 .. Len(L) : /\ Locations(a, L)[k] = Frame(Cmd(a), "Location", L[k])
                                  /\ Shape(Locations(a, L)[k])
           /\ \A k \in 1 .. Len(C) : /\ Channels(a, C)[k] = Frame(Cmd(a), "Channel", C[k])
                                  /\ Shape(Channels(a, C)[k])
  <1> DEFINE W == Locations(a, L)   V == Channels(a, C)
  <1>1. Cmd(a) \in Journal BY JournalNames
  <1>2. \A k \in 1 .. Len(L) : L[k] \in Node OBVIOUS
  <1>3. \A k \in 1 .. Len(C) : C[k] \in Node \X Node OBVIOUS
  <1>4. \A x \in Node : Frame(Cmd(a), "Location", x) \in Entry /\ Shape(Frame(Cmd(a), "Location", x))
    BY <1>1 DEF Frame, Entry, FrameType, Shape
  <1>5. \A x \in Node \X Node : /\ Frame(Cmd(a), "Channel", x) \in Entry
                                /\ Shape(Frame(Cmd(a), "Channel", x))
    <2>1. \A x \in Node \X Node : Frame(Cmd(a), "Channel", x) \in Entry
      BY <1>1 DEF Frame, Entry, FrameType
    <2>2. \A x \in Node \X Node : Shape(Frame(Cmd(a), "Channel", x))
      BY DEF Frame, Shape
    <2> QED BY <2>1, <2>2
  <1>6. W \in [1 .. Len(L) -> Entry] BY <1>2, <1>4 DEF Locations
  <1>7. V \in [1 .. Len(C) -> Entry] BY <1>3, <1>5 DEF Channels
  <1>8. Len(L) \in Nat /\ Len(C) \in Nat OBVIOUS
  <1> HIDE DEF W, V
  <1>9. W \in Seq(Entry) /\ Len(W) = Len(L) BY <1>6, <1>8, FunctionSeq
  <1>10. V \in Seq(Entry) /\ Len(V) = Len(C) BY <1>7, <1>8, FunctionSeq
  <1>11. \A k \in 1 .. Len(L) : W[k] = Frame(Cmd(a), "Location", L[k]) BY DEF W, Locations
  <1>12. \A k \in 1 .. Len(C) : V[k] = Frame(Cmd(a), "Channel", C[k]) BY DEF V, Channels
  <1>13. /\ \A k \in 1 .. Len(L) : Shape(W[k])
         /\ \A k \in 1 .. Len(C) : Shape(V[k])
    BY <1>2, <1>3, <1>4, <1>5, <1>11, <1>12
  <1> QED BY <1>9, <1>10, <1>11, <1>12, <1>13 DEF W, V

LEMMA Concatenated ==
    ASSUME NEW S, NEW s \in Seq(S), NEW t \in Seq(S), NEW u, u = s \o t
    PROVE  /\ u \in Seq(S) /\ Len(s) \in Nat /\ Len(t) \in Nat /\ Len(u) = Len(s) + Len(t)
           /\ \A k \in 1 .. Len(s) : u[k] = s[k]
           /\ \A k \in 1 .. Len(t) : u[Len(s) + k] = t[k]
  BY Concat

Welc(R, O, W, V, P) == ((R \o O) \o W) \o (V \o P)

Assembled(R, O, W, V, P, F) ==
    /\ F \in Seq(Entry) /\ Len(F) = Len(R) + Len(O) + Len(W) + Len(V) + Len(P)
    /\ \A k \in 1 .. Len(R) : F[k] = R[k]
    /\ \A k \in 1 .. Len(O) : F[Len(R) + k] = O[k]
    /\ \A k \in 1 .. Len(W) : F[Len(R) + Len(O) + k] = W[k]
    /\ \A k \in 1 .. Len(V) : F[Len(R) + Len(O) + Len(W) + k] = V[k]
    /\ \A k \in 1 .. Len(P) : F[Len(R) + Len(O) + Len(W) + Len(V) + k] = P[k]

LEMMA Parts ==
    ASSUME NEW R \in Seq(Entry), NEW O \in Seq(Entry), NEW W \in Seq(Entry),
           NEW V \in Seq(Entry), NEW P \in Seq(Entry)
    PROVE  Assembled(R, O, W, V, P, Welc(R, O, W, V, P))
  <1>0. PICK A, D, B, F : A = R \o O /\ D = V \o P /\ B = A \o W /\ F = B \o D /\ F = Welc(R, O, W, V, P)
    BY DEF Welc
  <1>1. /\ A \in Seq(Entry) /\ Len(R) \in Nat /\ Len(O) \in Nat /\ Len(A) = Len(R) + Len(O)
        /\ \A k \in 1 .. Len(R) : A[k] = R[k]
        /\ \A k \in 1 .. Len(O) : A[Len(R) + k] = O[k]
    BY <1>0, Concatenated
  <1>2. /\ D \in Seq(Entry) /\ Len(V) \in Nat /\ Len(P) \in Nat /\ Len(D) = Len(V) + Len(P)
        /\ \A k \in 1 .. Len(V) : D[k] = V[k]
        /\ \A k \in 1 .. Len(P) : D[Len(V) + k] = P[k]
    BY <1>0, Concatenated
  <1>3. /\ B \in Seq(Entry) /\ Len(W) \in Nat /\ Len(B) = Len(A) + Len(W)
        /\ \A k \in 1 .. Len(A) : B[k] = A[k]
        /\ \A k \in 1 .. Len(W) : B[Len(A) + k] = W[k]
    BY <1>0, <1>1, Concatenated
  <1>4. /\ F \in Seq(Entry) /\ Len(F) = Len(B) + Len(D)
        /\ \A k \in 1 .. Len(B) : F[k] = B[k]
        /\ \A k \in 1 .. Len(D) : F[Len(B) + k] = D[k]
    <2>1. B \in Seq(Entry) /\ D \in Seq(Entry) /\ F = B \o D BY <1>0, <1>2, <1>3
    <2> QED BY <2>1, Concatenated
  <1>5. \A k \in 1 .. Len(R) : F[k] = R[k]
    <2>1. \A k \in 1 .. Len(R) : k \in 1 .. Len(A) /\ k \in 1 .. Len(B) BY <1>1, <1>3
    <2> QED BY <1>1, <1>3, <1>4, <2>1
  <1>6. \A k \in 1 .. Len(O) : F[Len(R) + k] = O[k]
    <2>1. \A k \in 1 .. Len(O) : Len(R) + k \in 1 .. Len(A) /\ Len(R) + k \in 1 .. Len(B)
      BY <1>1, <1>3
    <2> QED BY <1>1, <1>3, <1>4, <2>1
  <1>7. \A k \in 1 .. Len(W) : F[Len(R) + Len(O) + k] = W[k]
    <2>1. \A k \in 1 .. Len(W) : Len(A) + k \in 1 .. Len(B) BY <1>1, <1>3
    <2> QED BY <1>1, <1>3, <1>4, <2>1
  <1>8. \A k \in 1 .. Len(V) : F[Len(R) + Len(O) + Len(W) + k] = V[k]
    <2>1. \A k \in 1 .. Len(V) : k \in 1 .. Len(D) BY <1>2
    <2> QED BY <1>1, <1>2, <1>3, <1>4, <2>1
  <1>9. \A k \in 1 .. Len(P) : F[Len(R) + Len(O) + Len(W) + Len(V) + k] = P[k]
    <2>1. \A k \in 1 .. Len(P) : Len(V) + k \in 1 .. Len(D) BY <1>2
    <2>2. \A k \in 1 .. Len(P) : F[Len(B) + (Len(V) + k)] = P[k] BY <1>2, <1>4, <2>1
    <2>3. \A k \in 1 .. Len(P) :
             Len(B) + (Len(V) + k) = Len(R) + Len(O) + Len(W) + Len(V) + k
      BY <1>1, <1>2, <1>3
    <2> QED BY <2>2, <2>3
  <1>10. Len(F) = Len(R) + Len(O) + Len(W) + Len(V) + Len(P) BY <1>1, <1>2, <1>3, <1>4
  <1> QED BY <1>0, <1>4, <1>5, <1>6, <1>7, <1>8, <1>9, <1>10 DEF Assembled

LEMMA AppUpKeeps ==
    ASSUME Inv, NEW a \in App, AppUp(a)
    PROVE  Inv'
  <1>1. PICK L : L = SetToSeq(live \cup {a}) OBVIOUS
  <1>2. PICK C : C = SetToSeq(links) OBVIOUS
  <1>3. PICK W : W = Locations(a, L) OBVIOUS
  <1>4. PICK V : V = Channels(a, C) OBVIOUS
  <1>5. PICK R : R = << Frame(Public, "Register", a) >> OBVIOUS
  <1>6. a # "ledger" /\ a \in Node BY Names
  <1>7. live \subseteq Node /\ links \subseteq Node \X Node /\ asks \in Seq(App) BY DEF Inv, ITyped, ILog
  <1>8. /\ a \notin live /\ live' = live \cup {a} /\ UNCHANGED <<links, asks, st, lvars, cvars>>
        /\ Write(Welcome(a, L))
    BY <1>1, EventWrites DEF AppUp
  <1>9. CASE st = "down" BY <1>6, <1>7, <1>8, <1>9, QuietKeeps DEF Write
  <1>10. CASE st # "down"
    <2>1. L \in Seq(live') /\ C \in Seq(links)
      <3>1. IsFiniteSet(live \cup {a}) /\ IsFiniteSet(links)
        BY <1>6, <1>7, FewNodes, FS_Subset, FS_Product, FS_AddElement
      <3> QED BY <1>1, <1>2, <1>8, <3>1, ListOf
    <2>2. Len(L) \in Nat /\ \A k \in 1 .. Len(L) : L[k] \in live' BY <2>1
    <2>3. Len(C) \in Nat /\ \A k \in 1 .. Len(C) : C[k] \in links BY <2>1
    <2>4. live' \subseteq Node /\ L \in Seq(Node) /\ C \in Seq(Node \X Node)
      BY <1>6, <1>7, <1>8, <2>1
    <2>5. /\ W \in Seq(Entry) /\ Len(W) = Len(L) /\ V \in Seq(Entry) /\ Len(V) = Len(C)
          /\ \A k \in 1 .. Len(L) : W[k] = Frame(Cmd(a), "Location", L[k]) /\ Shape(W[k])
          /\ \A k \in 1 .. Len(C) : V[k] = Frame(Cmd(a), "Channel", C[k]) /\ Shape(V[k])
      BY <1>3, <1>4, <1>6, <2>4, Lists
    <2>6. R \in Seq(Entry) /\ Len(R) = 1 /\ R[1] = [j |-> Public, typ |-> "Register", arg |-> a]
      <3>1. [j |-> Public, typ |-> "Register", arg |-> a] \in Entry
        BY <1>6, JournalNames DEF Entry, FrameType
      <3> QED BY <1>5, <3>1, Tuples DEF Frame
    <2>7. PICK O : O = << >> OBVIOUS
    <2>31. O \in Seq(Entry) /\ Len(O) = 0 BY <2>7
    <2>8. PICK F : F = Welc(R, O, W, V, O) OBVIOUS
    <2>9. Welcome(a, L) = F
      BY <1>2, <1>3, <1>4, <1>5, <1>6, <2>7, <2>8 DEF Welcome, Own, Welc, Locations, Channels
    <2>10. /\ F \in Seq(Entry) /\ Len(F) = Len(R) + Len(O) + Len(W) + Len(V) + Len(O)
           /\ \A k \in 1 .. Len(R) : F[k] = R[k]
           /\ \A k \in 1 .. Len(W) : F[Len(R) + Len(O) + k] = W[k]
           /\ \A k \in 1 .. Len(V) : F[Len(R) + Len(O) + Len(W) + k] = V[k]
      <3>1. R \in Seq(Entry) /\ O \in Seq(Entry) /\ W \in Seq(Entry) /\ V \in Seq(Entry)
        BY <2>5, <2>6, <2>31
      <3>2. Assembled(R, O, W, V, O, F) BY <2>8, <3>1, Parts
      <3> QED BY <3>2 DEF Assembled
    <2>30. PICK w, v \in Nat : w = Len(L) /\ v = Len(C) BY <2>2, <2>3
    <2>11. /\ Len(F) = 1 + w + v
           /\ F[1] = R[1]
           /\ \A k \in 1 .. w : F[1 + k] = W[k]
           /\ \A k \in 1 .. v : F[1 + w + k] = V[k]
      <3>1. Len(R) = 1 /\ Len(O) = 0 /\ Len(W) = w /\ Len(V) = v BY <2>5, <2>6, <2>31, <2>30
      <3> QED BY <2>10, <3>1
    <2>12. F[1] = [j |-> Public, typ |-> "Register", arg |-> a]
           /\ 1 \in 1 .. Len(F) /\ Len(F) \in Nat
      BY <2>6, <2>11
    <2>13. ASSUME NEW k \in 2 .. Len(F)
           PROVE  /\ Shape(F[k]) /\ F[k].j = Cmd(a)
                  /\ \/ F[k].typ = "Location" /\ F[k].arg \in live'
                     \/ F[k].typ = "Channel"
      <3>1. CASE k <= 1 + w
        <4>1. k - 1 \in 1 .. w /\ 1 + (k - 1) = k BY <2>11, <3>1
        <4>2. F[k] = W[k - 1] BY <2>11, <4>1
        <4>3. /\ W[k - 1] = Frame(Cmd(a), "Location", L[k - 1]) /\ Shape(W[k - 1])
              /\ L[k - 1] \in live'
          BY <2>2, <2>5, <2>30, <4>1
        <4> QED BY <4>2, <4>3 DEF Frame
      <3>2. CASE ~(k <= 1 + w)
        <4>1. k - 1 - w \in 1 .. v /\ 1 + w + (k - 1 - w) = k BY <2>11, <3>2
        <4>2. F[k] = V[k - 1 - w] BY <2>11, <4>1
        <4>3. V[k - 1 - w] = Frame(Cmd(a), "Channel", C[k - 1 - w]) /\ Shape(V[k - 1 - w])
          BY <2>5, <2>30, <4>1
        <4> QED BY <4>2, <4>3 DEF Frame
      <3> QED BY <3>1, <3>2
    <2>14. \A k \in 1 .. Len(F) : k = 1 \/ k \in 2 .. Len(F) BY <2>12
    <2>15. Shape(F[1]) BY <1>6, <2>12 DEF Shape
    <2>16. Cmd(a) # Cmd("ledger") /\ Public # Cmd("ledger") /\ Cmd(a)[2] = a
      BY <1>6, JournalNames, Names DEF Cmd
    <2>17. log' = log \o F /\ Up BY <1>8, <1>10, <2>9, Runs
    <2>18. ASSUME NEW k \in 1 .. Len(F)
           PROVE  /\ Shape(F[k]) /\ Named(F[k]) \subseteq live' /\ F[k].j # Cmd("ledger")
                  /\ F[k].typ \notin {"ReadFrom", "Deregister", "Order", "RequestStart", "WriteTo"}
                  /\ F[k].typ = "Register" => F[k].arg = a
                  /\ F[k].typ \in {"Location", "Channel"} => F[k].j[2] = a /\ k > 1
      <3>1. CASE k = 1 BY <1>8, <2>12, <2>15, <2>16, <3>1 DEF Named
      <3>2. CASE k \in 2 .. Len(F)
        <4>1. /\ Shape(F[k]) /\ F[k].j = Cmd(a)
              /\ \/ F[k].typ = "Location" /\ F[k].arg \in live'
                 \/ F[k].typ = "Channel"
          BY <2>13, <3>2
        <4>2. Named(F[k]) \subseteq live' BY <1>8, <2>16, <4>1 DEF Named
        <4> QED BY <2>16, <3>2, <4>1, <4>2
      <3> QED BY <2>14, <3>1, <3>2
    <2>19. Flips(F)
      <3>1. \A k \in 2 .. Len(F) : F[k].typ \notin {"Register", "Deregister"} BY <2>13
      <3> QED BY <1>6, <1>8, <2>12, <3>1 DEF Flips
    <2>20. \A c \in links' :
             c \in links /\ \A k \in 1 .. Len(F) : ~(F[k].typ = "Deregister" /\ F[k].arg = c[1])
      BY <1>8, <2>18
    <2>21. Writes(F)
      <3>1. /\ F \in Seq(Entry) /\ log' = log \o F /\ Up
            /\ UNCHANGED <<st, lvars, cvars>>
            /\ live' \subseteq Node /\ links' \subseteq Node \X Node /\ asks' \in Seq(App)
        BY <1>7, <1>8, <2>4, <2>10, <2>17
      <3> QED BY <2>12, <2>18, <2>19, <2>20, <3>1 DEF Writes
    <2>22. Plain(F)
      <3>1. asks' = asks BY <1>8
      <3>2. \A k \in 1 .. Len(asks) : \E l \in 1 .. Len(asks') : asks'[l] = asks[k] BY <3>1
      <3> QED BY <1>6, <2>18, <2>21, <3>1, <3>2 DEF Plain
    <2> QED BY <2>22, PlainKeeps
  <1> QED BY <1>9, <1>10

(* The ledger comes: what it is told, w locations and v channels.          *)
ToldEnds(F, w, v) ==
    /\ Len(F) = 3 + w + v
    /\ F[1] = Frame(Public, "Register", "ledger")
    /\ F[2] = Frame(Cmd("ledger"), "WriteTo", "master")
    /\ F[3 + w + v] = Frame(Cmd("ledger"), "RequestStart", "ledger")

ToldLocations(F, w) ==
    /\ \A k \in 1 .. w : /\ F[2 + k].typ = "Location" /\ F[2 + k].j = Cmd("ledger")
                         /\ F[2 + k].arg \in live' /\ Shape(F[2 + k])
    /\ \A x \in live' : \E k \in 1 .. w : F[2 + k].arg = x

ToldChannels(F, w, v) ==
    /\ \A k \in 1 .. v : /\ F[2 + w + k].typ = "Channel" /\ F[2 + w + k].j = Cmd("ledger")
                         /\ F[2 + w + k].arg \in links /\ Shape(F[2 + w + k])
    /\ \A c \in links : \E k \in 1 .. v : F[2 + w + k].arg = c

Told(F, w, v) == ToldEnds(F, w, v) /\ ToldLocations(F, w) /\ ToldChannels(F, w, v)

LEMMA LedgerFrames ==
    ASSUME LInv, LedgerUp
    PROVE  \E F \in Seq(Entry), w, v \in Nat : Write(F) /\ Told(F, w, v)
  <1>1. PICK locs \in SetToSeqs(live) : Write(Welcome("ledger", Append(locs, "ledger")))
    BY DEF LedgerUp
  <1>2. live \subseteq Node /\ links \subseteq Node \X Node /\ "ledger" \in Node
        /\ live' = live \cup {"ledger"}
    BY Names DEF LInv, ILog, LedgerUp
  <1>3. IsFiniteSet(live) /\ IsFiniteSet(links) BY <1>2, FewNodes, FS_Subset, FS_Product
  <1>4. locs \in Seq(live) /\ \A x \in live : \E k \in 1 .. Len(locs) : locs[k] = x
    BY <1>1, <1>3, ListsOf
  <1>5. PICK L : L = Append(locs, "ledger") OBVIOUS
  <1>6. PICK C : C = SetToSeq(links) OBVIOUS
  <1>7. C \in Seq(links) /\ \A c \in links : \E k \in 1 .. Len(C) : C[k] = c
    BY <1>3, <1>6, ListOf
  <1>8. locs \in Seq(live') BY <1>2, <1>4
  <1>9. /\ L \in Seq(live') /\ Len(locs) \in Nat /\ Len(L) = Len(locs) + 1
        /\ L[Len(locs) + 1] = "ledger"
        /\ \A k \in 1 .. Len(locs) : L[k] = locs[k]
    BY <1>2, <1>5, <1>8, AppendElements
  <1>10. \A x \in live' : \E k \in 1 .. Len(L) : L[k] = x
    <2>1. \A k \in 1 .. Len(locs) : k \in 1 .. Len(L) BY <1>9
    <2>2. Len(locs) + 1 \in 1 .. Len(L) BY <1>9
    <2> QED BY <1>2, <1>4, <1>9, <2>1, <2>2
  <1>11. L \in Seq(Node) /\ C \in Seq(Node \X Node)
    <2>1. live' \subseteq Node BY <1>2
    <2> QED BY <1>2, <1>7, <1>9, <2>1
  <1>12. /\ \A k \in 1 .. Len(L) : L[k] \in live'
         /\ \A k \in 1 .. Len(C) : C[k] \in links
    <2>1. \A k \in 1 .. Len(L) : L[k] \in live' BY <1>9
    <2>2. \A k \in 1 .. Len(C) : C[k] \in links BY <1>7
    <2> QED BY <2>1, <2>2
  <1> PICK W : W = Locations("ledger", L) OBVIOUS
  <1> PICK V : V = Channels("ledger", C) OBVIOUS
  <1>13. /\ W \in Seq(Entry) /\ Len(W) = Len(L) /\ V \in Seq(Entry) /\ Len(V) = Len(C)
         /\ \A k \in 1 .. Len(L) : W[k] = Frame(Cmd("ledger"), "Location", L[k]) /\ Shape(W[k])
         /\ \A k \in 1 .. Len(C) : V[k] = Frame(Cmd("ledger"), "Channel", C[k]) /\ Shape(V[k])
    BY <1>2, <1>11, Lists
  <1> PICK R : R = << Frame(Public, "Register", "ledger") >> OBVIOUS
  <1> PICK O : O = << Frame(Cmd("ledger"), "WriteTo", "master") >> OBVIOUS
  <1> PICK P : P = << Frame(Cmd("ledger"), "RequestStart", "ledger") >> OBVIOUS
  <1>14. /\ Frame(Public, "Register", "ledger") \in Entry
         /\ Frame(Cmd("ledger"), "WriteTo", "master") \in Entry
         /\ Frame(Cmd("ledger"), "RequestStart", "ledger") \in Entry
    <2>1. Public \in Journal /\ Cmd("ledger") \in Journal BY <1>2, JournalNames
    <2> QED BY <1>2, <2>1 DEF Frame, Entry, FrameType
  <1>15. /\ R \in Seq(Entry) /\ Len(R) = 1 /\ R[1] = Frame(Public, "Register", "ledger")
         /\ O \in Seq(Entry) /\ Len(O) = 1 /\ O[1] = Frame(Cmd("ledger"), "WriteTo", "master")
         /\ P \in Seq(Entry) /\ Len(P) = 1 /\ P[1] = Frame(Cmd("ledger"), "RequestStart", "ledger")
    BY <1>14, Tuples
  <1> PICK F : F = Welc(R, O, W, V, P) OBVIOUS
  <1>16. Write(F)
    <2>1. Welcome("ledger", L) = F BY <1>6 DEF Welcome, Own, Welc, Locations, Channels
    <2> QED BY <1>1, <1>5, <2>1
  <1>17. Assembled(R, O, W, V, P, F) BY <1>13, <1>15, Parts
  <1> PICK w, v \in Nat : w = Len(L) /\ v = Len(C) BY <1>9, <1>7
  <1>18. /\ F \in Seq(Entry) /\ Len(F) = 3 + w + v
         /\ F[1] = R[1] /\ F[2] = O[1] /\ F[3 + w + v] = P[1]
         /\ \A k \in 1 .. w : F[2 + k] = W[k]
         /\ \A k \in 1 .. v : F[2 + w + k] = V[k]
    <2>1. Len(R) = 1 /\ Len(O) = 1 /\ Len(P) = 1 /\ Len(W) = w /\ Len(V) = v BY <1>13, <1>15
    <2>2. F \in Seq(Entry) /\ Len(F) = Len(R) + Len(O) + Len(W) + Len(V) + Len(P)
      BY <1>17 DEF Assembled
    <2>3. Len(F) = 3 + w + v BY <2>1, <2>2
    <2>4. F[1] = R[1]
      <3>1. \A k \in 1 .. Len(R) : F[k] = R[k] BY <1>17 DEF Assembled
      <3>2. 1 \in 1 .. Len(R) BY <2>1
      <3> QED BY <3>1, <3>2
    <2>5. F[2] = O[1]
      <3>1. \A k \in 1 .. Len(O) : F[Len(R) + k] = O[k] BY <1>17 DEF Assembled
      <3>2. 1 \in 1 .. Len(O) /\ Len(R) + 1 = 2 BY <2>1
      <3> QED BY <3>1, <3>2
    <2>6. F[3 + w + v] = P[1]
      <3>1. \A k \in 1 .. Len(P) : F[Len(R) + Len(O) + Len(W) + Len(V) + k] = P[k]
        BY <1>17 DEF Assembled
      <3>2. 1 \in 1 .. Len(P) /\ Len(R) + Len(O) + Len(W) + Len(V) + 1 = 3 + w + v BY <2>1
      <3> QED BY <3>1, <3>2
    <2>7. ASSUME NEW k \in 1 .. w PROVE F[2 + k] = W[k]
      <3>1. \A l \in 1 .. Len(W) : F[Len(R) + Len(O) + l] = W[l] BY <1>17 DEF Assembled
      <3>2. k \in 1 .. Len(W) /\ Len(R) + Len(O) + k = 2 + k BY <2>1
      <3> QED BY <3>1, <3>2
    <2>8. ASSUME NEW k \in 1 .. v PROVE F[2 + w + k] = V[k]
      <3>1. \A l \in 1 .. Len(V) : F[Len(R) + Len(O) + Len(W) + l] = V[l] BY <1>17 DEF Assembled
      <3>2. k \in 1 .. Len(V) /\ Len(R) + Len(O) + Len(W) + k = 2 + w + k BY <2>1
      <3> QED BY <3>1, <3>2
    <2> QED BY <2>2, <2>3, <2>4, <2>5, <2>6, <2>7, <2>8
  <1>19. ASSUME NEW k \in 1 .. w
         PROVE  /\ F[2 + k].typ = "Location" /\ F[2 + k].j = Cmd("ledger")
                /\ F[2 + k].arg = L[k] /\ Shape(F[2 + k])
    <2>1. F[2 + k] = W[k] BY <1>18
    <2>2. k \in 1 .. Len(L) OBVIOUS
    <2>3. W[k] = Frame(Cmd("ledger"), "Location", L[k]) /\ Shape(W[k]) BY <1>13, <2>2
    <2> QED BY <2>1, <2>3 DEF Frame
  <1>20. ASSUME NEW k \in 1 .. v
         PROVE  /\ F[2 + w + k].typ = "Channel" /\ F[2 + w + k].j = Cmd("ledger")
                /\ F[2 + w + k].arg = C[k] /\ Shape(F[2 + w + k])
    <2>1. F[2 + w + k] = V[k] BY <1>18
    <2>2. k \in 1 .. Len(C) OBVIOUS
    <2>3. V[k] = Frame(Cmd("ledger"), "Channel", C[k]) /\ Shape(V[k]) BY <1>13, <2>2
    <2> QED BY <2>1, <2>3 DEF Frame
  <1>21. \A x \in live' : \E k \in 1 .. w : F[2 + k].arg = x
    <2> SUFFICES ASSUME NEW x \in live' PROVE \E k \in 1 .. w : F[2 + k].arg = x
      OBVIOUS
    <2>1. PICK k \in 1 .. w : L[k] = x BY <1>10
    <2> QED BY <1>19, <2>1
  <1>22. \A c \in links : \E k \in 1 .. v : F[2 + w + k].arg = c
    <2> SUFFICES ASSUME NEW c \in links PROVE \E k \in 1 .. v : F[2 + w + k].arg = c
      OBVIOUS
    <2>1. PICK k \in 1 .. v : C[k] = c BY <1>7
    <2> QED BY <1>20, <2>1
  <1>23. Told(F, w, v)
    <2>1. \A k \in 1 .. w : /\ F[2 + k].typ = "Location" /\ F[2 + k].j = Cmd("ledger")
                             /\ F[2 + k].arg \in live' /\ Shape(F[2 + k])
      <3>1. \A k \in 1 .. w : L[k] \in live' BY <1>12
      <3> QED BY <1>19, <3>1
    <2>2. \A k \in 1 .. v : /\ F[2 + w + k].typ = "Channel" /\ F[2 + w + k].j = Cmd("ledger")
                             /\ F[2 + w + k].arg \in links /\ Shape(F[2 + w + k])
      <3>1. \A k \in 1 .. v : C[k] \in links BY <1>12
      <3> QED BY <1>20, <3>1
    <2>3. /\ Len(F) = 3 + w + v
          /\ F[1] = Frame(Public, "Register", "ledger")
          /\ F[2] = Frame(Cmd("ledger"), "WriteTo", "master")
          /\ F[3 + w + v] = Frame(Cmd("ledger"), "RequestStart", "ledger")
      BY <1>15, <1>18
    <2>4. ToldLocations(F, w) BY <1>21, <2>1, Zenon DEF ToldLocations
    <2>5. ToldChannels(F, w, v) BY <1>22, <2>2, Zenon DEF ToldChannels
    <2>6. ToldEnds(F, w, v) BY <2>3 DEF ToldEnds
    <2> QED BY <2>4, <2>5, <2>6 DEF Told
  <1> QED BY <1>16, <1>18, <1>23

LEMMA LedgerUpHolds ==
    ASSUME LInv, LedgerUp
    PROVE  LInv'
  <1>1. PICK F \in Seq(Entry), w, v \in Nat : Write(F) /\ Told(F, w, v) BY LedgerFrames
  <1>2. /\ st = "waiting" /\ "ledger" \notin live /\ live' = live \cup {"ledger"}
        /\ UNCHANGED <<links, asks, st, lvars, cvars>>
    BY DEF LedgerUp
  <1>3. log' = log \o F /\ Up BY <1>1, <1>2 DEF Write, Up
  <1>4. live \subseteq Node /\ links \subseteq Node \X Node /\ asks \in Seq(App) /\ ILog
    BY DEF LInv, ILog
  <1>5. "ledger" \in Node /\ Cmd("ledger") # Public /\ "master" \notin Node /\ Cmd("ledger")[2] = "ledger"
    BY Names, JournalNames DEF Cmd
  <1>6. /\ Len(F) = 3 + w + v
        /\ F[1].typ = "Register" /\ F[1].arg = "ledger" /\ F[1].j = Public
        /\ F[2].typ = "WriteTo" /\ F[2].arg = "master" /\ F[2].j = Cmd("ledger")
        /\ F[Len(F)].typ = "RequestStart" /\ F[Len(F)].j = Cmd("ledger")
    <2>1. Len(F) = 3 + w + v BY <1>1 DEF Told, ToldEnds
    <2>2. /\ F[1] = Frame(Public, "Register", "ledger")
          /\ F[2] = Frame(Cmd("ledger"), "WriteTo", "master")
          /\ F[Len(F)] = Frame(Cmd("ledger"), "RequestStart", "ledger")
      BY <1>1, <2>1 DEF Told, ToldEnds
    <2> QED BY <2>1, <2>2 DEF Frame
  <1>7. ASSUME NEW k \in 3 .. Len(F) - 1
        PROVE  /\ Shape(F[k]) /\ F[k].j = Cmd("ledger")
               /\ \/ F[k].typ = "Location" /\ F[k].arg \in live'
                  \/ F[k].typ = "Channel" /\ F[k].arg \in links
    <2>1. CASE k <= 2 + w
      <3>1. PICK l \in 1 .. w : k = 2 + l
        <4>1. k - 2 \in 1 .. w /\ k = 2 + (k - 2) BY <2>1
        <4> QED BY <4>1
      <3> QED BY <1>1, <3>1 DEF Told, ToldLocations
    <2>2. CASE ~(k <= 2 + w)
      <3>1. PICK l \in 1 .. v : k = 2 + w + l
        <4>1. k - 2 - w \in 1 .. v /\ k = 2 + w + (k - 2 - w) BY <1>6, <2>2
        <4> QED BY <4>1
      <3> QED BY <1>1, <3>1 DEF Told, ToldChannels
    <2> QED BY <2>1, <2>2
  <1>8. /\ \A k \in 1 .. Len(F) : k \in {1, 2, Len(F)} \/ k \in 3 .. Len(F) - 1
        /\ 1 \in 1 .. Len(F) /\ 2 \in 1 .. Len(F) /\ Len(F) \in 1 .. Len(F) /\ Len(F) > 2
        /\ Len(F) \in Nat
    BY <1>6
  <1>9. ASSUME NEW k \in 1 .. Len(F)
        PROVE  /\ Shape(F[k]) /\ Named(F[k]) \subseteq live'
               /\ F[k].typ \notin {"ReadFrom", "Deregister", "Order"}
               /\ F[k].typ = "Register" => k = 1
               /\ F[k].typ = "RequestStart" => k = Len(F)
               /\ F[k].typ \in {"Location", "Channel"} => F[k].j[2] = "ledger" /\ k > 1 /\ k < Len(F)
               /\ k > 1 => F[k].j = Cmd("ledger")
    <2>1. CASE k = 1 BY <1>2, <1>5, <1>6, <1>8, <2>1 DEF Named, Shape
    <2>2. CASE k = 2 BY <1>2, <1>5, <1>6, <1>8, <2>2 DEF Named, Shape
    <2>3. CASE k = Len(F) BY <1>2, <1>5, <1>6, <1>8, <2>3 DEF Named, Shape
    <2>4. CASE k \in 3 .. Len(F) - 1
      <3>1. /\ Shape(F[k]) /\ F[k].j = Cmd("ledger") /\ k > 1 /\ k < Len(F)
            /\ \/ F[k].typ = "Location" /\ F[k].arg \in live'
               \/ F[k].typ = "Channel"
        BY <1>7, <1>8, <2>4
      <3>2. Named(F[k]) \subseteq live' BY <1>2, <1>5, <3>1 DEF Named
      <3> QED BY <1>5, <3>1, <3>2
    <2> QED BY <1>8, <2>1, <2>2, <2>3, <2>4
  <1>10. Flips(F)
    <2>1. \A k \in 2 .. Len(F) : F[k].typ \notin {"Register", "Deregister"}
      <3>1. \A k \in 2 .. Len(F) : k \in 1 .. Len(F) /\ k # 1 BY <1>8
      <3> QED BY <1>9, <3>1
    <2> QED BY <1>2, <1>5, <1>6, <1>8, <2>1 DEF Flips
  <1>11. Writes(F)
    <2>1. /\ F \in Seq(Entry) /\ log' = log \o F /\ Up
          /\ UNCHANGED <<st, lvars, cvars>>
          /\ live' \subseteq Node /\ links' \subseteq Node \X Node /\ asks' \in Seq(App)
      BY <1>2, <1>3, <1>4, <1>5
    <2>2. \A c \in links' :
             c \in links /\ \A k \in 1 .. Len(F) : ~(F[k].typ = "Deregister" /\ F[k].arg = c[1])
      BY <1>2, <1>9
    <2> QED BY <1>6, <1>9, <1>10, <2>1, <2>2 DEF Writes
  <1>12. ILog' /\ INamed' /\ IBack' /\ PairsTold'
    BY <1>11, WritesLog, WritesNamed, WritesBack, WritesPairs DEF LInv
  <1>13. IType' /\ IClient' /\ IDown' /\ Survives' BY <1>2, <1>11, WritesType DEF LInv
  <1>14. ICur' /\ IPlace' /\ IStates' /\ IBooks'
    BY <1>11, WritesCur, WritesPlace, WritesStates, WritesBooks DEF LInv
  <1>15. IJoined' BY <1>2 DEF IJoined
  <1> PICK N \in Nat : GrownAs(F, N) BY <1>4, <1>11, GrownBy
  <1>16. /\ Now = N /\ Len(F) \in Nat /\ Now' = N + Len(F)
         /\ \A k \in 1 .. N : log'[k] = log[k] /\ k \in 1 .. Now'
         /\ \A k \in 1 .. Len(F) : log'[N + k] = F[k] /\ N + k \in 1 .. Now'
         /\ \A k \in 1 .. Now' : \/ k \in 1 .. N
                                 \/ k > N /\ k - N \in 1 .. Len(F) /\ log'[k] = F[k - N]
         /\ \A n \in N + 1 .. Now' : \A a : Alive(n, a)' <=> a \in live'
    BY DEF GrownAs
  <1> PICK s \in Nat : s = N + Len(F) BY <1>16
  <1>17. s = Now' /\ s \in 1 .. Now' /\ N + 1 \in 1 .. Now' /\ N + 1 < s BY <1>8, <1>16
  <1>18. ASSUME NEW k \in 1 .. N PROVE log[k].j # Cmd("ledger") /\ ~Comes(k, "ledger")
    BY <1>2, <1>16 DEF LInv, IWait
  <1>19. ASSUME NEW k \in 1 .. N PROVE log[k].typ # "RequestStart" /\ Shape(log[k])
    BY <1>4, <1>16, <1>18 DEF ILog, Shape
  <1>20. ASSUME NEW k \in 1 .. Now' PROVE Starts(k)' <=> k = s
    <2>1. CASE k \in 1 .. N
      <3>1. k # s BY <1>8, <2>1
      <3> QED BY <1>16, <1>19, <2>1, <3>1 DEF Starts
    <2>2. CASE k > N /\ k - N \in 1 .. Len(F) /\ log'[k] = F[k - N]
      <3>1. F[k - N].typ = "RequestStart" <=> k - N = Len(F) BY <1>6, <1>9, <2>2
      <3> QED BY <1>16, <2>2, <3>1 DEF Starts
    <2> QED BY <1>16, <2>1, <2>2
  <1>21. ASSUME NEW c \in links' PROVE Linked(s, c)'
    <2>1. c \in links BY <1>2
    <2>2. PICK l \in 1 .. v : F[2 + w + l].arg = c BY <1>1, <2>1 DEF Told, ToldChannels
    <2>3. F[2 + w + l].typ = "Channel" /\ F[2 + w + l].j = Cmd("ledger")
      BY <1>1 DEF Told, ToldChannels
    <2>4. PICK k \in 1 .. Len(F) : k = 2 + w + l BY <1>6
    <2>5. \A m \in k .. Len(F) : F[m].typ # "Deregister"
      <3>1. \A m \in k .. Len(F) : m \in 1 .. Len(F) BY <1>8
      <3> QED BY <1>9, <3>1
    <2>6. /\ F[k].typ = "Channel" /\ F[k].arg = c /\ F[k].j \in {Public, Cmd("ledger")}
      BY <2>2, <2>3, <2>4
    <2>7. PICK M \in Nat : M = Now' /\ Linked(M, c)' BY <1>4, <1>11, <2>5, <2>6, LinkedNow
    <2> QED BY <1>17, <2>7
  <1>22. LinksOK'
    <2>1. \A k \in 1 .. Now' : Starts(k)' =>
             /\ \A c \in links' : Linked(s, c)'
             /\ k = s
      BY <1>20, <1>21
    <2>2. ASSUME NEW k \in 1 .. Now', Starts(k)'
          PROVE  (/\ \A c \in links : Linked(Now, c)
                  /\ \A i \in k + 1 .. Now : log[i].typ = "Order" => Linked(i, log[i].j))'
      <3>1. k = s /\ \A c \in links' : Linked(s, c)' BY <2>1, <2>2
      <3>2. \A i : i \notin k + 1 .. Now' BY <1>17, <3>1
      <3>3. (\A c \in links : Linked(Now, c))'
        BY <1>17, <3>1 DEF Linked, Links, Deregisters, Public, Cmd
      <3> QED BY <3>2, <3>3
    <2> QED BY <2>2 DEF LinksOK
  <1>23. Welcomed(N + 1, s)'
    <2>1. log'[N + 1] = F[1] BY <1>8, <1>16
    <2>2. Registers(N + 1, "ledger")' BY <1>6, <2>1 DEF Registers
    <2>3. \A k \in 1 .. (N + 1) - 1 : ~Registers(k, "ledger")'
      <3>1. \A k \in 1 .. (N + 1) - 1 : k \in 1 .. N BY <1>16
      <3> QED BY <1>16, <1>18, <3>1 DEF Comes, Registers
    <2>4. ASSUME NEW k \in (N + 1) + 1 .. s PROVE log'[k].j = Cmd("ledger")
      <3>1. k \in 1 .. Now' /\ k \notin 1 .. N BY <1>16
      <3>2. k - N \in 1 .. Len(F) /\ log'[k] = F[k - N] /\ k - N > 1 BY <1>16, <3>1
      <3> QED BY <1>9, <3>2
    <2>5. ASSUME NEW k \in 1 .. N + 1 PROVE log'[k].j # Cmd("ledger")
      <3>1. CASE k \in 1 .. N BY <1>16, <1>18, <3>1
      <3>2. CASE k = N + 1 BY <1>5, <1>6, <2>1, <3>2
      <3> QED BY <1>16, <3>1, <3>2
    <2>6. ASSUME NEW k \in 1 .. Now', log'[k].typ = "Location", log'[k].j = Cmd("ledger")
          PROVE  k < s
      <3>1. CASE k \in 1 .. N BY <1>16, <1>18, <2>6, <3>1
      <3>2. CASE k > N /\ k - N \in 1 .. Len(F) /\ log'[k] = F[k - N]
        <4>1. k - N < Len(F) BY <1>9, <2>6, <3>2
        <4> QED BY <1>16, <3>2, <4>1
      <3> QED BY <1>16, <3>1, <3>2
    <2>7. \E k \in (N + 1) + 1 .. s - 1 : Grants(k, "master")'
      <3>1. log'[N + 2] = F[2] BY <1>8, <1>16
      <3>2. N + 2 \in (N + 1) + 1 .. s - 1 BY <1>8, <1>16
      <3> QED BY <1>6, <3>1, <3>2 DEF Grants
    <2>8. ASSUME NEW x \in Node, Alive(N + 1, x)'
          PROVE  \E k \in (N + 1) + 1 .. s - 1 : Locates(k, x)'
      <3>1. N + 1 \in N + 1 .. Now' BY <1>17
      <3>2. x \in live' BY <1>16, <2>8, <3>1
      <3>3. PICK l \in 1 .. w : F[2 + l].arg = x BY <1>1, <3>2 DEF Told, ToldLocations
      <3>4. F[2 + l].typ = "Location" /\ F[2 + l].j = Cmd("ledger")
        BY <1>1 DEF Told, ToldLocations
      <3>5. 2 + l \in 1 .. Len(F) BY <1>6
      <3>6. log'[N + (2 + l)] = F[2 + l] BY <1>16, <3>5
      <3>7. N + (2 + l) \in (N + 1) + 1 .. s - 1 BY <1>6, <1>16
      <3>8. Locates(N + (2 + l), x)' BY <3>3, <3>4, <3>6 DEF Locates, Cmd
      <3> QED BY <3>7, <3>8
    <2> QED BY <1>17, <1>20, <2>2, <2>3, <2>4, <2>5, <2>6, <2>7, <2>8 DEF Welcomed, Cmd
  <1>25. IWait'
    <2>1. cur[Public] <= N + 1
      <3>1. cur[Public] \in 0 .. N + 1 BY <1>16, JournalNames DEF LInv, IType
      <3> QED BY <1>16, <3>1
    <2>2. \A k \in 1 .. cur[Public] - 1 : log'[k].typ # "Register"
      <3>1. cur[Public] \in 0 .. N + 1 BY <1>16, JournalNames DEF LInv, IType
      <3>2. \A k \in 1 .. cur[Public] - 1 : k \in 1 .. N BY <1>16, <3>1
      <3> QED BY <1>2, <1>16, <3>2 DEF LInv, IWait
    <2>3. /\ known = {} /\ writers = {} /\ asks' = <<>> /\ begun = 0 /\ DOMAIN books = {}
          /\ added = {} /\ \A x \in Booked : subs[x] = 0
          /\ \A j \in Journal \ {Public} : cur[j] = 0
      BY <1>2 DEF LInv, IWait
    <2>4. (\A k \in 1 .. cur[Public] - 1 : log[k].typ # "Register")'
      BY <1>11, <2>2, Same DEF Public
    <2>5. (\E r, t \in 1 .. Now : cur[Public] <= r /\ Welcomed(r, t))'
      BY <1>11, <1>17, <1>23, <2>1, Same DEF Public
    <2>6. (\A j \in Journal \ {Public} : cur[j] = 0)' BY <1>11, <2>3, Same DEF Public
    <2> QED BY <1>2, <1>11, <2>3, <2>4, <2>5, <2>6, Same DEF IWait
  <1>26. IReach'
    <2> SUFFICES ASSUME NEW a \in live' \cap App PROVE Reaches(a)'
      BY DEF IReach
    <2>1. PICK l \in 1 .. w : F[2 + l].arg = a BY <1>1 DEF Told, ToldLocations
    <2>2. F[2 + l].typ = "Location" /\ F[2 + l].j = Cmd("ledger")
      BY <1>1 DEF Told, ToldLocations
    <2>3. 2 + l \in 1 .. Len(F) BY <1>6
    <2>4. log'[N + (2 + l)] = F[2 + l] /\ N + (2 + l) \in 1 .. Now' BY <1>16, <2>3
    <2>5. Locates(N + (2 + l), a)' BY <2>1, <2>2, <2>4 DEF Locates, Cmd
    <2>6. cur[Cmd("ledger")] = 0 /\ known = {}
      <3>1. Cmd("ledger") \in Journal BY <1>5, JournalNames
      <3> QED BY <1>2, <1>5, <3>1 DEF LInv, IWait
    <2>7. a \notin known' /\ st' # "started" /\ cur'[Cmd("ledger")] = 0
      BY <1>2, <1>11, <2>6, Same
    <2>8. N + (2 + l) >= cur'[Cmd("ledger")] BY <1>16, <2>7
    <2> QED BY <2>4, <2>5, <2>7, <2>8 DEF Reaches, Cmd
  <1> QED BY <1>12, <1>13, <1>14, <1>15, <1>22, <1>25, <1>26 DEF LInv

LEMMA LedgerUpKeeps ==
    ASSUME Inv, LedgerUp
    PROVE  Inv'
  <1>1. st = "waiting" /\ UNCHANGED <<st, lvars>> BY DEF LedgerUp
  <1>2. LInv BY <1>1 DEF Inv
  <1>3. LInv' BY <1>2, LedgerUpHolds
  <1> QED BY <1>1, <1>3, Lasts DEF LInv, ITyped, lvars, wvars

-----------------------------------------------------------------------------
(* The ledger's own steps write nothing.                                   *)
LEMMA LogKeeps ==
    ASSUME LInv, live' = live, links' = links, log' = log, asks' \in Seq(App)
    PROVE  ILog' /\ INamed' /\ IBack' /\ PairsTold' /\ LinksOK'
  <1>1. Now' = Now BY DEF Now
  <1>2. ILog' /\ PairsTold' BY LogTyped DEF LInv
  <1>3. INamed' BY <1>1, LogStays DEF LInv, INamed
  <1>4. IBack' BY <1>1, LogStays DEF LInv, IBack
  <1>5. LinksOK' BY <1>1, LogStays DEF LInv, LinksOK
  <1> QED BY <1>2, <1>3, <1>4, <1>5

(* A ledger that has just been started.                                    *)
Fresh ==
    /\ live \subseteq Node /\ links \subseteq Node \X Node /\ "ledger" \notin live
    /\ st = "waiting" /\ log = <<>> /\ asks = <<>> /\ begun = 0
    /\ cur = [j \in Journal |-> IF j = Public THEN 1 ELSE 0]
    /\ known = {} /\ channels = {} /\ writers = {} /\ DOMAIN states = {} /\ DOMAIN books = {}
    /\ since = [x \in Booked |-> 0] /\ subs = [x \in Booked |-> 0] /\ added = {}
    /\ informed = FALSE /\ seen = [b \in Broker |-> None]
    /\ last \in Journal /\ overtook = 0

LEMMA FreshHolds == Fresh => Inv
  <1> SUFFICES ASSUME Fresh PROVE Inv
    OBVIOUS
  <1> USE DEF Fresh
  <1>1. /\ Now = 0 /\ 1 .. Now = {} /\ log \in Seq(Entry) /\ asks \in Seq(App) /\ Len(asks) = 0
        /\ Unread = {} /\ cur[Public] = 1
    BY JournalNames DEF Now, Unread
  <1>2. ILog BY <1>1 DEF ILog
  <1>3. INamed /\ PairsTold /\ LinksOK BY <1>1 DEF INamed, PairsTold, LinksOK
  <1>4. IBack
    <2>1. \A n \in 0 .. Now : 1 .. n = {} BY <1>1
    <2> QED BY <2>1 DEF IBack
  <1>5. IDown BY DEF IDown
  <1>6. IType
    <2>1. begun \in 0 .. Now /\ cur \in [Journal -> 0 .. Now + 1]
          /\ since \in [Booked -> 0 .. Now] /\ subs \in [Booked -> 0 .. 2]
      BY <1>1
    <2> QED BY <2>1 DEF IType
  <1>7. IClient BY DEF IClient, Informed
  <1>8. ICur
    <2>1. \A a \in App : cur[<<a, "all">>] = 0 BY JournalNames, Names
    <2> QED BY <1>1, <2>1 DEF ICur, Up
  <1>9. IJoined /\ IPlace /\ IStates /\ IReach /\ Survives
    BY DEF IJoined, IPlace, IStates, IReach, Survives
  <1>10. IBooks BY DEF IBooks
  <1>11. IWait
    <2>1. 1 .. cur[Public] - 1 = {} BY <1>1
    <2> QED BY <1>1, <2>1 DEF IWait
  <1>12. LInv BY <1>2, <1>3, <1>4, <1>5, <1>6, <1>7, <1>8, <1>9, <1>10, <1>11 DEF LInv
  <1>13. last \in Journal /\ overtook \in 0 .. MaxOvertake
    BY LedgerAssumption
  <1> QED BY <1>12, <1>13 DEF Inv, ITyped, LInv

LEMMA FreshLater == Fresh' => Inv'
  BY FreshHolds, PTL

LEMMA LedgerStartKeeps ==
    ASSUME Inv, LedgerStart
    PROVE  Inv'
  <1>1. Nothing BY DownIsNothing DEF LedgerStart
  <1>2. cur' = [j \in Journal |-> IF j = Public THEN 1 ELSE 0]
    <2>1. \A j \in Journal : cur[j] = 0 BY <1>1 DEF Nothing
    <2>2. \A j \in Journal : (IF j \in {Public} /\ cur[j] = 0 THEN 0 + 1 ELSE cur[j])
                               = (IF j = Public THEN 1 ELSE 0)
      BY <2>1
    <2> QED BY <2>2 DEF LedgerStart, Join
  <1>3. cur' = [j \in Journal |-> IF j = Public THEN 1 ELSE 0]' BY <1>2 DEF Public
  <1>4. last' \in Journal' BY <1>1 DEF LedgerStart, Nothing, wvars, Journal, Public, Cmd
  <1>5. Fresh' BY <1>1, <1>3, <1>4 DEF LedgerStart, Nothing, Fresh, mvars, bvars, wvars, cvars
  <1> QED BY <1>5, FreshLater

(* What only concerns what the ledger has joined and where it is.          *)
LEMMA PlaceStays ==
    ASSUME LInv, UNCHANGED mvars, st' = st, begun' = begun, UNCHANGED rvars, states' = states,
           since' = since, added' = added
    PROVE  /\ ILog' /\ INamed' /\ IBack' /\ PairsTold' /\ LinksOK'
           /\ ICur' /\ IPlace' /\ IStates' /\ IReach' /\ Survives'
           /\ Now' = Now /\ Unread' = Unread
           /\ \A x, o : Entered(x, o)' = Entered(x, o)
           /\ \A i : Passed(i)' <=> Passed(i)
  <1>1. /\ live' = live /\ links' = links /\ log' = log /\ asks' = asks
        /\ cur' = cur /\ known' = known /\ channels' = channels /\ writers' = writers
    BY DEF mvars, rvars
  <1>2. Now' = Now /\ Unread' = Unread /\ (Up <=> Up')
    BY <1>1 DEF Now, Unread, Up
  <1>3. asks' \in Seq(App) BY <1>1 DEF LInv, ILog
  <1>4. ILog' /\ INamed' /\ IBack' /\ PairsTold' /\ LinksOK' BY <1>1, <1>3, LogKeeps
  <1>5. ICur' BY <1>1, <1>2 DEF LInv, ICur, Links, Deregisters
  <1>6. IPlace' BY <1>1, <1>2, LogStays DEF LInv, IPlace
  <1>7. IStates'
    <2>1. \A b : Said(b)' = Said(b) BY <1>1, LogStays DEF Said
    <2> QED BY <1>1, <2>1 DEF LInv, IStates
  <1>8. IReach' BY <1>1, <1>2 DEF LInv, IReach, Reaches, Registers, Grants, Locates
  <1>9. Survives' BY DEF LInv, Survives
  <1>10. \A i : Passed(i)' <=> Passed(i) BY <1>1 DEF Passed
  <1>11. \A x, o : Entered(x, o)' = Entered(x, o) BY <1>1, <1>2, <1>10 DEF Entered, Reports
  <1> QED BY <1>2, <1>4, <1>5, <1>6, <1>7, <1>8, <1>9, <1>10, <1>11

LEMMA StutterHolds ==
    ASSUME LInv, UNCHANGED vars
    PROVE  LInv'
  <1> USE DEF vars, mvars, lvars, rvars, bvars, cvars
  <1>1. /\ ILog' /\ INamed' /\ IBack' /\ PairsTold' /\ LinksOK'
        /\ ICur' /\ IPlace' /\ IStates' /\ IReach' /\ Survives'
        /\ Now' = Now
        /\ \A x, o : Entered(x, o)' = Entered(x, o)
        /\ \A i : Passed(i)' <=> Passed(i)
    BY PlaceStays
  <1>2. IDown' /\ IType' /\ IClient' BY <1>1 DEF LInv, IDown, IType, IClient, Informed
  <1>3. IWait' BY LogStays DEF LInv, IWait, Comes
  <1>4. IJoined' BY LogStays DEF LInv, IJoined, Joined
  <1>5. IBooks' BY <1>1 DEF LInv, IBooks
  <1> QED BY <1>1, <1>2, <1>3, <1>4, <1>5 DEF LInv

LEMMA StutterKeeps ==
    ASSUME Inv, UNCHANGED vars
    PROVE  Inv'
  <1> USE DEF vars, mvars, lvars, rvars, bvars, wvars, cvars
  <1>1. asks' \in Seq(App) BY DEF Inv, ITyped, ILog
  <1>2. ILog' /\ PairsTold' BY <1>1, LogTyped DEF Inv, ITyped
  <1>3. IType' /\ IClient'
    <2>1. Now' = Now BY DEF Now
    <2> QED BY <2>1 DEF Inv, ITyped, IType, IClient, Informed
  <1>4. overtook = 0 => LInv' BY StutterHolds DEF Inv
  <1> QED BY <1>2, <1>3, <1>4, Lasts DEF ITyped

LEMMA RefreshKeeps ==
    ASSUME Inv, Refresh
    PROVE  Inv'
  <1>0. /\ st = "started" /\ st' = st /\ informed' = TRUE
        /\ seen' = [b \in Broker |-> IF b \in DOMAIN states \cap known THEN states[b] ELSE seen[b]]
        /\ UNCHANGED <<live, links, log, asks, begun, cur, known, channels, writers, states,
                       books, since, subs, added, last, overtook>>
    BY DEF Refresh, mvars, lvars, rvars, bvars, wvars
  <1>1. Now' = Now /\ ILog' /\ PairsTold'
    <2>1. asks' \in Seq(App) BY <1>0 DEF Inv, ITyped, ILog
    <2> QED BY <1>0, <2>1, LogTyped DEF Inv, ITyped, Now
  <1>3. seen' \in [Broker -> State \cup {None}]
    BY <1>0 DEF Inv, ITyped, IType
  <1>4. IType' BY <1>0, <1>1, <1>3 DEF Inv, ITyped, IType
  <1>5. IClient'
    <2>1. ASSUME NEW b \in Broker
          PROVE  \/ b \in DOMAIN states /\ b \in known /\ seen'[b] = states[b]
                 \/ b \notin DOMAIN states /\ seen'[b] \in {None, "DisConnected"}
      <3>1. b \in DOMAIN states <=> b \in known BY DEF Inv, ITyped, IType
      <3>2. CASE b \in DOMAIN states BY <1>0, <3>1, <3>2
      <3>3. CASE b \notin DOMAIN states
        <4>1. seen'[b] = seen[b] BY <1>0, <3>3
        <4>2. seen[b] \in {None, "DisConnected"} BY <3>3 DEF Inv, ITyped, IClient, Informed
        <4> QED BY <3>3, <4>1, <4>2
      <3> QED BY <3>2, <3>3
    <2> QED BY <1>0, <2>1 DEF IClient, Informed
  <1>6. ASSUME LInv PROVE LInv'
    <2>1. /\ ILog' /\ INamed' /\ IBack' /\ PairsTold' /\ LinksOK'
          /\ ICur' /\ IPlace' /\ IStates' /\ IReach' /\ Survives'
          /\ \A x, o : Entered(x, o)' = Entered(x, o)
          /\ \A i : Passed(i)' <=> Passed(i)
      BY <1>0, <1>6, PlaceStays DEF mvars, rvars
    <2>2. IDown' BY <1>0, <1>6 DEF LInv, IDown
    <2>3. IWait' /\ IJoined' BY <1>0 DEF IWait, IJoined, Joined
    <2>4. IBooks' BY <1>0, <1>6, <2>1 DEF LInv, IBooks
    <2> QED BY <1>4, <1>5, <2>1, <2>2, <2>3, <2>4 DEF LInv
  <1> QED BY <1>0, <1>1, <1>4, <1>5, <1>6, Lasts DEF Inv, ITyped

LEMMA RemoveStrategyKeeps ==
    ASSUME Inv, NEW s \in Strategy, RemoveStrategy(s)
    PROVE  Inv'
  <1>0. /\ st = "started" /\ st' = st
        /\ books' = [x \in DOMAIN books \ {s} |-> books[x]]
        /\ subs' = [subs EXCEPT ![s] = 0]
        /\ UNCHANGED <<live, links, log, asks, begun, cur, known, channels, writers, states,
                       since, added, last, overtook, informed, seen>>
    BY DEF RemoveStrategy, mvars, rvars, wvars, cvars
  <1>1. Now' = Now /\ ILog' /\ PairsTold'
    <2>1. asks' \in Seq(App) BY <1>0 DEF Inv, ITyped, ILog
    <2> QED BY <1>0, <2>1, LogTyped DEF Inv, ITyped, Now
  <1>3. /\ subs \in [Booked -> 0 .. 2] /\ DOMAIN books \subseteq Booked
        /\ \A x \in DOMAIN books : books[x] \subseteq OrderId
    BY DEF Inv, ITyped, IType
  <1>4. /\ subs' \in [Booked -> 0 .. 2] /\ DOMAIN books' = DOMAIN books \ {s}
        /\ \A x \in DOMAIN books' : books'[x] = books[x] /\ subs'[x] = subs[x]
        /\ \A x \in Booked : subs'[x] > 0 => subs[x] > 0 /\ x # s
    <2>1. s \in Booked BY Names
    <2>2. subs' \in [Booked -> 0 .. 2]
      <3>1. 0 \in 0 .. 2 OBVIOUS
      <3> DEFINE T == 0 .. 2
      <3> HIDE DEF T
      <3>2. subs' \in [Booked -> T] BY <1>0, <1>3, <3>1 DEF T
      <3> QED BY <3>2 DEF T
    <2>3. DOMAIN books' = DOMAIN books \ {s} /\ \A x \in DOMAIN books' : books'[x] = books[x]
      BY <1>0
    <2>4. \A x \in Booked : x # s => subs'[x] = subs[x] BY <1>0, <1>3
    <2>5. subs'[s] = 0 BY <1>0, <1>3, <2>1
    <2> QED BY <1>3, <2>2, <2>3, <2>4, <2>5
  <1>5. IType'
    <2>1. DOMAIN books' \subseteq Booked /\ \A x \in DOMAIN books' : books'[x] \subseteq OrderId
      BY <1>3, <1>4
    <2> QED BY <1>0, <1>1, <1>4, <2>1 DEF Inv, ITyped, IType
  <1>6. IClient' BY <1>0 DEF Inv, ITyped, IClient, Informed
  <1>7. ASSUME LInv PROVE LInv'
    <2>1. /\ ILog' /\ INamed' /\ IBack' /\ PairsTold' /\ LinksOK'
          /\ ICur' /\ IPlace' /\ IStates' /\ IReach' /\ Survives'
          /\ \A x, o : Entered(x, o)' = Entered(x, o)
          /\ \A i : Passed(i)' <=> Passed(i)
      BY <1>0, <1>7, PlaceStays DEF mvars, rvars
    <2>2. IDown' BY <1>0, <1>7 DEF LInv, IDown
    <2>3. IWait' /\ IJoined' BY <1>0 DEF IWait, IJoined, Joined
    <2>4. IBooks'
      <3>1. \A x \in Booked : subs'[x] > 0 => x \in DOMAIN books' /\ Passed(since[x])
        BY <1>0, <1>4, <1>7 DEF LInv, IBooks
      <3>2. \A x \in DOMAIN books' :
               /\ subs'[x] = 0 => books'[x] = {}
               /\ subs'[x] > 0 => \A o \in OrderId :
                     o \in books'[x] <=> \E i \in Entered(x, o) :
                       log[i].arg.active /\ \A k \in Entered(x, o) : k <= i
        BY <1>0, <1>4, <1>7 DEF LInv, IBooks
      <3> QED BY <1>0, <2>1, <3>1, <3>2 DEF IBooks
    <2> QED BY <1>5, <1>6, <2>1, <2>2, <2>3, <2>4 DEF LInv
  <1> QED BY <1>0, <1>1, <1>5, <1>6, <1>7, Lasts DEF Inv, ITyped

-----------------------------------------------------------------------------
(* What is read, in whatever order, leaves the ledger well-formed.         *)
(* The cursors after a turn. *)
At(i) == [cur EXCEPT ![log[i].j] = i + 1]

LEMMA UnreadIs ==
    ASSUME ITyped, NEW i \in Unread
    PROVE  /\ i \in 1 .. Now /\ Now \in Nat /\ i \in Nat /\ i \in 0 .. Now /\ i \in 0 .. i
           /\ log[i] \in Entry /\ log[i].j \in Journal /\ Shape(log[i])
           /\ cur[log[i].j] \in 1 .. i
           /\ cur \in [Journal -> 0 .. Now + 1]
           /\ At(i) \in [Journal -> 0 .. Now + 1]
  <1>1. log \in Seq(Entry) /\ Now \in Nat BY DEF ITyped, ILog, Now
  <1>2. i \in 1 .. Now /\ cur[log[i].j] # 0 /\ cur[log[i].j] <= i BY DEF Unread
  <1>3. log[i] \in Entry /\ Shape(log[i]) BY <1>1, <1>2 DEF ITyped, ILog, Now
  <1>4. log[i].j \in Journal BY <1>3 DEF Entry
  <1>5. cur \in [Journal -> 0 .. Now + 1] BY DEF ITyped, IType
  <1>6. cur[log[i].j] \in 0 .. Now + 1 BY <1>4, <1>5
  <1>7. i + 1 \in 0 .. Now + 1 BY <1>1, <1>2
  <1>8. At(i) \in [Journal -> 0 .. Now + 1]
    <2> DEFINE T == 0 .. Now + 1
    <2> HIDE DEF T
    <2>1. cur \in [Journal -> T] /\ i + 1 \in T BY <1>5, <1>7 DEF T
    <2>2. At(i) \in [Journal -> T] BY <2>1 DEF At
    <2> QED BY <2>2 DEF T
  <1> QED BY <1>1, <1>2, <1>3, <1>4, <1>5, <1>6, <1>8

LEMMA JoinTyped ==
    ASSUME NEW N \in Nat, NEW c \in [Journal -> 0 .. N + 1], NEW X, NEW t \in 0 .. N
    PROVE  Join(c, X, t) \in [Journal -> 0 .. N + 1]
  <1> DEFINE T == 0 .. N + 1
  <1>1. t + 1 \in T OBVIOUS
  <1> HIDE DEF T
  <1>2. c \in [Journal -> T] BY DEF T
  <1>3. Join(c, X, t) \in [Journal -> T] BY <1>1, <1>2 DEF Join
  <1> QED BY <1>3 DEF T

LEMMA DisjoinTyped ==
    ASSUME NEW N \in Nat, NEW c \in [Journal -> 0 .. N + 1], NEW a
    PROVE  Disjoin(c, a) \in [Journal -> 0 .. N + 1]
  <1> DEFINE T == 0 .. N + 1
  <1>1. 0 \in T OBVIOUS
  <1> HIDE DEF T
  <1>2. c \in [Journal -> T] BY DEF T
  <1>3. Disjoin(c, a) \in [Journal -> T] BY <1>1, <1>2 DEF Disjoin
  <1> QED BY <1>3 DEF T

(* A frame by which no broker comes, goes or reports.                      *)
LEMMA QuietTyped ==
    ASSUME ITyped, log' = log, st' \in {"joined", "started", "failed", "threw", st},
           informed => st' \in {"started", "threw"},
           begun' \in 0 .. Now, cur' \in [Journal -> 0 .. Now + 1],
           known' \subseteq Node, known' \cap Broker = known \cap Broker,
           channels' \subseteq Node \X Node, writers' \subseteq Node \cup {"master"},
           DOMAIN books' \subseteq Booked, \A x \in DOMAIN books' : books'[x] \subseteq OrderId,
           UNCHANGED <<states, since, subs, added, seen, informed>>
    PROVE  IType' /\ IClient'
  <1>1. Now' = Now BY DEF Now
  <1>2. IType' BY <1>1 DEF ITyped, IType
  <1>3. IClient'
    <2>1. ASSUME NEW b \in Broker, informed
          PROVE  \/ b \in DOMAIN states' /\ b \in known' /\ seen'[b] = states'[b]
                 \/ b \notin DOMAIN states' /\ seen'[b] \in {None, "DisConnected"}
      <3>1. \/ b \in DOMAIN states /\ b \in known /\ seen[b] = states[b]
            \/ b \notin DOMAIN states /\ seen[b] \in {None, "DisConnected"}
        BY <2>1 DEF ITyped, IClient, Informed
      <3> QED BY <3>1
    <2> QED BY <2>1 DEF ITyped, IClient, Informed
  <1> QED BY <1>2, <1>3

LEMMA BooksTyped ==
    ASSUME ITyped, NEW i \in Unread, NEW a \in App, NEW t, Learn(a, At(i), i, t)
    PROVE  /\ DOMAIN books' \subseteq Booked /\ DOMAIN books \subseteq DOMAIN books'
           /\ \A x \in DOMAIN books : books'[x] = books[x]
           /\ \A x \in DOMAIN books' : x \in DOMAIN books \/ (x = a /\ books'[x] = {})
           /\ \A x \in Booked \ {a} : since'[x] = since[x] /\ subs'[x] = subs[x]
           /\ a \in Booked => /\ a \in DOMAIN books' /\ subs'[a] > 0
                              /\ since'[a] = IF subs[a] = 0 THEN i ELSE since[a]
           /\ since' \in [Booked -> 0 .. Now] /\ subs' \in [Booked -> 0 .. 2]
           /\ added' \subseteq Booked
  <1>1. i \in 1 .. Now /\ Now \in Nat BY UnreadIs
  <1>2. /\ DOMAIN books \subseteq Booked
        /\ since \in [Booked -> 0 .. Now] /\ subs \in [Booked -> 0 .. 2] /\ added \subseteq Booked
    BY DEF ITyped, IType
  <1>3. CASE a \in Booked
    <2>1. /\ books' = GetBook(a)
          /\ since' = [since EXCEPT ![a] = IF subs[a] = 0 THEN i ELSE @]
          /\ subs' = [subs EXCEPT ![a] = IF @ = 2 THEN 2 ELSE @ + 1]
          /\ added' = added \cup {a}
      BY <1>3 DEF Learn, AddBook
    <2>2. /\ DOMAIN books' = DOMAIN books \cup {a}
          /\ \A x \in DOMAIN books : books'[x] = books[x]
          /\ a \notin DOMAIN books => books'[a] = {}
      <3>1. CASE a \in DOMAIN books BY <2>1, <3>1 DEF GetBook
      <3>2. CASE a \notin DOMAIN books BY <2>1, <3>2 DEF GetBook, Put
      <3> QED BY <3>1, <3>2
    <2>3. /\ since'[a] = IF subs[a] = 0 THEN i ELSE since[a]
          /\ \A x \in Booked \ {a} : since'[x] = since[x]
      BY <1>2, <1>3, <2>1
    <2>4. since' \in [Booked -> 0 .. Now]
      <3> DEFINE T == 0 .. Now
      <3> HIDE DEF T
      <3>1. i \in T /\ since \in [Booked -> T] BY <1>1, <1>2 DEF T
      <3>2. since' \in [Booked -> T] BY <1>3, <2>1, <3>1
      <3> QED BY <3>2 DEF T
    <2>5. subs[a] \in 0 .. 2 BY <1>2, <1>3
    <2>6. /\ subs'[a] = (IF subs[a] = 2 THEN 2 ELSE subs[a] + 1)
          /\ \A x \in Booked \ {a} : subs'[x] = subs[x]
      BY <1>2, <1>3, <2>1
    <2>7. subs' \in [Booked -> 0 .. 2]
      <3> DEFINE T == 0 .. 2
      <3>1. (IF subs[a] = 2 THEN 2 ELSE subs[a] + 1) \in T BY <2>5
      <3> HIDE DEF T
      <3>2. subs \in [Booked -> T] BY <1>2 DEF T
      <3>3. subs' \in [Booked -> T] BY <1>3, <2>1, <3>1, <3>2
      <3> QED BY <3>3 DEF T
    <2>8. subs'[a] > 0 BY <2>5, <2>6
    <2> QED BY <1>2, <1>3, <2>1, <2>2, <2>3, <2>4, <2>6, <2>7, <2>8
  <1>4. CASE a \notin Booked
    <2>1. books' = books /\ since' = since /\ subs' = subs /\ added' = added
      BY <1>4 DEF Learn, bvars
    <2> QED BY <1>2, <1>4, <2>1
  <1> QED BY <1>3, <1>4

LEMMA LearnTyped ==
    ASSUME ITyped, NEW i \in Unread, live' = live, links' = links, log' = log,
           NEW a \in App, a \notin known, NEW t \in 0 .. i, Learn(a, At(i), i, t)
    PROVE  /\ IType' /\ IClient' /\ asks' \in Seq(App)
           /\ \A k \in 1 .. Len(asks) : k \in 1 .. Len(asks') /\ asks'[k] = asks[k]
           /\ \E k \in 1 .. Len(asks') : asks'[k] = a
           /\ \A b \in known \cap Broker : states'[b] = states[b]
           /\ a \in Broker => states'[a] = "Connected"
  <1>1. /\ known' = known \cup {a} /\ asks' = Append(asks, a)
        /\ UNCHANGED <<st, begun, channels, writers, informed>>
    BY DEF Learn
  <1>2. asks \in Seq(App) BY DEF ITyped, ILog
  <1>3. /\ asks' \in Seq(App) /\ Len(asks) \in Nat /\ Len(asks') = Len(asks) + 1
        /\ asks'[Len(asks) + 1] = a
        /\ \A k \in 1 .. Len(asks) : asks'[k] = asks[k]
    BY <1>1, <1>2, AppendElements
  <1>4. /\ \A k \in 1 .. Len(asks) : k \in 1 .. Len(asks') /\ asks'[k] = asks[k]
        /\ \E k \in 1 .. Len(asks') : asks'[k] = a
    <2>1. Len(asks) + 1 \in 1 .. Len(asks') BY <1>3
    <2>2. \A k \in 1 .. Len(asks) : k \in 1 .. Len(asks') BY <1>3
    <2> QED BY <1>3, <2>1, <2>2
  <1>5. /\ DOMAIN states = known \cap Broker /\ \A b \in DOMAIN states : states[b] \in State
        /\ seen \in [Broker -> State \cup {None}] /\ a \in Node /\ known \subseteq Node
    BY Names DEF ITyped, IType
  <1>6. /\ DOMAIN states' = known' \cap Broker
        /\ \A b \in known \cap Broker : states'[b] = states[b]
        /\ a \in Broker => states'[a] = "Connected"
        /\ seen' = IF a \in Broker /\ informed THEN [seen EXCEPT ![a] = "Connected"] ELSE seen
    <2>1. CASE a \in Broker
      <3>1. /\ states' = Put(states, a, "Connected")
            /\ seen' = IF informed THEN [seen EXCEPT ![a] = "Connected"] ELSE seen
        BY <2>1 DEF Learn, UpdateBrokerState
      <3>2. DOMAIN states' = DOMAIN states \cup {a} BY <3>1 DEF Put
      <3>3. states'[a] = "Connected" BY <3>1 DEF Put
      <3>4. \A b \in DOMAIN states : b # a => states'[b] = states[b] BY <3>1 DEF Put
      <3>5. DOMAIN states' = known' \cap Broker BY <1>1, <1>5, <2>1, <3>2
      <3> QED BY <1>5, <2>1, <3>1, <3>3, <3>4, <3>5
    <2>2. CASE a \notin Broker
      <3>1. states' = states /\ seen' = seen BY <2>2 DEF Learn
      <3>2. known' \cap Broker = known \cap Broker BY <1>1, <2>2
      <3> QED BY <1>5, <2>2, <3>1, <3>2
    <2> QED BY <2>1, <2>2
  <1>7. "Connected" \in State BY DEF State
  <1>8. \A b \in DOMAIN states' : states'[b] \in State
    BY <1>1, <1>5, <1>6, <1>7
  <1>9. seen' \in [Broker -> State \cup {None}] BY <1>5, <1>6, <1>7
  <1>10. IType'
    <2>1. Now' = Now BY DEF Now
    <2>2. cur' \in [Journal -> 0 .. Now + 1]
      <3>1. /\ Now \in Nat /\ i \in 0 .. Now /\ At(i) \in [Journal -> 0 .. Now + 1] BY UnreadIs
      <3>2. t \in 0 .. Now BY <3>1
      <3>3. Watch(a, At(i), t) \in [Journal -> 0 .. Now + 1]
        BY <3>1, <3>2, JoinTyped DEF Watch
      <3>4. \A X : Join(Watch(a, At(i), t), X, i) \in [Journal -> 0 .. Now + 1]
        BY <3>1, <3>3, JoinTyped
      <3> QED BY <3>3, <3>4 DEF Learn
    <2>3. /\ DOMAIN books' \subseteq Booked
          /\ since' \in [Booked -> 0 .. Now] /\ subs' \in [Booked -> 0 .. 2] /\ added' \subseteq Booked
          /\ \A x \in DOMAIN books' : books'[x] \subseteq OrderId
      <3>1. \A x \in DOMAIN books : books[x] \subseteq OrderId BY DEF ITyped, IType
      <3> QED BY <3>1, BooksTyped
    <2>4. known' \subseteq Node BY <1>1, <1>5
    <2> QED BY <1>1, <1>6, <1>8, <1>9, <2>1, <2>2, <2>3, <2>4 DEF ITyped, IType
  <1>11. IClient'
    <2>1. ASSUME NEW b \in Broker, informed
          PROVE  \/ b \in DOMAIN states' /\ b \in known' /\ seen'[b] = states'[b]
                 \/ b \notin DOMAIN states' /\ seen'[b] \in {None, "DisConnected"}
      <3>1. \/ b \in DOMAIN states /\ b \in known /\ seen[b] = states[b]
            \/ b \notin DOMAIN states /\ seen[b] \in {None, "DisConnected"}
        BY <2>1 DEF ITyped, IClient, Informed
      <3>2. CASE b = a
        <4>1. seen'[b] = "Connected" BY <1>5, <1>6, <2>1, <3>2
        <4> QED BY <1>1, <1>6, <2>1, <3>2, <4>1
      <3>3. CASE b # a
        <4>1. seen'[b] = seen[b] BY <1>5, <1>6, <2>1, <3>3
        <4> QED BY <1>1, <1>5, <1>6, <3>1, <3>3, <4>1
      <3> QED BY <3>2, <3>3
    <2>2. ASSUME ~informed PROVE seen' = [b \in Broker |-> None]
      BY <1>6, <2>2 DEF ITyped, IClient
    <2> QED BY <1>1, <2>1, <2>2 DEF ITyped, IClient, Informed
  <1> QED BY <1>3, <1>4, <1>6, <1>10, <1>11

LEMMA LocationTyped ==
    ASSUME ITyped, Up, NEW i \in Unread, live' = live, links' = links, log' = log,
           NEW a \in Node, NEW t \in 0 .. i, RegisterLocation(a, At(i), i, t)
    PROVE  IType' /\ IClient' /\ asks' \in Seq(App)
  <1>1. /\ At(i) \in [Journal -> 0 .. Now + 1] /\ asks \in Seq(App)
        /\ known \subseteq Node /\ channels \subseteq Node \X Node
        /\ writers \subseteq Node \cup {"master"} /\ begun \in 0 .. Now
        /\ DOMAIN books \subseteq Booked /\ \A x \in DOMAIN books : books[x] \subseteq OrderId
        /\ informed => st = "started"
    BY UnreadIs DEF ITyped, ILog, IType, IClient, Up
  <1>2. CASE /\ a \in known \cup {"ledger"} /\ known' = known \cup {a} /\ cur' = At(i)
             /\ UNCHANGED <<asks, st, begun, channels, writers, states, bvars, cvars>>
    <2>1. known' \cap Broker = known \cap Broker BY <1>2, Names
    <2>2. known' \subseteq Node BY <1>1, <1>2
    <2>3. UNCHANGED <<asks, st, begun, channels, writers, states, books, since, subs, added,
                      seen, informed>>
      BY <1>2 DEF bvars, cvars
    <2> QED BY <1>1, <1>2, <2>1, <2>2, <2>3, QuietTyped
  <1>3. CASE /\ Throws /\ cur' = At(i)
             /\ UNCHANGED <<asks, begun, known, channels, writers, states, bvars, cvars>>
    <2>1. UNCHANGED <<asks, begun, known, channels, writers, states, books, since, subs, added,
                      seen, informed>>
      BY <1>3 DEF bvars, cvars
    <2>2. st' \in {"failed", "threw"} /\ (informed => st' = "threw") BY <1>1, <1>3 DEF Throws
    <2> QED BY <1>1, <1>3, <2>1, <2>2, QuietTyped
  <1>4. CASE a \notin known \cup {"ledger"} /\ Learn(a, At(i), i, t)
    <2>1. a \in App /\ a \notin known BY <1>4 DEF Node
    <2> QED BY <1>4, <2>1, LearnTyped
  <1> QED BY <1>2, <1>3, <1>4 DEF RegisterLocation

LEMMA RegisterTyped ==
    ASSUME ITyped, Up, NEW i \in Unread, live' = live, links' = links, log' = log,
           log[i].typ = "Register", OnRegister(log[i], At(i), i)
    PROVE  IType' /\ IClient' /\ asks' \in Seq(App)
  <1>1. /\ At(i) \in [Journal -> 0 .. Now + 1] /\ Now \in Nat /\ i \in 0 .. Now /\ i \in 0 .. i
        /\ log[i].arg \in Node /\ asks \in Seq(App)
    BY UnreadIs DEF Shape, ITyped, ILog
  <1>2. CASE st = "waiting" /\ log[i].arg = "ledger"
    <2>1. CASE /\ st' = "joined" /\ known' = known \cup {"ledger"}
               /\ cur' = Join(At(i), {Cmd("ledger")}, i)
               /\ UNCHANGED <<asks, begun, channels, writers, states, bvars, cvars>>
      <3>1. known' \cap Broker = known \cap Broker BY <2>1, Names
      <3>2. known' \subseteq Node BY <2>1, Names DEF ITyped, IType
      <3>3. UNCHANGED <<asks, begun, channels, writers, states, books, since, subs, added,
                        seen, informed>>
        BY <2>1 DEF bvars, cvars
      <3>4. cur' \in [Journal -> 0 .. Now + 1] BY <1>1, <2>1, JoinTyped
      <3>5. ~informed BY <1>2 DEF ITyped, IClient
      <3>6. /\ channels \subseteq Node \X Node /\ writers \subseteq Node \cup {"master"}
            /\ begun \in 0 .. Now /\ DOMAIN books \subseteq Booked
            /\ \A x \in DOMAIN books : books[x] \subseteq OrderId
        BY DEF ITyped, IType
      <3> QED BY <1>1, <2>1, <3>1, <3>2, <3>3, <3>4, <3>5, <3>6, QuietTyped
    <2> QED BY <1>2, <2>1 DEF OnRegister
  <1>3. CASE ~(st = "waiting" /\ log[i].arg = "ledger")
    <2>1. RegisterLocation(log[i].arg, At(i), i, i) BY <1>3 DEF OnRegister
    <2> QED BY <1>1, <2>1, LocationTyped
  <1> QED BY <1>2, <1>3

(* What a Location frame tells came after the registration it belongs to.  *)
LEMMA AnnouncedTyped ==
    ASSUME ITyped, NEW i \in Unread, log[i].typ = "Location"
    PROVE  log[i].arg \in Node /\ Announced(log[i].j[2], i) \in 0 .. i
  <1>1. /\ i \in 1 .. Now /\ i \in Nat /\ Shape(log[i]) BY UnreadIs
  <1>2. PICK a \in Node : log[i].j = Cmd(a) BY <1>1 DEF Shape
  <1>3. log[i].j # Public /\ log[i].j[2] = a
    <2>1. log[i].j # Public BY <1>2, JournalNames
    <2>2. log[i].j[2] = a BY <1>2 DEF Cmd
    <2> QED BY <2>1, <2>2
  <1>4. PICK m \in 1 .. i - 1 : Registers(m, a) BY <1>1, <1>3 DEF ITyped, PairsTold
  <1> DEFINE R == {k \in 1 .. i : log[k].typ = "Register" /\ log[k].arg = a}
  <1>5. R \subseteq 0 .. i /\ m \in R BY <1>1, <1>4 DEF Registers
  <1>6. Max(R) \in R
    <2> HIDE DEF R
    <2> QED BY <1>1, <1>5, MaxIs
  <1>7. Announced(a, i) = IF a = "ledger" THEN 0 ELSE Max(R) BY DEF Announced
  <1>8. Announced(a, i) \in 0 .. i
    <2> HIDE DEF R
    <2>1. 0 \in 0 .. i BY <1>1
    <2> QED BY <1>5, <1>6, <1>7, <2>1
  <1> QED BY <1>1, <1>3, <1>8 DEF Shape

LEMMA DeregisterTyped ==
    ASSUME ITyped, NEW i \in Unread, log' = log,
           log[i].typ = "Deregister", OnDeregister(log[i], At(i), i), NEW a, a = log[i].arg
    PROVE  /\ IType' /\ IClient'
           /\ \A b \in known' \cap Broker : states'[b] = states[b]
  <1>1. /\ At(i) \in [Journal -> 0 .. Now + 1] /\ cur \in [Journal -> 0 .. Now + 1]
        /\ Now \in Nat
    BY UnreadIs
  <1>2. cur' \in [Journal -> 0 .. Now + 1]
    <2>1. CASE cur' = Disjoin(At(i), a) BY <1>1, <2>1, DisjoinTyped
    <2>2. ASSUME NEW k \in Heads, cur' = PassOver(k, a) PROVE cur' \in [Journal -> 0 .. Now + 1]
      <3>1. k \in Unread BY DEF Heads
      <3>2. At(k) \in [Journal -> 0 .. Now + 1] BY <3>1, UnreadIs
      <3>3. cur' = Disjoin(At(k), a) BY <2>2 DEF PassOver, At
      <3> QED BY <1>1, <3>2, <3>3, DisjoinTyped
    <2> QED BY <2>1, <2>2 DEF OnDeregister
  <1>3. /\ known' = known \ {a}
        /\ channels' = {x \in channels : x[1] # a}
        /\ states' = [b \in DOMAIN states \ {a} |-> states[b]]
        /\ seen' = IF informed /\ a \in known \cap Broker THEN [seen EXCEPT ![a] = "DisConnected"]
                   ELSE seen
        /\ UNCHANGED <<asks, st, begun, writers, bvars, informed>>
    BY DEF OnDeregister
  <1>4. /\ DOMAIN states' = known' \cap Broker
         /\ \A b \in known' \cap Broker : states'[b] = states[b] /\ states'[b] \in State
    <2>1. DOMAIN states = known \cap Broker /\ \A b \in DOMAIN states : states[b] \in State
      BY DEF ITyped, IType
    <2>2. DOMAIN states' = DOMAIN states \ {a} /\ \A b \in DOMAIN states \ {a} : states'[b] = states[b]
      BY <1>3
    <2> QED BY <1>3, <2>1, <2>2
  <1>5. IType'
    <2>1. Now' = Now BY DEF Now
    <2>2. seen' \in [Broker -> State \cup {None}]
      <3>1. "DisConnected" \in State BY DEF State
      <3> QED BY <1>3, <3>1 DEF ITyped, IType
    <2>3. known' \subseteq Node /\ channels' \subseteq Node \X Node BY <1>3 DEF ITyped, IType
    <2> QED BY <1>2, <1>3, <1>4, <2>1, <2>2, <2>3 DEF ITyped, IType, bvars
  <1>6. IClient'
    <2>1. ASSUME NEW b \in Broker, informed
          PROVE  \/ b \in DOMAIN states' /\ b \in known' /\ seen'[b] = states'[b]
                 \/ b \notin DOMAIN states' /\ seen'[b] \in {None, "DisConnected"}
      <3>1. \/ b \in DOMAIN states /\ b \in known /\ seen[b] = states[b]
            \/ b \notin DOMAIN states /\ seen[b] \in {None, "DisConnected"}
        BY <2>1 DEF ITyped, IClient, Informed
      <3>2. seen \in [Broker -> State \cup {None}] /\ DOMAIN states = known \cap Broker
        BY DEF ITyped, IType
      <3>3. CASE b = a
        <4>1. b \notin DOMAIN states' BY <1>3, <1>4, <3>3
        <4>2. CASE a \in known
          <5>1. seen' = [seen EXCEPT ![a] = "DisConnected"] BY <1>3, <2>1, <3>3, <4>2
          <5>2. seen'[b] = "DisConnected" BY <3>2, <3>3, <5>1
          <5> QED BY <4>1, <5>2
        <4>3. CASE a \notin known
          <5>1. seen' = seen /\ b \notin DOMAIN states BY <1>3, <3>2, <3>3, <4>3
          <5> QED BY <3>1, <4>1, <5>1
        <4> QED BY <4>2, <4>3
      <3>4. CASE b # a
        <4>1. seen'[b] = seen[b] BY <1>3, <3>2, <3>4
        <4>2. b \in known' <=> b \in known BY <1>3, <3>4
        <4> QED BY <1>4, <2>1, <3>1, <3>2, <4>1, <4>2
      <3> QED BY <3>3, <3>4
    <2>2. ASSUME ~informed PROVE seen' = [b \in Broker |-> None]
      BY <1>3, <2>2 DEF ITyped, IClient
    <2> QED BY <1>3, <2>1, <2>2 DEF ITyped, IClient, Informed
  <1> QED BY <1>4, <1>5, <1>6

LEMMA BrokerStateTyped ==
    ASSUME ITyped, Up, NEW i \in Unread, log' = log,
           log[i].typ = "BrokerState", OnBrokerState(log[i], At(i))
    PROVE  IType' /\ IClient'
  <1>1. /\ At(i) \in [Journal -> 0 .. Now + 1] /\ Shape(log[i]) BY UnreadIs
  <1> PICK f : f = log[i] OBVIOUS
  <1>2. PICK b \in Broker : f.j = <<b, "all">> BY <1>1 DEF Shape
  <1>3. f.j[1] = b /\ f.arg \in Report BY <1>1, <1>2 DEF Shape
  <1>4. /\ cur' = At(i)
        /\ UNCHANGED <<asks, begun, known, channels, writers, books, since, subs, added, informed>>
    BY DEF OnBrokerState, bvars
  <1>5. CASE states' = states /\ seen' = seen /\ st' \in {st, "failed", "threw"}
                 /\ (informed => st' \in {"started", "threw"})
    BY <1>1, <1>4, <1>5, QuietTyped DEF ITyped, IType
  <1>6. CASE /\ b \in known /\ st' = st /\ states' = Put(states, b, f.arg)
             /\ seen' = IF informed THEN [seen EXCEPT ![b] = f.arg] ELSE seen
    <2>1. b \in DOMAIN states /\ f.arg \in State BY <1>3, <1>6 DEF ITyped, IType, State
    <2>2. /\ DOMAIN states' = DOMAIN states /\ states'[b] = f.arg
          /\ \A x \in DOMAIN states : x # b => states'[x] = states[x]
      <3> PICK S : S = states OBVIOUS
      <3> PICK y : y = f.arg OBVIOUS
      <3>1. /\ DOMAIN Put(S, b, y) = DOMAIN S \cup {b}
            /\ Put(S, b, y)[b] = y
            /\ \A z \in DOMAIN S : z # b => Put(S, b, y)[z] = S[z]
        BY DEF Put
      <3>2. states' = Put(S, b, y) BY <1>6
      <3> QED BY <2>1, <3>1, <3>2
    <2>3. IType'
      <3>1. Now' = Now BY DEF Now
      <3>2. seen' \in [Broker -> State \cup {None}] BY <1>6, <2>1 DEF ITyped, IType
      <3>3. DOMAIN states' = known' \cap Broker /\ \A x \in DOMAIN states' : states'[x] \in State
        BY <1>4, <2>1, <2>2 DEF ITyped, IType
      <3> QED BY <1>1, <1>4, <1>6, <3>1, <3>2, <3>3 DEF ITyped, IType
    <2>4. IClient'
      <3>1. ASSUME NEW x \in Broker, informed
            PROVE  \/ x \in DOMAIN states' /\ x \in known' /\ seen'[x] = states'[x]
                   \/ x \notin DOMAIN states' /\ seen'[x] \in {None, "DisConnected"}
        <4>1. seen' = [seen EXCEPT ![b] = f.arg] /\ seen \in [Broker -> State \cup {None}]
          BY <1>6, <3>1 DEF ITyped, IType
        <4>2. (x # b => seen'[x] = seen[x]) /\ seen'[b] = f.arg BY <4>1
        <4>3. \/ x \in DOMAIN states /\ x \in known /\ seen[x] = states[x]
              \/ x \notin DOMAIN states /\ seen[x] \in {None, "DisConnected"}
          BY <3>1 DEF ITyped, IClient, Informed
        <4> QED BY <1>4, <1>6, <2>1, <2>2, <4>2, <4>3
      <3> QED BY <1>4, <1>6, <3>1 DEF ITyped, IClient, Informed
    <2> QED BY <2>3, <2>4
  <1>7. informed => st = "started" BY DEF ITyped, IClient, Up
  <1> QED BY <1>3, <1>5, <1>6, <1>7 DEF OnBrokerState, UpdateBrokerState, Throws

LEMMA OrderTyped ==
    ASSUME ITyped, Up, NEW i \in Unread, log' = log, log[i].typ = "Order", OnOrder(log[i], At(i))
    PROVE  IType' /\ IClient'
  <1>1. At(i) \in [Journal -> 0 .. Now + 1] /\ Shape(log[i]) BY UnreadIs
  <1> PICK r : r = log[i].arg OBVIOUS
  <1>2. r.id \in OrderId BY <1>1 DEF Shape
  <1>3. /\ DOMAIN books \subseteq Booked /\ \A x \in DOMAIN books : books[x] \subseteq OrderId
        /\ \A x \in Booked : subs[x] \in 0 .. 2
    BY DEF ITyped, IType
  <1>4. /\ cur' = At(i)
        /\ books' = [x \in DOMAIN books |->
                       IF x = log[i].j[IF x \in TD THEN 1 ELSE 2] THEN Applied(x, r) ELSE books[x]]
        /\ UNCHANGED <<asks, st, begun, known, channels, writers, states, since, subs, added,
                       seen, informed>>
    BY DEF OnOrder, cvars
  <1>5. ASSUME NEW x \in DOMAIN books PROVE Applied(x, r) \subseteq OrderId
    <2>1. subs[x] = 0 \/ subs[x] = 1 \/ subs[x] = 2 BY <1>3
    <2>2. \A B : B \subseteq OrderId => BookOnOrder(B, r) \subseteq OrderId
      BY <1>2 DEF BookOnOrder
    <2>3. CASE subs[x] = 0 BY <1>3, <2>3 DEF Applied
    <2>4. CASE subs[x] = 1 BY <1>3, <2>2, <2>4 DEF Applied
    <2>5. CASE subs[x] = 2 BY <1>3, <2>2, <2>5 DEF Applied
    <2> QED BY <2>1, <2>3, <2>4, <2>5
  <1>6. DOMAIN books' \subseteq Booked /\ \A x \in DOMAIN books' : books'[x] \subseteq OrderId
    BY <1>3, <1>4, <1>5
  <1>7. informed => st = "started" BY DEF ITyped, IClient, Up
  <1> QED BY <1>1, <1>4, <1>6, <1>7, QuietTyped DEF ITyped, IType

LEMMA QryAssetTyped ==
    ASSUME ITyped, Up, NEW i \in Unread, log' = log,
           log[i].typ = "QryAsset", OnQryAsset(log[i], At(i))
    PROVE  IType' /\ IClient'
  <1>1. At(i) \in [Journal -> 0 .. Now + 1] /\ Shape(log[i]) BY UnreadIs
  <1> PICK t : t = log[i].arg OBVIOUS
  <1>2. t \in Booked BY <1>1, Names DEF Shape
  <1>3. DOMAIN books \subseteq Booked /\ \A x \in DOMAIN books : books[x] \subseteq OrderId
    BY DEF ITyped, IType
  <1>4. /\ cur' = At(i) /\ books' \in {books, GetBook(t)}
        /\ UNCHANGED <<asks, st, begun, known, channels, writers, states, since, subs, added,
                       seen, informed>>
    BY DEF OnQryAsset, cvars
  <1>5. /\ DOMAIN GetBook(t) \subseteq Booked
        /\ \A x \in DOMAIN GetBook(t) : GetBook(t)[x] \subseteq OrderId
    <2>1. CASE t \in DOMAIN books BY <1>3, <2>1 DEF GetBook
    <2>2. CASE t \notin DOMAIN books BY <1>2, <1>3, <2>2 DEF GetBook, Put
    <2> QED BY <2>1, <2>2
  <1>6. DOMAIN books' \subseteq Booked /\ \A x \in DOMAIN books' : books'[x] \subseteq OrderId
    BY <1>3, <1>4, <1>5
  <1>7. informed => st = "started" BY DEF ITyped, IClient, Up
  <1> QED BY <1>1, <1>4, <1>6, <1>7, QuietTyped DEF ITyped, IType

(* The frames that concern channels and the ledger's start.                *)
LEMMA OthersTyped ==
    ASSUME ITyped, Up, NEW i \in Unread, log' = log,
           \/ log[i].typ = "Channel" /\ OnChannel(log[i], At(i), i)
           \/ log[i].typ = "WriteTo" /\ OnWriteTo(log[i], At(i))
           \/ log[i].typ = "ReadFrom" /\ OnReadFrom(log[i], At(i), i)
           \/ log[i].typ = "RequestStart" /\ OnRequestStart(log[i], At(i), i)
    PROVE  IType' /\ IClient' /\ asks' = asks
  <1>1. /\ At(i) \in [Journal -> 0 .. Now + 1] /\ Shape(log[i]) /\ Now \in Nat /\ i \in 0 .. Now
        /\ \A X : Join(At(i), X, i) \in [Journal -> 0 .. Now + 1]
    BY UnreadIs, JoinTyped
  <1>2. /\ begun \in 0 .. Now /\ known \subseteq Node /\ channels \subseteq Node \X Node
        /\ writers \subseteq Node \cup {"master"}
        /\ DOMAIN books \subseteq Booked /\ \A x \in DOMAIN books : books[x] \subseteq OrderId
        /\ informed => st = "started"
    BY DEF ITyped, IType, IClient, Up
  <1>3. /\ UNCHANGED <<asks, known, states, books, since, subs, added, seen, informed>>
        /\ cur' \in [Journal -> 0 .. Now + 1]
    BY <1>1 DEF OnChannel, OnWriteTo, OnReadFrom, OnRequestStart, bvars, cvars
  <1>4. begun' \in 0 .. Now
    BY <1>1, <1>2 DEF OnChannel, OnWriteTo, OnReadFrom, OnRequestStart
  <1>5. channels' \subseteq Node \X Node
    BY <1>1, <1>2 DEF OnChannel, OnWriteTo, OnReadFrom, OnRequestStart, Shape
  <1>6. writers' \subseteq Node \cup {"master"}
    <2>1. log[i].typ = "WriteTo" => log[i].arg \in Node \cup {"master"} BY <1>1, Names DEF Shape
    <2> QED BY <1>2, <2>1 DEF OnChannel, OnWriteTo, OnReadFrom, OnRequestStart
  <1>7. /\ st' \in {"joined", "started", "failed", "threw", st}
        /\ informed => st' \in {"started", "threw"}
    BY <1>2 DEF OnChannel, OnWriteTo, OnReadFrom, OnRequestStart, Throws
  <1> QED BY <1>2, <1>3, <1>4, <1>5, <1>6, <1>7, QuietTyped

LEMMA ReadTyped ==
    ASSUME ITyped, Read
    PROVE  ITyped'
  <1>1. live' = live /\ links' = links /\ log' = log /\ Up BY DEF Read, Up
  <1>2. PICK i \in Unread : Handle(i, At(i)) BY DEF Read, Heads, At
  <1>3. asks \in Seq(App) BY DEF ITyped, ILog
  <1>4. ASSUME log[i].typ = "Location", OnLocation(log[i], At(i), i)
        PROVE  IType' /\ IClient' /\ asks' \in Seq(App)
    BY <1>1, <1>4, AnnouncedTyped, LocationTyped DEF OnLocation
  <1>5. ASSUME log[i].typ = "Deregister", OnDeregister(log[i], At(i), i)
        PROVE  IType' /\ IClient' /\ asks' \in Seq(App)
    <2>1. asks' = asks BY <1>5 DEF OnDeregister
    <2> QED BY <1>1, <1>3, <1>5, <2>1, DeregisterTyped
  <1>6. ASSUME \/ log[i].typ = "BrokerState" /\ OnBrokerState(log[i], At(i))
               \/ log[i].typ = "Order" /\ OnOrder(log[i], At(i))
               \/ log[i].typ = "QryAsset" /\ OnQryAsset(log[i], At(i))
        PROVE  IType' /\ IClient' /\ asks' \in Seq(App)
    <2>1. asks' = asks BY <1>6 DEF OnBrokerState, OnOrder, OnQryAsset
    <2> QED BY <1>1, <1>3, <1>6, <2>1, BrokerStateTyped, OrderTyped, QryAssetTyped
  <1>7. IType' /\ IClient' /\ asks' \in Seq(App)
    BY <1>1, <1>2, <1>3, <1>4, <1>5, <1>6, RegisterTyped, OthersTyped DEF Handle
  <1>8. ILog' /\ PairsTold' BY <1>1, <1>7, LogTyped DEF ITyped
  <1> QED BY <1>7, <1>8 DEF ITyped

-----------------------------------------------------------------------------
(* A turn of the ledger: frame i is the oldest one it has not read.        *)
Turn(i) == Up /\ i \in Unread /\ \A u \in Unread : i <= u

LEMMA TurnIs ==
    ASSUME LInv, NEW i, Turn(i)
    PROVE  /\ i \in 1 .. Now /\ Now \in Nat /\ i \in Nat
           /\ log[i] \in Entry /\ log[i].j \in Journal /\ Shape(log[i])
           /\ cur[log[i].j] \in 1 .. i
           /\ cur \in [Journal -> 0 .. Now + 1]
           /\ \A j \in Journal : cur[j] \in 0 .. Now + 1
           /\ st # "down" /\ Up
  <1>1. log \in Seq(Entry) /\ Now \in Nat BY DEF LInv, ILog, Now
  <1>2. i \in 1 .. Now /\ cur[log[i].j] # 0 /\ cur[log[i].j] <= i BY DEF Turn, Unread
  <1>3. log[i] \in Entry /\ Shape(log[i]) BY <1>1, <1>2 DEF LInv, ILog, Now
  <1>4. log[i].j \in Journal BY <1>3 DEF Entry
  <1>5. cur \in [Journal -> 0 .. Now + 1] BY DEF LInv, IType
  <1>6. cur[log[i].j] \in 0 .. Now + 1 BY <1>4, <1>5
  <1>7. st # "down" /\ Up BY DEF Turn, Up
  <1> QED BY <1>1, <1>2, <1>3, <1>4, <1>5, <1>6, <1>7

(* The frames before it on a journal that is joined have been read.        *)
LEMMA ReadBefore ==
    ASSUME LInv, NEW i, Turn(i), NEW j \in Journal, cur[j] # 0
    PROVE  \A k \in 1 .. Now : log[k].j = j /\ k < i => k < cur[j]
  <1>1. i \in 1 .. Now /\ Now \in Nat /\ cur[j] \in 0 .. Now + 1 BY TurnIs
  <1>2. ASSUME NEW k \in 1 .. Now, log[k].j = j, k < i PROVE k < cur[j]
    <2>1. ~ (cur[j] <= k)
      <3> SUFFICES ASSUME cur[j] <= k PROVE FALSE
        OBVIOUS
      <3>1. k \in Unread BY <1>2 DEF Unread
      <3>2. i <= k BY <3>1 DEF Turn
      <3> QED BY <1>1, <1>2, <3>2
    <2> QED BY <1>1, <2>1
  <1> QED BY <1>2

(* Applications come and go on the public journal.                         *)
LEMMA ComesPublic ==
    ASSUME ILog, NEW k \in 1 .. Now, NEW x, Comes(k, x)
    PROVE  log[k].j = Public
  BY DEF ILog, Shape, Comes, Registers, Deregisters

LEMMA AliveBetween ==
    ASSUME ILog, NEW n \in Nat, NEW m \in Nat, n <= m, m <= Now, NEW x,
           \A k \in n + 1 .. m : ~Comes(k, x)
    PROVE  Alive(n, x) <=> Alive(m, x)
  <1>0. Now \in Nat BY DEF ILog, Now
  <1> PICK N \in Nat : N = Now BY <1>0
  <1>1. ASSUME NEW k \in n + 1 .. N, Comes(k, x) PROVE k \in m + 1 .. N
    BY <1>1
  <1>2. \A k \in m + 1 .. N : k \in n + 1 .. N BY <1>0
  <1>3. (\A k \in n + 1 .. N : ~Comes(k, x)) <=> (\A k \in m + 1 .. N : ~Comes(k, x))
    BY <1>1, <1>2
  <1>4. ASSUME NEW k \in m + 1 .. N
        PROVE  (\A l \in n + 1 .. k - 1 : ~Comes(l, x)) <=> (\A l \in m + 1 .. k - 1 : ~Comes(l, x))
    <2>1. \A l \in n + 1 .. k - 1 : l \in n + 1 .. m \/ l \in m + 1 .. k - 1 BY <1>4
    <2>2. \A l \in m + 1 .. k - 1 : l \in n + 1 .. k - 1 BY <1>4
    <2> QED BY <2>1, <2>2
  <1>5. \A k : Deregisters(k, x) => Comes(k, x) BY DEF Comes
  <1>6. (\E k \in n + 1 .. N : Deregisters(k, x) /\ \A l \in n + 1 .. k - 1 : ~Comes(l, x))
          <=> (\E k \in m + 1 .. N : Deregisters(k, x) /\ \A l \in m + 1 .. k - 1 : ~Comes(l, x))
    BY <1>1, <1>2, <1>4, <1>5
  <1> QED BY <1>3, <1>6 DEF Alive

(* Who registers was not live, and who is deregistered is not any more.    *)
LEMMA OnComing ==
    ASSUME LInv, NEW k \in 1 .. Now, NEW x \in Node
    PROVE  /\ Registers(k, x) => ~Alive(k - 1, x) /\ Alive(k, x)
           /\ Deregisters(k, x) => ~Alive(k, x)
           /\ ~(Registers(k, x) /\ Deregisters(k, x))
  <1>0. Now \in Nat BY DEF LInv, ILog, Now
  <1> PICK N \in Nat : N = Now BY <1>0
  <1>1. ~(Registers(k, x) /\ Deregisters(k, x)) BY DEF Registers, Deregisters
  <1>2. ASSUME Registers(k, x) PROVE ~Alive(k - 1, x) /\ Alive(k, x)
    <2>1. Alive(k, x)
      <3>1. x \in Named(log[k]) BY <1>2 DEF Registers, Named
      <3> QED BY <3>1 DEF LInv, INamed
    <2>2. k \in (k - 1) + 1 .. N /\ Comes(k, x) BY <1>2 DEF Comes
    <2>3. ASSUME NEW l \in (k - 1) + 1 .. N, Deregisters(l, x),
                 \A m \in (k - 1) + 1 .. l - 1 : ~Comes(m, x)
          PROVE  FALSE
      <3>1. l = k \/ k \in (k - 1) + 1 .. l - 1 BY <2>3
      <3> QED BY <1>1, <1>2, <2>2, <2>3, <3>1
    <2> QED BY <2>1, <2>2, <2>3 DEF Alive
  <1>3. ASSUME Deregisters(k, x), Alive(k, x) PROVE FALSE
    <2>1. k \in 0 .. N /\ k \in 1 .. k /\ k + 1 .. k = {} BY <1>0
    <2> QED BY <1>3, <2>1 DEF LInv, IBack
  <1> QED BY <1>1, <1>2, <1>3

(* Who the ledger knows is live when what it reads was written.            *)
LEMMA KnownAt ==
    ASSUME LInv, NEW i, Turn(i), st = "started", NEW x \in Node
    PROVE  /\ x \in known <=> Alive(i - 1, x)
           /\ ~Comes(i, x) => (x \in known <=> Alive(i, x))
           /\ (x \in known /\ ~Deregisters(i, x)) \/ Registers(i, x) <=> Alive(i, x)
  <1>1. i \in 1 .. Now /\ Now \in Nat /\ cur[Public] \in 0 .. Now + 1 BY TurnIs, JournalNames
  <1>2. cur[Public] # 0 /\ cur[Public] <= i
    <2>1. cur[Public] # 0 BY DEF LInv, ICur, Up
    <2>2. cur[Public] <= i BY JournalNames DEF LInv, IPlace, Turn
    <2> QED BY <2>1, <2>2
  <1> PICK p \in Nat : p = cur[Public] - 1 /\ p <= i - 1 BY <1>1, <1>2
  <1>3. x \in known <=> Alive(p, x) BY DEF LInv, IPlace
  <1>4. ILog BY DEF LInv
  <1>5. ASSUME NEW k \in p + 1 .. i - 1 PROVE ~Comes(k, x)
    <2>1. k \in 1 .. Now /\ k < i /\ ~ (k < cur[Public]) BY <1>1, <1>5
    <2>2. log[k].j # Public BY <1>2, <2>1, ReadBefore, JournalNames
    <2> QED BY <1>4, <2>1, <2>2, ComesPublic
  <1>6. i - 1 \in Nat /\ i - 1 <= Now /\ i \in Nat /\ i <= Now /\ i - 1 <= i BY <1>1
  <1> PICK q \in Nat : q = i - 1 BY <1>6
  <1>7. Alive(p, x) <=> Alive(q, x) BY <1>4, <1>5, <1>6, AliveBetween
  <1>8. ASSUME ~Comes(i, x) PROVE Alive(q, x) <=> Alive(i, x)
    <2>1. \A k \in q + 1 .. i : k = i BY <1>6
    <2>2. q <= i /\ i <= Now BY <1>6
    <2>3. \A k \in q + 1 .. i : ~Comes(k, x) BY <1>8, <2>1
    <2> QED BY <1>4, <1>6, <2>2, <2>3, AliveBetween
  <1>9. /\ Registers(i, x) => ~Alive(q, x) /\ Alive(i, x)
        /\ Deregisters(i, x) => ~Alive(i, x)
        /\ ~(Registers(i, x) /\ Deregisters(i, x))
    BY <1>1, OnComing
  <1>10. Comes(i, x) <=> Registers(i, x) \/ Deregisters(i, x) BY DEF Comes
  <1> QED BY <1>3, <1>7, <1>8, <1>9, <1>10

-----------------------------------------------------------------------------
(* What a turn does to each part of the invariant.                         *)

(* The frame read is behind its journal's place; others are joined at the  *)
(* time of the frame, left, or stay.                                       *)
Moved(i) ==
    /\ live' = live /\ links' = links /\ log' = log
    /\ cur' \in [Journal -> 0 .. Now + 1] /\ cur'[log[i].j] = i + 1
    /\ \A j \in Journal : j = log[i].j \/ cur'[j] \in {0, i + 1, cur[j]}

LEMMA ReadCur ==
    ASSUME LInv, NEW i, Turn(i), live' = live, links' = links, log' = log,
           cur'[Public] = IF log[i].j = Public THEN i + 1 ELSE cur[Public],
           \/ cur'[Cmd("ledger")] = IF log[i].j = Cmd("ledger") THEN i + 1 ELSE cur[Cmd("ledger")]
           \/ cur'[Cmd("ledger")] = i + 1 /\ \A k \in 1 .. i : log[k].j # Cmd("ledger"),
           log[i].j = Public => cur[Cmd("ledger")] <= i,
           \A c \in Node \X Node : Links(i, c) => c \in channels',
           \A c \in channels : Deregisters(i, c[1]) \/ c \in channels',
           \A a \in App : cur'[<<a, "all">>] # 0 <=> a \in known',
           known' \cap Booked \subseteq added',
           \A c \in channels' : c[1] \in added' => cur'[c] # 0,
           st' \in {"joined", "started"} => cur'[Cmd("ledger")] # 0
    PROVE  ICur'
  <1>0. /\ Public \in Journal /\ Cmd("ledger") \in Journal /\ Cmd("ledger") # Public
        /\ \A c \in Node \X Node : c[1] \in Node
    BY JournalNames, Names
  <1>1. /\ i \in 1 .. Now /\ Now \in Nat /\ i \in Nat /\ cur[log[i].j] \in 1 .. i
        /\ cur[Public] \in 0 .. Now + 1 /\ cur[Cmd("ledger")] \in 0 .. Now + 1
        /\ st # "down" /\ Up
    BY <1>0, TurnIs
  <1> PICK J : J = log[i].j OBVIOUS
  <1> PICK p \in Nat : p = cur[Public] BY <1>1
  <1> PICK q \in Nat : q = cur[Cmd("ledger")] BY <1>1
  <1> PICK P \in Nat : P = cur'[Public] BY <1>1
  <1>2. p # 0 /\ P # 0 /\ p <= P
    <2>1. p # 0 BY <1>1 DEF LInv, ICur
    <2>2. J = Public => p <= i BY <1>1
    <2> QED BY <1>1, <2>1, <2>2
  <1>3. ASSUME NEW c \in Node \X Node, NEW k \in 1 .. Now, Links(k, c), k < cur'[log[k].j],
               \A l \in k .. P - 1 : ~Deregisters(l, c[1])
        PROVE  c \in channels'
    <2>1. CASE k = i BY <1>3, <2>1
    <2>2. CASE k # i
      <3>1. log[k].j \in {Public, Cmd("ledger")} BY <1>3 DEF Links
      <3>2. k < cur[log[k].j]
        <4>1. CASE log[k].j = J
          <5>1. cur'[log[k].j] = i + 1 BY <1>0, <3>1, <4>1
          <5>2. k < i BY <1>1, <1>3, <2>2, <5>1
          <5> QED BY <1>0, <1>1, <3>1, <4>1, <5>2, ReadBefore
        <4>2. CASE log[k].j # J
          <5>1. k < i + 1 => k \in 1 .. i BY <1>1
          <5> QED BY <1>0, <1>3, <3>1, <4>2, <5>1
        <4> QED BY <4>1, <4>2
      <3>3. \A l \in k .. p - 1 : l \in k .. P - 1 BY <1>2
      <3>4. \A l \in k .. cur[Public] - 1 : ~Deregisters(l, c[1]) BY <1>3, <3>3
      <3>5. c \in channels BY <1>3, <3>2, <3>4 DEF LInv, ICur
      <3>6. ASSUME Deregisters(i, c[1]) PROVE FALSE
        <4>1. J = Public
          <5>1. ILog /\ Comes(i, c[1]) BY <3>6 DEF LInv, Comes
          <5> QED BY <1>1, <5>1, ComesPublic
        <4>2. P = i + 1 /\ q <= i BY <4>1
        <4>3. k <= i
          <5>1. CASE log[k].j = Public BY <1>1, <1>3, <4>2, <5>1
          <5>2. CASE log[k].j = Cmd("ledger") BY <1>1, <3>2, <4>2, <5>2
          <5> QED BY <3>1, <5>1, <5>2
        <4>4. i \in k .. P - 1 BY <1>1, <4>2, <4>3
        <4> QED BY <1>3, <3>6, <4>4
      <3> QED BY <3>5, <3>6
    <2> QED BY <2>1, <2>2
  <1>4. Now' = Now BY DEF Now
  <1>5. (\A c \in Node \X Node : \A k \in 1 .. Now :
            /\ Links(k, c) /\ k < cur[log[k].j]
            /\ \A l \in k .. cur[Public] - 1 : ~Deregisters(l, c[1])
            => c \in channels)'
    BY <1>3, <1>4, LogStays DEF Public
  <1>6. (Up => cur[Public] # 0)' BY <1>2 DEF Up, Public
  <1>7. (st \in {"joined", "started"} => cur[Cmd("ledger")] # 0)' BY DEF Cmd
  <1> QED BY <1>5, <1>6, <1>7 DEF ICur

(* What is unread after the turn comes after the frame read.               *)
LEMMA ReadAfter ==
    ASSUME LInv, NEW i, Turn(i), Moved(i), \A j \in Journal : cur[j] <= i
    PROVE  /\ \A j \in Journal : cur'[j] <= i + 1
           /\ \A u \in Unread' : u > i /\ \A j \in Journal : cur'[j] <= u
  <1>1. i \in 1 .. Now /\ Now \in Nat /\ log[i].j \in Journal /\ i \in Nat BY TurnIs
  <1>2. ASSUME NEW j \in Journal PROVE cur'[j] <= i + 1
    <2>1. cur[j] <= i /\ cur[j] \in 0 .. Now + 1 BY TurnIs
    <2>2. cur'[j] = i + 1 \/ cur'[j] = 0 \/ cur'[j] = cur[j] BY DEF Moved
    <2> QED BY <1>1, <2>1, <2>2
  <1>3. ASSUME NEW u \in Unread' PROVE u > i
    <2>1. u \in 1 .. Now /\ cur'[log[u].j] # 0 /\ cur'[log[u].j] <= u
      BY <1>3 DEF Unread, Moved, Now
    <2>2. log[u].j \in Journal
      <3>1. log \in Seq(Entry) BY DEF LInv, ILog
      <3>2. log[u] \in Entry BY <2>1, <3>1 DEF Now
      <3> QED BY <3>2 DEF Entry
    <2>3. CASE cur'[log[u].j] = i + 1 BY <1>1, <2>1, <2>3
    <2>4. CASE cur'[log[u].j] = cur[log[u].j] /\ log[u].j # log[i].j
      <3>1. u \in Unread BY <2>1, <2>4 DEF Unread
      <3>2. i <= u /\ u # i BY <2>4, <3>1 DEF Turn
      <3> QED BY <1>1, <2>1, <3>2
    <2> QED BY <2>1, <2>2, <2>3, <2>4 DEF Moved
  <1>4. \A u \in Unread' : u \in Nat BY DEF Unread
  <1>5. \A j \in Journal : cur'[j] \in 0 .. Now + 1 BY DEF Moved
  <1>6. \A u \in Unread' : \A j \in Journal : cur'[j] <= u BY <1>1, <1>2, <1>3, <1>4, <1>5
  <1> QED BY <1>2, <1>3, <1>6

LEMMA ReadPlace ==
    ASSUME LInv, NEW i, Turn(i), Moved(i), st = "started", st' = st, begun' = begun,
           "master" \in writers',
           cur'[Public] = IF log[i].j = Public THEN i + 1 ELSE cur[Public],
           \A x \in Node : x \in known' <=> (x \in known /\ ~Deregisters(i, x)) \/ Registers(i, x)
    PROVE  IPlace'
  <1>1. /\ i \in 1 .. Now /\ Now \in Nat /\ i \in Nat /\ begun \in Nat
        /\ live' = live /\ links' = links /\ log' = log
    BY TurnIs DEF Moved, LInv, IType
  <1>2. Now' = Now /\ begun \in 1 .. Now /\ Starts(begun) /\ i > begun /\ \A j \in Journal : cur[j] <= i
    BY <1>1 DEF LInv, IPlace, Turn, Now
  <1>3. \A u \in Unread' : u > begun /\ \A j \in Journal : cur'[j] <= u
    <2>1. \A u \in Unread' : u > i /\ \A j \in Journal : cur'[j] <= u BY <1>2, ReadAfter
    <2>2. \A u \in Unread' : u \in Nat BY DEF Unread
    <2> QED BY <1>1, <1>2, <2>1, <2>2
  <1> PICK P : P = cur'[Public] - 1 OBVIOUS
  <1>4. ASSUME NEW x \in Node PROVE x \in known' <=> Alive(P, x)
    <2>1. x \in known' <=> Alive(i, x) BY KnownAt
    <2>2. CASE log[i].j = Public
      <3>1. P = i BY <1>1, <2>2
      <3> QED BY <2>1, <3>1
    <2>3. CASE log[i].j # Public
      <3>1. P = cur[Public] - 1 BY <2>3
      <3>2. x \in known <=> Alive(P, x) BY <3>1 DEF LInv, IPlace
      <3>3. ILog BY DEF LInv
      <3>4. ~Comes(i, x) BY <1>1, <2>3, <3>3, ComesPublic
      <3> QED BY <3>2, <3>4 DEF Comes
    <2> QED BY <2>2, <2>3
  <1>5. (\A x \in Node : x \in known <=> Alive(cur[Public] - 1, x))' BY <1>1, <1>4, LogStays DEF Public
  <1>6. (\A u \in Unread : u > begun /\ \A j \in Journal : cur[j] <= u)' BY <1>3
  <1>7. ("master" \in writers /\ begun \in 1 .. Now /\ Starts(begun))'
    BY <1>1, <1>2, LogStays
  <1> QED BY <1>5, <1>6, <1>7 DEF IPlace

LEMMA ReadStates ==
    ASSUME LInv, NEW i, Turn(i), Moved(i), st = "started", st' = st, begun' = begun,
           cur'[Public] = IF log[i].j = Public THEN i + 1 ELSE cur[Public],
           \A b \in known' \cap Broker :
             \/ /\ b \in known /\ <<b, "all">> # log[i].j /\ cur'[<<b, "all">>] = cur[<<b, "all">>]
                /\ ~Registers(i, b) /\ states'[b] = states[b]
             \/ Registers(i, b) /\ cur'[<<b, "all">>] <= i + 1 /\ states'[b] = "Connected"
             \/ /\ b \in known /\ log[i].typ = "BrokerState" /\ log[i].j = <<b, "all">>
                /\ states'[b] = log[i].arg
    PROVE  IStates'
  <1>1. /\ i \in 1 .. Now /\ Now \in Nat /\ i \in Nat /\ begun \in Nat
        /\ live' = live /\ links' = links /\ log' = log /\ ILog
    BY TurnIs DEF Moved, LInv, IType
  <1>2. i > begun /\ \A j \in Journal : cur[j] <= i
    BY <1>1 DEF LInv, IPlace, Turn
  <1>3. Public \in Journal /\ cur[Public] \in 0 .. Now + 1 BY JournalNames, TurnIs
  <1> PICK p \in Nat : p = cur[Public] BY <1>3
  <1>4. p # 0 /\ p <= i BY <1>2, <1>3, TurnIs DEF LInv, ICur
  <1> PICK P \in Nat : P = cur'[Public] BY <1>1
  <1>5. ASSUME NEW x, ~Registers(i, x), NEW l \in 1 .. P - 1, Registers(l, x) PROVE l \in 1 .. p - 1
    <2>1. l \in 1 .. Now /\ l # i /\ l <= i BY <1>1, <1>4, <1>5
    <2>2. log[l].j = Public BY <1>1, <1>5, <2>1, ComesPublic DEF Comes
    <2>3. l < cur[Public] BY <1>3, <1>4, <1>1, <2>1, <2>2, ReadBefore
    <2> QED BY <1>5, <2>3
  <1>6. \A l \in 1 .. p - 1 : l \in 1 .. P - 1 BY <1>1, <1>4
  <1>7. ASSUME NEW b \in known' \cap Broker
        PROVE  /\ Said(b)' = {} => states'[b] = "Connected"
               /\ \A k \in Said(b)' : (\A l \in Said(b)' : l <= k) => states'[b] = log[k].arg
    <2> DEFINE A == <<b, "all">>
    <2>0. A \in Journal /\ A # Public /\ cur[A] \in 0 .. Now + 1 /\ b \in Node
      BY JournalNames, Names, TurnIs
    <2>1. \A k : k \in Said(b)' <=>
             /\ k \in begun + 1 .. cur'[A] - 1
             /\ log[k].typ = "BrokerState" /\ log[k].j[1] = b
             /\ \A l \in 1 .. P - 1 : Registers(l, b) => l < k
      BY <1>1, LogStays DEF Said, Public
    <2>2. \A k : k \in Said(b) <=>
             /\ k \in begun + 1 .. cur[A] - 1
             /\ log[k].typ = "BrokerState" /\ log[k].j[1] = b
             /\ \A l \in 1 .. p - 1 : Registers(l, b) => l < k
      BY DEF Said
    <2>3. CASE /\ b \in known /\ A # log[i].j /\ cur'[A] = cur[A]
               /\ ~Registers(i, b) /\ states'[b] = states[b]
      <3>1. (\A l \in 1 .. P - 1 : Registers(l, b) => l \in 1 .. p - 1) BY <1>5, <2>3
      <3>2. \A k : k \in Said(b)' <=> k \in Said(b)
        <4> HIDE DEF A
        <4> QED BY <1>6, <2>1, <2>2, <2>3, <3>1
      <3>3. /\ Said(b) = {} => states[b] = "Connected"
            /\ \A k \in Said(b) : (\A l \in Said(b) : l <= k) => states[b] = log[k].arg
        BY <2>3 DEF LInv, IStates
      <3> QED BY <2>3, <3>2, <3>3
    <2>4. CASE Registers(i, b) /\ cur'[A] <= i + 1 /\ states'[b] = "Connected"
      <3>1. log[i].j = Public BY <1>1, <2>4, ComesPublic DEF Comes
      <3>2. i \in 1 .. P - 1 BY <1>1, <3>1
      <3>3. cur'[A] \in Nat BY <2>0 DEF Moved
      <3>4. ASSUME NEW k \in Said(b)' PROVE FALSE
        <4> HIDE DEF A
        <4>1. k \in begun + 1 .. cur'[A] - 1 /\ i < k BY <2>1, <2>4, <3>2, <3>4
        <4> QED BY <1>1, <2>4, <3>3, <4>1
      <3> QED BY <2>4, <3>4
    <2>5. CASE b \in known /\ log[i].typ = "BrokerState" /\ log[i].j = A /\ states'[b] = log[i].arg
      <3>1. cur'[A] = i + 1 /\ cur[A] \in 1 .. i BY <2>5, TurnIs DEF Moved
      <3>2. P = p BY <2>0, <2>5
      <3>3. \A l \in 1 .. P - 1 : l < i BY <1>1, <1>4, <3>2
      <3>4. log[i].j[1] = b BY <2>5
      <3>5. i \in Said(b)'
        <4> HIDE DEF A
        <4> QED BY <1>1, <1>2, <2>1, <2>5, <3>1, <3>3, <3>4
      <3>6. ASSUME NEW k \in Said(b)', \A l \in Said(b)' : l <= k PROVE k = i
        <4> HIDE DEF A
        <4>1. k \in begun + 1 .. cur'[A] - 1 /\ i <= k BY <2>1, <3>5, <3>6
        <4> QED BY <1>1, <3>1, <4>1
      <3> QED BY <2>5, <3>5, <3>6
    <2> QED BY <2>3, <2>4, <2>5
  <1>8. (\A b \in known \cap Broker :
           /\ Said(b) = {} => states[b] = "Connected"
           /\ \A k \in Said(b) : (\A l \in Said(b) : l <= k) => states[b] = log[k].arg)'
    BY <1>1, <1>7
  <1> QED BY <1>8 DEF IStates

LEMMA ReadReach ==
    ASSUME LInv, NEW i, Turn(i), live' = live, links' = links, log' = log,
           st = "joined" \/ st = "started" \/ (st = "waiting" /\ "ledger" \in live),
           st = "started" => st' = "started",
           cur'[Public] = IF log[i].j = Public THEN i + 1 ELSE cur[Public],
           \/ cur'[Cmd("ledger")] = IF log[i].j = Cmd("ledger") THEN i + 1 ELSE cur[Cmd("ledger")]
           \/ /\ cur'[Cmd("ledger")] = i + 1 /\ known = {}
              /\ \A k \in 1 .. i : log[k].j # Cmd("ledger"),
           asks' \in Seq(App),
           \A k \in 1 .. Len(asks) : k \in 1 .. Len(asks') /\ asks'[k] = asks[k],
           writers \subseteq writers',
           \A a \in App :
             /\ Grants(i, a) => a \in writers'
             /\ Registers(i, a) \/ (Locates(i, a) /\ a \notin known) =>
                   a \in known' /\ (a \in writers' \/ \E k \in 1 .. Len(asks') : asks'[k] = a)
             /\ a \in known => a \in known' \/ Deregisters(i, a)
             /\ a \in known' => a \in known \/ Registers(i, a) \/ Locates(i, a),
           st # "started" /\ st' = "started" =>
             /\ st = "joined"
             /\ \A k \in 1 .. Now : log[k].j = Cmd("ledger") /\ log[k].typ = "Location" => k < i
    PROVE  IReach'
  <1>1. /\ i \in 1 .. Now /\ Now \in Nat /\ i \in Nat /\ ILog
    BY TurnIs DEF LInv
  <1>2. /\ Public \in Journal /\ cur[Public] \in 0 .. Now + 1 /\ Cmd("ledger") \in Journal
        /\ cur[Cmd("ledger")] \in 0 .. Now + 1 /\ Cmd("ledger") # Public
    BY JournalNames, Names, TurnIs
  <1> PICK p \in Nat : p = cur[Public] BY <1>2
  <1> PICK P \in Nat : P = cur'[Public] BY <1>1
  <1> PICK q \in Nat : q = cur[Cmd("ledger")] BY <1>2
  <1> PICK Q \in Nat : Q = cur'[Cmd("ledger")] BY <1>1
  <1>3. p # 0 BY TurnIs DEF LInv, ICur
  <1>4. ASSUME NEW k \in 1 .. Now, k >= p, log[k].j = Public PROVE k >= P \/ k = i
    <2>1. k < i => k < cur[Public] BY <1>2, <1>3, <1>4, ReadBefore
    <2>2. k >= i BY <1>1, <1>4, <2>1
    <2> QED BY <1>1, <1>4, <2>2
  <1>5. ASSUME NEW k \in 1 .. Now, k >= q, log[k].j = Cmd("ledger") PROVE k >= Q \/ k = i
    <2>1. CASE Q = i + 1 /\ \A l \in 1 .. i : log[l].j # Cmd("ledger")
      <3>1. ~ (k \in 1 .. i) BY <1>5, <2>1
      <3> QED BY <1>1, <2>1, <3>1
    <2>2. CASE Q = IF log[i].j = Cmd("ledger") THEN i + 1 ELSE q
      <3>1. CASE log[i].j = Cmd("ledger")
        <4>1. q # 0 BY <3>1, TurnIs
        <4>2. k < i => k < cur[Cmd("ledger")] BY <1>2, <1>5, <4>1, ReadBefore
        <4>3. k >= i BY <1>1, <1>5, <4>2
        <4> QED BY <1>1, <2>2, <3>1, <4>3
      <3> QED BY <1>5, <2>2, <3>1
    <2> QED BY <2>1, <2>2
  <1>6. ASSUME NEW a \in live \cap App
        PROVE  \/ \E k \in 1 .. Now : k >= P /\ Registers(k, a)
               \/ /\ a \in known'
                  /\ \/ a \in writers' \/ \E k \in 1 .. Len(asks') : asks'[k] = a
                     \/ \E k \in 1 .. Now : k >= Q /\ Grants(k, a)
               \/ /\ a \notin known' /\ st' # "started"
                  /\ \E k \in 1 .. Now : k >= Q /\ Locates(k, a)
    <2>1. Reaches(a) BY <1>6 DEF LInv, IReach
    <2>2. ASSUME Deregisters(i, a) PROVE \E k \in 1 .. Now : k >= P /\ Registers(k, a)
      <3>1. Alive(Now, a)
        <4>1. Now + 1 .. Now = {} BY <1>1
        <4> QED BY <1>6, <4>1 DEF Alive
      <3>2. a \in Node /\ Now \in 0 .. Now /\ i \in 1 .. Now BY <1>1, <1>6, Names
      <3> PICK N \in Nat : N = Now BY <1>1
      <3>3. PICK k \in i + 1 .. N : Registers(k, a) BY <2>2, <3>1, <3>2 DEF LInv, IBack
      <3>4. log[i].j = Public BY <1>1, <2>2, ComesPublic DEF Comes
      <3>5. k \in 1 .. Now /\ k >= P BY <1>1, <3>3, <3>4
      <3> QED BY <3>3, <3>5
    <2>3. CASE \E k \in 1 .. Now : k >= cur[Public] /\ Registers(k, a)
      <3>1. PICK k \in 1 .. Now : k >= p /\ Registers(k, a) BY <2>3
      <3>2. log[k].j = Public BY <1>1, <3>1, ComesPublic DEF Comes
      <3>3. k >= P \/ k = i BY <1>4, <3>1, <3>2
      <3>4. CASE k = i BY <1>6, <3>1, <3>4
      <3> QED BY <3>1, <3>3, <3>4
    <2>4. CASE a \in known /\ ~Deregisters(i, a) /\ (a \in writers \/ \E k \in 1 .. Len(asks) : asks[k] = a)
      BY <1>6, <2>4
    <2>5. CASE a \in known /\ ~Deregisters(i, a) /\ \E k \in 1 .. Now : k >= q /\ Grants(k, a)
      <3>1. PICK k \in 1 .. Now : k >= q /\ Grants(k, a) BY <2>5
      <3>2. log[k].j = Cmd("ledger") BY <1>1, <3>1 DEF ILog, Shape, Grants
      <3>3. k >= Q \/ k = i BY <1>5, <3>1, <3>2
      <3> QED BY <1>6, <2>5, <3>1, <3>3
    <2>6. CASE a \notin known /\ st # "started" /\ \E k \in 1 .. Now : k >= q /\ Locates(k, a)
      <3>1. PICK k \in 1 .. Now : k >= q /\ Locates(k, a) BY <2>6
      <3>2. log[k].j = Cmd("ledger") /\ log[k].typ = "Location" BY <3>1 DEF Locates
      <3>3. k >= Q \/ k = i BY <1>5, <3>1, <3>2
      <3>4. CASE k = i BY <1>6, <2>6, <3>1, <3>4
      <3>5. CASE a \in known'
        <4>1. Registers(i, a) \/ Locates(i, a) BY <1>6, <2>6, <3>5
        <4> QED BY <1>6, <2>6, <4>1
      <3>6. CASE k >= Q /\ k # i /\ a \notin known'
        <4>1. st' # "started"
          <5> SUFFICES ASSUME st' = "started" PROVE FALSE
            OBVIOUS
          <5>0. st' = "started" OBVIOUS
          <5>1. k < i BY <2>6, <3>2
          <5>2. CASE Q = i + 1 /\ \A l \in 1 .. i : log[l].j # Cmd("ledger")
            <6>1. k \in 1 .. i BY <1>1, <5>1
            <6> QED BY <3>2, <5>2, <6>1
          <5>3. CASE Q = IF log[i].j = Cmd("ledger") THEN i + 1 ELSE q
            <6>1. log[i].j # Cmd("ledger") BY <1>1, <3>6, <5>1, <5>3
            <6>2. q # 0
              <7>1. CASE q = 0
                <8>1. st # "joined" BY <7>1 DEF LInv, ICur
                <8> QED BY <2>6, <5>0, <8>1
              <7> QED BY <7>1
            <6> QED BY <1>1, <1>2, <3>1, <3>2, <5>1, <6>2, ReadBefore
          <5> QED BY <5>2, <5>3
        <4> QED BY <3>1, <3>6, <4>1
      <3> QED BY <3>3, <3>4, <3>5, <3>6
    <2> QED BY <1>6, <2>1, <2>2, <2>3, <2>4, <2>5, <2>6 DEF Reaches
  <1>7. Now' = Now BY DEF Now
  <1>8. (\A a \in live \cap App : Reaches(a))' BY <1>6, <1>7, LogStays DEF Reaches, Public, Cmd
  <1> QED BY <1>8 DEF IReach

(* A started ledger misses no report: the link a report comes by has been  *)
(* told before, and has been joined with its trader.                       *)
HeardBefore(n) ==
    \A j \in Journal : cur[j] # 0 =>
        \A k \in 1 .. Now : log[k].j = j /\ k < n => k < cur[j]

LEMMA OrdersHeard ==
    ASSUME LInv, st = "started", NEW n \in Nat, HeardBefore(n), begun < n,
           NEW k \in 1 .. Now, log[k].typ = "Order", k < n
    PROVE  Passed(k)
  <1>1. /\ Now \in Nat /\ k \in Nat /\ ILog
        /\ \A j \in Journal : cur[j] \in 0 .. Now + 1
    <2>1. Now \in Nat BY DEF LInv, ILog, Now
    <2>2. cur \in [Journal -> 0 .. Now + 1] BY DEF LInv, IType
    <2> QED BY <2>1, <2>2 DEF LInv
  <1>2. /\ Public \in Journal /\ Cmd("ledger") \in Journal
        /\ cur[Public] # 0 /\ cur[Cmd("ledger")] # 0
    BY JournalNames, Names DEF LInv, ICur, Up
  <1>3. SUFFICES ASSUME \A j \in Journal : cur[j] <= k
                 PROVE  \E j \in Journal : k < cur[j]
    BY <1>1 DEF Passed
  <1>4. begun \in 1 .. Now /\ Starts(begun) BY DEF LInv, IPlace
  <1>5. begun < cur[Cmd("ledger")]
    <2>1. log[begun].j = Cmd("ledger") BY <1>1, <1>4 DEF ILog, Shape, Starts
    <2> QED BY <1>2, <1>4, <2>1 DEF HeardBefore
  <1>6. k \in begun + 1 .. Now BY <1>1, <1>2, <1>3, <1>4, <1>5
  <1> PICK N \in Nat : N = Now BY <1>1
  <1> PICK c : c = log[k].j OBVIOUS
  <1>7. Linked(k, c) BY <1>4, <1>6 DEF LInv, LinksOK
  <1>8. PICK m \in 1 .. k : Links(m, c) /\ \A l \in m .. k : ~Deregisters(l, c[1])
    BY <1>7 DEF Linked
  <1>9. PICK t \in TD, s \in Strategy : c = <<t, s>> BY <1>1 DEF ILog, Shape
  <1>10. t \in Node /\ s \in Node /\ t \in Booked /\ c \in Node \X Node /\ c \in Journal /\ c[1] = t
    BY <1>9, Names, JournalNames
  <1> PICK p \in Nat : p = cur[Public] - 1 BY <1>1, <1>2
  <1>11. p + 1 <= k /\ p + 1 = cur[Public] BY <1>1, <1>2, <1>3
  <1>12. c \in channels
    <2>1. log[m].j \in {Public, Cmd("ledger")} BY <1>8 DEF Links
    <2>2. m \in 1 .. Now /\ m < n BY <1>1
    <2>3. m < cur[log[m].j] BY <1>2, <2>1, <2>2 DEF HeardBefore
    <2>4. \A l \in m .. cur[Public] - 1 : l \in m .. k BY <1>11
    <2>5. \A l \in m .. cur[Public] - 1 : ~Deregisters(l, c[1]) BY <1>8, <2>4
    <2> QED BY <1>8, <1>10, <2>2, <2>3, <2>5 DEF LInv, ICur
  <1>13. t \in known
    <2>1. t \in Named(log[k]) BY <1>9 DEF Named
    <2>2. Alive(k, t) BY <2>1 DEF LInv, INamed
    <2>3. ASSUME NEW l \in p + 1 .. k PROVE ~Comes(l, t)
      <3>1. l \in 1 .. Now /\ l < n /\ ~ (l < cur[Public]) BY <1>1, <1>11
      <3>2. log[l].j # Public BY <1>2, <3>1 DEF HeardBefore
      <3> QED BY <1>1, <3>1, <3>2, ComesPublic
    <2>4. p <= k /\ k <= Now BY <1>1, <1>11
    <2>5. Alive(p, t) BY <1>1, <2>2, <2>3, <2>4, AliveBetween
    <2>6. Alive(cur[Public] - 1, t) BY <2>5
    <2> QED BY <1>10, <2>6 DEF LInv, IPlace
  <1>14. cur[c] # 0 BY <1>10, <1>12, <1>13 DEF LInv, ICur
  <1>15. k < cur[c] BY <1>10, <1>14 DEF HeardBefore
  <1> QED BY <1>10, <1>15

LEMMA ReportsHeard ==
    ASSUME LInv, NEW i, Turn(i), st = "started", NEW k \in 1 .. Now, log[k].typ = "Order", k < i
    PROVE  Passed(k)
  <1>1. i \in Nat BY TurnIs
  <1>2. HeardBefore(i) BY ReadBefore DEF HeardBefore
  <1>3. begun < i
    <2>1. begun \in Nat /\ i > begun BY DEF LInv, IPlace, Turn
    <2> QED BY <1>1, <2>1
  <1> QED BY <1>1, <1>2, <1>3, OrdersHeard

LEMMA ReadBooks ==
    ASSUME LInv, NEW i, Turn(i), Moved(i), st = "started", st' = st,
           \A x \in Booked : subs'[x] > 0 =>
             /\ x \in DOMAIN books'
             /\ (subs[x] > 0 /\ since'[x] = since[x]) \/ since'[x] = i,
           \A x \in DOMAIN books' : x \in Booked /\
             \/ subs'[x] = 0 /\ books'[x] = {}
             \/ subs'[x] > 0 /\ since'[x] = i /\ books'[x] = {}
             \/ /\ subs'[x] > 0 /\ subs[x] > 0 /\ since'[x] = since[x] /\ x \in DOMAIN books
                /\ \/ ~Reports(i, x) /\ books'[x] = books[x]
                   \/ Reports(i, x) /\ books'[x] = BookOnOrder(books[x], log[i].arg)
    PROVE  IBooks'
  <1>1. /\ i \in 1 .. Now /\ Now \in Nat /\ i \in Nat /\ ILog /\ log[i].j \in Journal
        /\ live' = live /\ links' = links /\ log' = log
    BY TurnIs DEF Moved, LInv
  <1>2. \A j \in Journal : cur[j] \in 0 .. Now + 1 /\ cur[j] <= i
    BY TurnIs DEF LInv, IPlace, Turn
  <1>3. \A j \in Journal : cur'[j] \in 0 .. Now + 1 /\ cur'[j] <= i + 1
    BY <1>2, ReadAfter DEF Moved
  <1>4. \A k \in 0 .. Now : Passed(k)' <=> k <= i
    <2>1. \A k \in 0 .. Now : k < i + 1 <=> k <= i BY <1>1
    <2>2. \A k \in 0 .. Now : \A j \in Journal : k < cur'[j] => k <= i BY <1>1, <1>3
    <2>3. cur'[log[i].j] = i + 1 BY DEF Moved
    <2> QED BY <1>1, <2>1, <2>2, <2>3 DEF Passed
  <1>5. \A k \in 0 .. Now : Passed(k) => k < i
    <2>1. \A k \in 0 .. Now : \A j \in Journal : k < cur[j] => k < i BY <1>1, <1>2
    <2> QED BY <2>1 DEF Passed
  <1>6. since \in [Booked -> 0 .. Now] /\ \A x \in Booked : subs[x] > 0 => Passed(since[x])
    BY DEF LInv, IType, IBooks
  <1>7. \A x, o : \A k : k \in Entered(x, o)' <=>
           k \in since'[x] + 1 .. Now /\ Reports(k, x) /\ log[k].arg.id = o /\ Passed(k)'
    <2>1. Now' = Now BY <1>1 DEF Now
    <2> QED BY <1>1, <2>1, LogStays DEF Entered
  <1>8. \A x, o : \A k : k \in Entered(x, o) <=>
           k \in since[x] + 1 .. Now /\ Reports(k, x) /\ log[k].arg.id = o /\ Passed(k)
    BY DEF Entered
  <1>9. ASSUME NEW x \in Booked, subs[x] > 0, since'[x] = since[x], NEW o
        PROVE  \A k : k \in Entered(x, o)' <=>
                  k \in Entered(x, o) \/ (k = i /\ Reports(i, x) /\ log[i].arg.id = o)
    <2>1. since[x] \in 0 .. Now /\ since[x] < i BY <1>5, <1>6, <1>9
    <2>2. ASSUME NEW k \in since[x] + 1 .. Now, Reports(k, x)
          PROVE  Passed(k)' <=> Passed(k) \/ k = i
      <3>1. k \in 1 .. Now /\ k \in 0 .. Now /\ k \in Nat BY <1>1, <2>1
      <3>2. k < i => Passed(k) BY <2>2, <3>1, ReportsHeard DEF Reports
      <3>3. Passed(k) => k < i BY <1>5, <3>1
      <3>4. Passed(k)' <=> k <= i BY <1>4, <3>1
      <3> QED BY <1>1, <3>1, <3>2, <3>3, <3>4
    <2>3. i \in since[x] + 1 .. Now BY <1>1, <2>1
    <2> QED BY <1>7, <1>8, <1>9, <2>2, <2>3
  <1>10. ASSUME NEW x \in DOMAIN books', subs'[x] > 0, NEW o \in OrderId
         PROVE  o \in books'[x] <=> \E k \in Entered(x, o)' :
                  log[k].arg.active /\ \A l \in Entered(x, o)' : l <= k
    <2>0. x \in Booked BY <1>10
    <2>1. CASE since'[x] = i /\ books'[x] = {}
      <3>1. ASSUME NEW k \in Entered(x, o)' PROVE FALSE
        <4>1. k \in i + 1 .. Now /\ Passed(k)' BY <1>7, <2>1, <3>1
        <4>2. k \in 0 .. Now BY <1>1, <4>1
        <4> QED BY <1>1, <1>4, <4>1, <4>2
      <3> QED BY <2>1, <3>1
    <2>2. ASSUME subs[x] > 0, since'[x] = since[x], x \in DOMAIN books
          PROVE  /\ \A k : k \in Entered(x, o)' <=>
                      k \in Entered(x, o) \/ (k = i /\ Reports(i, x) /\ log[i].arg.id = o)
                 /\ o \in books[x] <=> \E k \in Entered(x, o) :
                      log[k].arg.active /\ \A l \in Entered(x, o) : l <= k
      BY <1>9, <2>0, <2>2 DEF LInv, IBooks
    <2>3. CASE /\ subs[x] > 0 /\ since'[x] = since[x] /\ x \in DOMAIN books
               /\ ~Reports(i, x) /\ books'[x] = books[x]
      <3>1. \A k : k \in Entered(x, o)' <=> k \in Entered(x, o) BY <2>2, <2>3
      <3>2. o \in books[x] <=> \E k \in Entered(x, o) :
               log[k].arg.active /\ \A l \in Entered(x, o) : l <= k
        BY <2>2, <2>3
      <3> QED BY <2>3, <3>1, <3>2
    <2>4. CASE /\ subs[x] > 0 /\ since'[x] = since[x] /\ x \in DOMAIN books
               /\ Reports(i, x) /\ books'[x] = BookOnOrder(books[x], log[i].arg)
      <3> PICK r : r = log[i].arg OBVIOUS
      <3>0. /\ \A k : k \in Entered(x, o)' <=> k \in Entered(x, o) \/ (k = i /\ r.id = o)
            /\ o \in books[x] <=> \E k \in Entered(x, o) :
                 log[k].arg.active /\ \A l \in Entered(x, o) : l <= k
        BY <2>2, <2>4
      <3>1. CASE r.id = o
        <4>1. i \in Entered(x, o)' BY <3>0, <3>1
        <4>2. ASSUME NEW k \in Entered(x, o)' PROVE k \in Nat /\ k <= i
          <5>1. k \in since[x] + 1 .. Now /\ Passed(k)' BY <1>7, <2>4, <4>2
          <5>2. since[x] \in 0 .. Now BY <1>6, <2>0
          <5>3. k \in 0 .. Now BY <1>1, <5>1, <5>2
          <5> QED BY <1>4, <5>1, <5>3
        <4>3. \A k \in Entered(x, o)' : (\A l \in Entered(x, o)' : l <= k) => k = i
          BY <1>1, <4>1, <4>2
        <4>4. o \in books'[x] <=> r.active BY <2>4, <3>1 DEF BookOnOrder
        <4> QED BY <4>1, <4>2, <4>3, <4>4
      <3>2. CASE r.id # o
        <4>1. \A k : k \in Entered(x, o)' <=> k \in Entered(x, o) BY <3>0, <3>2
        <4>2. o \in books'[x] <=> o \in books[x] BY <2>4, <3>2 DEF BookOnOrder
        <4> QED BY <3>0, <4>1, <4>2
      <3> QED BY <3>1, <3>2
    <2> QED BY <1>10, <2>1, <2>3, <2>4
  <1>11. ASSUME NEW x \in Booked, subs'[x] > 0, NEW k, k = since'[x] PROVE Passed(k)'
    <2>1. CASE subs[x] > 0 /\ since'[x] = since[x]
      <3>1. since[x] \in 0 .. Now /\ since[x] < i BY <1>5, <1>6, <2>1
      <3> QED BY <1>1, <1>4, <1>11, <2>1, <3>1
    <2>2. CASE since'[x] = i BY <1>1, <1>4, <1>11, <2>2
    <2> QED BY <1>11, <2>1, <2>2
  <1>12. (\A x \in Booked : subs[x] > 0 => x \in DOMAIN books)' OBVIOUS
  <1>13. (\A x \in Booked : subs[x] > 0 => Passed(since[x]))' BY <1>11 DEF Passed
  <1>14. ASSUME NEW x \in DOMAIN books' PROVE subs'[x] = 0 => books'[x] = {}
    OBVIOUS
  <1>15. (\A x \in DOMAIN books :
              /\ subs[x] = 0 => books[x] = {}
              /\ subs[x] > 0 => \A o \in OrderId :
                    o \in books[x] <=> \E k \in Entered(x, o) :
                      log[k].arg.active /\ \A l \in Entered(x, o) : l <= k)'
    BY <1>1, <1>10, <1>14
  <1> QED BY <1>12, <1>13, <1>15 DEF IBooks

-----------------------------------------------------------------------------
LEMMA JoinIs ==
    ASSUME LInv, NEW i, Turn(i), NEW X, NEW t \in 0 .. i
    PROVE  /\ Join(At(i), X, t) \in [Journal -> 0 .. Now + 1]
           /\ Join(At(i), X, t)[log[i].j] = i + 1
           /\ \A j \in Journal : j # log[i].j =>
                 Join(At(i), X, t)[j] = IF j \in X /\ cur[j] = 0 THEN t + 1 ELSE cur[j]
  <1>1. /\ i \in 1 .. Now /\ Now \in Nat /\ i \in Nat /\ log[i].j \in Journal
        /\ cur \in [Journal -> 0 .. Now + 1] /\ t \in Nat /\ t <= i
    BY TurnIs
  <1>2. /\ At(i) \in [Journal -> 0 .. Now + 1] /\ At(i)[log[i].j] = i + 1
        /\ \A j \in Journal : j # log[i].j => At(i)[j] = cur[j]
    <2>1. i + 1 \in 0 .. Now + 1 BY <1>1
    <2> DEFINE T == 0 .. Now + 1
    <2> HIDE DEF T
    <2>2. cur \in [Journal -> T] /\ i + 1 \in T BY <1>1, <2>1 DEF T
    <2>3. At(i) \in [Journal -> T] BY <1>1, <2>2 DEF At
    <2> QED BY <1>1, <2>2, <2>3 DEF At, T
  <1>3. i + 1 # 0 /\ t + 1 \in 0 .. Now + 1 BY <1>1
  <1>4. \A j \in Journal : At(i)[j] \in 0 .. Now + 1 BY <1>2
  <1>5. Join(At(i), X, t) \in [Journal -> 0 .. Now + 1]
    BY <1>3, <1>4 DEF Join
  <1>6. \A j \in Journal : Join(At(i), X, t)[j] =
                             IF j \in X /\ At(i)[j] = 0 THEN t + 1 ELSE At(i)[j]
    BY DEF Join
  <1> QED BY <1>1, <1>2, <1>3, <1>5, <1>6

LEMMA AtIs ==
    ASSUME LInv, NEW i, Turn(i)
    PROVE  At(i) = Join(At(i), {}, i)
  <1>1. At(i) \in [Journal -> 0 .. Now + 1]
    BY JoinIs, TurnIs DEF At
  <1> QED BY <1>1 DEF Join

(* A turn that joins channels only.                                        *)
LEMMA JoinsChannels ==
    ASSUME LInv, NEW i, Turn(i), live' = live, links' = links, log' = log,
           NEW X, X \subseteq Node \X Node, cur' = Join(At(i), X, i)
    PROVE  /\ Moved(i)
           /\ cur'[Public] = IF log[i].j = Public THEN i + 1 ELSE cur[Public]
           /\ cur'[Cmd("ledger")] = IF log[i].j = Cmd("ledger") THEN i + 1 ELSE cur[Cmd("ledger")]
           /\ \A a \in Node : /\ cur'[<<a, "all">>] =
                                  IF log[i].j = <<a, "all">> THEN i + 1 ELSE cur[<<a, "all">>]
                              /\ cur'[<<a, "all">>] # 0 <=> cur[<<a, "all">>] # 0
           /\ \A j \in Journal : cur[j] # 0 => cur'[j] # 0
           /\ \A j \in X : j \in Journal => cur'[j] # 0
  <1>1. /\ i \in 1 .. Now /\ Now \in Nat /\ i \in Nat /\ log[i].j \in Journal
        /\ cur[log[i].j] \in 1 .. i /\ i \in 0 .. i
        /\ \A j \in Journal : cur[j] \in 0 .. Now + 1
    BY TurnIs
  <1>2. /\ cur' \in [Journal -> 0 .. Now + 1] /\ cur'[log[i].j] = i + 1
        /\ \A j \in Journal : j # log[i].j =>
              cur'[j] = IF j \in X /\ cur[j] = 0 THEN i + 1 ELSE cur[j]
    BY <1>1, JoinIs
  <1>3. /\ Public \in Journal /\ Cmd("ledger") \in Journal
        /\ Public \notin X /\ Cmd("ledger") \notin X
        /\ \A a \in Node : <<a, "all">> \in Journal /\ <<a, "all">> \notin X
    BY JournalNames, Names DEF Public, Cmd
  <1>4. Moved(i)
    <2>1. Now' = Now BY DEF Now
    <2> QED BY <1>2, <2>1 DEF Moved
  <1> QED BY <1>1, <1>2, <1>3, <1>4

(* What the ledger knows of whom stays.                                    *)
LEMMA StaysCur ==
    ASSUME LInv, NEW i, Turn(i), live' = live, links' = links, log' = log,
           NEW X, X \subseteq Node \X Node, cur' = Join(At(i), X, i),
           \A a \in App : a \in known' <=> a \in known, channels' = channels, added' = added,
           log[i].typ \notin {"Deregister", "Channel"},
           log[i].j = Public => cur[Cmd("ledger")] <= i,
           st' \in {"joined", "started"} => st \in {"joined", "started"}
    PROVE  ICur'
  <1>1. /\ cur'[Public] = IF log[i].j = Public THEN i + 1 ELSE cur[Public]
        /\ cur'[Cmd("ledger")] = IF log[i].j = Cmd("ledger") THEN i + 1 ELSE cur[Cmd("ledger")]
        /\ \A a \in Node : cur'[<<a, "all">>] # 0 <=> cur[<<a, "all">>] # 0
        /\ \A j \in Journal : cur[j] # 0 => cur'[j] # 0
    BY JoinsChannels
  <1>2. /\ App \subseteq Node /\ Booked \subseteq App
        /\ \A c \in Node \X Node : c \in Journal /\ c[1] \in Node
        /\ channels \subseteq Node \X Node /\ Cmd("ledger") \in Journal
    <2>1. \A c \in Node \X Node : c \in Journal /\ c[1] \in Node BY DEF Journal
    <2> QED BY <2>1, Names, JournalNames DEF LInv, IType
  <1>3. \A c \in Node \X Node : ~Links(i, c) BY DEF Links
  <1>4. \A a \in App : cur'[<<a, "all">>] # 0 <=> a \in known'
    BY <1>1, <1>2 DEF LInv, ICur
  <1>5. known' \cap Booked \subseteq added' BY <1>2 DEF LInv, ICur
  <1>6. \A c \in channels' : c[1] \in added' => cur'[c] # 0
    BY <1>1, <1>2 DEF LInv, ICur
  <1>7. st' \in {"joined", "started"} => cur'[Cmd("ledger")] # 0
    BY <1>1, <1>2 DEF LInv, ICur
  <1> QED BY <1>1, <1>3, <1>4, <1>5, <1>6, <1>7, ReadCur

-----------------------------------------------------------------------------
(* A started ledger *)
LEMMA StartedStays ==
    ASSUME LInv, NEW i, Turn(i), st = "started", st' = st, begun' = begun,
           live' = live, links' = links, log' = log, asks' = asks, ICur',
           NEW X, X \subseteq Node \X Node, cur' = Join(At(i), X, i),
           \A x \in Node : x \in known' <=> x \in known \/ Registers(i, x),
           \A a \in App : ~Registers(i, a) /\ (Locates(i, a) => a \in known),
           log[i].typ # "Deregister",
           writers \subseteq writers',
           \A a \in App : Grants(i, a) => a \in writers'
    PROVE  /\ Moved(i)
           /\ ILog' /\ INamed' /\ IBack' /\ PairsTold' /\ LinksOK'
           /\ IPlace' /\ IReach' /\ Survives' /\ IWait' /\ IJoined' /\ IDown'
  <1>1. /\ Moved(i)
        /\ cur'[Public] = IF log[i].j = Public THEN i + 1 ELSE cur[Public]
        /\ cur'[Cmd("ledger")] = IF log[i].j = Cmd("ledger") THEN i + 1 ELSE cur[Cmd("ledger")]
    BY JoinsChannels
  <1>2. asks' \in Seq(App) BY DEF LInv, ILog
  <1>3. ILog' /\ INamed' /\ IBack' /\ PairsTold' /\ LinksOK' BY <1>2, LogKeeps
  <1>4. App \subseteq Node BY Names
  <1>5. IPlace'
    <2>1. \A x \in Node : x \in known' <=> (x \in known /\ ~Deregisters(i, x)) \/ Registers(i, x)
      BY DEF Deregisters
    <2>2. "master" \in writers' BY DEF LInv, IPlace
    <2> QED BY <1>1, <2>1, <2>2, ReadPlace
  <1>6. IReach'
    <2>1. \A a \in App :
             /\ Grants(i, a) => a \in writers'
             /\ Registers(i, a) \/ (Locates(i, a) /\ a \notin known) =>
                   a \in known' /\ (a \in writers' \/ \E k \in 1 .. Len(asks') : asks'[k] = a)
             /\ a \in known => a \in known' \/ Deregisters(i, a)
             /\ a \in known' => a \in known \/ Registers(i, a) \/ Locates(i, a)
      BY <1>4
    <2>2. \A k \in 1 .. Len(asks) : k \in 1 .. Len(asks') /\ asks'[k] = asks[k] OBVIOUS
    <2> QED BY <1>1, <1>2, <2>1, <2>2, ReadReach
  <1>7. Survives' /\ IWait' /\ IJoined' BY DEF Survives, IWait, IJoined
  <1>8. IDown' BY DEF LInv, IDown
  <1> QED BY <1>1, <1>3, <1>5, <1>6, <1>7, <1>8

(* ... and nothing is said of brokers or orders.                           *)
LEMMA StartedQuiet ==
    ASSUME LInv, NEW i, Turn(i), st = "started", st' = st, begun' = begun,
           live' = live, links' = links, log' = log, asks' = asks, ICur',
           NEW X, X \subseteq Node \X Node, cur' = Join(At(i), X, i),
           \A x \in Node : x \in known' <=> x \in known \/ Registers(i, x),
           \A a \in App : ~Registers(i, a) /\ (Locates(i, a) => a \in known),
           log[i].typ \notin {"Deregister", "BrokerState", "Order"},
           writers \subseteq writers', writers' \subseteq Node \cup {"master"},
           \A a \in App : Grants(i, a) => a \in writers',
           known' \subseteq Node, channels' \subseteq Node \X Node, added' = added,
           states' = states, books' = books, since' = since, subs' = subs,
           seen' = seen, informed' = informed
    PROVE  LInv'
  <1>1. /\ Moved(i)
        /\ ILog' /\ INamed' /\ IBack' /\ PairsTold' /\ LinksOK'
        /\ IPlace' /\ IReach' /\ Survives' /\ IWait' /\ IJoined' /\ IDown'
    BY StartedStays
  <1>2. Now' = Now BY DEF Now
  <1>3. \A b \in Broker : b \in known' <=> b \in known BY Names
  <1>4. known' \cap Broker = known \cap Broker BY <1>3
  <1>5. IType'
    <2>1. cur' \in [Journal -> 0 .. Now + 1] BY <1>1 DEF Moved
    <2> QED BY <1>2, <1>4, <2>1 DEF LInv, IType
  <1>6. IClient'
    <2>1. ASSUME NEW b \in Broker, informed
          PROVE  \/ b \in DOMAIN states /\ b \in known' /\ seen[b] = states[b]
                 \/ b \notin DOMAIN states /\ seen[b] \in {None, "DisConnected"}
      BY <1>3, <2>1 DEF LInv, IClient, Informed
    <2> QED BY <2>1 DEF LInv, IClient, Informed
  <1>7. IStates'
    <2>1. ASSUME NEW b \in known' \cap Broker
          PROVE  /\ b \in known /\ <<b, "all">> # log[i].j /\ cur'[<<b, "all">>] = cur[<<b, "all">>]
                 /\ ~Registers(i, b) /\ states'[b] = states[b]
      <3>1. b \in known /\ b \in App /\ b \in Node BY <1>3, Names
      <3>2. <<b, "all">> # log[i].j
        <4>1. Shape(log[i]) /\ log[i].typ \in FrameType BY TurnIs DEF Entry
        <4>2. /\ <<b, "all">> # Public /\ \A a \in Node : <<b, "all">> # Cmd(a)
              /\ \A s \in Node : <<b, "all">> # <<s, "ledger">>
          BY <3>1, Names, JournalNames
        <4>3. Strategy \subseteq Node /\ "ledger" \in Node /\ Cmd("all") # <<b, "all">>
          BY <3>1, Names DEF Cmd
        <4> QED BY <4>1, <4>2, <4>3 DEF Shape, FrameType
      <3>3. cur'[<<b, "all">>] = cur[<<b, "all">>] BY <3>1, <3>2, JoinsChannels
      <3> QED BY <3>1, <3>2, <3>3
    <2>2. cur'[Public] = IF log[i].j = Public THEN i + 1 ELSE cur[Public] BY JoinsChannels
    <2> QED BY <1>1, <2>1, <2>2, ReadStates
  <1>8. IBooks'
    <2>1. \A x : ~Reports(i, x) BY DEF Reports
    <2>2. \A x \in Booked : subs'[x] > 0 =>
             /\ x \in DOMAIN books'
             /\ (subs[x] > 0 /\ since'[x] = since[x]) \/ since'[x] = i
      BY DEF LInv, IBooks
    <2>3. ASSUME NEW x \in DOMAIN books'
          PROVE  x \in Booked /\
             \/ subs'[x] = 0 /\ books'[x] = {}
             \/ /\ subs'[x] > 0 /\ subs[x] > 0 /\ since'[x] = since[x] /\ x \in DOMAIN books
                /\ ~Reports(i, x) /\ books'[x] = books[x]
      <3>1. x \in Booked /\ subs[x] \in 0 .. 2 BY DEF LInv, IType
      <3>2. subs[x] = 0 => books[x] = {} BY DEF LInv, IBooks
      <3>3. subs[x] = 0 \/ subs[x] > 0 BY <3>1
      <3> QED BY <2>1, <3>1, <3>2, <3>3
    <2> QED BY <1>1, <2>2, <2>3, ReadBooks
  <1> QED BY <1>1, <1>5, <1>6, <1>7, <1>8 DEF LInv

LEMMA StatesStay ==
    ASSUME LInv, NEW i, Turn(i), st = "started", st' = st, begun' = begun,
           live' = live, links' = links, log' = log,
           NEW X, X \subseteq Node \X Node, cur' = Join(At(i), X, i),
           known' = known, states' = states, log[i].typ \notin {"Register", "BrokerState"}
    PROVE  IStates'
  <1>1. ASSUME NEW b \in known' \cap Broker
        PROVE  /\ b \in known /\ <<b, "all">> # log[i].j /\ cur'[<<b, "all">>] = cur[<<b, "all">>]
               /\ ~Registers(i, b) /\ states'[b] = states[b]
    <2>1. b \in known /\ b \in App /\ b \in Node BY <1>1, Names
    <2>2. <<b, "all">> # log[i].j
      <3>1. Shape(log[i]) /\ log[i].typ \in FrameType BY TurnIs DEF Entry
      <3>2. /\ <<b, "all">> # Public /\ \A a \in Node : <<b, "all">> # Cmd(a)
            /\ \A s, t \in Node : <<b, "all">> # <<s, t>>
        BY <2>1, Names, JournalNames
      <3>3. TD \subseteq Node /\ Strategy \subseteq Node /\ "ledger" \in Node /\ Cmd("all") # <<b, "all">>
        BY <2>1, Names DEF Cmd
      <3> QED BY <3>1, <3>2, <3>3 DEF Shape, FrameType
    <2>3. cur'[<<b, "all">>] = cur[<<b, "all">>] BY <2>1, <2>2, JoinsChannels
    <2> QED BY <2>1, <2>2, <2>3 DEF Registers
  <1>2. cur'[Public] = IF log[i].j = Public THEN i + 1 ELSE cur[Public] BY JoinsChannels
  <1> QED BY <1>1, <1>2, JoinsChannels, ReadStates

LEMMA StartedLocation ==
    ASSUME LInv, NEW i, Turn(i), st = "started", live' = live, links' = links, log' = log,
           log[i].typ = "Location", OnLocation(log[i], At(i), i)
    PROVE  LInv'
  <1>1. /\ i \in 1 .. Now /\ Shape(log[i]) /\ Cmd("ledger") \in Journal
        /\ log[i].arg \in Node /\ log[i].arg \in Named(log[i])
    BY TurnIs, JournalNames, Names DEF Shape, Named
  <1>2. log[i].arg \in known
    <2>1. Alive(i, log[i].arg) BY <1>1 DEF LInv, INamed
    <2>2. ~Comes(i, log[i].arg) BY DEF Comes, Registers, Deregisters
    <2> QED BY <1>1, <2>1, <2>2, KnownAt
  <1>3. /\ known' = known /\ cur' = At(i)
        /\ UNCHANGED <<asks, st, begun, channels, writers, states, bvars, cvars>>
    BY <1>2 DEF OnLocation, RegisterLocation
  <1>4. cur' = Join(At(i), {}, i) BY <1>3, AtIs
  <1>5. cur[Cmd("ledger")] <= i BY <1>1 DEF LInv, IPlace, Turn
  <1>6. ICur' BY <1>3, <1>4, <1>5, StaysCur DEF bvars
  <1>7. /\ \A a : ~Registers(i, a) /\ ~Grants(i, a) /\ (Locates(i, a) => a \in known)
        /\ known \subseteq Node /\ channels \subseteq Node \X Node
        /\ writers \subseteq Node \cup {"master"}
    BY <1>2 DEF Registers, Grants, Locates, LInv, IType
  <1> QED BY <1>3, <1>4, <1>6, <1>7, StartedQuiet DEF bvars, cvars

LEMMA StartedWriteTo ==
    ASSUME LInv, NEW i, Turn(i), st = "started", live' = live, links' = links, log' = log,
           log[i].typ = "WriteTo", OnWriteTo(log[i], At(i))
    PROVE  LInv'
  <1>1. /\ i \in 1 .. Now /\ Shape(log[i]) /\ Cmd("ledger") \in Journal
        /\ log[i].j = Cmd("ledger") /\ log[i].arg \in App \cup {"master"}
    BY TurnIs, JournalNames, Names DEF Shape
  <1>2. log[i].arg \in known \cup {"master"}
    <2> SUFFICES ASSUME log[i].arg # "master" PROVE log[i].arg \in known
      OBVIOUS
    <2>1. log[i].arg \in Named(log[i]) /\ log[i].arg \in Node BY <1>1, Names DEF Named
    <2>2. Alive(i, log[i].arg) BY <1>1, <2>1 DEF LInv, INamed
    <2>3. ~Comes(i, log[i].arg) BY DEF Comes, Registers, Deregisters
    <2> QED BY <2>1, <2>2, <2>3, KnownAt
  <1>3. /\ known' = known /\ cur' = At(i) /\ writers' = writers \cup {log[i].arg} /\ st' = st
        /\ UNCHANGED <<asks, begun, channels, states, bvars, cvars>>
    BY <1>1, <1>2 DEF OnWriteTo
  <1>4. cur' = Join(At(i), {}, i) BY <1>3, AtIs
  <1>5. cur[Cmd("ledger")] <= i BY <1>1 DEF LInv, IPlace, Turn
  <1>6. ICur' BY <1>3, <1>4, <1>5, StaysCur DEF bvars
  <1>7. /\ \A a : ~Registers(i, a) /\ ~Locates(i, a) /\ (Grants(i, a) => a \in writers')
        /\ known \subseteq Node /\ channels \subseteq Node \X Node
        /\ writers \subseteq writers' /\ writers' \subseteq Node \cup {"master"}
    BY <1>1, <1>3, Names DEF Registers, Grants, Locates, LInv, IType
  <1> QED BY <1>3, <1>4, <1>6, <1>7, StartedQuiet DEF bvars, cvars

LEMMA StartedReadFrom ==
    ASSUME LInv, NEW i, Turn(i), st = "started", live' = live, links' = links, log' = log,
           log[i].typ = "ReadFrom", OnReadFrom(log[i], At(i), i)
    PROVE  LInv'
  <1>1. /\ i \in 1 .. Now /\ Shape(log[i]) /\ Cmd("ledger") \in Journal
    BY TurnIs, JournalNames, Names
  <1> PICK f : f = log[i] OBVIOUS
  <1>2. PICK a \in Node : f.j = Cmd(a) BY <1>1 DEF Shape
  <1>3. f.arg \in Node /\ f.j[2] = a BY <1>1, <1>2 DEF Shape, Cmd
  <1>4. {f.arg, a} \subseteq known
    <2>1. f.arg \in Named(f) /\ a \in Named(f) BY <1>3 DEF Named
    <2>2. Alive(i, f.arg) /\ Alive(i, a) BY <1>1, <2>1 DEF LInv, INamed
    <2>3. ~Comes(i, f.arg) /\ ~Comes(i, a) BY DEF Comes, Registers, Deregisters
    <2> QED BY <1>3, <2>2, <2>3, KnownAt
  <1>5. /\ st' = st
        /\ UNCHANGED <<asks, begun, known, channels, writers, states, bvars, cvars>>
    BY <1>3, <1>4 DEF OnReadFrom
  <1>6. PICK X : X \subseteq Node \X Node /\ cur' = Join(At(i), X, i)
    <2>1. cur' = IF a = "ledger" \/ (f.arg \in TD /\ a \in Strategy)
                   THEN Join(At(i), {<<f.arg, a>>}, i) ELSE At(i)
      BY <1>3 DEF OnReadFrom
    <2>2. {<<f.arg, a>>} \subseteq Node \X Node BY <1>3
    <2>3. {} \subseteq Node \X Node /\ At(i) = Join(At(i), {}, i) BY AtIs
    <2> QED BY <2>1, <2>2, <2>3
  <1>7. cur[Cmd("ledger")] <= i BY <1>1 DEF LInv, IPlace, Turn
  <1>8. ICur' BY <1>5, <1>6, <1>7, StaysCur DEF bvars
  <1>9. /\ \A x : ~Registers(i, x) /\ ~Locates(i, x) /\ ~Grants(i, x)
        /\ known \subseteq Node /\ channels \subseteq Node \X Node
        /\ writers \subseteq Node \cup {"master"}
    BY DEF Registers, Grants, Locates, LInv, IType
  <1> QED BY <1>5, <1>6, <1>8, <1>9, StartedQuiet DEF bvars, cvars

LEMMA StartedRequestStart ==
    ASSUME LInv, NEW i, Turn(i), st = "started", live' = live, links' = links, log' = log,
           log[i].typ = "RequestStart", OnRequestStart(log[i], At(i), i)
    PROVE  LInv'
  <1>1. Cmd("ledger") \in Journal BY JournalNames, Names
  <1>2. /\ cur' = At(i) /\ st' = st /\ begun' = begun
        /\ UNCHANGED <<asks, known, channels, writers, states, bvars, cvars>>
    BY DEF OnRequestStart
  <1>3. cur' = Join(At(i), {}, i) BY <1>2, AtIs
  <1>4. cur[Cmd("ledger")] <= i BY <1>1 DEF LInv, IPlace, Turn
  <1>5. ICur' BY <1>2, <1>3, <1>4, StaysCur DEF bvars
  <1>6. /\ \A a : ~Registers(i, a) /\ ~Grants(i, a) /\ ~Locates(i, a)
        /\ known \subseteq Node /\ channels \subseteq Node \X Node
        /\ writers \subseteq Node \cup {"master"}
    BY DEF Registers, Grants, Locates, LInv, IType
  <1> QED BY <1>2, <1>3, <1>5, <1>6, StartedQuiet DEF bvars, cvars

(* The master registers the ledger again. *)
LEMMA StartedLedger ==
    ASSUME LInv, NEW i, Turn(i), st = "started", live' = live, links' = links, log' = log,
           log[i].typ = "Register", log[i].arg = "ledger", OnRegister(log[i], At(i), i)
    PROVE  LInv'
  <1>1. Cmd("ledger") \in Journal /\ "ledger" \in Node /\ "ledger" \notin App BY JournalNames, Names
  <1>2. /\ cur' = At(i) /\ known' = known \cup {"ledger"}
        /\ UNCHANGED <<asks, st, begun, channels, writers, states, bvars, cvars>>
    BY DEF OnRegister, RegisterLocation
  <1>3. cur' = Join(At(i), {}, i) BY <1>2, AtIs
  <1>4. cur[Cmd("ledger")] <= i BY <1>1 DEF LInv, IPlace, Turn
  <1>5. \A a \in App : a \in known' <=> a \in known BY <1>1, <1>2
  <1>6. ICur' BY <1>2, <1>3, <1>4, <1>5, StaysCur DEF bvars
  <1>7. /\ \A a : Registers(i, a) <=> a = "ledger"
        /\ \A a : ~Grants(i, a) /\ ~Locates(i, a)
        /\ known' \subseteq Node /\ channels \subseteq Node \X Node
        /\ writers \subseteq Node \cup {"master"}
    BY <1>1, <1>2 DEF Registers, Grants, Locates, LInv, IType
  <1>8. /\ \A x \in Node : x \in known' <=> x \in known \/ Registers(i, x)
        /\ \A a \in App : ~Registers(i, a)
    BY <1>1, <1>2, <1>7
  <1> QED BY <1>2, <1>3, <1>6, <1>7, <1>8, StartedQuiet DEF bvars, cvars

LEMMA BooksStay ==
    ASSUME LInv, NEW i, Turn(i), Moved(i), st = "started", st' = st,
           books' = books, since' = since, subs' = subs, log[i].typ # "Order"
    PROVE  IBooks'
  <1>1. \A x : ~Reports(i, x) BY DEF Reports
  <1>2. \A x \in Booked : subs'[x] > 0 =>
           /\ x \in DOMAIN books'
           /\ (subs[x] > 0 /\ since'[x] = since[x]) \/ since'[x] = i
    BY DEF LInv, IBooks
  <1>3. ASSUME NEW x \in DOMAIN books'
        PROVE  x \in Booked /\
           \/ subs'[x] = 0 /\ books'[x] = {}
           \/ /\ subs'[x] > 0 /\ subs[x] > 0 /\ since'[x] = since[x] /\ x \in DOMAIN books
              /\ ~Reports(i, x) /\ books'[x] = books[x]
    <2>1. x \in Booked /\ subs[x] \in 0 .. 2 BY DEF LInv, IType
    <2>2. subs[x] = 0 => books[x] = {} BY DEF LInv, IBooks
    <2>3. subs[x] = 0 \/ subs[x] > 0 BY <2>1
    <2> QED BY <1>1, <2>1, <2>2, <2>3
  <1> QED BY <1>2, <1>3, ReadBooks

(* A channel is told. *)
LEMMA ChannelCur ==
    ASSUME LInv, NEW i, Turn(i), live' = live, links' = links, log' = log,
           log[i].typ = "Channel", OnChannel(log[i], At(i), i),
           log[i].j = Public => cur[Cmd("ledger")] <= i
    PROVE  /\ ICur' /\ channels' \subseteq Node \X Node
           /\ \E X : /\ X \subseteq Node \X Node /\ cur' = Join(At(i), X, i)
                     /\ added = {} => X = {}
  <1>1. i \in 1 .. Now /\ Shape(log[i]) BY TurnIs
  <1> PICK e : e = log[i].arg OBVIOUS
  <1>2. e \in Node \X Node BY <1>1 DEF Shape
  <1> PICK X : X = UNION {BookChannels(x, {e}) : x \in added} OBVIOUS
  <1>3. /\ channels' = channels \cup {e} /\ cur' = Join(At(i), X, i)
        /\ UNCHANGED <<asks, st, begun, known, writers, states, bvars, cvars>>
    BY DEF OnChannel
  <1>4. X \subseteq {e} /\ (e[1] \in added => e \in X) BY DEF BookChannels
  <1>5. X \subseteq Node \X Node BY <1>2, <1>4
  <1>6. /\ cur'[Public] = IF log[i].j = Public THEN i + 1 ELSE cur[Public]
        /\ cur'[Cmd("ledger")] = IF log[i].j = Cmd("ledger") THEN i + 1 ELSE cur[Cmd("ledger")]
        /\ \A a \in Node : cur'[<<a, "all">>] # 0 <=> cur[<<a, "all">>] # 0
        /\ \A j \in Journal : cur[j] # 0 => cur'[j] # 0
        /\ \A j \in X : j \in Journal => cur'[j] # 0
    BY <1>3, <1>5, JoinsChannels
  <1>7. /\ App \subseteq Node /\ Cmd("ledger") \in Journal
        /\ \A c \in Node \X Node : c \in Journal
        /\ channels \subseteq Node \X Node
    <2>1. \A c \in Node \X Node : c \in Journal BY DEF Journal
    <2> QED BY <2>1, Names, JournalNames DEF LInv, IType
  <1>8. \A c \in Node \X Node : Links(i, c) => c \in channels' BY <1>3 DEF Links
  <1>9. added' = added /\ known' = known /\ st' = st BY <1>3 DEF bvars
  <1>10. \A a \in App : cur'[<<a, "all">>] # 0 <=> a \in known' BY <1>6, <1>7, <1>9 DEF LInv, ICur
  <1>11. known' \cap Booked \subseteq added' BY <1>9 DEF LInv, ICur
  <1>12. ASSUME NEW c \in channels', c[1] \in added' PROVE cur'[c] # 0
    <2>1. CASE c \in channels
      <3>1. cur[c] # 0 BY <1>9, <1>12, <2>1 DEF LInv, ICur
      <3> QED BY <1>6, <1>7, <2>1, <3>1
    <2>2. CASE c = e BY <1>2, <1>4, <1>6, <1>7, <1>9, <1>12, <2>2
    <2> QED BY <1>3, <2>1, <2>2
  <1>13. st' \in {"joined", "started"} => cur'[Cmd("ledger")] # 0
    BY <1>6, <1>7, <1>9 DEF LInv, ICur
  <1>14. \A c \in channels : c \in channels' BY <1>3
  <1>15. ICur' BY <1>6, <1>8, <1>10, <1>11, <1>12, <1>13, <1>14, ReadCur
  <1>16. channels' \subseteq Node \X Node BY <1>2, <1>3, <1>7
  <1>17. added = {} => X = {} OBVIOUS
  <1> QED BY <1>3, <1>5, <1>15, <1>16, <1>17

LEMMA StartedChannel ==
    ASSUME LInv, NEW i, Turn(i), st = "started", live' = live, links' = links, log' = log,
           log[i].typ = "Channel", OnChannel(log[i], At(i), i)
    PROVE  LInv'
  <1>1. Cmd("ledger") \in Journal BY JournalNames, Names
  <1>2. cur[Cmd("ledger")] <= i BY <1>1 DEF LInv, IPlace, Turn
  <1>3. ICur' /\ channels' \subseteq Node \X Node BY <1>2, ChannelCur
  <1>4. PICK X : X \subseteq Node \X Node /\ cur' = Join(At(i), X, i) BY <1>2, ChannelCur
  <1>5. UNCHANGED <<asks, st, begun, known, writers, states, bvars, cvars>> BY DEF OnChannel
  <1>6. /\ \A a : ~Registers(i, a) /\ ~Grants(i, a) /\ ~Locates(i, a)
        /\ known \subseteq Node /\ writers \subseteq Node \cup {"master"}
    BY DEF Registers, Grants, Locates, LInv, IType
  <1> QED BY <1>3, <1>4, <1>5, <1>6, StartedQuiet DEF bvars, cvars

(* A broker tells its state. *)
LEMMA StartedBrokerState ==
    ASSUME LInv, NEW i, Turn(i), st = "started", live' = live, links' = links, log' = log,
           log[i].typ = "BrokerState", OnBrokerState(log[i], At(i))
    PROVE  LInv'
  <1>1. i \in 1 .. Now /\ Shape(log[i]) /\ Cmd("ledger") \in Journal
    BY TurnIs, JournalNames, Names
  <1> PICK f : f = log[i] OBVIOUS
  <1>2. PICK b \in Broker : f.j = <<b, "all">> BY <1>1 DEF Shape
  <1>3. f.j[1] = b /\ f.arg \in Report /\ b \in Node /\ b \in App BY <1>1, <1>2, Names DEF Shape
  <1>4. b \in known
    <2>1. b \in Named(f) BY <1>3 DEF Named
    <2>2. Alive(i, b) BY <1>1, <2>1 DEF LInv, INamed
    <2>3. ~Comes(i, b) BY DEF Comes, Registers, Deregisters
    <2> QED BY <1>3, <2>2, <2>3, KnownAt
  <1>5. /\ cur' = At(i) /\ st' = st
        /\ states' = Put(states, b, f.arg)
        /\ seen' = IF informed THEN [seen EXCEPT ![b] = f.arg] ELSE seen
        /\ UNCHANGED <<asks, begun, known, channels, writers, bvars, informed>>
    BY <1>3, <1>4 DEF OnBrokerState, UpdateBrokerState
  <1>6. cur' = Join(At(i), {}, i) BY <1>5, AtIs
  <1>7. cur[Cmd("ledger")] <= i BY <1>1 DEF LInv, IPlace, Turn
  <1>8. ICur' BY <1>5, <1>6, <1>7, StaysCur DEF bvars
  <1>9. /\ \A a : ~Registers(i, a) /\ ~Grants(i, a) /\ ~Locates(i, a)
    BY DEF Registers, Grants, Locates
  <1>10. /\ Moved(i)
         /\ ILog' /\ INamed' /\ IBack' /\ PairsTold' /\ LinksOK'
         /\ IPlace' /\ IReach' /\ Survives' /\ IWait' /\ IJoined' /\ IDown'
    BY <1>5, <1>6, <1>8, <1>9, StartedStays
  <1>11. b \in DOMAIN states /\ f.arg \in State BY <1>3, <1>4 DEF LInv, IType, State
  <1>12. /\ DOMAIN states' = DOMAIN states /\ states'[b] = f.arg
         /\ \A x \in DOMAIN states : x # b => states'[x] = states[x]
    <2> PICK S : S = states OBVIOUS
    <2> PICK y : y = f.arg OBVIOUS
    <2>1. /\ DOMAIN Put(S, b, y) = DOMAIN S \cup {b}
          /\ Put(S, b, y)[b] = y
          /\ \A z \in DOMAIN S : z # b => Put(S, b, y)[z] = S[z]
      BY DEF Put
    <2>2. states' = Put(S, b, y) BY <1>5
    <2> QED BY <1>11, <2>1, <2>2
  <1>13. IType'
    <2>1. Now' = Now BY DEF Now
    <2>2. cur' \in [Journal -> 0 .. Now + 1] BY <1>10 DEF Moved
    <2>3. seen' \in [Broker -> State \cup {None}] BY <1>5, <1>11 DEF LInv, IType
    <2>4. DOMAIN states' = known' \cap Broker /\ \A x \in DOMAIN states' : states'[x] \in State
      BY <1>5, <1>11, <1>12 DEF LInv, IType
    <2> QED BY <1>5, <2>1, <2>2, <2>3, <2>4 DEF LInv, IType, bvars
  <1>14. IClient'
    <2>1. ASSUME NEW x \in Broker, informed
          PROVE  \/ x \in DOMAIN states' /\ x \in known' /\ seen'[x] = states'[x]
                 \/ x \notin DOMAIN states' /\ seen'[x] \in {None, "DisConnected"}
      <3>1. seen' = [seen EXCEPT ![b] = f.arg] /\ seen \in [Broker -> State \cup {None}]
        BY <1>5, <2>1 DEF LInv, IType
      <3>2. x # b => seen'[x] = seen[x] BY <3>1
      <3>3. seen'[b] = f.arg BY <3>1
      <3>4. \/ x \in DOMAIN states /\ x \in known /\ seen[x] = states[x]
            \/ x \notin DOMAIN states /\ seen[x] \in {None, "DisConnected"}
        BY <2>1 DEF LInv, IClient, Informed
      <3> QED BY <1>4, <1>5, <1>11, <1>12, <3>2, <3>3, <3>4
    <2> QED BY <1>5, <2>1 DEF LInv, IClient, Informed
  <1>15. IStates'
    <2>1. ASSUME NEW x \in known' \cap Broker
          PROVE
             \/ /\ x \in known /\ <<x, "all">> # log[i].j /\ cur'[<<x, "all">>] = cur[<<x, "all">>]
                /\ ~Registers(i, x) /\ states'[x] = states[x]
             \/ /\ x \in known /\ log[i].typ = "BrokerState" /\ log[i].j = <<x, "all">>
                /\ states'[x] = log[i].arg
      <3>1. x \in known /\ x \in Node /\ x \in DOMAIN states
        BY <1>5, <2>1, Names DEF LInv, IType
      <3>2. CASE x = b BY <1>2, <1>12, <3>1, <3>2
      <3>3. CASE x # b
        <4>1. <<x, "all">> # log[i].j BY <1>2, <3>3
        <4>2. cur'[<<x, "all">>] = cur[<<x, "all">>] BY <1>6, <3>1, <4>1, JoinsChannels
        <4> QED BY <1>9, <1>12, <3>1, <3>3, <4>1, <4>2
      <3> QED BY <3>2, <3>3
    <2>2. cur'[Public] = IF log[i].j = Public THEN i + 1 ELSE cur[Public] BY <1>6, JoinsChannels
    <2> QED BY <1>5, <1>10, <2>1, <2>2, ReadStates
  <1>16. IBooks' BY <1>5, <1>10, BooksStay DEF bvars
  <1> QED BY <1>8, <1>10, <1>13, <1>14, <1>15, <1>16 DEF LInv

(* Books change, and nothing else. *)
LEMMA StartedBooks ==
    ASSUME LInv, NEW i, Turn(i), st = "started", live' = live, links' = links, log' = log,
           log[i].typ \in {"Order", "QryAsset"}, cur' = At(i),
           UNCHANGED <<asks, st, begun, known, channels, writers, states, since, subs, added, cvars>>,
           DOMAIN books' \subseteq Booked, \A x \in DOMAIN books' : books'[x] \subseteq OrderId,
           Moved(i) => IBooks'
    PROVE  LInv'
  <1>1. Cmd("ledger") \in Journal BY JournalNames, Names
  <1>2. cur' = Join(At(i), {}, i) BY AtIs
  <1>3. cur[Cmd("ledger")] <= i BY <1>1 DEF LInv, IPlace, Turn
  <1>4. ICur' BY <1>2, <1>3, StaysCur
  <1>5. \A a : ~Registers(i, a) /\ ~Grants(i, a) /\ ~Locates(i, a)
    BY DEF Registers, Grants, Locates
  <1>6. /\ Moved(i)
        /\ ILog' /\ INamed' /\ IBack' /\ PairsTold' /\ LinksOK'
        /\ IPlace' /\ IReach' /\ Survives' /\ IWait' /\ IJoined' /\ IDown'
    BY <1>2, <1>4, <1>5, StartedStays
  <1>7. IType'
    <2>1. Now' = Now BY DEF Now
    <2>2. cur' \in [Journal -> 0 .. Now + 1] BY <1>6 DEF Moved
    <2> QED BY <2>1, <2>2 DEF LInv, IType, cvars
  <1>8. IClient' BY DEF LInv, IClient, Informed, cvars
  <1>9. IStates' BY <1>2, StatesStay
  <1> QED BY <1>4, <1>6, <1>7, <1>8, <1>9 DEF LInv

LEMMA StartedOrder ==
    ASSUME LInv, NEW i, Turn(i), st = "started", live' = live, links' = links, log' = log,
           log[i].typ = "Order", OnOrder(log[i], At(i))
    PROVE  LInv'
  <1>1. i \in 1 .. Now /\ Shape(log[i]) BY TurnIs
  <1> PICK f : f = log[i] OBVIOUS
  <1>2. PICK t \in TD, s \in Strategy : f.j = <<t, s>> BY <1>1 DEF Shape
  <1> PICK r : r = f.arg OBVIOUS
  <1>3. r.id \in OrderId BY <1>1 DEF Shape
  <1>4. /\ cur' = At(i)
        /\ books' = [x \in DOMAIN books |->
                       IF x = f.j[IF x \in TD THEN 1 ELSE 2] THEN Applied(x, r) ELSE books[x]]
        /\ UNCHANGED <<asks, st, begun, known, channels, writers, states, since, subs, added, cvars>>
    BY DEF OnOrder
  <1>5. /\ DOMAIN books' = DOMAIN books /\ DOMAIN books \subseteq Booked
        /\ \A x \in DOMAIN books : books[x] \subseteq OrderId /\ subs[x] \in 0 .. 2
        /\ \A x \in DOMAIN books : subs[x] = 0 => books[x] = {}
        /\ \A x \in Booked : subs[x] > 0 => x \in DOMAIN books
    BY <1>4 DEF LInv, IType, IBooks
  <1>6. ASSUME NEW x \in DOMAIN books
        PROVE  /\ Reports(i, x) <=> x = f.j[IF x \in TD THEN 1 ELSE 2]
               /\ Reports(i, x) => books'[x] = Applied(x, r)
               /\ ~Reports(i, x) => books'[x] = books[x]
    <2>1. Reports(i, x) <=> x \in {t, s} BY <1>2 DEF Reports
    <2>2. CASE x \in TD
      <3>1. x # s BY <2>2, Names
      <3>2. f.j[IF x \in TD THEN 1 ELSE 2] = t BY <1>2, <2>2
      <3> QED BY <1>4, <2>1, <3>1, <3>2
    <2>3. CASE x \notin TD
      <3>1. x # t BY <2>3
      <3>2. f.j[IF x \in TD THEN 1 ELSE 2] = s BY <1>2, <2>3
      <3> QED BY <1>4, <2>1, <3>1, <3>2
    <2> QED BY <2>2, <2>3
  <1>7. ASSUME NEW x \in DOMAIN books
        PROVE  Applied(x, r) = IF subs[x] = 0 THEN books[x] ELSE BookOnOrder(books[x], r)
    <2>1. subs[x] = 0 \/ subs[x] = 1 \/ subs[x] = 2 BY <1>5
    <2>2. BookOnOrder(BookOnOrder(books[x], r), r) = BookOnOrder(books[x], r)
      <3>1. CASE r.active BY <3>1 DEF BookOnOrder
      <3>2. CASE ~r.active BY <3>2 DEF BookOnOrder
      <3> QED BY <3>1, <3>2
    <2>3. CASE subs[x] = 0 BY <2>3 DEF Applied
    <2>4. CASE subs[x] = 1 BY <2>4 DEF Applied
    <2>5. CASE subs[x] = 2 BY <2>2, <2>5 DEF Applied
    <2> QED BY <2>1, <2>3, <2>4, <2>5
  <1>8. \A x \in DOMAIN books : BookOnOrder(books[x], r) \subseteq OrderId
    BY <1>3, <1>5 DEF BookOnOrder
  <1>9. \A x \in DOMAIN books' : books'[x] \subseteq OrderId BY <1>5, <1>6, <1>7, <1>8
  <1>10. ASSUME Moved(i) PROVE IBooks'
    <2>1. \A x \in Booked : subs'[x] > 0 =>
             /\ x \in DOMAIN books'
             /\ (subs[x] > 0 /\ since'[x] = since[x]) \/ since'[x] = i
      BY <1>4, <1>5
    <2>2. ASSUME NEW x \in DOMAIN books'
          PROVE  x \in Booked /\
             \/ subs'[x] = 0 /\ books'[x] = {}
             \/ /\ subs'[x] > 0 /\ subs[x] > 0 /\ since'[x] = since[x] /\ x \in DOMAIN books
                /\ \/ ~Reports(i, x) /\ books'[x] = books[x]
                   \/ Reports(i, x) /\ books'[x] = BookOnOrder(books[x], log[i].arg)
      <3>1. x \in Booked /\ x \in DOMAIN books BY <1>5
      <3>2. CASE subs[x] = 0
        <4>1. books'[x] = {} BY <1>5, <1>6, <1>7, <3>1, <3>2
        <4> QED BY <1>4, <3>1, <3>2, <4>1
      <3>3. CASE subs[x] > 0
        <4>1. Reports(i, x) => books'[x] = BookOnOrder(books[x], r) BY <1>5, <1>6, <1>7, <3>1, <3>3
        <4> QED BY <1>4, <1>6, <3>1, <3>3, <4>1
      <3>4. subs[x] = 0 \/ subs[x] > 0 BY <1>5, <3>1
      <3> QED BY <3>2, <3>3, <3>4
    <2> QED BY <1>4, <1>10, <2>1, <2>2, ReadBooks
  <1> QED BY <1>4, <1>5, <1>9, <1>10, StartedBooks

LEMMA StartedQryAsset ==
    ASSUME LInv, NEW i, Turn(i), st = "started", live' = live, links' = links, log' = log,
           log[i].typ = "QryAsset", OnQryAsset(log[i], At(i))
    PROVE  LInv'
  <1>1. i \in 1 .. Now /\ Shape(log[i]) BY TurnIs
  <1> PICK t : t = log[i].arg OBVIOUS
  <1>2. t \in Booked BY <1>1, Names DEF Shape
  <1>3. /\ cur' = At(i) /\ books' = GetBook(t)
        /\ UNCHANGED <<asks, st, begun, known, channels, writers, states, since, subs, added, cvars>>
    BY DEF OnQryAsset
  <1>4. /\ DOMAIN books \subseteq Booked
        /\ \A x \in DOMAIN books : books[x] \subseteq OrderId /\ subs[x] \in 0 .. 2
        /\ \A x \in DOMAIN books : subs[x] = 0 => books[x] = {}
        /\ \A x \in Booked : subs[x] > 0 => x \in DOMAIN books
        /\ \A x \in Booked : subs[x] \in 0 .. 2
    BY DEF LInv, IType, IBooks
  <1>5. /\ DOMAIN books' \subseteq DOMAIN books \cup {t} /\ DOMAIN books \subseteq DOMAIN books'
        /\ \A x \in DOMAIN books : books'[x] = books[x]
        /\ \A x \in DOMAIN books' : x \notin DOMAIN books => books'[x] = {}
    <2>1. CASE t \in DOMAIN books BY <1>3, <2>1 DEF GetBook
    <2>2. CASE t \notin DOMAIN books BY <1>3, <2>2 DEF GetBook, Put
    <2> QED BY <2>1, <2>2
  <1>6. DOMAIN books' \subseteq Booked /\ \A x \in DOMAIN books' : books'[x] \subseteq OrderId
    BY <1>2, <1>4, <1>5
  <1>7. ASSUME Moved(i) PROVE IBooks'
    <2>1. \A x : ~Reports(i, x) BY DEF Reports
    <2>2. \A x \in Booked : subs'[x] > 0 =>
             /\ x \in DOMAIN books'
             /\ (subs[x] > 0 /\ since'[x] = since[x]) \/ since'[x] = i
      BY <1>3, <1>4, <1>5
    <2>3. ASSUME NEW x \in DOMAIN books'
          PROVE  x \in Booked /\
             \/ subs'[x] = 0 /\ books'[x] = {}
             \/ /\ subs'[x] > 0 /\ subs[x] > 0 /\ since'[x] = since[x] /\ x \in DOMAIN books
                /\ ~Reports(i, x) /\ books'[x] = books[x]
      <3>1. x \in Booked BY <1>6
      <3>2. CASE subs[x] = 0 BY <1>3, <1>4, <1>5, <3>1, <3>2
      <3>3. CASE subs[x] > 0 BY <1>3, <1>4, <1>5, <2>1, <3>1, <3>3
      <3>4. subs[x] = 0 \/ subs[x] > 0 BY <1>4, <3>1
      <3> QED BY <3>2, <3>3, <3>4
    <2> QED BY <1>3, <1>7, <2>2, <2>3, ReadBooks
  <1> QED BY <1>3, <1>6, <1>7, StartedBooks

-----------------------------------------------------------------------------
(* An application becomes known.                                           *)
LEMMA LearnCursors ==
    ASSUME LInv, NEW i, Turn(i), live' = live, links' = links, log' = log,
           NEW a \in App, a \notin known, NEW t \in 0 .. i, Learn(a, At(i), i, t),
           log[i].j = Public \/ \E x \in Node : log[i].j = Cmd(x)
    PROVE  /\ cur' \in [Journal -> 0 .. Now + 1] /\ cur'[log[i].j] = i + 1
           /\ \A j \in Journal : j = log[i].j \/ cur'[j] \in {t + 1, i + 1, cur[j]}
           /\ cur'[Public] = IF log[i].j = Public THEN i + 1 ELSE cur[Public]
           /\ cur'[Cmd("ledger")] = IF log[i].j = Cmd("ledger") THEN i + 1 ELSE cur[Cmd("ledger")]
           /\ cur'[<<a, "all">>] = t + 1
           /\ \A b \in App : b # a => cur'[<<b, "all">>] = cur[<<b, "all">>]
           /\ \A c \in Node \X Node : cur'[c] \in {i + 1, cur[c]} /\ (cur[c] # 0 => cur'[c] # 0)
           /\ a \in Booked => \A c \in BookChannels(a, channels) : cur'[c] # 0
  <1>1. /\ i \in 1 .. Now /\ Now \in Nat /\ i \in Nat /\ log[i].j \in Journal
        /\ cur[log[i].j] \in 1 .. i /\ i \in 0 .. i /\ t \in Nat /\ t + 1 \in 0 .. Now + 1
        /\ \A j \in Journal : cur[j] \in 0 .. Now + 1
    BY TurnIs
  <1> PICK J : J = log[i].j OBVIOUS
  <1> PICK W : W = {Cmd(a), <<a, "all">>} OBVIOUS
  <1> PICK B : B = IF a \in Booked THEN BookChannels(a, channels) ELSE {} OBVIOUS
  <1> PICK w : w = Join(At(i), W, t) OBVIOUS
  <1>2. /\ w \in [Journal -> 0 .. Now + 1] /\ w[J] = i + 1
        /\ \A j \in Journal : j # J => w[j] = IF j \in W /\ cur[j] = 0 THEN t + 1 ELSE cur[j]
    BY JoinIs
  <1>3. Watch(a, At(i), t) = w BY DEF Watch
  <1>4. \A j \in Journal : Join(w, B, i)[j] = IF j \in B /\ w[j] = 0 THEN i + 1 ELSE w[j]
    BY DEF Join
  <1>5. Join(w, B, i) \in [Journal -> 0 .. Now + 1]
    <2> DEFINE T == 0 .. Now + 1
    <2>1. w \in [Journal -> T] BY <1>2
    <2>2. i + 1 \in T BY <1>1
    <2> HIDE DEF T
    <2>3. Join(w, B, i) \in [Journal -> T] BY <2>1, <2>2 DEF Join
    <2> QED BY <2>3 DEF T
  <1>6. cur' = Join(w, B, i)
    <2>1. CASE a \in Booked BY <1>3, <2>1 DEF Learn
    <2>2. CASE a \notin Booked
      <3>1. cur' = w BY <1>3, <2>2 DEF Learn
      <3>2. Join(w, {}, i) = w BY <1>2 DEF Join
      <3> QED BY <2>2, <3>1, <3>2
    <2> QED BY <2>1, <2>2
  <1>7. B \subseteq Node \X Node BY DEF BookChannels, LInv, IType
  <1>8. /\ Public \in Journal /\ Cmd("ledger") \in Journal /\ a \in Node /\ a # "ledger"
        /\ Public \notin W /\ Cmd("ledger") \notin W /\ Public \notin B /\ Cmd("ledger") \notin B
        /\ \A b \in App : /\ <<b, "all">> \in Journal /\ <<b, "all">> \notin B
                          /\ (<<b, "all">> \in W <=> b = a) /\ <<b, "all">> # J
        /\ \A c \in Node \X Node : c \in Journal /\ c \notin W
    <2>1. \A c \in Node \X Node : c \in Journal BY DEF Journal
    <2>2. a \in Node /\ a # "ledger" /\ "ledger" \in Node /\ App \subseteq Node
          /\ "master" \notin Node /\ "all" \notin Node
      BY Names
    <2>3. Public \in Journal /\ Cmd("ledger") \in Journal /\ Cmd(a) # Public /\ Cmd(a) # Cmd("ledger")
      BY <2>2, JournalNames
    <2>4. \A b \in App : <<b, "all">> \in Journal /\ <<b, "all">> # Public /\ \A x \in Node : <<b, "all">> # Cmd(x)
      BY <2>2, JournalNames
    <2>5. \A c \in Node \X Node : c # Cmd(a) /\ c # Cmd("ledger") /\ c # Public /\ c[2] \in Node /\ c[1] \in Node
      BY <2>2 DEF Cmd, Public
    <2>6. \A b \in App : \A c \in Node \X Node : c # <<b, "all">> BY <2>2
    <2> QED BY <1>7, <2>1, <2>2, <2>3, <2>4, <2>5, <2>6
  <1>9. cur'[J] = i + 1 BY <1>1, <1>2, <1>4, <1>6
  <1>10. \A j \in Journal : j # J =>
           cur'[j] = IF j \in W /\ cur[j] = 0 THEN t + 1
                     ELSE IF j \in B /\ cur[j] = 0 THEN i + 1 ELSE cur[j]
    <2> SUFFICES ASSUME NEW j \in Journal, j # J
                 PROVE  cur'[j] = IF j \in W /\ cur[j] = 0 THEN t + 1
                                  ELSE IF j \in B /\ cur[j] = 0 THEN i + 1 ELSE cur[j]
      OBVIOUS
    <2>1. w[j] = IF j \in W /\ cur[j] = 0 THEN t + 1 ELSE cur[j] BY <1>2
    <2>2. cur'[j] = IF j \in B /\ w[j] = 0 THEN i + 1 ELSE w[j] BY <1>4, <1>6
    <2>3. t + 1 # 0 BY <1>1
    <2> QED BY <2>1, <2>2, <2>3
  <1>11. cur[<<a, "all">>] = 0 BY <1>8 DEF LInv, ICur
  <1>12. cur'[<<a, "all">>] = t + 1 BY <1>8, <1>10, <1>11
  <1>13. \A b \in App : b # a => cur'[<<b, "all">>] = cur[<<b, "all">>] BY <1>8, <1>10
  <1>14. \A c \in Node \X Node : cur'[c] \in {i + 1, cur[c]} /\ (cur[c] # 0 => cur'[c] # 0)
    BY <1>1, <1>8, <1>9, <1>10
  <1>15. a \in Booked => \A c \in BookChannels(a, channels) : cur'[c] # 0
    BY <1>1, <1>7, <1>8, <1>9, <1>10
  <1>16. cur'[Public] = IF J = Public THEN i + 1 ELSE cur[Public] BY <1>8, <1>9, <1>10
  <1>17. cur'[Cmd("ledger")] = IF J = Cmd("ledger") THEN i + 1 ELSE cur[Cmd("ledger")]
    BY <1>8, <1>9, <1>10
  <1>18. \A j \in Journal : j = J \/ cur'[j] \in {t + 1, i + 1, cur[j]} BY <1>10
  <1> QED BY <1>5, <1>6, <1>9, <1>12, <1>13, <1>14, <1>15, <1>16, <1>17, <1>18

LEMMA LearnCur ==
    ASSUME LInv, NEW i, Turn(i), live' = live, links' = links, log' = log,
           NEW a \in App, a \notin known, NEW t \in 0 .. i, Learn(a, At(i), i, t),
           log[i].j = Public \/ \E x \in Node : log[i].j = Cmd(x),
           log[i].typ \notin {"Deregister", "Channel"},
           log[i].j = Public => cur[Cmd("ledger")] <= i
    PROVE  ICur'
  <1>1. /\ cur'[Public] = IF log[i].j = Public THEN i + 1 ELSE cur[Public]
        /\ cur'[Cmd("ledger")] = IF log[i].j = Cmd("ledger") THEN i + 1 ELSE cur[Cmd("ledger")]
        /\ cur'[<<a, "all">>] = t + 1
        /\ \A b \in App : b # a => cur'[<<b, "all">>] = cur[<<b, "all">>]
        /\ \A c \in Node \X Node : cur[c] # 0 => cur'[c] # 0
        /\ a \in Booked => \A c \in BookChannels(a, channels) : cur'[c] # 0
    BY LearnCursors
  <1>2. /\ channels' = channels /\ known' = known \cup {a} /\ st' = st
        /\ added' = IF a \in Booked THEN added \cup {a} ELSE added
    BY DEF Learn, AddBook, bvars
  <1>3. t + 1 # 0 /\ i \in Nat BY TurnIs
  <1>4. channels \subseteq Node \X Node /\ added \subseteq Booked BY DEF LInv, IType
  <1>5. \A c \in Node \X Node : ~Links(i, c) BY DEF Links
  <1>6. \A b \in App : cur'[<<b, "all">>] # 0 <=> b \in known'
    BY <1>1, <1>2, <1>3 DEF LInv, ICur
  <1>7. known' \cap Booked \subseteq added' BY <1>2 DEF LInv, ICur
  <1>8. ASSUME NEW c \in channels', c[1] \in added' PROVE cur'[c] # 0
    <2>1. c \in channels /\ c \in Node \X Node BY <1>2, <1>4, <1>8
    <2>2. CASE c[1] \in added BY <1>1, <2>1, <2>2 DEF LInv, ICur
    <2>3. CASE c[1] = a /\ a \in Booked
      <3>1. c \in BookChannels(a, channels) BY <2>1, <2>3 DEF BookChannels
      <3> QED BY <1>1, <2>3, <3>1
    <2> QED BY <1>2, <1>8, <2>2, <2>3
  <1>9. st' \in {"joined", "started"} => cur'[Cmd("ledger")] # 0
    BY <1>1, <1>2, <1>3 DEF LInv, ICur
  <1>10. \A c \in channels : c \in channels' BY <1>2
  <1> QED BY <1>1, <1>5, <1>6, <1>7, <1>8, <1>9, <1>10, ReadCur

LEMMA LearnBooks ==
    ASSUME LInv, NEW i, Turn(i), NEW a \in App, NEW t, Learn(a, At(i), i, t)
    PROVE  /\ DOMAIN books' \subseteq Booked /\ DOMAIN books \subseteq DOMAIN books'
           /\ \A x \in DOMAIN books : books'[x] = books[x]
           /\ \A x \in DOMAIN books' : x \in DOMAIN books \/ (x = a /\ books'[x] = {})
           /\ \A x \in Booked \ {a} : since'[x] = since[x] /\ subs'[x] = subs[x]
           /\ a \in Booked => /\ a \in DOMAIN books' /\ subs'[a] > 0
                              /\ since'[a] = IF subs[a] = 0 THEN i ELSE since[a]
           /\ added' \subseteq Booked
  BY BooksTyped DEF LInv, ITyped, Turn

LEMMA LearnType ==
    ASSUME LInv, NEW i, Turn(i), live' = live, links' = links, log' = log,
           NEW a \in App, a \notin known, NEW t \in 0 .. i, Learn(a, At(i), i, t)
    PROVE  /\ IType' /\ IClient' /\ asks' \in Seq(App)
           /\ \A k \in 1 .. Len(asks) : k \in 1 .. Len(asks') /\ asks'[k] = asks[k]
           /\ \E k \in 1 .. Len(asks') : asks'[k] = a
           /\ \A b \in known \cap Broker : states'[b] = states[b]
           /\ a \in Broker => states'[a] = "Connected"
  BY LearnTyped DEF LInv, ITyped, Turn

LEMMA StartedRegister ==
    ASSUME LInv, NEW i, Turn(i), st = "started", live' = live, links' = links, log' = log,
           log[i].typ = "Register", log[i].arg # "ledger", OnRegister(log[i], At(i), i)
    PROVE  LInv'
  <1>1. /\ i \in 1 .. Now /\ Now \in Nat /\ i \in Nat /\ Shape(log[i])
        /\ Cmd("ledger") \in Journal /\ i \in 0 .. i
    <2>1. i \in 1 .. Now /\ Now \in Nat /\ i \in Nat /\ Shape(log[i]) BY TurnIs
    <2>2. i \in 0 .. i BY <2>1
    <2> QED BY <2>1, <2>2, JournalNames, Names
  <1> PICK a : a = log[i].arg OBVIOUS
  <1>2. log[i].j = Public /\ a \in App /\ a \in Node BY <1>1 DEF Shape, Node
  <1>3. \A x : Registers(i, x) <=> x = a BY DEF Registers
  <1>4. \A x : ~Grants(i, x) /\ ~Locates(i, x) /\ ~Deregisters(i, x) /\ ~Reports(i, x)
    BY DEF Grants, Locates, Deregisters, Reports
  <1>5. a \notin known
    <2>1. ~Alive(i - 1, a) BY <1>1, <1>2, <1>3, OnComing
    <2> QED BY <1>2, <2>1, KnownAt
  <1>6. Learn(a, At(i), i, i)
    <2>1. "master" \in writers BY DEF LInv, IPlace
    <2>2. RegisterLocation(a, At(i), i, i) BY DEF OnRegister
    <2> QED BY <1>5, <2>1, <2>2 DEF RegisterLocation
  <1>7. cur[Cmd("ledger")] <= i BY <1>1 DEF LInv, IPlace, Turn
  <1>8. ICur' BY <1>1, <1>2, <1>5, <1>6, <1>7, LearnCur
  <1>9. /\ IType' /\ IClient' /\ asks' \in Seq(App)
        /\ \A k \in 1 .. Len(asks) : k \in 1 .. Len(asks') /\ asks'[k] = asks[k]
        /\ \E k \in 1 .. Len(asks') : asks'[k] = a
        /\ \A b \in known \cap Broker : states'[b] = states[b]
        /\ a \in Broker => states'[a] = "Connected"
    BY <1>1, <1>2, <1>5, <1>6, LearnType
  <1>10. /\ cur' \in [Journal -> 0 .. Now + 1] /\ cur'[log[i].j] = i + 1
         /\ \A j \in Journal : j = log[i].j \/ cur'[j] \in {i + 1, i + 1, cur[j]}
         /\ cur'[Public] = IF log[i].j = Public THEN i + 1 ELSE cur[Public]
         /\ cur'[Cmd("ledger")] = IF log[i].j = Cmd("ledger") THEN i + 1 ELSE cur[Cmd("ledger")]
         /\ cur'[<<a, "all">>] = i + 1
         /\ \A b \in App : b # a => cur'[<<b, "all">>] = cur[<<b, "all">>]
    BY <1>1, <1>2, <1>5, <1>6, LearnCursors
  <1>11. Moved(i)
    <2>1. Now' = Now BY DEF Now
    <2> QED BY <1>10, <2>1 DEF Moved
  <1>12. known' = known \cup {a} /\ UNCHANGED <<st, begun, channels, writers, informed>>
    BY <1>6 DEF Learn
  <1>13. ILog' /\ INamed' /\ IBack' /\ PairsTold' /\ LinksOK' BY <1>9, LogKeeps
  <1>14. IPlace'
    <2>1. \A x \in Node : x \in known' <=> (x \in known /\ ~Deregisters(i, x)) \/ Registers(i, x)
      BY <1>3, <1>4, <1>12
    <2>2. "master" \in writers' BY <1>12 DEF LInv, IPlace
    <2> QED BY <1>10, <1>11, <1>12, <2>1, <2>2, ReadPlace
  <1>15. IReach'
    <2>1. \A x \in App :
             /\ Grants(i, x) => x \in writers'
             /\ Registers(i, x) \/ (Locates(i, x) /\ x \notin known) =>
                   x \in known' /\ (x \in writers' \/ \E k \in 1 .. Len(asks') : asks'[k] = x)
             /\ x \in known => x \in known' \/ Deregisters(i, x)
             /\ x \in known' => x \in known \/ Registers(i, x) \/ Locates(i, x)
      BY <1>3, <1>4, <1>9, <1>12
    <2>2. writers \subseteq writers' BY <1>12
    <2> QED BY <1>9, <1>10, <1>12, <2>1, <2>2, ReadReach
  <1>16. IStates'
    <2>1. ASSUME NEW b \in known' \cap Broker
          PROVE
             \/ /\ b \in known /\ <<b, "all">> # log[i].j /\ cur'[<<b, "all">>] = cur[<<b, "all">>]
                /\ ~Registers(i, b) /\ states'[b] = states[b]
             \/ Registers(i, b) /\ cur'[<<b, "all">>] <= i + 1 /\ states'[b] = "Connected"
      <3>1. b \in App /\ b \in Node /\ <<b, "all">> # Public BY <2>1, Names, JournalNames
      <3>2. CASE b = a BY <1>1, <1>3, <1>9, <1>10, <2>1, <3>2
      <3>3. CASE b # a BY <1>2, <1>3, <1>9, <1>10, <1>12, <2>1, <3>1, <3>3
      <3> QED BY <3>2, <3>3
    <2> QED BY <1>10, <1>11, <1>12, <2>1, ReadStates
  <1>17. IBooks'
    <2>1. /\ DOMAIN books' \subseteq Booked /\ DOMAIN books \subseteq DOMAIN books'
          /\ \A x \in DOMAIN books : books'[x] = books[x]
          /\ \A x \in DOMAIN books' : x \in DOMAIN books \/ (x = a /\ books'[x] = {})
          /\ \A x \in Booked \ {a} : since'[x] = since[x] /\ subs'[x] = subs[x]
          /\ a \in Booked => /\ a \in DOMAIN books' /\ subs'[a] > 0
                             /\ since'[a] = IF subs[a] = 0 THEN i ELSE since[a]
      BY <1>2, <1>6, LearnBooks
    <2>2. /\ DOMAIN books \subseteq Booked
          /\ \A x \in DOMAIN books : subs[x] = 0 => books[x] = {}
          /\ \A x \in Booked : subs[x] > 0 => x \in DOMAIN books
          /\ \A x \in Booked : subs[x] \in 0 .. 2
      BY DEF LInv, IType, IBooks
    <2>3. \A x \in Booked : subs[x] = 0 \/ subs[x] > 0 BY <2>2
    <2>4. ASSUME NEW x \in Booked, subs'[x] > 0
          PROVE  /\ x \in DOMAIN books'
                 /\ (subs[x] > 0 /\ since'[x] = since[x]) \/ since'[x] = i
      <3>1. CASE x = a BY <2>1, <2>3, <3>1
      <3>2. CASE x # a BY <2>1, <2>2, <2>4, <3>2
      <3> QED BY <3>1, <3>2
    <2>5. ASSUME NEW x \in DOMAIN books'
          PROVE  x \in Booked /\
             \/ subs'[x] = 0 /\ books'[x] = {}
             \/ subs'[x] > 0 /\ since'[x] = i /\ books'[x] = {}
             \/ /\ subs'[x] > 0 /\ subs[x] > 0 /\ since'[x] = since[x] /\ x \in DOMAIN books
                /\ ~Reports(i, x) /\ books'[x] = books[x]
      <3>1. x \in Booked BY <2>1
      <3>2. CASE x = a
        <4>1. CASE subs[x] > 0 BY <1>4, <2>1, <2>2, <3>1, <3>2, <4>1
        <4>2. CASE subs[x] = 0
          <5>1. books'[x] = {} BY <2>1, <2>2, <4>2
          <5> QED BY <2>1, <3>1, <3>2, <4>2, <5>1
        <4> QED BY <2>3, <3>1, <4>1, <4>2
      <3>3. CASE x # a
        <4>1. x \in DOMAIN books /\ books'[x] = books[x] /\ subs'[x] = subs[x] /\ since'[x] = since[x]
          BY <2>1, <3>1, <3>3
        <4> QED BY <1>4, <2>2, <2>3, <3>1, <4>1
      <3> QED BY <3>2, <3>3
    <2> QED BY <1>11, <1>12, <2>4, <2>5, ReadBooks
  <1>18. Survives' /\ IWait' /\ IJoined' BY <1>12 DEF Survives, IWait, IJoined
  <1>19. IDown' BY <1>12 DEF LInv, IDown
  <1> QED BY <1>8, <1>9, <1>13, <1>14, <1>15, <1>16, <1>17, <1>18, <1>19 DEF LInv

-----------------------------------------------------------------------------
(* An application is gone. *)
LEMMA DeregisterIs ==
    ASSUME LInv, NEW i, Turn(i), live' = live, links' = links, log' = log,
           log[i].typ = "Deregister", OnDeregister(log[i], At(i), i), cur[Cmd("ledger")] <= i,
           NEW a, a = log[i].arg
    PROVE  /\ a \in App /\ log[i].j = Public /\ Moved(i)
           /\ \A j \in Journal : j # Public => cur'[j] = IF j[1] = a THEN 0 ELSE cur[j]
           /\ cur'[Public] = i + 1 /\ cur'[Cmd("ledger")] = cur[Cmd("ledger")]
           /\ ICur' /\ IType' /\ IClient'
           /\ known' = known \ {a}
           /\ \A b \in known' \cap Broker : states'[b] = states[b]
  <1>1. /\ i \in 1 .. Now /\ Now \in Nat /\ i \in Nat /\ Shape(log[i]) /\ i \in 0 .. i
        /\ \A j \in Journal : cur[j] \in 0 .. Now + 1
        /\ Public \in Journal /\ Cmd("ledger") \in Journal /\ Cmd("ledger") # Public
    <2>1. /\ i \in 1 .. Now /\ Now \in Nat /\ i \in Nat /\ Shape(log[i])
          /\ \A j \in Journal : cur[j] \in 0 .. Now + 1
      BY TurnIs
    <2>2. i \in 0 .. i BY <2>1
    <2> QED BY <2>1, <2>2, JournalNames, Names
  <1>2. log[i].j = Public /\ a \in App /\ a \in Node /\ a # "master"
    BY <1>1, Names DEF Shape
  <1>3. /\ cur' = Disjoin(At(i), a) /\ known' = known \ {a}
        /\ channels' = {x \in channels : x[1] # a}
        /\ UNCHANGED <<asks, st, begun, writers, bvars, informed>>
    <2>1. ASSUME NEW k \in Heads, k < i PROVE FALSE
      <3>1. k \in Unread /\ i \in Nat BY <1>1 DEF Heads
      <3>2. k \in Nat /\ i <= k BY <3>1 DEF Turn, Unread
      <3> QED BY <2>1, <3>1, <3>2
    <2> QED BY <2>1 DEF OnDeregister
  <1>4. /\ At(i) \in [Journal -> 0 .. Now + 1] /\ At(i)[Public] = i + 1
        /\ \A j \in Journal : j # Public => At(i)[j] = cur[j]
    <2>1. At(i) = Join(At(i), {}, i) BY AtIs
    <2>2. /\ Join(At(i), {}, i) \in [Journal -> 0 .. Now + 1]
          /\ Join(At(i), {}, i)[log[i].j] = i + 1
          /\ \A j \in Journal : j # log[i].j =>
                Join(At(i), {}, i)[j] = IF j \in {} /\ cur[j] = 0 THEN i + 1 ELSE cur[j]
      BY <1>1, JoinIs
    <2> QED BY <1>2, <2>1, <2>2
  <1>5. /\ cur' \in [Journal -> 0 .. Now + 1]
        /\ \A j \in Journal : cur'[j] = IF j[1] = a THEN 0 ELSE At(i)[j]
    <2>1. \A j \in Journal : At(i)[j] \in 0 .. Now + 1 /\ 0 \in 0 .. Now + 1 BY <1>1, <1>4
    <2> QED BY <1>3, <2>1 DEF Disjoin
  <1>6. Public[1] # a /\ Cmd("ledger")[1] # a BY <1>2 DEF Public, Cmd
  <1>7. /\ \A j \in Journal : j # Public => cur'[j] = IF j[1] = a THEN 0 ELSE cur[j]
        /\ cur'[Public] = i + 1 /\ cur'[Cmd("ledger")] = cur[Cmd("ledger")]
    BY <1>1, <1>4, <1>5, <1>6
  <1>8. Moved(i)
    <2>1. Now' = Now BY DEF Now
    <2> QED BY <1>2, <1>5, <1>7, <2>1 DEF Moved
  <1>9. \A b \in Node : <<b, "all">> \in Journal /\ <<b, "all">> # Public /\ <<b, "all">>[1] = b
    BY JournalNames
  <1>10. \A c \in Node \X Node : c \in Journal /\ c # Public
    <2>1. "all" \notin Node BY Names
    <2> QED BY <2>1 DEF Journal, Public
  <1>11. ICur'
    <2>1. cur'[Public] = IF log[i].j = Public THEN i + 1 ELSE cur[Public] BY <1>2, <1>7
    <2>2. cur'[Cmd("ledger")] = IF log[i].j = Cmd("ledger") THEN i + 1 ELSE cur[Cmd("ledger")]
      BY <1>1, <1>2, <1>7
    <2>3. \A c \in Node \X Node : ~Links(i, c) BY DEF Links
    <2>4. \A c \in channels : Deregisters(i, c[1]) \/ c \in channels' BY <1>3 DEF Deregisters
    <2>5. \A b \in App : cur'[<<b, "all">>] # 0 <=> b \in known'
      <3>1. App \subseteq Node BY Names
      <3> QED BY <1>3, <1>7, <1>9, <3>1 DEF LInv, ICur
    <2>6. known' \cap Booked \subseteq added' BY <1>3 DEF LInv, ICur, bvars
    <2>7. \A c \in channels' : c[1] \in added' => cur'[c] # 0
      <3>1. channels \subseteq Node \X Node BY DEF LInv, IType
      <3> QED BY <1>3, <1>7, <1>10, <3>1 DEF LInv, ICur, bvars
    <2>8. st' \in {"joined", "started"} => cur'[Cmd("ledger")] # 0 BY <1>3, <1>7 DEF LInv, ICur
    <2> QED BY <2>1, <2>2, <2>3, <2>4, <2>5, <2>6, <2>7, <2>8, ReadCur
  <1>12. /\ IType' /\ IClient' /\ \A b \in known' \cap Broker : states'[b] = states[b]
    BY DeregisterTyped DEF LInv, ITyped, Turn
  <1> QED BY <1>2, <1>3, <1>7, <1>8, <1>11, <1>12

LEMMA StartedDeregister ==
    ASSUME LInv, NEW i, Turn(i), st = "started", live' = live, links' = links, log' = log,
           log[i].typ = "Deregister", OnDeregister(log[i], At(i), i)
    PROVE  LInv'
  <1> PICK a : a = log[i].arg OBVIOUS
  <1>1. Cmd("ledger") \in Journal /\ i \in Nat BY JournalNames, Names, TurnIs
  <1>2. cur[Cmd("ledger")] <= i BY <1>1 DEF LInv, IPlace, Turn
  <1>3. /\ a \in App /\ log[i].j = Public /\ Moved(i)
        /\ \A j \in Journal : j # Public => cur'[j] = IF j[1] = a THEN 0 ELSE cur[j]
        /\ cur'[Public] = i + 1 /\ cur'[Cmd("ledger")] = cur[Cmd("ledger")]
        /\ ICur' /\ IType' /\ IClient'
        /\ known' = known \ {a}
        /\ \A b \in known' \cap Broker : states'[b] = states[b]
    BY <1>2, DeregisterIs
  <1>4. UNCHANGED <<asks, st, begun, writers, bvars, informed>> BY DEF OnDeregister
  <1>5. /\ \A x : Deregisters(i, x) <=> x = a
        /\ \A x : ~Registers(i, x) /\ ~Grants(i, x) /\ ~Locates(i, x)
    BY DEF Registers, Deregisters, Grants, Locates
  <1>6. asks' \in Seq(App) BY <1>4 DEF LInv, ILog
  <1>7. ILog' /\ INamed' /\ IBack' /\ PairsTold' /\ LinksOK' BY <1>6, LogKeeps
  <1>8. IPlace'
    <2>1. \A x \in Node : x \in known' <=> (x \in known /\ ~Deregisters(i, x)) \/ Registers(i, x)
      BY <1>3, <1>5
    <2>2. "master" \in writers' BY <1>4 DEF LInv, IPlace
    <2> QED BY <1>3, <1>4, <2>1, <2>2, ReadPlace
  <1>9. IReach'
    <2>1. \A x \in App :
             /\ Grants(i, x) => x \in writers'
             /\ Registers(i, x) \/ (Locates(i, x) /\ x \notin known) =>
                   x \in known' /\ (x \in writers' \/ \E k \in 1 .. Len(asks') : asks'[k] = x)
             /\ x \in known => x \in known' \/ Deregisters(i, x)
             /\ x \in known' => x \in known \/ Registers(i, x) \/ Locates(i, x)
      BY <1>3, <1>5
    <2>2. writers \subseteq writers' /\ \A k \in 1 .. Len(asks) : k \in 1 .. Len(asks') /\ asks'[k] = asks[k]
      BY <1>4
    <2>3. Cmd("ledger") # Public BY JournalNames, Names
    <2> QED BY <1>3, <1>4, <1>6, <2>1, <2>2, <2>3, ReadReach
  <1>10. IStates'
    <2>1. ASSUME NEW b \in known' \cap Broker
          PROVE  /\ b \in known /\ <<b, "all">> # log[i].j /\ cur'[<<b, "all">>] = cur[<<b, "all">>]
                 /\ ~Registers(i, b) /\ states'[b] = states[b]
      <3>1. b \in Node /\ <<b, "all">> # Public /\ <<b, "all">> \in Journal /\ <<b, "all">>[1] = b
        BY Names, JournalNames
      <3> QED BY <1>3, <1>5, <2>1, <3>1
    <2> QED BY <1>3, <1>4, <2>1, ReadStates
  <1>11. IBooks' BY <1>3, <1>4, BooksStay DEF bvars
  <1>12. Survives' /\ IWait' /\ IJoined' BY <1>4 DEF Survives, IWait, IJoined
  <1>13. IDown' BY <1>4 DEF LInv, IDown
  <1> QED BY <1>3, <1>7, <1>8, <1>9, <1>10, <1>11, <1>12, <1>13 DEF LInv

LEMMA StartedKeeps ==
    ASSUME LInv, NEW i, Turn(i), Handle(i, At(i)), st = "started",
           live' = live, links' = links, log' = log
    PROVE  LInv'
  <1> QED BY StartedRegister, StartedLedger, StartedLocation, StartedDeregister,
             StartedChannel, StartedWriteTo, StartedReadFrom, StartedBrokerState, StartedOrder,
             StartedQryAsset, StartedRequestStart DEF Handle

-----------------------------------------------------------------------------
(* A ledger that is not registered yet.                                    *)
LEMMA FailedKeeps ==
    ASSUME LInv, st \in {"waiting", "joined"}, st' = "failed",
           live' = live, links' = links, log' = log, asks' = asks,
           ICur', IType', books' = books, subs' = subs, informed' = informed, seen' = seen
    PROVE  LInv'
  <1>1. asks' \in Seq(App) BY DEF LInv, ILog
  <1>2. ILog' /\ INamed' /\ IBack' /\ PairsTold' /\ LinksOK' BY <1>1, LogKeeps
  <1>3. ~informed BY DEF LInv, IClient
  <1>4. IClient' BY <1>3 DEF LInv, IClient, Informed
  <1>5. IDown' BY DEF LInv, IDown
  <1>6. IWait' /\ IJoined' /\ IPlace' /\ IStates' /\ IReach' /\ Survives'
    BY DEF IWait, IJoined, IPlace, IStates, IReach, Survives
  <1>7. IBooks' BY DEF LInv, IBooks
  <1> QED BY <1>2, <1>4, <1>5, <1>6, <1>7 DEF LInv

LEMMA WaitingFrame ==
    ASSUME LInv, NEW i, Turn(i), st = "waiting"
    PROVE  /\ log[i].j = Public /\ log[i].typ \in {"Register", "Deregister", "Channel"}
           /\ cur[Cmd("ledger")] = 0 /\ cur[Cmd("ledger")] <= i
           /\ cur[Public] # 0 /\ cur[Public] <= i /\ \A j \in Journal \ {Public} : cur[j] = 0
  <1>1. /\ log[i].j \in Journal /\ cur[log[i].j] \in 1 .. i /\ Shape(log[i]) /\ i \in Nat
        /\ log[i] \in Entry
    BY TurnIs
  <1>2. \A j \in Journal \ {Public} : cur[j] = 0 BY DEF LInv, IWait
  <1>3. log[i].j = Public BY <1>1, <1>2
  <1>4. Cmd("ledger") \in Journal /\ Cmd("ledger") # Public BY JournalNames, Names
  <1>5. /\ \A a \in Node : Cmd(a) # Public /\ <<a, "all">> # Public
        /\ \A a, b \in Node : <<a, b>> # Public
        /\ TD \subseteq Node /\ Strategy \subseteq Node /\ Broker \subseteq Node /\ "ledger" \in Node
    BY JournalNames, Names
  <1>6. log[i].typ \in FrameType BY <1>1 DEF Entry
  <1>7. log[i].typ \in {"Register", "Deregister", "Channel"}
    BY <1>1, <1>3, <1>5, <1>6 DEF Shape, FrameType
  <1> QED BY <1>1, <1>2, <1>3, <1>4, <1>7

LEMMA WaitingStays ==
    ASSUME LInv, NEW i, Turn(i), st = "waiting", st' = st,
           live' = live, links' = links, log' = log, log[i].typ # "Register",
           cur'[Public] = i + 1, \A j \in Journal \ {Public} : cur'[j] = 0,
           UNCHANGED <<asks, begun, known, writers, books, subs, added, informed>>,
           ICur', IType', IClient'
    PROVE  LInv'
  <1>1. /\ i \in 1 .. Now /\ Now \in Nat /\ i \in Nat /\ Public \in Journal /\ ILog
        /\ Cmd("ledger") \in Journal /\ Cmd("ledger") # Public
    BY TurnIs, JournalNames, Names DEF LInv
  <1>2. /\ log[i].j = Public /\ cur[Public] # 0 /\ cur[Public] <= i /\ cur[Cmd("ledger")] = 0
    BY WaitingFrame
  <1>3. /\ asks' \in Seq(App) /\ known = {} /\ cur[Public] \in 0 .. Now + 1
    BY TurnIs, <1>1 DEF LInv, ILog, IWait
  <1>4. ILog' /\ INamed' /\ IBack' /\ PairsTold' /\ LinksOK' BY <1>3, LogKeeps
  <1>5. IReach'
    <2> SUFFICES ASSUME "ledger" \in live PROVE IReach'
      BY DEF IReach
    <2>1. \A a : ~Grants(i, a) /\ ~Registers(i, a) /\ ~Locates(i, a)
      <3>1. log[i].typ \in {"Register", "Deregister", "Channel"} BY WaitingFrame
      <3> QED BY <3>1 DEF Grants, Registers, Locates
    <2>2. \A a \in App :
             /\ Grants(i, a) => a \in writers'
             /\ Registers(i, a) \/ (Locates(i, a) /\ a \notin known) =>
                   a \in known' /\ (a \in writers' \/ \E k \in 1 .. Len(asks') : asks'[k] = a)
             /\ a \in known => a \in known' \/ Deregisters(i, a)
             /\ a \in known' => a \in known \/ Registers(i, a) \/ Locates(i, a)
      BY <1>3, <2>1
    <2>3. writers \subseteq writers' /\ \A k \in 1 .. Len(asks) : k \in 1 .. Len(asks') /\ asks'[k] = asks[k]
      OBVIOUS
    <2> QED BY <1>1, <1>2, <1>3, <2>2, <2>3, ReadReach
  <1>6. IWait'
    <2>1. ASSUME NEW k \in 1 .. i PROVE log[k].typ # "Register"
      <3>1. k \in 1 .. Now BY <1>1
      <3>2. CASE k = i BY <3>2
      <3>3. CASE k < i /\ log[k].j = Public
        <4>1. k < cur[Public] BY <1>1, <1>2, <3>1, <3>3, ReadBefore
        <4>2. k \in 1 .. cur[Public] - 1 BY <1>3, <3>1, <4>1
        <4> QED BY <4>2 DEF LInv, IWait
      <3>4. CASE log[k].j # Public BY <1>1, <3>1, <3>4 DEF ILog, Shape
      <3> QED BY <1>1, <3>2, <3>3, <3>4
    <2>2. ASSUME "ledger" \in live PROVE \E r, s \in 1 .. Now : i + 1 <= r /\ Welcomed(r, s)
      <3>1. PICK r, s \in 1 .. Now : cur[Public] <= r /\ Welcomed(r, s) BY <2>2 DEF LInv, IWait
      <3>2. Registers(r, "ledger") BY <3>1 DEF Welcomed
      <3>3. log[r].j = Public BY <1>1, <3>2, ComesPublic DEF Comes
      <3>4. r \in Unread BY <1>2, <3>1, <3>3 DEF Unread
      <3>5. i <= r /\ i # r BY <3>2, <3>4 DEF Turn, Registers
      <3>6. i + 1 <= r BY <1>1, <3>5
      <3> QED BY <3>1, <3>6
    <2>3. "ledger" \notin live => \A k \in 1 .. Now : log[k].j # Cmd("ledger") /\ ~Comes(k, "ledger")
      BY DEF LInv, IWait
    <2>4. /\ known = {} /\ writers = {} /\ asks = <<>> /\ begun = 0 /\ DOMAIN books = {}
          /\ added = {} /\ \A x \in Booked : subs[x] = 0
      BY DEF LInv, IWait
    <2>5. Now' = Now BY DEF Now
    <2>6. \A k \in 1 .. cur'[Public] - 1 : log[k].typ # "Register"
      <3>1. \A k \in 1 .. cur'[Public] - 1 : k \in 1 .. i BY <1>1
      <3> QED BY <2>1, <3>1
    <2>7. (\A k \in 1 .. cur[Public] - 1 : log[k].typ # "Register")' BY <2>6 DEF Public
    <2>8. (\A j \in Journal \ {Public} : cur[j] = 0)' BY DEF Journal, Public, Cmd
    <2>9. ("ledger" \in live => \E r, s \in 1 .. Now : cur[Public] <= r /\ Welcomed(r, s))'
      BY <2>2, <2>5, LogStays DEF Public
    <2>10. ("ledger" \notin live => \A k \in 1 .. Now : log[k].j # Cmd("ledger") /\ ~Comes(k, "ledger"))'
      BY <2>3, <2>5, LogStays DEF Comes, Cmd
    <2> QED BY <2>4, <2>7, <2>8, <2>9, <2>10 DEF IWait
  <1>7. IDown' BY DEF LInv, IDown
  <1>8. IJoined' /\ IPlace' /\ IStates' /\ Survives'
    BY DEF IJoined, IPlace, IStates, Survives
  <1>9. IBooks' BY DEF LInv, IBooks
  <1> QED BY <1>4, <1>5, <1>6, <1>7, <1>8, <1>9 DEF LInv

LEMMA WaitingDeregister ==
    ASSUME LInv, NEW i, Turn(i), st = "waiting", live' = live, links' = links, log' = log,
           log[i].typ = "Deregister", OnDeregister(log[i], At(i), i)
    PROVE  LInv'
  <1> PICK a : a = log[i].arg OBVIOUS
  <1>1. cur[Cmd("ledger")] <= i /\ \A j \in Journal \ {Public} : cur[j] = 0 BY WaitingFrame
  <1>2. /\ \A j \in Journal : j # Public => cur'[j] = IF j[1] = a THEN 0 ELSE cur[j]
        /\ cur'[Public] = i + 1
        /\ ICur' /\ IType' /\ IClient' /\ known' = known \ {a}
    BY <1>1, DeregisterIs
  <1>3. \A j \in Journal \ {Public} : cur'[j] = 0 BY <1>1, <1>2
  <1>4. known' = known BY <1>2 DEF LInv, IWait
  <1>5. UNCHANGED <<asks, st, begun, writers, bvars, informed>> BY DEF OnDeregister
  <1> QED BY <1>2, <1>3, <1>4, <1>5, WaitingStays DEF bvars

LEMMA WaitingChannel ==
    ASSUME LInv, NEW i, Turn(i), st = "waiting", live' = live, links' = links, log' = log,
           log[i].typ = "Channel", OnChannel(log[i], At(i), i)
    PROVE  LInv'
  <1>1. /\ cur[Cmd("ledger")] <= i /\ \A j \in Journal \ {Public} : cur[j] = 0
        /\ log[i].j = Public
    BY WaitingFrame
  <1>2. ICur' /\ channels' \subseteq Node \X Node BY <1>1, ChannelCur
  <1>3. PICK X : cur' = Join(At(i), X, i) /\ (added = {} => X = {}) BY <1>1, ChannelCur
  <1>4. added = {} BY DEF LInv, IWait
  <1>5. cur' = Join(At(i), {}, i) BY <1>3, <1>4
  <1>6. i \in 0 .. i
    <2>1. i \in Nat BY TurnIs
    <2> QED BY <2>1
  <1>7. /\ cur' \in [Journal -> 0 .. Now + 1] /\ cur'[Public] = i + 1
        /\ \A j \in Journal : j # log[i].j => cur'[j] = IF j \in {} /\ cur[j] = 0 THEN i + 1 ELSE cur[j]
    BY <1>1, <1>5, <1>6, JoinIs
  <1>8. \A j \in Journal \ {Public} : cur'[j] = 0 BY <1>1, <1>7
  <1>9. UNCHANGED <<asks, st, begun, known, writers, states, bvars, cvars>> BY DEF OnChannel
  <1>10. IType'
    <2>1. Now' = Now BY DEF Now
    <2> QED BY <1>2, <1>7, <1>9, <2>1 DEF LInv, IType, bvars, cvars
  <1>11. IClient' BY <1>9 DEF LInv, IClient, Informed, cvars
  <1> QED BY <1>2, <1>7, <1>8, <1>9, <1>10, <1>11, WaitingStays DEF bvars, cvars

(* Somebody else is registered: there is no writer to ask the master with. *)
LEMMA WaitingRegister ==
    ASSUME LInv, NEW i, Turn(i), st = "waiting", live' = live, links' = links, log' = log,
           log[i].typ = "Register", log[i].arg # "ledger", OnRegister(log[i], At(i), i)
    PROVE  LInv'
  <1>1. known = {} /\ writers = {} BY DEF LInv, IWait
  <1>2. /\ st' = "failed" /\ cur' = At(i)
        /\ UNCHANGED <<asks, begun, known, channels, writers, states, bvars, cvars>>
    BY <1>1 DEF OnRegister, RegisterLocation, Throws
  <1>3. cur[Cmd("ledger")] <= i BY WaitingFrame
  <1>4. cur' = Join(At(i), {}, i) BY <1>2, AtIs
  <1>5. ICur' BY <1>2, <1>3, <1>4, StaysCur DEF bvars
  <1>6. i \in 0 .. i
    <2>1. i \in Nat BY TurnIs
    <2> QED BY <2>1
  <1>7. cur' \in [Journal -> 0 .. Now + 1] BY <1>4, <1>6, JoinIs
  <1>8. IType'
    <2>1. Now' = Now BY DEF Now
    <2> QED BY <1>2, <1>7, <2>1 DEF LInv, IType, bvars, cvars
  <1> QED BY <1>2, <1>5, <1>8, FailedKeeps DEF bvars, cvars

(* The ledger is registered. *)
LEMMA WaitingLedger ==
    ASSUME LInv, NEW i, Turn(i), st = "waiting", live' = live, links' = links, log' = log,
           log[i].typ = "Register", log[i].arg = "ledger", OnRegister(log[i], At(i), i)
    PROVE  LInv'
  <1>1. /\ i \in 1 .. Now /\ Now \in Nat /\ i \in Nat /\ i \in 0 .. i /\ Public \in Journal /\ ILog
        /\ Cmd("ledger") \in Journal /\ Cmd("ledger") # Public /\ "ledger" \in Node
        /\ "ledger" \notin App /\ App \subseteq Node /\ Booked \subseteq App /\ Broker \subseteq App
        /\ cur[Public] \in 0 .. Now + 1 /\ asks \in Seq(App)
    <2>1. i \in 1 .. Now /\ Now \in Nat /\ i \in Nat /\ ILog BY TurnIs DEF LInv
    <2>2. i \in 0 .. i BY <2>1
    <2>3. Public \in Journal /\ cur[Public] \in 0 .. Now + 1 BY TurnIs, JournalNames
    <2> QED BY <2>1, <2>2, <2>3, JournalNames, Names DEF ILog
  <1>2. /\ log[i].j = Public /\ cur[Public] # 0 /\ cur[Public] <= i /\ cur[Cmd("ledger")] <= i
        /\ \A j \in Journal \ {Public} : cur[j] = 0
    BY WaitingFrame
  <1>3. /\ st' = "joined" /\ known' = known \cup {"ledger"}
        /\ cur' = Join(At(i), {Cmd("ledger")}, i)
        /\ UNCHANGED <<asks, begun, channels, writers, states, bvars, cvars>>
    BY DEF OnRegister
  <1>4. /\ known = {} /\ writers = {} /\ DOMAIN books = {} /\ added = {} /\ \A x \in Booked : subs[x] = 0
        /\ \A k \in 1 .. cur[Public] - 1 : log[k].typ # "Register"
    BY DEF LInv, IWait
  <1>5. /\ cur' \in [Journal -> 0 .. Now + 1] /\ cur'[Public] = i + 1
        /\ cur'[Cmd("ledger")] = i + 1
        /\ \A j \in Journal \ {Public, Cmd("ledger")} : cur'[j] = 0
    <2>1. /\ cur' \in [Journal -> 0 .. Now + 1] /\ cur'[log[i].j] = i + 1
          /\ \A j \in Journal : j # log[i].j =>
                cur'[j] = IF j \in {Cmd("ledger")} /\ cur[j] = 0 THEN i + 1 ELSE cur[j]
      <3> PICK X : X = {Cmd("ledger")} OBVIOUS
      <3>1. i \in 0 .. i BY <1>1
      <3>2. /\ Join(At(i), X, i) \in [Journal -> 0 .. Now + 1] /\ Join(At(i), X, i)[log[i].j] = i + 1
            /\ \A j \in Journal : j # log[i].j =>
                  Join(At(i), X, i)[j] = IF j \in X /\ cur[j] = 0 THEN i + 1 ELSE cur[j]
        BY <3>1, JoinIs
      <3>3. cur' = Join(At(i), X, i) BY <1>3
      <3> QED BY <3>2, <3>3
    <2> QED BY <1>1, <1>2, <2>1
  <1>6. Registers(i, "ledger") /\ \A x : Registers(i, x) => x = "ledger"
    BY DEF Registers
  <1>7. "ledger" \in live BY <1>1, <1>6 DEF LInv, IWait, Comes
  <1>8. PICK s \in 1 .. Now : Welcomed(i, s)
    <2>1. PICK r, s \in 1 .. Now : cur[Public] <= r /\ Welcomed(r, s) BY <1>7 DEF LInv, IWait
    <2>2. Registers(r, "ledger") /\ \A k \in 1 .. r - 1 : ~Registers(k, "ledger") BY <2>1 DEF Welcomed
    <2>3. log[r].j = Public BY <1>1, <2>2, ComesPublic DEF Comes
    <2>4. r \in Unread BY <1>2, <2>1, <2>3 DEF Unread
    <2>5. i <= r BY <2>4 DEF Turn
    <2>6. ~ (i \in 1 .. r - 1) BY <1>6, <2>2
    <2>7. i = r BY <1>1, <2>5, <2>6
    <2> QED BY <2>1, <2>7
  <1>9. /\ i < s /\ \A k \in i + 1 .. s : log[k].j = Cmd("ledger")
        /\ \A k \in 1 .. i : log[k].j # Cmd("ledger")
        /\ \E k \in i + 1 .. s - 1 : Grants(k, "master")
        /\ \A x \in Node : Alive(i, x) => \E k \in i + 1 .. s - 1 : Locates(k, x)
    BY <1>8 DEF Welcomed
  <1>10. ICur'
    <2>1. \A c \in Node \X Node : ~Links(i, c) BY DEF Links
    <2>2. \A a \in App : cur'[<<a, "all">>] # 0 <=> a \in known'
      <3>1. \A a \in App : /\ <<a, "all">> \in Journal /\ <<a, "all">> # Public
                           /\ <<a, "all">> # Cmd("ledger") /\ a # "ledger"
        BY <1>1, JournalNames
      <3>2. \A a \in App : cur'[<<a, "all">>] = 0 BY <1>5, <3>1
      <3> QED BY <1>3, <1>4, <3>1, <3>2
    <2>3. known' \cap Booked \subseteq added' BY <1>1, <1>3, <1>4
    <2>4. \A c \in channels' : c[1] \in added' => cur'[c] # 0 BY <1>3, <1>4 DEF bvars
    <2>5. cur'[Cmd("ledger")] # 0 BY <1>1, <1>5
    <2>6. \A c \in channels : c \in channels' BY <1>3
    <2> QED BY <1>2, <1>5, <1>9, <2>1, <2>2, <2>3, <2>4, <2>5, <2>6, ReadCur
  <1>11. IReach'
    <2>1. \A a : ~Grants(i, a) /\ ~Locates(i, a) BY DEF Grants, Locates
    <2>2. \A a \in App :
             /\ Grants(i, a) => a \in writers'
             /\ Registers(i, a) \/ (Locates(i, a) /\ a \notin known) =>
                   a \in known' /\ (a \in writers' \/ \E k \in 1 .. Len(asks') : asks'[k] = a)
             /\ a \in known => a \in known' \/ Deregisters(i, a)
             /\ a \in known' => a \in known \/ Registers(i, a) \/ Locates(i, a)
      BY <1>1, <1>3, <1>4, <1>6, <2>1
    <2>3. writers \subseteq writers' /\ \A k \in 1 .. Len(asks) : k \in 1 .. Len(asks') /\ asks'[k] = asks[k]
      BY <1>3
    <2> QED BY <1>1, <1>2, <1>3, <1>4, <1>5, <1>7, <1>9, <2>2, <2>3, ReadReach
  <1>12. ILog' /\ INamed' /\ IBack' /\ PairsTold' /\ LinksOK' BY <1>1, <1>3, LogKeeps
  <1>13. IType'
    <2>1. Now' = Now BY DEF Now
    <2>2. DOMAIN states = known \cap Broker BY DEF LInv, IType
    <2>3. known' \cap Broker = known \cap Broker BY <1>1, <1>3
    <2> QED BY <1>1, <1>3, <1>5, <2>1, <2>2, <2>3 DEF LInv, IType, bvars, cvars
  <1>14. IClient' BY <1>3 DEF LInv, IClient, Informed, cvars
  <1>15. IDown' BY <1>3, <1>7 DEF IDown
  <1>16. IWait' /\ IPlace' /\ IStates' /\ Survives'
    BY <1>3 DEF IWait, IPlace, IStates, Survives
  <1>17. IBooks' BY <1>3 DEF LInv, IBooks, bvars
  <1>18. IJoined'
    <2> PICK n \in Nat : n = i + 1 /\ n <= s BY <1>1, <1>9
    <2> PICK l : l = cur'[Cmd("ledger")] /\ l = i + 1 BY <1>5
    <2>1. \A j \in Journal : cur'[j] <= s
      <3>1. \A j \in Journal : cur'[j] = n \/ cur'[j] = 0 BY <1>5
      <3>2. 0 <= s /\ n <= s BY <1>8
      <3> QED BY <3>1, <3>2
    <2>2. ASSUME NEW k \in 1 .. s, log[k].typ = "Register" PROVE k = i
      <3>1. k \in 1 .. Now /\ log[k].j = Public
        <4>1. k \in 1 .. Now BY <1>1, <1>8
        <4> QED BY <1>1, <2>2, <4>1 DEF ILog, Shape
      <3>2. ~ (k \in i + 1 .. s) BY <1>1, <1>9, <3>1
      <3>3. k <= i BY <1>1, <1>8, <3>2
      <3>4. CASE k < i
        <4>1. k < cur[Public] BY <1>1, <1>2, <3>1, <3>4, ReadBefore
        <4>2. k \in 1 .. cur[Public] - 1 BY <1>1, <3>1, <4>1
        <4> QED BY <1>4, <2>2, <4>2
      <3> QED BY <1>1, <3>3, <3>4
    <2>3. "ledger" \in known' /\ \A x \in known' : Alive(i, x)
      <3>1. Alive(i, "ledger") BY <1>1, <1>6, OnComing
      <3> QED BY <1>3, <1>4, <3>1
    <2>4. \A x \in Node : Alive(i, x) => x \in known' \/ \E k \in l .. s - 1 : Locates(k, x)
      BY <1>9
    <2>5. \E k \in l .. s - 1 : Grants(k, "master") BY <1>9
    <2>6. \A b \in known' \cap Broker : states'[b] = "Connected" BY <1>1, <1>3, <1>4
    <2>7. \A x \in DOMAIN books' : books'[x] = {} BY <1>3, <1>4 DEF bvars
    <2>8. \A t \in TD, u \in Strategy : cur'[<<t, u>>] = 0
      <3>1. \A t \in TD, u \in Strategy : <<t, u>> \in Journal \ {Public, Cmd("ledger")}
        BY <1>1, Names, JournalNames
      <3> QED BY <1>5, <3>1
    <2>9. \A x \in Booked : ~ (subs'[x] > 0) BY <1>3, <1>4 DEF bvars
    <2>10. i < l BY <1>1
    <2>11. Now' = Now BY DEF Now
    <2>12. (\A x \in Node : Alive(i, x) => x \in known \/ \E k \in cur[Cmd("ledger")] .. s - 1 : Locates(k, x))'
      BY <2>4, LogStays DEF Cmd
    <2>13. ("master" \in writers \/ \E k \in cur[Cmd("ledger")] .. s - 1 : Grants(k, "master"))'
      BY <2>5, LogStays DEF Cmd
    <2>14. ("ledger" \in known /\ \A x \in known : Alive(i, x))' BY <2>3, LogStays
    <2>15. (Welcomed(i, s) /\ cur[Public] = i + 1 /\ i < cur[Cmd("ledger")] /\ \A j \in Journal : cur[j] <= s)'
      BY <1>5, <1>8, <2>1, <2>10, LogStays DEF Journal, Public, Cmd
    <2>16. (\A k \in 1 .. s : log[k].typ = "Register" => k = i)' BY <2>2
    <2>17. /\ (\A b \in known \cap Broker : states[b] = "Connected")'
           /\ (\A x \in DOMAIN books : books[x] = {})'
           /\ (\A t \in TD, u \in Strategy : cur[<<t, u>>] = 0 \/ cur[<<t, u>>] > i)'
           /\ (\A x \in Booked : subs[x] > 0 => since[x] \in i .. s - 1)'
      BY <2>6, <2>7, <2>8, <2>9
    <2> QED BY <1>1, <1>8, <2>11, <2>12, <2>13, <2>14, <2>15, <2>16, <2>17 DEF IJoined, Joined
  <1> QED BY <1>10, <1>11, <1>12, <1>13, <1>14, <1>15, <1>16, <1>17, <1>18 DEF LInv

LEMMA WaitingKeeps ==
    ASSUME LInv, NEW i, Turn(i), Handle(i, At(i)), st = "waiting",
           live' = live, links' = links, log' = log
    PROVE  LInv'
  <1>1. log[i].typ \in {"Register", "Deregister", "Channel"} BY WaitingFrame
  <1> QED BY <1>1, WaitingRegister, WaitingLedger, WaitingDeregister, WaitingChannel DEF Handle

-----------------------------------------------------------------------------
(* A ledger that is registered but not started reads what is older than    *)
(* its registration on the journals of those it knows already, and what    *)
(* the master tells it.                                                    *)
LEMMA JoinedFrame ==
    ASSUME LInv, NEW i, Turn(i), st = "joined", NEW r \in 1 .. Now, NEW s \in 1 .. Now, Joined(r, s)
    PROVE  /\ i \in 1 .. Now /\ i \in Nat /\ r \in Nat /\ s \in Nat /\ r < s /\ i <= s /\ i # r
           /\ Now \in Nat /\ log[i].j # Public /\ i \in 0 .. i
           /\ i > r => /\ log[i].j = Cmd("ledger")
                       /\ \/ log[i].typ \in {"WriteTo", "Location", "Channel"} /\ i < s
                          \/ log[i].typ = "RequestStart" /\ i = s
           /\ i < r => /\ log[i].j # Cmd("ledger")
                       /\ log[i].typ \in {"ReadFrom", "BrokerState", "QryAsset"}
  <1>1. /\ i \in 1 .. Now /\ i \in Nat /\ Now \in Nat /\ ILog
        /\ log[i].j \in Journal /\ cur[log[i].j] \in 1 .. i /\ Shape(log[i])
        /\ log[i].typ \in FrameType
        /\ \A j \in Journal : cur[j] \in 0 .. Now + 1
    BY TurnIs DEF LInv, Entry
  <1>2. r \in Nat /\ s \in Nat /\ r <= Now /\ s <= Now BY <1>1
  <1>3. /\ r < s /\ \A k \in r + 1 .. s : log[k].j = Cmd("ledger")
        /\ \A k \in 1 .. r : log[k].j # Cmd("ledger")
        /\ \A k \in 1 .. Now : Starts(k) <=> k = s
        /\ Registers(r, "ledger")
    BY DEF Joined, Welcomed
  <1>4. /\ cur[Public] = r + 1 /\ \A j \in Journal : cur[j] <= s
        /\ \A k \in 1 .. s : log[k].typ = "Register" => k = r
        /\ \A t \in TD, u \in Strategy : cur[<<t, u>>] = 0 \/ cur[<<t, u>>] > r
    BY DEF Joined
  <1>5. /\ Public \in Journal /\ Cmd("ledger") \in Journal /\ Cmd("ledger") # Public
        /\ \A a, b \in Node : <<a, b>> # Cmd("ledger") /\ <<a, "all">> # Cmd("ledger")
        /\ TD \subseteq Node /\ Strategy \subseteq Node /\ Broker \subseteq Node /\ "ledger" \in Node
    BY JournalNames, Names
  <1>6. i <= s
    <2>1. log[s].j = Cmd("ledger")
      <3>1. s \in r + 1 .. s BY <1>2, <1>3
      <3> QED BY <1>3, <3>1
    <2>2. cur[Cmd("ledger")] # 0 BY DEF LInv, ICur
    <2>3. cur[Cmd("ledger")] <= s BY <1>4, <1>5
    <2>4. s \in Unread BY <2>1, <2>2, <2>3 DEF Unread
    <2> QED BY <2>4 DEF Turn
  <1>7. log[r].j = Public BY <1>1, <1>3, ComesPublic DEF Comes
  <1>8. i # r BY <1>1, <1>2, <1>4, <1>7
  <1>9. ASSUME i > r PROVE log[i].j = Cmd("ledger")
    <2>1. i \in r + 1 .. s BY <1>1, <1>2, <1>6, <1>9
    <2> QED BY <1>3, <2>1
  <1>10. log[i].j # Public
    <2> SUFFICES ASSUME log[i].j = Public PROVE FALSE
      OBVIOUS
    <2>1. r + 1 <= i BY <1>1, <1>4
    <2>2. i > r BY <1>1, <1>2, <2>1
    <2> QED BY <1>5, <1>9, <2>2
  <1>11. ASSUME i < r PROVE log[i].j # Cmd("ledger")
    <2>1. i \in 1 .. r BY <1>1, <1>2, <1>11
    <2> QED BY <1>3, <2>1
  <1>12. log[i].typ \notin {"Register", "Deregister"} BY <1>1, <1>10 DEF Shape
  <1>13. log[i].typ = "RequestStart" <=> i = s BY <1>1, <1>3 DEF Starts
  <1>14. ASSUME i > r
         PROVE  \/ log[i].typ \in {"WriteTo", "Location", "Channel"} /\ i < s
                \/ log[i].typ = "RequestStart" /\ i = s
    <2>1. log[i].typ \notin {"BrokerState", "Order", "QryAsset"}
      BY <1>1, <1>5, <1>9, <1>14 DEF Shape
    <2>2. log[i].typ # "ReadFrom"
      <3> SUFFICES ASSUME log[i].typ = "ReadFrom" PROVE FALSE
        OBVIOUS
      <3>1. i + 1 \in 1 .. Now /\ log[i + 1] = Frame(Public, "Channel", <<log[i].arg, log[i].j[2]>>)
        BY <1>1 DEF LInv, PairsTold
      <3>2. i + 1 \in r + 1 .. s BY <1>1, <1>2, <1>6, <1>13, <1>14
      <3>3. log[i + 1].j = Public BY <3>1 DEF Frame
      <3> QED BY <1>3, <1>5, <3>2, <3>3
    <2>3. i < s \/ i = s BY <1>1, <1>2, <1>6
    <2> QED BY <1>1, <1>12, <1>13, <2>1, <2>2, <2>3 DEF FrameType
  <1>15. ASSUME i < r PROVE log[i].typ \in {"ReadFrom", "BrokerState", "QryAsset"}
    <2>1. log[i].typ \notin {"WriteTo", "RequestStart"} BY <1>1, <1>11, <1>15 DEF Shape
    <2>2. log[i].typ \notin {"Location", "Channel"}
      <3> SUFFICES ASSUME log[i].typ \in {"Location", "Channel"} PROVE FALSE
        OBVIOUS
      <3>1. PICK m \in 1 .. i - 1 : Registers(m, log[i].j[2]) BY <1>1, <1>10 DEF LInv, PairsTold
      <3>2. m \in 1 .. s /\ m # r BY <1>1, <1>2, <1>6, <1>15
      <3> QED BY <1>4, <3>1, <3>2 DEF Registers
    <2>3. log[i].typ # "Order"
      <3> SUFFICES ASSUME log[i].typ = "Order" PROVE FALSE
        OBVIOUS
      <3>1. cur[log[i].j] = 0 \/ cur[log[i].j] > r BY <1>1, <1>4 DEF Shape
      <3> QED BY <1>1, <1>2, <1>15, <3>1
    <2> QED BY <1>1, <1>12, <2>1, <2>2, <2>3 DEF FrameType
  <1>16. i \in 0 .. i BY <1>1
  <1> QED BY <1>1, <1>2, <1>3, <1>6, <1>8, <1>9, <1>10, <1>11, <1>14, <1>15, <1>16

(* Nobody comes or goes while the master tells the ledger of the others.   *)
LEMMA JoinedAlive ==
    ASSUME LInv, NEW r \in 1 .. Now, NEW s \in 1 .. Now, Joined(r, s), NEW i \in r .. s, NEW x
    PROVE  Alive(r, x) <=> Alive(i, x)
  <1>1. r \in Nat /\ i \in Nat /\ s \in Nat /\ r <= i /\ i <= Now /\ ILog /\ Now \in Nat
    <2>1. ILog /\ Now \in Nat BY DEF LInv, ILog, Now
    <2> QED BY <2>1
  <1>2. ASSUME NEW k \in r + 1 .. i PROVE ~Comes(k, x)
    <2>1. k \in r + 1 .. s /\ k \in 1 .. Now BY <1>1
    <2>2. log[k].j = Cmd("ledger") BY <2>1 DEF Joined, Welcomed
    <2>3. Cmd("ledger") # Public BY JournalNames, Names
    <2> QED BY <1>1, <2>1, <2>2, <2>3, ComesPublic
  <1> QED BY <1>1, <1>2, AliveBetween

LEMMA JoinedStays ==
    ASSUME LInv, NEW i, Turn(i), st = "joined", st' = st,
           NEW r \in 1 .. Now, NEW s \in 1 .. Now, Joined(r, s),
           live' = live, links' = links, log' = log,
           cur'[Public] = cur[Public],
           cur'[Cmd("ledger")] = IF log[i].j = Cmd("ledger") THEN i + 1 ELSE cur[Cmd("ledger")],
           \A j \in Journal : cur'[j] <= s,
           \A t \in TD, u \in Strategy : cur'[<<t, u>>] = 0 \/ cur'[<<t, u>>] > r,
           asks' \in Seq(App),
           \A k \in 1 .. Len(asks) : k \in 1 .. Len(asks') /\ asks'[k] = asks[k],
           writers \subseteq writers', \A a : Grants(i, a) => a \in writers',
           known \subseteq known', \A x \in known' : x \in known \/ Locates(i, x),
           \A x : Locates(i, x) => x \in known',
           \A a \in App : Locates(i, a) /\ a \notin known =>
              a \in writers' \/ \E k \in 1 .. Len(asks') : asks'[k] = a,
           \A b \in known' \cap Broker : states'[b] = "Connected",
           \A x \in DOMAIN books' : books'[x] = {},
           \A x \in Booked : subs'[x] > 0 => x \in DOMAIN books' /\ since'[x] \in r .. s - 1,
           ICur', IType', IClient'
    PROVE  LInv'
  <1>1. /\ i \in 1 .. Now /\ i \in Nat /\ r \in Nat /\ s \in Nat /\ r < s /\ i <= s /\ i # r
        /\ Now \in Nat /\ log[i].j # Public
        /\ i < r => log[i].j # Cmd("ledger")
    BY JoinedFrame
  <1>2. /\ Public \in Journal /\ Cmd("ledger") \in Journal /\ Cmd("ledger") # Public
        /\ cur[Cmd("ledger")] \in 0 .. Now + 1 /\ cur[Cmd("ledger")] # 0 /\ ILog /\ App \subseteq Node
    <2>1. Public \in Journal /\ Cmd("ledger") \in Journal /\ Cmd("ledger") # Public /\ App \subseteq Node
      BY JournalNames, Names
    <2>2. cur[Cmd("ledger")] \in 0 .. Now + 1 BY <2>1, TurnIs
    <2> QED BY <2>1, <2>2 DEF LInv, ICur
  <1>3. ILog' /\ INamed' /\ IBack' /\ PairsTold' /\ LinksOK' BY LogKeeps
  <1>4. \A x : ~Registers(i, x)
    <2> SUFFICES ASSUME NEW x, Registers(i, x) PROVE FALSE
      OBVIOUS
    <2> QED BY <1>1, <1>2, ComesPublic DEF Comes
  <1>5. IReach'
    <2>1. \A a \in App :
             /\ Grants(i, a) => a \in writers'
             /\ Registers(i, a) \/ (Locates(i, a) /\ a \notin known) =>
                   a \in known' /\ (a \in writers' \/ \E k \in 1 .. Len(asks') : asks'[k] = a)
             /\ a \in known => a \in known' \/ Deregisters(i, a)
             /\ a \in known' => a \in known \/ Registers(i, a) \/ Locates(i, a)
      BY <1>4
    <2>2. cur'[Public] = IF log[i].j = Public THEN i + 1 ELSE cur[Public] BY <1>1
    <2> QED BY <2>1, <2>2, ReadReach
  <1>6. IJoined'
    <2> PICK q \in Nat : q = cur[Cmd("ledger")] BY <1>2
    <2> PICK Q \in Nat : Q = cur'[Cmd("ledger")] BY <1>1
    <2>0. /\ Welcomed(r, s) /\ cur[Public] = r + 1 /\ r < q
          /\ \A k \in 1 .. s : log[k].typ = "Register" => k = r
          /\ "ledger" \in known /\ \A x \in known : Alive(r, x)
          /\ \A x \in Node : Alive(r, x) => x \in known \/ \E k \in q .. s - 1 : Locates(k, x)
          /\ "master" \in writers \/ \E k \in q .. s - 1 : Grants(k, "master")
      BY DEF Joined
    <2>1. r < Q BY <1>1, <2>0
    <2>2. ASSUME NEW k \in q .. s - 1 PROVE k = i \/ k \in Q .. s - 1
      <3>1. k \in 1 .. Now /\ k \in r + 1 .. s BY <1>1, <1>2, <2>0
      <3>2. log[k].j = Cmd("ledger") BY <2>0, <3>1 DEF Welcomed
      <3>3. k >= i
        <4>1. k < i => k < q BY <1>2, <3>1, <3>2, ReadBefore
        <4> QED BY <1>1, <3>1, <4>1
      <3> QED BY <1>1, <3>1, <3>3
    <2>3. ASSUME NEW x \in known' PROVE Alive(r, x)
      <3>1. CASE x \in known BY <2>0, <3>1
      <3>2. CASE Locates(i, x)
        <4>1. i \in r .. s BY <1>1, <3>2 DEF Locates
        <4>2. x \in Named(log[i]) BY <3>2 DEF Locates, Named
        <4>3. Alive(i, x) BY <1>1, <4>2 DEF LInv, INamed
        <4> QED BY <4>1, <4>3, JoinedAlive
      <3> QED BY <3>1, <3>2
    <2>4. ASSUME NEW x \in Node, Alive(r, x) PROVE x \in known' \/ \E k \in Q .. s - 1 : Locates(k, x)
      <3>1. CASE x \in known BY <3>1
      <3>2. CASE \E k \in q .. s - 1 : Locates(k, x) BY <2>2, <3>2
      <3> QED BY <2>0, <2>4, <3>1, <3>2
    <2>5. "master" \in writers' \/ \E k \in Q .. s - 1 : Grants(k, "master") BY <2>0, <2>2
    <2>6. "ledger" \in known' BY <2>0
    <2>7. (\A x \in Node : Alive(r, x) => x \in known \/ \E k \in cur[Cmd("ledger")] .. s - 1 : Locates(k, x))'
      BY <2>4, LogStays DEF Cmd
    <2>8. ("master" \in writers \/ \E k \in cur[Cmd("ledger")] .. s - 1 : Grants(k, "master"))'
      BY <2>5, LogStays DEF Cmd
    <2>9. ("ledger" \in known /\ \A x \in known : Alive(r, x))' BY <2>3, <2>6, LogStays
    <2>10. (Welcomed(r, s) /\ cur[Public] = r + 1 /\ r < cur[Cmd("ledger")] /\ \A j \in Journal : cur[j] <= s)'
      BY <2>0, <2>1, LogStays DEF Journal, Public, Cmd
    <2>11. (\A k \in 1 .. s : log[k].typ = "Register" => k = r)' BY <2>0
    <2>12. /\ (\A b \in known \cap Broker : states[b] = "Connected")'
           /\ (\A x \in DOMAIN books : books[x] = {})'
           /\ (\A t \in TD, u \in Strategy : cur[<<t, u>>] = 0 \/ cur[<<t, u>>] > r)'
           /\ (\A x \in Booked : subs[x] > 0 => since[x] \in r .. s - 1)'
      OBVIOUS
    <2>13. Now' = Now BY DEF Now
    <2>14. Joined(r, s)' BY <2>7, <2>8, <2>9, <2>10, <2>11, <2>12 DEF Joined
    <2>15. \E m, n \in 1 .. Now' : Joined(m, n)' BY <2>13, <2>14
    <2> QED BY <2>15 DEF IJoined
  <1>7. IDown' BY DEF LInv, IDown
  <1>8. IWait' /\ IPlace' /\ IStates' /\ Survives'
    BY DEF IWait, IPlace, IStates, Survives
  <1>9. IBooks' BY DEF IBooks
  <1> QED BY <1>3, <1>5, <1>6, <1>7, <1>8, <1>9 DEF LInv

(* What it reads without learning of anybody. *)
LEMMA JoinedQuiet ==
    ASSUME LInv, NEW i, Turn(i), st = "joined",
           NEW r \in 1 .. Now, NEW s \in 1 .. Now, Joined(r, s),
           live' = live, links' = links, log' = log, log[i].typ # "RequestStart",
           NEW X, X \subseteq Node \X Node, cur' = Join(At(i), X, i),
           i < r => \A c \in X : cur[c] # 0,
           st' \in {"joined", "failed"}, ICur',
           writers \subseteq writers', writers' \subseteq Node \cup {"master"},
           \A a : Grants(i, a) => a \in writers',
           \A x : Locates(i, x) => st' = "failed" \/ x \in known,
           channels' \subseteq Node \X Node,
           UNCHANGED <<asks, begun, known, states, bvars, cvars>>
    PROVE  LInv'
  <1>1. /\ i \in 1 .. Now /\ i \in Nat /\ r \in Nat /\ s \in Nat /\ i < s /\ i # r /\ i \in 0 .. i
        /\ log[i].j # Public
        /\ i > r => log[i].j = Cmd("ledger")
        /\ i < r => log[i].typ \in {"ReadFrom", "BrokerState", "QryAsset"}
    BY JoinedFrame
  <1>2. /\ cur' \in [Journal -> 0 .. Now + 1] /\ cur'[log[i].j] = i + 1
        /\ \A j \in Journal : j # log[i].j => cur'[j] = IF j \in X /\ cur[j] = 0 THEN i + 1 ELSE cur[j]
    BY <1>1, JoinIs
  <1>3. IType'
    <2>1. Now' = Now BY DEF Now
    <2> QED BY <1>2, <2>1 DEF LInv, IType, bvars, cvars
  <1>4. CASE st' = "failed" BY <1>3, <1>4, FailedKeeps DEF bvars, cvars
  <1>5. CASE st' = "joined"
    <2>1. IClient' BY <1>5 DEF LInv, IClient, Informed, cvars
    <2>2. /\ cur'[Public] = cur[Public]
          /\ cur'[Cmd("ledger")] = IF log[i].j = Cmd("ledger") THEN i + 1 ELSE cur[Cmd("ledger")]
      BY <1>1, JoinsChannels
    <2>3. \A j \in Journal : cur'[j] <= s
      <3>1. i + 1 <= s /\ \A j \in Journal : cur[j] <= s BY <1>1 DEF Joined
      <3> QED BY <1>2, <3>1
    <2>4. ASSUME NEW t \in TD, NEW u \in Strategy PROVE cur'[<<t, u>>] = 0 \/ cur'[<<t, u>>] > r
      <3>1. t \in Node /\ u \in Node /\ u # "ledger" /\ <<t, u>> \in Journal
            /\ Strategy \subseteq Node /\ Broker \subseteq Node /\ "ledger" \in Node
            /\ \A a \in Node : <<t, u>> # Cmd(a) /\ <<t, u>> # <<a, "all">>
        BY JournalNames, Names
      <3>2. <<t, u>> # log[i].j
        <4>1. CASE i > r BY <1>1, <3>1, <4>1
        <4>2. CASE i < r
          <5>1. Shape(log[i]) BY TurnIs
          <5> QED BY <1>1, <3>1, <4>2, <5>1 DEF Shape
        <4> QED BY <1>1, <4>1, <4>2
      <3>3. cur[<<t, u>>] = 0 \/ cur[<<t, u>>] > r BY DEF Joined
      <3>4. CASE <<t, u>> \in X /\ cur[<<t, u>>] = 0
        <4>1. i > r BY <1>1, <3>4
        <4>2. cur'[<<t, u>>] = i + 1 BY <1>2, <3>1, <3>2, <3>4
        <4> QED BY <1>1, <4>1, <4>2
      <3>5. CASE ~ (<<t, u>> \in X /\ cur[<<t, u>>] = 0)
        <4>1. cur'[<<t, u>>] = cur[<<t, u>>] BY <1>2, <3>1, <3>2, <3>5
        <4> QED BY <3>3, <4>1
      <3> QED BY <3>4, <3>5
    <2>5. asks' \in Seq(App) /\ \A k \in 1 .. Len(asks) : k \in 1 .. Len(asks') /\ asks'[k] = asks[k]
      BY DEF LInv, ILog
    <2>6. /\ known \subseteq known' /\ \A x \in known' : x \in known \/ Locates(i, x)
          /\ \A x : Locates(i, x) => x \in known'
      BY <1>5
    <2>7. \A a \in App : Locates(i, a) /\ a \notin known =>
             a \in writers' \/ \E k \in 1 .. Len(asks') : asks'[k] = a
      BY <1>5
    <2>8. /\ \A b \in known' \cap Broker : states'[b] = "Connected"
          /\ \A x \in DOMAIN books' : books'[x] = {}
          /\ \A x \in Booked : subs'[x] > 0 => since'[x] \in r .. s - 1
      BY DEF Joined, bvars
    <2>9. \A x \in Booked : subs'[x] > 0 => x \in DOMAIN books' BY DEF LInv, IBooks, bvars
    <2>10. st' = st BY <1>5
    <2> QED BY <1>3, <2>1, <2>2, <2>3, <2>4, <2>5, <2>6, <2>7, <2>8, <2>9, <2>10, JoinedStays
  <1> QED BY <1>4, <1>5

LEMMA JoinedWriteTo ==
    ASSUME LInv, NEW i, Turn(i), st = "joined",
           NEW r \in 1 .. Now, NEW s \in 1 .. Now, Joined(r, s),
           live' = live, links' = links, log' = log,
           log[i].typ = "WriteTo", OnWriteTo(log[i], At(i))
    PROVE  LInv'
  <1>1. log[i].j = Cmd("ledger") /\ log[i].arg \in App \cup {"master"} BY TurnIs DEF Shape
  <1>2. /\ cur' = At(i) /\ writers' = writers \cup {log[i].arg}
        /\ st' \in {"joined", "failed"}
        /\ UNCHANGED <<asks, begun, known, channels, states, bvars, cvars>>
    BY <1>1 DEF OnWriteTo, Throws
  <1>3. cur' = Join(At(i), {}, i) BY <1>2, AtIs
  <1>4. log[i].j # Public BY JoinedFrame
  <1>5. ICur' BY <1>2, <1>3, <1>4, StaysCur DEF bvars
  <1>6. /\ writers \subseteq writers' /\ writers' \subseteq Node \cup {"master"}
        /\ channels \subseteq Node \X Node
    BY <1>1, <1>2, Names DEF LInv, IType
  <1>7. \A a : (Grants(i, a) => a \in writers') /\ ~Locates(i, a) BY <1>2 DEF Grants, Locates
  <1> QED BY <1>2, <1>3, <1>5, <1>6, <1>7, JoinedQuiet

LEMMA JoinedBrokerState ==
    ASSUME LInv, NEW i, Turn(i), st = "joined",
           NEW r \in 1 .. Now, NEW s \in 1 .. Now, Joined(r, s),
           live' = live, links' = links, log' = log,
           \/ log[i].typ = "BrokerState" /\ OnBrokerState(log[i], At(i))
           \/ log[i].typ = "QryAsset" /\ OnQryAsset(log[i], At(i))
    PROVE  LInv'
  <1>1. /\ cur' = At(i) /\ st' = "joined"
        /\ UNCHANGED <<asks, begun, known, channels, writers, states, bvars, cvars>>
    BY DEF OnBrokerState, OnQryAsset, bvars, cvars
  <1>2. cur' = Join(At(i), {}, i) BY <1>1, AtIs
  <1>3. log[i].j # Public BY JoinedFrame
  <1>4. log[i].typ \notin {"Deregister", "Channel", "RequestStart"} OBVIOUS
  <1>5. ICur' BY <1>1, <1>2, <1>3, <1>4, StaysCur DEF bvars
  <1>6. writers \subseteq Node \cup {"master"} /\ channels \subseteq Node \X Node BY DEF LInv, IType
  <1>7. \A a : ~Grants(i, a) /\ ~Locates(i, a) BY DEF Grants, Locates
  <1> QED BY <1>1, <1>2, <1>4, <1>5, <1>6, <1>7, JoinedQuiet

LEMMA JoinedChannel ==
    ASSUME LInv, NEW i, Turn(i), st = "joined",
           NEW r \in 1 .. Now, NEW s \in 1 .. Now, Joined(r, s),
           live' = live, links' = links, log' = log,
           log[i].typ = "Channel", OnChannel(log[i], At(i), i)
    PROVE  LInv'
  <1>1. /\ log[i].j # Public /\ ~ (i < r)
    BY JoinedFrame
  <1>2. ICur' /\ channels' \subseteq Node \X Node BY <1>1, ChannelCur
  <1>3. PICK X : X \subseteq Node \X Node /\ cur' = Join(At(i), X, i) BY <1>1, ChannelCur
  <1>4. UNCHANGED <<asks, st, begun, known, writers, states, bvars, cvars>> BY DEF OnChannel
  <1>5. writers \subseteq Node \cup {"master"} BY DEF LInv, IType
  <1>6. \A a : ~Grants(i, a) /\ ~Locates(i, a) BY DEF Grants, Locates
  <1> QED BY <1>1, <1>2, <1>3, <1>4, <1>5, <1>6, JoinedQuiet

(* What a trader is told to read from before the ledger is registered, and *)
(* what a strategy is, the ledger reads already.                           *)
LEMMA JoinedReadFrom ==
    ASSUME LInv, NEW i, Turn(i), st = "joined",
           NEW r \in 1 .. Now, NEW s \in 1 .. Now, Joined(r, s),
           live' = live, links' = links, log' = log,
           log[i].typ = "ReadFrom", OnReadFrom(log[i], At(i), i)
    PROVE  LInv'
  <1>1. /\ i \in 1 .. Now /\ i \in Nat /\ r \in Nat /\ s \in Nat /\ i < r /\ r < s /\ Now \in Nat
        /\ log[i].j # Public /\ log[i].j # Cmd("ledger")
    BY JoinedFrame
  <1>2. Shape(log[i]) /\ ILog BY TurnIs DEF LInv
  <1> PICK f : f = log[i] OBVIOUS
  <1>3. PICK a \in Node : f.j = Cmd(a) BY <1>2 DEF Shape
  <1>4. f.arg \in Node /\ f.j[2] = a /\ a # "ledger" BY <1>1, <1>2, <1>3 DEF Shape, Cmd
  <1> PICK c : c = <<f.arg, a>> OBVIOUS
  <1> PICK X : X = IF f.arg \in TD /\ a \in Strategy THEN {c} ELSE {} OBVIOUS
  <1>5. /\ st' = IF {f.arg, a} \subseteq known THEN "joined" ELSE "failed"
        /\ cur' = Join(At(i), X, i)
        /\ UNCHANGED <<asks, begun, known, channels, writers, states, bvars, cvars>>
    <2>1. At(i) = Join(At(i), {}, i) BY AtIs
    <2>2. /\ IF {f.arg, a} \subseteq known THEN UNCHANGED st ELSE Throws
          /\ cur' = IF f.arg \in TD /\ a \in Strategy THEN Join(At(i), {<<f.arg, a>>}, i) ELSE At(i)
          /\ UNCHANGED <<asks, begun, known, channels, writers, states, bvars, cvars>>
      BY <1>4 DEF OnReadFrom
    <2> QED BY <2>1, <2>2 DEF Throws
  <1>6. X \subseteq Node \X Node BY <1>4
  <1>7. ICur' BY <1>1, <1>5, <1>6, StaysCur DEF bvars
  <1>8. writers \subseteq Node \cup {"master"} /\ channels \subseteq Node \X Node BY DEF LInv, IType
  <1>9. \A x : ~Grants(i, x) /\ ~Locates(i, x) BY DEF Grants, Locates
  <1>10. ASSUME f.arg \in TD, a \in Strategy, f.arg \in known PROVE cur[c] # 0
    <2>1. i + 1 \in 1 .. Now /\ log[i + 1] = Frame(Public, "Channel", c)
      BY <1>1, <1>4 DEF LInv, PairsTold
    <2>2. Links(i + 1, c) BY <2>1 DEF Links, Frame
    <2>3. /\ cur[Public] = r + 1 /\ \A k \in 1 .. s : log[k].typ = "Register" => k = r
          /\ Registers(r, "ledger") /\ \A x \in known : Alive(r, x)
      BY DEF Joined, Welcomed
    <2>4. log[i + 1].j = Public /\ i + 1 < cur[Public] BY <1>1, <2>1, <2>3 DEF Frame
    <2>5. ASSUME NEW l \in i + 1 .. r, Deregisters(l, f.arg) PROVE FALSE
      <3>1. r \in 0 .. Now /\ l \in 1 .. r /\ l \in Nat BY <1>1
      <3>2. Alive(r, f.arg) BY <1>10, <2>3
      <3>3. PICK k \in l + 1 .. r : Registers(k, f.arg) BY <1>4, <2>5, <3>1, <3>2 DEF LInv, IBack
      <3>4. k \in 1 .. s /\ log[k].typ = "Register" BY <1>1, <3>1, <3>3 DEF Registers
      <3>5. k = r BY <2>3, <3>4
      <3>6. f.arg = "ledger" BY <2>3, <3>3, <3>5 DEF Registers
      <3> QED BY <1>10, <3>6, Names
    <2>6. (cur[Public] - 1) = r BY <1>1, <2>3
    <2>7. c \in Node \X Node /\ c[1] = f.arg BY <1>4
    <2>8. \A l \in (i + 1) .. cur[Public] - 1 : ~Deregisters(l, c[1]) BY <2>5, <2>6, <2>7
    <2>9. c \in channels BY <2>1, <2>2, <2>4, <2>7, <2>8 DEF LInv, ICur
    <2>10. c[1] \in added BY <1>10, <2>7, Names DEF LInv, ICur
    <2> QED BY <2>9, <2>10 DEF LInv, ICur
  <1>11. CASE st' = "joined"
    <2>1. \A x \in X : cur[x] # 0 BY <1>5, <1>10, <1>11
    <2> QED BY <1>5, <1>6, <1>7, <1>8, <1>9, <1>11, <2>1, JoinedQuiet
  <1>12. CASE st' = "failed"
    <2>1. IType'
      <3>1. i \in 0 .. i BY <1>1
      <3>2. cur' \in [Journal -> 0 .. Now + 1] BY <1>5, <3>1, JoinIs
      <3>3. Now' = Now BY DEF Now
      <3> QED BY <1>5, <1>12, <3>2, <3>3 DEF LInv, IType, bvars, cvars
    <2> QED BY <1>5, <1>7, <1>12, <2>1, FailedKeeps DEF bvars, cvars
  <1> QED BY <1>5, <1>11, <1>12

(* The ledger is told of an application: it learns of it, unless it cannot *)
(* ask the master yet.                                                     *)
LEMMA JoinedLocation ==
    ASSUME LInv, NEW i, Turn(i), st = "joined",
           NEW r \in 1 .. Now, NEW s \in 1 .. Now, Joined(r, s),
           live' = live, links' = links, log' = log,
           log[i].typ = "Location", OnLocation(log[i], At(i), i)
    PROVE  LInv'
  <1>1. /\ i \in 1 .. Now /\ i \in Nat /\ r \in Nat /\ s \in Nat /\ r < i /\ i < s /\ Now \in Nat
        /\ log[i].j # Public /\ log[i].j = Cmd("ledger")
    BY JoinedFrame
  <1> PICK a : a = log[i].arg OBVIOUS
  <1>2. a \in Node /\ "ledger" \in known BY TurnIs DEF Shape, Joined
  <1>3. RegisterLocation(a, At(i), i, 0)
    <2>1. log[i].j[2] = "ledger" BY <1>1 DEF Cmd
    <2>2. Announced("ledger", i) = 0 BY DEF Announced
    <2> QED BY <2>1, <2>2 DEF OnLocation
  <1>4. \A x : (Locates(i, x) <=> x = a) /\ ~Grants(i, x) BY <1>1 DEF Locates, Grants
  <1>5. CASE a \in known \/ (a \notin known /\ "master" \notin writers)
    <2>1. /\ known' = known /\ cur' = At(i) /\ st' = IF a \in known THEN "joined" ELSE "failed"
          /\ UNCHANGED <<asks, begun, channels, writers, states, bvars, cvars>>
      <3>1. CASE a \in known
        <4>1. a \in known \cup {"ledger"} /\ known \cup {a} = known BY <3>1
        <4> QED BY <1>3, <3>1, <4>1 DEF RegisterLocation
      <3>2. CASE a \notin known /\ "master" \notin writers
        <4>1. a \notin known \cup {"ledger"} BY <1>2, <3>2
        <4> QED BY <1>3, <3>2, <4>1 DEF RegisterLocation, Throws
      <3> QED BY <1>5, <3>1, <3>2
    <2>2. cur' = Join(At(i), {}, i) BY <2>1, AtIs
    <2>3. ICur' BY <1>1, <2>1, <2>2, StaysCur DEF bvars
    <2>4. writers \subseteq Node \cup {"master"} /\ channels \subseteq Node \X Node BY DEF LInv, IType
    <2> QED BY <1>4, <2>1, <2>2, <2>3, <2>4, JoinedQuiet
  <1>6. CASE a \notin known /\ "master" \in writers
    <2>1. a \in App /\ a \in Node /\ a \notin known \cup {"ledger"} BY <1>2, <1>6 DEF Node
    <2>2. Learn(a, At(i), i, 0) BY <1>3, <1>6, <2>1 DEF RegisterLocation
    <2>3. 0 \in 0 .. i /\ \E x \in Node : log[i].j = Cmd(x)
      <3>1. "ledger" \in Node BY Names
      <3> QED BY <1>1, <3>1
    <2>4. /\ cur' \in [Journal -> 0 .. Now + 1] /\ cur'[log[i].j] = i + 1
          /\ \A j \in Journal : j = log[i].j \/ cur'[j] \in {0 + 1, i + 1, cur[j]}
          /\ cur'[Public] = IF log[i].j = Public THEN i + 1 ELSE cur[Public]
          /\ cur'[Cmd("ledger")] = IF log[i].j = Cmd("ledger") THEN i + 1 ELSE cur[Cmd("ledger")]
          /\ \A c \in Node \X Node : cur'[c] \in {i + 1, cur[c]}
      BY <1>6, <2>1, <2>2, <2>3, LearnCursors
    <2>5. ICur' BY <1>1, <1>6, <2>1, <2>2, <2>3, LearnCur
    <2>6. /\ IType' /\ IClient' /\ asks' \in Seq(App)
          /\ \A k \in 1 .. Len(asks) : k \in 1 .. Len(asks') /\ asks'[k] = asks[k]
          /\ \E k \in 1 .. Len(asks') : asks'[k] = a
          /\ \A b \in known \cap Broker : states'[b] = states[b]
          /\ a \in Broker => states'[a] = "Connected"
      BY <1>6, <2>1, <2>2, <2>3, LearnType
    <2>7. /\ \A x \in DOMAIN books : books'[x] = books[x]
          /\ DOMAIN books \subseteq DOMAIN books'
          /\ \A x \in DOMAIN books' : x \in DOMAIN books \/ (x = a /\ books'[x] = {})
          /\ \A x \in Booked \ {a} : since'[x] = since[x] /\ subs'[x] = subs[x]
          /\ a \in Booked => /\ a \in DOMAIN books' /\ subs'[a] > 0
                             /\ since'[a] = IF subs[a] = 0 THEN i ELSE since[a]
      BY <2>1, <2>2, LearnBooks
    <2>8. st' = st /\ known' = known \cup {a} /\ writers' = writers BY <2>2 DEF Learn
    <2>9. \A j \in Journal : cur'[j] <= s
      <3>1. 1 <= s /\ i + 1 <= s /\ \A j \in Journal : cur[j] <= s BY <1>1 DEF Joined
      <3>2. \A j \in Journal : cur'[j] = i + 1 \/ cur'[j] = 1 \/ cur'[j] = cur[j] BY <2>4
      <3> QED BY <3>1, <3>2
    <2>10. \A t \in TD, u \in Strategy : cur'[<<t, u>>] = 0 \/ cur'[<<t, u>>] > r
      <3>1. \A t \in TD, u \in Strategy : cur[<<t, u>>] = 0 \/ cur[<<t, u>>] > r BY DEF Joined
      <3>2. \A t \in TD, u \in Strategy : <<t, u>> \in Node \X Node BY Names
      <3>3. i + 1 > r BY <1>1
      <3>4. ASSUME NEW t \in TD, NEW u \in Strategy PROVE cur'[<<t, u>>] = i + 1 \/ cur'[<<t, u>>] = cur[<<t, u>>]
        <4>1. <<t, u>> \in Node \X Node BY <3>2
        <4> QED BY <2>4, <4>1
      <3> QED BY <3>1, <3>3, <3>4
    <2>11. \A b \in known' \cap Broker : states'[b] = "Connected" BY <2>6, <2>8 DEF Joined
    <2>12. \A x \in DOMAIN books' : books'[x] = {} BY <2>7 DEF Joined
    <2>13. ASSUME NEW x \in Booked, subs'[x] > 0 PROVE x \in DOMAIN books' /\ since'[x] \in r .. s - 1
      <3>1. i \in r .. s - 1 BY <1>1
      <3>2. subs[x] > 0 => x \in DOMAIN books /\ since[x] \in r .. s - 1 BY DEF LInv, IBooks, Joined
      <3>3. subs[x] \in 0 .. 2 BY DEF LInv, IType
      <3>4. CASE x = a /\ subs[x] = 0 BY <2>7, <3>1, <3>4
      <3>5. CASE x = a /\ subs[x] > 0 BY <2>7, <3>2, <3>5
      <3>6. CASE x # a BY <2>7, <2>13, <3>2, <3>6
      <3>7. subs[x] = 0 \/ subs[x] > 0 BY <3>3
      <3> QED BY <3>4, <3>5, <3>6, <3>7
    <2>14. /\ known \subseteq known' /\ \A x \in known' : x \in known \/ Locates(i, x)
           /\ \A x : Locates(i, x) => x \in known'
           /\ writers \subseteq writers' /\ \A x : Grants(i, x) => x \in writers'
           /\ \A x \in App : Locates(i, x) /\ x \notin known =>
                 x \in writers' \/ \E k \in 1 .. Len(asks') : asks'[k] = x
      BY <1>4, <2>6, <2>8
    <2>15. cur'[Public] = cur[Public] BY <1>1, <2>4
    <2> QED BY <2>4, <2>5, <2>6, <2>8, <2>9, <2>10, <2>11, <2>12, <2>13, <2>14, <2>15, JoinedStays
  <1> QED BY <1>5, <1>6

(* The ledger starts: it has read all that was there when it came.         *)
LEMMA JoinedStart ==
    ASSUME LInv, NEW i, Turn(i), st = "joined",
           NEW r \in 1 .. Now, NEW s \in 1 .. Now, Joined(r, s),
           live' = live, links' = links, log' = log,
           log[i].typ = "RequestStart", OnRequestStart(log[i], At(i), i)
    PROVE  LInv'
  <1>1. /\ i \in 1 .. Now /\ i \in Nat /\ r \in Nat /\ i = s /\ r < i /\ Now \in Nat /\ i \in 0 .. i
        /\ log[i].j # Public /\ log[i].j = Cmd("ledger")
    BY JoinedFrame
  <1>2. /\ st' = "started" /\ begun' = i /\ cur' = At(i)
        /\ UNCHANGED <<asks, known, channels, writers, states, bvars, cvars>>
    BY DEF OnRequestStart
  <1>3. cur' = Join(At(i), {}, i) BY <1>2, AtIs
  <1>4. /\ cur' \in [Journal -> 0 .. Now + 1] /\ cur'[log[i].j] = i + 1
        /\ \A j \in Journal : j # log[i].j => cur'[j] = IF j \in {} /\ cur[j] = 0 THEN i + 1 ELSE cur[j]
    BY <1>1, <1>3, JoinIs
  <1>5. /\ Public \in Journal /\ Cmd("ledger") \in Journal /\ Broker \subseteq Node /\ App \subseteq Node
        /\ TD \subseteq Node /\ Strategy \subseteq Node /\ "ledger" \in Node
        /\ \A b \in Node : <<b, "all">> \in Journal /\ <<b, "all">> # Cmd("ledger")
        /\ \A a, b \in Node : <<a, b>> # Cmd("ledger")
        /\ cur[Cmd("ledger")] \in 0 .. Now + 1 /\ cur[Cmd("ledger")] # 0
    <2>1. Public \in Journal /\ Cmd("ledger") \in Journal BY JournalNames, Names
    <2>2. cur[Cmd("ledger")] \in 0 .. Now + 1 BY <2>1, TurnIs
    <2> QED BY <2>1, <2>2, JournalNames, Names DEF LInv, ICur
  <1>6. /\ Starts(i) /\ \A k \in r + 1 .. i : log[k].j = Cmd("ledger")
        /\ \A k \in 1 .. Now : log[k].typ = "Location" /\ log[k].j = Cmd("ledger") => k < i
    BY <1>1 DEF Joined, Welcomed
  <1>7. /\ cur[Public] = r + 1 /\ \A j \in Journal : cur[j] <= i
        /\ \A x \in known : Alive(r, x)
        /\ r < cur[Cmd("ledger")]
        /\ \A x \in Node : Alive(r, x) => x \in known \/ \E k \in cur[Cmd("ledger")] .. i - 1 : Locates(k, x)
        /\ "master" \in writers \/ \E k \in cur[Cmd("ledger")] .. i - 1 : Grants(k, "master")
        /\ \A b \in known \cap Broker : states[b] = "Connected"
        /\ \A x \in DOMAIN books : books[x] = {}
        /\ \A x \in Booked : subs[x] > 0 => since[x] \in r .. i - 1
    BY <1>1 DEF Joined
  <1>8. ASSUME NEW k \in cur[Cmd("ledger")] .. i - 1 PROVE FALSE
    <2>1. k \in 1 .. Now /\ k \in r + 1 .. i /\ k < i /\ ~ (k < cur[Cmd("ledger")]) BY <1>1, <1>5, <1>7
    <2>2. log[k].j = Cmd("ledger") BY <1>6, <2>1
    <2> QED BY <1>5, <2>1, <2>2, ReadBefore
  <1>9. Moved(i) /\ cur'[Public] = cur[Public]
    BY <1>1, <1>3, JoinsChannels
  <1>10. Now' = Now BY DEF Now
  <1>11. /\ \A j \in Journal : cur'[j] <= i + 1
         /\ \A u \in Unread' : u > i /\ \A j \in Journal : cur'[j] <= u
    BY <1>7, <1>9, ReadAfter
  <1>12. ICur' BY <1>1, <1>2, <1>3, StaysCur DEF bvars
  <1>13. ILog' /\ INamed' /\ IBack' /\ PairsTold' /\ LinksOK'
    <2>1. asks' \in Seq(App) BY <1>2 DEF LInv, ILog
    <2> QED BY <2>1, LogKeeps
  <1>14. IType' BY <1>1, <1>2, <1>4, <1>10 DEF LInv, IType, bvars, cvars
  <1>15. IClient' BY <1>2 DEF LInv, IClient, Informed, cvars
  <1>16. IDown' BY <1>2 DEF LInv, IDown
  <1>17. IWait' /\ IJoined' /\ Survives' BY <1>2 DEF IWait, IJoined, Survives
  <1>18. IReach'
    <2>1. \A a : ~Grants(i, a) /\ ~Locates(i, a) /\ ~Registers(i, a) BY DEF Grants, Locates, Registers
    <2>2. \A a \in App :
             /\ Grants(i, a) => a \in writers'
             /\ Registers(i, a) \/ (Locates(i, a) /\ a \notin known) =>
                   a \in known' /\ (a \in writers' \/ \E k \in 1 .. Len(asks') : asks'[k] = a)
             /\ a \in known => a \in known' \/ Deregisters(i, a)
             /\ a \in known' => a \in known \/ Registers(i, a) \/ Locates(i, a)
      BY <1>2, <2>1
    <2>3. /\ writers \subseteq writers' /\ \A k \in 1 .. Len(asks) : k \in 1 .. Len(asks') /\ asks'[k] = asks[k]
          /\ asks' \in Seq(App)
      BY <1>2 DEF LInv, ILog
    <2>4. /\ cur'[Public] = IF log[i].j = Public THEN i + 1 ELSE cur[Public]
          /\ cur'[Cmd("ledger")] = IF log[i].j = Cmd("ledger") THEN i + 1 ELSE cur[Cmd("ledger")]
      BY <1>1, <1>4, <1>9
    <2> QED BY <1>2, <1>6, <2>2, <2>3, <2>4, ReadReach
  <1>19. IPlace'
    <2>1. "master" \in writers' /\ begun' \in 1 .. Now' /\ log'[begun'].typ = "RequestStart"
      <3>1. log[i].typ = "RequestStart" BY <1>6 DEF Starts
      <3>2. "master" \in writers' BY <1>2, <1>7, <1>8
      <3> QED BY <1>1, <1>2, <1>10, <3>1, <3>2
    <2>2. ASSUME NEW x \in Node PROVE x \in known' <=> Alive(r, x) BY <1>2, <1>7, <1>8
    <2>3. cur'[Public] - 1 = r BY <1>1, <1>7, <1>9
    <2>4. (\A x \in Node : x \in known <=> Alive(cur[Public] - 1, x))'
      BY <2>2, <2>3, LogStays DEF Public
    <2>5. (\A u \in Unread : u > begun /\ \A j \in Journal : cur[j] <= u)' BY <1>2, <1>11
    <2> QED BY <2>1, <2>4, <2>5 DEF IPlace, Starts
  <1>20. IStates'
    <2>1. ASSUME NEW b \in known' \cap Broker
          PROVE  Said(b)' = {} /\ states'[b] = "Connected"
      <3>1. b \in Node BY <1>5
      <3>2. cur'[<<b, "all">>] <= i /\ cur'[<<b, "all">>] \in 0 .. Now + 1 BY <1>1, <1>4, <1>5, <1>7, <3>1
      <3>3. \A k \in Said(b)' : k \in i + 1 .. cur'[<<b, "all">>] - 1 BY <1>2 DEF Said
      <3>4. i + 1 .. cur'[<<b, "all">>] - 1 = {} BY <1>1, <3>2
      <3> QED BY <1>2, <1>7, <3>3, <3>4
    <2>2. (\A b \in known \cap Broker :
             /\ Said(b) = {} => states[b] = "Connected"
             /\ \A k \in Said(b) : (\A l \in Said(b) : l <= k) => states[b] = log[k].arg)'
      BY <2>1
    <2> QED BY <2>2 DEF IStates
  <1>21. IBooks'
    <2>1. \A x \in Booked : subs[x] > 0 => x \in DOMAIN books BY DEF LInv, IBooks
    <2>2. ASSUME NEW x \in Booked, subs[x] > 0, NEW k, k = since[x] PROVE Passed(k)'
      <3>1. k < cur'[log[i].j] BY <1>1, <1>4, <1>7, <2>2
      <3> QED BY <1>1, <1>5, <3>1 DEF Passed
    <2>3. ASSUME NEW x \in Booked, subs[x] > 0, NEW o, NEW k \in Entered(x, o)' PROVE FALSE
      <3>1. k \in since[x] + 1 .. Now /\ Reports(k, x) /\ Passed(k)'
        BY <1>2, <1>10, LogStays DEF Entered, bvars
      <3>2. since[x] \in r .. i - 1 BY <1>7, <2>3
      <3>3. k \in Nat /\ k \in 1 .. Now /\ r < k BY <1>1, <3>1, <3>2
      <3>4. PICK j \in Journal : k < cur'[j] BY <3>1 DEF Passed
      <3>5. cur'[j] <= i + 1 /\ cur'[j] \in 0 .. Now + 1 BY <1>4, <1>11
      <3>6. k \in r + 1 .. i BY <1>1, <3>3, <3>4, <3>5
      <3>7. log[k].j = Cmd("ledger") BY <1>6, <3>6
      <3>8. Shape(log[k]) /\ log[k].typ = "Order" BY <3>1, <3>3 DEF LInv, ILog, Reports
      <3> QED BY <1>5, <3>7, <3>8 DEF Shape
    <2>4. \A x \in Booked : subs'[x] > 0 => x \in DOMAIN books' BY <1>2, <2>1 DEF bvars
    <2>5. (\A x \in Booked : subs[x] > 0 => Passed(since[x]))' BY <1>2, <2>2 DEF bvars, Passed
    <2>6. ASSUME NEW x \in DOMAIN books'
          PROVE  /\ books'[x] = {}
                 /\ subs'[x] > 0 => \A o \in OrderId : \A k \in Entered(x, o)' : FALSE
      <3>1. x \in Booked BY <1>2 DEF LInv, IType, bvars
      <3> QED BY <1>2, <1>7, <2>3, <3>1 DEF bvars
    <2>7. (\A x \in DOMAIN books :
              /\ subs[x] = 0 => books[x] = {}
              /\ subs[x] > 0 => \A o \in OrderId :
                    o \in books[x] <=> \E k \in Entered(x, o) :
                      log[k].arg.active /\ \A l \in Entered(x, o) : l <= k)'
      BY <2>6
    <2> QED BY <2>4, <2>5, <2>7 DEF IBooks
  <1> QED BY <1>12, <1>13, <1>14, <1>15, <1>16, <1>17, <1>18, <1>19, <1>20, <1>21 DEF LInv

LEMMA JoinedKeeps ==
    ASSUME LInv, NEW i, Turn(i), Handle(i, At(i)), st = "joined",
           live' = live, links' = links, log' = log
    PROVE  LInv'
  <1>1. PICK r \in 1 .. Now, s \in 1 .. Now : Joined(r, s) BY DEF LInv, IJoined
  <1>2. log[i].typ \in {"WriteTo", "Location", "Channel", "RequestStart", "ReadFrom", "BrokerState",
                        "QryAsset"}
    <2>1. /\ i \in Nat /\ r \in Nat /\ i # r
          /\ i > r => log[i].typ \in {"WriteTo", "Location", "Channel", "RequestStart"}
          /\ i < r => log[i].typ \in {"ReadFrom", "BrokerState", "QryAsset"}
      BY <1>1, JoinedFrame
    <2>2. i > r \/ i < r BY <2>1
    <2> QED BY <2>1, <2>2
  <1> QED BY <1>1, <1>2, JoinedWriteTo, JoinedLocation, JoinedChannel,
             JoinedReadFrom, JoinedBrokerState, JoinedStart DEF Handle

(* A turn that passes nothing over is one of the oldest frame.             *)
LEMMA InOrder ==
    ASSUME Read, overtook \in Nat, overtook' = 0
    PROVE  overtook = 0 /\ \E i : Turn(i) /\ Handle(i, At(i))
  <1>1. PICK i \in Heads : /\ Handle(i, At(i))
                           /\ overtook' = IF Overtakes(i) THEN overtook + 1 ELSE overtook
    BY DEF Read, At
  <1>2. ~Overtakes(i) /\ overtook = 0 BY <1>1
  <1>3. i \in Unread /\ i \in Nat /\ \A u \in Unread : u \in Nat /\ ~(u < i)
    BY <1>2 DEF Heads, Unread, Overtakes
  <1>4. \A u \in Unread : i <= u BY <1>3
  <1> QED BY <1>1, <1>2, <1>3, <1>4 DEF Turn, Read, Up

LEMMA Advances ==
    ASSUME NEW i, NEW c, Handle(i, c)
    PROVE  st' \in {st, "joined", "started", "failed", "threw"}
  <1>1. ASSUME NEW a, NEW t, RegisterLocation(a, c, i, t)
        PROVE  st' \in {st, "joined", "started", "failed", "threw"}
    BY <1>1 DEF RegisterLocation, Learn, Throws
  <1>2. CASE log[i].typ \in {"Register", "Location"}
    BY <1>1, <1>2 DEF Handle, OnRegister, OnLocation
  <1>3. CASE log[i].typ \notin {"Register", "Location"}
    BY <1>3 DEF Handle, OnDeregister, OnChannel, OnWriteTo, OnReadFrom, OnBrokerState, OnOrder,
                OnQryAsset, OnRequestStart, Throws
  <1> QED BY <1>2, <1>3

LEMMA ReadKeeps ==
    ASSUME Inv, Read
    PROVE  Inv'
  <1>1. st \in {"waiting", "joined", "started"} /\ live' = live /\ links' = links /\ log' = log
    BY DEF Read
  <1>2. PICK i \in Unread : /\ Handle(i, At(i)) /\ overtook' <= MaxOvertake
                            /\ overtook' = IF Overtakes(i) THEN overtook + 1 ELSE overtook
                            /\ last' = log[i].j
    BY DEF Read, Heads, At
  <1>3. ITyped' BY ReadTyped DEF Inv
  <1>4. last' \in Journal'
    <2>1. last' \in Journal BY <1>2, UnreadIs DEF Inv
    <2> QED BY <2>1 DEF Journal, Public, Cmd
  <1>5. overtook \in Nat /\ overtook' \in 0 .. MaxOvertake BY <1>2, LedgerAssumption DEF Inv
  <1>6. ASSUME overtook' = 0 PROVE LInv'
    <2>1. PICK k : overtook = 0 /\ Turn(k) /\ Handle(k, At(k)) BY <1>5, <1>6, InOrder
    <2>2. LInv BY <2>1 DEF Inv
    <2> QED BY <1>1, <2>1, <2>2, WaitingKeeps, JoinedKeeps, StartedKeeps
  <1>7. ASSUME st' \in {"down", "waiting"} PROVE overtook' = 0
    <2>1. st = "waiting" BY <1>1, <1>2, <1>7, Advances
    <2>2. overtook = 0 /\ LInv BY <2>1 DEF Inv
    <2>3. \A j \in Journal \ {Public} : cur[j] = 0 BY <2>1, <2>2 DEF LInv, IWait
    <2>4. \A u \in Unread : log[u].j = Public
      <3>1. \A u \in Unread : log[u].j \in Journal /\ cur[log[u].j] # 0
        BY <2>2, UnreadIs DEF LInv, ITyped, Unread
      <3> QED BY <2>3, <3>1
    <2>5. PICK k \in Heads : overtook' = IF Overtakes(k) THEN overtook + 1 ELSE overtook
      BY DEF Read
    <2>6. \A u \in Unread : k <= u BY <2>4 DEF Heads
    <2>7. k \in Nat /\ \A u \in Unread : u \in Nat BY DEF Heads, Unread
    <2>8. ~Overtakes(k) BY <2>6, <2>7 DEF Overtakes
    <2> QED BY <2>2, <2>5, <2>8
  <1> QED BY <1>3, <1>4, <1>5, <1>6, <1>7 DEF Inv

-----------------------------------------------------------------------------
(* The inductive invariant holds in every behaviour. *)
LEMMA LedgerStep ==
    ASSUME Inv, [Next]_vars
    PROVE  Inv'
  <1>1. CASE UNCHANGED vars BY <1>1, StutterKeeps
  <1>2. ASSUME NEW a \in App, AppUp(a) PROVE Inv' BY <1>2, AppUpKeeps
  <1>3. CASE LedgerUp BY <1>3, LedgerUpKeeps
  <1>4. CASE GrantWriter BY <1>4, GrantWriterKeeps
  <1>5. CASE LedgerStart BY <1>5, LedgerStartKeeps
  <1>6. CASE LedgerDies BY <1>6, LedgerDiesKeeps
  <1>7. CASE Read BY <1>7, ReadKeeps
  <1>8. ASSUME NEW a \in Node, Down(a) PROVE Inv' BY <1>8, DownKeeps
  <1>9. ASSUME NEW b \in Broker, NEW s \in Report, BrokerReports(b, s) PROVE Inv'
    BY <1>9, BrokerReportsKeeps
  <1>10. ASSUME NEW t \in TD, NEW s \in Strategy, NEW o \in OrderId, NEW active \in BOOLEAN,
                TraderReports(t, s, o, active)
         PROVE  Inv'
    BY <1>10, TraderReportsKeeps
  <1>11. ASSUME NEW s \in Strategy, NEW t \in TD, AddAccount(s, t) PROVE Inv'
    BY <1>11, AddAccountKeeps
  <1>12. ASSUME NEW s \in Strategy, NEW t \in TD, AskAsset(s, t) PROVE Inv'
    BY <1>12, AskAssetKeeps
  <1>13. CASE Refresh BY <1>13, RefreshKeeps
  <1>14. ASSUME NEW s \in Strategy, RemoveStrategy(s) PROVE Inv' BY <1>14, RemoveStrategyKeeps
  <1> QED BY <1>1, <1>2, <1>3, <1>4, <1>5, <1>6, <1>7, <1>8, <1>9, <1>10, <1>11, <1>12, <1>13,
             <1>14 DEF Next

LEMMA LedgerInvariance == Spec => []Inv
  BY LedgerInit, LedgerStep, PTL DEF Spec

-----------------------------------------------------------------------------
(* What follows of a ledger that has read everything. *)
LEMMA CaughtUpIs ==
    ASSUME LInv, CaughtUp, NEW j \in Journal, cur[j] # 0
    PROVE  \A k \in 1 .. Now : log[k].j = j => k < cur[j]
  <1>1. cur[j] \in 0 .. Now + 1 BY DEF LInv, IType
  <1>2. Now \in Nat BY DEF LInv, ILog, Now
  <1>3. ASSUME NEW k \in 1 .. Now, log[k].j = j, ~ (k < cur[j]) PROVE FALSE
    <2>1. cur[log[k].j] # 0 /\ cur[log[k].j] <= k BY <1>1, <1>2, <1>3
    <2>2. k \in Unread BY <2>1 DEF Unread
    <2> QED BY <2>2 DEF CaughtUp
  <1> QED BY <1>3

LEMMA StateIsReported ==
    ASSUME LInv
    PROVE  StateReported
  <1> SUFFICES ASSUME CaughtUp, NEW b \in Broker \cap known
               PROVE  LET R == {i \in 1 .. Now : log[i].typ = "Register" /\ log[i].arg = b}
                          S == {i \in begun + 1 .. Now : /\ log[i].typ = "BrokerState"
                                                         /\ log[i].j[1] = b
                                                         /\ \A k \in R : k < i}
                      IN  states[b] = IF S = {} THEN "Connected" ELSE log[Max(S)].arg
    BY DEF StateReported
  <1> DEFINE R == {i \in 1 .. Now : log[i].typ = "Register" /\ log[i].arg = b}
             S == {i \in begun + 1 .. Now : /\ log[i].typ = "BrokerState" /\ log[i].j[1] = b
                                            /\ \A k \in R : k < i}
  <1>1. /\ st = "started" /\ Now \in Nat /\ ILog /\ b \in Node /\ b \in App /\ b \in known
        /\ Broker \subseteq Node
    <2>1. Now \in Nat BY DEF LInv, ILog, Now
    <2> QED BY <2>1, Names DEF LInv, CaughtUp
  <1> PICK A : A = <<b, "all">> OBVIOUS
  <1>2. /\ Public \in Journal /\ cur[Public] \in 0 .. Now + 1 /\ cur[Public] # 0
        /\ A \in Journal /\ cur[A] \in 0 .. Now + 1 /\ cur[A] # 0 /\ begun \in Nat
    <2>1. Public \in Journal /\ A \in Journal BY <1>1, JournalNames
    <2>2. cur \in [Journal -> 0 .. Now + 1] /\ begun \in 0 .. Now BY DEF LInv, IType
    <2>3. cur[Public] # 0 /\ cur[A] # 0 BY <1>1 DEF LInv, ICur, Up
    <2> QED BY <2>1, <2>2, <2>3
  <1>3. \A k \in 1 .. Now : Registers(k, b) => k \in 1 .. cur[Public] - 1
    <2>1. ASSUME NEW k \in 1 .. Now, Registers(k, b) PROVE k \in 1 .. cur[Public] - 1
      <3>1. log[k].j = Public BY <1>1, <2>1, ComesPublic DEF Comes
      <3>2. k < cur[Public] BY <1>2, <3>1, CaughtUpIs
      <3> QED BY <1>2, <3>2
    <2> QED BY <2>1
  <1>4. \A k \in 1 .. cur[Public] - 1 : k \in 1 .. Now BY <1>1, <1>2
  <1>5. ASSUME NEW k \in begun + 1 .. Now, log[k].typ = "BrokerState", log[k].j[1] = b
        PROVE  k \in begun + 1 .. cur[A] - 1
    <2>1. k \in 1 .. Now BY <1>2
    <2>2. log[k].j = A BY <1>1, <1>5, <2>1 DEF ILog, Shape
    <2>3. k < cur[A] BY <1>2, <2>1, <2>2, CaughtUpIs
    <2> QED BY <1>2, <2>3
  <1>6. \A k \in begun + 1 .. cur[A] - 1 : k \in begun + 1 .. Now BY <1>1, <1>2
  <1>7. \A i : (\A k \in R : k < i) <=> \A k \in 1 .. cur[Public] - 1 : Registers(k, b) => k < i
    BY <1>3, <1>4 DEF Registers
  <1>8. S = Said(b)
    <2> HIDE DEF R
    <2>1. \A k : k \in S <=> k \in Said(b) BY <1>5, <1>6, <1>7 DEF Said
    <2> HIDE DEF S
    <2>2. S \subseteq Said(b) /\ Said(b) \subseteq S BY <2>1
    <2> QED BY <2>2
  <1>9. /\ Said(b) = {} => states[b] = "Connected"
        /\ \A i \in Said(b) : (\A k \in Said(b) : k <= i) => states[b] = log[i].arg
    BY <1>1 DEF LInv, IStates
  <1>10. ASSUME S # {} PROVE states[b] = log[Max(S)].arg
    <2>1. S \subseteq 0 .. Now BY <1>1, <1>2
    <2> HIDE DEF S
    <2>2. Max(S) \in S /\ \A k \in S : k <= Max(S) BY <1>1, <1>10, <2>1, MaxIs
    <2> QED BY <1>8, <1>9, <2>2
  <1> HIDE DEF R
  <1>11. states[b] = IF S = {} THEN "Connected" ELSE log[Max(S)].arg
    <2> HIDE DEF S
    <2> QED BY <1>8, <1>9, <1>10
  <1> QED BY <1>11 DEF R

LEMMA StatesAreTold == Inv => StatesTold
  <1> SUFFICES ASSUME Inv PROVE StatesTold
    OBVIOUS
  <1>1. Informed BY DEF Inv, ITyped, IClient
  <1>2. StateReported
    <2>1. CASE CaughtUp
      <3>1. LInv BY <2>1 DEF CaughtUp, Inv
      <3> QED BY <3>1, StateIsReported
    <2>2. CASE ~CaughtUp BY <2>2 DEF StateReported
    <2> QED BY <2>1, <2>2
  <1> QED BY <1>1, <1>2 DEF StatesTold

(* A ledger that has read everything has been told every report.           *)
LEMMA AllHeard ==
    ASSUME LInv, CaughtUp, NEW k \in 1 .. Now, log[k].typ = "Order"
    PROVE  Passed(k)
  <1>1. Now \in Nat /\ st = "started" /\ begun \in 0 .. Now
    <2>1. Now \in Nat BY DEF LInv, ILog, Now
    <2> QED BY <2>1 DEF LInv, IType, CaughtUp
  <1>2. HeardBefore(Now + 1) BY CaughtUpIs DEF HeardBefore
  <1>3. Now + 1 \in Nat /\ begun < Now + 1 /\ k < Now + 1 BY <1>1
  <1> QED BY <1>1, <1>2, <1>3, OrdersHeard

LEMMA BooksAreFollowed == Inv => BooksFollow
  <1> SUFFICES ASSUME Inv, CaughtUp, NEW x \in DOMAIN books, subs[x] > 0
               PROVE  books[x] =
                        {o \in OrderId :
                           LET R == {i \in since[x] + 1 .. Now :
                                       /\ log[i].typ = "Order" /\ log[i].arg.id = o
                                       /\ x \in {log[i].j[1], log[i].j[2]}}
                           IN  R # {} /\ log[Max(R)].arg.active}
    BY DEF BooksFollow
  <1>0. LInv BY DEF CaughtUp, Inv
  <1> DEFINE R(o) == {i \in since[x] + 1 .. Now : /\ log[i].typ = "Order" /\ log[i].arg.id = o
                                                  /\ x \in {log[i].j[1], log[i].j[2]}}
  <1>1. /\ st = "started" /\ Now \in Nat /\ x \in Booked /\ since[x] \in 0 .. Now
        /\ books[x] \subseteq OrderId
    <2>1. Now \in Nat BY <1>0 DEF LInv, ILog, Now
    <2> QED BY <1>0, <2>1 DEF LInv, IType, CaughtUp
  <1>2. ASSUME NEW o \in OrderId PROVE o \in books[x] <=> R(o) # {} /\ log[Max(R(o))].arg.active
    <2>1. o \in books[x] <=> \E i \in Entered(x, o) :
            log[i].arg.active /\ \A k \in Entered(x, o) : k <= i
      BY <1>0, <1>1 DEF LInv, IBooks
    <2>2. \A k : k \in R(o) <=> k \in Entered(x, o)
      <3>1. ASSUME NEW k \in since[x] + 1 .. Now, log[k].typ = "Order" PROVE Passed(k)
        <4>1. k \in 1 .. Now BY <1>1
        <4> QED BY <1>0, <3>1, <4>1, AllHeard
      <3> QED BY <3>1 DEF Entered, Reports
    <2>3. R(o) \subseteq 0 .. Now BY <1>1
    <2> PICK T : T = R(o) OBVIOUS
    <2> HIDE DEF R
    <2>4. o \in books[x] <=> \E i \in T : log[i].arg.active /\ \A k \in T : k <= i BY <2>1, <2>2
    <2>5. ASSUME T # {} PROVE Max(T) \in T /\ \A k \in T : k <= Max(T)
      BY <1>1, <2>3, <2>5, MaxIs
    <2>6. ASSUME NEW i \in T, \A k \in T : k <= i PROVE i = Max(T)
      <3>1. Max(T) \in 0 .. Now /\ i \in 0 .. Now /\ i <= Max(T) /\ Max(T) <= i BY <2>3, <2>5, <2>6
      <3> QED BY <1>1, <3>1
    <2> QED BY <2>4, <2>5, <2>6
  <1>3. \A o : o \in books[x] <=> o \in {q \in OrderId : R(q) # {} /\ log[Max(R(q))].arg.active}
    <2> HIDE DEF R
    <2> QED BY <1>1, <1>2
  <1>4. books[x] = {q \in OrderId : R(q) # {} /\ log[Max(R(q))].arg.active}
    <2> PICK B : B = {q \in OrderId : R(q) # {} /\ log[Max(R(q))].arg.active} OBVIOUS
    <2> HIDE DEF R
    <2>1. books[x] \subseteq B /\ B \subseteq books[x] BY <1>3
    <2> QED BY <2>1
  <1> QED BY <1>4

LEMMA AllReached == Inv => Reached
  <1> SUFFICES ASSUME Inv, CaughtUp, asks = <<>>, NEW a \in live \cap App PROVE a \in writers
    BY DEF Reached
  <1>0. LInv BY DEF CaughtUp, Inv
  <1>1. st = "started" /\ Len(asks) = 0 /\ ILog /\ Now \in Nat BY <1>0 DEF CaughtUp, LInv, ILog, Now
  <1>2. /\ Public \in Journal /\ Cmd("ledger") \in Journal
        /\ cur[Public] # 0 /\ cur[Cmd("ledger")] # 0
        /\ cur[Public] \in 0 .. Now + 1 /\ cur[Cmd("ledger")] \in 0 .. Now + 1
    <2>1. Public \in Journal /\ Cmd("ledger") \in Journal BY JournalNames, Names
    <2>2. cur \in [Journal -> 0 .. Now + 1] BY <1>0 DEF LInv, IType
    <2> QED BY <1>0, <1>1, <2>1, <2>2 DEF LInv, ICur, Up
  <1>3. Reaches(a) BY <1>0, <1>1 DEF LInv, IReach
  <1>4. ASSUME NEW k \in 1 .. Now, k >= cur[Public], Registers(k, a) PROVE FALSE
    <2>1. log[k].j = Public BY <1>1, <1>4, ComesPublic DEF Comes
    <2> QED BY <1>0, <1>2, <1>4, <2>1, CaughtUpIs
  <1>5. ASSUME NEW k \in 1 .. Now, k >= cur[Cmd("ledger")], Grants(k, a) PROVE FALSE
    <2>1. log[k].j = Cmd("ledger") BY <1>1, <1>5 DEF ILog, Shape, Grants
    <2> QED BY <1>0, <1>2, <1>5, <2>1, CaughtUpIs
  <1>6. 1 .. Len(asks) = {} BY <1>1
  <1> QED BY <1>1, <1>3, <1>4, <1>5, <1>6 DEF Reaches

LEMMA WellTyped == Inv => TypeOK
  <1> SUFFICES ASSUME Inv PROVE TypeOK
    OBVIOUS
  <1>1. log \in Seq(Entry) /\ asks \in Seq(App) /\ live \subseteq Node /\ links \subseteq Node \X Node
    BY DEF Inv, ITyped, ILog
  <1>2. \A i \in 1 .. Now : log[i].j \in Journal /\ log[i].typ \in FrameType
    <2>1. \A i \in 1 .. Now : log[i] \in Entry BY <1>1 DEF Now
    <2> QED BY <2>1 DEF Entry
  <1>3. \A i \in 1 .. Len(asks) : asks[i] \in App BY <1>1
  <1> QED BY <1>1, <1>2, <1>3 DEF Inv, ITyped, IType, TypeOK

-----------------------------------------------------------------------------
(* However applications come, go, are connected and report while the       *)
(* ledger lags behind: a client that has asked for a refresh is told of    *)
(* every change, in whatever order frames are read; and a ledger that has  *)
(* read everything, and nothing before an older frame, holds of every      *)
(* broker the last state it reported since both were up                    *)
(* (update_broker_state, deregister_location, broker_state_refresh).       *)
THEOREM StatesKept == Spec => []StatesTold
  BY LedgerInvariance, StatesAreTold, PTL

(* When all is read, and nothing before an older frame, a book has the     *)
(* orders whose last report since it was subscribed was an active one, on  *)
(* whatever channel it came and however often the book was subscribed      *)
(* (add_book, on_channel, on_order).                                       *)
THEOREM BooksKept == Spec => []BooksFollow
  BY LedgerInvariance, BooksAreFollowed, PTL

(* The state of a ledger is always well-formed.  Only a frame read before  *)
(* an older one ends it once it has started; without one it can write to   *)
(* everybody who is up once its requests are answered (register_location,  *)
(* on_write_to, on_read_from).                                             *)
THEOREM LedgerPresent == Spec => []Present
  <1>1. Inv => NeverThrows
    <2>1. Inv => overtook \in Nat BY DEF Inv
    <2>2. Inv /\ overtook = 0 => st # "threw" BY DEF Inv, LInv, Survives
    <2> QED BY <2>1, <2>2 DEF NeverThrows
  <1>2. Inv => Present BY <1>1, AllReached, WellTyped DEF Present
  <1> QED BY <1>2, LedgerInvariance, PTL
=============================================================================
