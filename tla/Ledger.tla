------------------------------- MODULE Ledger --------------------------------
(***************************************************************************)
(* The ledger service (wingchun/src/service/ledger.cpp, service/ledger.py) *)
(* with its books (wingchun/src/book/book.cpp, book/book.py), beside the   *)
(* master, the brokers and the strategies whose journals it reads.         *)
(*                                                                         *)
(* All journals are one log here: the place of a frame in it is the time   *)
(* the frame was stamped, and every frame names its journal <<source,      *)
(* dest>>.  The ledger reads the oldest frame of the journals it has       *)
(* joined that sort has come to see, which need not be the oldest one: a   *)
(* process may stamp a frame and publish it after sort has looked at its   *)
(* journal.  To join a journal from some time is to set its cursor, so     *)
(* that one joined late brings frames older than the ones already read.    *)
(* The commands journal of an application is <<"master", application>>.    *)
(* A ledger reads nothing that was written before it announced itself: the *)
(* log begins there.                                                       *)
(*                                                                         *)
(* The table of orders of the ledger's database stays empty: on_order and  *)
(* on_transaction return before they would fill it, and so does            *)
(* on_book_event.  Hence no order is marked unknown when a trader comes,   *)
(* the orders a client may cancel are none, and a book starts empty.       *)
(***************************************************************************)
EXTENDS Integers, Sequences, FiniteSets, SequencesExt

CONSTANTS
    TD, MD, Strategy,   \* the applications, by the category of their location
    OrderId,            \* orders the traders report on
    Report,             \* states a broker reports: "Ready", ...
    None,               \* nothing heard of a broker
    MaxEvent,           \* bound: steps of applications in the life of a ledger,
                        \*   and frames it reads before an older one
    MaxLag,             \* bound: frames the ledger has not read, and requests
                        \*   of it the master has not, when an application acts
    MaxOvertake         \* bound: the latter alone

App    == TD \cup MD \cup Strategy
Broker == TD \cup MD
Booked == TD \cup Strategy
Node   == App \cup {"ledger"}
State  == Report \cup {"Connected", "DisConnected"}

ASSUME LedgerAssumption ==
    /\ TD \cap MD = {} /\ TD \cap Strategy = {} /\ MD \cap Strategy = {}
    /\ {"ledger", "master", "all"} \cap App = {} /\ None \notin State
    /\ IsFiniteSet(App)
    /\ {MaxEvent, MaxLag, MaxOvertake} \subseteq Nat

Public == <<"master", "all">>
Cmd(a) == <<"master", a>>
Journal == {Public} \cup {Cmd(a) : a \in Node} \cup (Node \X (Node \cup {"all"}))

VARIABLES
    \* the master and what has been written
    live,      \* its locations
    links,     \* its channels, <<source, dest>>
    log,       \* every frame since the ledger announced itself, oldest first
    asks,      \* RequestWriteTo frames of the ledger it has not read
    \* the ledger
    st,        \* "down", "waiting", "joined", "started"; "failed" on the way
               \*   to its start, "threw" after it
    begun,     \* the time of its RequestStart
    cur,       \* first frame not yet read of each journal, 0: not joined
    known,     \* hero::locations_
    channels,  \* hero::channels_
    writers,   \* hero::writers_
    states,    \* broker_states_
    books,     \* ctx.books: the active orders of a book, a partial function
    since,     \* history: the time a book was subscribed to its events
    subs,      \* how often the book in ctx.books is subscribed, two for more
    added,     \* the locations add_book has subscribed to Channel
    last,      \* the journal reader::current_ was left on
    overtook,  \* history: the frames it has handled before an older one
    \* a client
    informed,  \* does it listen, and has it asked for a refresh?
    seen       \* what it has last heard of a broker since

mvars == <<live, links, log, asks>>
rvars == <<cur, known, channels, writers>>
bvars == <<books, since, subs, added>>
cvars == <<seen, informed>>
wvars == <<last, overtook>>
lvars == <<begun, rvars, states, bvars, wvars>>
vars  == <<mvars, st, lvars, cvars>>

-----------------------------------------------------------------------------
(* The log. *)

Frame(j, t, x) == [j |-> j, typ |-> t, arg |-> x]
Now == Len(log)

(* Mutant of Join: the first frame after the time is skipped. *)
JoinAhead(c, J, time) == [j \in Journal |-> IF j \in J /\ c[j] = 0 THEN time + 2 ELSE c[j]]

(* reader::join: a journal that is joined stays where it is. *)
Join(c, J, time) == [j \in Journal |-> IF j \in J /\ c[j] = 0 THEN time + 1 ELSE c[j]]

(* reader::disjoin *)
Disjoin(c, a) == [j \in Journal |-> IF j[1] = a THEN 0 ELSE c[j]]

Unread == {i \in 1 .. Now : cur[log[i].j] # 0 /\ cur[log[i].j] <= i}

(* The frames that reader::sort chooses from. *)
Heads == {i \in Unread : \A k \in Unread : log[k].j = log[i].j => i <= k}

(* Is an older one still to be read? *)
Overtakes(i) == \E k \in Unread : k < i

(* sort starts from the present time and looks at one journal after the    *)
(* other.  What it takes was stamped before it began, so it has missed     *)
(* only frames that other processes had stamped and not yet published.     *)
(* When it finds nothing, data_available still accepts a frame written     *)
(* since to the journal where current_ was left, before any written to     *)
(* another one.                                                            *)
ComesFirst(i) ==
    \/ log[i].j = last
    \/ \A k \in Unread : k < i => log[k].j[1] # log[i].j[1]

(* The steps of applications, each by the last of its frames. *)
IsEvent(f) ==
    \/ f.typ \in {"Deregister", "BrokerState", "Order"}
    \/ f.typ = "Register" /\ f.arg # "ledger"
    \/ f.typ = "Channel" /\ f.j = Public /\ f.arg[1] \in Strategy

(* What is written while no ledger runs no ledger will read. *)
Write(frames) ==
    /\ st \notin {"failed", "threw"}
    /\ log' = IF st = "down" THEN <<>> ELSE log \o frames

(* A bound only: a step more, or a frame more read before an older one?    *)
OneMore == Len(SelectSeq(log, IsEvent)) + overtook < MaxEvent

(* An application takes a step that the ledger may read of. *)
Event(frames) ==
    /\ OneMore
    /\ Len(asks) + Cardinality(Unread) <= MaxLag
    /\ Write(frames)

-----------------------------------------------------------------------------
(* The master, the brokers and the strategies. *)

(* RequestWriteTo and RequestStart concern only the application in whose   *)
(* commands they are: those of others, which the ledger skips (on_write_to *)
(* returns, on_start is done once), are left out.                          *)
Own(a, t, x) == IF a = "ledger" THEN << Frame(Cmd(a), t, x) >> ELSE <<>>

(* What register_app writes: the frames of hero::locations_ come in the    *)
(* order of a hash table.                                                  *)
Welcome(a, locs) ==
    << Frame(Public, "Register", a) >> \o Own(a, "WriteTo", "master")
      \o [i \in 1 .. Len(locs) |-> Frame(Cmd(a), "Location", locs[i])]
      \o LET C == SetToSeq(links)
         IN  [i \in 1 .. Len(C) |-> Frame(Cmd(a), "Channel", C[i])]
      \o Own(a, "RequestStart", a)

(* An application announces itself and is registered. *)
AppUp(a) ==
    /\ a \notin live
    /\ live' = live \cup {a}
    /\ Event(Welcome(a, SetToSeq(live \cup {a})))
    /\ UNCHANGED <<links, asks, st, lvars, cvars>>

(* The ledger's own announcement, which the master has yet to read. *)
LedgerUp ==
    /\ st = "waiting" /\ "ledger" \notin live
    /\ live' = live \cup {"ledger"}
    /\ \E locs \in SetToSeqs(live) : Write(Welcome("ledger", Append(locs, "ledger")))
    /\ UNCHANGED <<links, asks, st, lvars, cvars>>

(* health_check finds the process dead. *)
Down(a) ==
    /\ a \in live
    /\ a = "ledger" => st = "down"
    /\ live' = live \ {a}
    /\ links' = {c \in links : c[1] # a}
    /\ Event(<< Frame(Public, "Deregister", a) >>)
    /\ UNCHANGED <<asks, st, lvars, cvars>>

(* One end gets RequestWriteTo, the other RequestReadFrom, all the Channel. *)
Connected(a, b) ==
    Own(a, "WriteTo", b)
      \o << Frame(Cmd(b), "ReadFrom", a), Frame(Public, "Channel", <<a, b>>) >>

(* A strategy adds an account: it requests to write and to read. *)
AddAccount(s, t) ==
    /\ {s, t} \subseteq live
    /\ links' = links \cup {<<s, t>>, <<t, s>>}
    /\ Event(Connected(s, t) \o Connected(t, s))
    /\ UNCHANGED <<live, asks, st, lvars, cvars>>

(* BookContext::add_book in a strategy connects to the ledger in the same  *)
(* way, and asks it for the assets of the account.                         *)
AskAsset(s, t) ==
    /\ {s, "ledger"} \subseteq live
    /\ links' = links \cup {<<s, "ledger">>, <<"ledger", s>>}
    /\ Event(Connected(s, "ledger") \o Connected("ledger", s)
               \o << Frame(<<s, "ledger">>, "QryAsset", t) >>)
    /\ UNCHANGED <<live, asks, st, lvars, cvars>>

(* Mutant of GrantWriter: the location asked for is not looked up. *)
GrantWriterBlind ==
    /\ asks # <<>> /\ "ledger" \in live
    /\ asks' = Tail(asks)
    /\ links' = links \cup {<<"ledger", Head(asks)>>}
    /\ Write(Connected("ledger", Head(asks)))
    /\ UNCHANGED <<live, st, lvars, cvars>>

(* The master reads a request of the ledger. *)
GrantWriter ==
    /\ asks # <<>> /\ "ledger" \in live
    /\ asks' = Tail(asks)
    /\ \/ /\ Head(asks) \in live
          /\ links' = links \cup {<<"ledger", Head(asks)>>}
          /\ Write(Connected("ledger", Head(asks)))
       \/ Head(asks) \notin live /\ UNCHANGED <<links, log>>
    /\ UNCHANGED <<live, st, lvars, cvars>>

(* A broker tells its state. *)
BrokerReports(b, s) ==
    /\ b \in live \cap Broker
    /\ Event(<< Frame(<<b, "all">>, "BrokerState", s) >>)
    /\ UNCHANGED <<live, links, asks, st, lvars, cvars>>

(* A trader reports on an order of a strategy. *)
TraderReports(t, s, o, active) ==
    /\ t \in live /\ <<t, s>> \in links
    /\ Event(<< Frame(<<t, s>>, "Order", [id |-> o, active |-> active]) >>)
    /\ UNCHANGED <<live, links, asks, st, lvars, cvars>>

-----------------------------------------------------------------------------
(* The ledger. *)

(* The constructor and react: the public journal is joined, then the       *)
(* master is told.                                                         *)
LedgerStart ==
    /\ st = "down" /\ "ledger" \notin live
    /\ st' = "waiting"
    /\ cur' = Join(cur, {Public}, 0)
    /\ UNCHANGED <<mvars, begun, known, channels, writers, states, bvars, wvars, cvars>>

LedgerDies ==
    /\ st # "down" /\ st' = "down"
    /\ log' = <<>> /\ asks' = <<>>
    /\ informed' = FALSE /\ seen' = [b \in Broker |-> None]
    /\ begun' = 0 /\ cur' = [j \in Journal |-> 0]
    /\ known' = {} /\ channels' = {} /\ writers' = {} /\ states' = <<>>
    /\ books' = <<>> /\ since' = [x \in Booked |-> 0]
    /\ subs' = [x \in Booked |-> 0] /\ added' = {}
    /\ last' = Public /\ overtook' = 0
    /\ UNCHANGED <<live, links>>

(* An exception that nobody catches ends the process. *)
Throws == st' = IF st = "started" THEN "threw" ELSE "failed"

(* A table with the value of x set. *)
Put(f, x, y) == [z \in DOMAIN f \cup {x} |-> IF z = x THEN y ELSE f[z]]

(* update_broker_state, publish_broker_state *)
UpdateBrokerState(b, s) ==
    /\ states' = Put(states, b, s)
    /\ seen' = IF informed THEN [seen EXCEPT ![b] = s] ELSE seen

(* Mutant of GetBook: a new book replaces the one there is. *)
GetBookFresh(x) == Put(books, x, {})

(* _get_book *)
GetBook(x) == IF x \in DOMAIN books THEN books ELSE Put(books, x, {})

(* add_book reads the channels that begin or end at a location. *)
BookChannels(x, C) ==
    {c \in C : c[1] = x \/ (c[2] = x /\ c[1] \in known)}

(* Ledger.on_app_location, BookContext::add_book: the book is subscribed   *)
(* to its events, once more at every registration of its location.         *)
AddBook(x, i) ==
    /\ books' = GetBook(x)
    /\ since' = [since EXCEPT ![x] = IF subs[x] = 0 THEN i ELSE @]
    /\ subs' = [subs EXCEPT ![x] = IF @ = 2 THEN 2 ELSE @ + 1]
    /\ added' = added \cup {x}

(* Ledger::watch: the commands and the public journal of an application. *)
Watch(a, c, time) == Join(c, {Cmd(a), <<a, "all">>}, time)

(* Mutant of Learn: no channel is asked for. *)
LearnUnasked(a, c, i, time) ==
    /\ known' = known \cup {a}
    /\ cur' = IF a \in Booked THEN Join(Watch(a, c, time), BookChannels(a, channels), i)
                               ELSE Watch(a, c, time)
    /\ IF a \in Broker THEN UpdateBrokerState(a, "Connected") ELSE UNCHANGED <<states, seen>>
    /\ IF a \in Booked THEN AddBook(a, i) ELSE UNCHANGED bvars
    /\ UNCHANGED <<asks, st, begun, channels, writers, informed>>

(* Ledger::register_location of an application not known yet. *)
Learn(a, c, i, time) ==
    /\ known' = known \cup {a}
    /\ asks' = Append(asks, a)
    /\ cur' = IF a \in Booked THEN Join(Watch(a, c, time), BookChannels(a, channels), i)
                               ELSE Watch(a, c, time)
    /\ IF a \in Broker THEN UpdateBrokerState(a, "Connected") ELSE UNCHANGED <<states, seen>>
    /\ IF a \in Booked THEN AddBook(a, i) ELSE UNCHANGED bvars
    /\ UNCHANGED <<st, begun, channels, writers, informed>>

(* Mutant of RegisterLocation: a location that is known is learnt again. *)
RegisterLocationAgain(a, c, i, time) ==
    \/ /\ a = "ledger"
       /\ known' = known \cup {a} /\ cur' = c
       /\ UNCHANGED <<asks, st, begun, channels, writers, states, bvars, cvars>>
    \/ /\ a # "ledger" /\ "master" \notin writers
       /\ Throws /\ cur' = c
       /\ UNCHANGED <<asks, begun, known, channels, writers, states, bvars, cvars>>
    \/ /\ a # "ledger" /\ "master" \in writers
       /\ Learn(a, c, i, time)

(* The ledger has no writer to the master before it is registered.         *)
RegisterLocation(a, c, i, time) ==
    \/ /\ a \in known \cup {"ledger"}
       /\ known' = known \cup {a} /\ cur' = c
       /\ UNCHANGED <<asks, st, begun, channels, writers, states, bvars, cvars>>
    \/ /\ a \notin known \cup {"ledger"} /\ "master" \notin writers
       /\ Throws /\ cur' = c
       /\ UNCHANGED <<asks, begun, known, channels, writers, states, bvars, cvars>>
    \/ /\ a \notin known \cup {"ledger"} /\ "master" \in writers
       /\ Learn(a, c, i, time)

(* The time an application announced itself, the trigger_time of its       *)
(* Location frames.                                                        *)
Announced(a, i) ==
    IF a = "ledger" THEN 0
    ELSE Max({k \in 1 .. i : log[k].typ = "Register" /\ log[k].arg = a})

OnLocation(f, c, i) == RegisterLocation(f.arg, c, i, Announced(f.j[2], i))

(* The first Register makes an application join its commands journal. *)
OnRegister(f, c, i) ==
    \/ /\ st = "waiting" /\ f.arg = "ledger"
       /\ st' = "joined" /\ known' = known \cup {"ledger"}
       /\ cur' = Join(c, {Cmd("ledger")}, i)
       /\ UNCHANGED <<asks, begun, channels, writers, states, bvars, cvars>>
    \/ /\ st # "waiting" \/ f.arg # "ledger"
       /\ RegisterLocation(f.arg, c, i, i)

(* Mutant of OnDeregister: the state is erased and nobody told. *)
OnDeregisterSilent(f, c, i) ==
    /\ cur' = Disjoin(c, f.arg)
    /\ channels' = {x \in channels : x[1] # f.arg}
    /\ known' = known \ {f.arg}
    /\ states' = [b \in DOMAIN states \ {f.arg} |-> states[b]]
    /\ UNCHANGED <<asks, st, begun, writers, bvars, cvars>>

(* reader::next after a disjoin: it has selected anew, an older frame that *)
(* has become visible if there is one.  That frame is passed over, without *)
(* ever being handled, and the Deregister is given out again.              *)
PassOver(k, a) == Disjoin([cur EXCEPT ![log[k].j] = k + 1], a)

(* apprentice::deregister_location_from_event, Ledger::deregister_location *)
OnDeregister(f, c, i) ==
    /\ \/ cur' = Disjoin(c, f.arg)
       \/ \E k \in Heads : k < i /\ log[k].j[1] # f.arg /\ cur' = PassOver(k, f.arg)
    /\ channels' = {x \in channels : x[1] # f.arg}
    /\ known' = known \ {f.arg}
    /\ states' = [b \in DOMAIN states \ {f.arg} |-> states[b]]
    /\ seen' = IF informed /\ f.arg \in known \cap Broker
                 THEN [seen EXCEPT ![f.arg] = "DisConnected"] ELSE seen
    /\ UNCHANGED <<asks, st, begun, writers, bvars, informed>>

(* register_channel, and the Channel handler of every book ever added. *)
OnChannel(f, c, i) ==
    /\ channels' = channels \cup {f.arg}
    /\ cur' = Join(c, UNION {BookChannels(x, {f.arg}) : x \in added}, i)
    /\ UNCHANGED <<asks, st, begun, known, writers, states, bvars, cvars>>

(* Ledger::on_write_to: only the ledger's own commands count; the message  *)
(* for a writer that exists names its location.                            *)
OnWriteTo(f, c) ==
    /\ cur' = c
    /\ \/ /\ f.j = Cmd("ledger")
          /\ writers' = writers \cup {f.arg}
          /\ IF f.arg \in writers \ (known \cup {"master"}) THEN Throws ELSE UNCHANGED st
       \/ f.j # Cmd("ledger") /\ UNCHANGED <<writers, st>>
    /\ UNCHANGED <<asks, begun, known, channels, states, bvars, cvars>>

(* Ledger::on_read_from: what the ledger is told to read it joins; of what *)
(* others are told, the reports of traders to strategies.                  *)
OnReadFrom(f, c, i) ==
    LET dest == f.j[2] IN
    /\ IF {f.arg, dest} \subseteq known THEN UNCHANGED st ELSE Throws
    /\ cur' = IF dest = "ledger" \/ (f.arg \in TD /\ dest \in Strategy)
                THEN Join(c, {<<f.arg, dest>>}, i) ELSE c
    /\ UNCHANGED <<asks, begun, known, channels, writers, states, bvars, cvars>>

(* on_start: what a broker said before it is not heard. *)
OnBrokerState(f, c) ==
    /\ cur' = c
    /\ \/ /\ st = "started" /\ f.j[1] \in known
          /\ UpdateBrokerState(f.j[1], f.arg) /\ UNCHANGED st
       \/ /\ st = "started" /\ f.j[1] \notin known
          /\ Throws /\ UNCHANGED <<states, seen>>
       \/ st # "started" /\ UNCHANGED <<st, states, seen>>
    /\ UNCHANGED <<asks, begun, known, channels, writers, bvars, informed>>

(* AccountBook.on_order of a book without assets. *)
BookOnOrder(orders, r) == IF r.active THEN orders \cup {r.id} ELSE orders \ {r.id}

(* Once for each subscription. *)
Applied(x, r) ==
    CASE subs[x] = 0 -> books[x]
      [] subs[x] = 1 -> BookOnOrder(books[x], r)
      [] subs[x] = 2 -> BookOnOrder(BookOnOrder(books[x], r), r)

(* The book of the trader by the source, the book of the strategy by the   *)
(* dest of the frame.                                                      *)
OnOrder(f, c) ==
    /\ cur' = c
    /\ books' = [x \in DOMAIN books |->
                   IF x = f.j[IF x \in TD THEN 1 ELSE 2]
                     THEN Applied(x, f.arg) ELSE books[x]]
    /\ UNCHANGED <<asks, st, begun, known, channels, writers, states, since, subs, added, cvars>>

(* handle_asset_request: a book is made for whatever is asked about; it    *)
(* has no assets to send, and without a writer nothing could be sent.      *)
OnQryAsset(f, c) ==
    /\ cur' = c
    /\ books' = IF st = "started" THEN GetBook(f.arg) ELSE books
    /\ UNCHANGED <<asks, st, begun, known, channels, writers, states, since, subs, added, cvars>>

OnRequestStart(f, c, i) ==
    /\ cur' = c
    /\ st' = IF st = "joined" THEN "started" ELSE st
    /\ begun' = IF st = "joined" THEN i ELSE begun
    /\ UNCHANGED <<asks, known, channels, writers, states, bvars, cvars>>

(* What the ledger does with frame i, c being the cursors behind it. *)
Handle(i, c) ==
    LET f == log[i] IN
    \/ f.typ = "Register" /\ OnRegister(f, c, i)
    \/ f.typ = "Location" /\ OnLocation(f, c, i)
    \/ f.typ = "Deregister" /\ OnDeregister(f, c, i)
    \/ f.typ = "Channel" /\ OnChannel(f, c, i)
    \/ f.typ = "WriteTo" /\ OnWriteTo(f, c)
    \/ f.typ = "ReadFrom" /\ OnReadFrom(f, c, i)
    \/ f.typ = "BrokerState" /\ OnBrokerState(f, c)
    \/ f.typ = "Order" /\ OnOrder(f, c)
    \/ f.typ = "QryAsset" /\ OnQryAsset(f, c)
    \/ f.typ = "RequestStart" /\ OnRequestStart(f, c, i)

(* One turn of the loop over the journals (hero::produce_one): next after  *)
(* the handler leaves current_ on the frame's journal, unless another has  *)
(* a frame, which sort then takes.                                         *)
Read ==
    /\ st \in {"waiting", "joined", "started"}
    /\ \E i \in Heads :
          /\ ComesFirst(i)
          /\ Handle(i, [cur EXCEPT ![log[i].j] = i + 1])
          /\ overtook' = IF Overtakes(i) THEN overtook + 1 ELSE overtook
          /\ overtook' <= MaxOvertake /\ (Overtakes(i) => OneMore)
          /\ last' = log[i].j
    /\ UNCHANGED <<live, links, log>>

-----------------------------------------------------------------------------
(* A client. *)

(* broker_state_refresh, publish_broker_states *)
Refresh ==
    /\ st = "started"
    /\ informed' = TRUE
    /\ seen' = [b \in Broker |-> IF b \in DOMAIN states \cap known THEN states[b] ELSE seen[b]]
    /\ UNCHANGED <<mvars, st, lvars>>

(* remove_strategy: the book is forgotten, but stays subscribed. *)
RemoveStrategy(s) ==
    /\ st = "started" /\ s \notin known
    /\ books' = [x \in DOMAIN books \ {s} |-> books[x]]
    /\ subs' = [subs EXCEPT ![s] = 0]
    /\ UNCHANGED <<mvars, st, begun, rvars, states, since, added, wvars, cvars>>

-----------------------------------------------------------------------------
(* The ledger is started when some applications run and are connected. *)
Init ==
    /\ live \in SUBSET App
    /\ \E P \in SUBSET ((live \cap TD) \X (live \cap Strategy)) :
          links = P \cup {<<p[2], p[1]>> : p \in P}
    /\ log = <<>> /\ asks = <<>> /\ st = "down"
    /\ begun = 0 /\ cur = [j \in Journal |-> 0]
    /\ known = {} /\ channels = {} /\ writers = {} /\ states = <<>>
    /\ books = <<>> /\ since = [x \in Booked |-> 0]
    /\ subs = [x \in Booked |-> 0] /\ added = {}
    /\ informed = FALSE /\ seen = [b \in Broker |-> None]
    /\ last = Public /\ overtook = 0

Next ==
    \/ \E a \in App : AppUp(a)
    \/ LedgerUp \/ GrantWriter \/ LedgerStart \/ LedgerDies \/ Read
    \/ \E a \in Node : Down(a)
    \/ \E b \in Broker, s \in Report : BrokerReports(b, s)
    \/ \E t \in TD, s \in Strategy, o \in OrderId, active \in BOOLEAN :
          TraderReports(t, s, o, active)
    \/ \E s \in Strategy, t \in TD : AddAccount(s, t) \/ AskAsset(s, t)
    \/ Refresh \/ \E s \in Strategy : RemoveStrategy(s)

Spec == Init /\ [][Next]_vars

-----------------------------------------------------------------------------
FrameType == {"Register", "Location", "Deregister", "Channel", "WriteTo", "ReadFrom",
              "BrokerState", "Order", "QryAsset", "RequestStart"}

(* The shape of the state: what is known of brokers and books is filed     *)
(* under brokers and books, and no cursor is beyond the log.               *)
TypeOK ==
    /\ live \subseteq Node /\ links \subseteq Node \X Node
    /\ \A i \in 1 .. Now : log[i].j \in Journal /\ log[i].typ \in FrameType
    /\ \A i \in 1 .. Len(asks) : asks[i] \in App
    /\ st \in {"down", "waiting", "joined", "started", "failed", "threw"}
    /\ begun \in 0 .. Now
    /\ \A j \in Journal : cur[j] \in 0 .. Now + 1
    /\ known \subseteq Node /\ channels \subseteq Node \X Node
    /\ writers \subseteq Node \cup {"master"}
    /\ DOMAIN states \subseteq Broker /\ \A b \in DOMAIN states : states[b] \in State
    /\ DOMAIN books \subseteq Booked /\ \A x \in DOMAIN books : books[x] \subseteq OrderId
    /\ since \in [Booked -> 0 .. Now] /\ subs \in [Booked -> 0 .. 2] /\ added \subseteq Booked
    /\ informed \in BOOLEAN /\ last \in Journal /\ overtook \in 0 .. MaxOvertake
    /\ seen \in [Broker -> State \cup {None}]

(* A ledger that has read everything, and nothing before what is older. *)
CaughtUp == st = "started" /\ Unread = {} /\ overtook = 0

(* Once started, the ledger does not die of what it reads, in whatever     *)
(* order applications come, go and are connected while it lags behind: all *)
(* locations it is told of are known when it looks them up.  It does so    *)
(* only if it was given a frame before an older one, as a RequestReadFrom  *)
(* of one process before the Register of its source by another.  (On the   *)
(* way to its start it may in either case: see the README.)                *)
NeverThrows == st = "threw" => overtook > 0

(* A ledger that has read everything holds, of every broker, the last      *)
(* state it reported since both were up, however often its registration    *)
(* is repeated in the journals of others.                                  *)
StateReported ==
    CaughtUp =>
      \A b \in Broker \cap known :
        LET R == {i \in 1 .. Now : log[i].typ = "Register" /\ log[i].arg = b}
            S == {i \in begun + 1 .. Now : /\ log[i].typ = "BrokerState" /\ log[i].j[1] = b
                                           /\ \A k \in R : k < i}
        IN  states[b] = IF S = {} THEN "Connected" ELSE log[Max(S)].arg

(* A client that listened and then asked for a refresh knows the state of  *)
(* every broker the ledger knows, and of no other one that it be up,       *)
(* whatever comes and goes.                                                *)
Informed ==
    informed =>
      \A b \in Broker : \/ b \in DOMAIN states /\ b \in known /\ seen[b] = states[b]
                        \/ b \notin DOMAIN states /\ seen[b] \in {None, "DisConnected"}

(* A book holds the orders whose last report since it was subscribed was   *)
(* an active one: no report on any channel is missed and none is taken     *)
(* back by being applied again, through restarts of traders and strategies *)
(* and however their channel became known.                                 *)
BooksFollow ==
    CaughtUp =>
      \A x \in DOMAIN books : subs[x] > 0 =>
        books[x] =
          {o \in OrderId :
             LET R == {i \in since[x] + 1 .. Now :
                         /\ log[i].typ = "Order" /\ log[i].arg.id = o
                         /\ x \in {log[i].j[1], log[i].j[2]}}
             IN  R # {} /\ log[Max(R)].arg.active}

(* Once the requests are answered and their answers read, the ledger can   *)
(* write to every application that is up: none is forgotten because it     *)
(* came, left or came back while the ledger lagged behind.                 *)
Reached == CaughtUp /\ asks = <<>> => live \cap App \subseteq writers

(* The states of brokers are those they reported, in the ledger and with   *)
(* its clients (update_broker_state, deregister_location, refresh).        *)
StatesTold == StateReported /\ Informed

(* The ledger survives what it reads and comes to reach everybody          *)
(* (register_location, on_write_to).                                       *)
Present == TypeOK /\ NeverThrows /\ Reached
=============================================================================
