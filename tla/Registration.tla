---------------------------- MODULE Registration -----------------------------
(***************************************************************************)
(* How processes find each other: the master (practice/master.cpp and      *)
(* master.py), its public journal, the commands journal it keeps for every *)
(* application, and the application processes (practice/apprentice.cpp).   *)
(*                                                                         *)
(* A journal is a sequence of frames in the order of their gen_time, which *)
(* is the number of the frame among all frames of the master.  A process   *)
(* announces itself over a socket; the master answers through journals.    *)
(***************************************************************************)
EXTENDS Integers, Sequences, FiniteSets

CONSTANTS
    App,           \* locations of applications
    NoApp,         \* the application of a process that was not started
    Request,       \* requests made: "write_to", "read_from", "read_public"
    Old,           \* those whose commands journal exists from an earlier session
    FastRestart,   \* may an application be restarted before health_check saw
                   \*   the death of the last process?
    EarlyDeath,    \* may a process die before the master has read its request?
    MaxPid,        \* bound: processes ever started
    MaxRequest     \* bound: requests ever written

ASSUME RegistrationAssumption ==
    /\ Old \subseteq App /\ NoApp \notin App /\ "master" \notin App
    /\ Request \subseteq {"write_to", "read_from", "read_public"}
    /\ FastRestart \in BOOLEAN /\ EarlyDeath \in BOOLEAN
    /\ MaxPid \in Nat /\ MaxRequest \in Nat

Pid == 1 .. MaxPid

VARIABLES
    \* the master
    inbox,      \* Register requests in the socket, in order of arrival
    locations,  \* hero::locations_, applications only
    files,      \* applications whose commands journal has its first page
    channels,   \* hero::channels_
    tracked,    \* ctx.apprentices: the pids that health_check looks at
    public,     \* the master's journal for everybody
    commands,   \* its journal for each application
    clock,      \* gen_time of the last frame
    \* what the applications have asked for
    requests,   \* frames of the application's journal the master has not read
    asked,      \* number of requests written
    \* the application processes
    app,        \* the application a process runs
    st,         \* "none", "waiting", "joined", "started", "stopped", "dead",
                \*   "fault", "threw"
    pub,        \* its cursor in the public journal
    cmd,        \* its cursor in the commands journal, 0: not joined
    stale,      \* the journal that reader::current_ is left on when there is
                \*   nothing to read: "public", "commands", "none"
    known,      \* its locations_
    links,      \* its channels_
    reads,      \* journals of applications it has joined: <<source, public?>>
    writes,     \* whom it has a writer for: applications, "master"
    fresh,      \* history: was its location free when it started?
    hasty       \* history: was it ever given a frame before an older one?

mvars == <<inbox, locations, files, channels, tracked, public, commands, clock>>
pvars == <<app, st, pub, cmd, stale, known, links, reads, writes, fresh, hasty>>
vars  == <<mvars, requests, asked, pvars>>

Alive(p)  == st[p] \in {"waiting", "joined", "started"}
Queued(p) == \E i \in 1 .. Len(inbox) : inbox[i] = p

(* A frame, numbered when it is written. *)
Frame(g, t, x) == [gen |-> g, typ |-> t, arg |-> x]

-----------------------------------------------------------------------------
(* Processes come and go. *)

(* Mutation of Start: the public journal is joined from its first frame. *)
StartFromFirst(p, a) ==
    /\ st[p] = "none" /\ \A q \in Pid : q < p => st[q] # "none"
    /\ \A q \in Pid : app[q] = a => ~Alive(q)
    /\ FastRestart \/ a \notin locations
    /\ app' = [app EXCEPT ![p] = a]
    /\ st' = [st EXCEPT ![p] = "waiting"]
    /\ pub' = [pub EXCEPT ![p] = 1]
    /\ fresh' = [fresh EXCEPT ![p] = a \notin locations]
    /\ inbox' = Append(inbox, p)
    /\ UNCHANGED <<locations, files, channels, tracked, public, commands, clock,
                   requests, asked, cmd, stale, known, links, reads, writes, hasty>>

(* The constructor joins the public journal from begin_time_ on; react ends *)
(* with checkin.                                                            *)
Start(p, a) ==
    /\ st[p] = "none" /\ \A q \in Pid : q < p => st[q] # "none"
    /\ \A q \in Pid : app[q] = a => ~Alive(q)
    /\ FastRestart \/ a \notin locations
    /\ app' = [app EXCEPT ![p] = a]
    /\ st' = [st EXCEPT ![p] = "waiting"]
    /\ pub' = [pub EXCEPT ![p] = Len(public) + 1]
    /\ fresh' = [fresh EXCEPT ![p] = a \notin locations]
    /\ inbox' = Append(inbox, p)
    /\ UNCHANGED <<locations, files, channels, tracked, public, commands, clock,
                   requests, asked, cmd, stale, known, links, reads, writes, hasty>>

Die(p) ==
    /\ Alive(p)
    /\ EarlyDeath \/ ~Queued(p)
    /\ st' = [st EXCEPT ![p] = "dead"]
    /\ UNCHANGED <<mvars, requests, asked, app, pub, cmd, stale, known, links,
                   reads, writes, fresh, hasty>>

(* No Register frame for ten seconds: "app register timeout". *)
Timeout(p) ==
    /\ st[p] = "waiting"
    /\ EarlyDeath \/ ~Queued(p)
    /\ st' = [st EXCEPT ![p] = "stopped"]
    /\ UNCHANGED <<mvars, requests, asked, app, pub, cmd, stale, known, links,
                   reads, writes, fresh, hasty>>

-----------------------------------------------------------------------------
(* The master. *)

(* Mutations of Welcome: the channels are not sent; nor the start. *)
WelcomeNoChannels(a, g) ==
    << Frame(g + 1, "WriteTo", {"master"}),
       Frame(g + 2, "Location", locations \cup {a}),
       Frame(g + 3, "Channel", {}),
       Frame(g + 4, "RequestStart", {}) >>

WelcomeNoStart(a, g) ==
    << Frame(g + 1, "WriteTo", {"master"}),
       Frame(g + 2, "Location", locations \cup {a}),
       Frame(g + 3, "Channel", channels) >>

(* What register_app writes to the new application: RequestWriteTo for the *)
(* public and the commands journal, every location, every channel,         *)
(* RequestStart.  The frames of one kind are one frame here.               *)
Welcome(a, g) ==
    << Frame(g + 1, "WriteTo", {"master"}),
       Frame(g + 2, "Location", locations \cup {a}),
       Frame(g + 3, "Channel", channels),
       Frame(g + 4, "RequestStart", {}) >>

(* Master.on_register: psutil knows living processes only. *)
Track(p) == IF Alive(p) THEN tracked \cup {p} ELSE tracked

(* master::register_app *)
RegisterApp ==
    LET p == Head(inbox)
        a == app[p]
    IN  /\ inbox # <<>>
        /\ a \notin locations
        /\ inbox' = Tail(inbox)
        /\ locations' = locations \cup {a}
        /\ files' = files \cup {a}
        /\ public' = Append(public, Frame(clock + 1, "Register", {a}))
        /\ commands' = [commands EXCEPT ![a] = @ \o Welcome(a, clock + 1)]
        /\ clock' = clock + 5
        /\ tracked' = Track(p)
        /\ UNCHANGED <<channels, requests, asked, pvars>>

(* register_app: "location {} has already been registered" *)
RefuseApp ==
    /\ inbox # <<>>
    /\ app[Head(inbox)] \in locations
    /\ inbox' = Tail(inbox)
    /\ UNCHANGED <<locations, files, channels, tracked, public, commands, clock,
                   requests, asked, pvars>>

(* hero::deregister_channel_by_source *)
ChannelsOf(C, a) == {c \in C : c.source = a}

(* Mutation of DeregisterApp: the requests of the dead process stay. *)
DeregisterAppKeepsReader(p) ==
    LET a == app[p] IN
    /\ p \in tracked /\ ~Alive(p)
    /\ tracked' = tracked \ {p}
    /\ locations' = locations \ {a}
    /\ channels' = channels \ ChannelsOf(channels, a)
    /\ commands' = [commands EXCEPT ![a] = Append(@, Frame(clock + 1, "SessionEnd", {}))]
    /\ public' = Append(public, Frame(clock + 2, "Deregister", {a}))
    /\ clock' = clock + 2
    /\ UNCHANGED <<inbox, files, requests, asked, pvars>>

(* Mutation of DeregisterApp: the location is not erased. *)
DeregisterAppKeepsLocation(p) ==
    LET a == app[p] IN
    /\ p \in tracked /\ ~Alive(p)
    /\ tracked' = tracked \ {p}
    /\ channels' = channels \ ChannelsOf(channels, a)
    /\ commands' = [commands EXCEPT ![a] = Append(@, Frame(clock + 1, "SessionEnd", {}))]
    /\ public' = Append(public, Frame(clock + 2, "Deregister", {a}))
    /\ clock' = clock + 2
    /\ requests' = [requests EXCEPT ![a] = <<>>]
    /\ UNCHANGED <<inbox, locations, files, asked, pvars>>

(* health_check, master::deregister_app: the reader leaves the journals of *)
(* the application, what was not read of them is not read any more.        *)
DeregisterApp(p) ==
    LET a == app[p] IN
    /\ p \in tracked /\ ~Alive(p)
    /\ tracked' = tracked \ {p}
    /\ locations' = locations \ {a}
    /\ channels' = channels \ ChannelsOf(channels, a)
    /\ commands' = [commands EXCEPT ![a] = Append(@, Frame(clock + 1, "SessionEnd", {}))]
    /\ public' = Append(public, Frame(clock + 2, "Deregister", {a}))
    /\ clock' = clock + 2
    /\ requests' = [requests EXCEPT ![a] = <<>>]
    /\ UNCHANGED <<inbox, files, asked, pvars>>

(* One end of a channel gets RequestWriteTo, the other RequestReadFrom,    *)
(* and everybody is told.                                                  *)
Connect(source, dest) ==
    LET told == [commands EXCEPT
                   ![source] = Append(@, Frame(clock + 1, "WriteTo", {dest}))] IN
    /\ commands' = [told EXCEPT ![dest] = Append(@, Frame(clock + 2, "ReadFrom", {source}))]
    /\ channels' = channels \cup {[source |-> source, dest |-> dest]}
    /\ public' = Append(public, Frame(clock + 3, "Channel", {[source |-> source, dest |-> dest]}))
    /\ clock' = clock + 3

(* Mutation of HandleRequest: has_location is not asked. *)
HandleRequestUnchecked(a) ==
    LET r == Head(requests[a]) IN
    /\ requests[a] # <<>>
    /\ requests' = [requests EXCEPT ![a] = Tail(@)]
    /\ \/ r.typ = "write_to" /\ Connect(a, r.peer)
       \/ r.typ = "read_from" /\ Connect(r.peer, a)
       \/ /\ r.typ = "read_public"
          /\ commands' = [commands EXCEPT ![a] =
                            Append(@, Frame(clock + 1, "ReadFromPublic", {r.peer}))]
          /\ clock' = clock + 1
          /\ UNCHANGED <<channels, public>>
    /\ UNCHANGED <<inbox, locations, files, tracked, asked, pvars>>

(* master::react: RequestWriteTo, RequestReadFrom, RequestReadFromPublic.   *)
(* A request that names an unknown location is logged and forgotten.        *)
HandleRequest(a) ==
    LET r == Head(requests[a]) IN
    /\ requests[a] # <<>>
    /\ requests' = [requests EXCEPT ![a] = Tail(@)]
    /\ \/ r.peer \notin locations /\ UNCHANGED <<channels, public, commands, clock>>
       \/ r.peer \in locations /\ r.typ = "write_to" /\ Connect(a, r.peer)
       \/ r.peer \in locations /\ r.typ = "read_from" /\ Connect(r.peer, a)
       \/ /\ r.peer \in locations /\ r.typ = "read_public"
          /\ commands' = [commands EXCEPT ![a] =
                            Append(@, Frame(clock + 1, "ReadFromPublic", {r.peer}))]
          /\ clock' = clock + 1
          /\ UNCHANGED <<channels, public>>
    /\ UNCHANGED <<inbox, locations, files, tracked, asked, pvars>>

-----------------------------------------------------------------------------
(* The applications read the public and the commands journal. *)

HasPublic(p)  == Alive(p) /\ pub[p] <= Len(public)
HasCommand(p) == Alive(p) /\ cmd[p] # 0 /\ cmd[p] <= Len(commands[app[p]])
PublicFrame(p)  == public[pub[p]]
CommandFrame(p) == commands[app[p]][cmd[p]]

(* Mutation of SeekCommands: the first frame after that time is skipped. *)
SeekCommandsPast(a, time) ==
    2 + Cardinality({i \in 1 .. Len(commands[a]) : commands[a][i].gen <= time})

(* The first frame after that time. *)
SeekCommands(a, time) ==
    1 + Cardinality({i \in 1 .. Len(commands[a]) : commands[a][i].gen <= time})

(* Register: the first one makes the process join its commands journal,    *)
(* whoever has been registered.  A lazy reader dies on a missing page.     *)
OnRegister(p, f) ==
    /\ known' = [known EXCEPT ![p] = @ \cup f.arg]
    /\ \/ st[p] # "waiting" /\ UNCHANGED <<st, cmd>>
       \/ /\ st[p] = "waiting"
          /\ st' = [st EXCEPT ![p] = IF app[p] \in files THEN "joined" ELSE "fault"]
          /\ cmd' = [cmd EXCEPT ![p] = SeekCommands(app[p], f.gen)]
    /\ UNCHANGED <<links, reads>>

(* Mutation of OnDeregister: the journals of the location stay joined. *)
OnDeregisterKeepsReading(p, f) ==
    /\ known' = [known EXCEPT ![p] = @ \ f.arg]
    /\ links' = [links EXCEPT ![p] = {c \in @ : c.source \notin f.arg}]
    /\ UNCHANGED <<st, cmd, reads>>

(* deregister_location_from_event *)
OnDeregister(p, f) ==
    /\ known' = [known EXCEPT ![p] = @ \ f.arg]
    /\ links' = [links EXCEPT ![p] = {c \in @ : c.source \notin f.arg}]
    /\ reads' = [reads EXCEPT ![p] = {r \in @ : r[1] \notin f.arg}]
    /\ UNCHANGED <<st, cmd>>

OnChannel(p, f) ==
    /\ links' = [links EXCEPT ![p] = @ \cup f.arg]
    /\ UNCHANGED <<known, reads>>

(* reader::sort takes the older frame.  Both journals are written by the   *)
(* master, and sort passes over frames that are newer than its begin, so   *)
(* it misses none that is older than the one it takes.  But if it finds    *)
(* nothing, current_ stays where it is, and data_available asks again for  *)
(* a frame there: one that was written since is given out, though an older *)
(* one may have been written to the other journal.                         *)
SkipsCommand(p, f) == HasCommand(p) /\ CommandFrame(p).gen <= f.gen
SkipsPublic(p, f)  == HasPublic(p) /\ PublicFrame(p).gen <= f.gen

(* Where current_ is left by reader::next. *)
Left(p, journal) ==
    stale' = [stale EXCEPT ![p] = IF (HasPublic(p) \/ HasCommand(p))' THEN "none" ELSE journal]

ReadPublic(p) ==
    LET f == PublicFrame(p) IN
    /\ HasPublic(p)
    /\ SkipsCommand(p, f) => stale[p] = "public" /\ f.typ # "Deregister"
    /\ \/ f.typ = "Register" /\ OnRegister(p, f)
       \/ f.typ = "Deregister" /\ OnDeregister(p, f)
       \/ f.typ = "Channel" /\ OnChannel(p, f) /\ UNCHANGED <<st, cmd>>
    /\ pub' = [pub EXCEPT ![p] = @ + 1]
    /\ hasty' = [hasty EXCEPT ![p] = @ \/ SkipsCommand(p, f)]
    /\ UNCHANGED <<mvars, requests, asked, app, writes, fresh>>
    /\ Left(p, "public")

(* reader::disjoin, called for a Deregister, selects anew: an older frame  *)
(* of the commands journal, and reader::next passes over that one, without *)
(* it ever being handled.  The Deregister is given out again.              *)
ReadDeregisterTwice(p) ==
    LET f == PublicFrame(p) IN
    /\ HasPublic(p) /\ f.typ = "Deregister"
    /\ SkipsCommand(p, f) /\ stale[p] = "public"
    /\ known' = [known EXCEPT ![p] = @ \ f.arg]
    /\ links' = [links EXCEPT ![p] = {c \in @ : c.source \notin f.arg}]
    /\ reads' = [reads EXCEPT ![p] = {r \in @ : r[1] \notin f.arg}]
    /\ cmd' = [cmd EXCEPT ![p] = @ + 1]
    /\ stale' = [stale EXCEPT ![p] = "none"]
    /\ hasty' = [hasty EXCEPT ![p] = TRUE]
    /\ UNCHANGED <<mvars, requests, asked, app, st, pub, writes, fresh>>

(* on_write_to: the message for a writer that exists names its location. *)
OnWriteTo(p, f) ==
    /\ writes' = [writes EXCEPT ![p] = @ \cup f.arg]
    /\ st' = IF (f.arg \cap writes[p]) \subseteq known[p]
               THEN st ELSE [st EXCEPT ![p] = "threw"]

(* on_read_from: get_location throws for an unknown one. *)
OnReadFrom(p, f) ==
    \/ /\ f.arg \subseteq known[p]
       /\ reads' = [reads EXCEPT ![p] = @ \cup (f.arg \X {f.typ = "ReadFromPublic"})]
       /\ UNCHANGED st
    \/ /\ ~(f.arg \subseteq known[p])
       /\ st' = [st EXCEPT ![p] = "threw"]
       /\ UNCHANGED reads

ReadCommand(p) ==
    LET f == CommandFrame(p) IN
    /\ HasCommand(p)
    /\ SkipsPublic(p, f) => stale[p] = "commands"
    /\ \/ f.typ = "WriteTo" /\ OnWriteTo(p, f) /\ UNCHANGED <<known, links, reads>>
       \/ /\ f.typ \in {"ReadFrom", "ReadFromPublic"}
          /\ OnReadFrom(p, f) /\ UNCHANGED <<known, links, writes>>
       \/ /\ f.typ = "Location"
          /\ known' = [known EXCEPT ![p] = @ \cup f.arg]
          /\ UNCHANGED <<st, links, reads, writes>>
       \/ f.typ = "Channel" /\ OnChannel(p, f) /\ UNCHANGED <<st, writes>>
       \/ /\ f.typ = "RequestStart"
          /\ st' = [st EXCEPT ![p] = "started"]
          /\ UNCHANGED <<known, links, reads, writes>>
       \/ f.typ = "SessionEnd" /\ UNCHANGED <<st, known, links, reads, writes>>
    /\ cmd' = [cmd EXCEPT ![p] = @ + 1]
    /\ hasty' = [hasty EXCEPT ![p] = @ \/ SkipsPublic(p, f)]
    /\ UNCHANGED <<mvars, requests, asked, app, pub, fresh>>
    /\ Left(p, "commands")

(* request_write_to, request_read_from: a frame for the master. *)
AppRequest(p, typ, peer) ==
    /\ Alive(p) /\ "master" \in writes[p] /\ asked < MaxRequest
    /\ peer \in known[p] \ {app[p]}
    /\ requests' = [requests EXCEPT ![app[p]] = Append(@, [typ |-> typ, peer |-> peer])]
    /\ asked' = asked + 1
    /\ UNCHANGED <<mvars, pvars>>

-----------------------------------------------------------------------------
Init ==
    /\ inbox = <<>> /\ locations = {} /\ files = Old /\ channels = {}
    /\ tracked = {} /\ public = <<>> /\ clock = 0
    /\ commands = [a \in App |-> <<>>]
    /\ requests = [a \in App |-> <<>>] /\ asked = 0
    /\ app = [p \in Pid |-> NoApp]
    /\ st = [p \in Pid |-> "none"]
    /\ pub = [p \in Pid |-> 1] /\ cmd = [p \in Pid |-> 0]
    /\ stale = [p \in Pid |-> "none"] /\ hasty = [p \in Pid |-> FALSE]
    /\ known = [p \in Pid |-> {}] /\ links = [p \in Pid |-> {}]
    /\ reads = [p \in Pid |-> {}] /\ writes = [p \in Pid |-> {}]
    /\ fresh = [p \in Pid |-> FALSE]

Master == RegisterApp \/ RefuseApp \/ \E a \in App : HandleRequest(a)
Listen(p) == ReadPublic(p) \/ ReadDeregisterTwice(p) \/ ReadCommand(p)

Next ==
    \/ Master
    \/ \E p \in Pid : DeregisterApp(p)
    \/ \E p \in Pid : Listen(p) \/ Die(p) \/ Timeout(p)
    \/ \E p \in Pid, a \in App : Start(p, a)
    \/ \E p \in Pid, peer \in App, t \in Request : AppRequest(p, t, peer)

Spec == Init /\ [][Next]_vars

(* The loops of the master and of a living process go on, health_check     *)
(* runs every second, and the register timeout has a thread of its own.    *)
Fairness ==
    /\ WF_vars(RegisterApp \/ RefuseApp)
    /\ \A a \in App : WF_vars(HandleRequest(a))
    /\ \A p \in Pid : WF_vars(DeregisterApp(p)) /\ WF_vars(Listen(p)) /\ WF_vars(Timeout(p))

FairSpec == Spec /\ Fairness

-----------------------------------------------------------------------------
Channel  == [source : App, dest : App]
FrameType == {"Register", "Deregister", "Channel", "WriteTo", "ReadFrom",
              "ReadFromPublic", "Location", "RequestStart", "SessionEnd"}
Status   == {"none", "waiting", "joined", "started", "stopped", "dead", "fault", "threw"}

FrameOK(f) ==
    /\ f.gen \in 1 .. clock /\ f.typ \in FrameType
    /\ f.arg \subseteq (IF f.typ = "Channel" THEN Channel ELSE App \cup {"master"})

(* The shape of the state; cursors stay in their journals. *)
TypeOK ==
    /\ \A i \in 1 .. Len(inbox) : inbox[i] \in Pid
    /\ locations \subseteq App /\ files \subseteq App /\ channels \subseteq Channel
    /\ tracked \subseteq Pid /\ clock \in Nat /\ asked \in 0 .. MaxRequest
    /\ \A i \in 1 .. Len(public) : FrameOK(public[i])
    /\ \A a \in App : \A i \in 1 .. Len(commands[a]) : FrameOK(commands[a][i])
    /\ \A a \in App : \A i \in 1 .. Len(requests[a]) :
         requests[a][i] \in [typ : Request, peer : App]
    /\ app \in [Pid -> App \cup {NoApp}] /\ st \in [Pid -> Status]
    /\ \A p \in Pid : pub[p] \in 1 .. Len(public) + 1
    /\ \A p \in Pid : cmd[p] # 0 => cmd[p] \in 1 .. Len(commands[app[p]]) + 1
    /\ stale \in [Pid -> {"none", "public", "commands"}]
    /\ known \in [Pid -> SUBSET App] /\ links \in [Pid -> SUBSET Channel]
    /\ reads \in [Pid -> SUBSET (App \X BOOLEAN)]
    /\ writes \in [Pid -> SUBSET (App \cup {"master"})]
    /\ fresh \in [Pid -> BOOLEAN] /\ hasty \in [Pid -> BOOLEAN]

(* A process of that application has died of what it read.  (If it does so *)
(* before the master has read its request, the master registers a process  *)
(* that psutil does not know.)                                             *)
Harmed(a) == \E p \in Pid : app[p] = a /\ st[p] \in {"fault", "threw"}

(* Every registered application has a process that health_check looks at:  *)
(* otherwise its location can never be registered again.                   *)
Tracked == \A a \in locations : (\E p \in tracked : app[p] = a) \/ Harmed(a)

(* A running application is the one the master has registered: its death   *)
(* will be noticed, its requests are read.                                 *)
Session ==
    \A p \in Pid : st[p] = "started" =>
       (p \in tracked /\ app[p] \in locations) \/ Harmed(app[p])

(* Every channel the master announces has a registered source, whatever    *)
(* requests a process had written before it died.                          *)
ChannelSources == \A c \in channels : c.source \in locations

CaughtUp(p) == st[p] = "started" /\ ~HasPublic(p) /\ ~HasCommand(p)

(* An application that has read everything agrees with the master on the   *)
(* locations and the channels, however its snapshot and the announcements  *)
(* of comings and goings were interleaved, unless data_available ever gave *)
(* it a frame before an older one.                                         *)
Agreement ==
    \A p \in Pid : CaughtUp(p) /\ ~hasty[p] =>
       known[p] = locations /\ links[p] = channels

(* The time of the last frame of that type about that application. *)
LastTime(journal, typ, a) ==
    LET G == {i \in 1 .. Len(journal) : journal[i].typ = typ /\ a \in journal[i].arg}
    IN  IF G = {} THEN 0 ELSE journal[CHOOSE i \in G : \A k \in G : k <= i].gen

(* An application that has read everything reads the journal of a source   *)
(* exactly if the master's last RequestReadFrom for it is newer than the   *)
(* source's last Deregister and than its own start.  A process that was    *)
(* started before its predecessor was deregistered may have taken over     *)
(* what the master wrote for that one, and one that was given a frame      *)
(* before an older one may have stopped reading after it was told to read. *)
Follows ==
    \A p \in Pid, a \in App : CaughtUp(p) /\ fresh[p] /\ ~hasty[p] =>
       (<<a, FALSE>> \in reads[p]
         <=> LET t == LastTime(commands[app[p]], "ReadFrom", a) IN
             /\ t > LastTime(public, "Deregister", a)
             /\ t > LastTime(public, "Register", app[p]))

(* A process dies of what the master wrote in two ways only.  get_location *)
(* throws for a location that it is told to read from or to write to only  *)
(* if data_available gave it a frame before an older one; with the frames  *)
(* in order every location is known by then.  And page::load dies on its   *)
(* commands journal only if the first Register it reads is not its own,    *)
(* and the application was never registered before.  (A process that was   *)
(* started before its predecessor was deregistered reads what was meant    *)
(* for that one, and may die of it.)                                       *)
NoCrash ==
    \A p \in Pid :
       /\ fresh[p] /\ st[p] = "threw" => hasty[p]
       /\ st[p] = "fault" => app[p] \notin Old \cup public[pub[p] - 1].arg

(* Registration ends: a process that waits for its start is started, or    *)
(* stops so that it can be started again.  (Unless data_available gave it  *)
(* a frame before an older one: reader::next may have passed over its      *)
(* RequestStart.)                                                          *)
Settles == \A p \in Pid : st[p] \in {"waiting", "joined"}
                           ~> st[p] \notin {"waiting", "joined"} \/ hasty[p]

(* The location of a dead process becomes free again. *)
Freed ==
    \A a \in App :
       (a \in locations /\ \A p \in Pid : app[p] = a => ~Alive(p))
          ~> (a \notin locations \/ \E p \in Pid : app[p] = a /\ Alive(p))

(* What the master keeps belongs to processes whose death it will notice:  *)
(* locations, sessions and channels (register_app, deregister_app).        *)
Sessions == TypeOK /\ Tracked /\ Session /\ ChannelSources
=============================================================================
