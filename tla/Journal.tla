------------------------------- MODULE Journal -------------------------------
(***************************************************************************)
(* One yijinjing journal: the pages of one (location, dest) pair, the      *)
(* single writer object that appends frames to them and the journals of    *)
(* the readers that follow it through shared memory.                       *)
(*                                                                         *)
(* The pages are memory-mapped files, so every store of the writer is      *)
(* visible to the readers at once and survives the death of the process.   *)
(* An action is one store (or one group of stores no reader and no crash   *)
(* can tell apart) of the C++ code, in program order.                      *)
(*                                                                         *)
(* Lengths are counted in units of sizeof(frame_header).  A page is an     *)
(* array of units; a unit holds either what its bytes mean when they are   *)
(* read as a frame header or a piece of somebody's payload.                *)
(***************************************************************************)
EXTENDS Integers, Sequences, FiniteSetsExt

CONSTANTS
    Thread,        \* threads of the writing process that share one writer
    NoThread,      \* writer_mtx_ is free
    Reader,        \* reader processes
    Lazy,          \* the readers that map pages read-only (apprentices);
                   \*   the others (the master) map them read-write
    PageSize,      \* units of a page
    PageHeader,    \* units of the page_header
    DataLen,       \* payload lengths that are written, in units
    FromTime,      \* the from_time a reader may join with, 0 means from start
    Tick,          \* by how much now_in_nano may advance between two readings
    StepBack,      \* by how much a restarted process's clock may be behind
    CrashAt,       \* the writer states in which the process may die
    SeekRace,      \* may a reader join while the newest page holds no frame?
    MaxFrame,      \* bound: frames ever published
    MaxPage,       \* bound: pages
    MaxCrash       \* bound: deaths of the writing process

ASSUME SizeAssumption ==
    /\ PageSize \in Nat /\ PageHeader \in Nat \ {0} /\ PageHeader < PageSize
    /\ DataLen \subseteq Nat
    /\ MaxFrame \in Nat /\ MaxPage \in Nat \ {0} /\ MaxCrash \in Nat
    /\ FromTime \subseteq Nat /\ Tick \subseteq Nat /\ StepBack \in Nat
    /\ Lazy \subseteq Reader /\ SeekRace \in BOOLEAN
    /\ NoThread \notin Thread

Hdr == 1

(* page::address_border: the last position a frame header may start at. *)
Border == PageSize - Hdr

(* Every payload that is written fits in an empty page. *)
ASSUME FitAssumption == \A d \in DataLen : PageHeader + Hdr + d < Border

Page == 1 .. MaxPage
Pos  == 0 .. PageSize

VARIABLES
    file,     \* pages whose file exists
    last,     \* page_header.last_frame_position, 0 in a page never initialised
    mem,      \* the units of every page
    clock,    \* the last value now_in_nano returned in the writing process
    wst,      \* writer object: "down", "full", "skip" (in its constructor),
              \*   "up", "fault"
    wseek,    \* the time the constructor seeks to
    wpage,    \* journal_->current_page_ of the writer
    wpos,     \* journal_->frame_ of the writer
    pc,       \* where each thread is in open_frame / close_frame
    holder,   \* owner of writer_mtx_
    dlen,     \* payload length of the frame being written
    crashes,  \* deaths so far
    torn,     \* history: did the last one leave a page without a header?
    log,      \* history: the published frames, in order
    rst,      \* journal of each reader: "out", "scan", "full", "skip", "read",
              \*   "fault"
    rfrom,    \* from_time it joined with
    rtodo,    \* page ids find_page_id has still to look at
    rpage,    \* its current_page_
    rpos,     \* its frame_
    seen      \* history: frame numbers handed to the application

wvars  == <<clock, wst, wseek, wpage, wpos, pc, holder, dlen, crashes, torn>>
disk   == <<file, last, mem>>
rvars  == <<rst, rfrom, rtodo, rpage, rpos, seen>>
vars   == <<file, last, mem, wvars, log, rvars>>

(* A zeroed header, and payload bytes of frame number v read as a header:  *)
(* the worst case, a plausible length and message type.                    *)
Zero     == [len |-> 0, typ |-> "none", gen |-> 0, val |-> 0]
Bytes(v) == [len |-> Hdr, typ |-> "Data", gen |-> 0, val |-> -v]

-----------------------------------------------------------------------------
(* Frames and pages as the code reads them. *)

HasData(p, a) == mem[p][a].len > 0 /\ mem[p][a].typ # "none"

Ready(p)     == last[p] # 0
BeginTime(p) == mem[p][PageHeader].gen
EndTime(p)   == mem[p][last[p]].gen
IsFull(p)    == last[p] + mem[p][last[p]].len > Border

(* Mutation of EndPos: the PageEnd frame goes to the end of the page, as    *)
(* write_with_time assumes.                                                 *)
EndPosAtBorder(p) == Border

(* Where close_page puts the PageEnd frame. *)
EndPos(p) == last[p] + mem[p][last[p]].len

(* Mutation of LoadRW: the page header is never initialised. *)
LoadRWNoHeader(p) ==
    /\ file' = file \cup {p}
    /\ last' = last

(* page::load by a process that may write: map, create and initialise. *)
LoadRW(p) ==
    /\ file' = file \cup {p}
    /\ last' = IF Ready(p) THEN last ELSE [last EXCEPT ![p] = PageHeader]

(* The unit at (p, a) is overwritten. *)
Store(p, a, h) == mem' = [mem EXCEPT ![p][a] = h]

(* The next frame number; the frame is in the log once it is published. *)
NextFrame == Len(log) + 1

-----------------------------------------------------------------------------
(* The writer. *)

(* Mutation of TryLock: the spin loop ends without the lock. *)
TryLockNoWait(t, d) ==
    /\ wst = "up" /\ pc[t] = "idle"
    /\ Len(log) < MaxFrame
    /\ holder' = t
    /\ pc' = [pc EXCEPT ![t] = "fit"]
    /\ dlen' = [dlen EXCEPT ![t] = d]
    /\ UNCHANGED <<disk, clock, wst, wseek, wpage, wpos, crashes, torn, log, rvars>>

(* Mutation of TryLock: the frame length is taken for the data length. *)
TryLockFrameLength(t, d) ==
    /\ wst = "up" /\ pc[t] = "idle" /\ holder = NoThread
    /\ Len(log) < MaxFrame
    /\ holder' = t
    /\ pc' = [pc EXCEPT ![t] = "fit"]
    /\ dlen' = [dlen EXCEPT ![t] = Hdr + d]
    /\ UNCHANGED <<disk, clock, wst, wseek, wpage, wpos, crashes, torn, log, rvars>>

(* writer_mtx_.try_lock succeeds.  A thread whose spin lasts 1 ms throws    *)
(* before it has touched anything: a stuttering step.                       *)
TryLock(t, d) ==
    /\ wst = "up" /\ pc[t] = "idle" /\ holder = NoThread
    /\ Len(log) < MaxFrame
    /\ Hdr + d + Hdr <= PageSize
    /\ holder' = t
    /\ pc' = [pc EXCEPT ![t] = "fit"]
    /\ dlen' = [dlen EXCEPT ![t] = d]
    /\ UNCHANGED <<disk, clock, wst, wseek, wpage, wpos, crashes, torn, log, rvars>>

(* Mutation of Fits: off by one at the border. *)
FitsToBorder(d) == wpos + Hdr + d <= Border

Fits(d) == wpos + Hdr + d < Border

(* close_page, load_next_page: the file of the next page is mapped, and     *)
(* created full of zeros if it did not exist.                               *)
RollCreate(t) ==
    /\ pc[t] = "fit" /\ ~Fits(dlen[t])
    /\ wpage < MaxPage
    /\ file' = file \cup {wpage + 1}
    /\ pc' = [pc EXCEPT ![t] = "created"]
    /\ UNCHANGED <<last, mem, clock, wst, wseek, wpage, wpos, holder, dlen,
                   crashes, torn, log, rvars>>

(* close_page, load_next_page: page::load initialises the page header and   *)
(* the writer's journal now stands on the first frame of the new page.      *)
RollInit(t) ==
    /\ pc[t] = "created"
    /\ LoadRW(wpage + 1)
    /\ wpage' = wpage + 1 /\ wpos' = PageHeader
    /\ pc' = [pc EXCEPT ![t] = "ready"]
    /\ UNCHANGED <<mem, clock, wst, wseek, holder, dlen, crashes, torn, log, rvars>>

(* close_page: the PageEnd header after the last frame of the old page, all *)
(* but its length.                                                          *)
RollMark(t) ==
    LET old == wpage - 1 IN
    /\ pc[t] = "ready"
    /\ \E now \in {clock + k : k \in Tick} :
         /\ clock' = now
         /\ Store(old, EndPos(old), [len |-> mem[old][EndPos(old)].len,
                      typ |-> "PageEnd", gen |-> now, val |-> NextFrame])
    /\ pc' = [pc EXCEPT ![t] = "marked"]
    /\ UNCHANGED <<file, last, wst, wseek, wpage, wpos, holder, dlen, crashes, torn,
                   log, rvars>>

(* close_page: set_data_length(0) publishes the PageEnd frame. *)
RollEnd(t) ==
    LET old == wpage - 1 IN
    /\ pc[t] = "marked"
    /\ Store(old, EndPos(old), [mem[old][EndPos(old)] EXCEPT !.len = Hdr])
    /\ log' = Append(log, [page |-> old, pos |-> EndPos(old), len |-> Hdr,
                           gen |-> mem[old][EndPos(old)].gen, typ |-> "PageEnd"])
    /\ pc' = [pc EXCEPT ![t] = "ended"]
    /\ UNCHANGED <<file, last, clock, wst, wseek, wpage, wpos, holder, dlen,
                   crashes, torn, rvars>>

(* close_page: last_frame_position of the old page. *)
RollLast(t) ==
    LET old == wpage - 1 IN
    /\ pc[t] = "ended"
    /\ last' = [last EXCEPT ![old] = EndPos(old)]
    /\ pc' = [pc EXCEPT ![t] = "slot"]
    /\ UNCHANGED <<file, mem, clock, wst, wseek, wpage, wpos, holder, dlen,
                   crashes, torn, log, rvars>>

(* open_frame: the header without length and gen_time; then the caller      *)
(* copies the payload behind it.                                            *)
OpenFrame(t) ==
    /\ pc[t] \in {"fit", "slot"}
    /\ pc[t] = "fit" => Fits(dlen[t])
    /\ mem' = [mem EXCEPT ![wpage] =
                 [a \in Pos |->
                    CASE a = wpos -> [len |-> mem[wpage][a].len, typ |-> "Data",
                                      gen |-> mem[wpage][a].gen, val |-> NextFrame]
                      [] a \in wpos + Hdr .. wpos + dlen[t] -> Bytes(NextFrame)
                      [] OTHER -> mem[wpage][a]]]
    /\ pc' = [pc EXCEPT ![t] = "open"]
    /\ UNCHANGED <<file, last, clock, wst, wseek, wpage, wpos, holder, dlen,
                   crashes, torn, log, rvars>>

NextPos(t) == wpos + Hdr + dlen[t]

(* Mutation of ZeroNext: the memset is missing. *)
ZeroNextMissing(t) ==
    /\ pc[t] = "open"
    /\ pc' = [pc EXCEPT ![t] = "zeroed"]
    /\ UNCHANGED <<disk, clock, wst, wseek, wpage, wpos, holder, dlen, crashes, torn, log,
                   rvars>>

(* close_frame: the header behind the frame is zeroed. *)
ZeroNext(t) ==
    /\ pc[t] = "open"
    /\ Store(wpage, NextPos(t), Zero)
    /\ pc' = [pc EXCEPT ![t] = "zeroed"]
    /\ UNCHANGED <<file, last, clock, wst, wseek, wpage, wpos, holder, dlen,
                   crashes, torn, log, rvars>>

(* close_frame: set_gen_time(now_in_nano()). *)
Stamp(t) ==
    /\ pc[t] = "zeroed"
    /\ \E now \in {clock + k : k \in Tick} :
         /\ clock' = now
         /\ Store(wpage, wpos, [mem[wpage][wpos] EXCEPT !.gen = now])
    /\ pc' = [pc EXCEPT ![t] = "stamped"]
    /\ UNCHANGED <<file, last, wst, wseek, wpage, wpos, holder, dlen, crashes, torn,
                   log, rvars>>

(* close_frame: set_data_length publishes the frame. *)
Publish(t) ==
    /\ pc[t] = "stamped"
    /\ Store(wpage, wpos, [mem[wpage][wpos] EXCEPT !.len = Hdr + dlen[t]])
    /\ log' = Append(log, [page |-> wpage, pos |-> wpos, len |-> Hdr + dlen[t],
                           gen |-> mem[wpage][wpos].gen, typ |-> "Data"])
    /\ pc' = [pc EXCEPT ![t] = "published"]
    /\ UNCHANGED <<file, last, clock, wst, wseek, wpage, wpos, holder, dlen,
                   crashes, torn, rvars>>

(* Mutation of CloseFrame: last_frame_position is not kept. *)
CloseFrameNoLast(t) ==
    /\ pc[t] = "published"
    /\ wpos' = wpos + mem[wpage][wpos].len
    /\ holder' = NoThread
    /\ pc' = [pc EXCEPT ![t] = "idle"]
    /\ UNCHANGED <<disk, clock, wst, wseek, wpage, dlen, crashes, torn, log, rvars>>

(* close_frame: last_frame_position, journal_->next(), unlock. *)
CloseFrame(t) ==
    /\ pc[t] = "published"
    /\ last' = [last EXCEPT ![wpage] = wpos]
    /\ wpos' = wpos + mem[wpage][wpos].len
    /\ holder' = NoThread
    /\ pc' = [pc EXCEPT ![t] = "idle"]
    /\ UNCHANGED <<file, mem, clock, wst, wseek, wpage, dlen, crashes, torn, log, rvars>>

-----------------------------------------------------------------------------
(* Death and restart of the writing process. *)

(* The process dies: its stores stay in the mapped files. *)
Crash ==
    /\ wst = "up" /\ crashes < MaxCrash
    /\ IF holder = NoThread THEN "idle" \in CrashAt ELSE pc[holder] \in CrashAt
    /\ wst' = "down"
    /\ holder' = NoThread
    /\ pc' = [t \in Thread |-> "idle"]
    /\ crashes' = crashes + 1
    /\ torn' = (holder # NoThread /\ pc[holder] = "created")
    /\ UNCHANGED <<disk, clock, wseek, wpage, wpos, dlen, log, rvars>>

(* A process that died in its constructor is started again like any other. *)
TryAgain ==
    /\ wst = "fault" /\ crashes < MaxCrash
    /\ wst' = "down"
    /\ crashes' = crashes + 1
    /\ UNCHANGED <<disk, clock, wseek, wpage, wpos, pc, holder, dlen, torn, log, rvars>>

(* page::find_page_id for a nonzero time: the page ids are looked at from   *)
(* the highest down to the first one that begins before the time.           *)
Earlier(ids, t) == {p \in ids : BeginTime(p) < t}
FindPage(ids, t) ==
    IF Earlier(ids, t) = {} THEN Min(ids) ELSE Max(Earlier(ids, t))

(* writer::writer: seek_to_time(now).  find_page_id maps every page it      *)
(* looks at read-only, and page::load stores into a header it finds         *)
(* uninitialised: a fault.                                                  *)
Restart ==
    /\ wst = "down"
    /\ \E b \in 0 .. StepBack, k \in Tick :
         LET now == clock - b + k IN
         /\ now > 0
         /\ clock' = now /\ wseek' = now
         /\ IF \E p \in file : ~Ready(p) /\ \A q \in file : q > p => BeginTime(q) >= now
              THEN wst' = "fault" /\ UNCHANGED <<wpage, wpos>>
              ELSE /\ wst' = "full"
                   /\ wpage' = FindPage(file, now)
                   /\ wpos' = PageHeader
    /\ UNCHANGED <<disk, pc, holder, dlen, crashes, torn, log, rvars>>

(* seek_to_time: skip whole pages. *)
SeekFull ==
    /\ wst = "full"
    /\ IF IsFull(wpage) /\ EndTime(wpage) <= wseek
         THEN /\ wpage < MaxPage
              /\ LoadRW(wpage + 1)
              /\ wpage' = wpage + 1 /\ wpos' = PageHeader
              /\ UNCHANGED wst
         ELSE wst' = "skip" /\ UNCHANGED <<file, last, wpage, wpos>>
    /\ UNCHANGED <<mem, clock, wseek, pc, holder, dlen, crashes, torn, log, rvars>>

(* seek_to_time: skip frames, journal::next. *)
SeekSkip ==
    /\ wst = "skip"
    /\ IF HasData(wpage, wpos) /\ mem[wpage][wpos].gen <= wseek
         THEN /\ UNCHANGED wst
              /\ IF mem[wpage][wpos].typ = "PageEnd"
                   THEN /\ wpage < MaxPage
                        /\ LoadRW(wpage + 1)
                        /\ wpage' = wpage + 1 /\ wpos' = PageHeader
                   ELSE /\ wpos' = wpos + mem[wpage][wpos].len
                        /\ UNCHANGED <<file, last, wpage>>
         ELSE wst' = "up" /\ UNCHANGED <<file, last, wpage, wpos>>
    /\ UNCHANGED <<mem, clock, wseek, pc, holder, dlen, crashes, torn, log, rvars>>

-----------------------------------------------------------------------------
(* The readers. *)

(* page::load of page p by reader r: a lazy reader faults on a page that is *)
(* missing or not initialised, the master creates and initialises it.       *)
ReaderLoad(r, p, state) ==
    IF r \in Lazy /\ ~Ready(p)
      THEN /\ rst' = [rst EXCEPT ![r] = "fault"]
           /\ file' = file \cup {p}
           /\ UNCHANGED <<last, rpage, rpos>>
      ELSE /\ rst' = [rst EXCEPT ![r] = state]
           /\ LoadRW(p)
           /\ rpage' = [rpage EXCEPT ![r] = p]
           /\ rpos' = [rpos EXCEPT ![r] = PageHeader]

(* The newest page holds no frame yet. *)
Turning == Cardinality(file) > 1 /\ BeginTime(Max(file)) = 0

(* reader::join, journal::seek_to_time, page::find_page_id: the directory   *)
(* is listed; time 0 takes its first page.                                  *)
Join(r, from) ==
    /\ rst[r] = "out"
    /\ SeekRace \/ ~Turning
    /\ rfrom' = [rfrom EXCEPT ![r] = from]
    /\ IF from = 0
         THEN ReaderLoad(r, Min(file), "full") /\ UNCHANGED rtodo
         ELSE /\ rst' = [rst EXCEPT ![r] = "scan"]
              /\ rtodo' = [rtodo EXCEPT ![r] = file]
              /\ UNCHANGED <<file, last, rpage, rpos>>
    /\ UNCHANGED <<mem, wvars, log, seen>>

(* Mutation of Scan: the newest page is taken whatever its begin_time. *)
ScanNewest(r) ==
    /\ rst[r] = "scan"
    /\ ReaderLoad(r, Max(rtodo[r]), "full")
    /\ rtodo' = [rtodo EXCEPT ![r] = {}]
    /\ UNCHANGED <<mem, wvars, log, rfrom, seen>>

(* find_page_id looks at one page, through a read-only mapping whoever the  *)
(* reader is.                                                               *)
Scan(r) ==
    LET p == Max(rtodo[r]) IN
    /\ rst[r] = "scan"
    /\ IF ~Ready(p)
         THEN /\ rst' = [rst EXCEPT ![r] = "fault"]
              /\ UNCHANGED <<file, last, rtodo, rpage, rpos>>
         ELSE IF BeginTime(p) < rfrom[r] \/ rtodo[r] = {p}
           THEN /\ ReaderLoad(r, p, "full")
                /\ rtodo' = [rtodo EXCEPT ![r] = {}]
           ELSE /\ rtodo' = [rtodo EXCEPT ![r] = @ \ {p}]
                /\ UNCHANGED <<file, last, rst, rpage, rpos>>
    /\ UNCHANGED <<mem, wvars, log, rfrom, seen>>

ReaderFull(r) ==
    /\ rst[r] = "full"
    /\ IF IsFull(rpage[r]) /\ EndTime(rpage[r]) <= rfrom[r]
         THEN ReaderLoad(r, rpage[r] + 1, "full")
         ELSE /\ rst' = [rst EXCEPT ![r] = "skip"]
              /\ UNCHANGED <<file, last, rpage, rpos>>
    /\ UNCHANGED <<mem, wvars, log, rfrom, rtodo, seen>>

(* Mutation of JournalNext: the page is turned when the next frame cannot   *)
(* fit, without waiting for PageEnd.                                        *)
JournalNextEager(r, state) ==
    LET f == mem[rpage[r]][rpos[r]] IN
    IF f.typ = "PageEnd" \/ rpos[r] + f.len + Hdr >= Border
      THEN ReaderLoad(r, rpage[r] + 1, state)
      ELSE /\ rpos' = [rpos EXCEPT ![r] = @ + f.len]
           /\ UNCHANGED <<file, last, rst, rpage>>

(* Mutation of JournalNext: PageEnd is stepped over like any frame. *)
JournalNextNoTurn(r, state) ==
    /\ rpos' = [rpos EXCEPT ![r] = @ + mem[rpage[r]][rpos[r]].len]
    /\ UNCHANGED <<file, last, rst, rpage>>

(* journal::next from state `state`. *)
JournalNext(r, state) ==
    LET f == mem[rpage[r]][rpos[r]] IN
    IF f.typ = "PageEnd"
      THEN ReaderLoad(r, rpage[r] + 1, state)
      ELSE /\ rpos' = [rpos EXCEPT ![r] = @ + f.len]
           /\ UNCHANGED <<file, last, rst, rpage>>

(* Mutation of ReaderSkip: every frame there is is skipped. *)
ReaderSkipAll(r) ==
    /\ rst[r] = "skip"
    /\ IF HasData(rpage[r], rpos[r])
         THEN JournalNext(r, "skip")
         ELSE /\ rst' = [rst EXCEPT ![r] = "read"]
              /\ UNCHANGED <<file, last, rpage, rpos>>
    /\ UNCHANGED <<mem, wvars, log, rfrom, rtodo, seen>>

(* Mutation of ReaderSkip: a frame of exactly from_time is not skipped. *)
ReaderSkipOlder(r) ==
    /\ rst[r] = "skip"
    /\ IF HasData(rpage[r], rpos[r]) /\ mem[rpage[r]][rpos[r]].gen < rfrom[r]
         THEN JournalNext(r, "skip")
         ELSE /\ rst' = [rst EXCEPT ![r] = "read"]
              /\ UNCHANGED <<file, last, rpage, rpos>>
    /\ UNCHANGED <<mem, wvars, log, rfrom, rtodo, seen>>

ReaderSkip(r) ==
    /\ rst[r] = "skip"
    /\ IF HasData(rpage[r], rpos[r]) /\ mem[rpage[r]][rpos[r]].gen <= rfrom[r]
         THEN JournalNext(r, "skip")
         ELSE /\ rst' = [rst EXCEPT ![r] = "read"]
              /\ UNCHANGED <<file, last, rpage, rpos>>
    /\ UNCHANGED <<mem, wvars, log, rfrom, rtodo, seen>>

(* hero::produce_one: the frame goes to the application, then reader::next. *)
Read(r) ==
    /\ rst[r] = "read"
    /\ HasData(rpage[r], rpos[r])
    /\ seen' = [seen EXCEPT ![r] = Append(@, mem[rpage[r]][rpos[r]].val)]
    /\ JournalNext(r, "read")
    /\ UNCHANGED <<mem, wvars, log, rfrom, rtodo>>

-----------------------------------------------------------------------------
(* The master has joined the journal before it asks anybody to write to it  *)
(* or to read from it (master::react), so the first page is there.          *)
Init ==
    /\ file = {1}
    /\ last = [p \in Page |-> IF p = 1 THEN PageHeader ELSE 0]
    /\ mem = [p \in Page |-> [a \in Pos |-> Zero]]
    /\ clock = 1
    /\ wst = "down" /\ wseek = 0 /\ wpage = 1 /\ wpos = PageHeader
    /\ pc = [t \in Thread |-> "idle"]
    /\ holder = NoThread
    /\ dlen = [t \in Thread |-> 0]
    /\ crashes = 0 /\ torn = FALSE
    /\ log = <<>>
    /\ rst = [r \in Reader |-> "out"]
    /\ rfrom = [r \in Reader |-> 0]
    /\ rtodo = [r \in Reader |-> {}]
    /\ rpage = [r \in Reader |-> 1]
    /\ rpos = [r \in Reader |-> PageHeader]
    /\ seen = [r \in Reader |-> <<>>]

Step(t) ==
    \/ RollCreate(t) \/ RollInit(t) \/ RollMark(t) \/ RollEnd(t) \/ RollLast(t)
    \/ OpenFrame(t) \/ ZeroNext(t) \/ Stamp(t) \/ Publish(t) \/ CloseFrame(t)

Boot == Restart \/ SeekFull \/ SeekSkip

Follow(r) == Scan(r) \/ ReaderFull(r) \/ ReaderSkip(r) \/ Read(r)

Next ==
    \/ \E t \in Thread : (\E d \in DataLen : TryLock(t, d)) \/ Step(t)
    \/ Crash \/ TryAgain
    \/ Boot
    \/ \E r \in Reader : (\E f \in FromTime : Join(r, f)) \/ Follow(r)

Spec == Init /\ [][Next]_vars

(* A frame that was begun is finished, a stopped service is started again  *)
(* and the event loop of every reader polls its journals for ever.         *)
Fairness ==
    /\ \A t \in Thread : WF_vars(Step(t))
    /\ WF_vars(Boot)
    /\ \A r \in Reader : WF_vars(Follow(r))

FairSpec == Spec /\ Fairness

-----------------------------------------------------------------------------
Header == [len : Nat, typ : {"none", "Data", "PageEnd"}, gen : Nat, val : Int]
Memory == [Page -> [Pos -> Header]]
Entry  == [page : Page, pos : Pos, len : Nat, gen : Nat,
           typ : {"Data", "PageEnd"}]

(* The shape of the state: files, mapped memory, the writer and readers of  *)
(* journal.h.                                                               *)
TypeOK ==
    /\ file \in SUBSET Page
    /\ last \in [Page -> Pos]
    /\ mem \in Memory
    /\ clock \in Nat /\ wseek \in Nat
    /\ wst \in {"down", "full", "skip", "up", "fault"}
    /\ wpage \in Page /\ wpos \in Pos
    /\ pc \in [Thread -> {"idle", "fit", "created", "ready", "marked", "ended",
                          "slot", "open", "zeroed", "stamped", "published"}]
    /\ holder \in Thread \cup {NoThread}
    /\ dlen \in [Thread -> DataLen \cup {0}]
    /\ crashes \in 0 .. MaxCrash /\ torn \in BOOLEAN
    /\ log \in Seq(Entry)
    /\ rst \in [Reader -> {"out", "scan", "full", "skip", "read", "fault"}]
    /\ rfrom \in [Reader -> FromTime \cup {0}]
    /\ rtodo \in [Reader -> SUBSET Page]
    /\ rpage \in [Reader -> Page]
    /\ rpos \in [Reader -> Pos]
    /\ seen \in [Reader -> Seq(Int)]

(* writer_mtx_ protects the writer: a thread between open_frame and        *)
(* close_frame owns the lock, so frames of two threads never interleave.   *)
Exclusive == \A t \in Thread : pc[t] # "idle" => holder = t

(* A published frame is never touched again: its header and its payload    *)
(* stay what they were when set_data_length made the frame visible.        *)
Intact(i) ==
    LET e == log[i] IN
    /\ mem[e.page][e.pos] = [len |-> e.len, typ |-> e.typ, gen |-> e.gen, val |-> i]
    /\ \A a \in e.pos + Hdr .. e.pos + e.len - Hdr : mem[e.page][a] = Bytes(i)
FramesIntact == \A i \in 1 .. Len(log) : Intact(i)

(* From every published frame journal::next leads to the next one: over    *)
(* the end of the frame, or to the first frame of the next page after a    *)
(* PageEnd.  Otherwise a reader waits for ever on an address that the      *)
(* writer has left.                                                        *)
Linked(e, f) ==
    IF e.typ = "PageEnd" THEN f.page = e.page + 1 /\ f.pos = PageHeader
                         ELSE f.page = e.page /\ f.pos = e.pos + e.len
ChainUnbroken == \A i \in 1 .. Len(log) - 1 : Linked(log[i], log[i + 1])

(* Who follows a PageEnd finds the next page initialised: close_page loads *)
(* it before it publishes the PageEnd frame.  A lazy reader would die.     *)
NextPageReady ==
    \A p \in Page, a \in Pos :
       HasData(p, a) /\ mem[p][a].typ = "PageEnd" =>
          p + 1 \in Page /\ Ready(p + 1)

(* No reader process dies in page::load. *)
NoReaderFault == \A r \in Reader : rst[r] # "fault"

(* The writer's constructor dies on the pages it finds after one death     *)
(* only, that of close_page between the creation of the next page and its  *)
(* header, and after that one no start succeeds any more: whatever later   *)
(* pages, readers and deaths there are, nobody gives the page its header.  *)
WriterRestarts == IF torn THEN wst \in {"down", "fault"} ELSE wst # "fault"

(* What the application is given are published frames, one after the       *)
(* other, without gap, repetition or reordering, and never payload bytes   *)
(* taken for a header.                                                     *)
InOrder ==
    \A r \in Reader :
       /\ \A k \in 1 .. Len(seen[r]) : seen[r][k] \in 1 .. Len(log)
       /\ \A k \in 1 .. Len(seen[r]) - 1 : seen[r][k + 1] = seen[r][k] + 1

(* reader::join: "subscribe events after this time, 0 means from start":   *)
(* the first frame handed over is the first one after from_time, so every  *)
(* frame behind the reader's position is either handed over or not newer.  *)
Behind(e, r) == e.page < rpage[r] \/ (e.page = rpage[r] /\ e.pos < rpos[r])
JoinMissesNothing ==
    \A r \in Reader : rst[r] = "read" =>
       \A i \in 1 .. Len(log) :
          Behind(log[i], r) /\ log[i].gen > rfrom[r] =>
             \E k \in 1 .. Len(seen[r]) : seen[r][k] = i

(* close_frame asserts that the header behind the frame fits in the page.  *)
FrameFits ==
    \A t \in Thread : pc[t] \in {"open", "zeroed", "stamped", "published"} =>
       NextPos(t) < Border

(* A reader that reads the journal is eventually given every frame that is *)
(* published.                                                              *)
CatchesUp ==
    \A r \in Reader : \A i \in 1 .. MaxFrame :
       (rst[r] = "read" /\ rfrom[r] = 0 /\ Len(log) >= i)
          ~> (\E k \in 1 .. Len(seen[r]) : seen[r][k] = i)

(* The journal implements the append-only event log: events are the        *)
(* published frames, a reader's cursor is the frame at its address.        *)
Cursor(r) == IF rst[r] \in {"out", "scan", "full", "skip"} THEN 0
             ELSE Cardinality({i \in 1 .. Len(log) : Behind(log[i], r)}) + 1

Abstract == INSTANCE EventLog WITH
                Subscriber <- Reader, From <- FromTime,
                events <- [i \in 1 .. Len(log) |-> log[i].gen],
                from <- rfrom, at <- [r \in Reader |-> Cursor(r)], got <- seen
ImplementsEventLog == Abstract!Spec
=============================================================================
