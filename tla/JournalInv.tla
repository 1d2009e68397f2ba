----------------------------- MODULE JournalInv ------------------------------
(***************************************************************************)
(* The inductive invariant behind the safety properties of Journal.  It    *)
(* says where the writer and every reader stand relative to the sequence   *)
(* of published frames, and which memory is still free.                    *)
(***************************************************************************)
EXTENDS Journal

(* The writing process does not die between the header of the next page    *)
(* and the PageEnd of the old one, nor between the publication of a frame  *)
(* and last_frame_position: no frame is lost.  Its clock never steps back. *)
SafeCrashes ==
    /\ CrashAt \subseteq {"idle", "fit", "created", "ended", "slot", "open", "zeroed",
                         "stamped"}
    /\ StepBack = 0

Last == log[Len(log)]

(* The address of the next frame to be published. *)
TailPage == IF Len(log) = 0 THEN 1
            ELSE IF Last.typ = "PageEnd" THEN Last.page + 1 ELSE Last.page
TailPos  == IF Len(log) = 0 THEN PageHeader
            ELSE IF Last.typ = "PageEnd" THEN PageHeader ELSE Last.pos + Last.len

(* (p, a) is the address of frame i, or of the one to come. *)
At(i, p, a) ==
    \/ i \in 1 .. Len(log) /\ p = log[i].page /\ a = log[i].pos
    \/ i = Len(log) + 1 /\ p = TailPage /\ a = TailPos
OnFrame(p, a) == \E i \in 1 .. Len(log) + 1 : At(i, p, a)

Busy(S) == holder # NoThread /\ pc[holder] \in S

ILock ==
    /\ \A t \in Thread : pc[t] # "idle" => holder = t
    /\ holder # NoThread => wst = "up" /\ pc[holder] # "idle" /\ dlen[holder] \in DataLen

IEntry ==
    /\ TailPage \in Page
    /\ \A i \in 1 .. Len(log) :
         /\ log[i].page \in Page /\ log[i].pos >= PageHeader /\ log[i].len >= Hdr
         /\ log[i].typ = "Data" => log[i].pos + log[i].len < Border
         /\ log[i].typ = "PageEnd" => /\ log[i].len = Hdr
                                      /\ log[i].pos < Border
                                      /\ log[i].page < TailPage
         /\ log[i].gen \in 1 .. clock
         /\ \/ log[i].page < TailPage
            \/ log[i].page = TailPage /\ log[i].pos + log[i].len <= TailPos

IChain ==
    /\ Len(log) > 0 => log[1].page = 1 /\ log[1].pos = PageHeader
    /\ ChainUnbroken

(* Nothing is published at the tail or on a later page. *)
IFree ==
    /\ mem[TailPage][TailPos].len = 0
    /\ \A p \in Page, a \in Pos : p > TailPage => mem[p][a] = Zero

IPages ==
    \A p \in Page :
       /\ p <= TailPage => /\ p \in file
                           /\ OnFrame(p, PageHeader)
                           /\ OnFrame(p, last[p])
       /\ p > TailPage /\ ~(p = TailPage + 1 /\ Busy({"ready", "marked"})) => ~Ready(p)
       /\ p > TailPage /\ ~(p = TailPage + 1 /\ (torn \/ Busy({"created", "ready", "marked"})))
             => p \notin file

(* The page without a header is the newest one, and no writer comes up.    *)
ITorn ==
    /\ torn => TailPage + 1 \in file /\ wst \in {"down", "fault"}
    /\ wst = "fault" => torn

(* last_frame_position is exact on the page the writer may have to close.  *)
ILast ==
    Len(log) > 0 /\ Last.typ = "Data" /\ ~Busy({"published"})
       => last[Last.page] = Last.pos

IWriter ==
    wst = "up" =>
      /\ ~Busy({"ready", "marked", "published"}) => wpage = TailPage /\ wpos = TailPos
      /\ Busy({"created"}) => wpos > PageHeader /\ wpage < MaxPage /\ wpage + 1 \in file
      /\ Busy({"ready", "marked"}) =>
           /\ Len(log) > 0 /\ Last.typ = "Data" /\ wpage = TailPage + 1
           /\ wpos = PageHeader /\ last[wpage] = PageHeader /\ wpage \in file
      /\ Busy({"marked"}) =>
           /\ mem[TailPage][TailPos].typ = "PageEnd"
           /\ mem[TailPage][TailPos].val = Len(log) + 1
           /\ mem[TailPage][TailPos].gen \in 1 .. clock
      /\ Busy({"ended"}) =>
           /\ Len(log) > 0 /\ Last.typ = "PageEnd" /\ wpage = Last.page + 1
           /\ EndPos(Last.page) = Last.pos
      /\ Busy({"slot", "open", "zeroed", "stamped", "published"}) => NextPos(holder) < Border
      /\ Busy({"open", "zeroed", "stamped"}) =>
           /\ mem[wpage][wpos].typ = "Data" /\ mem[wpage][wpos].val = Len(log) + 1
           /\ \A a \in wpos + Hdr .. wpos + dlen[holder] : mem[wpage][a] = Bytes(Len(log) + 1)
      /\ Busy({"zeroed", "stamped"}) => mem[wpage][NextPos(holder)] = Zero
      /\ Busy({"stamped"}) => mem[wpage][wpos].gen \in 1 .. clock
      /\ Busy({"published"}) =>
           /\ Len(log) > 0 /\ Last.typ = "Data" /\ Last.page = wpage
           /\ Last.pos = wpos /\ Last.len = Hdr + dlen[holder]

(* A starting writer walks along the frames and its target is past them. *)
IBoot == wst \in {"full", "skip"} => OnFrame(wpage, wpos) /\ wseek = clock

(* A reader stands on a frame, or it has found the page the writer is just *)
(* turning to and waits on it before the old page is closed.               *)
Ahead(p, a) == Busy({"ready", "marked"}) /\ p = TailPage + 1 /\ a = PageHeader

IReader ==
    \A r \in Reader :
       /\ rst[r] \in {"full", "skip"} =>
            OnFrame(rpage[r], rpos[r]) \/ Ahead(rpage[r], rpos[r])
       /\ rst[r] \in {"out", "scan", "full", "skip"} => seen[r] = <<>>
       /\ rst[r] = "read" =>
            \/ Ahead(rpage[r], rpos[r]) /\ seen[r] = <<>>
            \/ \E i \in 1 .. Len(log) + 1 :
                  /\ At(i, rpage[r], rpos[r])
                  /\ Len(seen[r]) > 0 => seen[r][Len(seen[r])] = i - 1
       /\ rtodo[r] \subseteq file
       /\ rst[r] = "scan" => rtodo[r] # {}

IInv ==
    /\ TypeOK /\ clock >= 1
    /\ ILock /\ IEntry /\ IChain /\ FramesIntact /\ IFree
    /\ IPages /\ ILast /\ IWriter /\ IBoot /\ IReader /\ InOrder /\ NextPageReady
    /\ ITorn

-----------------------------------------------------------------------------
(* What a reader needs to be given every event after from_time, and to      *)
(* survive its search for the first one.                                    *)

(* Nobody seeks into a page that holds no frame: readers that want all      *)
(* frames start on the first page, the others join between two page turns.  *)
CalmJoins == SeekRace => FromTime \subseteq {0}

(* Frames are ordered by time and by address. *)
IOrder ==
    \A i, j \in 1 .. Len(log) : i < j =>
       /\ log[i].gen <= log[j].gen
       /\ \/ log[i].page < log[j].page
          \/ log[i].page = log[j].page /\ log[i].pos < log[j].pos

(* The frame to come, once it has its time, is not older than the others. *)
IStamp ==
    \/ mem[TailPage][TailPos].gen = 0
    \/ \A i \in 1 .. Len(log) : log[i].gen <= mem[TailPage][TailPos].gen

ICreated == Busy({"created"}) => TailPage + 1 \in file

(* The pages a search has still to look at begin after every older page;   *)
(* what a seeking reader has left behind it is not newer than from_time.   *)
Seeks(r) ==
    /\ rst[r] # "fault"
    /\ rst[r] = "scan" =>
         /\ 1 \in rtodo[r]
         /\ \A p \in rtodo[r] :
              /\ p <= TailPage
              /\ \A i \in 1 .. Len(log) : log[i].page < p => log[i].gen <= BeginTime(p)
    /\ rst[r] \in {"full", "skip", "read"} => OnFrame(rpage[r], rpos[r])
    /\ rst[r] \in {"full", "skip"} =>
         \A i \in 1 .. Len(log) : Behind(log[i], r) => log[i].gen <= rfrom[r]

IFollow == IOrder /\ IStamp /\ ICreated /\ \A r \in Reader : Seeks(r)
=============================================================================
