---------------------------- MODULE JournalProofs ----------------------------
(***************************************************************************)
(* Proofs about Journal for every number of threads and readers, every     *)
(* page size, payload length and bound.                                    *)
(***************************************************************************)
EXTENDS JournalInv, TLAPS, WellFoundedInduction, FiniteSetTheorems

USE DEF Hdr

-----------------------------------------------------------------------------
(* Constants and the tail of the log. *)

(* Sizes are naturals and the first frame of a page starts inside it. *)
LEMMA Sizes ==
    /\ PageSize \in Nat /\ PageHeader \in Nat /\ PageHeader >= 1
    /\ PageHeader <= Border /\ Border \in Nat /\ Border = PageSize - 1
    /\ PageHeader \in Pos /\ 0 \in Pos /\ 1 \in Page /\ Page \subseteq Nat /\ Pos \subseteq Nat
  BY SizeAssumption DEF Border, Pos, Page

(* The next frame goes to an address inside a page. *)
LEMMA TailType ==
    ASSUME TypeOK, IEntry
    PROVE  /\ TailPage \in Page /\ TailPos \in Pos
           /\ TailPos >= PageHeader /\ TailPos <= Border
           /\ Len(log) \in Nat
           /\ Len(log) > 0 => Last \in Entry
  <1>1. Len(log) \in Nat BY DEF TypeOK
  <1>2. CASE Len(log) = 0
    BY <1>1, <1>2, Sizes DEF IEntry, TailPos
  <1>3. CASE Len(log) > 0
    <2>1. Len(log) \in 1 .. Len(log) BY <1>1, <1>3
    <2>2. Last \in Entry BY <2>1 DEF Last, TypeOK
    <2>3. /\ Last.page \in Page /\ Last.pos >= PageHeader /\ Last.len >= Hdr
          /\ Last.typ = "Data" => Last.pos + Last.len < Border
          /\ TailPage \in Page
      BY <2>1 DEF IEntry, Last
    <2>4. Last.pos \in Nat /\ Last.len \in Nat /\ Last.typ \in {"Data", "PageEnd"}
      BY <2>2, Sizes DEF Entry
    <2> QED BY <1>1, <1>3, <2>2, <2>3, <2>4, Sizes DEF TailPos, Pos, Border
  <1> QED BY <1>1, <1>2, <1>3

(* What a store does to the memory. *)
LEMMA StoreMem ==
    ASSUME mem \in Memory, NEW p \in Page, NEW a \in Pos, NEW h \in Header, Store(p, a, h)
    PROVE  /\ mem' \in Memory
           /\ mem'[p][a] = h
           /\ \A q \in Page, b \in Pos : (q # p \/ b # a) => mem'[q][b] = mem[q][b]
  BY DEF Memory, Store

(* What an update of one field does to a header. *)
LEMMA SetGen ==
    ASSUME NEW h \in Header, NEW n \in Nat
    PROVE  /\ [h EXCEPT !.gen = n] \in Header
           /\ [h EXCEPT !.gen = n].len = h.len
           /\ [h EXCEPT !.gen = n].typ = h.typ
           /\ [h EXCEPT !.gen = n].val = h.val
           /\ [h EXCEPT !.gen = n].gen = n
  BY DEF Header

LEMMA SetLen ==
    ASSUME NEW h \in Header, NEW n \in Nat
    PROVE  /\ [h EXCEPT !.len = n] \in Header
           /\ [h EXCEPT !.len = n] = [len |-> n, typ |-> h.typ, gen |-> h.gen, val |-> h.val]
  BY DEF Header

(* What the type invariant says of one log entry. *)
LEMMA EntryType ==
    ASSUME TypeOK, NEW i \in 1 .. Len(log)
    PROVE  /\ log[i] \in Entry
           /\ log[i].page \in Page /\ log[i].pos \in Pos
           /\ log[i].page \in Nat /\ log[i].pos \in Nat /\ log[i].len \in Nat
           /\ log[i].gen \in Nat /\ log[i].typ \in {"Data", "PageEnd"}
  <1>1. log[i] \in Entry BY DEF TypeOK
  <1> QED BY <1>1, Sizes DEF Entry

(* The memory in front of the tail is what it was. *)
OldKept ==
    \A q \in Page, b \in Pos :
       (q < TailPage \/ (q = TailPage /\ b < TailPos)) => mem'[q][b] = mem[q][b]

(* A step that leaves the memory in front of the tail alone keeps every    *)
(* published frame.                                                        *)
LEMMA IntactKept ==
    ASSUME TypeOK, IEntry, OldKept, NEW i \in 1 .. Len(log), Intact(i), log'[i] = log[i]
    PROVE  Intact(i)'
  <1> DEFINE e == log[i]
  <1>1. /\ e.page \in Page /\ e.page \in Nat /\ e.pos \in Pos /\ e.pos \in Nat /\ e.len \in Nat
        /\ e.typ \in {"Data", "PageEnd"}
        /\ TailPage \in Nat /\ TailPos \in Nat /\ TailPos <= Border
    BY EntryType, TailType, Sizes
  <1>2. /\ e.len >= 1
        /\ e.page < TailPage \/ (e.page = TailPage /\ e.pos + e.len <= TailPos)
        /\ e.pos + e.len <= PageSize
    <2>1. /\ e.len >= Hdr
          /\ e.typ = "Data" => e.pos + e.len < Border
          /\ e.typ = "PageEnd" => e.len = Hdr /\ e.pos < Border
          /\ e.page < TailPage \/ (e.page = TailPage /\ e.pos + e.len <= TailPos)
      BY DEF IEntry
    <2> HIDE DEF e
    <2> QED BY <2>1, <1>1, Sizes
  <1>3. mem'[e.page][e.pos] = mem[e.page][e.pos]
    BY <1>1, <1>2 DEF OldKept
  <1>4. ASSUME NEW b \in e.pos + Hdr .. e.pos + e.len - Hdr
        PROVE  mem'[e.page][b] = mem[e.page][b]
    <2> HIDE DEF e
    <2>0. b \in Int /\ e.pos + 1 <= b /\ b <= e.pos + e.len - 1 BY <1>1
    <2>1. 0 <= b /\ b <= PageSize /\ b < e.pos + e.len BY <2>0, <1>1, <1>2, Sizes
    <2>2. b \in Pos BY <2>0, <2>1 DEF Pos
    <2>3. e.page < TailPage \/ (e.page = TailPage /\ b < TailPos) BY <2>0, <2>1, <1>1, <1>2
    <2> QED BY <2>2, <2>3, <1>1 DEF OldKept
  <1> QED BY <1>3, <1>4 DEF Intact

(* The walk along the frames: frame i carries its number and its length,   *)
(* and journal::next from it leads to frame i + 1.                         *)
LEMMA WalkStep ==
    ASSUME TypeOK, IEntry, IChain, FramesIntact,
           NEW i \in 1 .. Len(log), NEW p, NEW a, At(i, p, a)
    PROVE  /\ p \in Page /\ a \in Pos /\ p <= TailPage /\ a >= PageHeader
           /\ mem[p][a] = [len |-> log[i].len, typ |-> log[i].typ, gen |-> log[i].gen, val |-> i]
           /\ mem[p][a].len >= 1 /\ mem[p][a].gen <= clock /\ HasData(p, a)
           /\ mem[p][a].typ = "PageEnd" =>
                p + 1 \in Page /\ p + 1 <= TailPage /\ At(i + 1, p + 1, PageHeader)
           /\ mem[p][a].typ # "PageEnd" => At(i + 1, p, a + mem[p][a].len)
           /\ a + mem[p][a].len > Border => mem[p][a].typ = "PageEnd"
           /\ i + 1 \in 1 .. Len(log) + 1
  <1>1. /\ log[i].page \in Page /\ log[i].pos \in Pos /\ log[i].page \in Nat
        /\ log[i].pos \in Nat /\ log[i].len \in Nat /\ log[i].gen \in Nat
        /\ log[i].typ \in {"Data", "PageEnd"}
    BY EntryType
  <1>2. Len(log) \in Nat /\ TailPage \in Page /\ TailPage \in Nat /\ clock \in Nat
    BY TailType, Sizes DEF TypeOK
  <1>3. p = log[i].page /\ a = log[i].pos
    BY <1>2 DEF At
  <1>4. mem[p][a] = [len |-> log[i].len, typ |-> log[i].typ, gen |-> log[i].gen, val |-> i]
    BY <1>3 DEF FramesIntact, Intact
  <1>5. /\ log[i].pos >= PageHeader /\ log[i].len >= 1
        /\ log[i].typ = "Data" => log[i].pos + log[i].len < Border
        /\ log[i].typ = "PageEnd" => log[i].page < TailPage
        /\ log[i].gen <= clock
        /\ log[i].page <= TailPage
    BY <1>1, <1>2 DEF IEntry
  <1>6. log[i].page < TailPage => log[i].page + 1 \in Page
    BY SMTT(30), <1>1, <1>2, SizeAssumption DEF Page
  <1>7. /\ log[i].typ = "PageEnd" => At(i + 1, p + 1, PageHeader)
        /\ log[i].typ # "PageEnd" => At(i + 1, p, a + log[i].len)
    <2>1. CASE i < Len(log)
      <3>1. Linked(log[i], log[i + 1]) /\ i + 1 \in 1 .. Len(log)
        BY <1>2, <2>1 DEF IChain, ChainUnbroken
      <3> QED BY <3>1, <1>3 DEF Linked, At
    <2>2. CASE i = Len(log)
      BY <2>2, <1>2, <1>3 DEF At, TailPage, TailPos, Last
    <2> QED BY <2>1, <2>2, <1>2
  <1>8. /\ mem[p][a].len = log[i].len /\ mem[p][a].gen = log[i].gen /\ mem[p][a].typ = log[i].typ
        /\ HasData(p, a)
    BY <1>1, <1>4, <1>5 DEF HasData
  <1>9. p \in Page /\ a \in Pos /\ p <= TailPage /\ a >= PageHeader
    BY <1>1, <1>3, <1>5
  <1>10. log[i].typ = "PageEnd" => p + 1 \in Page /\ p + 1 <= TailPage
    BY <1>1, <1>2, <1>3, <1>5, <1>6
  <1>11. a + log[i].len > Border => log[i].typ = "PageEnd"
    BY <1>1, <1>3, <1>5, Sizes
  <1>12. i + 1 \in 1 .. Len(log) + 1 BY <1>2
  <1> QED BY <1>4, <1>5, <1>7, <1>8, <1>9, <1>10, <1>11, <1>12

(* Nothing to read at the tail. *)
LEMMA TailStep ==
    ASSUME TypeOK, IEntry, IFree, NEW p, NEW a, At(Len(log) + 1, p, a)
    PROVE  /\ p = TailPage /\ a = TailPos /\ p \in Page /\ a \in Pos
           /\ ~HasData(p, a) /\ a + mem[p][a].len <= Border /\ a >= PageHeader
  <1>1. p = TailPage /\ a = TailPos
    BY TailType DEF At
  <1>2. TailPage \in Page /\ TailPos \in Pos /\ TailPos >= PageHeader /\ TailPos <= Border
    BY TailType
  <1>3. TailPos \in Nat BY <1>2, Sizes
  <1>4. mem[TailPage][TailPos].len = 0 BY DEF IFree
  <1> QED BY <1>1, <1>2, <1>3, <1>4 DEF HasData

LEMMA OnFrameType ==
    ASSUME IInv, NEW p, NEW a, OnFrame(p, a)
    PROVE  p \in Page /\ a \in Pos /\ p <= TailPage /\ a >= PageHeader /\ a >= 1
  <1>1. TypeOK /\ IEntry /\ IChain /\ FramesIntact /\ IFree BY DEF IInv
  <1>2. PICK i \in 1 .. Len(log) + 1 : At(i, p, a) BY DEF OnFrame
  <1>3. Len(log) \in Nat BY <1>1 DEF TypeOK
  <1>4. TailPage \in Page /\ TailPage \in Nat BY <1>1, TailType, Sizes
  <1>5. p \in Page /\ a \in Pos /\ p <= TailPage /\ a >= PageHeader
    <2>1. CASE i \in 1 .. Len(log) BY <1>1, <1>2, <2>1, WalkStep
    <2>2. CASE i = Len(log) + 1
      <3>1. p = TailPage /\ a \in Pos /\ a >= PageHeader BY <1>1, <1>2, <2>2, TailStep
      <3> QED BY <3>1, <1>4
    <2> QED BY <1>2, <1>3, <2>1, <2>2
  <1> QED BY <1>5, Sizes

(* A step that publishes nothing, keeps the memory in front of the tail    *)
(* and does not move a reader.                                             *)
LEMMA QuietStep ==
    ASSUME IInv, log' = log, UNCHANGED rvars, OldKept,
           clock' \in Nat, clock' >= clock, file \subseteq file',
           Busy({"ready", "marked"}) => Busy({"ready", "marked"})'
    PROVE  /\ TailPage' = TailPage /\ TailPos' = TailPos
           /\ \A p \in Page, a \in Pos : OnFrame(p, a) <=> OnFrame(p, a)'
           /\ IEntry' /\ IChain' /\ FramesIntact' /\ InOrder' /\ IReader'
  <1>i. /\ TypeOK /\ IEntry /\ IChain /\ FramesIntact /\ IReader /\ InOrder
    BY DEF IInv
  <1>1. TailPage' = TailPage /\ TailPos' = TailPos
    BY DEF TailPage, TailPos, Last
  <1>2. \A p \in Page, a \in Pos : OnFrame(p, a) <=> OnFrame(p, a)'
    BY <1>1 DEF OnFrame, At
  <1>3. IEntry'
    BY <1>i, <1>1 DEF IEntry, TypeOK
  <1>4. IChain'
    BY <1>i DEF IChain, ChainUnbroken, Linked
  <1>5. FramesIntact'
    BY <1>i, IntactKept DEF FramesIntact
  <1>6. InOrder'
    BY <1>i DEF InOrder, rvars
  <1>7. IReader'
    <2> SUFFICES ASSUME NEW r \in Reader
                 PROVE  (/\ rst[r] \in {"full", "skip"} =>
                              OnFrame(rpage[r], rpos[r]) \/ Ahead(rpage[r], rpos[r])
                         /\ rst[r] \in {"out", "scan", "full", "skip"} => seen[r] = <<>>
                         /\ rst[r] = "read" =>
                              \/ Ahead(rpage[r], rpos[r]) /\ seen[r] = <<>>
                              \/ \E i \in 1 .. Len(log) + 1 :
                                    /\ At(i, rpage[r], rpos[r])
                                    /\ Len(seen[r]) > 0 => seen[r][Len(seen[r])] = i - 1
                         /\ rtodo[r] \subseteq file
                         /\ rst[r] = "scan" => rtodo[r] # {})'
      BY DEF IReader
    <2>1. rst' = rst /\ rpage' = rpage /\ rpos' = rpos /\ seen' = seen /\ rtodo' = rtodo
      BY DEF rvars
    <2>2. Ahead(rpage[r], rpos[r]) => Ahead(rpage[r], rpos[r])'
      BY <2>1, <1>1 DEF Ahead
    <2>3. OnFrame(rpage[r], rpos[r]) => OnFrame(rpage[r], rpos[r])'
      BY <2>1, <1>1 DEF OnFrame, At
    <2>4. \A i \in 1 .. Len(log) + 1 : At(i, rpage[r], rpos[r]) => At(i, rpage[r], rpos[r])'
      BY <2>1, <1>1 DEF At
    <2> QED BY <1>i, <2>1, <2>2, <2>3, <2>4 DEF IReader
  <1> QED BY <1>1, <1>2, <1>3, <1>4, <1>5, <1>6, <1>7

(* The facts about the pages survive when, besides, no page header is      *)
(* written.                                                                *)
LEMMA QuietPages ==
    ASSUME TypeOK, IPages, TailPage' = TailPage,
           \A p \in Page, a \in Pos : OnFrame(p, a) <=> OnFrame(p, a)',
           last' = last, file' = file,
           torn \/ Busy({"created", "ready", "marked"})
               => (torn \/ Busy({"created", "ready", "marked"}))',
           Busy({"ready", "marked"}) => Busy({"ready", "marked"})'
    PROVE  IPages'
  <1> SUFFICES ASSUME NEW p \in Page
               PROVE  /\ p <= TailPage => /\ p \in file
                                          /\ OnFrame(p, PageHeader)'
                                          /\ OnFrame(p, last[p])'
                      /\ p > TailPage /\ ~(p = TailPage + 1 /\ Busy({"ready", "marked"})') => ~Ready(p)
                      /\ p > TailPage
                         /\ ~(p = TailPage + 1 /\ (torn' \/ Busy({"created", "ready", "marked"})'))
                            => p \notin file
    BY DEF IPages, Ready
  <1>1. last[p] \in Pos BY DEF TypeOK
  <1>2. OnFrame(p, last[p]) => OnFrame(p, last[p])'
    <2>1. \A a \in Pos : OnFrame(p, a) => OnFrame(p, a)' OBVIOUS
    <2>2. PICK b \in Pos : b = last[p] BY <1>1
    <2>3. OnFrame(p, b) => OnFrame(p, b)' BY <2>1
    <2> QED BY <2>2, <2>3 DEF OnFrame, At
  <1> QED BY <1>2, Sizes DEF IPages

(* Who is inside open_frame or close_frame holds the lock. *)
LEMMA Inside ==
    ASSUME IInv, NEW t \in Thread, pc[t] # "idle"
    PROVE  /\ holder = t /\ holder # NoThread /\ wst = "up"
           /\ dlen[t] \in DataLen /\ dlen[t] \in Nat
           /\ \A S : Busy(S) <=> pc[t] \in S
  BY SizeAssumption DEF IInv, ILock, Busy

(* A writer that is up has not met a page without a header.                *)
LEMMA Whole ==
    ASSUME ITorn, wst \in {"full", "skip", "up"}
    PROVE  ~torn
  BY DEF ITorn

LEMMA TryLockPreserves ==
    ASSUME IInv, NEW t \in Thread, NEW d \in DataLen, TryLock(t, d)
    PROVE  IInv'
  <1>i. /\ TypeOK /\ ILock /\ IFree /\ IPages /\ ILast /\ IWriter /\ IBoot /\ NextPageReady
        /\ clock >= 1 /\ ITorn
    BY DEF IInv
  <1>1. /\ log' = log /\ mem' = mem /\ file' = file /\ last' = last /\ clock' = clock
        /\ wst' = wst /\ wpage' = wpage /\ wpos' = wpos /\ wst = "up"
        /\ holder' = t /\ holder = NoThread
        /\ UNCHANGED rvars
    BY DEF TryLock, disk
  <1>tt. ~torn /\ ~torn' /\ ITorn'
    <2>1. torn' = torn BY DEF TryLock
    <2> QED BY <1>i, <1>1, <2>1, Whole DEF ITorn
  <1>2. pc'[t] = "fit" /\ t # NoThread /\ \A u \in Thread : pc[u] = "idle"
    BY <1>i, SizeAssumption DEF TryLock, ILock, TypeOK
  <1>3. ~Busy({"created", "ready", "marked"}) /\ ~Busy({"ready", "marked"})
    BY <1>1 DEF Busy
  <1>q. /\ TailPage' = TailPage /\ TailPos' = TailPos
        /\ \A p \in Page, a \in Pos : OnFrame(p, a) <=> OnFrame(p, a)'
        /\ IEntry' /\ IChain' /\ FramesIntact' /\ InOrder' /\ IReader'
    <2>1. OldKept BY <1>1 DEF OldKept
    <2>2. clock' \in Nat /\ clock' >= clock BY <1>i, <1>1 DEF TypeOK
    <2> QED BY <2>1, <2>2, <1>1, <1>3, QuietStep
  <1>4. TypeOK'
    BY <1>i, <1>1 DEF TypeOK, TryLock, rvars
  <1>5. ILock'
    BY <1>i, <1>1, <1>2 DEF ILock, TryLock, TypeOK
  <1>6. IFree'
    BY <1>i, <1>1, <1>q DEF IFree
  <1>7. IPages'
    BY <1>i, <1>1, <1>3, <1>q, <1>tt, QuietPages
  <1>8. ILast'
    BY <1>i, <1>1 DEF ILast, Busy, Last
  <1>9. IWriter'
    BY <1>i, <1>1, <1>2, <1>q DEF IWriter, Busy
  <1>10. IBoot'
    BY <1>1 DEF IBoot
  <1>11. NextPageReady'
    BY <1>i, <1>1 DEF NextPageReady, HasData, Ready
  <1> QED BY <1>q, <1>4, <1>5, <1>6, <1>7, <1>8, <1>9, <1>10, <1>11, <1>i, <1>1, <1>tt DEF IInv

LEMMA RollCreatePreserves ==
    ASSUME IInv, NEW t \in Thread, RollCreate(t)
    PROVE  IInv'
  <1>i. /\ TypeOK /\ ILock /\ IEntry /\ IFree /\ IPages /\ ILast /\ IWriter /\ IBoot /\ NextPageReady
        /\ clock >= 1 /\ ITorn
    BY DEF IInv
  <1>0. pc[t] = "fit" /\ ~Fits(dlen[t]) /\ wpage < MaxPage BY DEF RollCreate
  <1>1. /\ log' = log /\ mem' = mem /\ file' = file \cup {wpage + 1} /\ last' = last
        /\ clock' = clock /\ wst' = wst /\ wpage' = wpage /\ wpos' = wpos
        /\ holder' = holder /\ UNCHANGED rvars
    BY DEF RollCreate
  <1>2. /\ holder = t /\ holder # NoThread /\ wst = "up" /\ dlen[t] \in DataLen
        /\ dlen[t] \in Nat /\ \A S : Busy(S) <=> pc[t] \in S
    BY <1>0, Inside
  <1>tt. ~torn /\ ~torn' /\ ITorn'
    <2>1. torn' = torn BY DEF RollCreate
    <2> QED BY <1>i, <1>1, <1>2, <2>1, Whole DEF ITorn
  <1>3. pc'[t] = "created" BY <1>i DEF RollCreate, TypeOK
  <1>4. wpage = TailPage /\ wpos = TailPos /\ wpage \in Nat /\ wpos \in Nat /\ wpos >= PageHeader
    <2>1. wpage = TailPage /\ wpos = TailPos BY <1>0, <1>2, <1>i DEF IWriter
    <2> QED BY <2>1, <1>i, TailType, Sizes
  <1>5. wpage + 1 \in Page
    BY <1>0, <1>4, SizeAssumption DEF Page
  <1>6. wpos > PageHeader
    BY <1>0, <1>2, <1>4, FitAssumption, Sizes DEF Fits
  <1>q. /\ TailPage' = TailPage /\ TailPos' = TailPos
        /\ \A p \in Page, a \in Pos : OnFrame(p, a) <=> OnFrame(p, a)'
        /\ IEntry' /\ IChain' /\ FramesIntact' /\ InOrder' /\ IReader'
    <2>1. OldKept BY <1>1 DEF OldKept
    <2>2. clock' \in Nat /\ clock' >= clock BY <1>i, <1>1 DEF TypeOK
    <2> QED BY <2>1, <2>2, <1>0, <1>1, <1>2, QuietStep
  <1>7. TypeOK'
    BY <1>i, <1>1, <1>5 DEF TypeOK, RollCreate, rvars
  <1>8. ILock'
    BY <1>i, <1>1, <1>2, <1>3 DEF ILock, RollCreate, TypeOK
  <1>9. IFree'
    BY <1>i, <1>1, <1>q DEF IFree
  <1>10. IPages'
    <2> SUFFICES ASSUME NEW p \in Page
                 PROVE  /\ p <= TailPage => /\ p \in file'
                                            /\ OnFrame(p, PageHeader)'
                                            /\ OnFrame(p, last[p])'
                        /\ p > TailPage => ~Ready(p)
                        /\ p > TailPage /\ p # TailPage + 1 => p \notin file'
      BY <1>1, <1>2, <1>3, <1>q, <1>tt DEF IPages, Ready, Busy
    <2>1. OnFrame(p, last[p]) => OnFrame(p, last[p])'
      BY <1>1, <1>q DEF OnFrame, At
    <2>2. ~Busy({"ready", "marked"}) /\ ~Busy({"created", "ready", "marked"})
      BY <1>0, <1>2
    <2> QED BY <2>1, <2>2, <1>i, <1>1, <1>4, <1>q, <1>tt, Sizes DEF IPages
  <1>11. ILast'
    BY <1>i, <1>0, <1>1, <1>2, <1>3 DEF ILast, Busy, Last
  <1>12. IWriter'
    BY <1>i, <1>0, <1>1, <1>2, <1>3, <1>4, <1>6, <1>q DEF IWriter, Busy
  <1>13. IBoot'
    BY <1>1, <1>2 DEF IBoot
  <1>14. NextPageReady'
    BY <1>i, <1>1 DEF NextPageReady, HasData, Ready
  <1> QED BY <1>q, <1>7, <1>8, <1>9, <1>10, <1>11, <1>12, <1>13, <1>14, <1>i, <1>1, <1>tt DEF IInv

LEMMA RollInitPreserves ==
    ASSUME IInv, NEW t \in Thread, RollInit(t)
    PROVE  IInv'
  <1>i. /\ TypeOK /\ ILock /\ IEntry /\ IFree /\ IPages /\ ILast /\ IWriter /\ IBoot /\ NextPageReady
        /\ clock >= 1 /\ ITorn
    BY DEF IInv
  <1>0. pc[t] = "created" BY DEF RollInit
  <1>2. /\ holder = t /\ holder # NoThread /\ wst = "up" /\ dlen[t] \in DataLen
        /\ dlen[t] \in Nat /\ \A S : Busy(S) <=> pc[t] \in S
    BY <1>0, Inside
  <1>3. pc'[t] = "ready" BY <1>i DEF RollInit, TypeOK
  <1>4. /\ wpage = TailPage /\ wpos = TailPos /\ wpos > PageHeader /\ wpage < MaxPage
        /\ TailPage \in Nat /\ TailPos \in Nat /\ TailPage \in Page
    <2>1. wpage = TailPage /\ wpos = TailPos /\ wpos > PageHeader /\ wpage < MaxPage
      BY <1>0, <1>2, <1>i DEF IWriter
    <2> QED BY <2>1, <1>i, TailType, Sizes
  <1>5. wpage + 1 \in Page
    BY <1>4, SizeAssumption DEF Page
  <1>6. ~Ready(wpage + 1) /\ last[wpage + 1] = 0
    BY <1>0, <1>2, <1>4, <1>5, <1>i DEF IPages, Ready
  <1>1. /\ log' = log /\ mem' = mem /\ file' = file \cup {wpage + 1}
        /\ last' = [last EXCEPT ![wpage + 1] = PageHeader]
        /\ clock' = clock /\ wst' = wst /\ wpage' = wpage + 1 /\ wpos' = PageHeader
        /\ holder' = holder /\ UNCHANGED rvars
    BY <1>6 DEF RollInit, LoadRW
  <1>tt. ~torn /\ ~torn' /\ ITorn'
    <2>1. torn' = torn BY DEF RollInit
    <2> QED BY <1>i, <1>1, <1>2, <2>1, Whole DEF ITorn
  <1>1a. last'[wpage + 1] = PageHeader /\ \A p \in Page : p # wpage + 1 => last'[p] = last[p]
    BY <1>1, <1>5, <1>i DEF TypeOK
  <1>q. /\ TailPage' = TailPage /\ TailPos' = TailPos
        /\ \A p \in Page, a \in Pos : OnFrame(p, a) <=> OnFrame(p, a)'
        /\ IEntry' /\ IChain' /\ FramesIntact' /\ InOrder' /\ IReader'
    <2>1. OldKept BY <1>1 DEF OldKept
    <2>2. clock' \in Nat /\ clock' >= clock BY <1>i, <1>1 DEF TypeOK
    <2> QED BY <2>1, <2>2, <1>0, <1>1, <1>2, QuietStep
  <1>l. Len(log) > 0 /\ Last.typ = "Data" /\ Last.page = TailPage
    <2>1. Len(log) \in Nat /\ Len(log) # 0 BY <1>4, <1>i, Sizes DEF TailPos, TypeOK
    <2>2. Last.typ # "PageEnd" BY <2>1, <1>4, Sizes DEF TailPos
    <2>3. Last \in Entry BY <2>1, <1>i, TailType
    <2> QED BY <2>1, <2>2, <2>3 DEF TailPage, Entry
  <1>7. TypeOK'
    BY <1>i, <1>1, <1>5, Sizes DEF TypeOK, RollInit, rvars
  <1>8. ILock'
    BY <1>i, <1>1, <1>2, <1>3 DEF ILock, RollInit, TypeOK
  <1>9. IFree'
    BY <1>i, <1>1, <1>q DEF IFree
  <1>10. IPages'
    <2> SUFFICES ASSUME NEW p \in Page
                 PROVE  /\ p <= TailPage => /\ p \in file'
                                            /\ OnFrame(p, PageHeader)'
                                            /\ OnFrame(p, last[p])'
                        /\ p > TailPage /\ p # TailPage + 1 => ~Ready(p)'
                        /\ p > TailPage /\ p # TailPage + 1 => p \notin file'
      BY <1>1, <1>2, <1>3, <1>q DEF IPages, Busy
    <2>1. p <= TailPage => (OnFrame(p, last[p]) => OnFrame(p, last[p])')
      BY <1>1a, <1>4, <1>q, <1>1, Sizes DEF OnFrame, At
    <2> QED BY <2>1, <1>i, <1>1, <1>1a, <1>4, <1>q, <1>tt, Sizes DEF IPages, Ready
  <1>11. ILast'
    BY <1>i, <1>0, <1>1, <1>1a, <1>2, <1>3, <1>4, <1>l DEF ILast, Busy, Last
  <1>12. IWriter'
    BY <1>1, <1>1a, <1>2, <1>3, <1>4, <1>l, <1>q DEF IWriter, Busy, Last
  <1>13. IBoot'
    BY <1>1, <1>2 DEF IBoot
  <1>14. NextPageReady'
    <2>1. \A p \in Page : Ready(p) => Ready(p)'
      BY <1>1a, <1>5, Sizes DEF Ready
    <2>2. log' = log /\ mem' = mem /\ NextPageReady BY <1>i, <1>1
    <2> QED BY <2>1, <2>2, <1>1, <1>1a, <1>5, Sizes DEF NextPageReady, HasData, Ready
  <1> QED BY <1>q, <1>7, <1>8, <1>9, <1>10, <1>11, <1>12, <1>13, <1>14, <1>i, <1>1, <1>tt DEF IInv

(* A store of the lock holder at or behind the tail of the tail page that  *)
(* publishes nothing keeps everything but the facts about the writer.      *)
LEMMA TailWrite ==
    ASSUME IInv, NEW t \in Thread, NEW x,
           pc[t] \notin {"idle", "created", "published"},
           pc' = [pc EXCEPT ![t] = x],
           x \in {"marked", "open", "zeroed", "stamped"},
           pc[t] \in {"ready", "marked"} => x = "marked",
           mem' \in Memory,
           \A q \in Page, b \in Pos : (q # TailPage \/ b < TailPos) => mem'[q][b] = mem[q][b],
           mem'[TailPage][TailPos].len = 0,
           \A b \in Pos : mem'[TailPage][b].typ = "PageEnd" =>
               b = TailPos \/ mem'[TailPage][b] = mem[TailPage][b],
           clock' \in Nat, clock' >= clock,
           UNCHANGED <<file, last, wst, wseek, wpage, wpos, holder, dlen, crashes, torn, log, rvars>>
    PROVE  /\ IWriter' => IInv'
           /\ TailPage' = TailPage /\ TailPos' = TailPos
           /\ holder = t /\ holder' = t /\ t # NoThread /\ wst = "up" /\ pc'[t] = x
           /\ dlen[t] \in Nat
  <1>i. /\ TypeOK /\ ILock /\ IEntry /\ IFree /\ IPages /\ ILast /\ IWriter /\ IBoot /\ NextPageReady
        /\ clock >= 1 /\ ITorn
    BY DEF IInv
  <1>1. /\ holder = t /\ holder # NoThread /\ wst = "up" /\ dlen[t] \in DataLen
        /\ dlen[t] \in Nat /\ \A S : Busy(S) <=> pc[t] \in S
    BY Inside
  <1>2. pc'[t] = x /\ \A S : Busy(S)' <=> x \in S
    BY <1>i, <1>1 DEF TypeOK, Busy
  <1>3. TailPage \in Page /\ TailPos \in Pos /\ TailPage \in Nat /\ TailPos \in Nat
    BY <1>i, TailType, Sizes
  <1>q. /\ TailPage' = TailPage /\ TailPos' = TailPos
        /\ \A p \in Page, a \in Pos : OnFrame(p, a) <=> OnFrame(p, a)'
        /\ IEntry' /\ IChain' /\ FramesIntact' /\ InOrder' /\ IReader'
    <2>1. OldKept
      <3> SUFFICES ASSUME NEW q \in Page, NEW b \in Pos, q < TailPage \/ (q = TailPage /\ b < TailPos)
                   PROVE  mem'[q][b] = mem[q][b]
        BY DEF OldKept
      <3>1. q # TailPage \/ b < TailPos BY <1>3, Sizes
      <3> QED BY <3>1
    <2>2. Busy({"ready", "marked"}) => Busy({"ready", "marked"})' BY <1>1, <1>2
    <2> QED BY <2>1, <2>2, QuietStep
  <1>4. TypeOK'
    BY <1>i DEF TypeOK, rvars
  <1>5. ILock'
    BY <1>i, <1>1, <1>2 DEF ILock, TypeOK
  <1>6. IFree'
    <2>1. ASSUME NEW p \in Page, NEW a \in Pos, p > TailPage PROVE mem'[p][a] = Zero
      <3>1. p # TailPage BY <2>1, <1>3, Sizes
      <3> QED BY <3>1, <2>1, <1>i DEF IFree
    <2> QED BY <2>1, <1>q DEF IFree
  <1>7. IPages'
    <2>1. /\ Busy({"created", "ready", "marked"}) => Busy({"created", "ready", "marked"})'
          /\ Busy({"ready", "marked"}) => Busy({"ready", "marked"})'
      BY <1>1, <1>2
    <2> QED BY <2>1, <1>i, <1>q, QuietPages
  <1>8. ILast'
    <2>1. ~Busy({"published"}) /\ Last' = Last BY <1>1 DEF Last
    <2> QED BY <2>1, <1>i DEF ILast
  <1>9. IBoot'
    BY <1>1 DEF IBoot
  <1>10. NextPageReady'
    <2> SUFFICES ASSUME NEW p \in Page, NEW a \in Pos,
                        HasData(p, a)', mem'[p][a].typ = "PageEnd"
                 PROVE  p + 1 \in Page /\ Ready(p + 1)
      BY DEF NextPageReady, Ready
    <2>1. mem'[p][a] = mem[p][a]
      <3>1. CASE p # TailPage BY <3>1
      <3>2. CASE p = TailPage
        <4>1. a # TailPos BY <3>2 DEF HasData
        <4> QED BY <3>2, <4>1
      <3> QED BY <3>1, <3>2
    <2>2. HasData(p, a) BY <2>1 DEF HasData
    <2> QED BY <2>1, <2>2, <1>i DEF NextPageReady
  <1>11. clock' >= 1 /\ ITorn'
    BY <1>i, <1>1, <1>q, Whole DEF TypeOK, ITorn
  <1>12. IWriter' => IInv'
    BY <1>q, <1>4, <1>5, <1>6, <1>7, <1>8, <1>9, <1>10, <1>11 DEF IInv
  <1> QED BY <1>q, <1>1, <1>2, <1>12

(* close_page finds the place behind the last frame. *)
LEMMA EndOfPage ==
    ASSUME IInv, Len(log) > 0, Last.typ = "Data", ~Busy({"published"})
    PROVE  EndPos(TailPage) = TailPos /\ TailPage = Last.page
  <1>1. TypeOK /\ ILast /\ FramesIntact BY DEF IInv
  <1>2. Len(log) \in 1 .. Len(log) BY <1>1 DEF TypeOK
  <1>3. TailPage = Last.page /\ TailPos = Last.pos + Last.len
    BY <1>2 DEF TailPage, TailPos
  <1>4. last[Last.page] = Last.pos BY <1>1 DEF ILast
  <1>5. mem[Last.page][Last.pos].len = Last.len
    <2>1. Intact(Len(log)) BY <1>1, <1>2 DEF FramesIntact
    <2> QED BY <2>1 DEF Intact, Last
  <1> QED BY <1>3, <1>4, <1>5 DEF EndPos

LEMMA RollMarkPreserves ==
    ASSUME IInv, NEW t \in Thread, RollMark(t)
    PROVE  IInv'
  <1>i. TypeOK /\ ILock /\ IEntry /\ IFree /\ IWriter /\ clock >= 1 BY DEF IInv
  <1>0. pc[t] = "ready" BY DEF RollMark
  <1>1. /\ holder = t /\ holder # NoThread /\ wst = "up" /\ \A S : Busy(S) <=> pc[t] \in S
    BY <1>0, Inside
  <1>2. TailPage \in Page /\ TailPos \in Pos /\ TailPage \in Nat /\ TailPos \in Nat /\ Len(log) \in Nat
    BY <1>i, TailType, Sizes
  <1>3. /\ Len(log) > 0 /\ Last.typ = "Data" /\ wpage = TailPage + 1
        /\ wpos = PageHeader /\ last[wpage] = PageHeader /\ wpage \in file
    BY <1>0, <1>1, <1>i DEF IWriter
  <1>4. wpage - 1 = TailPage /\ EndPos(wpage - 1) = TailPos
    BY <1>0, <1>1, <1>2, <1>3, EndOfPage
  <1> DEFINE h(now) == [len |-> mem[TailPage][TailPos].len, typ |-> "PageEnd",
                        gen |-> now, val |-> NextFrame]
  <1>5. PICK now \in {clock + k : k \in Tick} :
           clock' = now /\ Store(TailPage, TailPos, h(now))
    BY <1>4 DEF RollMark
  <1>6. now \in Nat /\ now >= clock /\ now \in 1 .. now
    BY <1>i, <1>5, SizeAssumption DEF TypeOK
  <1>7. mem[TailPage][TailPos].len = 0 BY <1>i DEF IFree
  <1>8. h(now) \in Header /\ h(now).len = 0 /\ h(now).typ = "PageEnd" /\ h(now).gen = now
        /\ h(now).val = Len(log) + 1
    BY <1>2, <1>6, <1>7 DEF Header, NextFrame
  <1> HIDE DEF h
  <1>9. /\ mem' \in Memory /\ mem'[TailPage][TailPos] = h(now)
        /\ \A q \in Page, b \in Pos : (q # TailPage \/ b # TailPos) => mem'[q][b] = mem[q][b]
    <2>1. mem \in Memory BY <1>i DEF TypeOK
    <2> QED BY <1>2, <1>5, <1>8, <2>1, StoreMem
  <1>10. \A q \in Page, b \in Pos : (q # TailPage \/ b < TailPos) => mem'[q][b] = mem[q][b]
    BY <1>9, <1>2, Sizes
  <1>11. /\ IWriter' => IInv'
         /\ TailPage' = TailPage /\ TailPos' = TailPos
         /\ holder' = t /\ t # NoThread /\ pc'[t] = "marked"
    <2>1. /\ pc' = [pc EXCEPT ![t] = "marked"]
          /\ UNCHANGED <<file, last, wst, wseek, wpage, wpos, holder, dlen, crashes, torn, log, rvars>>
      BY DEF RollMark
    <2>2. \A b \in Pos : mem'[TailPage][b].typ = "PageEnd" =>
               b = TailPos \/ mem'[TailPage][b] = mem[TailPage][b]
      BY <1>9, <1>2
    <2>3. mem'[TailPage][TailPos].len = 0 /\ clock' \in Nat /\ clock' >= clock
      BY <1>5, <1>6, <1>8, <1>9
    <2> QED BY <1>0, <1>9, <1>10, <2>1, <2>2, <2>3, TailWrite
  <1>12. IWriter'
    <2>1. /\ wpage' = wpage /\ wpos' = wpos /\ log' = log /\ last' = last /\ Last' = Last
          /\ file' = file
      BY DEF RollMark, Last
    <2> QED BY <2>1, <1>3, <1>5, <1>6, <1>8, <1>9, <1>11 DEF IWriter, Busy
  <1> QED BY <1>11, <1>12

LEMMA OpenFramePreserves ==
    ASSUME IInv, NEW t \in Thread, OpenFrame(t)
    PROVE  IInv'
  <1>i. TypeOK /\ ILock /\ IEntry /\ IFree /\ IWriter BY DEF IInv
  <1>0. pc[t] \in {"fit", "slot"} /\ (pc[t] = "fit" => Fits(dlen[t])) BY DEF OpenFrame
  <1>1. /\ holder = t /\ holder # NoThread /\ wst = "up" /\ dlen[t] \in Nat
        /\ \A S : Busy(S) <=> pc[t] \in S
    BY <1>0, Inside
  <1>2. TailPage \in Page /\ TailPos \in Pos /\ TailPage \in Nat /\ TailPos \in Nat /\ Len(log) \in Nat
    BY <1>i, TailType, Sizes
  <1>3. wpage = TailPage /\ wpos = TailPos
    BY <1>0, <1>1, <1>i DEF IWriter
  <1>4. NextPos(t) < Border
    BY <1>0, <1>1, <1>i DEF IWriter, Fits, NextPos
  <1> DEFINE h == [len |-> mem[TailPage][TailPos].len, typ |-> "Data",
                   gen |-> mem[TailPage][TailPos].gen, val |-> NextFrame]
             body == TailPos + Hdr .. TailPos + dlen[t]
             f == [a \in Pos |-> CASE a = TailPos -> [len |-> mem[TailPage][a].len, typ |-> "Data",
                                                      gen |-> mem[TailPage][a].gen, val |-> NextFrame]
                                  [] a \in body -> Bytes(NextFrame)
                                  [] OTHER -> mem[TailPage][a]]
  <1>5. mem' = [mem EXCEPT ![TailPage] = f]
    BY <1>3 DEF OpenFrame
  <1>6. mem[TailPage][TailPos].len = 0 BY <1>i DEF IFree
  <1>7. mem \in Memory /\ \A a \in Pos : mem[TailPage][a] \in Header
    BY <1>2, <1>i DEF TypeOK, Memory
  <1>8. NextFrame = Len(log) + 1 /\ Bytes(NextFrame) \in Header /\ h \in Header /\ h.typ = "Data"
        /\ h.len = 0 /\ h.val = Len(log) + 1 /\ Bytes(NextFrame).typ = "Data"
    BY <1>2, <1>6, <1>7 DEF NextFrame, Bytes, Header
  <1>9. /\ f[TailPos] = h
        /\ \A a \in Pos : a \in body => f[a] = Bytes(NextFrame)
        /\ \A a \in Pos : a # TailPos /\ a \notin body => f[a] = mem[TailPage][a]
    BY <1>2, <1>1
  <1> HIDE DEF f, h
  <1>10. f \in [Pos -> Header]
    <2>1. \A a \in Pos : f[a] \in Header BY <1>7, <1>8, <1>9
    <2>2. f = [a \in Pos |-> f[a]] BY DEF f
    <2> QED BY <2>1, <2>2
  <1>11. /\ mem' \in Memory /\ mem'[TailPage] = f
         /\ \A q \in Page : q # TailPage => mem'[q] = mem[q]
    BY <1>2, <1>5, <1>7, <1>10 DEF Memory
  <1>12. \A q \in Page, b \in Pos : (q # TailPage \/ b < TailPos) => mem'[q][b] = mem[q][b]
    <2>1. \A b \in Pos : b < TailPos => b # TailPos /\ b \notin body BY <1>1, <1>2, Sizes
    <2> QED BY <2>1, <1>9, <1>11
  <1>13. /\ IWriter' => IInv'
         /\ TailPage' = TailPage /\ TailPos' = TailPos
         /\ holder' = t /\ t # NoThread /\ pc'[t] = "open"
    <2>1. /\ pc' = [pc EXCEPT ![t] = "open"] /\ clock' = clock
          /\ UNCHANGED <<file, last, wst, wseek, wpage, wpos, holder, dlen, crashes, torn, log, rvars>>
      BY DEF OpenFrame
    <2>2. \A b \in Pos : mem'[TailPage][b].typ = "PageEnd" =>
               b = TailPos \/ mem'[TailPage][b] = mem[TailPage][b]
      BY <1>8, <1>9, <1>11
    <2>3. mem'[TailPage][TailPos].len = 0 /\ clock' \in Nat /\ clock' >= clock
      BY <1>i, <1>8, <1>9, <1>11, <2>1 DEF TypeOK
    <2> QED BY <1>0, <1>11, <1>12, <2>1, <2>2, <2>3, TailWrite
  <1>14. IWriter'
    <2>1. /\ wpage' = wpage /\ wpos' = wpos /\ log' = log /\ dlen' = dlen /\ NextPos(t)' = NextPos(t)
      BY DEF OpenFrame, NextPos
    <2>2. \A a \in body : mem'[TailPage][a] = Bytes(Len(log) + 1)
      <3>1. \A a \in body : a \in Pos BY <1>1, <1>2, <1>3, <1>4, Sizes DEF NextPos, Pos
      <3> QED BY <3>1, <1>8, <1>9, <1>11
    <2>3. mem'[TailPage][TailPos].typ = "Data" /\ mem'[TailPage][TailPos].val = Len(log) + 1
      BY <1>8, <1>9, <1>11
    <2> QED BY <2>1, <2>2, <2>3, <1>3, <1>4, <1>13 DEF IWriter, Busy
  <1> QED BY <1>13, <1>14

(* The frame being written fits: the addresses of its parts. *)
LEMMA OpenParts ==
    ASSUME IInv, NEW t \in Thread, pc[t] \in {"open", "zeroed", "stamped"}
    PROVE  /\ wpage = TailPage /\ wpos = TailPos /\ NextPos(t) < Border
           /\ TailPage \in Page /\ TailPos \in Pos /\ TailPage \in Nat /\ TailPos \in Nat
           /\ NextPos(t) \in Pos /\ NextPos(t) > TailPos /\ NextPos(t) = TailPos + 1 + dlen[t]
           /\ \A a \in wpos + Hdr .. wpos + dlen[t] :
                 /\ a \in Pos /\ a > TailPos /\ a < NextPos(t)
                 /\ mem[wpage][a] = Bytes(Len(log) + 1)
           /\ mem[TailPage][TailPos].typ = "Data" /\ mem[TailPage][TailPos].val = Len(log) + 1
           /\ mem[TailPage][TailPos].len = 0
           /\ Len(log) \in Nat /\ dlen[t] \in Nat /\ mem \in Memory
  <1>i. TypeOK /\ IEntry /\ IFree /\ IWriter BY DEF IInv
  <1>1. /\ holder = t /\ wst = "up" /\ dlen[t] \in Nat /\ \A S : Busy(S) <=> pc[t] \in S
    BY Inside
  <1>2. TailPage \in Page /\ TailPos \in Pos /\ TailPage \in Nat /\ TailPos \in Nat /\ Len(log) \in Nat
    BY <1>i, TailType, Sizes
  <1>3. wpage = TailPage /\ wpos = TailPos /\ NextPos(t) < Border
    BY <1>1, <1>i DEF IWriter
  <1>4. NextPos(t) = TailPos + 1 + dlen[t] BY <1>3 DEF NextPos
  <1>5. NextPos(t) \in Pos /\ NextPos(t) > TailPos BY <1>1, <1>2, <1>3, <1>4, Sizes DEF Pos
  <1>6. /\ mem[wpage][wpos].typ = "Data" /\ mem[wpage][wpos].val = Len(log) + 1
        /\ \A a \in wpos + Hdr .. wpos + dlen[t] : mem[wpage][a] = Bytes(Len(log) + 1)
    BY <1>1, <1>i DEF IWriter
  <1>7. \A a \in wpos + Hdr .. wpos + dlen[t] : a \in Pos /\ a > TailPos /\ a < NextPos(t)
    BY <1>1, <1>2, <1>3, <1>4, Sizes DEF Pos
  <1> QED BY <1>i, <1>1, <1>2, <1>3, <1>4, <1>5, <1>6, <1>7 DEF IFree, TypeOK

LEMMA ZeroNextPreserves ==
    ASSUME IInv, NEW t \in Thread, ZeroNext(t)
    PROVE  IInv'
  <1>0. pc[t] = "open" BY DEF ZeroNext
  <1>1. /\ wpage = TailPage /\ wpos = TailPos /\ NextPos(t) < Border
        /\ TailPage \in Page /\ TailPos \in Pos /\ TailPage \in Nat /\ TailPos \in Nat
        /\ NextPos(t) \in Pos /\ NextPos(t) > TailPos
        /\ \A a \in wpos + Hdr .. wpos + dlen[t] :
              /\ a \in Pos /\ a > TailPos /\ a < NextPos(t)
              /\ mem[wpage][a] = Bytes(Len(log) + 1)
        /\ mem[TailPage][TailPos].typ = "Data" /\ mem[TailPage][TailPos].val = Len(log) + 1
        /\ mem[TailPage][TailPos].len = 0 /\ mem \in Memory
    BY <1>0, OpenParts
  <1>2. Zero \in Header /\ Zero.typ = "none" BY DEF Zero, Header
  <1>3. NextPos(t) \in Nat BY <1>1, Sizes
  <1>4. /\ mem' \in Memory /\ mem'[TailPage][NextPos(t)] = Zero
        /\ \A q \in Page, b \in Pos : (q # TailPage \/ b # NextPos(t)) => mem'[q][b] = mem[q][b]
    <2>1. Store(TailPage, NextPos(t), Zero) BY <1>1 DEF ZeroNext
    <2> QED BY <1>1, <1>2, <2>1, StoreMem
  <1>5. mem'[TailPage][TailPos] = mem[TailPage][TailPos]
    BY <1>1, <1>3, <1>4
  <1>6. \A q \in Page, b \in Pos : (q # TailPage \/ b < TailPos) => mem'[q][b] = mem[q][b]
    BY <1>1, <1>3, <1>4, Sizes
  <1>7. /\ IWriter' => IInv'
        /\ TailPage' = TailPage /\ TailPos' = TailPos
        /\ holder' = t /\ t # NoThread /\ pc'[t] = "zeroed"
    <2>1. /\ pc' = [pc EXCEPT ![t] = "zeroed"] /\ clock' = clock
          /\ UNCHANGED <<file, last, wst, wseek, wpage, wpos, holder, dlen, crashes, torn, log, rvars>>
      BY DEF ZeroNext
    <2>2. \A b \in Pos : mem'[TailPage][b].typ = "PageEnd" =>
               b = TailPos \/ mem'[TailPage][b] = mem[TailPage][b]
      BY <1>1, <1>2, <1>4
    <2>3. mem'[TailPage][TailPos].len = 0 /\ clock' \in Nat /\ clock' >= clock
      BY <1>1, <1>5, <2>1 DEF IInv, TypeOK
    <2> QED BY <1>0, <1>4, <1>6, <2>1, <2>2, <2>3, TailWrite
  <1>8. IWriter'
    <2>1. /\ wpage' = wpage /\ wpos' = wpos /\ log' = log /\ dlen' = dlen /\ NextPos(t)' = NextPos(t)
      BY DEF ZeroNext, NextPos
    <2>2. \A a \in wpos + Hdr .. wpos + dlen[t] : mem'[TailPage][a] = Bytes(Len(log) + 1)
      BY <1>1, <1>3, <1>4, Sizes
    <2> QED BY <2>1, <2>2, <1>1, <1>4, <1>5, <1>7 DEF IWriter, Busy
  <1> QED BY <1>7, <1>8

LEMMA StampPreserves ==
    ASSUME IInv, NEW t \in Thread, Stamp(t)
    PROVE  IInv'
  <1>0. pc[t] = "zeroed" BY DEF Stamp
  <1>1. /\ wpage = TailPage /\ wpos = TailPos /\ NextPos(t) < Border
        /\ TailPage \in Page /\ TailPos \in Pos /\ TailPage \in Nat /\ TailPos \in Nat
        /\ NextPos(t) \in Pos /\ NextPos(t) > TailPos
        /\ \A a \in wpos + Hdr .. wpos + dlen[t] :
              /\ a \in Pos /\ a > TailPos /\ a < NextPos(t)
              /\ mem[wpage][a] = Bytes(Len(log) + 1)
        /\ mem[TailPage][TailPos].typ = "Data" /\ mem[TailPage][TailPos].val = Len(log) + 1
        /\ mem[TailPage][TailPos].len = 0 /\ mem \in Memory
    BY <1>0, OpenParts
  <1>2. clock \in Nat /\ clock >= 1 /\ wst = "up" /\ IWriter /\ \A S : Busy(S) <=> pc[t] \in S
    BY <1>0, Inside DEF IInv, TypeOK
  <1>3. PICK now \in {clock + k : k \in Tick} :
          clock' = now /\ Store(TailPage, TailPos, [mem[TailPage][TailPos] EXCEPT !.gen = now])
    BY <1>1 DEF Stamp
  <1>4. now \in Nat /\ now >= clock /\ now \in 1 .. now
    BY <1>2, <1>3, SizeAssumption
  <1> DEFINE h == [mem[TailPage][TailPos] EXCEPT !.gen = now]
  <1>5. h \in Header /\ h.len = 0 /\ h.typ = "Data" /\ h.val = Len(log) + 1 /\ h.gen = now
    <2>1. mem[TailPage][TailPos] \in Header BY <1>1 DEF Memory
    <2> QED BY <2>1, <1>1, <1>4, SetGen
  <1>6. /\ mem' \in Memory /\ mem'[TailPage][TailPos] = h
        /\ \A q \in Page, b \in Pos : (q # TailPage \/ b # TailPos) => mem'[q][b] = mem[q][b]
    BY <1>1, <1>3, <1>5, StoreMem
  <1> HIDE DEF h
  <1>7. NextPos(t) \in Nat BY <1>1, Sizes
  <1>8. \A q \in Page, b \in Pos : (q # TailPage \/ b < TailPos) => mem'[q][b] = mem[q][b]
    BY <1>1, <1>6, Sizes
  <1>9. /\ IWriter' => IInv'
        /\ TailPage' = TailPage /\ TailPos' = TailPos
        /\ holder' = t /\ t # NoThread /\ pc'[t] = "stamped"
    <2>1. /\ pc' = [pc EXCEPT ![t] = "stamped"]
          /\ UNCHANGED <<file, last, wst, wseek, wpage, wpos, holder, dlen, crashes, torn, log, rvars>>
      BY DEF Stamp
    <2>2. \A b \in Pos : mem'[TailPage][b].typ = "PageEnd" =>
               b = TailPos \/ mem'[TailPage][b] = mem[TailPage][b]
      BY <1>1, <1>6
    <2>3. mem'[TailPage][TailPos].len = 0 /\ clock' \in Nat /\ clock' >= clock
      BY <1>3, <1>4, <1>5, <1>6
    <2> QED BY <1>0, <1>6, <1>8, <2>1, <2>2, <2>3, TailWrite
  <1>10. IWriter'
    <2>1. /\ wpage' = wpage /\ wpos' = wpos /\ log' = log /\ dlen' = dlen /\ NextPos(t)' = NextPos(t)
      BY DEF Stamp, NextPos
    <2>2. \A a \in wpos + Hdr .. wpos + dlen[t] : mem'[TailPage][a] = Bytes(Len(log) + 1)
      BY <1>1, <1>6, Sizes
    <2>3. mem'[TailPage][NextPos(t)] = Zero
      <3>1. mem[wpage][NextPos(t)] = Zero
        BY <1>0, <1>2, Inside DEF IWriter
      <3> QED BY <3>1, <1>1, <1>6, <1>7
    <2> QED BY <2>1, <2>2, <2>3, <1>1, <1>3, <1>4, <1>5, <1>6, <1>9 DEF IWriter, Busy
  <1> QED BY <1>9, <1>10

(* A step that moves last_frame_position of a written page to another      *)
(* frame keeps the facts about the pages.                                  *)
LEMMA LastMoved ==
    ASSUME IInv, NEW p \in Page, NEW a \in Pos, OnFrame(p, a),
           last' = [last EXCEPT ![p] = a], file' = file, log' = log, mem' = mem,
           ~torn, ~Busy({"created", "ready", "marked"}), ~Busy({"ready", "marked"})
    PROVE  IPages' /\ NextPageReady'
  <1>i. TypeOK /\ IEntry /\ IPages /\ NextPageReady BY DEF IInv
  <1>1. p <= TailPage /\ a >= 1 /\ TailPage \in Nat /\ TailPage' = TailPage
    BY <1>i, OnFrameType, TailType, Sizes DEF TailPage, Last
  <1>2. last'[p] = a /\ \A q \in Page : q # p => last'[q] = last[q]
    BY <1>i DEF TypeOK
  <1>3. \A q, b : OnFrame(q, b) <=> OnFrame(q, b)' BY DEF OnFrame, At, TailPage, TailPos, Last
  <1>4. IPages'
    <2> SUFFICES ASSUME NEW q \in Page
                 PROVE  /\ q <= TailPage => /\ q \in file
                                            /\ OnFrame(q, PageHeader)'
                                            /\ OnFrame(q, last[q])'
                        /\ q > TailPage => ~Ready(q)' /\ q \notin file
      BY <1>1 DEF IPages
    <2>1. q <= TailPage => q \in file /\ OnFrame(q, PageHeader)'
      BY <1>i, <1>3 DEF IPages
    <2>2. q <= TailPage => OnFrame(q, last[q])'
      <3>1. OnFrame(p, a)' BY <1>3
      <3>2. q <= TailPage => OnFrame(q, last[q]) BY <1>i DEF IPages
      <3>3. CASE q = p BY <3>1, <3>3, <1>2 DEF OnFrame, At
      <3>4. CASE q # p BY <3>2, <3>4, <1>2 DEF OnFrame, At, TailPage, TailPos, Last
      <3> QED BY <3>3, <3>4
    <2>3. q > TailPage => ~Ready(q)' /\ q \notin file
      <3>1. q > TailPage => q # p BY <1>1, Sizes
      <3>2. q > TailPage => ~Ready(q) /\ q \notin file BY <1>i DEF IPages
      <3> QED BY <3>1, <3>2, <1>2 DEF Ready
    <2> QED BY <2>1, <2>2, <2>3
  <1>5. NextPageReady'
    <2>1. \A q \in Page : Ready(q) => Ready(q)' BY <1>1, <1>2, Sizes DEF Ready
    <2> QED BY <2>1, <1>i DEF NextPageReady, HasData
  <1> QED BY <1>4, <1>5

LEMMA RollLastPreserves ==
    ASSUME IInv, NEW t \in Thread, RollLast(t)
    PROVE  IInv'
  <1>i. /\ TypeOK /\ ILock /\ IEntry /\ IFree /\ IPages /\ ILast /\ IWriter /\ IBoot
        /\ clock >= 1 /\ ITorn
    BY DEF IInv
  <1>0. pc[t] = "ended" BY DEF RollLast
  <1>1. /\ holder = t /\ holder # NoThread /\ wst = "up" /\ dlen[t] \in DataLen
        /\ dlen[t] \in Nat /\ \A S : Busy(S) <=> pc[t] \in S
    BY <1>0, Inside
  <1>2. /\ Len(log) > 0 /\ Last.typ = "PageEnd" /\ wpage = Last.page + 1
        /\ EndPos(Last.page) = Last.pos /\ wpage = TailPage /\ wpos = TailPos
    BY <1>0, <1>1, <1>i DEF IWriter
  <1>3. Len(log) \in 1 .. Len(log) /\ Len(log) \in 1 .. Len(log) + 1
    BY <1>2, <1>i DEF TypeOK
  <1>4. Last.page \in Page /\ Last.pos \in Pos /\ Last.page \in Nat
    BY <1>3, <1>i, EntryType DEF Last
  <1>5. OnFrame(Last.page, Last.pos) BY <1>3 DEF OnFrame, At, Last
  <1>6. wpage - 1 = Last.page BY <1>2, <1>4
  <1>7. /\ log' = log /\ mem' = mem /\ file' = file /\ last' = [last EXCEPT ![Last.page] = Last.pos]
        /\ clock' = clock /\ wst' = wst /\ wpage' = wpage /\ wpos' = wpos /\ dlen' = dlen
        /\ holder' = holder /\ UNCHANGED rvars
    BY <1>2, <1>6 DEF RollLast
  <1>tt. ~torn /\ ~torn' /\ ITorn'
    <2>1. torn' = torn BY DEF RollLast
    <2> QED BY <1>i, <1>1, <1>7, <2>1, Whole DEF ITorn
  <1>8. pc'[t] = "slot" BY <1>i DEF RollLast, TypeOK
  <1>q. /\ TailPage' = TailPage /\ TailPos' = TailPos
        /\ \A p \in Page, a \in Pos : OnFrame(p, a) <=> OnFrame(p, a)'
        /\ IEntry' /\ IChain' /\ FramesIntact' /\ InOrder' /\ IReader'
    <2>1. OldKept BY <1>7 DEF OldKept
    <2>2. clock' \in Nat /\ clock' >= clock BY <1>i, <1>7 DEF TypeOK
    <2> QED BY <2>1, <2>2, <1>0, <1>1, <1>7, QuietStep
  <1>9. TypeOK'
    BY <1>i, <1>4, <1>7 DEF TypeOK, RollLast, rvars
  <1>10. ILock'
    BY <1>i, <1>1, <1>7, <1>8 DEF ILock, RollLast, TypeOK
  <1>11. IFree'
    BY <1>i, <1>7, <1>q DEF IFree
  <1>12. IPages' /\ NextPageReady'
    <2>1. ~Busy({"created", "ready", "marked"}) /\ ~Busy({"ready", "marked"}) BY <1>0, <1>1
    <2> QED BY <2>1, <1>4, <1>5, <1>7, <1>tt, LastMoved
  <1>13. ILast'
    BY <1>2, <1>7 DEF ILast, Last
  <1>14. IWriter'
    <2>1. wpos = PageHeader BY <1>2 DEF TailPos
    <2>2. PageHeader + Hdr + dlen[t] < Border BY <1>1, FitAssumption
    <2>3. NextPos(t)' < Border BY <2>1, <2>2, <1>7 DEF NextPos
    <2> QED BY <2>3, <1>1, <1>2, <1>7, <1>8, <1>q DEF IWriter, Busy
  <1>15. IBoot'
    BY <1>1, <1>7 DEF IBoot
  <1> QED BY <1>q, <1>9, <1>10, <1>11, <1>12, <1>13, <1>14, <1>15, <1>i, <1>7, <1>tt DEF IInv

LEMMA CloseFramePreserves ==
    ASSUME IInv, NEW t \in Thread, CloseFrame(t)
    PROVE  IInv'
  <1>i. /\ TypeOK /\ ILock /\ IEntry /\ IFree /\ IPages /\ ILast /\ IWriter /\ IBoot /\ FramesIntact
        /\ clock >= 1 /\ ITorn
    BY DEF IInv
  <1>0. pc[t] = "published" BY DEF CloseFrame
  <1>1. /\ holder = t /\ holder # NoThread /\ wst = "up" /\ dlen[t] \in DataLen
        /\ dlen[t] \in Nat /\ \A S : Busy(S) <=> pc[t] \in S
    BY <1>0, Inside
  <1>2. /\ Len(log) > 0 /\ Last.typ = "Data" /\ Last.page = wpage /\ Last.pos = wpos
    BY <1>0, <1>1, <1>i DEF IWriter
  <1>3. Len(log) \in 1 .. Len(log) /\ Len(log) \in 1 .. Len(log) + 1
    BY <1>2, <1>i DEF TypeOK
  <1>4. Last.page \in Page /\ Last.pos \in Pos
    BY <1>3, <1>i, EntryType DEF Last
  <1>5. OnFrame(Last.page, Last.pos) BY <1>3 DEF OnFrame, At, Last
  <1>6. mem[wpage][wpos].len = Last.len
    <2>1. Intact(Len(log)) BY <1>3, <1>i DEF FramesIntact
    <2> QED BY <2>1, <1>2 DEF Intact, Last
  <1>6a. TailPage = wpage /\ TailPos = wpos + Last.len /\ TailPos \in Pos
    BY <1>2, <1>i, TailType DEF TailPage, TailPos
  <1>7. /\ log' = log /\ mem' = mem /\ file' = file /\ last' = [last EXCEPT ![Last.page] = Last.pos]
        /\ clock' = clock /\ wst' = wst /\ wpage' = wpage /\ wpos' = TailPos
        /\ holder' = NoThread /\ UNCHANGED rvars
    BY <1>2, <1>6, <1>6a DEF CloseFrame
  <1>tt. ~torn /\ ~torn' /\ ITorn'
    <2>1. torn' = torn BY DEF CloseFrame
    <2> QED BY <1>i, <1>1, <1>7, <2>1, Whole DEF ITorn
  <1>8. \A S : ~Busy(S)' BY <1>7 DEF Busy
  <1>q. /\ TailPage' = TailPage /\ TailPos' = TailPos
        /\ \A p \in Page, a \in Pos : OnFrame(p, a) <=> OnFrame(p, a)'
        /\ IEntry' /\ IChain' /\ FramesIntact' /\ InOrder' /\ IReader'
    <2>1. OldKept BY <1>7 DEF OldKept
    <2>2. clock' \in Nat /\ clock' >= clock BY <1>i, <1>7 DEF TypeOK
    <2> QED BY <2>1, <2>2, <1>0, <1>1, <1>7, QuietStep
  <1>9. TypeOK'
    BY <1>i, <1>4, <1>6a, <1>7 DEF TypeOK, CloseFrame, rvars
  <1>10. ILock'
    <2>1. \A u \in Thread : u # t => pc[u] = "idle" BY <1>1, <1>i DEF ILock
    <2>2. \A u \in Thread : pc'[u] = "idle" BY <2>1, <1>i DEF CloseFrame, TypeOK
    <2> QED BY <2>2, <1>7 DEF ILock
  <1>11. IFree'
    BY <1>i, <1>7, <1>q DEF IFree
  <1>12. IPages' /\ NextPageReady'
    <2>1. ~Busy({"created", "ready", "marked"}) /\ ~Busy({"ready", "marked"}) BY <1>0, <1>1
    <2> QED BY <2>1, <1>4, <1>5, <1>7, <1>tt, LastMoved
  <1>13. ILast'
    <2>1. last'[Last.page] = Last.pos BY <1>7, <1>4, <1>i DEF TypeOK
    <2> QED BY <2>1, <1>7 DEF ILast, Last
  <1>14. IWriter'
    BY <1>6a, <1>7, <1>8, <1>q DEF IWriter
  <1>15. IBoot'
    BY <1>1, <1>7 DEF IBoot
  <1> QED BY <1>q, <1>9, <1>10, <1>11, <1>12, <1>13, <1>14, <1>15, <1>i, <1>7, <1>tt DEF IInv

-----------------------------------------------------------------------------
(* Publishing a frame. *)

(* The frame at the tail becomes the last entry of the log. *)
LEMMA AppendStep ==
    ASSUME IInv, NEW e \in Entry, log' = Append(log, e),
           e.page = TailPage, e.pos = TailPos, e.len >= Hdr, e.gen \in 1 .. clock,
           e.typ = "Data" => e.pos + e.len < Border,
           e.typ = "PageEnd" => e.len = Hdr /\ e.pos < Border /\ e.page + 1 \in Page,
           Busy({"ready", "marked"}) => e.typ = "PageEnd",
           \A a \in e.pos + Hdr .. e.pos + e.len - Hdr : mem[e.page][a] = Bytes(Len(log) + 1),
           mem'[TailPage][TailPos] = [len |-> e.len, typ |-> e.typ, gen |-> e.gen, val |-> Len(log) + 1],
           \A q \in Page, b \in Pos : (q # TailPage \/ b # TailPos) => mem'[q][b] = mem[q][b],
           clock' = clock, file' = file, UNCHANGED rvars
    PROVE  /\ Len(log') = Len(log) + 1 /\ Len(log') > 0 /\ Last' = e
           /\ TailPage' = (IF e.typ = "PageEnd" THEN TailPage + 1 ELSE TailPage)
           /\ TailPos' = (IF e.typ = "PageEnd" THEN PageHeader ELSE TailPos + e.len)
           /\ \A p \in Page, a \in Pos : OnFrame(p, a) => OnFrame(p, a)'
           /\ OnFrame(TailPage, TailPos)'
           /\ IEntry' /\ IChain' /\ FramesIntact' /\ InOrder' /\ IReader'
  <1>i. /\ TypeOK /\ IEntry /\ IChain /\ FramesIntact /\ IReader /\ InOrder
    BY DEF IInv
  <1>n. PICK n \in Nat : n = Len(log)
    BY <1>i DEF TypeOK
  <1>0. /\ n \in Nat /\ n = Len(log) /\ TailPage \in Page /\ TailPos \in Pos /\ TailPage \in Nat /\ TailPos \in Nat
        /\ TailPos >= PageHeader /\ TailPos <= Border /\ log \in Seq(Entry) /\ clock \in Nat
    BY <1>n, <1>i, TailType, Sizes DEF TypeOK
  <1>e. e.len \in Nat /\ e.typ \in {"Data", "PageEnd"} /\ e.gen \in Nat
    BY DEF Entry
  <1>1. Len(log') = n + 1 /\ log'[n + 1] = e /\ \A i \in 1 .. n : log'[i] = log[i]
    BY <1>0
  <1>2. Last' = e /\ Len(log') > 0
    BY <1>0, <1>1 DEF Last
  <1>3. /\ TailPage' = (IF e.typ = "PageEnd" THEN TailPage + 1 ELSE TailPage)
        /\ TailPos' = (IF e.typ = "PageEnd" THEN PageHeader ELSE TailPos + e.len)
    BY <1>0, <1>1, <1>2 DEF TailPage, TailPos
  <1>4. \A i \in 1 .. n + 1 : \A p, a : At(i, p, a) => At(i, p, a)'
    <2> SUFFICES ASSUME NEW i \in 1 .. n + 1, NEW p, NEW a, At(i, p, a) PROVE At(i, p, a)'
      OBVIOUS
    <2>1. CASE i \in 1 .. n
      <3>1. p = log[i].page /\ a = log[i].pos BY <2>1, <1>0 DEF At
      <3> QED BY <2>1, <3>1, <1>0, <1>1 DEF At
    <2>2. CASE i = n + 1
      <3>1. p = TailPage /\ a = TailPos BY <2>2, <1>0 DEF At
      <3>2. i \in 1 .. Len(log') /\ log'[i] = e BY <2>2, <1>0, <1>1
      <3> QED BY <3>1, <3>2 DEF At
    <2> QED BY <2>1, <2>2, <1>0
  <1>5. At(n + 2, TailPage, TailPos)' /\ n + 2 \in 1 .. Len(log') + 1
    BY <1>0, <1>1 DEF At
  <1>6. /\ \A p, a : OnFrame(p, a) => OnFrame(p, a)'
        /\ OnFrame(TailPage, TailPos)'
    <2>1. ASSUME NEW p, NEW a, OnFrame(p, a) PROVE OnFrame(p, a)'
      <3>1. PICK i \in 1 .. n + 1 : At(i, p, a) BY <2>1, <1>0 DEF OnFrame
      <3>2. At(i, p, a)' BY <3>1, <1>4
      <3>3. i \in 1 .. Len(log') + 1 BY <1>0, <1>1
      <3> QED BY <3>2, <3>3 DEF OnFrame
    <2>2. OnFrame(TailPage, TailPos)' BY <1>5 DEF OnFrame
    <2> QED BY <2>1, <2>2
  <1>7. IEntry'
    <2>1. TailPage' \in Page BY <1>0, <1>3
    <2>2. ASSUME NEW i \in 1 .. n + 1
          PROVE  /\ log'[i].page \in Page /\ log'[i].pos >= PageHeader /\ log'[i].len >= Hdr
                 /\ log'[i].typ = "Data" => log'[i].pos + log'[i].len < Border
                 /\ log'[i].typ = "PageEnd" => /\ log'[i].len = Hdr
                                                /\ log'[i].pos < Border
                                                /\ log'[i].page < TailPage'
                 /\ log'[i].gen \in 1 .. clock
                 /\ \/ log'[i].page < TailPage'
                    \/ log'[i].page = TailPage' /\ log'[i].pos + log'[i].len <= TailPos'
      <3>1. CASE i \in 1 .. n
        <4>1. /\ log[i].page \in Nat /\ log[i].pos \in Nat /\ log[i].len \in Nat
          BY <3>1, <1>i, EntryType, <1>0
        <4>2. /\ log[i].page \in Page /\ log[i].pos >= PageHeader /\ log[i].len >= Hdr
              /\ log[i].typ = "Data" => log[i].pos + log[i].len < Border
              /\ log[i].typ = "PageEnd" => /\ log[i].len = Hdr
                                            /\ log[i].pos < Border
                                            /\ log[i].page < TailPage
              /\ log[i].gen \in 1 .. clock
              /\ \/ log[i].page < TailPage
                 \/ log[i].page = TailPage /\ log[i].pos + log[i].len <= TailPos
          BY <3>1, <1>0, <1>i DEF IEntry
        <4>3. log'[i] = log[i] BY <3>1, <1>1
        <4>4. \/ log[i].page < TailPage'
              \/ log[i].page = TailPage' /\ log[i].pos + log[i].len <= TailPos'
          <5>1. CASE e.typ = "PageEnd" BY <5>1, <4>1, <4>2, <1>0, <1>3
          <5>2. CASE e.typ # "PageEnd" BY SMTT(30), <5>2, <4>1, <4>2, <1>0, <1>3, <1>e
          <5> QED BY <5>1, <5>2
        <4>5. log[i].page < TailPage => log[i].page < TailPage' BY <4>1, <1>0, <1>3
        <4> QED BY <4>2, <4>3, <4>4, <4>5
      <3>2. CASE i = n + 1
        <4>1. log'[i] = e BY <3>2, <1>1
        <4>2. \/ e.page < TailPage'
              \/ e.page = TailPage' /\ e.pos + e.len <= TailPos'
          BY <1>0, <1>3, <1>e
        <4>3. e.typ = "PageEnd" => e.page < TailPage' BY <1>0, <1>3
        <4> QED BY <4>1, <4>2, <4>3, <1>0
      <3> QED BY <3>1, <3>2, <1>0
    <2> QED BY <2>1, <2>2, <1>1 DEF IEntry
  <1>8. IChain'
    <2>1. log'[1].page = 1 /\ log'[1].pos = PageHeader
      <3>1. CASE n = 0 BY <3>1, <1>0, <1>1 DEF TailPage, TailPos
      <3>2. CASE n > 0 BY <3>2, <1>0, <1>1, <1>i DEF IChain
      <3> QED BY <3>1, <3>2, <1>0
    <2>2. ASSUME NEW i \in 1 .. n PROVE Linked(log'[i], log'[i + 1])
      <3>1. CASE i < n
        <4>1. log'[i] = log[i] /\ log'[i + 1] = log[i + 1] BY <3>1, <1>0, <1>1
        <4>2. Linked(log[i], log[i + 1]) BY <3>1, <1>0, <1>i DEF IChain, ChainUnbroken
        <4> QED BY <4>1, <4>2
      <3>2. CASE i = n
        <4>1. log'[i] = Last /\ log'[i + 1] = e /\ n > 0 BY <3>2, <1>0, <1>1 DEF Last
        <4> QED BY <4>1, <1>0 DEF Linked, TailPage, TailPos
      <3> QED BY <3>1, <3>2, <1>0
    <2>3. \A i \in 1 .. Len(log') - 1 : i \in 1 .. n BY <1>0, <1>1
    <2> QED BY <2>1, <2>2, <2>3 DEF IChain, ChainUnbroken, Linked
  <1>9. FramesIntact'
    <2>0. OldKept
      <3> SUFFICES ASSUME NEW q \in Page, NEW b \in Pos, q < TailPage \/ (q = TailPage /\ b < TailPos)
                   PROVE  mem'[q][b] = mem[q][b]
        BY DEF OldKept
      <3>1. q # TailPage \/ b # TailPos BY <1>0, Sizes
      <3> QED BY <3>1
    <2>1. ASSUME NEW i \in 1 .. n + 1 PROVE Intact(i)'
      <3>1. CASE i \in 1 .. n
        BY <3>1, <2>0, <1>0, <1>1, <1>i, IntactKept DEF FramesIntact
      <3>2. CASE i = n + 1
        <4>1. log'[i] = e /\ i = Len(log) + 1 BY <3>2, <1>0, <1>1
        <4>2. ASSUME NEW a \in e.pos + Hdr .. e.pos + e.len - Hdr
              PROVE  mem'[e.page][a] = Bytes(i)
          <5>1. a \in Pos /\ a # TailPos
            <6>1. a \in Int /\ TailPos + 1 <= a /\ a <= TailPos + e.len - 1 BY <1>0, <1>e
            <6>2. TailPos + e.len <= PageSize
              <7>1. CASE e.typ = "Data" BY <7>1, <1>0, <1>e, Sizes
              <7>2. CASE e.typ = "PageEnd" BY <7>2, <1>0, Sizes
              <7> QED BY <7>1, <7>2, <1>e
            <6>3. 0 <= a /\ a <= PageSize /\ a # TailPos BY SMTT(30), <6>1, <6>2, <1>0, <1>e, Sizes
            <6> QED BY <6>1, <6>3 DEF Pos
          <5> QED BY <5>1, <4>1, <1>0
        <4> QED BY <4>1, <4>2 DEF Intact
      <3> QED BY <3>1, <3>2, <1>0
    <2> QED BY <2>1, <1>1 DEF FramesIntact
  <1>10. InOrder'
    <2>1. \A k : k \in 1 .. n => k \in 1 .. Len(log') BY <1>0, <1>1
    <2>2. seen' = seen BY DEF rvars
    <2> QED BY <2>1, <2>2, <1>0, <1>i DEF InOrder
  <1>11. IReader'
    <2> SUFFICES ASSUME NEW r \in Reader
                 PROVE  (/\ rst[r] \in {"full", "skip"} =>
                              OnFrame(rpage[r], rpos[r]) \/ Ahead(rpage[r], rpos[r])
                         /\ rst[r] \in {"out", "scan", "full", "skip"} => seen[r] = <<>>
                         /\ rst[r] = "read" =>
                              \/ Ahead(rpage[r], rpos[r]) /\ seen[r] = <<>>
                              \/ \E i \in 1 .. Len(log) + 1 :
                                    /\ At(i, rpage[r], rpos[r])
                                    /\ Len(seen[r]) > 0 => seen[r][Len(seen[r])] = i - 1
                         /\ rtodo[r] \subseteq file
                         /\ rst[r] = "scan" => rtodo[r] # {})'
      BY DEF IReader
    <2>1. rst' = rst /\ rpage' = rpage /\ rpos' = rpos /\ seen' = seen /\ rtodo' = rtodo
      BY DEF rvars
    <2>2. OnFrame(rpage[r], rpos[r]) => OnFrame(rpage[r], rpos[r])'
      <3>1. \A p, a : p = rpage[r] /\ a = rpos[r] /\ OnFrame(p, a) => OnFrame(p, a)' BY <1>6
      <3> QED BY <3>1, <2>1 DEF OnFrame, At
    <2>3. Ahead(rpage[r], rpos[r]) => At(n + 2, rpage[r], rpos[r])'
      <3>1. Ahead(rpage[r], rpos[r]) => rpage[r] = TailPage' /\ rpos[r] = TailPos'
        BY <1>3 DEF Ahead
      <3>2. n + 2 = Len(log') + 1 BY <1>0, <1>1
      <3> QED BY <3>1, <3>2, <2>1 DEF At
    <2>4. \A i \in 1 .. n + 1 : At(i, rpage[r], rpos[r]) => At(i, rpage[r], rpos[r])'
      <3> SUFFICES ASSUME NEW i \in 1 .. n + 1, At(i, rpage[r], rpos[r])
                   PROVE  At(i, rpage[r], rpos[r])'
        OBVIOUS
      <3>1. \A p, a : p = rpage[r] /\ a = rpos[r] /\ At(i, p, a) => At(i, p, a)' BY <1>4
      <3> QED BY <3>1, <2>1 DEF At
    <2>5. n + 2 \in 1 .. Len(log') + 1 /\ \A i \in 1 .. n + 1 : i \in 1 .. Len(log') + 1
      BY <1>0, <1>1
    <2>6. Ahead(rpage[r], rpos[r]) => OnFrame(rpage[r], rpos[r])'
      BY <2>3, <2>5 DEF OnFrame
    <2>7. rst[r] = "read" => \E i \in 1 .. Len(log') + 1 :
                                    /\ At(i, rpage[r], rpos[r])'
                                    /\ Len(seen[r]) > 0 => seen[r][Len(seen[r])] = i - 1
      <3> SUFFICES ASSUME rst[r] = "read"
                   PROVE  \E i \in 1 .. Len(log') + 1 :
                                    /\ At(i, rpage[r], rpos[r])'
                                    /\ Len(seen[r]) > 0 => seen[r][Len(seen[r])] = i - 1
        OBVIOUS
      <3>1. CASE Ahead(rpage[r], rpos[r]) /\ seen[r] = <<>>
        <4>1. At(n + 2, rpage[r], rpos[r])' BY <3>1, <2>3
        <4> QED BY <4>1, <3>1, <2>5
      <3>2. CASE \E i \in 1 .. n + 1 :
                    /\ At(i, rpage[r], rpos[r])
                    /\ Len(seen[r]) > 0 => seen[r][Len(seen[r])] = i - 1
        <4>1. PICK i \in 1 .. n + 1 :
                    /\ At(i, rpage[r], rpos[r])
                    /\ Len(seen[r]) > 0 => seen[r][Len(seen[r])] = i - 1
          BY <3>2
        <4>2. At(i, rpage[r], rpos[r]) BY <4>1
        <4>3. At(i, rpage[r], rpos[r])' BY <4>2, <2>4
        <4>4. i \in 1 .. Len(log') + 1 BY <2>5
        <4> QED BY <4>1, <4>3, <4>4
      <3> QED BY <3>1, <3>2, <1>0, <1>i DEF IReader
    <2>8. /\ rst[r] \in {"full", "skip"} => OnFrame(rpage[r], rpos[r])'
          /\ rst[r] \in {"out", "scan", "full", "skip"} => seen[r] = <<>>
          /\ rtodo[r] \subseteq file
          /\ rst[r] = "scan" => rtodo[r] # {}
      BY <2>2, <2>6, <1>i DEF IReader
    <2> QED BY <2>1, <2>7, <2>8
  <1> QED BY <1>1, <1>2, <1>3, <1>6, <1>7, <1>8, <1>9, <1>10, <1>11, <1>0

LEMMA PublishPreserves ==
    ASSUME IInv, NEW t \in Thread, Publish(t)
    PROVE  IInv'
  <1>i. /\ TypeOK /\ ILock /\ IFree /\ IPages /\ IWriter /\ IBoot /\ NextPageReady
        /\ clock >= 1 /\ ITorn
    BY DEF IInv
  <1>0. pc[t] = "stamped" BY DEF Publish
  <1>1. /\ wpage = TailPage /\ wpos = TailPos /\ NextPos(t) < Border
        /\ TailPage \in Page /\ TailPos \in Pos /\ TailPage \in Nat /\ TailPos \in Nat
        /\ NextPos(t) \in Pos /\ NextPos(t) > TailPos /\ NextPos(t) = TailPos + 1 + dlen[t]
        /\ \A a \in wpos + Hdr .. wpos + dlen[t] : mem[wpage][a] = Bytes(Len(log) + 1)
        /\ mem[TailPage][TailPos].typ = "Data" /\ mem[TailPage][TailPos].val = Len(log) + 1
        /\ Len(log) \in Nat /\ dlen[t] \in Nat /\ mem \in Memory
    BY <1>0, OpenParts
  <1>2. /\ holder = t /\ holder # NoThread /\ wst = "up" /\ \A S : Busy(S) <=> pc[t] \in S
    BY <1>0, Inside
  <1>3. mem[TailPage][TailPos].gen \in 1 .. clock /\ mem[TailPage][NextPos(t)] = Zero
    BY <1>0, <1>1, <1>2, <1>i DEF IWriter
  <1> DEFINE h == mem[TailPage][TailPos]
             g == [h EXCEPT !.len = Hdr + dlen[t]]
             e == [page |-> TailPage, pos |-> TailPos, len |-> Hdr + dlen[t],
                   gen |-> h.gen, typ |-> "Data"]
  <1>4. h \in Header BY <1>1 DEF Memory
  <1>5. /\ g \in Header
        /\ g = [len |-> Hdr + dlen[t], typ |-> "Data", gen |-> h.gen, val |-> Len(log) + 1]
    BY <1>1, <1>4, SetLen
  <1>6. /\ mem' \in Memory /\ mem'[TailPage][TailPos] = g
        /\ \A q \in Page, b \in Pos : (q # TailPage \/ b # TailPos) => mem'[q][b] = mem[q][b]
    <2>1. Store(TailPage, TailPos, g) BY <1>1 DEF Publish
    <2> QED BY <1>1, <1>5, <2>1, StoreMem
  <1>7. /\ e \in Entry /\ e.page = TailPage /\ e.pos = TailPos /\ e.len = 1 + dlen[t]
        /\ e.gen = h.gen /\ e.typ = "Data"
    <2>1. h.gen \in Nat BY <1>4 DEF Header
    <2> QED BY <2>1, <1>1 DEF Entry
  <1>8. log' = Append(log, e) BY <1>1 DEF Publish
  <1>9. g = [len |-> e.len, typ |-> e.typ, gen |-> e.gen, val |-> Len(log) + 1]
    BY <1>5, <1>7
  <1> HIDE DEF e, g
  <1>10. /\ file' = file /\ last' = last /\ clock' = clock /\ wst' = wst /\ wpage' = wpage
         /\ wpos' = wpos /\ holder' = holder /\ dlen' = dlen /\ UNCHANGED rvars
         /\ pc'[t] = "published"
    BY <1>i DEF Publish, TypeOK
  <1>tt. ~torn /\ ~torn' /\ ITorn'
    <2>1. torn' = torn BY DEF Publish
    <2> QED BY <1>i, <1>10, <1>2, <2>1, Whole DEF ITorn
  <1>11. /\ Len(log') = Len(log) + 1 /\ Len(log') > 0 /\ Last' = e
         /\ TailPage' = TailPage /\ TailPos' = NextPos(t)
         /\ \A p \in Page, a \in Pos : OnFrame(p, a) => OnFrame(p, a)'
         /\ IEntry' /\ IChain' /\ FramesIntact' /\ InOrder' /\ IReader'
    <2>0. e.gen \in 1 .. clock BY <1>3, <1>7
    <2>1. e.len >= Hdr /\ e.gen \in 1 .. clock /\ e.pos + e.len < Border
      <3>1. e.len >= Hdr BY <1>1, <1>7
      <3>2. e.pos + e.len = NextPos(t) BY <1>1, <1>7
      <3> QED BY <2>0, <3>1, <3>2, <1>1
    <2>2. \A a \in e.pos + Hdr .. e.pos + e.len - Hdr : mem[e.page][a] = Bytes(Len(log) + 1)
      <3>1. e.pos + e.len - Hdr = wpos + dlen[t] /\ e.pos + Hdr = wpos + Hdr /\ e.page = wpage
        BY <1>1, <1>7
      <3> QED BY <3>1, <1>1
    <2>3. ~Busy({"ready", "marked"}) BY <1>0, <1>2
    <2>4. mem'[TailPage][TailPos] = [len |-> e.len, typ |-> e.typ, gen |-> e.gen, val |-> Len(log) + 1]
      BY <1>6, <1>9
    <2>5. /\ Len(log') = Len(log) + 1 /\ Len(log') > 0 /\ Last' = e
          /\ TailPage' = (IF e.typ = "PageEnd" THEN TailPage + 1 ELSE TailPage)
          /\ TailPos' = (IF e.typ = "PageEnd" THEN PageHeader ELSE TailPos + e.len)
          /\ \A p \in Page, a \in Pos : OnFrame(p, a) => OnFrame(p, a)'
          /\ IEntry' /\ IChain' /\ FramesIntact' /\ InOrder' /\ IReader'
      BY <2>1, <2>2, <2>3, <2>4, <1>6, <1>7, <1>8, <1>10, AppendStep
    <2> QED BY <2>5, <1>1, <1>7
  <1>12. TypeOK'
    BY <1>i, <1>6, <1>7, <1>8, <1>10 DEF TypeOK, Publish, rvars
  <1>13. ILock'
    BY <1>i, <1>2, <1>10 DEF ILock, Publish, TypeOK
  <1>14. IFree'
    <2>1. NextPos(t) # TailPos BY <1>1, Sizes
    <2>2. mem'[TailPage][NextPos(t)].len = 0 BY <2>1, <1>1, <1>3, <1>6 DEF Zero
    <2>3. ASSUME NEW p \in Page, NEW a \in Pos, p > TailPage PROVE mem'[p][a] = Zero
      <3>1. p # TailPage BY <2>3, <1>1, Sizes
      <3> QED BY <3>1, <2>3, <1>6, <1>i DEF IFree
    <2> QED BY <2>2, <2>3, <1>11 DEF IFree
  <1>15. IPages'
    <2> SUFFICES ASSUME NEW p \in Page
                 PROVE  /\ p <= TailPage => /\ p \in file
                                            /\ OnFrame(p, PageHeader)'
                                            /\ OnFrame(p, last[p])'
                        /\ p > TailPage => ~Ready(p) /\ p \notin file
      BY <1>10, <1>11 DEF IPages, Ready
    <2>1. ~Busy({"ready", "marked"}) /\ ~Busy({"created", "ready", "marked"}) BY <1>0, <1>2
    <2>2. PICK b \in Pos : b = last[p] BY <1>i DEF TypeOK
    <2>3. OnFrame(p, b) => OnFrame(p, b)' BY <1>11
    <2>4. OnFrame(p, last[p]) => OnFrame(p, last[p])'
      BY <2>2, <2>3, <1>10 DEF OnFrame, At
    <2> QED BY <2>1, <2>4, <1>i, <1>11, <1>tt, Sizes DEF IPages
  <1>16. ILast'
    BY <1>2, <1>10 DEF ILast, Busy
  <1>17. IWriter'
    <2>1. NextPos(t)' = NextPos(t) BY <1>10 DEF NextPos
    <2> QED BY <2>1, <1>1, <1>2, <1>7, <1>10, <1>11 DEF IWriter, Busy
  <1>18. IBoot'
    BY <1>2, <1>10 DEF IBoot
  <1>19. NextPageReady'
    <2> SUFFICES ASSUME NEW p \in Page, NEW a \in Pos,
                        HasData(p, a)', mem'[p][a].typ = "PageEnd"
                 PROVE  p + 1 \in Page /\ Ready(p + 1)
      BY <1>10 DEF NextPageReady, Ready
    <2>1. p # TailPage \/ a # TailPos BY <1>5, <1>6
    <2>2. mem'[p][a] = mem[p][a] /\ HasData(p, a) BY <2>1, <1>6 DEF HasData
    <2> QED BY <2>2, <1>i DEF NextPageReady
  <1> QED BY <1>11, <1>12, <1>13, <1>14, <1>15, <1>16, <1>17, <1>18, <1>19, <1>i, <1>10, <1>tt DEF IInv

LEMMA RollEndPreserves ==
    ASSUME IInv, NEW t \in Thread, RollEnd(t)
    PROVE  IInv'
  <1>i. /\ TypeOK /\ ILock /\ IEntry /\ IFree /\ IPages /\ ILast /\ IWriter /\ IBoot /\ NextPageReady
        /\ clock >= 1 /\ ITorn
    BY DEF IInv
  <1>0. pc[t] = "marked" BY DEF RollEnd
  <1>1. /\ holder = t /\ holder # NoThread /\ wst = "up" /\ \A S : Busy(S) <=> pc[t] \in S
    BY <1>0, Inside
  <1>2. TailPage \in Page /\ TailPos \in Pos /\ TailPage \in Nat /\ TailPos \in Nat /\ Len(log) \in Nat
    BY <1>i, TailType, Sizes
  <1>3. /\ Len(log) > 0 /\ Last.typ = "Data" /\ wpage = TailPage + 1
        /\ wpos = PageHeader /\ last[wpage] = PageHeader /\ wpage \in file
        /\ mem[TailPage][TailPos].typ = "PageEnd" /\ mem[TailPage][TailPos].val = Len(log) + 1
        /\ mem[TailPage][TailPos].gen \in 1 .. clock
    BY <1>0, <1>1, <1>i DEF IWriter
  <1>3a. wpage \in Page /\ mem \in Memory BY <1>i DEF TypeOK
  <1>4. wpage - 1 = TailPage /\ EndPos(TailPage) = TailPos /\ TailPage = Last.page
    BY <1>0, <1>1, <1>2, <1>3, EndOfPage
  <1>5. TailPos = Last.pos + Last.len /\ Last.len >= 1 /\ TailPos < Border /\ last[TailPage] = Last.pos
        /\ Last.pos \in Pos /\ Last.pos \in Nat
    <2>1. Len(log) \in 1 .. Len(log) BY <1>2, <1>3
    <2>2. TailPos = Last.pos + Last.len BY <1>2, <1>3 DEF TailPos
    <2>3. Last.len >= 1 /\ Last.pos + Last.len < Border
      BY <2>1, <1>3, <1>i DEF IEntry, Last
    <2>4. last[Last.page] = Last.pos BY <1>0, <1>1, <1>3, <1>i DEF ILast
    <2>5. Last.pos \in Pos /\ Last.pos \in Nat BY <2>1, <1>i, EntryType DEF Last
    <2> QED BY <2>2, <2>3, <2>4, <2>5, <1>4
  <1> DEFINE h == mem[TailPage][TailPos]
             g == [h EXCEPT !.len = Hdr]
             e == [page |-> TailPage, pos |-> TailPos, len |-> Hdr,
                   gen |-> h.gen, typ |-> "PageEnd"]
  <1>6. h \in Header BY <1>2, <1>3a DEF Memory
  <1>7. /\ g \in Header
        /\ g = [len |-> Hdr, typ |-> "PageEnd", gen |-> h.gen, val |-> Len(log) + 1]
    BY <1>3, <1>6, SetLen
  <1>8. /\ mem' \in Memory /\ mem'[TailPage][TailPos] = g
        /\ \A q \in Page, b \in Pos : (q # TailPage \/ b # TailPos) => mem'[q][b] = mem[q][b]
    <2>1. Store(TailPage, TailPos, g) BY <1>4 DEF RollEnd
    <2> QED BY <1>2, <1>3a, <1>7, <2>1, StoreMem
  <1>9. /\ e \in Entry /\ e.page = TailPage /\ e.pos = TailPos /\ e.len = 1
        /\ e.gen = h.gen /\ e.typ = "PageEnd"
    <2>1. h.gen \in Nat BY <1>6 DEF Header
    <2> QED BY <2>1, <1>2 DEF Entry
  <1>10. log' = Append(log, e) BY <1>4 DEF RollEnd
  <1>11. g = [len |-> e.len, typ |-> e.typ, gen |-> e.gen, val |-> Len(log) + 1]
    BY <1>7, <1>9
  <1> HIDE DEF e, g
  <1>12. /\ file' = file /\ last' = last /\ clock' = clock /\ wst' = wst /\ wpage' = wpage
         /\ wpos' = wpos /\ holder' = holder /\ dlen' = dlen /\ UNCHANGED rvars
         /\ pc'[t] = "ended"
    BY <1>i DEF RollEnd, TypeOK
  <1>tt. ~torn /\ ~torn' /\ ITorn'
    <2>1. torn' = torn BY DEF RollEnd
    <2> QED BY <1>i, <1>1, <1>12, <2>1, Whole DEF ITorn
  <1>13. /\ Len(log') = Len(log) + 1 /\ Len(log') > 0 /\ Last' = e
         /\ TailPage' = TailPage + 1 /\ TailPos' = PageHeader
         /\ \A p \in Page, a \in Pos : OnFrame(p, a) => OnFrame(p, a)'
         /\ OnFrame(TailPage, TailPos)'
         /\ IEntry' /\ IChain' /\ FramesIntact' /\ InOrder' /\ IReader'
    <2>1. /\ e.len >= Hdr /\ e.gen \in 1 .. clock /\ e.len = Hdr /\ e.pos < Border
          /\ e.page + 1 \in Page
      BY <1>3, <1>3a, <1>5, <1>9
    <2>2. \A a \in e.pos + Hdr .. e.pos + e.len - Hdr : mem[e.page][a] = Bytes(Len(log) + 1)
      BY <1>2, <1>9
    <2>4. mem'[TailPage][TailPos] = [len |-> e.len, typ |-> e.typ, gen |-> e.gen, val |-> Len(log) + 1]
      BY <1>8, <1>11
    <2>5. /\ Len(log') = Len(log) + 1 /\ Len(log') > 0 /\ Last' = e
          /\ TailPage' = (IF e.typ = "PageEnd" THEN TailPage + 1 ELSE TailPage)
          /\ TailPos' = (IF e.typ = "PageEnd" THEN PageHeader ELSE TailPos + e.len)
          /\ \A p \in Page, a \in Pos : OnFrame(p, a) => OnFrame(p, a)'
          /\ OnFrame(TailPage, TailPos)'
          /\ IEntry' /\ IChain' /\ FramesIntact' /\ InOrder' /\ IReader'
      BY <2>1, <2>2, <2>4, <1>8, <1>9, <1>10, <1>12, AppendStep
    <2> QED BY <2>5, <1>9
  <1>14. TypeOK'
    BY <1>i, <1>8, <1>9, <1>10, <1>12 DEF TypeOK, RollEnd, rvars
  <1>15. ILock'
    BY <1>i, <1>1, <1>12 DEF ILock, RollEnd, TypeOK
  <1>16. IFree'
    <2>1. ASSUME NEW p \in Page, NEW a \in Pos, p > TailPage PROVE mem'[p][a] = Zero
      <3>1. p # TailPage BY <2>1, <1>2, Sizes
      <3> QED BY <3>1, <2>1, <1>8, <1>i DEF IFree
    <2>2. mem'[TailPage + 1][PageHeader].len = 0
      <3>1. mem'[wpage][PageHeader] = Zero BY <2>1, <1>2, <1>3, <1>3a, Sizes
      <3> QED BY <3>1, <1>3 DEF Zero
    <2>3. \A p \in Page : p > TailPage + 1 => p > TailPage BY <1>2, Sizes
    <2> QED BY <2>1, <2>2, <2>3, <1>13 DEF IFree
  <1>17. IPages'
    <2> SUFFICES ASSUME NEW p \in Page
                 PROVE  /\ p <= TailPage + 1 => /\ p \in file
                                                /\ OnFrame(p, PageHeader)'
                                                /\ OnFrame(p, last[p])'
                        /\ p > TailPage + 1 => ~Ready(p) /\ p \notin file
      BY <1>12, <1>13 DEF IPages, Ready
    <2>1. p > TailPage + 1 => p > TailPage /\ p # TailPage + 1 BY <1>2, Sizes
    <2>2. CASE p <= TailPage
      <3>1. PICK b \in Pos : b = last[p] BY <1>i DEF TypeOK
      <3>2. OnFrame(p, b) => OnFrame(p, b)' BY <1>13
      <3>3. OnFrame(p, last[p]) => OnFrame(p, last[p])'
        BY <3>1, <3>2, <1>12 DEF OnFrame, At
      <3>4. ~(p > TailPage + 1) BY <2>2, <1>2, Sizes
      <3> QED BY <2>2, <3>3, <3>4, <1>i, <1>13, <1>tt, Sizes DEF IPages
    <2>3. CASE p = TailPage + 1
      <3>1. p = TailPage' /\ PageHeader = TailPos' /\ last'[p] = TailPos' /\ p = wpage
        BY <2>3, <1>3, <1>12, <1>13
      <3>2. OnFrame(p, PageHeader)' /\ OnFrame(p, last[p])'
        BY <3>1, <1>13 DEF OnFrame, At
      <3>3. ~(p > TailPage + 1) BY <2>3, <1>2, Sizes
      <3> QED BY <3>1, <3>2, <3>3, <1>3
    <2>4. CASE p > TailPage + 1
      <3>1. ~(p <= TailPage + 1) BY <2>4, <1>2, Sizes
      <3> QED BY <2>1, <2>4, <3>1, <1>i, <1>tt DEF IPages
    <2> QED BY <2>2, <2>3, <2>4, <1>2, Sizes
  <1>18. ILast'
    BY <1>9, <1>13 DEF ILast
  <1>19. IWriter'
    <2>2. EndPos(Last.page)' = Last'.pos
      <3>1. Last'.page = TailPage /\ Last'.pos = TailPos BY <1>9, <1>13
      <3>2. last'[TailPage] + mem'[TailPage][last'[TailPage]].len = TailPos
        <4>1. mem'[TailPage][Last.pos] = mem[TailPage][Last.pos]
          <5>1. Len(log) \in 1 .. Len(log) BY <1>2, <1>3
          <5>2. Last.len \in Nat BY <5>1, <1>i, EntryType DEF Last
          <5>3. Last.pos # TailPos BY <5>2, <1>5, <1>2
          <5> QED BY <5>3, <1>2, <1>5, <1>8
        <4> QED BY <4>1, <1>4, <1>5, <1>12 DEF EndPos
      <3> QED BY <3>1, <3>2 DEF EndPos
    <2> QED BY <2>2, <1>1, <1>3, <1>9, <1>12, <1>13 DEF IWriter, Busy
  <1>20. IBoot'
    BY <1>1, <1>12 DEF IBoot
  <1>21. NextPageReady'
    <2> SUFFICES ASSUME NEW p \in Page, NEW a \in Pos,
                        HasData(p, a)', mem'[p][a].typ = "PageEnd"
                 PROVE  p + 1 \in Page /\ Ready(p + 1)
      BY <1>12 DEF NextPageReady, Ready
    <2>1. CASE p = TailPage
      BY <2>1, <1>3, <1>3a, Sizes DEF Ready
    <2>2. CASE p # TailPage
      <3>1. mem'[p][a] = mem[p][a] /\ HasData(p, a) BY <2>2, <1>8 DEF HasData
      <3> QED BY <3>1, <1>i DEF NextPageReady
    <2> QED BY <2>1, <2>2
  <1> QED BY <1>13, <1>14, <1>15, <1>16, <1>17, <1>18, <1>19, <1>20, <1>21, <1>i, <1>12, <1>tt DEF IInv

-----------------------------------------------------------------------------
(* The least and the greatest page id of a directory. *)

LEMMA Least ==
    ASSUME NEW S, S \subseteq Nat, S # {}
    PROVE  \E x \in S : \A y \in S : x <= y
  <1>1. PICK x \in S : \A y \in S : ~(<<y, x>> \in OpToRel(<, Nat))
    BY NatLessThanWellFounded, WFMin
  <1>2. \A y \in S : ~(y < x)
    BY <1>1 DEF OpToRel
  <1> QED BY <1>2

LEMMA MinOfSet ==
    ASSUME NEW S, S \subseteq Nat, S # {}
    PROVE  Min(S) \in S /\ \A y \in S : Min(S) <= y
  BY Least DEF Min

LEMMA MaxOfSet ==
    ASSUME NEW m \in Nat, NEW S, S \subseteq 1 .. m, S # {}
    PROVE  Max(S) \in S /\ \A y \in S : y <= Max(S)
  <1>0. \A y \in S : y \in Nat OBVIOUS
  <1> DEFINE T == {m - x : x \in S}
  <1>1. T \subseteq Nat /\ T # {}
    <2>1. PICK s \in S : TRUE OBVIOUS
    <2>2. m - s \in T OBVIOUS
    <2>3. T \subseteq Nat OBVIOUS
    <2> QED BY <2>2, <2>3
  <1>2. PICK z \in T : \A y \in T : z <= y BY <1>1, Least
  <1>3. PICK x \in S : z = m - x OBVIOUS
  <1>4. \A y \in S : m - x <= m - y BY <1>2, <1>3
  <1>5. \A y \in S : x >= y
    <2> SUFFICES ASSUME NEW y \in S PROVE x >= y OBVIOUS
    <2>1. x \in Nat /\ y \in Nat BY <1>0
    <2> QED BY <1>4, <2>1
  <1>6. Max(S) \in S /\ \A y \in S : Max(S) >= y BY <1>5 DEF Max
  <1> QED BY <1>6

(* A page that is initialised is in the directory, and a journal may stand *)
(* on its first frame.                                                     *)
LEMMA ReadyPage ==
    ASSUME IInv, NEW p \in Page
    PROVE  /\ p <= TailPage => Ready(p) /\ p \in file /\ OnFrame(p, PageHeader)
           /\ Ready(p) => p \in file /\ (OnFrame(p, PageHeader) \/ Ahead(p, PageHeader))
           /\ p \in file /\ ~torn /\ ~Busy({"created", "ready", "marked"}) => p <= TailPage
           /\ 1 \in file /\ 1 <= TailPage
  <1>i. TypeOK /\ ILock /\ IEntry /\ IPages /\ IWriter BY DEF IInv
  <1>1. TailPage \in Nat /\ TailPage >= 1 /\ p \in Nat
    BY <1>i, TailType, Sizes DEF Page
  <1>2. p <= TailPage => Ready(p) /\ p \in file /\ OnFrame(p, PageHeader)
    <2> SUFFICES ASSUME p <= TailPage PROVE Ready(p) /\ p \in file /\ OnFrame(p, PageHeader)
      OBVIOUS
    <2>1. p \in file /\ OnFrame(p, PageHeader) /\ OnFrame(p, last[p]) BY <1>i DEF IPages
    <2>2. last[p] >= 1 BY <2>1, OnFrameType
    <2> QED BY <2>1, <2>2 DEF Ready
  <1>3. p > TailPage /\ Ready(p) => p \in file /\ Ahead(p, PageHeader)
    <2> SUFFICES ASSUME p > TailPage, Ready(p) PROVE p \in file /\ Ahead(p, PageHeader)
      OBVIOUS
    <2>1. p = TailPage + 1 /\ Busy({"ready", "marked"}) BY <1>i DEF IPages
    <2>2. wst = "up" BY <2>1, <1>i DEF Busy, ILock
    <2>3. wpage = TailPage + 1 /\ wpage \in file BY <2>1, <2>2, <1>i DEF IWriter
    <2> QED BY <2>1, <2>3 DEF Ahead
  <1>4. p \in file /\ ~torn /\ ~Busy({"created", "ready", "marked"}) => p <= TailPage
    BY <1>1, <1>i DEF IPages
  <1>5. 1 \in file /\ 1 <= TailPage BY <1>1, <1>i, Sizes DEF IPages
  <1> QED BY <1>1, <1>2, <1>3, <1>4, <1>5

(* page::load of a page that is there and initialised changes nothing. *)
LEMMA LoadNothing ==
    ASSUME IInv, NEW p \in Page, Ready(p), LoadRW(p)
    PROVE  file' = file /\ last' = last
  BY ReadyPage DEF LoadRW

-----------------------------------------------------------------------------
(* Death and restart of the writing process. *)

LEMMA CrashPreserves ==
    ASSUME IInv, SafeCrashes, Crash
    PROVE  IInv'
  <1>i. /\ TypeOK /\ ILock /\ IEntry /\ IFree /\ IPages /\ ILast /\ IWriter /\ NextPageReady
        /\ clock >= 1 /\ ITorn
    BY DEF IInv
  <1>1. /\ log' = log /\ mem' = mem /\ file' = file /\ last' = last /\ clock' = clock
        /\ wst' = "down" /\ holder' = NoThread /\ pc' = [t \in Thread |-> "idle"]
        /\ wst = "up" /\ UNCHANGED rvars
    BY DEF Crash, disk
  <1>2. ~Busy({"ready", "marked"}) /\ ~Busy({"published"})
    BY DEF Crash, SafeCrashes, Busy
  <1>t. torn' = Busy({"created"}) BY DEF Crash, Busy
  <1>q. /\ TailPage' = TailPage /\ TailPos' = TailPos
        /\ \A p \in Page, a \in Pos : OnFrame(p, a) <=> OnFrame(p, a)'
        /\ IEntry' /\ IChain' /\ FramesIntact' /\ InOrder' /\ IReader'
    <2>1. OldKept BY <1>1 DEF OldKept
    <2>2. clock' \in Nat /\ clock' >= clock BY <1>i, <1>1 DEF TypeOK
    <2> QED BY <2>1, <2>2, <1>1, <1>2, QuietStep
  <1>3. TypeOK'
    <2>1. crashes + 1 \in 0 .. MaxCrash BY <1>i, SizeAssumption DEF TypeOK, Crash
    <2> QED BY <2>1, <1>i, <1>1 DEF TypeOK, Crash, rvars
  <1>4. ILock'
    BY <1>1 DEF ILock
  <1>5. IFree'
    BY <1>i, <1>1, <1>q DEF IFree
  <1>6. IPages'
    <2>1. ~torn BY <1>i, <1>1, Whole
    <2>2. Busy({"created", "ready", "marked"}) => torn' BY <1>2, <1>t DEF Busy
    <2> QED BY <2>1, <2>2, <1>i, <1>1, <1>2, <1>q, QuietPages
  <1>t1. ITorn'
    <2>1. Busy({"created"}) => ~Busy({"ready", "marked", "published"}) BY DEF Busy
    <2>2. Busy({"created"}) => TailPage + 1 \in file BY <2>1, <1>i, <1>1 DEF IWriter
    <2> QED BY <2>2, <1>1, <1>t, <1>q DEF ITorn
  <1>7. ILast'
    BY <1>i, <1>1, <1>2 DEF ILast, Last
  <1>8. IWriter' /\ IBoot'
    BY <1>1 DEF IWriter, IBoot
  <1>9. NextPageReady'
    BY <1>i, <1>1 DEF NextPageReady, HasData, Ready
  <1> QED BY <1>q, <1>1, <1>3, <1>4, <1>5, <1>6, <1>7, <1>8, <1>9, <1>i, <1>t1 DEF IInv

(* A step of the writer's constructor moves nothing but the writer. *)
LEMMA BootStep ==
    ASSUME IInv, wst # "up",
           wst' \in (IF torn THEN {"down", "fault"} ELSE {"full", "skip", "up"}),
           UNCHANGED <<file, last, mem, pc, holder, dlen, torn, log, rvars>>,
           crashes' \in 0 .. MaxCrash,
           clock' \in Nat, clock' >= clock, wseek' \in Nat,
           wpage' \in Page, wpos' \in Pos,
           wst' \in {"full", "skip"} => OnFrame(wpage', wpos') /\ wseek' = clock',
           wst' = "up" => wpage' = TailPage /\ wpos' = TailPos
    PROVE  IInv'
  <1>i. /\ TypeOK /\ ILock /\ IEntry /\ IFree /\ IPages /\ ILast /\ NextPageReady
        /\ clock >= 1 /\ ITorn
    BY DEF IInv
  <1>1. holder = NoThread /\ holder' = NoThread BY <1>i DEF ILock
  <1>2. \A S : ~Busy(S) /\ ~Busy(S)' BY <1>1 DEF Busy
  <1>q. /\ TailPage' = TailPage /\ TailPos' = TailPos
        /\ \A p \in Page, a \in Pos : OnFrame(p, a) <=> OnFrame(p, a)'
        /\ IEntry' /\ IChain' /\ FramesIntact' /\ InOrder' /\ IReader'
    <2>1. OldKept BY DEF OldKept
    <2>2. ~Busy({"ready", "marked"}) BY <1>2
    <2> QED BY <2>1, <2>2, QuietStep
  <1>3. TypeOK'
    BY <1>i DEF TypeOK, rvars
  <1>4. ILock'
    BY <1>i, <1>1 DEF ILock
  <1>5. IFree'
    BY <1>i, <1>q DEF IFree
  <1>6. IPages'
    <2>1. ~Busy({"created", "ready", "marked"}) /\ ~Busy({"ready", "marked"}) BY <1>2
    <2> QED BY <2>1, <1>i, <1>q, QuietPages
  <1>7. ILast'
    <2>1. ~Busy({"published"}) BY <1>2
    <2> QED BY <2>1, <1>i DEF ILast, Last
  <1>8. IWriter'
    BY <1>2, <1>q DEF IWriter
  <1>9. IBoot'
    <2>1. OnFrame(wpage', wpos') => OnFrame(wpage, wpos)'
      BY DEF OnFrame, At, TailPage, TailPos, Last
    <2> QED BY <2>1 DEF IBoot
  <1>10. NextPageReady'
    BY <1>i DEF NextPageReady, HasData, Ready
  <1>11. clock' >= 1 /\ ITorn' BY <1>i, <1>q DEF TypeOK, ITorn
  <1> QED BY <1>q, <1>3, <1>4, <1>5, <1>6, <1>7, <1>8, <1>9, <1>10, <1>11 DEF IInv

(* find_page_id returns a page of the directory. *)
LEMMA FindPageFound ==
    ASSUME NEW ids, ids \subseteq Page, ids # {}, NEW u
    PROVE  FindPage(ids, u) \in ids
  <1>1. MaxPage \in Nat BY SizeAssumption
  <1>2. CASE Earlier(ids, u) = {}
    BY <1>2, Sizes, MinOfSet DEF FindPage
  <1>3. CASE Earlier(ids, u) # {}
    <2>1. Earlier(ids, u) \subseteq ids BY DEF Earlier
    <2>2. Earlier(ids, u) \subseteq 1 .. MaxPage BY <2>1 DEF Page
    <2>3. Max(Earlier(ids, u)) \in Earlier(ids, u) BY <1>1, <1>3, <2>2, MaxOfSet
    <2> QED BY <1>3, <2>1, <2>3 DEF FindPage
  <1> QED BY <1>2, <1>3

LEMMA RestartPreserves ==
    ASSUME IInv, SafeCrashes, Restart
    PROVE  IInv'
  <1>i. TypeOK /\ ILock /\ IEntry /\ IPages /\ ITorn /\ clock >= 1 BY DEF IInv
  <1>0. wst = "down" /\ holder = NoThread BY <1>i DEF Restart, ILock
  <1>1. ~Busy({"created", "ready", "marked"}) BY <1>0 DEF Busy
  <1>2. file \subseteq Page /\ file # {}
    BY <1>i, ReadyPage, Sizes DEF TypeOK
  <1>4. PICK b \in 0 .. StepBack, k \in Tick :
           LET now == clock - b + k IN
           /\ now > 0
           /\ clock' = now /\ wseek' = now
           /\ IF \E p \in file : ~Ready(p) /\ \A q \in file : q > p => BeginTime(q) >= now
                THEN wst' = "fault" /\ UNCHANGED <<wpage, wpos>>
                ELSE /\ wst' = "full"
                     /\ wpage' = FindPage(file, now)
                     /\ wpos' = PageHeader
    BY DEF Restart
  <1>5. b = 0 /\ k \in Nat BY <1>4, SizeAssumption DEF SafeCrashes
  <1>9. UNCHANGED <<file, last, mem, pc, holder, dlen, crashes, torn, log, rvars>>
    BY DEF Restart, disk
  <1>6. /\ clock' \in Nat /\ clock' >= clock /\ wseek' = clock'
        /\ crashes' \in 0 .. MaxCrash
    BY <1>4, <1>5, <1>9, <1>i DEF TypeOK
  <1>a. CASE torn
    <2>1. TailPage + 1 \in file /\ TailPage + 1 \in Page /\ TailPage \in Nat
      <3>1. TailPage + 1 \in file BY <1>a, <1>i DEF ITorn
      <3>2. TailPage \in Nat BY <1>i, TailType, Sizes DEF Page
      <3> QED BY <3>1, <3>2, <1>2
    <2>2. ~Ready(TailPage + 1)
      <3>1. ~Busy({"ready", "marked"}) BY <1>0 DEF Busy
      <3> QED BY <2>1, <3>1, <1>i DEF IPages
    <2>3. \A q \in file : ~(q > TailPage + 1)
      <3> SUFFICES ASSUME NEW q \in file, q > TailPage + 1 PROVE FALSE OBVIOUS
      <3>1. q \in Page /\ q \in Nat BY <1>2, Sizes DEF Page
      <3> QED BY <3>1, <2>1, <1>i DEF IPages
    <2>4. wst' = "fault" /\ wpage' = wpage /\ wpos' = wpos BY <2>1, <2>2, <2>3, <1>4
    <2>5. wpage' \in Page /\ wpos' \in Pos BY <2>4, <1>i DEF TypeOK
    <2> QED BY <1>0, <1>6, <1>9, <1>a, <2>4, <2>5, BootStep
  <1>b. CASE ~torn
    <2>1. \A p \in file : Ready(p) /\ OnFrame(p, PageHeader)
      BY <1>1, <1>2, <1>b, ReadyPage
    <2>2. wst' = "full" /\ wpage' \in file /\ wpos' = PageHeader
      <3>1. wst' = "full" /\ wpage' = FindPage(file, clock - b + k) /\ wpos' = PageHeader
        BY <2>1, <1>4
      <3> QED BY <3>1, <1>2, FindPageFound
    <2>3. OnFrame(wpage', wpos') /\ wpage' \in Page /\ wpos' \in Pos
      BY <1>2, <2>1, <2>2, Sizes
    <2> QED BY <1>0, <1>6, <1>9, <1>b, <2>2, <2>3, BootStep
  <1> QED BY <1>a, <1>b

(* Nothing but the death of the constructor is forgotten. *)
LEMMA TryAgainPreserves ==
    ASSUME IInv, TryAgain
    PROVE  IInv'
  <1>i. TypeOK /\ ITorn BY DEF IInv
  <1>1. /\ wst = "fault" /\ wst' = "down" /\ torn
        /\ UNCHANGED <<file, last, mem, pc, holder, dlen, torn, log, rvars, clock, wseek,
                       wpage, wpos>>
    BY <1>i DEF TryAgain, disk, ITorn
  <1>2. crashes' \in 0 .. MaxCrash BY <1>i, SizeAssumption DEF TypeOK, TryAgain
  <1>3. clock' \in Nat /\ clock' >= clock /\ wseek' \in Nat /\ wpage' \in Page /\ wpos' \in Pos
    BY <1>1, <1>i DEF TypeOK
  <1> QED BY <1>1, <1>2, <1>3, BootStep

(* A full page is a page that was closed: another one follows it. *)
LEMMA FullPage ==
    ASSUME IInv, NEW p \in Page, p <= TailPage, IsFull(p)
    PROVE  p + 1 \in Page /\ p + 1 <= TailPage
  <1>i. TypeOK /\ IEntry /\ IChain /\ FramesIntact /\ IFree /\ IPages BY DEF IInv
  <1>1. PICK i \in 1 .. Len(log) + 1 : At(i, p, last[p]) BY <1>i DEF IPages, OnFrame
  <1>2. Len(log) \in Nat BY <1>i DEF TypeOK
  <1>3. last[p] \in Nat BY <1>i, Sizes DEF TypeOK
  <1>4. last[p] + mem[p][last[p]].len > Border BY DEF IsFull
  <1>5. i # Len(log) + 1
    <2>1. ASSUME i = Len(log) + 1 PROVE last[p] + mem[p][last[p]].len <= Border
      BY <2>1, <1>1, <1>i, TailStep
    <2>2. ASSUME i = Len(log) + 1 PROVE FALSE
      <3>1. mem[p][last[p]].len = 0 BY <2>2, <1>1, <1>i, TailType DEF At, IFree
      <3> QED BY <2>1, <2>2, <3>1, <1>3, <1>4, Sizes
    <2> QED BY <2>2
  <1>6. i \in 1 .. Len(log) BY <1>2, <1>5
  <1> QED BY <1>1, <1>4, <1>6, <1>i, WalkStep

LEMMA SeekFullPreserves ==
    ASSUME IInv, SeekFull
    PROVE  IInv'
  <1>i. TypeOK /\ IEntry /\ IBoot /\ ITorn BY DEF IInv
  <1>0. wst = "full" /\ OnFrame(wpage, wpos) /\ wseek = clock /\ ~torn
    BY <1>i, Whole DEF SeekFull, IBoot
  <1>1. wpage \in Page /\ wpage <= TailPage /\ wpos \in Pos BY <1>0, OnFrameType
  <1>2. UNCHANGED <<mem, pc, holder, dlen, crashes, torn, log, rvars, clock, wseek>> BY DEF SeekFull
  <1>3. /\ clock' \in Nat /\ clock' >= clock /\ wseek' \in Nat /\ wseek' = clock'
        /\ crashes' \in 0 .. MaxCrash
    BY <1>0, <1>2, <1>i DEF TypeOK
  <1>4. CASE IsFull(wpage) /\ EndTime(wpage) <= wseek
    <2>1. wpage + 1 \in Page /\ wpage + 1 <= TailPage BY <1>1, <1>4, FullPage
    <2>2. Ready(wpage + 1) /\ OnFrame(wpage + 1, PageHeader) BY <2>1, ReadyPage
    <2>3. LoadRW(wpage + 1) /\ wpage' = wpage + 1 /\ wpos' = PageHeader /\ wst' = "full"
      BY <1>0, <1>4 DEF SeekFull
    <2>4. file' = file /\ last' = last BY <2>1, <2>2, <2>3, LoadNothing
    <2> QED BY <1>0, <1>2, <1>3, <2>1, <2>2, <2>3, <2>4, Sizes, BootStep
  <1>5. CASE ~(IsFull(wpage) /\ EndTime(wpage) <= wseek)
    <2>1. wst' = "skip" /\ UNCHANGED <<file, last, wpage, wpos>> BY <1>5 DEF SeekFull
    <2> QED BY <1>0, <1>1, <1>2, <1>3, <2>1, BootStep
  <1> QED BY <1>4, <1>5

LEMMA SeekSkipPreserves ==
    ASSUME IInv, SeekSkip
    PROVE  IInv'
  <1>i. TypeOK /\ IEntry /\ IChain /\ FramesIntact /\ IFree /\ IBoot /\ ITorn BY DEF IInv
  <1>0. wst = "skip" /\ OnFrame(wpage, wpos) /\ wseek = clock /\ ~torn
    BY <1>i, Whole DEF SeekSkip, IBoot
  <1>1. wpage \in Page /\ wpage <= TailPage /\ wpos \in Pos BY <1>0, OnFrameType
  <1>2. UNCHANGED <<mem, pc, holder, dlen, crashes, torn, log, rvars, clock, wseek>> BY DEF SeekSkip
  <1>3. /\ clock' \in Nat /\ clock' >= clock /\ wseek' \in Nat /\ wseek' = clock'
        /\ crashes' \in 0 .. MaxCrash
    BY <1>0, <1>2, <1>i DEF TypeOK
  <1>4. PICK i \in 1 .. Len(log) + 1 : At(i, wpage, wpos) BY <1>0 DEF OnFrame
  <1>5. Len(log) \in Nat BY <1>i DEF TypeOK
  <1>6. CASE HasData(wpage, wpos) /\ mem[wpage][wpos].gen <= wseek
    <2>1. i \in 1 .. Len(log)
      <3>1. i # Len(log) + 1 BY <1>4, <1>6, <1>i, TailStep
      <3> QED BY <3>1, <1>5
    <2>2. /\ mem[wpage][wpos].typ = "PageEnd" =>
                wpage + 1 \in Page /\ wpage + 1 <= TailPage
          /\ mem[wpage][wpos].typ # "PageEnd" => At(i + 1, wpage, wpos + mem[wpage][wpos].len)
          /\ i + 1 \in 1 .. Len(log) + 1
      BY <2>1, <1>4, <1>i, WalkStep
    <2>3. CASE mem[wpage][wpos].typ = "PageEnd"
      <3>1. wpage + 1 \in Page /\ wpage + 1 <= TailPage BY <2>2, <2>3
      <3>2. Ready(wpage + 1) /\ OnFrame(wpage + 1, PageHeader) BY <3>1, ReadyPage
      <3>3. LoadRW(wpage + 1) /\ wpage' = wpage + 1 /\ wpos' = PageHeader /\ wst' = "skip"
        BY <1>0, <1>6, <2>3 DEF SeekSkip
      <3>4. file' = file /\ last' = last BY <3>1, <3>2, <3>3, LoadNothing
      <3> QED BY <1>0, <1>2, <1>3, <3>1, <3>2, <3>3, <3>4, Sizes, BootStep
    <2>4. CASE mem[wpage][wpos].typ # "PageEnd"
      <3>1. OnFrame(wpage, wpos + mem[wpage][wpos].len) BY <2>2, <2>4 DEF OnFrame
      <3>2. wpos + mem[wpage][wpos].len \in Pos BY <3>1, OnFrameType
      <3>3. /\ wpos' = wpos + mem[wpage][wpos].len /\ wst' = "skip"
            /\ UNCHANGED <<file, last, wpage>>
        BY <1>0, <1>6, <2>4 DEF SeekSkip
      <3> QED BY <1>0, <1>1, <1>2, <1>3, <3>1, <3>2, <3>3, BootStep
    <2> QED BY <2>3, <2>4
  <1>7. CASE ~(HasData(wpage, wpos) /\ mem[wpage][wpos].gen <= wseek)
    <2>1. wst' = "up" /\ UNCHANGED <<file, last, wpage, wpos>> BY <1>7 DEF SeekSkip
    <2>2. wpage = TailPage /\ wpos = TailPos
      <3>1. i \notin 1 .. Len(log)
        <4> SUFFICES ASSUME i \in 1 .. Len(log) PROVE FALSE OBVIOUS
        <4>1. HasData(wpage, wpos) /\ mem[wpage][wpos].gen <= clock
          BY <1>4, <1>i, WalkStep
        <4> QED BY <4>1, <1>0, <1>7
      <3>2. i = Len(log) + 1 BY <3>1, <1>5
      <3> QED BY <3>2, <1>4, <1>5 DEF At
    <2> QED BY <1>0, <1>1, <1>2, <1>3, <2>1, <2>2, BootStep
  <1> QED BY <1>6, <1>7

-----------------------------------------------------------------------------
(* The readers. *)

(* A step of one reader that creates no page. *)
LEMMA ReaderStep ==
    ASSUME IInv, NEW r \in Reader, UNCHANGED <<file, last, mem, wvars, log>>,
           rst' \in [Reader -> {"out", "scan", "full", "skip", "read", "fault"}],
           rfrom' \in [Reader -> FromTime \cup {0}],
           rtodo' \in [Reader -> SUBSET Page],
           rpage' \in [Reader -> Page], rpos' \in [Reader -> Pos],
           seen' \in [Reader -> Seq(Int)],
           \A q \in Reader : q # r =>
               /\ rst'[q] = rst[q] /\ rtodo'[q] = rtodo[q] /\ rpage'[q] = rpage[q]
               /\ rpos'[q] = rpos[q] /\ seen'[q] = seen[q],
           rst'[r] \in {"full", "skip"} =>
               OnFrame(rpage'[r], rpos'[r]) \/ Ahead(rpage'[r], rpos'[r]),
           rst'[r] \in {"out", "scan", "full", "skip"} => seen'[r] = <<>>,
           rst'[r] = "read" =>
               \/ Ahead(rpage'[r], rpos'[r]) /\ seen'[r] = <<>>
               \/ \E i \in 1 .. Len(log) + 1 :
                     /\ At(i, rpage'[r], rpos'[r])
                     /\ Len(seen'[r]) > 0 => seen'[r][Len(seen'[r])] = i - 1,
           rtodo'[r] \subseteq file,
           rst'[r] = "scan" => rtodo'[r] # {},
           \A k \in 1 .. Len(seen'[r]) : seen'[r][k] \in 1 .. Len(log),
           \A k \in 1 .. Len(seen'[r]) - 1 : seen'[r][k + 1] = seen'[r][k] + 1
    PROVE  IInv'
  <1>i. /\ TypeOK /\ ILock /\ IEntry /\ IChain /\ FramesIntact /\ IFree /\ IPages /\ ILast
        /\ IWriter /\ IBoot /\ IReader /\ InOrder /\ NextPageReady /\ clock >= 1 /\ ITorn
    BY DEF IInv
  <1>1. /\ clock' = clock /\ wst' = wst /\ wseek' = wseek /\ wpage' = wpage /\ wpos' = wpos
        /\ pc' = pc /\ holder' = holder /\ dlen' = dlen /\ crashes' = crashes /\ torn' = torn
    BY DEF wvars
  <1>2. /\ TailPage' = TailPage /\ TailPos' = TailPos /\ Last' = Last
    BY DEF TailPage, TailPos, Last
  <1>3. TypeOK'
    BY <1>i, <1>1 DEF TypeOK
  <1>4. ILock' /\ ILast'
    BY <1>i, <1>1, <1>2 DEF ILock, ILast, Busy
  <1>5. IEntry' /\ IChain' /\ IFree'
    BY <1>i, <1>1, <1>2 DEF IEntry, IChain, ChainUnbroken, Linked, IFree
  <1>6. FramesIntact'
    BY <1>i DEF FramesIntact, Intact
  <1>7. IPages'
    BY <1>i, <1>1, <1>2 DEF IPages, OnFrame, At, Busy, Ready
  <1>8. IWriter'
    BY <1>i, <1>1, <1>2 DEF IWriter, Busy, NextPos, EndPos
  <1>9. IBoot'
    BY <1>i, <1>1, <1>2 DEF IBoot, OnFrame, At
  <1>10. NextPageReady'
    BY <1>i DEF NextPageReady, HasData, Ready
  <1>11. InOrder'
    <2> SUFFICES ASSUME NEW q \in Reader
                 PROVE  /\ \A k \in 1 .. Len(seen'[q]) : seen'[q][k] \in 1 .. Len(log)
                        /\ \A k \in 1 .. Len(seen'[q]) - 1 : seen'[q][k + 1] = seen'[q][k] + 1
      BY DEF InOrder
    <2>1. CASE q = r BY <2>1
    <2>2. CASE q # r
      <3>1. seen'[q] = seen[q] BY <2>2
      <3> QED BY <3>1, <1>i DEF InOrder
    <2> QED BY <2>1, <2>2
  <1>12. IReader'
    <2> SUFFICES ASSUME NEW q \in Reader
                 PROVE  /\ rst'[q] \in {"full", "skip"} =>
                              OnFrame(rpage'[q], rpos'[q]) \/ Ahead(rpage'[q], rpos'[q])
                        /\ rst'[q] \in {"out", "scan", "full", "skip"} => seen'[q] = <<>>
                        /\ rst'[q] = "read" =>
                             \/ Ahead(rpage'[q], rpos'[q]) /\ seen'[q] = <<>>
                             \/ \E i \in 1 .. Len(log) + 1 :
                                   /\ At(i, rpage'[q], rpos'[q])
                                   /\ Len(seen'[q]) > 0 => seen'[q][Len(seen'[q])] = i - 1
                        /\ rtodo'[q] \subseteq file
                        /\ rst'[q] = "scan" => rtodo'[q] # {}
      BY <1>1, <1>2 DEF IReader, OnFrame, At, Ahead, Busy
    <2>1. CASE q = r BY <2>1
    <2>2. CASE q # r
      <3>1. /\ rst'[q] = rst[q] /\ rtodo'[q] = rtodo[q] /\ rpage'[q] = rpage[q]
            /\ rpos'[q] = rpos[q] /\ seen'[q] = seen[q]
        BY <2>2
      <3> QED BY <3>1, <1>i DEF IReader
    <2> QED BY <2>1, <2>2
  <1>13. ITorn'
    BY <1>i, <1>1, <1>2 DEF ITorn
  <1> QED BY <1>1, <1>3, <1>4, <1>5, <1>6, <1>7, <1>8, <1>9, <1>10, <1>11, <1>12, <1>13, <1>i
          DEF IInv

(* What the type invariant says of the readers. *)
LEMMA ReaderTypes ==
    ASSUME IInv
    PROVE  /\ rst \in [Reader -> {"out", "scan", "full", "skip", "read", "fault"}]
           /\ rfrom \in [Reader -> FromTime \cup {0}]
           /\ rtodo \in [Reader -> SUBSET Page]
           /\ rpage \in [Reader -> Page] /\ rpos \in [Reader -> Pos]
           /\ seen \in [Reader -> Seq(Int)]
           /\ file \subseteq Page /\ Len(log) \in Nat
  BY DEF IInv, TypeOK

(* A reader loads a page that is initialised. *)
LEMMA ReaderLoads ==
    ASSUME IInv, NEW r \in Reader, NEW p \in Page, Ready(p), NEW s, ReaderLoad(r, p, s)
    PROVE  /\ file' = file /\ last' = last
           /\ rst' = [rst EXCEPT ![r] = s]
           /\ rpage' = [rpage EXCEPT ![r] = p]
           /\ rpos' = [rpos EXCEPT ![r] = PageHeader]
  BY LoadNothing DEF ReaderLoad

LEMMA JoinPreserves ==
    ASSUME IInv, NEW r \in Reader, NEW f \in FromTime, Join(r, f)
    PROVE  IInv'
  <1>i. IReader /\ InOrder BY DEF IInv
  <1>0. /\ rst[r] = "out" /\ rfrom' = [rfrom EXCEPT ![r] = f] /\ seen' = seen
        /\ mem' = mem /\ wvars' = wvars /\ log' = log
    BY DEF Join
  <1>t. /\ rst \in [Reader -> {"out", "scan", "full", "skip", "read", "fault"}]
        /\ rfrom \in [Reader -> FromTime \cup {0}]
        /\ rtodo \in [Reader -> SUBSET Page]
        /\ rpage \in [Reader -> Page] /\ rpos \in [Reader -> Pos]
        /\ seen \in [Reader -> Seq(Int)]
        /\ file \subseteq Page
    BY ReaderTypes
  <1>1. seen[r] = <<>> /\ rtodo[r] \subseteq file BY <1>0, <1>i DEF IReader
  <1>2. 1 \in Page /\ 1 \in file /\ 1 <= TailPage BY Sizes, ReadyPage
  <1>3. /\ rfrom' \in [Reader -> FromTime \cup {0}] /\ seen' \in [Reader -> Seq(Int)]
        /\ seen'[r] = <<>>
    BY <1>0, <1>1, <1>t
  <1>6. /\ \A k \in 1 .. Len(seen'[r]) : seen'[r][k] \in 1 .. Len(log)
        /\ \A k \in 1 .. Len(seen'[r]) - 1 : seen'[r][k + 1] = seen'[r][k] + 1
    BY <1>0, <1>i DEF InOrder
  <1>4. CASE f = 0
    <2>1. Min(file) = 1
      <3>1. Min(file) \in file /\ Min(file) <= 1 BY <1>2, <1>t, Sizes, MinOfSet
      <3>2. Min(file) \in 1 .. MaxPage BY <3>1, <1>t DEF Page
      <3> QED BY <3>1, <3>2, SizeAssumption
    <2>2. Ready(1) /\ OnFrame(1, PageHeader) BY <1>2, ReadyPage
    <2>3. ReaderLoad(r, 1, "full") /\ rtodo' = rtodo BY <1>4, <2>1 DEF Join
    <2>4. /\ file' = file /\ last' = last
          /\ rst' = [rst EXCEPT ![r] = "full"]
          /\ rpage' = [rpage EXCEPT ![r] = 1]
          /\ rpos' = [rpos EXCEPT ![r] = PageHeader]
      BY <1>2, <2>2, <2>3, ReaderLoads
    <2>5. rst'[r] = "full" /\ rpage'[r] = 1 /\ rpos'[r] = PageHeader BY <2>4, <1>t
    <2>6. /\ rst' \in [Reader -> {"out", "scan", "full", "skip", "read", "fault"}]
          /\ rpage' \in [Reader -> Page] /\ rpos' \in [Reader -> Pos]
          /\ \A q \in Reader : q # r =>
               /\ rst'[q] = rst[q] /\ rtodo'[q] = rtodo[q] /\ rpage'[q] = rpage[q]
               /\ rpos'[q] = rpos[q] /\ seen'[q] = seen[q]
      BY <2>3, <2>4, <1>0, <1>2, <1>t, Sizes
    <2>7. OnFrame(rpage'[r], rpos'[r]) BY <2>2, <2>5
    <2>8. rtodo' \in [Reader -> SUBSET Page] /\ rtodo'[r] \subseteq file BY <2>3, <1>1, <1>t
    <2> QED BY <1>0, <1>3, <1>6, <2>4, <2>5, <2>6, <2>7, <2>8, ReaderStep
  <1>5. CASE f # 0
    <2>1. /\ rst' = [rst EXCEPT ![r] = "scan"] /\ rtodo' = [rtodo EXCEPT ![r] = file]
          /\ UNCHANGED <<file, last, rpage, rpos>>
      BY <1>5 DEF Join
    <2>2. /\ rst' \in [Reader -> {"out", "scan", "full", "skip", "read", "fault"}]
          /\ rtodo' \in [Reader -> SUBSET Page] /\ rst'[r] = "scan" /\ rtodo'[r] = file
          /\ \A q \in Reader : q # r => rst'[q] = rst[q] /\ rtodo'[q] = rtodo[q]
      BY <2>1, <1>t
    <2>3. rtodo'[r] \subseteq file /\ rtodo'[r] # {} BY <2>2, <1>2
    <2>4. \A q \in Reader : q # r =>
               /\ rst'[q] = rst[q] /\ rtodo'[q] = rtodo[q] /\ rpage'[q] = rpage[q]
               /\ rpos'[q] = rpos[q] /\ seen'[q] = seen[q]
      BY <2>1, <2>2, <1>0
    <2>5. rpage' \in [Reader -> Page] /\ rpos' \in [Reader -> Pos] BY <2>1, <1>t
    <2> QED BY <1>0, <1>3, <1>6, <2>1, <2>2, <2>3, <2>4, <2>5, ReaderStep
  <1> QED BY <1>4, <1>5

(* A seeking reader loads a page that is initialised. *)
LEMMA LoadFull ==
    ASSUME IInv, NEW r \in Reader, NEW p \in Page, Ready(p), ReaderLoad(r, p, "full"),
           seen[r] = <<>>, rtodo' \in [Reader -> SUBSET Page], rtodo'[r] \subseteq file,
           \A q \in Reader : q # r => rtodo'[q] = rtodo[q],
           UNCHANGED <<mem, wvars, log, rfrom, seen>>
    PROVE  IInv'
  <1>i. InOrder BY DEF IInv
  <1>t. /\ rst \in [Reader -> {"out", "scan", "full", "skip", "read", "fault"}]
        /\ rfrom \in [Reader -> FromTime \cup {0}]
        /\ rpage \in [Reader -> Page] /\ rpos \in [Reader -> Pos]
        /\ seen \in [Reader -> Seq(Int)]
    BY ReaderTypes
  <1>1. OnFrame(p, PageHeader) \/ Ahead(p, PageHeader) BY ReadyPage
  <1>2. /\ file' = file /\ last' = last
        /\ rst' = [rst EXCEPT ![r] = "full"]
        /\ rpage' = [rpage EXCEPT ![r] = p]
        /\ rpos' = [rpos EXCEPT ![r] = PageHeader]
    BY ReaderLoads
  <1>3. rst'[r] = "full" /\ rpage'[r] = p /\ rpos'[r] = PageHeader BY <1>2, <1>t
  <1>4. /\ rst' \in [Reader -> {"out", "scan", "full", "skip", "read", "fault"}]
        /\ rpage' \in [Reader -> Page] /\ rpos' \in [Reader -> Pos]
        /\ \A q \in Reader : q # r =>
             /\ rst'[q] = rst[q] /\ rtodo'[q] = rtodo[q] /\ rpage'[q] = rpage[q]
             /\ rpos'[q] = rpos[q] /\ seen'[q] = seen[q]
    BY <1>2, <1>t, Sizes
  <1>5. OnFrame(rpage'[r], rpos'[r]) \/ Ahead(rpage'[r], rpos'[r]) BY <1>1, <1>3
  <1>6. /\ \A k \in 1 .. Len(seen'[r]) : seen'[r][k] \in 1 .. Len(log)
        /\ \A k \in 1 .. Len(seen'[r]) - 1 : seen'[r][k + 1] = seen'[r][k] + 1
    BY <1>i DEF InOrder
  <1>7. /\ seen' \in [Reader -> Seq(Int)] /\ seen'[r] = <<>>
        /\ rfrom' \in [Reader -> FromTime \cup {0}]
    BY <1>t
  <1> QED BY <1>2, <1>3, <1>4, <1>5, <1>6, <1>7, ReaderStep

(* A reader changes its state and stays where it is. *)
LEMMA StateOnly ==
    ASSUME IInv, NEW r \in Reader, NEW s \in {"scan", "skip", "read", "fault"},
           rst' = [rst EXCEPT ![r] = s], rtodo' \in [Reader -> SUBSET Page],
           rtodo'[r] \subseteq file, s = "scan" => rtodo'[r] # {},
           s \in {"skip", "read"} => rst[r] \in {"full", "skip"},
           s = "scan" => rst[r] = "scan",
           \A q \in Reader : q # r => rtodo'[q] = rtodo[q],
           UNCHANGED <<file, last, mem, wvars, log, rfrom, rpage, rpos, seen>>
    PROVE  IInv'
  <1>i. InOrder /\ IReader BY DEF IInv
  <1>t. /\ rst \in [Reader -> {"out", "scan", "full", "skip", "read", "fault"}]
        /\ rfrom \in [Reader -> FromTime \cup {0}]
        /\ rpage \in [Reader -> Page] /\ rpos \in [Reader -> Pos]
        /\ seen \in [Reader -> Seq(Int)]
    BY ReaderTypes
  <1>1. rst'[r] = s BY <1>t
  <1>2. /\ rst' \in [Reader -> {"out", "scan", "full", "skip", "read", "fault"}]
        /\ \A q \in Reader : q # r =>
             /\ rst'[q] = rst[q] /\ rtodo'[q] = rtodo[q] /\ rpage'[q] = rpage[q]
             /\ rpos'[q] = rpos[q] /\ seen'[q] = seen[q]
    BY <1>t
  <1>3. s # "fault" => seen[r] = <<>> BY <1>i DEF IReader
  <1>4. s \in {"skip", "read"} => OnFrame(rpage[r], rpos[r]) \/ Ahead(rpage[r], rpos[r])
    BY <1>i DEF IReader
  <1>5. s = "read" =>
          \/ Ahead(rpage[r], rpos[r]) /\ seen[r] = <<>>
          \/ \E i \in 1 .. Len(log) + 1 :
                /\ At(i, rpage[r], rpos[r])
                /\ Len(seen[r]) > 0 => seen[r][Len(seen[r])] = i - 1
    BY <1>3, <1>4 DEF OnFrame
  <1>6. /\ \A k \in 1 .. Len(seen'[r]) : seen'[r][k] \in 1 .. Len(log)
        /\ \A k \in 1 .. Len(seen'[r]) - 1 : seen'[r][k + 1] = seen'[r][k] + 1
    BY <1>i DEF InOrder
  <1>7. /\ rfrom' \in [Reader -> FromTime \cup {0}] /\ rpage' \in [Reader -> Page]
        /\ rpos' \in [Reader -> Pos] /\ seen' \in [Reader -> Seq(Int)]
        /\ rpage'[r] = rpage[r] /\ rpos'[r] = rpos[r] /\ seen'[r] = seen[r]
    BY <1>t
  <1>8. /\ rst'[r] \in {"full", "skip"} =>
             OnFrame(rpage'[r], rpos'[r]) \/ Ahead(rpage'[r], rpos'[r])
        /\ rst'[r] \in {"out", "scan", "full", "skip"} => seen'[r] = <<>>
        /\ rst'[r] = "read" =>
             \/ Ahead(rpage'[r], rpos'[r]) /\ seen'[r] = <<>>
             \/ \E i \in 1 .. Len(log) + 1 :
                   /\ At(i, rpage'[r], rpos'[r])
                   /\ Len(seen'[r]) > 0 => seen'[r][Len(seen'[r])] = i - 1
    BY <1>1, <1>3, <1>4, <1>5, <1>7
  <1>9. rst'[r] = "scan" => rtodo'[r] # {} BY <1>1
  <1> QED BY <1>2, <1>6, <1>7, <1>8, <1>9, ReaderStep

LEMMA ScanPreserves ==
    ASSUME IInv, NEW r \in Reader, Scan(r)
    PROVE  IInv'
  <1>i. IReader BY DEF IInv
  <1>t. /\ rst \in [Reader -> {"out", "scan", "full", "skip", "read", "fault"}]
        /\ rtodo \in [Reader -> SUBSET Page] /\ file \subseteq Page
    BY ReaderTypes
  <1>0. /\ rst[r] = "scan" /\ UNCHANGED <<mem, wvars, log, rfrom, seen>>
    BY DEF Scan
  <1>1. /\ seen[r] = <<>> /\ rtodo[r] \subseteq file /\ rtodo[r] # {} BY <1>0, <1>i DEF IReader
  <1> DEFINE p == Max(rtodo[r])
  <1>2. p \in rtodo[r] /\ p \in Page
    <2>1. rtodo[r] \subseteq 1 .. MaxPage /\ MaxPage \in Nat
      BY <1>1, <1>t, SizeAssumption DEF Page
    <2>2. p \in rtodo[r] BY <2>1, <1>1, MaxOfSet
    <2> QED BY <2>2, <1>1, <1>t
  <1>s. \/ /\ ~Ready(p) /\ rst' = [rst EXCEPT ![r] = "fault"]
           /\ UNCHANGED <<file, last, rtodo, rpage, rpos>>
        \/ Ready(p) /\ ReaderLoad(r, p, "full") /\ rtodo' = [rtodo EXCEPT ![r] = {}]
        \/ /\ rtodo[r] # {p} /\ rtodo' = [rtodo EXCEPT ![r] = @ \ {p}]
           /\ UNCHANGED <<file, last, rst, rpage, rpos>>
    BY DEF Scan
  <1> HIDE DEF p
  <1>3. CASE /\ ~Ready(p) /\ rst' = [rst EXCEPT ![r] = "fault"]
             /\ UNCHANGED <<file, last, rtodo, rpage, rpos>>
    <2>1. rtodo' \in [Reader -> SUBSET Page] /\ rtodo'[r] \subseteq file BY <1>3, <1>1, <1>t
    <2> QED BY <1>0, <1>3, <2>1, StateOnly
  <1>4. CASE Ready(p) /\ ReaderLoad(r, p, "full") /\ rtodo' = [rtodo EXCEPT ![r] = {}]
    <2>1. /\ rtodo' \in [Reader -> SUBSET Page] /\ rtodo'[r] \subseteq file
          /\ \A q \in Reader : q # r => rtodo'[q] = rtodo[q]
      BY <1>4, <1>t
    <2> QED BY <1>0, <1>1, <1>2, <1>4, <2>1, LoadFull
  <1>5. CASE /\ rtodo[r] # {p} /\ rtodo' = [rtodo EXCEPT ![r] = @ \ {p}]
             /\ UNCHANGED <<file, last, rst, rpage, rpos>>
    <2>1. /\ rtodo' \in [Reader -> SUBSET Page] /\ rtodo'[r] \subseteq file /\ rtodo'[r] # {}
          /\ \A q \in Reader : q # r => rtodo'[q] = rtodo[q]
      BY <1>5, <1>1, <1>2, <1>t
    <2>2. rst' = [rst EXCEPT ![r] = "scan"] BY <1>0, <1>5, <1>t
    <2> QED BY <1>0, <1>5, <2>1, <2>2, StateOnly
  <1> QED BY <1>s, <1>3, <1>4, <1>5

(* The page the writer is turning to is neither full nor read. *)
LEMMA AheadEmpty ==
    ASSUME IInv, NEW p, NEW a, Ahead(p, a)
    PROVE  ~HasData(p, a) /\ ~IsFull(p) /\ p \in Page /\ a \in Pos
  <1>i. TypeOK /\ ILock /\ IEntry /\ IFree /\ IWriter BY DEF IInv
  <1>1. Busy({"ready", "marked"}) /\ p = TailPage + 1 /\ a = PageHeader BY DEF Ahead
  <1>2. wst = "up" BY <1>1, <1>i DEF Busy, ILock
  <1>3. p = wpage /\ last[p] = PageHeader BY <1>1, <1>2, <1>i DEF IWriter
  <1>4. p \in Page /\ p > TailPage
    <2>1. TailPage \in Nat /\ wpage \in Page BY <1>i, TailType, Sizes DEF TypeOK
    <2> QED BY <2>1, <1>1, <1>3
  <1>5. mem[p][PageHeader] = Zero BY <1>4, <1>i, Sizes DEF IFree
  <1> QED BY <1>1, <1>3, <1>4, <1>5, Sizes DEF HasData, IsFull, Zero

LEMMA ReaderFullPreserves ==
    ASSUME IInv, NEW r \in Reader, ReaderFull(r)
    PROVE  IInv'
  <1>i. IReader BY DEF IInv
  <1>t. rtodo \in [Reader -> SUBSET Page] BY ReaderTypes
  <1>0. /\ rst[r] = "full" /\ UNCHANGED <<mem, wvars, log, rfrom, rtodo, seen>>
    BY DEF ReaderFull
  <1>1. /\ seen[r] = <<>> /\ rtodo[r] \subseteq file
        /\ OnFrame(rpage[r], rpos[r]) \/ Ahead(rpage[r], rpos[r])
    BY <1>0, <1>i DEF IReader
  <1>2. rtodo' \in [Reader -> SUBSET Page] /\ rtodo'[r] \subseteq file
    BY <1>0, <1>1, <1>t
  <1>3. CASE IsFull(rpage[r]) /\ EndTime(rpage[r]) <= rfrom[r]
    <2>1. OnFrame(rpage[r], rpos[r]) BY <1>1, <1>3, AheadEmpty
    <2>2. rpage[r] \in Page /\ rpage[r] <= TailPage BY <2>1, OnFrameType
    <2>3. rpage[r] + 1 \in Page /\ rpage[r] + 1 <= TailPage BY <2>2, <1>3, FullPage
    <2>4. Ready(rpage[r] + 1) BY <2>3, ReadyPage
    <2>5. ReaderLoad(r, rpage[r] + 1, "full") BY <1>3 DEF ReaderFull
    <2> QED BY <1>0, <1>1, <1>2, <2>3, <2>4, <2>5, LoadFull
  <1>4. CASE ~(IsFull(rpage[r]) /\ EndTime(rpage[r]) <= rfrom[r])
    <2>1. rst' = [rst EXCEPT ![r] = "skip"] /\ UNCHANGED <<file, last, rpage, rpos>>
      BY <1>4 DEF ReaderFull
    <2> QED BY <1>0, <1>2, <2>1, StateOnly
  <1> QED BY <1>3, <1>4

(* journal::next moves a reader from frame i to frame i + 1. *)
LEMMA NextMoves ==
    ASSUME IInv, NEW r \in Reader, NEW i \in 1 .. Len(log), At(i, rpage[r], rpos[r]),
           JournalNext(r, rst[r])
    PROVE  /\ file' = file /\ last' = last /\ rst' = rst
           /\ i + 1 \in 1 .. Len(log) + 1 /\ At(i + 1, rpage'[r], rpos'[r])
           /\ rpage' \in [Reader -> Page] /\ rpos' \in [Reader -> Pos]
           /\ \A q \in Reader : q # r => rpage'[q] = rpage[q] /\ rpos'[q] = rpos[q]
           /\ mem[rpage[r]][rpos[r]].val = i
  <1>i. TypeOK /\ IEntry /\ IChain /\ FramesIntact /\ IFree BY DEF IInv
  <1>t. /\ rst \in [Reader -> {"out", "scan", "full", "skip", "read", "fault"}]
        /\ rpage \in [Reader -> Page] /\ rpos \in [Reader -> Pos] /\ Len(log) \in Nat
    BY ReaderTypes
  <1> DEFINE p == rpage[r]
             a == rpos[r]
             f == mem[p][a]
  <1>1. /\ p \in Page /\ a \in Pos /\ p <= TailPage /\ a >= PageHeader
        /\ f = [len |-> log[i].len, typ |-> log[i].typ, gen |-> log[i].gen, val |-> i]
        /\ f.typ = "PageEnd" => p + 1 \in Page /\ p + 1 <= TailPage /\ At(i + 1, p + 1, PageHeader)
        /\ f.typ # "PageEnd" => At(i + 1, p, a + f.len)
        /\ i + 1 \in 1 .. Len(log) + 1
    BY <1>i, WalkStep
  <1>2. f.val = i BY <1>1
  <1>3. CASE f.typ = "PageEnd"
    <2>1. Ready(p + 1) BY <1>1, <1>3, ReadyPage
    <2>2. ReaderLoad(r, p + 1, rst[r]) BY <1>3 DEF JournalNext
    <2>3. /\ file' = file /\ last' = last
          /\ rst' = [rst EXCEPT ![r] = rst[r]]
          /\ rpage' = [rpage EXCEPT ![r] = p + 1]
          /\ rpos' = [rpos EXCEPT ![r] = PageHeader]
      BY <1>1, <1>3, <2>1, <2>2, ReaderLoads
    <2>4. rst' = rst BY <2>3, <1>t
    <2>5. /\ rpage' \in [Reader -> Page] /\ rpos' \in [Reader -> Pos]
          /\ rpage'[r] = p + 1 /\ rpos'[r] = PageHeader
          /\ \A q \in Reader : q # r => rpage'[q] = rpage[q] /\ rpos'[q] = rpos[q]
      BY <2>3, <1>1, <1>3, <1>t, Sizes
    <2> QED BY <1>1, <1>2, <1>3, <2>3, <2>4, <2>5
  <1>4. CASE f.typ # "PageEnd"
    <2>1. /\ rpos' = [rpos EXCEPT ![r] = @ + f.len]
          /\ UNCHANGED <<file, last, rst, rpage>>
      BY <1>4 DEF JournalNext
    <2>2. OnFrame(p, a + f.len) BY <1>1, <1>4 DEF OnFrame
    <2>3. a + f.len \in Pos BY <2>2, OnFrameType
    <2>4. rpos' \in [Reader -> Pos] /\ rpos'[r] = a + f.len
          /\ \A q \in Reader : q # r => rpos'[q] = rpos[q]
      BY <2>1, <2>3, <1>t
    <2> QED BY <1>1, <1>2, <1>4, <1>t, <2>1, <2>4
  <1> QED BY <1>3, <1>4

LEMMA ReaderSkipPreserves ==
    ASSUME IInv, NEW r \in Reader, ReaderSkip(r)
    PROVE  IInv'
  <1>i. TypeOK /\ IEntry /\ IFree /\ IReader /\ InOrder BY DEF IInv
  <1>t. /\ rst \in [Reader -> {"out", "scan", "full", "skip", "read", "fault"}]
        /\ rfrom \in [Reader -> FromTime \cup {0}] /\ rtodo \in [Reader -> SUBSET Page]
        /\ seen \in [Reader -> Seq(Int)] /\ Len(log) \in Nat
    BY ReaderTypes
  <1>0. /\ rst[r] = "skip" /\ UNCHANGED <<mem, wvars, log, rfrom, rtodo, seen>>
    BY DEF ReaderSkip
  <1>1. /\ seen[r] = <<>> /\ rtodo[r] \subseteq file
        /\ OnFrame(rpage[r], rpos[r]) \/ Ahead(rpage[r], rpos[r])
    BY <1>0, <1>i DEF IReader
  <1>2. rtodo' \in [Reader -> SUBSET Page] /\ rtodo'[r] \subseteq file
    BY <1>0, <1>1, <1>t
  <1>3. CASE HasData(rpage[r], rpos[r]) /\ mem[rpage[r]][rpos[r]].gen <= rfrom[r]
    <2>1. OnFrame(rpage[r], rpos[r]) BY <1>1, <1>3, AheadEmpty
    <2>2. PICK i \in 1 .. Len(log) + 1 : At(i, rpage[r], rpos[r]) BY <2>1 DEF OnFrame
    <2>3. i \in 1 .. Len(log)
      <3>1. i # Len(log) + 1 BY <2>2, <1>3, <1>i, TailStep
      <3> QED BY <3>1, <1>t
    <2>4. JournalNext(r, rst[r]) BY <1>0, <1>3 DEF ReaderSkip
    <2>5. /\ file' = file /\ last' = last /\ rst' = rst
          /\ i + 1 \in 1 .. Len(log) + 1 /\ At(i + 1, rpage'[r], rpos'[r])
          /\ rpage' \in [Reader -> Page] /\ rpos' \in [Reader -> Pos]
          /\ \A q \in Reader : q # r => rpage'[q] = rpage[q] /\ rpos'[q] = rpos[q]
      BY <2>2, <2>3, <2>4, NextMoves
    <2>6. OnFrame(rpage'[r], rpos'[r]) BY <2>5 DEF OnFrame
    <2>7. /\ \A k \in 1 .. Len(seen'[r]) : seen'[r][k] \in 1 .. Len(log)
          /\ \A k \in 1 .. Len(seen'[r]) - 1 : seen'[r][k + 1] = seen'[r][k] + 1
      BY <1>0, <1>i DEF InOrder
    <2>8. /\ rst' \in [Reader -> {"out", "scan", "full", "skip", "read", "fault"}]
          /\ rfrom' \in [Reader -> FromTime \cup {0}] /\ seen' \in [Reader -> Seq(Int)]
          /\ rst'[r] = "skip" /\ seen'[r] = <<>>
          /\ \A q \in Reader : q # r =>
               /\ rst'[q] = rst[q] /\ rtodo'[q] = rtodo[q] /\ rpage'[q] = rpage[q]
               /\ rpos'[q] = rpos[q] /\ seen'[q] = seen[q]
      BY <1>0, <1>1, <1>t, <2>5
    <2> QED BY <1>0, <1>2, <2>5, <2>6, <2>7, <2>8, ReaderStep
  <1>4. CASE ~(HasData(rpage[r], rpos[r]) /\ mem[rpage[r]][rpos[r]].gen <= rfrom[r])
    <2>1. rst' = [rst EXCEPT ![r] = "read"] /\ UNCHANGED <<file, last, rpage, rpos>>
      BY <1>4 DEF ReaderSkip
    <2> QED BY <1>0, <1>2, <2>1, StateOnly
  <1> QED BY <1>3, <1>4

LEMMA ReadPreserves ==
    ASSUME IInv, NEW r \in Reader, Read(r)
    PROVE  IInv'
  <1>i. TypeOK /\ IEntry /\ IFree /\ IReader /\ InOrder BY DEF IInv
  <1>t. /\ rst \in [Reader -> {"out", "scan", "full", "skip", "read", "fault"}]
        /\ rfrom \in [Reader -> FromTime \cup {0}] /\ rtodo \in [Reader -> SUBSET Page]
        /\ seen \in [Reader -> Seq(Int)] /\ Len(log) \in Nat
    BY ReaderTypes
  <1>0. /\ rst[r] = "read" /\ HasData(rpage[r], rpos[r])
        /\ UNCHANGED <<mem, wvars, log, rfrom, rtodo>>
        /\ seen' = [seen EXCEPT ![r] = Append(seen[r], mem[rpage[r]][rpos[r]].val)]
    BY DEF Read
  <1>1. ~Ahead(rpage[r], rpos[r]) BY <1>0, AheadEmpty
  <1>2. PICK i \in 1 .. Len(log) + 1 :
          /\ At(i, rpage[r], rpos[r])
          /\ Len(seen[r]) > 0 => seen[r][Len(seen[r])] = i - 1
    BY <1>0, <1>1, <1>i DEF IReader
  <1>3. i \in 1 .. Len(log)
    <2>1. At(i, rpage[r], rpos[r]) BY <1>2
    <2>2. i # Len(log) + 1 BY <2>1, <1>0, <1>i, TailStep
    <2> QED BY <2>2, <1>t
  <1>4. JournalNext(r, rst[r]) BY <1>0 DEF Read
  <1>5. /\ file' = file /\ last' = last /\ rst' = rst
        /\ i + 1 \in 1 .. Len(log) + 1 /\ At(i + 1, rpage'[r], rpos'[r])
        /\ rpage' \in [Reader -> Page] /\ rpos' \in [Reader -> Pos]
        /\ \A q \in Reader : q # r => rpage'[q] = rpage[q] /\ rpos'[q] = rpos[q]
        /\ mem[rpage[r]][rpos[r]].val = i
    <2>1. At(i, rpage[r], rpos[r]) BY <1>2
    <2> QED BY <2>1, <1>3, <1>4, NextMoves
  <1>6. PICK s \in Seq(Int) : s = seen[r] BY <1>t
  <1>7. /\ seen'[r] = Append(s, i) /\ seen' \in [Reader -> Seq(Int)] /\ i \in Int
        /\ \A q \in Reader : q # r => seen'[q] = seen[q]
    BY <1>0, <1>3, <1>5, <1>6, <1>t
  <1>8. /\ Len(s) \in Nat /\ Len(Append(s, i)) = Len(s) + 1 /\ Append(s, i)[Len(s) + 1] = i
        /\ \A k \in 1 .. Len(s) : Append(s, i)[k] = s[k]
    BY <1>7
  <1>9. /\ \A k \in 1 .. Len(s) : s[k] \in 1 .. Len(log)
        /\ \A k \in 1 .. Len(s) - 1 : s[k + 1] = s[k] + 1
        /\ Len(s) > 0 => s[Len(s)] = i - 1
    BY <1>2, <1>6, <1>i DEF InOrder
  <1>10. \A k \in 1 .. Len(s) + 1 : Append(s, i)[k] \in 1 .. Len(log)
    <2>1. \A k \in 1 .. Len(s) + 1 : k \in 1 .. Len(s) \/ k = Len(s) + 1 BY <1>8
    <2> QED BY <2>1, <1>3, <1>8, <1>9
  <1>11. \A k \in 1 .. Len(s) : Append(s, i)[k + 1] = Append(s, i)[k] + 1
    <2> SUFFICES ASSUME NEW k \in 1 .. Len(s)
                 PROVE  Append(s, i)[k + 1] = Append(s, i)[k] + 1
      OBVIOUS
    <2>1. CASE k = Len(s)
      <3>1. s[k] = i - 1 BY <2>1, <1>9
      <3> QED BY <2>1, <3>1, <1>3, <1>8
    <2>2. CASE k < Len(s)
      <3>1. k + 1 \in 1 .. Len(s) /\ k \in 1 .. Len(s) - 1 BY <2>2, <1>8
      <3> QED BY <3>1, <1>8, <1>9
    <2> QED BY <2>1, <2>2, <1>8
  <1>12. /\ Len(seen'[r]) = Len(s) + 1 /\ seen'[r][Len(seen'[r])] = (i + 1) - 1
         /\ \A k \in 1 .. Len(seen'[r]) : seen'[r][k] \in 1 .. Len(log)
         /\ \A k \in 1 .. Len(seen'[r]) - 1 : seen'[r][k + 1] = seen'[r][k] + 1
    <2>1. Len(s) + 1 - 1 = Len(s) /\ (i + 1) - 1 = i BY <1>3, <1>8
    <2>2. PICK z : z = Append(s, i) OBVIOUS
    <2>3. /\ seen'[r] = z /\ Len(z) = Len(s) + 1 /\ z[Len(z)] = (i + 1) - 1
          /\ Len(z) - 1 = Len(s)
      BY <2>1, <2>2, <1>7, <1>8
    <2>4. \A k \in 1 .. Len(z) : z[k] \in 1 .. Len(log) BY <2>2, <2>3, <1>10
    <2>5. \A k \in 1 .. Len(z) - 1 : z[k + 1] = z[k] + 1 BY <2>2, <2>3, <1>11
    <2> QED BY <2>3, <2>4, <2>5
  <1>13. /\ rst' \in [Reader -> {"out", "scan", "full", "skip", "read", "fault"}]
         /\ rfrom' \in [Reader -> FromTime \cup {0}]
         /\ rtodo' \in [Reader -> SUBSET Page] /\ rst'[r] = "read" /\ rtodo'[r] \subseteq file
         /\ \A q \in Reader : q # r =>
               /\ rst'[q] = rst[q] /\ rtodo'[q] = rtodo[q] /\ rpage'[q] = rpage[q]
               /\ rpos'[q] = rpos[q] /\ seen'[q] = seen[q]
    BY <1>0, <1>5, <1>7, <1>i, <1>t DEF IReader
  <1>14. \E j \in 1 .. Len(log) + 1 :
            /\ At(j, rpage'[r], rpos'[r])
            /\ Len(seen'[r]) > 0 => seen'[r][Len(seen'[r])] = j - 1
    BY <1>5, <1>12
  <1> QED BY <1>0, <1>5, <1>7, <1>12, <1>13, <1>14, ReaderStep

-----------------------------------------------------------------------------
(* The invariant. *)

LEMMA InitInv ==
    ASSUME Init
    PROVE  IInv
  <1>0. /\ log = <<>> /\ holder = NoThread /\ file = {1} /\ clock = 1 /\ wst = "down" /\ ~torn
        /\ mem = [p \in Page |-> [a \in Pos |-> Zero]] /\ pc = [t \in Thread |-> "idle"]
        /\ last = [p \in Page |-> IF p = 1 THEN PageHeader ELSE 0]
    BY DEF Init
  <1>1. Len(log) = 0 /\ TailPage = 1 /\ TailPos = PageHeader
    BY <1>0 DEF TailPage, TailPos
  <1>2. /\ Zero \in Header /\ Zero.len = 0 /\ Zero.typ = "none"
        /\ mem \in Memory /\ \A p \in Page, a \in Pos : mem[p][a] = Zero
    BY <1>0 DEF Zero, Header, Memory
  <1>3. TypeOK
    <2>1. /\ file \in SUBSET Page /\ last \in [Page -> Pos] /\ clock \in Nat /\ wseek \in Nat
          /\ wst \in {"down", "full", "skip", "up", "fault"}
          /\ wpage \in Page /\ wpos \in Pos /\ crashes \in 0 .. MaxCrash
      BY Sizes, SizeAssumption DEF Init
    <2>2. /\ pc \in [Thread -> {"idle", "fit", "created", "ready", "marked", "ended",
                          "slot", "open", "zeroed", "stamped", "published"}]
          /\ holder \in Thread \cup {NoThread}
          /\ dlen \in [Thread -> DataLen \cup {0}]
          /\ log \in Seq(Entry)
      BY DEF Init
    <2>3. /\ rst \in [Reader -> {"out", "scan", "full", "skip", "read", "fault"}]
          /\ rfrom \in [Reader -> FromTime \cup {0}]
          /\ rtodo \in [Reader -> SUBSET Page]
          /\ rpage \in [Reader -> Page]
          /\ rpos \in [Reader -> Pos]
          /\ seen \in [Reader -> Seq(Int)]
      BY Sizes DEF Init
    <2>4. torn \in BOOLEAN BY DEF Init
    <2> QED BY <1>2, <2>1, <2>2, <2>3, <2>4 DEF TypeOK
  <1>4. ILock /\ ILast /\ IWriter /\ IBoot
    BY <1>0, <1>1 DEF ILock, ILast, IWriter, IBoot
  <1>5. IEntry /\ IChain /\ FramesIntact
    BY <1>1, Sizes DEF IEntry, IChain, ChainUnbroken, FramesIntact
  <1>6. IFree
    BY <1>1, <1>2, Sizes DEF IFree
  <1>7. IPages
    <2>1. OnFrame(1, PageHeader) BY <1>1 DEF OnFrame, At
    <2>2. \A p \in Page : (p <= 1 <=> p = 1) /\ (p > 1 <=> p # 1) /\ p \in Nat
      BY SizeAssumption DEF Page
    <2>3. last[1] = PageHeader /\ \A p \in Page : p # 1 => last[p] = 0 BY <1>0, Sizes
    <2> QED BY <1>0, <1>1, <2>1, <2>2, <2>3 DEF IPages, Ready
  <1>8. IReader /\ InOrder
    BY DEF Init, IReader, InOrder
  <1>9. NextPageReady
    BY <1>2 DEF NextPageReady, HasData
  <1> QED BY <1>0, <1>3, <1>4, <1>5, <1>6, <1>7, <1>8, <1>9 DEF IInv, ITorn

LEMMA NextInv ==
    ASSUME IInv, SafeCrashes, [Next]_vars
    PROVE  IInv'
  <1>1. ASSUME NEW t \in Thread, NEW d \in DataLen, TryLock(t, d) PROVE IInv'
    BY <1>1, TryLockPreserves
  <1>2. ASSUME NEW t \in Thread, Step(t) PROVE IInv'
    BY <1>2, RollCreatePreserves, RollInitPreserves, RollMarkPreserves, RollEndPreserves,
       RollLastPreserves, OpenFramePreserves, ZeroNextPreserves, StampPreserves,
       PublishPreserves, CloseFramePreserves DEF Step
  <1>3. CASE Crash \/ TryAgain BY <1>3, CrashPreserves, TryAgainPreserves
  <1>4. CASE Boot BY <1>4, RestartPreserves, SeekFullPreserves, SeekSkipPreserves DEF Boot
  <1>5. ASSUME NEW r \in Reader, NEW f \in FromTime, Join(r, f) PROVE IInv'
    BY <1>5, JoinPreserves
  <1>6. ASSUME NEW r \in Reader, Follow(r) PROVE IInv'
    BY <1>6, ScanPreserves, ReaderFullPreserves, ReaderSkipPreserves, ReadPreserves DEF Follow
  <1>7. CASE UNCHANGED vars
    <2>1. /\ file' = file /\ last' = last /\ mem' = mem /\ log' = log /\ wvars' = wvars /\ rvars' = rvars
      BY <1>7 DEF vars
    <2>2. /\ clock' = clock /\ wst' = wst /\ wseek' = wseek /\ wpage' = wpage /\ wpos' = wpos
          /\ pc' = pc /\ holder' = holder /\ dlen' = dlen /\ crashes' = crashes /\ torn' = torn
      BY <2>1 DEF wvars
    <2>3. /\ rst' = rst /\ rfrom' = rfrom /\ rtodo' = rtodo /\ rpage' = rpage /\ rpos' = rpos
          /\ seen' = seen
      BY <2>1 DEF rvars
    <2>4. Last' = Last /\ TailPage' = TailPage /\ TailPos' = TailPos
      BY <2>1 DEF Last, TailPage, TailPos
    <2>5. \A S : Busy(S)' <=> Busy(S) BY <2>2 DEF Busy
    <2>6. TypeOK' BY <2>1, <2>2, <2>3 DEF IInv, TypeOK
    <2>7. ILock' /\ ILast' BY <2>1, <2>2, <2>4 DEF IInv, ILock, ILast, Busy
    <2>8. IEntry' /\ IChain' /\ IFree'
      BY <2>1, <2>2, <2>4 DEF IInv, IEntry, IChain, ChainUnbroken, Linked, IFree
    <2>9. FramesIntact' BY <2>1 DEF IInv, FramesIntact, Intact
    <2>10. IPages' BY <2>1, <2>2, <2>4 DEF IInv, IPages, OnFrame, At, Busy, Ready
    <2>11. IWriter' BY <2>1, <2>2, <2>4 DEF IInv, IWriter, Busy, NextPos, EndPos
    <2>12. IBoot' BY <2>1, <2>2, <2>4 DEF IInv, IBoot, OnFrame, At
    <2>13. NextPageReady' BY <2>1 DEF IInv, NextPageReady, HasData, Ready
    <2>14. InOrder' BY <2>1, <2>3 DEF IInv, InOrder
    <2>15. IReader' BY <2>1, <2>2, <2>3, <2>4 DEF IInv, IReader, OnFrame, At, Ahead, Busy
    <2>16. ITorn' BY <2>1, <2>2, <2>4 DEF IInv, ITorn
    <2> QED BY <2>2, <2>6, <2>7, <2>8, <2>9, <2>10, <2>11, <2>12, <2>13, <2>14, <2>15,
          <2>16 DEF IInv
  <1> QED BY <1>1, <1>2, <1>3, <1>4, <1>5, <1>6, <1>7 DEF Next

(* Wherever the writing process dies, but between the header of a page and  *)
(* the PageEnd of the one before and between the publication of a frame and *)
(* last_frame_position, the inductive invariant holds for ever.             *)
THEOREM Invariance ==
    ASSUME SafeCrashes
    PROVE  Spec => []IInv
  <1>1. Init => IInv BY InitInv
  <1>2. IInv /\ [Next]_vars => IInv' BY NextInv
  <1> QED BY <1>1, <1>2, PTL DEF Spec

(* The state keeps its shape.                                              *)
THEOREM TypeCorrect ==
    ASSUME SafeCrashes
    PROVE  Spec => []TypeOK
  <1>1. IInv => TypeOK BY DEF IInv
  <1> QED BY <1>1, Invariance, PTL

(* writer_mtx_: whoever is between open_frame and close_frame owns it.     *)
THEOREM MutualExclusion ==
    ASSUME SafeCrashes
    PROVE  Spec => []Exclusive
  <1>1. IInv => Exclusive BY DEF IInv, ILock, Exclusive
  <1> QED BY <1>1, Invariance, PTL

(* No store of the writer, and no restart of it, touches a published       *)
(* frame.                                                                  *)
THEOREM FramesAreImmutable ==
    ASSUME SafeCrashes
    PROVE  Spec => []FramesIntact
  <1>1. IInv => FramesIntact BY DEF IInv
  <1> QED BY <1>1, Invariance, PTL

(* journal::next leads from every published frame to the next one.         *)
THEOREM ChainIsUnbroken ==
    ASSUME SafeCrashes
    PROVE  Spec => []ChainUnbroken
  <1>1. IInv => ChainUnbroken BY DEF IInv, IChain
  <1> QED BY <1>1, Invariance, PTL

(* close_page publishes PageEnd only when the next page is initialised.    *)
THEOREM PageTurnIsSafe ==
    ASSUME SafeCrashes
    PROVE  Spec => []NextPageReady
  <1>1. IInv => NextPageReady BY DEF IInv
  <1> QED BY <1>1, Invariance, PTL

(* The application is given published frames, in order and without gaps.   *)
THEOREM DeliveryInOrder ==
    ASSUME SafeCrashes
    PROVE  Spec => []InOrder
  <1>1. IInv => InOrder BY DEF IInv
  <1> QED BY <1>1, Invariance, PTL

(* The assertion of close_frame: the header behind the frame fits.         *)
THEOREM FramesFit ==
    ASSUME SafeCrashes
    PROVE  Spec => []FrameFits
  <1>1. ASSUME IInv PROVE FrameFits
    <2> SUFFICES ASSUME NEW t \in Thread, pc[t] \in {"open", "zeroed", "stamped", "published"}
                 PROVE  NextPos(t) < Border
      BY DEF FrameFits
    <2>1. holder = t /\ wst = "up" /\ \A S : Busy(S) <=> pc[t] \in S BY <1>1, Inside
    <2>2. Busy({"slot", "open", "zeroed", "stamped", "published"}) BY <2>1
    <2> QED BY <1>1, <2>1, <2>2 DEF IInv, IWriter
  <1> QED BY <1>1, Invariance, PTL

(* The writer's constructor dies on the pages it finds after one death      *)
(* only, the one that leaves a page without a header, and then at every     *)
(* start: no writer comes up again.                                         *)
THEOREM WriterRestartsUnlessTorn ==
    ASSUME SafeCrashes
    PROVE  Spec => []WriterRestarts
  <1>1. IInv => WriterRestarts BY DEF IInv, ITorn, WriterRestarts
  <1> QED BY <1>1, Invariance, PTL

-----------------------------------------------------------------------------
(* The readers' search for their first event, and the refinement.          *)

(* Every frame, and the place of the next one, is at the tail or in front. *)
LEMMA InFront ==
    ASSUME IInv, NEW p, NEW a, OnFrame(p, a)
    PROVE  p \in Nat /\ a \in Nat /\ (p < TailPage \/ (p = TailPage /\ a <= TailPos))
  <1>i. TypeOK /\ IEntry BY DEF IInv
  <1>1. PICK i \in 1 .. Len(log) + 1 : At(i, p, a) BY DEF OnFrame
  <1>2. /\ TailPage \in Page /\ TailPos \in Pos /\ TailPage \in Nat /\ TailPos \in Nat
        /\ Len(log) \in Nat
    BY <1>i, TailType, Sizes
  <1>3. CASE i \in 1 .. Len(log)
    <2>1. p = log[i].page /\ a = log[i].pos BY <1>1, <1>2, <1>3 DEF At
    <2>2. p \in Nat /\ a \in Nat /\ log[i].len \in Nat BY <1>i, <1>3, <2>1, EntryType
    <2>3. /\ log[i].len >= 1
          /\ \/ log[i].page < TailPage
             \/ log[i].page = TailPage /\ log[i].pos + log[i].len <= TailPos
      BY <1>i, <1>3 DEF IEntry
    <2> QED BY <1>2, <2>1, <2>2, <2>3
  <1>4. CASE i = Len(log) + 1
    <2>1. p = TailPage /\ a = TailPos BY <1>1, <1>2, <1>4 DEF At
    <2> QED BY <1>2, <2>1
  <1> QED BY <1>2, <1>3, <1>4

(* The frames behind frame i are the first i - 1. *)
LEMMA BehindIs ==
    ASSUME IInv, IOrder, NEW p, NEW a, NEW i \in 1 .. Len(log) + 1, At(i, p, a),
           NEW j \in 1 .. Len(log)
    PROVE  (log[j].page < p \/ (log[j].page = p /\ log[j].pos < a)) <=> j < i
  <1>i. TypeOK /\ IEntry BY DEF IInv
  <1>1. /\ TailPage \in Nat /\ TailPos \in Nat /\ Len(log) \in Nat
    BY <1>i, TailType, Sizes
  <1>2. /\ log[j].page \in Nat /\ log[j].pos \in Nat /\ log[j].len \in Nat
    BY <1>i, EntryType
  <1>3. CASE i \in 1 .. Len(log)
    <2>1. p = log[i].page /\ a = log[i].pos BY <1>1, <1>3 DEF At
    <2>2. log[i].page \in Nat /\ log[i].pos \in Nat BY <1>i, <1>3, EntryType
    <2>3. /\ j < i => \/ log[j].page < log[i].page
                      \/ log[j].page = log[i].page /\ log[j].pos < log[i].pos
          /\ i < j => \/ log[i].page < log[j].page
                      \/ log[i].page = log[j].page /\ log[i].pos < log[j].pos
      BY <1>3 DEF IOrder
    <2>4. i \in Nat /\ j \in Nat BY <1>1, <1>3
    <2> QED BY <1>2, <2>1, <2>2, <2>3, <2>4
  <1>4. CASE i = Len(log) + 1
    <2>1. p = TailPage /\ a = TailPos BY <1>1, <1>4 DEF At
    <2>2. /\ log[j].len >= 1
          /\ \/ log[j].page < TailPage
             \/ log[j].page = TailPage /\ log[j].pos + log[j].len <= TailPos
      BY <1>i DEF IEntry
    <2> QED BY <1>1, <1>2, <1>4, <2>1, <2>2
  <1> QED BY <1>1, <1>3, <1>4

LEMMA GensPast ==
    ASSUME IInv, NEW i \in 1 .. Len(log)
    PROVE  log[i].gen \in Nat /\ clock \in Nat /\ log[i].gen <= clock
  <1>i. TypeOK /\ IEntry BY DEF IInv
  <1>1. log[i].gen \in Nat BY <1>i, EntryType
  <1>2. log[i].gen \in 1 .. clock BY <1>i DEF IEntry
  <1> QED BY <1>i, <1>1, <1>2 DEF TypeOK

(* A step of the writer that publishes nothing. *)
LEMMA FollowQuiet ==
    ASSUME IInv, IFollow, log' = log, UNCHANGED rvars, OldKept,
           \/ mem'[TailPage][TailPos].gen = mem[TailPage][TailPos].gen
           \/ \A i \in 1 .. Len(log) : log[i].gen <= mem'[TailPage][TailPos].gen,
           ICreated'
    PROVE  IFollow'
  <1>i. TypeOK /\ IEntry /\ IStamp BY DEF IInv, IFollow
  <1>1. TailPage' = TailPage /\ TailPos' = TailPos BY DEF TailPage, TailPos, Last
  <1>2. /\ TailPage \in Page /\ TailPos \in Pos /\ TailPage \in Nat /\ TailPos \in Nat
        /\ Len(log) \in Nat
    BY <1>i, TailType, Sizes
  <1>3. IOrder' BY DEF IFollow, IOrder
  <1>4. IStamp' BY <1>1, <1>i DEF IStamp
  <1>5. ASSUME NEW p, NEW a PROVE OnFrame(p, a) <=> OnFrame(p, a)'
    BY <1>1 DEF OnFrame, At
  <1>6. UNCHANGED <<rst, rfrom, rtodo, rpage, rpos, seen>> BY DEF rvars
  <1>7. ASSUME NEW p \in Page, p <= TailPage, NEW i \in 1 .. Len(log), log[i].page < p,
               log[i].gen <= BeginTime(p)
        PROVE  log[i].gen <= BeginTime(p)'
    <2>1. OnFrame(p, PageHeader) BY <1>7, ReadyPage
    <2>2. p < TailPage \/ (p = TailPage /\ PageHeader <= TailPos) BY <2>1, InFront
    <2>3. CASE p = TailPage /\ PageHeader = TailPos
      BY <1>7, <2>3 DEF BeginTime
    <2>4. CASE ~(p = TailPage /\ PageHeader = TailPos)
      <3>1. p < TailPage \/ (p = TailPage /\ PageHeader < TailPos)
        BY <1>2, <2>2, <2>4, Sizes
      <3>2. mem'[p][PageHeader] = mem[p][PageHeader] BY <3>1, Sizes DEF OldKept
      <3> QED BY <1>7, <3>2 DEF BeginTime
    <2> QED BY <2>3, <2>4
  <1>8. ASSUME NEW r \in Reader PROVE Seeks(r)'
    <2>1. Seeks(r) BY DEF IFollow
    <2>2. rtodo[r] \subseteq Page BY <1>i DEF TypeOK
    <2>3. rst[r] = "scan" =>
             /\ 1 \in rtodo[r]
             /\ \A p \in rtodo[r] :
                  /\ p <= TailPage
                  /\ \A i \in 1 .. Len(log) : log[i].page < p => log[i].gen <= BeginTime(p)'
      BY <2>1, <2>2, <1>7 DEF Seeks
    <2>4. \A i \in 1 .. Len(log) : Behind(log[i], r) <=> Behind(log[i], r)' BY <1>6 DEF Behind
    <2> QED BY <2>1, <2>3, <2>4, <1>1, <1>5, <1>6 DEF Seeks
  <1> QED BY <1>3, <1>4, <1>8 DEF IFollow

(* A step of the writer that leaves the frames alone. *)
LEMMA FollowSame ==
    ASSUME IInv, IFollow, log' = log, mem' = mem, UNCHANGED rvars, ICreated'
    PROVE  IFollow'
  BY FollowQuiet DEF OldKept

(* The writer publishes a frame. *)
LEMMA FollowPublished ==
    ASSUME IInv, IInv', IFollow, UNCHANGED rvars, NEW e, log' = Append(log, e),
           e.page = TailPage, e.pos = TailPos, e.gen = mem[TailPage][TailPos].gen, e.gen # 0,
           \A q \in Page, b \in Pos : mem'[q][b].gen = mem[q][b].gen,
           IStamp', ICreated'
    PROVE  IFollow'
  <1>i. TypeOK /\ IEntry /\ IStamp /\ IOrder BY DEF IInv, IFollow
  <1>1. /\ TailPage \in Page /\ TailPos \in Pos /\ TailPage \in Nat /\ TailPos \in Nat
        /\ Len(log) \in Nat
    BY <1>i, TailType, Sizes
  <1>2. /\ Len(log') = Len(log) + 1 /\ log'[Len(log) + 1] = e
        /\ \A i \in 1 .. Len(log) : log'[i] = log[i]
    BY <1>i DEF TypeOK
  <1>3. \A i \in 1 .. Len(log) : log[i].gen <= e.gen BY <1>i DEF IStamp
  <1>4. ASSUME NEW i \in 1 .. Len(log)
        PROVE  log[i].page < e.page \/ (log[i].page = e.page /\ log[i].pos < e.pos)
    <2>1. /\ log[i].len >= 1
          /\ \/ log[i].page < TailPage
             \/ log[i].page = TailPage /\ log[i].pos + log[i].len <= TailPos
      BY <1>i DEF IEntry
    <2>2. log[i].pos \in Nat /\ log[i].len \in Nat BY <1>i, EntryType
    <2> QED BY <1>1, <2>1, <2>2
  <1>5. IOrder'
    <2> SUFFICES ASSUME NEW i \in 1 .. Len(log) + 1, NEW j \in 1 .. Len(log) + 1, i < j
                 PROVE  /\ log'[i].gen <= log'[j].gen
                        /\ \/ log'[i].page < log'[j].page
                           \/ log'[i].page = log'[j].page /\ log'[i].pos < log'[j].pos
      BY <1>2 DEF IOrder
    <2>1. i \in 1 .. Len(log) BY <1>1
    <2>2. CASE j = Len(log) + 1 BY <1>2, <1>3, <1>4, <2>1, <2>2
    <2>3. CASE j \in 1 .. Len(log) BY <1>2, <1>i, <2>1, <2>3 DEF IOrder
    <2> QED BY <1>1, <2>2, <2>3
  <1>6. ASSUME NEW p, NEW a, OnFrame(p, a) PROVE OnFrame(p, a)'
    <2>1. PICK i \in 1 .. Len(log) + 1 : At(i, p, a) BY <1>6 DEF OnFrame
    <2>2. i \in 1 .. Len(log') /\ p = log'[i].page /\ a = log'[i].pos
      <3>1. CASE i \in 1 .. Len(log) BY <2>1, <3>1, <1>1, <1>2 DEF At
      <3>2. CASE i = Len(log) + 1 BY <2>1, <3>2, <1>1, <1>2 DEF At
      <3> QED BY <3>1, <3>2, <1>1
    <2>3. Len(log') + 1 \in Nat /\ i \in 1 .. Len(log') + 1 BY <2>2, <1>1, <1>2
    <2> QED BY <2>2, <2>3 DEF OnFrame, At
  <1>7. TailPage' \in Nat /\ TailPage <= TailPage'
    <2>1. TailPage' \in Nat
      <3>1. TypeOK' /\ IEntry' BY DEF IInv
      <3>2. TailPage' \in Page BY <3>1 DEF IEntry
      <3> QED BY <3>2, Sizes
    <2>2. e.page <= TailPage'
      <3>1. ASSUME NEW i \in 1 .. Len(log') PROVE log'[i].page <= TailPage'
        <4>1. IEntry' BY DEF IInv
        <4>2. log'[i].page \in Page BY <4>1 DEF IEntry
        <4>3. log'[i].page < TailPage' \/ log'[i].page = TailPage' BY <4>1 DEF IEntry
        <4>4. PICK m, n : m = log'[i].page /\ n = TailPage' OBVIOUS
        <4>5. m \in Nat /\ n \in Nat BY <2>1, <4>2, <4>4, Sizes
        <4>6. m <= n BY <4>3, <4>4, <4>5
        <4> QED BY <4>4, <4>6
      <3>2. Len(log) + 1 \in 1 .. Len(log') BY <1>1, <1>2
      <3> QED BY <3>1, <3>2, <1>2
    <2> QED BY <2>1, <2>2
  <1>8. UNCHANGED <<rst, rfrom, rtodo, rpage, rpos, seen>> BY DEF rvars
  <1>9. ASSUME NEW r \in Reader PROVE Seeks(r)'
    <2>1. Seeks(r) BY DEF IFollow
    <2>2. rtodo[r] \subseteq Page BY <1>i DEF TypeOK
    <2>3. ASSUME rst[r] = "scan", NEW p \in rtodo[r]
          PROVE  /\ p <= TailPage'
                 /\ \A i \in 1 .. Len(log') : log'[i].page < p => log'[i].gen <= BeginTime(p)'
      <3>1. /\ p <= TailPage /\ p \in Page /\ p \in Nat
            /\ \A i \in 1 .. Len(log) : log[i].page < p => log[i].gen <= BeginTime(p)
        BY <2>1, <2>2, <2>3, Sizes DEF Seeks
      <3>2. BeginTime(p)' = BeginTime(p) BY <3>1, Sizes DEF BeginTime
      <3>3. ~(e.page < p) BY <3>1, <1>1
      <3>4. \A i \in 1 .. Len(log') : i \in 1 .. Len(log) \/ i = Len(log) + 1 BY <1>1, <1>2
      <3>5. p <= TailPage' BY <3>1, <1>1, <1>7
      <3> QED BY <3>1, <3>2, <3>3, <3>4, <3>5, <1>2
    <2>4. ASSUME rst[r] \in {"full", "skip"}, NEW i \in 1 .. Len(log'), Behind(log[i], r)'
          PROVE  log'[i].gen <= rfrom[r]
      <3>1. Behind(log'[i], r)
        <4>1. PICK f : f = log'[i] OBVIOUS
        <4>2. Behind(f, r)' <=> Behind(f, r) BY <1>8 DEF Behind
        <4>3. Behind(f, r)' BY <2>4, <4>1 DEF Behind
        <4> QED BY <4>1, <4>2, <4>3
      <3>2. OnFrame(rpage[r], rpos[r]) BY <2>1, <2>4 DEF Seeks
      <3>3. /\ rpage[r] \in Nat /\ rpos[r] \in Nat
            /\ rpage[r] < TailPage \/ (rpage[r] = TailPage /\ rpos[r] <= TailPos)
        BY <3>2, InFront
      <3>4. ~Behind(e, r) BY <3>3, <1>1 DEF Behind
      <3>5. i \in 1 .. Len(log) BY <3>1, <3>4, <1>1, <1>2
      <3> QED BY <2>1, <2>4, <3>1, <3>5, <1>2 DEF Seeks
    <2> QED BY <2>1, <2>3, <2>4, <1>6, <1>8 DEF Seeks
  <1> QED BY <1>5, <1>9 DEF IFollow

-----------------------------------------------------------------------------
(* The steps of the writer, one by one. *)

LEMMA RollCreateFollow ==
    ASSUME IInv, IFollow, NEW t \in Thread, RollCreate(t)
    PROVE  IFollow'
  <1>1. pc[t] = "fit" /\ IWriter /\ TypeOK BY DEF RollCreate, IInv
  <1>2. /\ wst = "up" /\ \A S : Busy(S) <=> pc[t] \in S BY <1>1, Inside
  <1>3. wpage = TailPage BY <1>1, <1>2 DEF IWriter
  <1>4. /\ log' = log /\ mem' = mem /\ file' = file \cup {wpage + 1} /\ UNCHANGED rvars
    BY DEF RollCreate
  <1>5. TailPage' = TailPage BY <1>4 DEF TailPage, Last
  <1> QED BY <1>3, <1>4, <1>5, FollowSame DEF ICreated

(* The other steps do not begin to turn the page. *)
LEMMA NotCreated ==
    ASSUME IInv, NEW t \in Thread, pc[t] # "idle", holder' \in {t, NoThread},
           NEW x, x # "created", pc' = [pc EXCEPT ![t] = x]
    PROVE  ICreated'
  BY DEF IInv, TypeOK, ICreated, Busy

LEMMA TryLockFollow ==
    ASSUME IInv, IFollow, NEW t \in Thread, NEW d \in DataLen, TryLock(t, d)
    PROVE  IFollow'
  <1>1. /\ log' = log /\ mem' = mem /\ UNCHANGED rvars /\ holder' = t
        /\ pc' = [pc EXCEPT ![t] = "fit"]
    BY DEF TryLock, disk
  <1>2. ICreated' BY <1>1 DEF IInv, TypeOK, ICreated, Busy
  <1> QED BY <1>1, <1>2, FollowSame

LEMMA MovesFollow ==
    ASSUME IInv, IFollow, NEW t \in Thread, RollInit(t) \/ RollLast(t) \/ CloseFrame(t)
    PROVE  IFollow'
  <1>1. log' = log /\ mem' = mem /\ UNCHANGED rvars
    BY DEF RollInit, RollLast, CloseFrame
  <1>2. pc[t] # "idle" BY DEF RollInit, RollLast, CloseFrame
  <1>3. holder = t BY <1>2, Inside
  <1>4. PICK x : /\ x # "created" /\ pc' = [pc EXCEPT ![t] = x]
                 /\ holder' \in {t, NoThread}
    BY <1>3 DEF RollInit, RollLast, CloseFrame
  <1>5. ICreated' BY <1>2, <1>4, NotCreated
  <1> QED BY <1>1, <1>5, FollowSame

LEMMA RollMarkFollow ==
    ASSUME IInv, IFollow, NEW t \in Thread, RollMark(t)
    PROVE  IFollow'
  <1>i. TypeOK /\ ILock /\ IEntry /\ IFree /\ IWriter BY DEF IInv
  <1>0. pc[t] = "ready" BY DEF RollMark
  <1>1. /\ holder = t /\ wst = "up" /\ \A S : Busy(S) <=> pc[t] \in S
    BY <1>0, Inside
  <1>2. TailPage \in Page /\ TailPos \in Pos /\ TailPage \in Nat /\ TailPos \in Nat /\ Len(log) \in Nat
    BY <1>i, TailType, Sizes
  <1>3. Len(log) > 0 /\ Last.typ = "Data" /\ wpage = TailPage + 1
    BY <1>0, <1>1, <1>i DEF IWriter
  <1>4. wpage - 1 = TailPage /\ EndPos(wpage - 1) = TailPos
    BY <1>0, <1>1, <1>2, <1>3, EndOfPage
  <1>5. PICK now \in {clock + k : k \in Tick} :
           Store(TailPage, TailPos, [len |-> mem[TailPage][TailPos].len, typ |-> "PageEnd",
                                     gen |-> now, val |-> NextFrame])
    BY <1>4 DEF RollMark
  <1>6. now \in Nat /\ now >= clock BY <1>i, <1>5, SizeAssumption DEF TypeOK
  <1> DEFINE h == [len |-> mem[TailPage][TailPos].len, typ |-> "PageEnd",
                   gen |-> now, val |-> NextFrame]
  <1>7. mem \in Memory /\ h \in Header /\ h.gen = now
    <2>1. mem[TailPage][TailPos].len = 0 BY <1>i DEF IFree
    <2>2. mem \in Memory BY <1>i DEF TypeOK
    <2> QED BY <1>2, <1>6, <2>1, <2>2 DEF Header, NextFrame
  <1> HIDE DEF h
  <1>8. /\ mem'[TailPage][TailPos] = h
        /\ \A q \in Page, b \in Pos : (q # TailPage \/ b # TailPos) => mem'[q][b] = mem[q][b]
    <2>1. Store(TailPage, TailPos, h) BY <1>5 DEF h
    <2> QED BY <1>2, <1>7, <2>1, StoreMem
  <1>9. OldKept BY <1>2, <1>8, Sizes DEF OldKept
  <1>10. \A i \in 1 .. Len(log) : log[i].gen <= mem'[TailPage][TailPos].gen
    <2> TAKE i \in 1 .. Len(log)
    <2>1. log[i].gen \in Nat /\ clock \in Nat /\ log[i].gen <= clock BY GensPast
    <2> QED BY <2>1, <1>6, <1>7, <1>8
  <1>11. /\ log' = log /\ UNCHANGED rvars /\ holder' = holder
         /\ pc' = [pc EXCEPT ![t] = "marked"]
    BY DEF RollMark
  <1>12. ICreated' BY <1>0, <1>1, <1>11, NotCreated
  <1> QED BY <1>9, <1>10, <1>11, <1>12, FollowQuiet

LEMMA OpenFrameFollow ==
    ASSUME IInv, IFollow, NEW t \in Thread, OpenFrame(t)
    PROVE  IFollow'
  <1>i. TypeOK /\ IEntry /\ IWriter BY DEF IInv
  <1>0. pc[t] \in {"fit", "slot"} BY DEF OpenFrame
  <1>1. holder = t /\ wst = "up" /\ dlen[t] \in Nat /\ \A S : Busy(S) <=> pc[t] \in S
    BY <1>0, Inside
  <1>2. TailPage \in Page /\ TailPos \in Pos /\ TailPage \in Nat /\ TailPos \in Nat
    BY <1>i, TailType, Sizes
  <1>3. wpage = TailPage /\ wpos = TailPos BY <1>0, <1>1, <1>i DEF IWriter
  <1> DEFINE body == TailPos + Hdr .. TailPos + dlen[t]
             f == [a \in Pos |-> CASE a = TailPos -> [len |-> mem[TailPage][a].len, typ |-> "Data",
                                                      gen |-> mem[TailPage][a].gen, val |-> NextFrame]
                                  [] a \in body -> Bytes(NextFrame)
                                  [] OTHER -> mem[TailPage][a]]
  <1>4. mem' = [mem EXCEPT ![TailPage] = f] BY <1>3 DEF OpenFrame
  <1>5. /\ f[TailPos].gen = mem[TailPage][TailPos].gen
        /\ \A a \in Pos : a # TailPos /\ a \notin body => f[a] = mem[TailPage][a]
    BY <1>2, <1>1
  <1> HIDE DEF f
  <1>6. mem \in [Page -> [Pos -> Header]] BY <1>i DEF TypeOK, Memory
  <1>7. mem'[TailPage] = f /\ \A q \in Page : q # TailPage => mem'[q] = mem[q]
    BY <1>2, <1>4, <1>6
  <1>8. OldKept
    <2>1. \A b \in Pos : b < TailPos => b # TailPos /\ b \notin body BY <1>1, <1>2, Sizes
    <2>2. \A q \in Page : q < TailPage => q # TailPage BY <1>2
    <2> QED BY <2>1, <2>2, <1>5, <1>7 DEF OldKept
  <1>9. mem'[TailPage][TailPos].gen = mem[TailPage][TailPos].gen BY <1>5, <1>7
  <1>10. /\ log' = log /\ UNCHANGED rvars /\ holder' = holder
         /\ pc' = [pc EXCEPT ![t] = "open"]
    BY DEF OpenFrame
  <1>11. ICreated' BY <1>0, <1>1, <1>10, NotCreated
  <1> QED BY <1>8, <1>9, <1>10, <1>11, FollowQuiet

LEMMA ZeroNextFollow ==
    ASSUME IInv, IFollow, NEW t \in Thread, ZeroNext(t)
    PROVE  IFollow'
  <1>0. pc[t] = "open" BY DEF ZeroNext
  <1>1. /\ wpage = TailPage /\ TailPage \in Page /\ TailPos \in Pos
        /\ TailPage \in Nat /\ TailPos \in Nat
        /\ NextPos(t) \in Pos /\ NextPos(t) > TailPos /\ mem \in Memory
    BY <1>0, OpenParts
  <1>2. Zero \in Header BY DEF Zero, Header
  <1>3. NextPos(t) \in Nat BY <1>1, Sizes
  <1>4. \A q \in Page, b \in Pos : (q # TailPage \/ b # NextPos(t)) => mem'[q][b] = mem[q][b]
    <2>1. Store(TailPage, NextPos(t), Zero) BY <1>1 DEF ZeroNext
    <2> QED BY <1>1, <1>2, <2>1, StoreMem
  <1>5. mem'[TailPage][TailPos] = mem[TailPage][TailPos] BY <1>1, <1>3, <1>4
  <1>6. OldKept BY <1>1, <1>3, <1>4, Sizes DEF OldKept
  <1>7. /\ log' = log /\ UNCHANGED rvars /\ holder' = holder
        /\ pc' = [pc EXCEPT ![t] = "zeroed"]
    BY DEF ZeroNext
  <1>8. holder = t BY <1>0, Inside
  <1>9. ICreated' BY <1>0, <1>7, <1>8, NotCreated
  <1> QED BY <1>5, <1>6, <1>7, <1>9, FollowQuiet

LEMMA StampFollow ==
    ASSUME IInv, IFollow, NEW t \in Thread, Stamp(t)
    PROVE  IFollow'
  <1>0. pc[t] = "zeroed" BY DEF Stamp
  <1>1. /\ wpage = TailPage /\ wpos = TailPos /\ TailPage \in Page /\ TailPos \in Pos
        /\ TailPage \in Nat /\ TailPos \in Nat /\ mem \in Memory
    BY <1>0, OpenParts
  <1>2. clock \in Nat /\ holder = t BY <1>0, Inside DEF IInv, TypeOK
  <1>3. PICK now \in {clock + k : k \in Tick} :
          Store(TailPage, TailPos, [mem[TailPage][TailPos] EXCEPT !.gen = now])
    BY <1>1 DEF Stamp
  <1>4. now \in Nat /\ now >= clock BY <1>2, <1>3, SizeAssumption
  <1> DEFINE h == [mem[TailPage][TailPos] EXCEPT !.gen = now]
  <1>5. h \in Header /\ h.gen = now
    <2>1. mem[TailPage][TailPos] \in Header BY <1>1 DEF Memory
    <2> QED BY <2>1, <1>4, SetGen
  <1>6. /\ mem'[TailPage][TailPos] = h
        /\ \A q \in Page, b \in Pos : (q # TailPage \/ b # TailPos) => mem'[q][b] = mem[q][b]
    BY <1>1, <1>3, <1>5, StoreMem
  <1> HIDE DEF h
  <1>7. OldKept
    <2> SUFFICES ASSUME NEW q \in Page, NEW b \in Pos,
                        q < TailPage \/ (q = TailPage /\ b < TailPos)
                 PROVE  mem'[q][b] = mem[q][b]
      BY DEF OldKept
    <2>1. q \in Nat /\ b \in Nat BY Sizes
    <2>2. q # TailPage \/ b # TailPos BY <2>1, <1>1
    <2> QED BY <2>2, <1>6
  <1>8. \A i \in 1 .. Len(log) : log[i].gen <= mem'[TailPage][TailPos].gen
    <2> TAKE i \in 1 .. Len(log)
    <2>1. log[i].gen \in Nat /\ log[i].gen <= clock BY GensPast
    <2> QED BY <2>1, <1>2, <1>4, <1>5, <1>6
  <1>9. /\ log' = log /\ UNCHANGED rvars /\ holder' = holder
        /\ pc' = [pc EXCEPT ![t] = "stamped"]
    BY DEF Stamp
  <1>10. ICreated' BY <1>0, <1>2, <1>9, NotCreated
  <1> QED BY <1>7, <1>8, <1>9, <1>10, FollowQuiet

LEMMA PublishFollow ==
    ASSUME IInv, IInv', IFollow, NEW t \in Thread, Publish(t)
    PROVE  IFollow'
  <1>i. TypeOK /\ IWriter BY DEF IInv
  <1>0. pc[t] = "stamped" BY DEF Publish
  <1>1. /\ wpage = TailPage /\ wpos = TailPos
        /\ TailPage \in Page /\ TailPos \in Pos /\ TailPage \in Nat /\ TailPos \in Nat
        /\ NextPos(t) \in Pos /\ NextPos(t) > TailPos /\ NextPos(t) = TailPos + 1 + dlen[t]
        /\ Len(log) \in Nat /\ dlen[t] \in Nat /\ mem \in Memory
    BY <1>0, OpenParts
  <1>2. /\ holder = t /\ wst = "up" /\ \A S : Busy(S) <=> pc[t] \in S
    BY <1>0, Inside
  <1>3. mem[TailPage][TailPos].gen \in 1 .. clock /\ mem[TailPage][NextPos(t)] = Zero
    BY <1>0, <1>1, <1>2, <1>i DEF IWriter
  <1> DEFINE h == mem[TailPage][TailPos]
             g == [h EXCEPT !.len = Hdr + dlen[t]]
             e == [page |-> TailPage, pos |-> TailPos, len |-> Hdr + dlen[t],
                   gen |-> h.gen, typ |-> "Data"]
  <1>4. h \in Header BY <1>1 DEF Memory
  <1>5. g \in Header /\ g.gen = h.gen
    <2>1. g \in Header /\ g = [len |-> Hdr + dlen[t], typ |-> h.typ, gen |-> h.gen, val |-> h.val]
      BY <1>1, <1>4, SetLen
    <2> HIDE DEF g, h
    <2> QED BY <2>1
  <1>6. /\ mem'[TailPage][TailPos] = g
        /\ \A q \in Page, b \in Pos : (q # TailPage \/ b # TailPos) => mem'[q][b] = mem[q][b]
    <2>1. Store(TailPage, TailPos, g) BY <1>1 DEF Publish
    <2> QED BY <1>1, <1>5, <2>1, StoreMem
  <1>7. e.page = TailPage /\ e.pos = TailPos /\ e.gen = h.gen /\ e.len = 1 + dlen[t] /\ e.typ = "Data"
    OBVIOUS
  <1>8. log' = Append(log, e) BY <1>1 DEF Publish
  <1> HIDE DEF e, g
  <1>9. \A q \in Page, b \in Pos : mem'[q][b].gen = mem[q][b].gen BY <1>5, <1>6
  <1>10. TailPage' = TailPage /\ TailPos' = NextPos(t)
    <2>1. Len(log') = Len(log) + 1 /\ log'[Len(log) + 1] = e
      BY <1>i, <1>8 DEF TypeOK
    <2>2. Last' = e /\ Len(log') # 0 BY <2>1, <1>1 DEF Last
    <2> QED BY <2>2, <1>1, <1>7 DEF TailPage, TailPos
  <1>11. IStamp'
    <2>1. mem'[TailPage][NextPos(t)].gen = 0 BY <1>1, <1>3, <1>9 DEF Zero
    <2> QED BY <2>1, <1>10 DEF IStamp
  <1>12. /\ UNCHANGED rvars /\ holder' = holder /\ pc' = [pc EXCEPT ![t] = "published"]
    BY DEF Publish
  <1>13. ICreated' BY <1>0, <1>2, <1>12, NotCreated
  <1>14. e.gen # 0 BY <1>3, <1>7
  <1> QED BY <1>7, <1>8, <1>9, <1>11, <1>12, <1>13, <1>14, FollowPublished

LEMMA RollEndFollow ==
    ASSUME IInv, IInv', IFollow, NEW t \in Thread, RollEnd(t)
    PROVE  IFollow'
  <1>i. TypeOK /\ IFree /\ IWriter BY DEF IInv
  <1>0. pc[t] = "marked" BY DEF RollEnd
  <1>1. /\ holder = t /\ wst = "up" /\ \A S : Busy(S) <=> pc[t] \in S
    BY <1>0, Inside
  <1>2. TailPage \in Page /\ TailPos \in Pos /\ TailPage \in Nat /\ TailPos \in Nat /\ Len(log) \in Nat
    BY <1>i, TailType, Sizes DEF IInv
  <1>3. /\ Len(log) > 0 /\ Last.typ = "Data" /\ wpage = TailPage + 1
        /\ mem[TailPage][TailPos].gen \in 1 .. clock
    BY <1>0, <1>1, <1>i DEF IWriter
  <1>4. wpage - 1 = TailPage /\ EndPos(wpage - 1) = TailPos
    BY <1>0, <1>1, <1>2, <1>3, EndOfPage
  <1>5. TailPage + 1 \in Page BY <1>3, <1>i DEF TypeOK
  <1> DEFINE h == mem[TailPage][TailPos]
             g == [h EXCEPT !.len = Hdr]
             e == [page |-> TailPage, pos |-> TailPos, len |-> Hdr,
                   gen |-> h.gen, typ |-> "PageEnd"]
  <1>6. mem \in Memory /\ h \in Header BY <1>2, <1>i DEF TypeOK, Memory
  <1>7. g \in Header /\ g.gen = h.gen
    <2>1. g \in Header /\ g = [len |-> Hdr, typ |-> h.typ, gen |-> h.gen, val |-> h.val]
      BY <1>6, SetLen
    <2> HIDE DEF g, h
    <2> QED BY <2>1
  <1>8. /\ mem'[TailPage][TailPos] = g
        /\ \A q \in Page, b \in Pos : (q # TailPage \/ b # TailPos) => mem'[q][b] = mem[q][b]
    <2>1. Store(TailPage, TailPos, g) BY <1>4 DEF RollEnd
    <2> QED BY <1>2, <1>6, <1>7, <2>1, StoreMem
  <1>9. e.page = TailPage /\ e.pos = TailPos /\ e.gen = h.gen /\ e.typ = "PageEnd"
    OBVIOUS
  <1>10. log' = Append(log, e) BY <1>4 DEF RollEnd
  <1> HIDE DEF e, g
  <1>11. \A q \in Page, b \in Pos : mem'[q][b].gen = mem[q][b].gen BY <1>7, <1>8
  <1>12. TailPage' = TailPage + 1 /\ TailPos' = PageHeader
    <2>1. Len(log') = Len(log) + 1 /\ log'[Len(log) + 1] = e
      BY <1>i, <1>10 DEF TypeOK
    <2>2. Last' = e /\ Len(log') # 0 BY <2>1, <1>2 DEF Last
    <2> QED BY <2>2, <1>2, <1>9 DEF TailPage, TailPos
  <1>13. IStamp'
    <2>1. mem[TailPage + 1][PageHeader] = Zero BY <1>2, <1>5, <1>i, Sizes DEF IFree
    <2>2. mem[TailPage + 1][PageHeader].gen = 0 BY <2>1 DEF Zero
    <2>3. PICK p : p = TailPage + 1 OBVIOUS
    <2>4. mem'[p][PageHeader].gen = mem[p][PageHeader].gen BY <2>3, <1>5, <1>11, Sizes
    <2>5. mem'[p][PageHeader].gen = 0 BY <2>2, <2>3, <2>4
    <2> QED BY <2>3, <2>5, <1>12 DEF IStamp
  <1>14. /\ UNCHANGED rvars /\ holder' = holder /\ pc' = [pc EXCEPT ![t] = "ended"]
    BY DEF RollEnd
  <1>15. ICreated' BY <1>0, <1>1, <1>14, NotCreated
  <1>16. e.gen # 0 BY <1>3, <1>9
  <1> QED BY <1>9, <1>10, <1>11, <1>13, <1>14, <1>15, <1>16, FollowPublished

LEMMA BootFollow ==
    ASSUME IInv, IFollow, Crash \/ TryAgain \/ Boot
    PROVE  IFollow'
  <1>1. log' = log /\ mem' = mem /\ UNCHANGED rvars
    BY DEF Crash, TryAgain, Boot, Restart, SeekFull, SeekSkip, disk
  <1>2. holder' = NoThread
    BY DEF IInv, ILock, Crash, TryAgain, Boot, Restart, SeekFull, SeekSkip
  <1>3. ICreated' BY <1>2 DEF ICreated, Busy
  <1> QED BY <1>1, <1>3, FollowSame

-----------------------------------------------------------------------------
(* The steps of the readers. *)

LEMMA FollowReader ==
    ASSUME IInv, IFollow, NEW r \in Reader, UNCHANGED <<mem, wvars, log>>, file \subseteq file',
           \A q \in Reader : q # r =>
               /\ rst'[q] = rst[q] /\ rfrom'[q] = rfrom[q] /\ rtodo'[q] = rtodo[q]
               /\ rpage'[q] = rpage[q] /\ rpos'[q] = rpos[q],
           Seeks(r)'
    PROVE  IFollow'
  <1>1. TailPage' = TailPage /\ TailPos' = TailPos BY DEF TailPage, TailPos, Last
  <1>2. IOrder' BY DEF IFollow, IOrder
  <1>3. IStamp' BY <1>1 DEF IFollow, IStamp
  <1>4. ICreated' BY <1>1 DEF IFollow, ICreated, Busy, wvars
  <1>5. ASSUME NEW p, NEW a PROVE OnFrame(p, a) <=> OnFrame(p, a)'
    BY <1>1 DEF OnFrame, At
  <1>6. ASSUME NEW q \in Reader, q # r PROVE Seeks(q)'
    <2>1. Seeks(q) BY DEF IFollow
    <2>2. \A i \in 1 .. Len(log) : Behind(log[i], q) <=> Behind(log[i], q)' BY <1>6 DEF Behind
    <2>3. \A p : BeginTime(p)' = BeginTime(p) BY DEF BeginTime
    <2> QED BY <2>1, <2>2, <2>3, <1>1, <1>5, <1>6 DEF Seeks
  <1> QED BY <1>2, <1>3, <1>4, <1>6 DEF IFollow

(* No frame is longer than what is left of its page: is_full never holds.  *)
LEMMA NeverFull ==
    ASSUME IInv, NEW p \in Page, p <= TailPage
    PROVE  ~IsFull(p)
  <1>i. TypeOK /\ IEntry /\ IChain /\ FramesIntact /\ IFree /\ IPages BY DEF IInv
  <1> SUFFICES ASSUME IsFull(p) PROVE FALSE OBVIOUS
  <1>1. PICK i \in 1 .. Len(log) + 1 : At(i, p, last[p]) BY <1>i DEF IPages, OnFrame
  <1>2. Len(log) \in Nat /\ last[p] \in Nat
    <2>1. Len(log) \in Nat /\ last[p] \in Pos BY <1>i DEF TypeOK
    <2> QED BY <2>1, Sizes
  <1>3. last[p] + mem[p][last[p]].len > Border BY DEF IsFull
  <1>4. CASE i = Len(log) + 1
    <2>1. last[p] + mem[p][last[p]].len <= Border BY <1>1, <1>4, <1>i, TailStep
    <2>2. mem[p][last[p]].len = 0 BY <1>1, <1>4, <1>i, TailType DEF At, IFree
    <2> QED BY <2>1, <2>2, <1>2, <1>3, Sizes
  <1>5. CASE i \in 1 .. Len(log)
    <2>1. p = log[i].page /\ last[p] = log[i].pos BY <1>1, <1>2, <1>5 DEF At
    <2>2. mem[p][last[p]].len = log[i].len
      <3>1. mem[p][last[p]] = [len |-> log[i].len, typ |-> log[i].typ, gen |-> log[i].gen, val |-> i]
        BY <2>1, <1>i, <1>5 DEF FramesIntact, Intact
      <3> QED BY <3>1
    <2>3. log[i].pos \in Nat /\ log[i].len \in Nat /\ log[i].typ \in {"Data", "PageEnd"}
      BY <1>i, <1>5, EntryType
    <2>4. /\ log[i].typ = "Data" => log[i].pos + log[i].len < Border
          /\ log[i].typ = "PageEnd" => log[i].len = 1 /\ log[i].pos < Border
      BY <1>i, <1>5 DEF IEntry
    <2>5. log[i].pos + log[i].len <= Border BY <2>3, <2>4, Sizes
    <2>6. log[i].pos + log[i].len > Border BY <2>1, <2>2, <1>3
    <2> QED BY <2>3, <2>5, <2>6, Sizes
  <1> QED BY <1>2, <1>4, <1>5

(* Nothing is in front of a page but the pages before it. *)
LEMMA PageStart ==
    ASSUME IInv, NEW i \in 1 .. Len(log), NEW r \in Reader,
           NEW p \in Page, rpage[r] = p, rpos[r] = PageHeader, Behind(log[i], r)
    PROVE  log[i].page < p
  <1>1. log[i].pos >= PageHeader BY DEF IInv, IEntry
  <1>2. log[i].pos \in Nat BY EntryType DEF IInv
  <1> QED BY <1>1, <1>2, Sizes DEF Behind

(* While no page is turned, the newest one is that of the tail. *)
LEMMA Settled ==
    ASSUME IInv, ICreated, ~Turning
    PROVE  /\ \A p \in file : p <= TailPage
           /\ TailPage = 1 \/ BeginTime(TailPage) # 0
  <1>i. TypeOK /\ ILock /\ IEntry /\ IFree /\ IPages /\ IWriter /\ ITorn BY DEF IInv
  <1>1. TailPage \in Page /\ TailPage \in Nat /\ TailPage >= 1
    BY <1>i, TailType, Sizes DEF Page
  <1>2. file \subseteq Page /\ file \subseteq 1 .. MaxPage /\ MaxPage \in Nat /\ 1 \in file
    BY <1>i, ReadyPage, Sizes, SizeAssumption DEF TypeOK, Page
  <1>3. Max(file) \in file /\ \A y \in file : y <= Max(file) BY <1>2, MaxOfSet
  <1>4. IsFiniteSet(file)
    <2>1. IsFiniteSet(1 .. MaxPage) BY <1>2, FS_Interval
    <2> QED BY <2>1, <1>2, FS_Subset
  <1>5. ASSUME NEW p \in file, p # 1 PROVE BeginTime(Max(file)) # 0
    <2>1. Cardinality({1, p}) = 2
      <3>1. IsFiniteSet({1}) /\ Cardinality({1}) = 1 BY FS_Singleton
      <3>2. {1} \cup {p} = {1, p} OBVIOUS
      <3> QED BY <3>1, <3>2, <1>5, FS_AddElement
    <2>2. Cardinality({1, p}) <= Cardinality(file) BY <1>2, <1>4, <1>5, FS_Subset
    <2>3. Cardinality(file) \in Nat BY <1>4, FS_CardinalityType
    <2> QED BY <2>1, <2>2, <2>3 DEF Turning
  <1>6. ~torn /\ ~Busy({"created", "ready", "marked"})
    <2> SUFFICES ASSUME torn \/ Busy({"created", "ready", "marked"}) PROVE FALSE OBVIOUS
    <2>1. torn \/ wst = "up" BY <1>i DEF Busy, ILock
    <2>2. TailPage + 1 \in file
      <3>1. CASE Busy({"created"}) BY <3>1 DEF ICreated
      <3>2. CASE ~torn /\ Busy({"ready", "marked"}) BY <3>2, <2>1, <1>i DEF IWriter
      <3>3. CASE torn BY <3>3, <1>i DEF ITorn
      <3> QED BY <3>1, <3>2, <3>3 DEF Busy
    <2>3. Max(file) \in Page /\ Max(file) > TailPage
      <3>1. PICK m : m = Max(file) OBVIOUS
      <3>2. m \in Page /\ m \in Nat /\ TailPage + 1 <= m BY <3>1, <2>2, <1>2, <1>3, Sizes
      <3>3. m > TailPage BY <3>2, <1>1
      <3> QED BY <3>1, <3>2, <3>3
    <2>4. mem[Max(file)][PageHeader] = Zero BY <2>3, <1>i, Sizes DEF IFree
    <2> QED BY <2>2, <2>4, <1>1, <1>5 DEF BeginTime, Zero
  <1>7. \A p \in file : p <= TailPage BY <1>2, <1>6, ReadyPage
  <1>8. TailPage \in file BY <1>1, <1>i DEF IPages
  <1>9. Max(file) = TailPage
    <2>1. PICK m : m = Max(file) OBVIOUS
    <2>2. m \in Nat /\ m <= TailPage /\ TailPage <= m
      BY <2>1, <1>2, <1>3, <1>7, <1>8, Sizes
    <2>3. m = TailPage BY <2>2, <1>1
    <2> QED BY <2>1, <2>3
  <1> QED BY <1>5, <1>7, <1>8, <1>9

(* Then a page begins after every frame of the pages before it. *)
LEMMA BeginsAfter ==
    ASSUME IInv, IFollow, ~Turning, NEW p \in file, NEW i \in 1 .. Len(log), log[i].page < p
    PROVE  p <= TailPage /\ log[i].gen <= BeginTime(p)
  <1>i. TypeOK /\ IEntry /\ FramesIntact /\ IOrder /\ IStamp /\ ICreated
    BY DEF IInv, IFollow
  <1>1. p \in Page /\ p \in Nat /\ p <= TailPage BY <1>i, Settled, Sizes DEF TypeOK
  <1>2. /\ Len(log) \in Nat /\ log[i].page \in Nat /\ log[i].page >= 1
        /\ TailPage \in Nat
    BY <1>i, EntryType, TailType, Sizes DEF TypeOK, Page
  <1>3. OnFrame(p, PageHeader) BY <1>1, ReadyPage
  <1>4. PICK j \in 1 .. Len(log) + 1 : At(j, p, PageHeader) BY <1>3 DEF OnFrame
  <1>5. CASE j \in 1 .. Len(log)
    <2>1. p = log[j].page /\ PageHeader = log[j].pos BY <1>2, <1>4, <1>5 DEF At
    <2>2. BeginTime(p) = log[j].gen
      <3>1. mem[p][PageHeader] = [len |-> log[j].len, typ |-> log[j].typ, gen |-> log[j].gen, val |-> j]
        BY <2>1, <1>i, <1>5 DEF FramesIntact, Intact
      <3> QED BY <3>1 DEF BeginTime
    <2>3. i < j
      <3>1. i # j BY <1>1, <1>2, <2>1
      <3>2. j < i => log[j].page <= log[i].page
        BY <1>i, <1>1, <1>2, <1>5, <2>1 DEF IOrder
      <3>3. i \in Nat /\ j \in Nat BY <1>2, <1>5
      <3> QED BY <3>1, <3>2, <3>3, <2>1, <1>1, <1>2
    <2> QED BY <2>2, <2>3, <1>1, <1>5, <1>i DEF IOrder
  <1>6. CASE j = Len(log) + 1
    <2>1. p = TailPage /\ PageHeader = TailPos BY <1>2, <1>4, <1>6 DEF At
    <2>2. BeginTime(p) # 0 BY <2>1, <1>1, <1>2, <1>i, Settled
    <2> QED BY <2>1, <2>2, <1>1, <1>i DEF IStamp, BeginTime
  <1> QED BY <1>2, <1>5, <1>6

LEMMA JoinFollow ==
    ASSUME IInv, IInv', IFollow, CalmJoins, NEW r \in Reader, NEW f \in FromTime, Join(r, f)
    PROVE  IFollow'
  <1>t. /\ rst \in [Reader -> {"out", "scan", "full", "skip", "read", "fault"}]
        /\ rfrom \in [Reader -> FromTime \cup {0}] /\ rtodo \in [Reader -> SUBSET Page]
        /\ rpage \in [Reader -> Page] /\ rpos \in [Reader -> Pos]
        /\ file \subseteq Page /\ Len(log) \in Nat
    BY ReaderTypes
  <1>0. UNCHANGED <<mem, wvars, log>> /\ rfrom' = [rfrom EXCEPT ![r] = f] BY DEF Join
  <1>1. TailPage' = TailPage /\ TailPos' = TailPos BY <1>0 DEF TailPage, TailPos, Last
  <1>2. ASSUME NEW p, NEW a PROVE OnFrame(p, a) <=> OnFrame(p, a)'
    BY <1>0, <1>1 DEF OnFrame, At
  <1>3. CASE f = 0
    <2>1. Min(file) = 1
      <3>1. file \subseteq Nat /\ file # {} /\ 1 \in file /\ \A p \in file : p >= 1
        BY <1>t, ReadyPage, Sizes DEF Page
      <3>2. PICK m : m = Min(file) OBVIOUS
      <3>3. m \in file /\ m <= 1 BY <3>1, <3>2, MinOfSet
      <3>4. m = 1 BY <3>1, <3>3
      <3> QED BY <3>2, <3>4
    <2>2. 1 \in Page /\ 1 <= TailPage /\ Ready(1) /\ OnFrame(1, PageHeader) BY ReadyPage, Sizes
    <2>3. ReaderLoad(r, 1, "full") /\ rtodo' = rtodo BY <1>3, <2>1 DEF Join
    <2>4. /\ file' = file /\ rst' = [rst EXCEPT ![r] = "full"]
          /\ rpage' = [rpage EXCEPT ![r] = 1] /\ rpos' = [rpos EXCEPT ![r] = PageHeader]
      BY <2>2, <2>3, ReaderLoads
    <2>5. /\ rst'[r] = "full" /\ rpage'[r] = 1 /\ rpos'[r] = PageHeader
          /\ \A q \in Reader : q # r =>
               /\ rst'[q] = rst[q] /\ rfrom'[q] = rfrom[q] /\ rtodo'[q] = rtodo[q]
               /\ rpage'[q] = rpage[q] /\ rpos'[q] = rpos[q]
      BY <1>0, <1>t, <2>3, <2>4
    <2>6. ASSUME NEW i \in 1 .. Len(log) PROVE ~Behind(log[i], r)'
      <3>1. log[i].page >= 1 /\ log[i].pos >= PageHeader /\ log[i].page \in Nat /\ log[i].pos \in Nat
        BY EntryType, Sizes DEF IInv, IEntry, Page
      <3> QED BY <3>1, <2>5, <1>0, Sizes DEF Behind
    <2>7. OnFrame(1, PageHeader)' BY <2>2, <1>2
    <2>8. Seeks(r)' BY <2>5, <2>6, <2>7, <1>0 DEF Seeks
    <2> QED BY <1>0, <2>4, <2>5, <2>8, FollowReader
  <1>4. CASE f # 0
    <2>1. ~Turning BY <1>4 DEF Join, CalmJoins
    <2>2. /\ rst' = [rst EXCEPT ![r] = "scan"] /\ rtodo' = [rtodo EXCEPT ![r] = file]
          /\ UNCHANGED <<file, rpage, rpos>>
      BY <1>4 DEF Join
    <2>3. /\ rst'[r] = "scan" /\ rtodo'[r] = file
          /\ \A q \in Reader : q # r =>
               /\ rst'[q] = rst[q] /\ rfrom'[q] = rfrom[q] /\ rtodo'[q] = rtodo[q]
               /\ rpage'[q] = rpage[q] /\ rpos'[q] = rpos[q]
      BY <1>0, <1>t, <2>2
    <2>4. 1 \in file BY ReadyPage, Sizes
    <2>5. \A p \in file : p <= TailPage BY <2>1, Settled DEF IFollow
    <2>6. \A p \in file, i \in 1 .. Len(log) : log[i].page < p => log[i].gen <= BeginTime(p)'
      BY <1>0, <2>1, BeginsAfter DEF BeginTime
    <2>7. Seeks(r)' BY <1>0, <1>1, <2>3, <2>4, <2>5, <2>6 DEF Seeks
    <2> QED BY <1>0, <2>2, <2>3, <2>7, FollowReader
  <1> QED BY <1>3, <1>4

LEMMA ScanFollow ==
    ASSUME IInv, IFollow, NEW r \in Reader, Scan(r)
    PROVE  IFollow'
  <1>t. /\ rst \in [Reader -> {"out", "scan", "full", "skip", "read", "fault"}]
        /\ rfrom \in [Reader -> FromTime \cup {0}] /\ rtodo \in [Reader -> SUBSET Page]
        /\ rpage \in [Reader -> Page] /\ rpos \in [Reader -> Pos]
        /\ file \subseteq Page /\ Len(log) \in Nat
    BY ReaderTypes
  <1>0. rst[r] = "scan" /\ UNCHANGED <<mem, wvars, log, rfrom>> BY DEF Scan
  <1>1. TailPage' = TailPage /\ TailPos' = TailPos BY <1>0 DEF TailPage, TailPos, Last
  <1>2. ASSUME NEW p, NEW a PROVE OnFrame(p, a) <=> OnFrame(p, a)'
    BY <1>0, <1>1 DEF OnFrame, At
  <1>3. /\ 1 \in rtodo[r]
        /\ \A p \in rtodo[r] :
              /\ p <= TailPage
              /\ \A i \in 1 .. Len(log) : log[i].page < p => log[i].gen <= BeginTime(p)
    BY <1>0 DEF IFollow, Seeks
  <1>4. PICK p : p = Max(rtodo[r]) OBVIOUS
  <1>5. p \in rtodo[r] /\ \A q \in rtodo[r] : q <= p
    <2>1. rtodo[r] \subseteq 1 .. MaxPage /\ MaxPage \in Nat
      BY <1>t, SizeAssumption DEF Page
    <2> QED BY <2>1, <1>3, <1>4, MaxOfSet
  <1>6. p \in Page /\ p \in Nat /\ p <= TailPage /\ Ready(p) /\ OnFrame(p, PageHeader)
    BY <1>3, <1>5, <1>t, ReadyPage, Sizes
  <1>7. CASE BeginTime(p) < rfrom[r] \/ rtodo[r] = {p}
    <2>1. ReaderLoad(r, p, "full") /\ rtodo' = [rtodo EXCEPT ![r] = {}]
      BY <1>4, <1>6, <1>7 DEF Scan
    <2>2. /\ file' = file /\ rst' = [rst EXCEPT ![r] = "full"]
          /\ rpage' = [rpage EXCEPT ![r] = p] /\ rpos' = [rpos EXCEPT ![r] = PageHeader]
      BY <1>6, <2>1, ReaderLoads
    <2>3. /\ rst'[r] = "full" /\ rpage'[r] = p /\ rpos'[r] = PageHeader
          /\ \A q \in Reader : q # r =>
               /\ rst'[q] = rst[q] /\ rfrom'[q] = rfrom[q] /\ rtodo'[q] = rtodo[q]
               /\ rpage'[q] = rpage[q] /\ rpos'[q] = rpos[q]
      BY <1>0, <1>t, <1>6, <2>1, <2>2
    <2>4. ASSUME NEW i \in 1 .. Len(log), Behind(log[i], r)' PROVE log[i].gen <= rfrom[r]
      <3>1. /\ log[i].page \in Nat /\ log[i].pos \in Nat /\ log[i].page >= 1
            /\ log[i].gen \in Nat /\ log[i].pos >= PageHeader
        <4>1. TypeOK /\ log[i].pos >= PageHeader BY DEF IInv, IEntry
        <4>2. log[i].page \in Page /\ log[i].pos \in Nat /\ log[i].gen \in Nat
          BY <4>1, EntryType
        <4> QED BY <4>1, <4>2, Sizes DEF Page
      <3>2. log[i].page < p BY <3>1, <2>3, <2>4, <1>0, Sizes DEF Behind
      <3>3. log[i].gen <= BeginTime(p) BY <3>2, <1>3, <1>5
      <3>4. BeginTime(p) < rfrom[r]
        <4>1. rtodo[r] = {p} => p = 1 BY <1>3
        <4> QED BY <4>1, <3>1, <3>2, <1>7
      <3>5. BeginTime(p) \in Nat
        <4>1. mem \in [Page -> [Pos -> Header]] BY DEF IInv, TypeOK, Memory
        <4>2. mem[p][PageHeader] \in Header BY <4>1, <1>6, Sizes
        <4> QED BY <4>2 DEF BeginTime, Header
      <3>6. rfrom[r] \in Nat
        <4>1. PICK x : x = rfrom[r] OBVIOUS
        <4>2. x \in FromTime \/ x = 0 BY <1>t, <4>1
        <4>3. FromTime \subseteq Nat BY SizeAssumption
        <4>4. x \in FromTime => x \in Nat BY <4>3, Zenon
        <4>5. x = 0 => x \in Nat OBVIOUS
        <4> QED BY <4>1, <4>2, <4>4, <4>5
      <3> QED BY <3>1, <3>3, <3>4, <3>5, <3>6
    <2>5. OnFrame(p, PageHeader)' BY <1>2, <1>6
    <2>6. Seeks(r)' BY <2>3, <2>4, <2>5, <1>0 DEF Seeks
    <2> QED BY <1>0, <2>2, <2>3, <2>6, FollowReader
  <1>8. CASE ~(BeginTime(p) < rfrom[r] \/ rtodo[r] = {p})
    <2>1. rtodo' = [rtodo EXCEPT ![r] = rtodo[r] \ {p}] /\ UNCHANGED <<file, rst, rpage, rpos>>
      BY <1>4, <1>6, <1>8 DEF Scan
    <2>2. rtodo'[r] = rtodo[r] \ {p} /\ \A q \in Reader : q # r => rtodo'[q] = rtodo[q]
      BY <1>t, <2>1
    <2>3. p # 1
      <3> SUFFICES ASSUME p = 1 PROVE rtodo[r] = {1} BY <1>8
      <3>1. \A q \in rtodo[r] : q \in Nat /\ q >= 1 /\ q <= 1 BY <1>5, <1>t, Sizes DEF Page
      <3>2. \A q \in rtodo[r] : q = 1 BY <3>1
      <3> QED BY <3>2, <1>3
    <2>4. \A q : BeginTime(q)' = BeginTime(q) BY <1>0 DEF BeginTime
    <2>5. Seeks(r)' BY <1>0, <1>1, <1>3, <2>1, <2>2, <2>3, <2>4 DEF Seeks
    <2> QED BY <1>0, <2>1, <2>2, <2>5, FollowReader
  <1> QED BY <1>7, <1>8

LEMMA ReaderFullFollow ==
    ASSUME IInv, IFollow, NEW r \in Reader, ReaderFull(r)
    PROVE  IFollow'
  <1>t. /\ rst \in [Reader -> {"out", "scan", "full", "skip", "read", "fault"}]
        /\ rpage \in [Reader -> Page]
    BY ReaderTypes
  <1>0. /\ rst[r] = "full" /\ UNCHANGED <<mem, wvars, log, rfrom, rtodo>>
    BY DEF ReaderFull
  <1>1. TailPage' = TailPage /\ TailPos' = TailPos BY <1>0 DEF TailPage, TailPos, Last
  <1>2. ASSUME NEW p, NEW a PROVE OnFrame(p, a) <=> OnFrame(p, a)'
    BY <1>0, <1>1 DEF OnFrame, At
  <1>3. Seeks(r) BY DEF IFollow
  <1>4. OnFrame(rpage[r], rpos[r]) BY <1>0, <1>3 DEF Seeks
  <1>5. ~IsFull(rpage[r])
    <2>1. rpage[r] \in Page /\ rpage[r] <= TailPage BY <1>4, OnFrameType
    <2> QED BY <2>1, NeverFull
  <1>6. rst' = [rst EXCEPT ![r] = "skip"] /\ UNCHANGED <<file, rpage, rpos>>
    BY <1>5 DEF ReaderFull
  <1>7. rst'[r] = "skip" /\ \A q \in Reader : q # r => rst'[q] = rst[q] BY <1>t, <1>6
  <1>8. \A i \in 1 .. Len(log) : Behind(log[i], r) <=> Behind(log[i], r)'
    BY <1>0, <1>6 DEF Behind
  <1>9. OnFrame(rpage[r], rpos[r])' BY <1>2, <1>4, <1>6
  <1>10. Seeks(r)' BY <1>0, <1>3, <1>6, <1>7, <1>8, <1>9 DEF Seeks
  <1> QED BY <1>0, <1>6, <1>7, <1>10, FollowReader

LEMMA ReaderSkipFollow ==
    ASSUME IInv, IFollow, NEW r \in Reader, ReaderSkip(r)
    PROVE  IFollow'
  <1>i. TypeOK /\ IEntry /\ IFree /\ IOrder /\ FramesIntact BY DEF IInv, IFollow
  <1>t. /\ rst \in [Reader -> {"out", "scan", "full", "skip", "read", "fault"}]
        /\ rpage \in [Reader -> Page] /\ rpos \in [Reader -> Pos] /\ Len(log) \in Nat
    BY ReaderTypes
  <1>0. /\ rst[r] = "skip" /\ UNCHANGED <<mem, wvars, log, rfrom, rtodo>>
    BY DEF ReaderSkip
  <1>1. TailPage' = TailPage /\ TailPos' = TailPos BY <1>0 DEF TailPage, TailPos, Last
  <1>2. ASSUME NEW p, NEW a, NEW i PROVE At(i, p, a) <=> At(i, p, a)'
    BY <1>0, <1>1 DEF At
  <1>3. ASSUME NEW p, NEW a PROVE OnFrame(p, a) <=> OnFrame(p, a)'
    BY <1>0, <1>2 DEF OnFrame
  <1>4. Seeks(r) BY DEF IFollow
  <1>5. OnFrame(rpage[r], rpos[r]) BY <1>0, <1>4 DEF Seeks
  <1>6. CASE HasData(rpage[r], rpos[r]) /\ mem[rpage[r]][rpos[r]].gen <= rfrom[r]
    <2>1. PICK i \in 1 .. Len(log) + 1 : At(i, rpage[r], rpos[r]) BY <1>5 DEF OnFrame
    <2>2. i \in 1 .. Len(log)
      <3>1. i # Len(log) + 1 BY <2>1, <1>6, <1>i, TailStep
      <3> QED BY <3>1, <1>t
    <2>3. JournalNext(r, rst[r]) BY <1>0, <1>6 DEF ReaderSkip
    <2>4. /\ file' = file /\ rst' = rst
          /\ i + 1 \in 1 .. Len(log) + 1 /\ At(i + 1, rpage'[r], rpos'[r])
          /\ \A q \in Reader : q # r => rpage'[q] = rpage[q] /\ rpos'[q] = rpos[q]
      BY <2>1, <2>2, <2>3, NextMoves
    <2>5. log[i].gen <= rfrom[r]
      <3>1. rpage[r] = log[i].page /\ rpos[r] = log[i].pos BY <2>1, <2>2, <1>t DEF At
      <3>2. mem[rpage[r]][rpos[r]] = [len |-> log[i].len, typ |-> log[i].typ,
                                      gen |-> log[i].gen, val |-> i]
        BY <3>1, <2>2, <1>i DEF FramesIntact, Intact
      <3> QED BY <3>2, <1>6
    <2>6. ASSUME NEW j \in 1 .. Len(log), Behind(log[j], r)' PROVE log[j].gen <= rfrom[r]
      <3>1. \/ log[j].page < rpage'[r]
            \/ log[j].page = rpage'[r] /\ log[j].pos < rpos'[r]
        BY <2>6, <1>0 DEF Behind
      <3>2. j < i + 1 BY <3>1, <2>4, <1>i, BehindIs
      <3>3. j = i \/ j < i BY <3>2, <1>t, <2>2
      <3>4. j < i => Behind(log[j], r) BY <2>1, <1>i, BehindIs DEF Behind
      <3> QED BY <3>3, <3>4, <2>5, <1>0, <1>4 DEF Seeks
    <2>7. OnFrame(rpage[r], rpos[r])'
      <3>1. OnFrame(rpage'[r], rpos'[r]) BY <2>4 DEF OnFrame
      <3> QED BY <3>1, <1>3
    <2>8. Seeks(r)' BY <1>0, <2>4, <2>6, <2>7 DEF Seeks
    <2> QED BY <1>0, <2>4, <2>8, FollowReader
  <1>7. CASE ~(HasData(rpage[r], rpos[r]) /\ mem[rpage[r]][rpos[r]].gen <= rfrom[r])
    <2>1. rst' = [rst EXCEPT ![r] = "read"] /\ UNCHANGED <<file, rpage, rpos>>
      BY <1>7 DEF ReaderSkip
    <2>2. rst'[r] = "read" /\ \A q \in Reader : q # r => rst'[q] = rst[q] BY <1>t, <2>1
    <2>3. OnFrame(rpage[r], rpos[r])' BY <1>3, <1>5, <2>1
    <2>4. Seeks(r)' BY <2>2, <2>3 DEF Seeks
    <2> QED BY <1>0, <2>1, <2>2, <2>4, FollowReader
  <1> QED BY <1>6, <1>7

(* What is given is the frame at the cursor, and the cursor moves by one. *)
LEMMA ReadMoves ==
    ASSUME IInv, IFollow, NEW r \in Reader, Read(r)
    PROVE  \E i \in 1 .. Len(log) :
              /\ At(i, rpage[r], rpos[r]) /\ At(i + 1, rpage'[r], rpos'[r])
              /\ i + 1 \in 1 .. Len(log) + 1
              /\ seen' = [seen EXCEPT ![r] = Append(@, i)]
              /\ file' = file /\ rst' = rst
              /\ \A q \in Reader : q # r => rpage'[q] = rpage[q] /\ rpos'[q] = rpos[q]
  <1>i. TypeOK /\ IEntry /\ IFree BY DEF IInv
  <1>t. Len(log) \in Nat BY ReaderTypes
  <1>0. /\ rst[r] = "read" /\ HasData(rpage[r], rpos[r]) /\ JournalNext(r, rst[r])
        /\ seen' = [seen EXCEPT ![r] = Append(@, mem[rpage[r]][rpos[r]].val)]
    BY DEF Read
  <1>1. OnFrame(rpage[r], rpos[r]) BY <1>0 DEF IFollow, Seeks
  <1>2. PICK i \in 1 .. Len(log) + 1 : At(i, rpage[r], rpos[r]) BY <1>1 DEF OnFrame
  <1>3. i \in 1 .. Len(log)
    <2>1. i # Len(log) + 1 BY <1>2, <1>0, <1>i, TailStep
    <2> QED BY <2>1, <1>t
  <1> QED BY <1>0, <1>2, <1>3, NextMoves

LEMMA ReadFollow ==
    ASSUME IInv, IFollow, NEW r \in Reader, Read(r)
    PROVE  IFollow'
  <1>0. /\ rst[r] = "read" /\ UNCHANGED <<mem, wvars, log, rfrom, rtodo>> BY DEF Read
  <1>1. TailPage' = TailPage /\ TailPos' = TailPos BY <1>0 DEF TailPage, TailPos, Last
  <1>2. ASSUME NEW p, NEW a PROVE OnFrame(p, a) <=> OnFrame(p, a)'
    BY <1>0, <1>1 DEF OnFrame, At
  <1>3. PICK i \in 1 .. Len(log) :
              /\ i + 1 \in 1 .. Len(log) + 1 /\ At(i + 1, rpage'[r], rpos'[r])
              /\ file' = file /\ rst' = rst
              /\ \A q \in Reader : q # r => rpage'[q] = rpage[q] /\ rpos'[q] = rpos[q]
    BY ReadMoves
  <1>4. OnFrame(rpage'[r], rpos'[r]) BY <1>3 DEF OnFrame
  <1>5. OnFrame(rpage[r], rpos[r])' BY <1>2, <1>4
  <1>6. Seeks(r)' BY <1>0, <1>3, <1>5 DEF Seeks
  <1> QED BY <1>0, <1>3, <1>6, FollowReader

-----------------------------------------------------------------------------
LEMMA InitFollow ==
    ASSUME Init
    PROVE  IFollow
  <1>1. Len(log) = 0 /\ holder = NoThread BY DEF Init
  <1>2. IOrder /\ ICreated BY <1>1 DEF IOrder, ICreated, Busy
  <1>3. IStamp BY <1>1 DEF IStamp
  <1>4. \A r \in Reader : rst[r] = "out" BY DEF Init
  <1> QED BY <1>2, <1>3, <1>4 DEF IFollow, Seeks

LEMMA NextFollow ==
    ASSUME IInv, IInv', IFollow, SafeCrashes, CalmJoins, [Next]_vars
    PROVE  IFollow'
  <1>1. ASSUME NEW t \in Thread, NEW d \in DataLen, TryLock(t, d) PROVE IFollow'
    BY <1>1, TryLockFollow
  <1>2. ASSUME NEW t \in Thread, Step(t) PROVE IFollow'
    BY <1>2, RollCreateFollow, MovesFollow, RollMarkFollow, RollEndFollow, OpenFrameFollow,
       ZeroNextFollow, StampFollow, PublishFollow DEF Step
  <1>3. CASE Crash \/ TryAgain \/ Boot BY <1>3, BootFollow
  <1>4. ASSUME NEW r \in Reader, NEW f \in FromTime, Join(r, f) PROVE IFollow'
    BY <1>4, JoinFollow
  <1>5. ASSUME NEW r \in Reader, Follow(r) PROVE IFollow'
    BY <1>5, ScanFollow, ReaderFullFollow, ReaderSkipFollow, ReadFollow DEF Follow
  <1>6. CASE UNCHANGED vars
    <2>1. log' = log /\ mem' = mem /\ UNCHANGED rvars /\ UNCHANGED <<file, holder, pc>>
      BY <1>6 DEF vars, wvars
    <2>2. TailPage' = TailPage BY <2>1 DEF TailPage, Last
    <2>3. ICreated' BY <2>1, <2>2 DEF IFollow, ICreated, Busy
    <2> QED BY <2>1, <2>3, FollowSame
  <1> QED BY <1>1, <1>2, <1>3, <1>4, <1>5, <1>6 DEF Next

(* Frames, pages and cursors stay in the order of times: what find_page_id *)
(* and seek_to_time compare agrees with where the frames are in the pages. *)
THEOREM FollowInvariance ==
    ASSUME SafeCrashes, CalmJoins
    PROVE  Spec => [](IInv /\ IFollow)
  <1>1. Init => IInv /\ IFollow BY InitInv, InitFollow
  <1>2. IInv /\ IFollow /\ [Next]_vars => IInv' /\ IFollow' BY NextInv, NextFollow
  <1> QED BY <1>1, <1>2, PTL DEF Spec

(* No reader dies in page::load: every page it loads has its header.       *)
THEOREM ReadersNeverFault ==
    ASSUME SafeCrashes, CalmJoins
    PROVE  Spec => []NoReaderFault
  <1>1. IInv /\ IFollow => NoReaderFault BY DEF IFollow, Seeks, NoReaderFault
  <1> QED BY <1>1, FollowInvariance, PTL

-----------------------------------------------------------------------------
(* The journal implements the event log. *)

(* The cursor of a reader that reads. *)
LEMMA CursorIs ==
    ASSUME IInv, IOrder, NEW r \in Reader, rst[r] = "read",
           NEW i \in 1 .. Len(log) + 1, At(i, rpage[r], rpos[r])
    PROVE  Cursor(r) = i
  <1> DEFINE S == {j \in 1 .. Len(log) : Behind(log[j], r)}
  <1>1. Len(log) \in Nat BY ReaderTypes
  <1>2. \A j \in 1 .. Len(log) : Behind(log[j], r) <=> j < i BY BehindIs DEF Behind
  <1>3. S = 1 .. i - 1 BY <1>1, <1>2
  <1>4. i - 1 \in Int /\ i >= 1 BY <1>1
  <1>5. Cardinality(1 .. i - 1) = i - 1 BY <1>4, FS_Interval
  <1>6. Cursor(r) = Cardinality(S) + 1 BY DEF Cursor
  <1> HIDE DEF S
  <1> QED BY <1>3, <1>4, <1>5, <1>6

(* The abstract state of a reader that does not move. *)
LEMMA CursorStays ==
    ASSUME log' = log, NEW r \in Reader, rst'[r] = rst[r], rpage'[r] = rpage[r], rpos'[r] = rpos[r]
    PROVE  Cursor(r)' = Cursor(r)
  BY DEF Cursor, Behind

LEMMA QuietStutters ==
    ASSUME log' = log, UNCHANGED rvars
    PROVE  UNCHANGED Abstract!evars
  <1>1. UNCHANGED <<rst, rfrom, rpage, rpos, seen>> BY DEF rvars
  <1>2. \A r \in Reader : Cursor(r)' = Cursor(r) BY <1>1, CursorStays
  <1> QED BY <1>1, <1>2 DEF Abstract!evars

LEMMA PublishImplements ==
    ASSUME IInv, IFollow, IFollow', NEW e, log' = Append(log, e),
           e.page = TailPage, e.pos = TailPos, UNCHANGED rvars
    PROVE  Abstract!Publish
  <1>1. /\ Len(log) \in Nat /\ Len(log') = Len(log) + 1 /\ log'[Len(log) + 1] = e
        /\ \A i \in 1 .. Len(log) : log'[i] = log[i]
    BY DEF IInv, TypeOK
  <1> DEFINE ev == [i \in 1 .. Len(log) |-> log[i].gen]
             ew == [i \in 1 .. Len(log') |-> log'[i].gen]
  <1>2. /\ Len(ev) = Len(log) /\ Len(ew) = Len(log')
        /\ \A i \in 1 .. Len(log) : ev[i] = log[i].gen
        /\ \A i \in 1 .. Len(log') : ew[i] = log'[i].gen
    BY <1>1
  <1> HIDE DEF ev, ew
  <1>3. ASSUME NEW i \in 1 .. Len(log)
        PROVE  ew[i] = ev[i] /\ ev[i] <= ew[Len(log) + 1]
    <2>1. i \in 1 .. Len(log') /\ Len(log) + 1 \in 1 .. Len(log') /\ i < Len(log) + 1 BY <1>1
    <2>2. log'[i].gen <= log'[Len(log) + 1].gen BY <2>1 DEF IFollow, IOrder
    <2> QED BY <1>1, <1>2, <2>1, <2>2
  <1>4. UNCHANGED <<rst, rfrom, rpage, rpos, seen>> BY DEF rvars
  <1>5. ASSUME NEW r \in Reader PROVE Cursor(r)' = Cursor(r)
    <2>1. CASE rst[r] = "read"
      <3>1. OnFrame(rpage[r], rpos[r]) BY <2>1 DEF IFollow, Seeks
      <3>2. /\ rpage[r] \in Nat /\ rpos[r] \in Nat
            /\ rpage[r] < TailPage \/ (rpage[r] = TailPage /\ rpos[r] <= TailPos)
        BY <3>1, InFront
      <3>3. TailPage \in Nat /\ TailPos \in Nat BY TailType, Sizes DEF IInv
      <3>4. ~Behind(e, r) BY <3>2, <3>3 DEF Behind
      <3>6. {j \in 1 .. Len(log') : Behind(log[j], r)'} = {j \in 1 .. Len(log) : Behind(log[j], r)}
        <4>1. ASSUME NEW j \in 1 .. Len(log') PROVE Behind(log[j], r)' <=> Behind(log'[j], r)
          BY <1>4 DEF Behind
        <4>2. \A j \in 1 .. Len(log') : j \in 1 .. Len(log) \/ j = Len(log) + 1 BY <1>1
        <4>3. \A j \in 1 .. Len(log) : j \in 1 .. Len(log') BY <1>1
        <4> QED BY <4>1, <4>2, <4>3, <3>4, <1>1
      <3> QED BY <3>6, <2>1, <1>4 DEF Cursor
    <2>2. CASE rst[r] # "read"
      <3>1. rst[r] \in {"out", "scan", "full", "skip"}
        <4>1. rst[r] # "fault" BY DEF IFollow, Seeks
        <4> QED BY <4>1, <2>2, ReaderTypes
      <3> QED BY <3>1, <1>4 DEF Cursor
    <2> QED BY <2>1, <2>2
  <1>6. UNCHANGED <<[r \in Reader |-> Cursor(r)], rfrom, seen>> BY <1>4, <1>5
  <1> QED BY <1>1, <1>2, <1>3, <1>6 DEF Abstract!Publish, ev, ew

(* A join asks for a from_time. *)
LEMMA JoinImplements ==
    ASSUME IInv, IFollow', NEW r \in Reader, NEW f \in FromTime, Join(r, f)
    PROVE  Abstract!Request(r, f)
  <1>1. /\ rst[r] = "out" /\ rfrom' = [rfrom EXCEPT ![r] = f] /\ log' = log /\ seen' = seen
    BY DEF Join
  <1>2. rst'[r] \in {"scan", "full"} /\ \A q \in Reader : q # r =>
           rst'[q] = rst[q] /\ rpage'[q] = rpage[q] /\ rpos'[q] = rpos[q]
    <2>1. rst'[r] # "fault" BY DEF IFollow, Seeks
    <2> QED BY <2>1, ReaderTypes DEF Join, ReaderLoad
  <1>3. Cursor(r) = 0 /\ Cursor(r)' = 0 BY <1>1, <1>2 DEF Cursor
  <1>4. \A q \in Reader : Cursor(q)' = Cursor(q) BY <1>1, <1>2, <1>3, CursorStays
  <1>5. [q \in Reader |-> Cursor(q)]' = [q \in Reader |-> Cursor(q)] BY <1>4
  <1> QED BY <1>1, <1>3, <1>5 DEF Abstract!Request

(* The search for the page moves no cursor. *)
LEMMA SeekStutters ==
    ASSUME IInv, IFollow, IFollow', NEW r \in Reader,
           \/ Scan(r) \/ ReaderFull(r)
           \/ ReaderSkip(r) /\ HasData(rpage[r], rpos[r]) /\ mem[rpage[r]][rpos[r]].gen <= rfrom[r]
    PROVE  UNCHANGED Abstract!evars
  <1>1. log' = log /\ seen' = seen /\ rfrom' = rfrom /\ rst[r] \in {"scan", "full", "skip"}
    BY DEF Scan, ReaderFull, ReaderSkip
  <1>2. rst'[r] \in {"scan", "full", "skip"} /\ \A q \in Reader : q # r =>
           rst'[q] = rst[q] /\ rpage'[q] = rpage[q] /\ rpos'[q] = rpos[q]
    <2>1. rst'[r] # "fault" BY DEF IFollow, Seeks
    <2> QED BY <2>1, ReaderTypes DEF Scan, ReaderFull, ReaderSkip, ReaderLoad, JournalNext
  <1>3. Cursor(r) = 0 /\ Cursor(r)' = 0 BY <1>1, <1>2 DEF Cursor
  <1>4. \A q \in Reader : Cursor(q)' = Cursor(q) BY <1>1, <1>2, <1>3, CursorStays
  <1>5. [q \in Reader |-> Cursor(q)]' = [q \in Reader |-> Cursor(q)] BY <1>4
  <1> QED BY <1>1, <1>5 DEF Abstract!evars

(* A reader that begins to read stands behind the events up to from_time.  *)
LEMMA SkipImplements ==
    ASSUME IInv, IFollow, NEW r \in Reader, ReaderSkip(r),
           ~(HasData(rpage[r], rpos[r]) /\ mem[rpage[r]][rpos[r]].gen <= rfrom[r])
    PROVE  \E k \in 0 .. Len(log) : Abstract!Subscribe(r, k)
  <1>i. TypeOK /\ IEntry /\ IOrder /\ FramesIntact BY DEF IInv, IFollow
  <1>t. /\ rst \in [Reader -> {"out", "scan", "full", "skip", "read", "fault"}]
        /\ Len(log) \in Nat /\ rfrom \in [Reader -> FromTime \cup {0}]
    BY ReaderTypes
  <1>0. /\ rst[r] = "skip" /\ UNCHANGED <<log, rfrom, seen, rpage, rpos>>
        /\ rst' = [rst EXCEPT ![r] = "read"]
    BY DEF ReaderSkip
  <1>1. rst'[r] = "read" /\ \A q \in Reader : q # r => rst'[q] = rst[q] BY <1>0, <1>t
  <1>2. OnFrame(rpage[r], rpos[r]) BY <1>0 DEF IFollow, Seeks
  <1>3. PICK i \in 1 .. Len(log) + 1 : At(i, rpage[r], rpos[r]) BY <1>2 DEF OnFrame
  <1>4. PICK k : k = i - 1 OBVIOUS
  <1>5. k \in 0 .. Len(log) /\ k + 1 = i BY <1>t, <1>4
  <1>6. \A j \in 1 .. Len(log) : Behind(log[j], r) <=> j < i
    BY <1>3, <1>i, BehindIs DEF Behind
  <1>7. Cursor(r) = 0 /\ Cursor(r)' = k + 1
    <2>1. Cursor(r) = 0 BY <1>0 DEF Cursor
    <2>2. {j \in 1 .. Len(log) : Behind(log[j], r)} = 1 .. k BY <1>5, <1>6, <1>t
    <2>3. Cardinality(1 .. k) = k
      <3>1. k \in Int /\ k >= 0 BY <1>5, <1>t
      <3>2. Cardinality(1 .. k) = IF 1 > k THEN 0 ELSE k - 1 + 1 BY <3>1, FS_Interval
      <3> QED BY <3>1, <3>2
    <2>4. {j \in 1 .. Len(log') : Behind(log[j], r)'} = {j \in 1 .. Len(log) : Behind(log[j], r)}
      BY <1>0 DEF Behind
    <2>5. Cursor(r)' = Cardinality({j \in 1 .. Len(log') : Behind(log[j], r)'}) + 1
      BY <1>1 DEF Cursor
    <2> QED BY <2>1, <2>2, <2>3, <2>4, <2>5
  <1>8. \A q \in Reader : q # r => Cursor(q)' = Cursor(q) BY <1>0, <1>1, CursorStays
  <1>9. \A j \in 1 .. k : j \in 1 .. Len(log) /\ log[j].gen <= rfrom[r]
    <2> TAKE j \in 1 .. k
    <2>1. j \in 1 .. Len(log) /\ j < i BY <1>5, <1>t
    <2> QED BY <2>1, <1>6, <1>0 DEF IFollow, Seeks
  <1>10. k < Len(log) => k + 1 \in 1 .. Len(log) /\ log[k + 1].gen > rfrom[r]
    <2> SUFFICES ASSUME k < Len(log) PROVE k + 1 \in 1 .. Len(log) /\ log[k + 1].gen > rfrom[r]
      OBVIOUS
    <2>1. i \in 1 .. Len(log) BY <1>5, <1>t
    <2>2. /\ HasData(rpage[r], rpos[r])
          /\ mem[rpage[r]][rpos[r]] = [len |-> log[i].len, typ |-> log[i].typ,
                                       gen |-> log[i].gen, val |-> i]
      BY <2>1, <1>3, WalkStep DEF IInv
    <2>3. ~(log[i].gen <= rfrom[r]) BY <2>2
    <2>4. log[i].gen \in Nat BY <2>1, <1>i, EntryType
    <2>5. rfrom[r] \in Nat
      <3>1. PICK x : x = rfrom[r] OBVIOUS
      <3>2. x \in FromTime \/ x = 0 BY <1>t, <3>1
      <3>3. FromTime \subseteq Nat BY SizeAssumption
      <3>4. x \in FromTime => x \in Nat BY <3>3, Zenon
      <3>5. x = 0 => x \in Nat OBVIOUS
      <3> QED BY <3>1, <3>2, <3>4, <3>5
    <2> QED BY <2>1, <2>3, <2>4, <2>5, <1>5
  <1> DEFINE ev == [j \in 1 .. Len(log) |-> log[j].gen]
             at == [q \in Reader |-> Cursor(q)]
             ax == [q \in Reader |-> Cursor(q)']
  <1>11. Len(ev) = Len(log) /\ \A j \in 1 .. Len(log) : ev[j] = log[j].gen BY <1>t
  <1>12. at[r] = 0 /\ ax = [at EXCEPT ![r] = k + 1] BY <1>7, <1>8
  <1>13. /\ \A j \in 1 .. k : ev[j] <= rfrom[r]
         /\ k < Len(ev) => ev[k + 1] > rfrom[r]
    BY <1>9, <1>10, <1>11
  <1>14. [j \in 1 .. Len(log') |-> log'[j].gen] = ev BY <1>0
  <1> QED BY <1>0, <1>5, <1>12, <1>13, <1>14 DEF Abstract!Subscribe

LEMMA ReadImplements ==
    ASSUME IInv, IInv', IFollow, IFollow', NEW r \in Reader, Read(r)
    PROVE  Abstract!Deliver(r)
  <1>i. IOrder BY DEF IFollow
  <1>t. Len(log) \in Nat /\ seen \in [Reader -> Seq(Int)] BY ReaderTypes
  <1>0. rst[r] = "read" /\ log' = log /\ rfrom' = rfrom BY DEF Read
  <1>1. PICK i \in 1 .. Len(log) :
              /\ At(i, rpage[r], rpos[r]) /\ At(i + 1, rpage'[r], rpos'[r])
              /\ i + 1 \in 1 .. Len(log) + 1
              /\ seen' = [seen EXCEPT ![r] = Append(@, i)]
              /\ file' = file /\ rst' = rst
              /\ \A q \in Reader : q # r => rpage'[q] = rpage[q] /\ rpos'[q] = rpos[q]
    BY ReadMoves
  <1>2. Cursor(r) = i /\ i \in 1 .. Len(log) + 1
    <2>1. i \in 1 .. Len(log) + 1 BY <1>t
    <2> QED BY <2>1, <1>0, <1>1, <1>i, CursorIs
  <1>3. Cursor(r)' = i + 1
    <2>1. \A j \in 1 .. Len(log) :
             (log[j].page < rpage'[r] \/ (log[j].page = rpage'[r] /\ log[j].pos < rpos'[r]))
                <=> j < i + 1
      BY <1>1, <1>i, BehindIs
    <2>2. {j \in 1 .. Len(log') : Behind(log[j], r)'} = 1 .. i
      <3>1. \A j \in 1 .. Len(log') : Behind(log[j], r)' <=> j < i + 1
        BY <1>0, <2>1 DEF Behind
      <3> QED BY <3>1, <1>0, <1>t
    <2>3. Cardinality(1 .. i) = i BY <1>t, FS_Interval
    <2>4. Cursor(r)' = Cardinality({j \in 1 .. Len(log') : Behind(log[j], r)'}) + 1
      BY <1>0, <1>1 DEF Cursor
    <2> QED BY <2>2, <2>3, <2>4
  <1>4. \A q \in Reader : q # r => Cursor(q)' = Cursor(q) BY <1>0, <1>1, CursorStays
  <1> DEFINE at == [q \in Reader |-> Cursor(q)]
             ax == [q \in Reader |-> Cursor(q)']
             ev == [j \in 1 .. Len(log) |-> log[j].gen]
  <1>5. at[r] = i /\ ax = [at EXCEPT ![r] = @ + 1] BY <1>2, <1>3, <1>4
  <1>6. Len(ev) = Len(log) /\ at[r] \in 1 .. Len(ev) BY <1>t, <1>5
  <1>7. seen' = [seen EXCEPT ![r] = Append(@, at[r])] BY <1>1, <1>5
  <1>8. [j \in 1 .. Len(log') |-> log'[j].gen] = ev BY <1>0
  <1> QED BY <1>0, <1>5, <1>6, <1>7, <1>8 DEF Abstract!Deliver

(* Every frame the writer publishes is an event at the end of the log.     *)
LEMMA WriterImplements ==
    ASSUME IInv, IFollow, IFollow', NEW t \in Thread, Publish(t) \/ RollEnd(t)
    PROVE  Abstract!Publish
  <1>1. CASE Publish(t)
    <2>1. wpage = TailPage /\ wpos = TailPos
      <3>1. pc[t] = "stamped" BY <1>1 DEF Publish
      <3> QED BY <3>1, OpenParts
    <2>2. PICK e : /\ e = [page |-> wpage, pos |-> wpos, len |-> Hdr + dlen[t],
                           gen |-> mem[wpage][wpos].gen, typ |-> "Data"]
                   /\ log' = Append(log, e)
      BY <1>1 DEF Publish
    <2>3. e.page = TailPage /\ e.pos = TailPos BY <2>1, <2>2
    <2>4. UNCHANGED rvars BY <1>1 DEF Publish
    <2> QED BY <2>2, <2>3, <2>4, PublishImplements
  <1>2. CASE RollEnd(t)
    <2>1. pc[t] = "marked" BY <1>2 DEF RollEnd
    <2>2. /\ holder = t /\ wst = "up" /\ \A S : Busy(S) <=> pc[t] \in S
      BY <2>1, Inside
    <2>3. TailPage \in Nat BY TailType, Sizes DEF IInv
    <2>4. Len(log) > 0 /\ Last.typ = "Data" /\ wpage = TailPage + 1
      BY <2>1, <2>2 DEF IInv, IWriter
    <2>5. wpage - 1 = TailPage /\ EndPos(wpage - 1) = TailPos
      BY <2>1, <2>2, <2>3, <2>4, EndOfPage
    <2>6. PICK e : /\ e = [page |-> TailPage, pos |-> TailPos, len |-> Hdr,
                           gen |-> mem[TailPage][TailPos].gen, typ |-> "PageEnd"]
                   /\ log' = Append(log, e)
      BY <1>2, <2>5 DEF RollEnd
    <2>7. e.page = TailPage /\ e.pos = TailPos BY <2>6
    <2>8. UNCHANGED rvars BY <1>2 DEF RollEnd
    <2> QED BY <2>6, <2>7, <2>8, PublishImplements
  <1> QED BY <1>1, <1>2

LEMMA InitImplements == Init => Abstract!Init
  <1> SUFFICES ASSUME Init PROVE Abstract!Init OBVIOUS
  <1>1. \A r \in Reader : Cursor(r) = 0 BY DEF Init, Cursor
  <1>2. log = <<>> BY DEF Init
  <1>3. [i \in 1 .. Len(log) |-> log[i].gen] = <<>> BY <1>2
  <1> QED BY <1>1, <1>3 DEF Init, Abstract!Init

LEMMA NextImplements ==
    ASSUME IInv, IInv', IFollow, IFollow', SafeCrashes, CalmJoins, [Next]_vars
    PROVE  [Abstract!Next]_(Abstract!evars)
  <1>1. ASSUME NEW t \in Thread, NEW d \in DataLen, TryLock(t, d)
        PROVE  UNCHANGED Abstract!evars
    BY <1>1, QuietStutters DEF TryLock
  <1>2. ASSUME NEW t \in Thread, Step(t), ~Publish(t), ~RollEnd(t)
        PROVE  UNCHANGED Abstract!evars
    <2>1. log' = log /\ UNCHANGED rvars
      BY <1>2 DEF Step, RollCreate, RollInit, RollMark, RollLast, OpenFrame, ZeroNext, Stamp,
         CloseFrame
    <2> QED BY <2>1, QuietStutters
  <1>3. ASSUME NEW t \in Thread, Publish(t) \/ RollEnd(t) PROVE Abstract!Next
    BY <1>3, WriterImplements DEF Abstract!Next
  <1>4. CASE Crash \/ TryAgain \/ Boot
    <2>1. log' = log /\ UNCHANGED rvars
      BY <1>4 DEF Crash, TryAgain, Boot, Restart, SeekFull, SeekSkip
    <2> QED BY <2>1, QuietStutters
  <1>5. ASSUME NEW r \in Reader, NEW f \in FromTime, Join(r, f) PROVE Abstract!Next
    BY <1>5, JoinImplements DEF Abstract!Next
  <1>6. ASSUME NEW r \in Reader, Scan(r) \/ ReaderFull(r) PROVE UNCHANGED Abstract!evars
    BY <1>6, SeekStutters
  <1>7. ASSUME NEW r \in Reader, ReaderSkip(r) PROVE [Abstract!Next]_(Abstract!evars)
    <2>1. CASE HasData(rpage[r], rpos[r]) /\ mem[rpage[r]][rpos[r]].gen <= rfrom[r]
      BY <1>7, <2>1, SeekStutters
    <2>2. CASE ~(HasData(rpage[r], rpos[r]) /\ mem[rpage[r]][rpos[r]].gen <= rfrom[r])
      <3>1. PICK k \in 0 .. Len(log) : Abstract!Subscribe(r, k)
        BY <1>7, <2>2, SkipImplements
      <3>2. Len([i \in 1 .. Len(log) |-> log[i].gen]) = Len(log) BY ReaderTypes
      <3> QED BY <3>1, <3>2 DEF Abstract!Next
    <2> QED BY <2>1, <2>2
  <1>8. ASSUME NEW r \in Reader, Read(r) PROVE Abstract!Next
    BY <1>8, ReadImplements DEF Abstract!Next
  <1>9. CASE UNCHANGED vars
    BY <1>9, QuietStutters DEF vars
  <1> QED BY <1>1, <1>2, <1>3, <1>4, <1>5, <1>6, <1>7, <1>8, <1>9 DEF Next, Follow

(* The journal is an append-only log: every published frame is an event,   *)
(* and every reader is given the events after its from_time, one by one.   *)
THEOREM Refinement ==
    ASSUME SafeCrashes, CalmJoins
    PROVE  Spec => ImplementsEventLog
  <1>1. Init => Abstract!Init BY InitImplements
  <1>2. IInv /\ IFollow /\ (IInv /\ IFollow)' /\ [Next]_vars => [Abstract!Next]_(Abstract!evars)
    BY NextImplements
  <1> QED BY <1>1, <1>2, FollowInvariance, PTL DEF Spec, ImplementsEventLog, Abstract!Spec
=============================================================================
