------------------------- MODULE CdInterfaceProofs -------------------------
(***************************************************************************)
(* Safety of the CD interface for every disc, every buffer size and every  *)
(* read-ahead limit that CdAssumption allows.                              *)
(***************************************************************************)
EXTENDS CdInterface, SequenceTheorems, TLAPS

InLoop == reader \in {"waiting", "fetching"}

\* Where each thread can be while the other is in CDIF_Open or CDIF_Close.
HandshakeInv ==
    /\ emu = "closed" => reader \in {"none", "exited"}
    /\ emu = "opening" =>
         /\ live = {"queues", "buffers"} /\ Running
         /\ ReadThreadQueue = << >>
         /\ ra_lba = 0 /\ ra_count = 0 /\ last_read_lba = -1
         /\ \A i \in Slots : ~SectorBuffers[i].valid
         /\ \/ reader = "starting" /\ EmuThreadQueue = << >>
            \/ /\ reader = "waiting" /\ EmuThreadQueue = <<INIT_DONE(TRUE)>>
               /\ p_cdrfile /\ toc \in Discs
            \/ reader = "exited" /\ EmuThreadQueue = <<INIT_DONE(FALSE)>>
    /\ emu = "joining" => reader = "exited"
    /\ emu \in {"idle", "polling", "validating"} => InLoop /\ Running
    /\ emu = "closing" =>
         \/ InLoop /\ Running /\ ReadThreadQueue # << >>
            /\ ReadThreadQueue[Len(ReadThreadQueue)] = DIEDIEDIE
         \/ reader = "fetching" /\ ~Running /\ ReadThreadQueue = << >>
         \/ reader = "exited"
    /\ InSession => toc \in Discs /\ live = {"queues", "buffers"}
    /\ InSession /\ InLoop => p_cdrfile

\* What may be queued: sectors of the disc, and at the end the last message.
QueueInv ==
    InSession => \A k \in 1 .. Len(ReadThreadQueue) :
        \/ /\ ReadThreadQueue[k].message = "READ_SECTOR"
           /\ ReadThreadQueue[k].lba < toc.leadout
        \/ /\ ReadThreadQueue[k] = DIEDIEDIE
           /\ k = Len(ReadThreadQueue) /\ emu = "closing" /\ Running

\* The message of the sector being polled for is the last one sent.
PollInv ==
    emu = "polling" =>
        /\ ReadThreadQueue = << >> => last_read_lba = CurLba
        /\ ReadThreadQueue # << >> =>
             ReadThreadQueue[Len(ReadThreadQueue)] = READ_SECTOR(CurLba)

\* Where the read-ahead position is, relative to the sector last asked for.
WindowInv ==
    InLoop =>
        /\ ra_lba + ra_count <= last_read_lba + 1 + max_ra
        /\ reader = "waiting" => last_read_lba + 1 <= ra_lba
        /\ reader = "fetching" => /\ last_read_lba <= ra_lba
                                  /\ ra_count = 0 => last_read_lba + 1 <= ra_lba
                                  /\ ra_count > 0 => ra_lba < toc.leadout
        /\ ra_lba <= toc.leadout

\* The slot written k sectors ago.
Back(k) == IF k <= SBWritePos THEN SBWritePos - k ELSE (SBWritePos - k) + SBSize

\* The last sectors written are the ones just behind the read-ahead position.
RingInv ==
    InLoop => \A k \in 1 .. (ra_lba - last_read_lba) :
        ra_lba - k >= 0 => Holds(Back(k), ra_lba - k)

IInv ==
    /\ TypeOK /\ HandshakeInv /\ QueueInv /\ PollInv /\ WindowInv /\ RingInv
    /\ BufferHoldsThisDisc


-----------------------------------------------------------------------------
(* What the operators of the model return.                                 *)

\* The messages, the slots and the requests of the model have their types.
LEMMA ValueTypes ==
    /\ EmptySlot \in SlotType
    /\ \A ok \in BOOLEAN : INIT_DONE(ok) \in Replies
    /\ \A lba \in Nat : READ_SECTOR(lba) \in Messages
    /\ DIEDIEDIE \in Messages
  BY DEF EmptySlot, SlotType, Contents, INIT_DONE, Replies, READ_SECTOR, DIEDIEDIE, Messages

LEMMA CallTypes == Lbas \subseteq Nat /\ Calls \subseteq Requests
<1>1. Lbas \subseteq Nat
  BY CdAssumption DEF Lbas
<1>2. ASSUME NEW r \in Calls PROVE r \in Requests
  <2>1. 1 .. MaxSectors \subseteq Nat
    BY CdAssumption
  <2>2. CASE r \in [first : Lbas, sectors : {1}, cooked : {FALSE}]
    <3>1. PICK f \in Lbas : r = [first |-> f, sectors |-> 1, cooked |-> FALSE]
      BY <2>2
    <3>2. QED BY <1>1, <3>1 DEF Requests
  <2>3. CASE r \in [first : Lbas, sectors : 1 .. MaxSectors, cooked : {TRUE}]
    BY <1>1, <2>1, <2>3 DEF Requests
  <2>4. QED BY <1>2, <2>2, <2>3 DEF Calls
<1>3. QED BY <1>1, <1>2

LEMMA ReadOfType ==
    ASSUME NEW d \in Discs, NEW lba \in Nat
    PROVE  ReadOf(d, lba) \subseteq Contents
  BY DEF ReadOf, Sector, Contents

\* What sending a message does to a queue.
LEMMA AppendFacts ==
    ASSUME NEW S, NEW s \in Seq(S), NEW e \in S
    PROVE  /\ Append(s, e) \in Seq(S) /\ Append(s, e) # << >>
           /\ Len(Append(s, e)) = Len(s) + 1
           /\ \A k \in 1 .. Len(s) : Append(s, e)[k] = s[k]
           /\ Append(s, e)[Len(s) + 1] = e
  OBVIOUS

\* What taking a message does to a queue.
LEMMA TailFacts ==
    ASSUME NEW S, NEW s \in Seq(S), s # << >>
    PROVE  /\ Head(s) = s[1] /\ Head(s) \in S
           /\ Tail(s) \in Seq(S)
           /\ Len(s) \in Nat \ {0} /\ Len(Tail(s)) = Len(s) - 1
           /\ \A k \in 1 .. Len(Tail(s)) : Tail(s)[k] = s[k + 1]
           /\ Tail(s) = << >> <=> Len(s) = 1
           /\ Tail(s) # << >> => Tail(s)[Len(Tail(s))] = s[Len(s)]
<1>1. Len(s) \in Nat \ {0} /\ Tail(s) \in Seq(S) /\ Len(Tail(s)) = Len(s) - 1
  OBVIOUS
<1>2. \A k \in 1 .. Len(Tail(s)) : Tail(s)[k] = s[k + 1]
  OBVIOUS
<1>3. Head(s) = s[1] /\ Head(s) \in S
  OBVIOUS
<1>4. Tail(s) = << >> <=> Len(s) = 1
  <2>1. Tail(s) = << >> => Len(Tail(s)) = 0
    BY EmptySeq
  <2>2. Tail(s) # << >> => Len(Tail(s)) # 0
    BY <1>1, EmptySeq
  <2>3. QED BY <1>1, <2>1, <2>2
<1>5. Tail(s) # << >> => Tail(s)[Len(Tail(s))] = s[Len(s)]
  <2>1. SUFFICES ASSUME Tail(s) # << >> PROVE Tail(s)[Len(Tail(s))] = s[Len(s)]
    OBVIOUS
  <2>2. Len(Tail(s)) \in 1 .. Len(Tail(s)) /\ Len(Tail(s)) + 1 = Len(s)
    BY <1>1, <1>4, <2>1
  <2>3. QED BY <1>2, <2>2
<1>6. QED BY <1>1, <1>2, <1>3, <1>4, <1>5

\* How many sectors the reader sets out to read keeps it within max_ra.
LEMMA CountBounds ==
    ASSUME NEW how \in 0 .. max_ra
    PROVE  /\ SequentialCount(how) \in Nat \ {0}
           /\ how + SequentialCount(how) <= 1 + max_ra
  BY CdAssumption DEF SequentialCount, speedmult_ra

-----------------------------------------------------------------------------
(* Each action preserves IInv.                                             *)

LEMMA OpenBeginInv == ASSUME IInv, OpenBegin PROVE IInv'
<1> USE CdAssumption DEF IInv
<1>1. TypeOK'
  BY ValueTypes DEF TypeOK, OpenBegin, callVars, Slots
<1>2. HandshakeInv'
  BY DEF HandshakeInv, InLoop, InSession, OpenBegin, EmptySlot
<1>3. QueueInv' /\ PollInv' /\ WindowInv' /\ RingInv' /\ BufferHoldsThisDisc'
  BY DEF QueueInv, PollInv, WindowInv, RingInv, BufferHoldsThisDisc, InLoop, InSession,
         OpenBegin
<1>4. QED BY <1>1, <1>2, <1>3

LEMMA OpenReplyInv == ASSUME IInv, OpenReply PROVE IInv'
<1> USE CdAssumption DEF IInv
<1>1. EmuThreadQueue = <<INIT_DONE(TRUE)>> \/ EmuThreadQueue = <<INIT_DONE(FALSE)>>
  BY DEF HandshakeInv, OpenReply
<1>2. (EmuThreadQueue = <<INIT_DONE(TRUE)>> /\ emu' = "idle") \/ (EmuThreadQueue = <<INIT_DONE(FALSE)>> /\ emu' = "joining")
  BY <1>1 DEF OpenReply, INIT_DONE
<1>3. HandshakeInv'
  BY <1>2 DEF TypeOK, HandshakeInv, InLoop, InSession, OpenReply, INIT_DONE, callVars,
     queues, ring, readAhead, readerVars
<1>4. QueueInv'
  BY <1>2 DEF TypeOK, HandshakeInv, QueueInv, OpenReply
<1>5. BufferHoldsThisDisc'
  BY <1>2 DEF TypeOK, HandshakeInv, BufferHoldsThisDisc, OpenReply, ring
<1>6. TypeOK'
  BY <1>2, TailFacts DEF TypeOK, OpenReply, callVars, ring, readAhead, readerVars
<1>7. PollInv' /\ WindowInv' /\ RingInv'
  BY <1>2 DEF PollInv, WindowInv, RingInv, Holds, Back, InLoop, OpenReply, ring, readAhead,
              readerVars
<1>8. QED BY <1>3, <1>4, <1>5, <1>6, <1>7

LEMMA OpenAbandonInv == ASSUME IInv, OpenAbandon PROVE IInv'
<1> USE CdAssumption DEF IInv
<1>1. TypeOK'
  BY DEF TypeOK, OpenAbandon, callVars, queues, ring, readAhead, readerVars
<1>2. HandshakeInv' /\ QueueInv' /\ PollInv' /\ BufferHoldsThisDisc'
  BY DEF HandshakeInv, QueueInv, PollInv, BufferHoldsThisDisc, InLoop, InSession,
         OpenAbandon, readerVars
<1>3. WindowInv' /\ RingInv'
  BY DEF WindowInv, RingInv, InLoop, OpenAbandon, readerVars
<1>4. QED BY <1>1, <1>2, <1>3

LEMMA StartNoFileInv == ASSUME IInv, StartNoFile PROVE IInv'
<1> USE CdAssumption DEF IInv
<1>0. emu = "opening" /\ EmuThreadQueue = << >>
  BY DEF TypeOK, HandshakeInv, StartNoFile, InLoop
<1>1. TypeOK'
  BY ValueTypes, AppendFacts DEF TypeOK, StartNoFile, callVars, ring, readAhead
<1>2. HandshakeInv'
  BY <1>0 DEF TypeOK, HandshakeInv, InLoop, InSession, StartNoFile, callVars, ring,
     readAhead
<1>3. QueueInv' /\ PollInv' /\ WindowInv' /\ RingInv' /\ BufferHoldsThisDisc'
  BY <1>0 DEF QueueInv, PollInv, WindowInv, RingInv, BufferHoldsThisDisc, InLoop, InSession,
              StartNoFile
<1>4. QED BY <1>1, <1>2, <1>3

LEMMA StartBadTOCInv == ASSUME IInv, StartBadTOC PROVE IInv'
<1> USE CdAssumption DEF IInv
<1>0. emu = "opening" /\ EmuThreadQueue = << >>
  BY DEF TypeOK, HandshakeInv, StartBadTOC, InLoop
<1>1. TypeOK'
  BY ValueTypes, AppendFacts DEF TypeOK, StartBadTOC, callVars, ring, readAhead
<1>2. HandshakeInv'
  BY <1>0 DEF TypeOK, HandshakeInv, InLoop, InSession, StartBadTOC, callVars, ring,
     readAhead
<1>3. QueueInv'
  BY <1>0 DEF QueueInv, InSession, StartBadTOC
<1>4. BufferHoldsThisDisc'
  BY <1>0 DEF BufferHoldsThisDisc, InSession, StartBadTOC
<1>5. PollInv' /\ WindowInv' /\ RingInv'
  BY <1>0 DEF PollInv, WindowInv, RingInv, InLoop, StartBadTOC
<1>6. QED BY <1>1, <1>2, <1>3, <1>4, <1>5

LEMMA StartOkInv == ASSUME IInv, StartOk PROVE IInv'
<1> USE CdAssumption DEF IInv
<1>0. emu = "opening" /\ EmuThreadQueue = << >>
  BY DEF TypeOK, HandshakeInv, StartOk, InLoop
<1>1. TypeOK'
  BY ValueTypes, AppendFacts DEF TypeOK, StartOk, callVars, ring, readAhead
<1>2. HandshakeInv'
  BY <1>0 DEF TypeOK, HandshakeInv, InLoop, InSession, StartOk, callVars, ring, readAhead
<1>3. QueueInv'
  BY <1>0 DEF QueueInv, InSession, StartOk
<1>5. WindowInv'
  BY <1>0 DEF TypeOK, HandshakeInv, WindowInv, InLoop, StartOk, readAhead
<1>6. RingInv'
  BY <1>0 DEF TypeOK, HandshakeInv, RingInv, InLoop, StartOk, readAhead
<1>4. BufferHoldsThisDisc'
  BY <1>0 DEF BufferHoldsThisDisc, InSession, StartOk
<1>7. PollInv'
  BY <1>0 DEF PollInv, StartOk
<1>8. QED BY <1>1, <1>2, <1>3, <1>4, <1>5, <1>6, <1>7

LEMMA TakeReadSectorInv == ASSUME IInv, TakeReadSector PROVE IInv'
<1> USE CdAssumption DEF IInv
<1> DEFINE new_lba == Head(ReadThreadQueue).lba
<1>1. InSession /\ InLoop /\ Running /\ toc \in Discs
  BY DEF TypeOK, HandshakeInv, TakeReadSector, InLoop, InSession
<1>2. new_lba \in Nat /\ new_lba < toc.leadout
  BY <1>1, TailFacts DEF TypeOK, QueueInv, TakeReadSector, Messages, DIEDIEDIE
<1>3. /\ reader = "waiting" /\ reader' = "fetching"
      /\ last_read_lba' = new_lba
      /\ UNCHANGED <<ring, toc>>
  BY DEF TakeReadSector
<1>4. last_read_lba + 1 <= ra_lba /\ ra_lba + ra_count <= last_read_lba + 1 + max_ra
      /\ ra_lba <= toc.leadout
  BY <1>3 DEF WindowInv, InLoop
<1>5. /\ ra_lba' \in Nat /\ ra_count' \in Nat
      /\ WindowInv' /\ RingInv'
  <2>1. CASE Sequential(new_lba)
    <3>1. ra_lba - new_lba \in 0 .. max_ra /\ new_lba = last_read_lba + 1
      BY <1>2, <1>4, <2>1 DEF TypeOK, Sequential
    <3>2. /\ ra_lba' = ra_lba
          /\ ra_count' = UnlessAtEnd(ra_lba, SequentialCount(ra_lba - new_lba))
      BY <2>1 DEF TakeReadSector
    <3>3. /\ SequentialCount(ra_lba - new_lba) \in Nat \ {0}
          /\ (ra_lba - new_lba) + SequentialCount(ra_lba - new_lba) <= 1 + max_ra
      BY <3>1, CountBounds
    <3>4. /\ ra_count' \in Nat /\ (ra_lba - new_lba) + ra_count' <= 1 + max_ra
          /\ ra_count' = 0 <=> ra_lba = toc.leadout
      <4> DEFINE count == SequentialCount(ra_lba - new_lba)
      <4>1. ra_count' = IF ra_lba = toc.leadout THEN 0 ELSE count
        BY <3>2 DEF UnlessAtEnd
      <4>2. count \in Nat \ {0} /\ (ra_lba - new_lba) + count <= 1 + max_ra
        BY <3>3
      <4> HIDE DEF count, new_lba
      <4>3. QED BY <3>1, <4>1, <4>2
    <3>5. WindowInv'
      <4> HIDE DEF new_lba
      <4>1. ra_lba + ra_count' <= new_lba + 1 + max_ra
        <5>1. ra_lba \in Nat /\ max_ra \in Nat /\ new_lba \in Nat
          BY <1>2 DEF TypeOK
        <5> DEFINE count == ra_count'
        <5>2. count \in Nat /\ (ra_lba - new_lba) + count <= 1 + max_ra
          BY <3>4
        <5> HIDE DEF count
        <5>3. ra_lba + count <= new_lba + 1 + max_ra
          BY <5>1, <5>2
        <5>4. QED BY <5>3 DEF count
      <4>2. /\ new_lba <= ra_lba
            /\ ra_count' = 0 => new_lba + 1 <= ra_lba
            /\ ra_count' > 0 => ra_lba < toc.leadout
        BY <1>1, <1>2, <1>4, <3>1, <3>4 DEF TypeOK
      <4>3. QED
        BY <1>3, <1>4, <3>2, <4>1, <4>2 DEF WindowInv
    <3>6. RingInv'
      <4>1. /\ ra_lba \in Nat /\ last_read_lba \in Int
            /\ last_read_lba' = last_read_lba + 1 /\ ra_lba' = ra_lba
        BY <1>3, <3>1, <3>2 DEF TypeOK
      <4>2. ASSUME NEW k \in 1 .. ra_lba' - last_read_lba', ra_lba' - k >= 0
            PROVE  Holds(Back(k), ra_lba - k)
        <5> HIDE DEF new_lba
        <5>1. k \in 1 .. ra_lba - last_read_lba /\ ra_lba - k >= 0
          BY <4>1, <4>2
        <5>2. QED BY <1>3, <5>1 DEF RingInv, InLoop
      <4>3. \A i, lba : Holds(i, lba)' <=> Holds(i, lba)
        BY <1>3 DEF Holds, ring
      <4>4. \A k : Back(k)' = Back(k)
        BY <1>3 DEF Back, ring
      <4>5. QED
        BY <4>1, <4>2, <4>3, <4>4 DEF RingInv
    <3>7. QED BY <3>2, <3>4, <3>5, <3>6 DEF TypeOK
  <2>2. CASE ~Sequential(new_lba)
    <3>1. ra_lba' = new_lba /\ ra_count' = 1
      BY <1>1, <1>2, <2>2 DEF TakeReadSector, UnlessAtEnd, initial_ra
    <3>2. WindowInv'
      BY <1>1, <1>2, <1>3, <3>1 DEF TypeOK, WindowInv, InLoop
    <3>3. RingInv'
      BY <1>1, <1>2, <1>3, <3>1 DEF TypeOK, RingInv, InLoop
    <3>4. QED BY <1>2, <3>1, <3>2, <3>3
  <2>3. QED BY <2>1, <2>2
<1>6. TypeOK'
  BY <1>2, <1>3, <1>5, TailFacts DEF TypeOK, TakeReadSector, callVars, ring
<1>7. HandshakeInv'
  <2>1. emu = "closing" => Tail(ReadThreadQueue) # << >> /\
           Tail(ReadThreadQueue)[Len(Tail(ReadThreadQueue))] = DIEDIEDIE
    <3>1. ReadThreadQueue \in Seq(Messages) /\ ReadThreadQueue # << >>
          /\ Head(ReadThreadQueue) # DIEDIEDIE
      BY DEF TypeOK, TakeReadSector, DIEDIEDIE
    <3>2. emu = "closing" => ReadThreadQueue[Len(ReadThreadQueue)] = DIEDIEDIE
      BY <1>1, <1>3 DEF HandshakeInv
    <3>3. QED BY <3>1, <3>2, TailFacts
  <2>2. QED
    BY <1>1, <1>3, <2>1 DEF TypeOK, HandshakeInv, InLoop, InSession, TakeReadSector
<1>8. PollInv'
  BY <1>1, TailFacts DEF TypeOK, PollInv, CurLba, TakeReadSector, callVars, READ_SECTOR
<1>9. QueueInv'
  BY <1>1, TailFacts DEF TypeOK, QueueInv, InSession, TakeReadSector
<1>10. BufferHoldsThisDisc'
  BY DEF BufferHoldsThisDisc, InSession, TakeReadSector, ring
<1>11. QED BY <1>5, <1>6, <1>7, <1>8, <1>9, <1>10

LEMMA TakeDieInv == ASSUME IInv, TakeDie PROVE IInv'
<1> USE CdAssumption DEF IInv
<1>1. InSession /\ InLoop /\ Running /\ toc \in Discs
  BY DEF TypeOK, HandshakeInv, TakeDie, InLoop, InSession
<1>2. emu = "closing" /\ Tail(ReadThreadQueue) = << >>
  BY <1>1, TailFacts DEF TypeOK, QueueInv, TakeDie, DIEDIEDIE
<1>3. /\ reader = "waiting" /\ reader' = "fetching" /\ Running' = FALSE
      /\ ReadThreadQueue' = << >>
      /\ ra_count' = UnlessAtEnd(ra_lba, ra_count)
      /\ UNCHANGED <<emu, request, got, status, toc, EmuThreadQueue, SectorBuffers,
                     SBWritePos, live, p_cdrfile, ra_lba, last_read_lba>>
  BY <1>2 DEF TakeDie, callVars, ring
<1>4. ra_count' \in Nat /\ ra_count' <= ra_count /\ (ra_lba = toc.leadout => ra_count' = 0)
  BY <1>3 DEF TypeOK, UnlessAtEnd
<1>5. TypeOK'
  <2>1. << >> \in Seq(Messages)
    OBVIOUS
  <2>2. QED BY <1>3, <1>4, <2>1 DEF TypeOK
<1>6. HandshakeInv'
  BY <1>1, <1>2, <1>3 DEF HandshakeInv, InLoop, InSession
<1>7. QueueInv' /\ PollInv' /\ BufferHoldsThisDisc'
  BY <1>2, <1>3 DEF QueueInv, PollInv, BufferHoldsThisDisc, InSession
<1>8. WindowInv'
  BY <1>1, <1>3, <1>4 DEF TypeOK, WindowInv, InLoop
<1>9. RingInv'
  BY <1>3 DEF RingInv, InLoop, Back, Holds
<1>10. QED BY <1>5, <1>6, <1>7, <1>8, <1>9

LEMMA TakeNothingInv == ASSUME IInv, TakeNothing PROVE IInv'
<1> USE CdAssumption DEF IInv
<1>1. InSession /\ InLoop /\ Running /\ toc \in Discs
  <2>1. /\ reader = "waiting" /\ ReadThreadQueue = << >>
        /\ ra_count \in Nat /\ ra_count > 0
    BY DEF TypeOK, TakeNothing
  <2>2. emu \in {"idle", "polling", "validating"}
    <3>1. emu # "opening"
      <4>1. emu = "opening" => ra_count = 0
        BY DEF HandshakeInv
      <4>2. QED BY <2>1, <4>1
    <3>2. emu # "closing"
      BY <2>1 DEF HandshakeInv
    <3>3. emu # "closed" /\ emu # "joining"
      BY <2>1 DEF HandshakeInv
    <3>4. QED BY <3>1, <3>2, <3>3 DEF TypeOK
  <2>3. QED BY <2>2 DEF HandshakeInv, InSession
<1>3. /\ reader = "waiting" /\ reader' = "fetching" /\ ReadThreadQueue = << >>
      /\ ra_count' = UnlessAtEnd(ra_lba, ra_count)
      /\ UNCHANGED <<emu, request, got, status, toc, ReadThreadQueue, EmuThreadQueue,
                     SectorBuffers, SBWritePos, live, Running, p_cdrfile, ra_lba,
                     last_read_lba>>
  BY DEF TakeNothing, callVars, ring, queues
<1>4. ra_count' \in Nat /\ ra_count' <= ra_count /\ (ra_lba = toc.leadout => ra_count' = 0)
  BY <1>3 DEF TypeOK, UnlessAtEnd
<1>5. TypeOK'
  BY <1>3, <1>4 DEF TypeOK
<1>6. HandshakeInv'
  BY <1>1, <1>3 DEF HandshakeInv, InLoop, InSession
<1>7. QueueInv' /\ PollInv' /\ BufferHoldsThisDisc'
  BY <1>3 DEF QueueInv, PollInv, CurLba, BufferHoldsThisDisc, InSession
<1>8. WindowInv'
  BY <1>1, <1>3, <1>4 DEF TypeOK, WindowInv, InLoop
<1>9. RingInv'
  BY <1>3 DEF RingInv, InLoop, Back, Holds
<1>10. QED BY <1>5, <1>6, <1>7, <1>8, <1>9

LEMMA FetchInv == ASSUME IInv, Fetch PROVE IInv'
<1> USE CdAssumption DEF IInv
<1>1. InSession /\ InLoop /\ toc \in Discs /\ ra_lba <= toc.leadout
  BY DEF TypeOK, HandshakeInv, WindowInv, Fetch, InLoop, InSession
<1>2. /\ reader = "fetching" /\ reader' = IF Running THEN "waiting" ELSE "exited"
      /\ p_cdrfile' = (Running /\ p_cdrfile)
      /\ UNCHANGED <<emu, request, got, status, toc, ReadThreadQueue, EmuThreadQueue,
                     live, Running, last_read_lba>>
  BY DEF Fetch, LoopOrExit, callVars, queues
<1>3. HandshakeInv'
  BY <1>1, <1>2 DEF TypeOK, HandshakeInv, InLoop, InSession
<1>4. QueueInv' /\ PollInv'
  BY <1>2 DEF QueueInv, PollInv, CurLba, InSession
<1>5. CASE ra_count = 0
  <2>1. UNCHANGED <<SectorBuffers, SBWritePos, ra_lba, ra_count>>
    BY <1>5 DEF Fetch, ring
  <2>2. TypeOK'
    BY <1>2, <2>1 DEF TypeOK
  <2>3. WindowInv'
    BY <1>2, <1>5, <2>1 DEF TypeOK, WindowInv, InLoop
  <2>4. RingInv'
    BY <1>2, <2>1 DEF RingInv, InLoop, Back, Holds
  <2>5. BufferHoldsThisDisc'
    BY <1>2, <2>1 DEF BufferHoldsThisDisc, InSession
  <2>6. QED BY <1>3, <1>4, <2>2, <2>3, <2>4, <2>5
<1>6. CASE ra_count > 0
  <2>1. PICK data \in ReadOf(toc, ra_lba) : StoreSector(data)
    BY <1>6 DEF Fetch, TypeOK
  <2>2. /\ SectorBuffers' = [SectorBuffers EXCEPT ![SBWritePos] =
                                [valid |-> TRUE, lba |-> ra_lba, data |-> data]]
        /\ SBWritePos' = IF SBWritePos + 1 = SBSize THEN 0 ELSE SBWritePos + 1
        /\ ra_lba' = ra_lba + 1 /\ ra_count' = ra_count - 1
    BY <2>1 DEF StoreSector, NextPos
  <2>3. ra_lba < toc.leadout /\ last_read_lba <= ra_lba
        /\ ra_lba - last_read_lba <= max_ra
    BY <1>2, <1>6 DEF TypeOK, WindowInv, InLoop
  <2>4. TypeOK'
    <3>1. [valid |-> TRUE, lba |-> ra_lba, data |-> data] \in SlotType
      BY <1>1, ReadOfType DEF SlotType, TypeOK
    <3>2. SectorBuffers' \in [Slots -> SlotType] /\ SBWritePos' \in Slots
      BY <2>2, <3>1 DEF TypeOK, Slots
    <3>3. ra_lba' \in Nat /\ ra_count' \in Nat /\ reader' \in {"waiting", "exited"}
          /\ p_cdrfile' \in BOOLEAN
      BY <1>2, <1>6, <2>2 DEF TypeOK
    <3>4. QED BY <1>2, <3>2, <3>3 DEF TypeOK
  <2>5. WindowInv'
    BY <1>1, <1>2, <1>6, <2>2, <2>3 DEF TypeOK, WindowInv, InLoop
  <2>6. RingInv'
    <3>1. SUFFICES ASSUME InLoop', NEW k \in 1 .. (ra_lba' - last_read_lba'), ra_lba' - k >= 0
                   PROVE  Holds(Back(k), ra_lba - k)'
      BY DEF RingInv
    <3>2. CASE k = 1
      <4>1. Back(1)' = SBWritePos
        BY <2>2 DEF TypeOK, Slots, Back
      <4>2. SectorBuffers'[SBWritePos] = [valid |-> TRUE, lba |-> ra_lba, data |-> data]
        BY <2>2 DEF TypeOK
      <4>3. QED BY <2>2, <3>2, <4>1, <4>2 DEF Holds, TypeOK
    <3>3. CASE k > 1
      <4>1. k - 1 \in 1 .. (ra_lba - last_read_lba) /\ ra_lba - (k - 1) >= 0
            /\ k - 1 < SBSize
        BY <1>2, <2>2, <2>3, <3>1, <3>3 DEF TypeOK
      <4>2. Holds(Back(k - 1), ra_lba - (k - 1))
        BY <1>2, <4>1 DEF RingInv, InLoop
      <4>3. Back(k)' = Back(k - 1) /\ Back(k - 1) # SBWritePos
        BY <2>2, <4>1 DEF TypeOK, Slots, Back
      <4>4. Back(k - 1) \in Slots
        BY <4>1 DEF TypeOK, Slots, Back
      <4>5. SectorBuffers'[Back(k - 1)] = SectorBuffers[Back(k - 1)]
        BY <2>2, <4>3, <4>4 DEF TypeOK
      <4>6. QED BY <2>2, <4>2, <4>3, <4>5 DEF Holds, TypeOK
    <3>4. QED BY <3>1, <3>2, <3>3, <2>2, <1>2 DEF TypeOK
  <2>7. BufferHoldsThisDisc'
    BY <1>1, <1>2, <2>2, <2>3 DEF TypeOK, BufferHoldsThisDisc
  <2>8. QED BY <1>3, <1>4, <2>4, <2>5, <2>6, <2>7
<1>7. QED BY <1>5, <1>6 DEF TypeOK

LEMMA ReadRefusedInv == ASSUME IInv, NEW r \in Calls, ReadRefused(r) PROVE IInv'
<1> USE CdAssumption DEF IInv
<1>1. TypeOK'
  BY CallTypes DEF TypeOK, ReadRefused, queues, ring, readAhead, readerVars
<1>2. HandshakeInv' /\ QueueInv' /\ PollInv'
  BY DEF HandshakeInv, QueueInv, PollInv, InLoop, InSession, ReadRefused, queues, ring,
     readAhead, readerVars
<1>3. WindowInv' /\ RingInv' /\ BufferHoldsThisDisc'
  BY DEF WindowInv, RingInv, BufferHoldsThisDisc, Holds, Back, InLoop, InSession,
     ReadRefused, queues, ring, readAhead, readerVars
<1>4. QED BY <1>1, <1>2, <1>3

LEMMA ReadSendInv == ASSUME IInv, NEW r \in Calls, ReadSend(r) PROVE IInv'
<1> USE CdAssumption DEF IInv
<1>1. r \in Requests /\ r.first \in Nat
  BY CallTypes DEF Requests
<1>2. READ_SECTOR(r.first) \in Messages
  BY <1>1, ValueTypes
<1>3. TypeOK'
  BY <1>1, <1>2, AppendFacts DEF TypeOK, ReadSend, ring, readAhead, readerVars
<1>4. HandshakeInv'
  BY DEF HandshakeInv, InLoop, InSession, ReadSend, readerVars
<1>5. QueueInv'
  BY <1>2, AppendFacts DEF TypeOK, QueueInv, InSession, ReadSend, READ_SECTOR
<1>6. PollInv'
  <2>1. CurLba' = r.first
    BY <1>1 DEF CurLba, ReadSend
  <2>2. QED BY <1>2, <2>1, AppendFacts DEF TypeOK, PollInv, ReadSend
<1>7. WindowInv' /\ RingInv' /\ BufferHoldsThisDisc'
  BY DEF WindowInv, RingInv, BufferHoldsThisDisc, Holds, Back, InLoop, InSession,
     ReadSend, ring, readAhead, readerVars
<1>8. QED BY <1>3, <1>4, <1>5, <1>6, <1>7

LEMMA HintInv == ASSUME IInv, NEW lba \in Lbas, Hint(lba) PROVE IInv'
<1> USE CdAssumption DEF IInv
<1>1. READ_SECTOR(lba) \in Messages
  BY CallTypes, ValueTypes
<1>2. TypeOK'
  BY <1>1, AppendFacts DEF TypeOK, Hint, callVars, ring, readAhead, readerVars
<1>3. HandshakeInv' /\ PollInv'
  BY DEF HandshakeInv, PollInv, InLoop, InSession, Hint, readerVars
<1>4. QueueInv'
  BY <1>1, AppendFacts DEF TypeOK, QueueInv, InSession, Hint, READ_SECTOR
<1>5. WindowInv' /\ RingInv' /\ BufferHoldsThisDisc'
  BY DEF WindowInv, RingInv, BufferHoldsThisDisc, Holds, Back, InLoop, InSession, Hint,
     ring, readAhead, readerVars
<1>6. QED BY <1>2, <1>3, <1>4, <1>5

LEMMA PollFoundInv == ASSUME IInv, PollFound PROVE IInv'
<1> USE CdAssumption DEF IInv
<1>1. PICK i \in Slots : got' = Append(got, SectorBuffers[i].data)
  BY DEF PollFound
<1>2. SectorBuffers[i].data \in Contents
  BY DEF TypeOK, SlotType
<1>3. got' \in Seq(Contents)
  BY <1>1, <1>2, AppendFacts DEF TypeOK
<1>4. TypeOK'
  BY <1>3 DEF TypeOK, PollFound, queues, ring, readAhead, readerVars
<1>5. HandshakeInv' /\ QueueInv' /\ PollInv'
  BY DEF HandshakeInv, QueueInv, PollInv, InLoop, InSession, PollFound, queues, readerVars
<1>6. WindowInv' /\ RingInv' /\ BufferHoldsThisDisc'
  BY DEF WindowInv, RingInv, BufferHoldsThisDisc, Holds, Back, InLoop, InSession,
     PollFound, ring, readAhead, readerVars
<1>7. QED BY <1>4, <1>5, <1>6

LEMMA ValidateOkInv == ASSUME IInv, ValidateOk PROVE IInv'
<1> USE CdAssumption DEF IInv
<1>1. CurLba \in Nat /\ CurLba' = CurLba
  BY DEF TypeOK, Requests, CurLba, ValidateOk
<1>2. READ_SECTOR(CurLba) \in Messages
  BY <1>1, ValueTypes
<1>9. \/ ReadThreadQueue' = ReadThreadQueue /\ emu' = "idle"
      \/ /\ ReadThreadQueue' = Append(ReadThreadQueue, READ_SECTOR(CurLba))
         /\ emu' = "polling" /\ CurLba < toc.leadout
  BY DEF ValidateOk
<1>10. ReadThreadQueue' \in Seq(Messages)
  <2>1. ReadThreadQueue \in Seq(Messages)
    BY DEF TypeOK
  <2>2. QED BY <1>2, <1>9, <2>1, AppendFacts
<1>3. TypeOK'
  BY <1>10 DEF TypeOK, ValidateOk, ring, readAhead, readerVars
<1>4. HandshakeInv'
  BY DEF HandshakeInv, InLoop, InSession, ValidateOk, readerVars
<1>5. QueueInv'
  <2>1. emu = "validating" /\ toc' = toc
    BY DEF ValidateOk
  <2>2. \A k \in 1 .. Len(ReadThreadQueue) :
          ReadThreadQueue[k].message = "READ_SECTOR" /\ ReadThreadQueue[k].lba < toc.leadout
    BY <2>1 DEF QueueInv, InSession
  <2>3. CASE ReadThreadQueue' = ReadThreadQueue
    BY <2>1, <2>2, <2>3 DEF QueueInv
  <2>4. CASE ReadThreadQueue' = Append(ReadThreadQueue, READ_SECTOR(CurLba)) /\ CurLba < toc.leadout
    <3>1. ReadThreadQueue \in Seq(Messages)
      BY DEF TypeOK
    <3>2. \A k \in 1 .. Len(ReadThreadQueue') : k \in 1 .. Len(ReadThreadQueue)
                                               \/ ReadThreadQueue'[k] = READ_SECTOR(CurLba)
      BY <1>2, <2>4, <3>1, AppendFacts
    <3>3. \A k \in 1 .. Len(ReadThreadQueue) : ReadThreadQueue'[k] = ReadThreadQueue[k]
      BY <1>2, <2>4, <3>1, AppendFacts
    <3>4. QED BY <2>1, <2>2, <2>4, <3>2, <3>3 DEF QueueInv, READ_SECTOR
  <2>5. QED BY <1>9, <2>3, <2>4
<1>6. PollInv'
  BY <1>1, <1>2, AppendFacts DEF TypeOK, PollInv, ValidateOk
<1>7. WindowInv' /\ RingInv' /\ BufferHoldsThisDisc'
  BY DEF WindowInv, RingInv, BufferHoldsThisDisc, Holds, Back, InLoop, InSession,
     ValidateOk, ring, readAhead, readerVars
<1>8. QED BY <1>3, <1>4, <1>5, <1>6, <1>7

LEMMA ValidateFailInv == ASSUME IInv, ValidateFail PROVE IInv'
<1> USE CdAssumption DEF IInv
<1>1. TypeOK'
  BY DEF TypeOK, ValidateFail, queues, ring, readAhead, readerVars
<1>2. HandshakeInv' /\ QueueInv' /\ PollInv'
  BY DEF HandshakeInv, QueueInv, PollInv, InLoop, InSession, ValidateFail, queues,
     readerVars
<1>3. WindowInv' /\ RingInv' /\ BufferHoldsThisDisc'
  BY DEF WindowInv, RingInv, BufferHoldsThisDisc, Holds, Back, InLoop, InSession,
     ValidateFail, ring, readAhead, readerVars
<1>4. QED BY <1>1, <1>2, <1>3

LEMMA CloseBeginInv == ASSUME IInv, CloseBegin PROVE IInv'
<1> USE CdAssumption DEF IInv
<1>1. TypeOK'
  BY ValueTypes, AppendFacts DEF TypeOK, CloseBegin, callVars, ring, readAhead, readerVars
<1>2. HandshakeInv'
  BY ValueTypes, AppendFacts DEF TypeOK, HandshakeInv, InLoop, InSession, CloseBegin,
     readerVars
<1>3. QueueInv' /\ PollInv'
  BY ValueTypes, AppendFacts DEF TypeOK, HandshakeInv, QueueInv, PollInv, InSession,
     CloseBegin, readerVars
<1>4. WindowInv' /\ RingInv' /\ BufferHoldsThisDisc'
  BY DEF WindowInv, RingInv, BufferHoldsThisDisc, Holds, Back, InLoop, InSession,
     CloseBegin, ring, readAhead, readerVars
<1>5. QED BY <1>1, <1>2, <1>3, <1>4

LEMMA CloseEndInv == ASSUME IInv, CloseEnd PROVE IInv'
<1> USE CdAssumption DEF IInv
<1>1. TypeOK'
  BY DEF TypeOK, CloseEnd, callVars, queues, ring, readAhead, readerVars
<1>2. HandshakeInv' /\ QueueInv' /\ PollInv' /\ BufferHoldsThisDisc'
  BY DEF HandshakeInv, QueueInv, PollInv, BufferHoldsThisDisc, InLoop, InSession,
     CloseEnd, readerVars
<1>3. WindowInv' /\ RingInv'
  BY DEF WindowInv, RingInv, InLoop, CloseEnd, readerVars
<1>4. QED BY <1>1, <1>2, <1>3

-----------------------------------------------------------------------------
(* The inductive invariant.                                                *)

LEMMA InitInv == Init => IInv
<1> SUFFICES ASSUME Init PROVE IInv
  OBVIOUS
<1> USE CdAssumption DEF Init
<1>1. TypeOK
  <2>1. request \in Requests /\ toc \in Discs \union {NoDisc} /\ 0 \in Slots
    BY DEF Requests, Slots
  <2>2. got \in Seq(Contents) /\ ReadThreadQueue \in Seq(Messages)
        /\ EmuThreadQueue \in Seq(Replies)
    OBVIOUS
  <2>3. SectorBuffers \in [Slots -> SlotType]
    BY ValueTypes
  <2>4. QED BY <2>1, <2>2, <2>3 DEF TypeOK
<1>2. HandshakeInv /\ QueueInv /\ PollInv
  BY DEF HandshakeInv, QueueInv, PollInv, InLoop, InSession
<1>3. WindowInv /\ RingInv /\ BufferHoldsThisDisc
  BY DEF WindowInv, RingInv, BufferHoldsThisDisc, InLoop, InSession
<1>4. QED BY <1>1, <1>2, <1>3 DEF IInv

LEMMA StutterInv == ASSUME IInv, UNCHANGED vars PROVE IInv'
<1> USE DEF vars, callVars, queues, ring, readAhead, readerVars
<1>1. TypeOK' /\ HandshakeInv' /\ QueueInv'
  BY DEF IInv, TypeOK, HandshakeInv, QueueInv, InLoop, InSession
<1>2. PollInv' /\ WindowInv' /\ RingInv'
  BY DEF IInv, PollInv, CurLba, WindowInv, RingInv, Holds, Back, InLoop
<1>3. BufferHoldsThisDisc'
  BY DEF IInv, BufferHoldsThisDisc, InSession
<1>4. QED BY <1>1, <1>2, <1>3 DEF IInv

LEMMA StepInv == IInv /\ [Next]_vars => IInv'
<1>1. SUFFICES ASSUME IInv, [Next]_vars PROVE IInv'
  OBVIOUS
<1>2. CASE UNCHANGED vars
  BY <1>1, <1>2, StutterInv
<1>3. CASE ReaderNext
  BY <1>1, <1>3, StartNoFileInv, StartBadTOCInv, StartOkInv, TakeReadSectorInv, TakeDieInv,
     TakeNothingInv, FetchInv DEF ReaderNext
<1>4. CASE EmuInCall
  BY <1>1, <1>4, OpenReplyInv, OpenAbandonInv, PollFoundInv, ValidateOkInv, ValidateFailInv,
     CloseEndInv DEF EmuInCall
<1>5. CASE OpenBegin \/ CloseBegin
  BY <1>1, <1>5, OpenBeginInv, CloseBeginInv
<1>6. CASE \E r \in Calls : ReadRefused(r) \/ ReadSend(r)
  BY <1>1, <1>6, ReadRefusedInv, ReadSendInv
<1>7. CASE \E lba \in Lbas : Hint(lba)
  BY <1>1, <1>7, HintInv
<1>8. QED BY <1>1, <1>2, <1>3, <1>4, <1>5, <1>6, <1>7 DEF Next, EmuNext

\* IInv holds throughout every behaviour of the two threads of cdromif.cpp.
THEOREM InductiveInvariant == Spec => []IInv
<1>1. QED BY InitInv, StepInv, PTL DEF Spec

-----------------------------------------------------------------------------
(* The safety properties.                                                  *)

\* The variables of both threads keep their types: in particular SBWritePos
\* stays inside the buffer and ra_count never goes below zero.
THEOREM TypeCorrect == Spec => []TypeOK
<1>1. IInv => TypeOK
  BY DEF IInv
<1>2. QED BY <1>1, InductiveInvariant, PTL

\* The reader never runs on queues, buffers or an image that CDIF_Close or a
\* failed CDIF_Open has freed, nor does the emulation thread on p_cdrfile.
THEOREM MemorySafety == Spec => []NoUseAfterFree
<1>1. IInv => NoUseAfterFree
  <2>1. SUFFICES ASSUME IInv PROVE NoUseAfterFree
    OBVIOUS
  <2>2. reader \in {"starting", "waiting", "fetching"} =>
          live = {"queues", "buffers"} /\ (InLoop => p_cdrfile)
    BY <2>1 DEF IInv, TypeOK, HandshakeInv, InLoop, InSession
  <2>3. emu \in {"idle", "polling", "validating"} =>
          live = {"queues", "buffers"} /\ p_cdrfile
    BY <2>1 DEF IInv, HandshakeInv, InSession
  <2>4. QED BY <2>2, <2>3 DEF NoUseAfterFree, InLoop
<1>2. QED BY <1>1, InductiveInvariant, PTL

\* assert(how_far_ahead >= 0) cannot fire, for any hints below the lead-out.
THEOREM AssertionHolds == Spec => []HowFarAheadInRange
<1>1. IInv => HowFarAheadInRange
  <2>1. SUFFICES ASSUME IInv, reader = "waiting", ReadThreadQueue # << >>,
                        Sequential(Head(ReadThreadQueue).lba)
                 PROVE  ra_lba - Head(ReadThreadQueue).lba \in 0 .. max_ra
    BY DEF HowFarAheadInRange
  <2>2. Head(ReadThreadQueue).lba = last_read_lba + 1
    BY <2>1 DEF Sequential
  <2>3. /\ last_read_lba + 1 <= ra_lba
        /\ ra_lba + ra_count <= last_read_lba + 1 + max_ra
    BY <2>1 DEF IInv, WindowInv, InLoop
  <2>4. /\ ra_lba \in Nat /\ ra_count \in Nat
        /\ last_read_lba \in Int /\ max_ra \in Nat
    BY <2>1, CdAssumption DEF IInv, TypeOK
  <2>5. QED BY <2>2, <2>3, <2>4
<1>2. QED BY <1>1, InductiveInvariant, PTL

\* A sector behind the read-ahead position, and not before the one last asked for,
\* is in the slot that many slots back, for every SBSize of at least max_ra + 1.
LEMMA Residency ==
    ASSUME IInv, InLoop, NEW lba \in last_read_lba .. ra_lba - 1, lba >= 0
    PROVE  Resident(lba)
<1> DEFINE k == ra_lba - lba
<1>1. /\ ra_lba \in Nat /\ ra_count \in Nat /\ last_read_lba \in Int
      /\ SBWritePos \in 0 .. SBSize - 1
      /\ SBSize \in Nat /\ max_ra \in Nat /\ max_ra + 1 <= SBSize
  BY CdAssumption DEF IInv, TypeOK, Slots
<1>2. ra_lba + ra_count <= last_read_lba + 1 + max_ra
  BY DEF IInv, WindowInv
<1>3. k \in 1 .. (ra_lba - last_read_lba) /\ k <= SBSize /\ ra_lba - k = lba
  BY <1>1, <1>2
<1>4. Holds(Back(k), lba)
  BY <1>3 DEF IInv, RingInv
<1>5. Back(k) \in Slots
  BY <1>1, <1>3 DEF Back, Slots
<1>6. QED BY <1>4, <1>5 DEF Resident

\* Every sector between the last one asked for and the read-ahead position is
\* still in the circular buffer whenever the reader waits for a message.
THEOREM ReadAheadKept == Spec => []ReadAheadResident
<1>1. IInv => ReadAheadResident
  BY Residency DEF ReadAheadResident, InLoop
<1>2. QED BY <1>1, InductiveInvariant, PTL

\* A caller that polls is never starved by a lost request: the sector is there,
\* still asked for, or being read.
THEOREM NoLostRequest == Spec => []RequestInFlight
<1>1. IInv => RequestInFlight
  <2>1. SUFFICES ASSUME IInv, emu = "polling" PROVE RequestInFlight
    BY DEF RequestInFlight
  <2>2. CASE ReadThreadQueue # << >>
    <3>1. /\ ReadThreadQueue \in Seq(Messages)
          /\ ReadThreadQueue[Len(ReadThreadQueue)] = READ_SECTOR(CurLba)
      BY <2>1, <2>2 DEF IInv, TypeOK, PollInv
    <3>2. Len(ReadThreadQueue) \in 1 .. Len(ReadThreadQueue)
      BY <2>2, <3>1, EmptySeq
    <3>3. QED BY <3>1, <3>2 DEF RequestInFlight
  <2>3. CASE ReadThreadQueue = << >>
    <3>1. InLoop /\ last_read_lba = CurLba /\ CurLba \in Nat
      BY <2>1, <2>3 DEF IInv, TypeOK, HandshakeInv, PollInv, CurLba, Requests
    <3>2. /\ ra_lba \in Nat /\ ra_count \in Nat
          /\ CurLba <= ra_lba /\ (ra_lba = CurLba => reader = "fetching" /\ ra_count > 0)
      BY <2>1, <3>1 DEF IInv, TypeOK, WindowInv, InLoop
    <3>3. CASE ra_lba = CurLba
      BY <3>2, <3>3 DEF RequestInFlight
    <3>4. CASE CurLba < ra_lba
      <4>1. CurLba \in last_read_lba .. ra_lba - 1 /\ CurLba >= 0
        BY <3>1, <3>2, <3>4
      <4>2. QED BY <2>1, <3>1, <4>1, Residency DEF RequestInFlight
    <3>5. QED BY <3>1, <3>2, <3>3, <3>4
  <2>4. QED BY <2>2, <2>3
<1>2. QED BY <1>1, InductiveInvariant, PTL

\* No sector of an earlier disc, and nothing past the lead-out, is ever served.
THEOREM BufferOfThisDisc == Spec => []BufferHoldsThisDisc
<1>1. IInv => BufferHoldsThisDisc
  BY DEF IInv
<1>2. QED BY <1>1, InductiveInvariant, PTL

-----------------------------------------------------------------------------
(***************************************************************************)
(* The CD interface implements the read service of DiscService, for every  *)
(* disc, buffer, read-ahead limit and length of a read.  To the invariant  *)
(* above is added what the sectors copied out so far are.                  *)
(***************************************************************************)


\* The sectors of a data read before the latest have been found good; of the
\* latest it is only known that it was in the buffer.
CallInv ==
    /\ emu \in {"polling", "validating"} =>
         /\ status = "none"
         /\ request \in Calls
    /\ emu = "polling" =>
         /\ Len(got) < request.sectors
         /\ request.cooked \/ got = << >>
         /\ \A i \in 1 .. Len(got) : got[i] = Sector(toc, request.first + (i - 1))
    /\ emu = "validating" =>
         /\ request.cooked
         /\ got # << >> /\ Len(got) <= request.sectors
         /\ \A i \in 1 .. Len(got) - 1 : got[i] = Sector(toc, request.first + (i - 1))
         /\ got[Len(got)] \in ReadOf(toc, LastLba)

\* What a call asks for.
LEMMA CallFacts ==
    ASSUME NEW r \in Calls
    PROVE  /\ r.first \in Nat /\ r.sectors \in Nat \ {0} /\ r.cooked \in BOOLEAN
           /\ ~r.cooked => r.sectors = 1
           /\ r = [first |-> r.first, sectors |-> r.sectors, cooked |-> r.cooked]
<1>1. Lbas \subseteq Nat /\ 1 .. MaxSectors \subseteq Nat \ {0}
  BY CallTypes, CdAssumption
<1>2. CASE r \in [first : Lbas, sectors : {1}, cooked : {FALSE}]
  <2>1. PICK f \in Lbas : r = [first |-> f, sectors |-> 1, cooked |-> FALSE]
    BY <1>2
  <2>2. r.first = f /\ r.sectors = 1 /\ r.cooked = FALSE
    BY <2>1
  <2> QED  BY <1>1, <2>1, <2>2
<1>3. CASE r \in [first : Lbas, sectors : 1 .. MaxSectors, cooked : {TRUE}]
  <2>1. PICK f \in Lbas, s \in 1 .. MaxSectors :
          r = [first |-> f, sectors |-> s, cooked |-> TRUE]
    BY <1>3
  <2>2. r.first = f /\ r.sectors = s /\ r.cooked = TRUE
    BY <2>1
  <2> QED  BY <1>1, <2>1, <2>2
<1> QED  BY <1>2, <1>3 DEF Calls

\* The buffer gives a sector of the disc, or zeros for a bad one.
LEMMA PolledSector ==
    ASSUME IInv, PollFound
    PROVE  /\ Len(got) \in Nat /\ Len(got') = Len(got) + 1 /\ got' # << >>
           /\ \A i \in 1 .. Len(got) : got'[i] = got[i]
           /\ got'[Len(got')] \in ReadOf(toc, CurLba)
           /\ LastLba' = CurLba
<1>1. PICK i \in Slots : LastMatch(i, CurLba) /\ got' = Append(got, SectorBuffers[i].data)
  BY DEF PollFound
<1>2. /\ emu = "polling" /\ request' = request /\ request.first \in Nat
      /\ got \in Seq(Contents) /\ SectorBuffers \in [Slots -> SlotType]
  BY DEF PollFound, IInv, TypeOK, Requests
<1>3. SectorBuffers[i].valid /\ SectorBuffers[i].lba = CurLba
  BY <1>1 DEF LastMatch, Holds
<1>4. SectorBuffers[i].data \in ReadOf(toc, CurLba)
  BY <1>2, <1>3 DEF IInv, BufferHoldsThisDisc, InSession
<1>5. SectorBuffers[i].data \in Contents
  BY <1>2 DEF SlotType
<1> DEFINE e == SectorBuffers[i].data
<1> HIDE DEF e
<1>6. e \in Contents /\ got' = Append(got, e) /\ e \in ReadOf(toc, CurLba)
  BY <1>1, <1>4, <1>5 DEF e
<1>7. /\ Append(got, e) # << >> /\ Len(Append(got, e)) = Len(got) + 1
      /\ \A k \in 1 .. Len(got) : Append(got, e)[k] = got[k]
      /\ Append(got, e)[Len(got) + 1] = e
  BY <1>2, <1>6, AppendFacts
<1>8. Len(got) \in Nat
  BY <1>2
<1>9. LastLba' = CurLba
  BY <1>2, <1>6, <1>7, <1>8 DEF LastLba, CurLba
<1> QED  BY <1>6, <1>7, <1>8, <1>9

\* A sector of mode 1 or 2 is no zeros, and so the one asked for.
LEMMA GoodSector ==
    ASSUME NEW d \in Discs, NEW lba \in Nat, NEW data \in ReadOf(d, lba)
    PROVE  /\ Mode(data) \in {1, 2} => data = Sector(d, lba)
           /\ Mode(data) \notin {1, 2} => lba \in d.bad \/ d.mode[lba] \notin {1, 2}
<1>1. Sector(d, lba) # Blank
  BY BlankAssumption DEF Sector
<1>2. Mode(Sector(d, lba)) = d.mode[lba]
  BY <1>1 DEF Mode, Sector
<1>3. Mode(Blank) = 0
  BY DEF Mode
<1> QED  BY <1>2, <1>3 DEF ReadOf

\* What the sector to be validated is.
LEMMA Validated ==
    ASSUME IInv, CallInv, emu = "validating"
    PROVE  /\ toc \in Discs /\ Len(got) \in Nat \ {0} /\ LastLba \in Nat
           /\ request.first \in Nat /\ request.sectors \in Nat
           /\ LastLba = request.first + (Len(got) - 1)
           /\ Mode(got[Len(got)]) \in {1, 2} => got[Len(got)] = Sector(toc, LastLba)
           /\ Mode(got[Len(got)]) \notin {1, 2} =>
                LastLba \in toc.bad \/ toc.mode[LastLba] \notin {1, 2}
<1>1. toc \in Discs
  BY DEF IInv, HandshakeInv, InSession
<1>2. got \in Seq(Contents) /\ got # << >> /\ got[Len(got)] \in ReadOf(toc, LastLba)
  BY DEF IInv, TypeOK, CallInv
<1>3. Len(got) \in Nat \ {0}
  BY <1>2, EmptySeq
<1>4. request.first \in Nat /\ request.sectors \in Nat
  BY DEF IInv, TypeOK, Requests
<1>5. LastLba \in Nat /\ LastLba = request.first + (Len(got) - 1)
  BY <1>3, <1>4 DEF LastLba
<1> QED  BY <1>1, <1>2, <1>3, <1>4, <1>5, GoodSector

-----------------------------------------------------------------------------
LEMMA InitCall == Init => CallInv
  BY DEF Init, CallInv

LEMMA StepCall == IInv /\ CallInv /\ [Next]_vars => CallInv'
<1> SUFFICES ASSUME IInv, CallInv, [Next]_vars  PROVE CallInv'
  OBVIOUS
<1>1. ASSUME UNCHANGED <<emu, callVars>>, toc' = toc \/ ~InSession  PROVE CallInv'
  BY <1>1 DEF callVars, CallInv, InSession, LastLba, ReadOf, Sector
<1>2. ASSUME emu' \notin {"polling", "validating"}  PROVE CallInv'
  BY <1>2 DEF CallInv
<1>3. CASE UNCHANGED vars
  BY <1>1, <1>3 DEF vars
<1>4. CASE ReaderNext
  <2>1. UNCHANGED <<emu, callVars>>
    BY <1>4 DEF ReaderNext, StartNoFile, StartBadTOC, StartOk, TakeReadSector, TakeDie,
       TakeNothing, Fetch
  <2>2. toc' = toc \/ reader = "starting"
    BY <1>4 DEF ReaderNext, StartNoFile, StartBadTOC, StartOk, TakeReadSector, TakeDie,
       TakeNothing, Fetch
  <2>3. reader = "starting" => ~InSession
    BY DEF IInv, HandshakeInv, InSession, InLoop
  <2> QED  BY <1>1, <2>1, <2>2, <2>3
<1>5. CASE OpenBegin \/ CloseBegin \/ OpenReply \/ OpenAbandon \/ CloseEnd \/ ValidateFail
  BY <1>2, <1>5 DEF OpenBegin, CloseBegin, OpenReply, OpenAbandon, CloseEnd, ValidateFail
<1>6. CASE PollFound
  <2>1. CASE ~request.cooked
    BY <1>2, <1>6, <2>1 DEF PollFound
  <2>2. CASE request.cooked
    <3>1. /\ emu = "polling" /\ emu' = "validating" /\ status' = status
          /\ request' = request /\ toc' = toc
      BY <1>6, <2>2 DEF PollFound
    <3>2. /\ Len(got) \in Nat /\ Len(got') = Len(got) + 1 /\ got' # << >>
          /\ \A i \in 1 .. Len(got) : got'[i] = got[i]
          /\ got'[Len(got')] \in ReadOf(toc, CurLba)
          /\ LastLba' = CurLba
      BY <1>6, PolledSector
    <3>3. /\ status = "none" /\ request \in Calls /\ Len(got) < request.sectors
          /\ \A i \in 1 .. Len(got) : got[i] = Sector(toc, request.first + (i - 1))
      BY <3>1 DEF CallInv
    <3>4. Len(got') <= request.sectors
      BY <3>2, <3>3, CallFacts
    <3>5. \A i \in 1 .. Len(got') - 1 : got'[i] = Sector(toc, request.first + (i - 1))
      <4>1. \A i \in 1 .. Len(got') - 1 : i \in 1 .. Len(got)
        BY <3>2
      <4> QED  BY <4>1, <3>2, <3>3
    <3>6. got'[Len(got')] \in ReadOf(toc', LastLba')
      BY <3>1, <3>2
    <3> QED  BY <2>2, <3>1, <3>2, <3>3, <3>4, <3>5, <3>6 DEF CallInv, Sector
  <2> QED  BY <2>1, <2>2
<1>7. CASE ValidateOk
  <2>1. CASE emu' = "idle"
    BY <1>2, <2>1
  <2>2. CASE emu' # "idle"
    <3>1. /\ emu = "validating" /\ emu' = "polling" /\ status' = status
          /\ request' = request /\ toc' = toc /\ got' = got
          /\ Len(got) < request.sectors /\ Mode(got[Len(got)]) \in {1, 2}
      BY <1>7, <2>2 DEF ValidateOk
    <3>2. /\ status = "none" /\ request \in Calls /\ request.cooked
          /\ \A i \in 1 .. Len(got) - 1 : got[i] = Sector(toc, request.first + (i - 1))
      BY <3>1 DEF CallInv
    <3>3. /\ Len(got) \in Nat \ {0}
          /\ got[Len(got)] = Sector(toc, request.first + (Len(got) - 1))
      BY <3>1, Validated
    <3>4. \A i \in 1 .. Len(got) : got[i] = Sector(toc, request.first + (i - 1))
      <4>1. \A i \in 1 .. Len(got) : i \in 1 .. Len(got) - 1 \/ i = Len(got)
        BY <3>3
      <4> QED  BY <4>1, <3>2, <3>3
    <3> QED  BY <3>1, <3>2, <3>4 DEF CallInv, Sector
  <2> QED  BY <2>1, <2>2
<1>8. ASSUME NEW r \in Calls, ReadRefused(r)  PROVE CallInv'
  BY <1>2, <1>8 DEF ReadRefused
<1>9. ASSUME NEW r \in Calls, ReadSend(r)  PROVE CallInv'
  <2>1. emu' = "polling" /\ status' = "none" /\ request' = r /\ got' = << >>
    BY <1>9 DEF ReadSend
  <2>2. Len(got') = 0 /\ Len(got') < r.sectors
    BY <2>1, CallFacts
  <2> QED  BY <2>1, <2>2 DEF CallInv
<1>10. ASSUME NEW lba \in Lbas, Hint(lba)  PROVE CallInv'
  BY <1>1, <1>10 DEF Hint
<1> QED
  BY <1>3, <1>4, <1>5, <1>6, <1>7, <1>8, <1>9, <1>10 DEF Next, EmuNext, EmuInCall

-----------------------------------------------------------------------------
(* Each step of the two threads is a step of the service or a stutter.     *)

Disc == IF InSession THEN toc ELSE NoDisc
Result == IF status = "ok" THEN got ELSE << >>
mapped == <<Phase, Disc, request, Result, status>>

LEMMA ReaderHidden ==
    ASSUME IInv, ReaderNext
    PROVE  UNCHANGED mapped
<1>1. UNCHANGED <<emu, callVars>>
  BY DEF ReaderNext, StartNoFile, StartBadTOC, StartOk, TakeReadSector, TakeDie,
     TakeNothing, Fetch
<1>2. toc' = toc \/ reader = "starting"
  BY DEF ReaderNext, StartNoFile, StartBadTOC, StartOk, TakeReadSector, TakeDie,
     TakeNothing, Fetch
<1>3. reader = "starting" => ~InSession
  BY DEF IInv, HandshakeInv, InSession, InLoop
<1>4. Disc' = Disc
  BY <1>1, <1>2, <1>3 DEF Disc, InSession
<1> QED  BY <1>1, <1>4 DEF mapped, callVars, Phase, Result

LEMMA OpenSteps ==
    ASSUME IInv, OpenBegin \/ OpenReply \/ OpenAbandon
    PROVE  Service!ServiceNext \/ UNCHANGED mapped
<1>1. UNCHANGED <<request, got, status, toc>> /\ Result' = Result
  BY DEF OpenBegin, OpenReply, OpenAbandon, callVars, Result
<1>2. CASE OpenBegin
  <2>1. emu = "closed" /\ emu' = "opening"
    BY <1>2 DEF OpenBegin
  <2>2. Service!Open
    BY <1>1, <2>1 DEF Service!Open, Phase, InSession, Result
  <2> QED  BY <2>2 DEF Service!ServiceNext
<1>3. CASE OpenReply
  <2>1. emu = "opening" /\ emu' \in {"idle", "joining"}
    BY <1>3 DEF OpenReply
  <2>2. CASE emu' = "joining"
    BY <1>1, <2>1, <2>2 DEF mapped, Phase, Disc, InSession, Result
  <2>3. CASE emu' = "idle"
    <3>1. EmuThreadQueue # << >> /\ Head(EmuThreadQueue).ok
      BY <1>3, <2>3 DEF OpenReply
    <3>2. \/ reader = "waiting" /\ toc \in Discs
          \/ EmuThreadQueue = <<INIT_DONE(FALSE)>>
      BY <2>1, <3>1 DEF IInv, HandshakeInv
    <3>3. toc \in Discs
      BY <3>1, <3>2 DEF INIT_DONE
    <3>4. Service!Opened
      BY <1>1, <2>1, <2>3, <3>3 DEF Service!Opened, Phase, InSession, Result
    <3> QED  BY <3>4 DEF Service!ServiceNext
  <2> QED  BY <2>1, <2>2, <2>3
<1>4. CASE OpenAbandon
  <2>1. emu = "joining" /\ emu' = "closed"
    BY <1>4 DEF OpenAbandon
  <2>2. Service!OpenFailed
    BY <1>1, <2>1 DEF Service!OpenFailed, Phase, InSession, Result
  <2> QED  BY <2>2 DEF Service!ServiceNext
<1> QED  BY <1>2, <1>3, <1>4

LEMMA CloseSteps ==
    ASSUME CloseBegin \/ CloseEnd
    PROVE  Service!ServiceNext
<1>1. UNCHANGED <<request, got, status, toc>> /\ Result' = Result
  BY DEF CloseBegin, CloseEnd, callVars, Result
<1>2. CASE CloseBegin
  <2>1. emu = "idle" /\ emu' = "closing"
    BY <1>2 DEF CloseBegin
  <2>2. Service!Close
    BY <1>1, <2>1 DEF Service!Close, Phase, InSession, Result
  <2> QED  BY <2>2 DEF Service!ServiceNext
<1>3. CASE CloseEnd
  <2>1. emu = "closing" /\ emu' = "closed"
    BY <1>3 DEF CloseEnd
  <2>2. Service!Closed
    BY <1>1, <2>1 DEF Service!Closed, Phase, InSession, Result
  <2> QED  BY <2>2 DEF Service!ServiceNext
<1> QED  BY <1>2, <1>3

\* A call begins, or is refused.
LEMMA BeginSteps ==
    ASSUME IInv, NEW r \in Calls, ReadRefused(r) \/ ReadSend(r)
    PROVE  Service!ServiceNext
<1>1. /\ emu = "idle" /\ request' = r /\ got' = << >> /\ toc' = toc
  BY DEF ReadRefused, ReadSend
<1>2. r \in Service!Requests
  BY CallFacts DEF Service!Requests
<1>3. CASE ReadRefused(r)
  <2>1. emu' = "idle" /\ status' = "failed" /\ r.first >= toc.leadout
    BY <1>1, <1>3 DEF ReadRefused
  <2>2. Service!Refuse
    BY <1>1, <1>2, <2>1 DEF Service!Refuse, Phase, InSession
  <2> QED  BY <2>2 DEF Service!ServiceNext
<1>4. CASE ReadSend(r)
  <2>1. emu' = "polling" /\ status' = "none" /\ r.first < toc.leadout
    BY <1>4 DEF ReadSend
  <2>2. Service!Request
    BY <1>1, <1>2, <2>1 DEF Service!Request, Phase, InSession
  <2> QED  BY <2>2 DEF Service!ServiceNext
<1> QED  BY <1>3, <1>4

\* A poll ends a raw read and is a stutter of a data read.
LEMMA PollStep ==
    ASSUME IInv, CallInv, PollFound
    PROVE  Service!ServiceNext \/ UNCHANGED mapped
<1>1. emu = "polling" /\ request' = request /\ toc' = toc /\ status = "none"
      /\ request \in Calls
  BY DEF PollFound, CallInv
<1>2. CASE request.cooked
  <2>1. emu' = "validating" /\ status' = status
    BY <1>2 DEF PollFound
  <2> QED  BY <1>1, <2>1 DEF mapped, Phase, Disc, InSession, Result
<1>3. CASE ~request.cooked
  <2>1. emu' = "idle" /\ status' = "ok"
    BY <1>3 DEF PollFound
  <2>2. got = << >> /\ request.sectors = 1 /\ request.first \in Nat
    BY <1>1, <1>3, CallFacts DEF CallInv
  <2>3. Len(got) = 0
    BY <2>2
  <2>4. Len(got') = 1 /\ got'[1] \in ReadOf(toc, request.first)
    <3>1. CurLba = request.first
      BY <2>2, <2>3 DEF CurLba
    <3>2. Len(got') = Len(got) + 1 /\ got'[Len(got')] \in ReadOf(toc, CurLba)
      BY PolledSector
    <3>3. Len(got') = 1
      BY <2>3, <3>2
    <3> QED  BY <3>1, <3>2, <3>3
  <2>5. \A i \in 1 .. request.sectors : i = 1
    BY <2>2
  <2>6. request.first + (1 - 1) = request.first
    BY <2>2
  <2>7. Service!Contents(request.first) = ReadOf(toc, request.first)
    BY <1>1, <1>3 DEF Service!Contents, Service!RawContents, Service!Sector, ReadOf, Sector,
       InSession
  <2>8. \A i \in 1 .. request.sectors : got'[i] \in Service!Contents(request.first + (i - 1))
    BY <2>4, <2>5, <2>6, <2>7
  <2>9. Service!Succeed
    BY <1>1, <2>1, <2>2, <2>4, <2>8 DEF Service!Succeed, Phase, InSession
  <2> QED  BY <2>9 DEF Service!ServiceNext
<1> QED  BY <1>2, <1>3

\* A data read ends with its last sector found good, past the end, or not good.
LEMMA ValidateSteps ==
    ASSUME IInv, CallInv, ValidateOk \/ ValidateFail
    PROVE  Service!ServiceNext \/ UNCHANGED mapped
<1>1. /\ emu = "validating" /\ request' = request /\ toc' = toc /\ got' = got
  BY DEF ValidateOk, ValidateFail
<1>2. /\ status = "none" /\ request.cooked /\ Len(got) <= request.sectors
      /\ \A i \in 1 .. Len(got) - 1 : got[i] = Sector(toc, request.first + (i - 1))
  BY <1>1 DEF CallInv
<1>3. /\ toc \in Discs /\ Len(got) \in Nat \ {0} /\ LastLba \in Nat
      /\ request.first \in Nat /\ request.sectors \in Nat
      /\ LastLba = request.first + (Len(got) - 1)
      /\ Mode(got[Len(got)]) \in {1, 2} => got[Len(got)] = Sector(toc, LastLba)
      /\ Mode(got[Len(got)]) \notin {1, 2} =>
           LastLba \in toc.bad \/ toc.mode[LastLba] \notin {1, 2}
  BY <1>1, Validated
<1>4. ASSUME emu' = "idle", status' = "failed",
             NEW i \in 1 .. request.sectors, Service!Unreadable(request.first + (i - 1))
      PROVE  Service!ServiceNext
  <2>1. Service!Fail
    BY <1>1, <1>2, <1>4 DEF Service!Fail, Phase, InSession
  <2> QED  BY <2>1 DEF Service!ServiceNext
<1>5. CASE emu' = "polling"
  <2>1. status' = status
    BY <1>5 DEF ValidateOk, ValidateFail
  <2> QED  BY <1>1, <1>2, <1>5, <2>1 DEF mapped, Phase, Disc, InSession, Result
<1>6. CASE ValidateFail
  <2>1. LastLba \in toc.bad \/ toc.mode[LastLba] \notin {1, 2}
    BY <1>3, <1>6 DEF ValidateFail
  <2>2. Service!Unreadable(LastLba)
    BY <1>1, <2>1 DEF Service!Unreadable, InSession
  <2>3. Len(got) \in 1 .. request.sectors
    BY <1>2, <1>3
  <2>4. emu' = "idle" /\ status' = "failed"
    BY <1>6 DEF ValidateFail
  <2> QED  BY <1>3, <1>4, <2>2, <2>3, <2>4
<1>7. CASE ValidateOk /\ Len(got) < request.sectors /\ CurLba >= toc.leadout
  <2>1. emu' = "idle" /\ status' = "failed"
    <3>1. CurLba \in Nat /\ toc.leadout \in Nat
      BY <1>3, CdAssumption DEF CurLba
    <3>2. ~(Len(got) = request.sectors) /\ ~(CurLba < toc.leadout)
      BY <3>1, <1>3, <1>7
    <3> QED  BY <3>2, <1>7 DEF ValidateOk
  <2>2. Len(got) + 1 \in 1 .. request.sectors
        /\ request.first + ((Len(got) + 1) - 1) = CurLba
    BY <1>3, <1>7 DEF CurLba
  <2>3. Service!Unreadable(CurLba)
    BY <1>1, <1>7 DEF Service!Unreadable, InSession
  <2> QED  BY <1>4, <2>1, <2>2, <2>3
<1>8. CASE ValidateOk /\ Len(got) = request.sectors
  <2>1. emu' = "idle" /\ status' = "ok" /\ Mode(got[Len(got)]) \in {1, 2}
    BY <1>8, <1>3 DEF ValidateOk
  <2>2. \A i \in 1 .. request.sectors : got[i] = Sector(toc, request.first + (i - 1))
    <3>1. \A i \in 1 .. request.sectors : i \in 1 .. Len(got) - 1 \/ i = Len(got)
      BY <1>3, <1>8
    <3> QED  BY <3>1, <1>2, <1>3, <2>1
  <2>3. \A i \in 1 .. request.sectors : got[i] \in Service!Contents(request.first + (i - 1))
    BY <1>1, <1>2, <2>2 DEF Service!Contents, Service!Sector, Sector, InSession
  <2>4. Service!Succeed
    BY <1>1, <1>8, <2>1, <2>3 DEF Service!Succeed, Phase, InSession
  <2> QED  BY <2>4 DEF Service!ServiceNext
<1> QED  BY <1>5, <1>6, <1>7, <1>8, <1>3 DEF ValidateOk

LEMMA ServiceStep == IInv /\ CallInv /\ [Next]_vars => Service!ServiceNext \/ UNCHANGED mapped
<1> SUFFICES ASSUME IInv, CallInv, [Next]_vars
             PROVE  Service!ServiceNext \/ UNCHANGED mapped
  OBVIOUS
<1>1. CASE UNCHANGED vars
  BY <1>1 DEF vars, callVars, mapped, Phase, Disc, InSession, Result
<1>2. CASE ReaderNext
  BY <1>2, ReaderHidden
<1>3. CASE OpenBegin \/ OpenReply \/ OpenAbandon
  BY <1>3, OpenSteps
<1>4. CASE CloseBegin \/ CloseEnd
  BY <1>4, CloseSteps
<1>5. CASE \E r \in Calls : ReadRefused(r) \/ ReadSend(r)
  BY <1>5, BeginSteps
<1>6. CASE \E lba \in Lbas : Hint(lba)
  BY <1>6 DEF Hint, callVars, mapped, Phase, Disc, InSession, Result
<1>7. CASE PollFound
  BY <1>7, PollStep
<1>8. CASE ValidateOk \/ ValidateFail
  BY <1>8, ValidateSteps
<1> QED
  BY <1>1, <1>2, <1>3, <1>4, <1>5, <1>6, <1>7, <1>8 DEF Next, EmuNext, EmuInCall

\* cdromif.cpp as its caller sees it: for every disc, buffer and read-ahead
\* limit, a read returns the sectors asked for, of the disc of its session and
\* in order, and fails only for a reason to be found on the disc.
THEOREM ReadsAreServed == Spec => ImplementsService
<1>1. Init => Service!ServiceInit
  BY DEF Init, Service!ServiceInit, Phase, InSession
<1>2. IInv /\ CallInv /\ [Next]_vars => [Service!ServiceNext]_(Service!serviceVars)
  BY ServiceStep DEF Service!serviceVars, mapped, Disc, Result
<1>3. Spec => []CallInv
  <2>1. IInv /\ CallInv /\ [Next]_vars => CallInv'
    BY StepCall
  <2> QED  BY InitCall, <2>1, InductiveInvariant, PTL DEF Spec
<1> QED
  BY <1>1, <1>2, <1>3, InductiveInvariant, PTL DEF Spec, ImplementsService, Service!ServiceSpec
=============================================================================
