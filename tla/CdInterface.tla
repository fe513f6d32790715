---------------------------- MODULE CdInterface ----------------------------
(***************************************************************************)
(* mednafen/cdrom/cdromif.cpp: the CD interface.  The emulation thread     *)
(* asks for sectors by sending messages to a reader thread, which reads    *)
(* ahead of a sequential stream and leaves every sector it has read in a   *)
(* circular buffer that the emulation thread polls.  The two threads share *)
(* two message queues and the buffer, each under a mutex; everything else  *)
(* belongs to one of them.                                                 *)
(*                                                                         *)
(* A step of the model is what one thread does between two of its          *)
(* acquisitions of a mutex.                                                *)
(***************************************************************************)
EXTENDS Integers, Sequences

CONSTANTS Discs,        \* the discs that may be in the drive
          NoDisc,       \* no table of contents has been read
          Blank,        \* the zeroed contents stored after a failed read
          SBSize,       \* slots of the sector buffer (256)
          max_ra,       \* furthest the reader may read ahead (16)
          MaxPending,   \* bound: messages the emulation thread leaves unread
          MaxSectors    \* bound: longest CDIF_ReadSector

\* The code asserts max_ra < SBSize / 4; the buffer needs far less.
ASSUME CdAssumption ==
    /\ SBSize \in Nat /\ max_ra \in Nat
    /\ max_ra > 0
    /\ max_ra + 1 <= SBSize
    /\ MaxPending \in Nat \ {0} /\ MaxSectors \in Nat \ {0}
    /\ \A d \in Discs : d.leadout \in Nat /\ d.bad \subseteq Nat
    /\ NoDisc \notin Discs

\* Contents stand for where they come from: the zeros of a failed read are those
\* of no sector.
ASSUME BlankAssumption == Blank \notin Discs \X Nat

initial_ra == 1
speedmult_ra == 2

VARIABLES
    emu,             \* where the emulation thread is in the interface
    request,         \* the latest read call: first LBA, sectors, data or raw
    got,             \* the sectors it has copied out
    status,          \* what it returned
    toc,             \* the disc whose table of contents was read last
    ReadThreadQueue, \* messages to the reader thread
    EmuThreadQueue,  \* messages to the emulation thread
    SectorBuffers,   \* the circular buffer
    SBWritePos,      \* where the reader writes next
    live,            \* which of the shared objects are allocated
    reader,          \* where the reader thread is
    Running,         \* the reader has seen no CDIF_MSG_DIEDIEDIE
    ra_lba,          \* the next sector to read ahead
    ra_count,        \* how many sectors are still to be read
    last_read_lba,   \* the sector last asked for
    p_cdrfile        \* the image or drive is open

callVars == <<request, got, status>>
queues == <<ReadThreadQueue, EmuThreadQueue>>
ring == <<SectorBuffers, SBWritePos>>
readAhead == <<ra_lba, ra_count, last_read_lba>>
readerVars == <<reader, Running, p_cdrfile>>
vars == <<emu, callVars, toc, queues, ring, live, readerVars, readAhead>>

Slots == 0 .. SBSize - 1
Sector(d, lba) == <<d, lba>>
EmptySlot == [valid |-> FALSE, lba |-> 0, data |-> Blank]

INIT_DONE(ok) == [message |-> "INIT_DONE", ok |-> ok]
READ_SECTOR(lba) == [message |-> "READ_SECTOR", lba |-> lba]
DIEDIEDIE == [message |-> "DIEDIEDIE"]

Init ==
    /\ emu = "closed" /\ reader = "none"
    /\ request = [first |-> 0, sectors |-> 0, cooked |-> FALSE]
    /\ got = << >> /\ status = "none"
    /\ toc = NoDisc
    /\ ReadThreadQueue = << >> /\ EmuThreadQueue = << >>
    /\ SectorBuffers = [i \in Slots |-> EmptySlot] /\ SBWritePos = 0
    /\ live = {}
    /\ Running = TRUE /\ p_cdrfile = FALSE
    /\ ra_lba = 0 /\ ra_count = 0 /\ last_read_lba = -1

-----------------------------------------------------------------------------
(* CDIF_Open: the emulation thread's half.                                 *)

\* Variant: the old buffer is kept.
OpenBeginKeepsBuffers ==
    /\ emu = "closed"
    /\ emu' = "opening"
    /\ ReadThreadQueue' = << >> /\ EmuThreadQueue' = << >>
    /\ live' = {"queues", "buffers"}
    /\ ra_lba' = 0 /\ ra_count' = 0 /\ last_read_lba' = -1
    /\ reader' = "starting" /\ Running' = TRUE
    /\ UNCHANGED <<callVars, toc, ring, p_cdrfile>>

OpenBegin ==
    /\ emu = "closed"
    /\ emu' = "opening"
    /\ ReadThreadQueue' = << >> /\ EmuThreadQueue' = << >>
    /\ SectorBuffers' = [i \in Slots |-> EmptySlot] /\ SBWritePos' = 0
    /\ live' = {"queues", "buffers"}
    /\ ra_lba' = 0 /\ ra_count' = 0 /\ last_read_lba' = -1
    /\ reader' = "starting" /\ Running' = TRUE
    /\ UNCHANGED <<callVars, toc, p_cdrfile>>

\* The blocking read of the reader's CDIF_MSG_INIT_DONE.
OpenReply ==
    /\ emu = "opening"
    /\ EmuThreadQueue # << >>
    /\ emu' = IF Head(EmuThreadQueue).ok THEN "idle" ELSE "joining"
    /\ EmuThreadQueue' = Tail(EmuThreadQueue)
    /\ UNCHANGED <<callVars, toc, ReadThreadQueue, ring, live, readerVars, readAhead>>

\* After a failure: wait for the thread, then delete the queues and not the buffers.
OpenAbandon ==
    /\ emu = "joining"
    /\ reader = "exited"
    /\ emu' = "closed"
    /\ live' = live \ {"queues"}
    /\ UNCHANGED <<callVars, toc, queues, ring, readerVars, readAhead>>

(* ReadThreadStart, up to its CDIF_MSG_INIT_DONE.                          *)

\* cdrfile_open fails.
StartNoFile ==
    /\ reader = "starting"
    /\ p_cdrfile' = FALSE
    /\ EmuThreadQueue' = Append(EmuThreadQueue, INIT_DONE(FALSE))
    /\ reader' = "exited"
    /\ UNCHANGED <<emu, callVars, toc, ReadThreadQueue, ring, live, Running, readAhead>>

\* The table of contents is unreadable or its track numbers are bad: p_cdrfile stays open.
StartBadTOC ==
    /\ reader = "starting"
    /\ p_cdrfile' = TRUE
    /\ toc' = NoDisc
    /\ EmuThreadQueue' = Append(EmuThreadQueue, INIT_DONE(FALSE))
    /\ reader' = "exited"
    /\ UNCHANGED <<emu, callVars, ReadThreadQueue, ring, live, Running, readAhead>>

StartOk ==
    /\ reader = "starting"
    /\ p_cdrfile' = TRUE
    /\ toc' \in Discs
    /\ EmuThreadQueue' = Append(EmuThreadQueue, INIT_DONE(TRUE))
    /\ reader' = "waiting"
    /\ UNCHANGED <<emu, callVars, ReadThreadQueue, ring, live, Running, readAhead>>

-----------------------------------------------------------------------------
(* The reader's loop.  "waiting" is its queue read, "fetching" the rest.   *)

\* Variant: any later sector counts as sequential.
SequentialIfLater(lba) == lba > last_read_lba

Sequential(lba) == lba = last_read_lba + 1

\* How many sectors to read for a request how_far_ahead sectors behind ra_lba.
SequentialCount(how_far_ahead) ==
    IF how_far_ahead > max_ra THEN ra_count + 1
    ELSE IF speedmult_ra <= 1 + max_ra - how_far_ahead THEN speedmult_ra
    ELSE 1 + max_ra - how_far_ahead

\* Variants: no check, and one that stops a sector early.
NoEndCheck(lba, count) == count
UnlessNearEnd(lba, count) == IF lba + 1 >= toc.leadout THEN 0 ELSE count

\* The reader does not read the lead-out.
UnlessAtEnd(lba, count) == IF lba = toc.leadout THEN 0 ELSE count

TakeReadSector ==
    /\ reader = "waiting"
    /\ ReadThreadQueue # << >>
    /\ Head(ReadThreadQueue).message = "READ_SECTOR"
    /\ LET new_lba == Head(ReadThreadQueue).lba
           count == IF Sequential(new_lba)
                    THEN SequentialCount(ra_lba - new_lba) ELSE initial_ra
       IN  /\ ra_lba' = IF Sequential(new_lba) THEN ra_lba ELSE new_lba
           /\ ra_count' = UnlessAtEnd(ra_lba', count)
           /\ last_read_lba' = new_lba
    /\ ReadThreadQueue' = Tail(ReadThreadQueue)
    /\ reader' = "fetching"
    /\ UNCHANGED <<emu, callVars, toc, EmuThreadQueue, ring, live, Running, p_cdrfile>>

\* The iteration that takes the last message still reads one sector ahead.
TakeDie ==
    /\ reader = "waiting"
    /\ ReadThreadQueue # << >>
    /\ Head(ReadThreadQueue).message = "DIEDIEDIE"
    /\ Running' = FALSE
    /\ ra_count' = UnlessAtEnd(ra_lba, ra_count)
    /\ ReadThreadQueue' = Tail(ReadThreadQueue)
    /\ reader' = "fetching"
    /\ UNCHANGED <<emu, callVars, toc, EmuThreadQueue, ring, live, p_cdrfile,
                   ra_lba, last_read_lba>>

\* Only while sectors are left to read ahead does an empty queue not block the reader.
TakeNothing ==
    /\ reader = "waiting"
    /\ ReadThreadQueue = << >>
    /\ ra_count > 0
    /\ ra_count' = UnlessAtEnd(ra_lba, ra_count)
    /\ reader' = "fetching"
    /\ UNCHANGED <<emu, callVars, toc, queues, ring, live, Running, p_cdrfile,
                   ra_lba, last_read_lba>>

\* Variants: no wrap, and a wrap one slot early.
NextPosNoWrap == SBWritePos + 1
NextPosEarly == IF SBWritePos + 2 >= SBSize THEN 0 ELSE SBWritePos + 1

\* (SBWritePos + 1) % SBSize, with SBWritePos \in Slots.
NextPos == IF SBWritePos + 1 = SBSize THEN 0 ELSE SBWritePos + 1

\* What a read of a sector may give: a bad one may fail, and is then all zeros.
ReadOf(d, lba) == IF lba \in d.bad THEN {Sector(d, lba), Blank} ELSE {Sector(d, lba)}

\* A failed read is stored as valid all the same.
StoreSector(data) ==
    /\ SectorBuffers' = [SectorBuffers EXCEPT ![SBWritePos] =
                            [valid |-> TRUE, lba |-> ra_lba, data |-> data]]
    /\ SBWritePos' = NextPos
    /\ ra_lba' = ra_lba + 1
    /\ ra_count' = ra_count - 1

\* Back to the queue, or out of the loop after CDIF_MSG_DIEDIEDIE.
LoopOrExit ==
    /\ reader' = IF Running THEN "waiting" ELSE "exited"
    /\ p_cdrfile' = (Running /\ p_cdrfile)

Fetch ==
    /\ reader = "fetching"
    /\ \/ /\ ra_count > 0
          /\ \E data \in ReadOf(toc, ra_lba) : StoreSector(data)
       \/ /\ ra_count = 0
          /\ UNCHANGED <<ring, ra_lba, ra_count>>
    /\ LoopOrExit
    /\ UNCHANGED <<emu, callVars, toc, queues, live, Running, last_read_lba>>

-----------------------------------------------------------------------------
(* Reads: CDIF_ReadRawSector, CDIF_ReadSector, CDIF_HintReadSector.        *)

Lbas == UNION {0 .. d.leadout : d \in Discs}
Calls == [first : Lbas, sectors : {1}, cooked : {FALSE}]
         \union [first : Lbas, sectors : 1 .. MaxSectors, cooked : {TRUE}]

CanSend == Len(ReadThreadQueue) < MaxPending

\* A read at or past the lead-out is refused before anything is sent.
ReadRefused(r) ==
    /\ emu = "idle"
    /\ r.first >= toc.leadout
    /\ request' = r /\ got' = << >> /\ status' = "failed"
    /\ UNCHANGED <<emu, toc, queues, ring, live, readerVars, readAhead>>

ReadSend(r) ==
    /\ emu = "idle"
    /\ r.first < toc.leadout
    /\ CanSend
    /\ request' = r /\ got' = << >> /\ status' = "none"
    /\ ReadThreadQueue' = Append(ReadThreadQueue, READ_SECTOR(r.first))
    /\ emu' = "polling"
    /\ UNCHANGED <<toc, EmuThreadQueue, ring, live, readerVars, readAhead>>

\* The LBA the call is at, and the one whose sector it copied out last.
CurLba == request.first + Len(got)
LastLba == request.first + (Len(got) - 1)

\* Variant: the valid flag is not looked at.
HoldsUnchecked(i, lba) == SectorBuffers[i].lba = lba

Holds(i, lba) == SectorBuffers[i].valid /\ SectorBuffers[i].lba = lba

\* The scan copies out every match, so the one with the highest index stays.
LastMatch(i, lba) == Holds(i, lba) /\ \A j \in Slots : Holds(j, lba) => j <= i

\* One scan of the buffer under SBMutex that finds the sector.
PollFound ==
    /\ emu = "polling"
    /\ \E i \in Slots :
         /\ LastMatch(i, CurLba)
         /\ got' = Append(got, SectorBuffers[i].data)
    /\ IF request.cooked
       THEN emu' = "validating" /\ status' = status
       ELSE emu' = "idle" /\ status' = "ok"
    /\ UNCHANGED <<request, toc, queues, ring, live, readerVars, readAhead>>

\* The mode byte of a sector; that of zeros is 0.
Mode(data) == IF data = Blank THEN 0 ELSE data[1].mode[data[2]]

\* CDIF_ValidateRawSector: only modes 1 and 2, and a bad sector of these
\* may be found uncorrectable.
ValidateOk ==
    /\ emu = "validating"
    /\ Mode(got[Len(got)]) \in {1, 2}
    /\ \/ /\ Len(got) = request.sectors
          /\ emu' = "idle" /\ status' = "ok"
          /\ UNCHANGED ReadThreadQueue
       \/ /\ Len(got) < request.sectors /\ CurLba < toc.leadout
          /\ emu' = "polling" /\ status' = status
          /\ ReadThreadQueue' = Append(ReadThreadQueue, READ_SECTOR(CurLba))
       \/ /\ Len(got) < request.sectors /\ CurLba >= toc.leadout
          /\ emu' = "idle" /\ status' = "failed"
          /\ UNCHANGED ReadThreadQueue
    /\ UNCHANGED <<request, got, toc, EmuThreadQueue, ring, live, readerVars, readAhead>>

ValidateFail ==
    /\ emu = "validating"
    /\ Mode(got[Len(got)]) \notin {1, 2} \/ LastLba \in toc.bad
    /\ emu' = "idle" /\ status' = "failed"
    /\ UNCHANGED <<request, got, toc, queues, ring, live, readerVars, readAhead>>

\* The drive emulation hints only below the lead-out (DoPABase, DoREADBase, SAPSP).
Hint(lba) ==
    /\ emu = "idle"
    /\ lba < toc.leadout
    /\ CanSend
    /\ ReadThreadQueue' = Append(ReadThreadQueue, READ_SECTOR(lba))
    /\ UNCHANGED <<emu, callVars, toc, EmuThreadQueue, ring, live, readerVars, readAhead>>

-----------------------------------------------------------------------------
(* CDIF_Close.                                                             *)

CloseBegin ==
    /\ emu = "idle"
    /\ ReadThreadQueue' = Append(ReadThreadQueue, DIEDIEDIE)
    /\ emu' = "closing"
    /\ UNCHANGED <<callVars, toc, EmuThreadQueue, ring, live, readerVars, readAhead>>

\* Variant: MDFND_WaitThread is missing.
CloseEndNoJoin ==
    /\ emu = "closing"
    /\ live' = {}
    /\ emu' = "closed"
    /\ UNCHANGED <<callVars, toc, queues, ring, readerVars, readAhead>>

CloseEnd ==
    /\ emu = "closing"
    /\ reader = "exited"
    /\ live' = {}
    /\ emu' = "closed"
    /\ UNCHANGED <<callVars, toc, queues, ring, readerVars, readAhead>>

-----------------------------------------------------------------------------
ReaderNext ==
    \/ StartNoFile \/ StartBadTOC \/ StartOk
    \/ TakeReadSector \/ TakeDie \/ TakeNothing
    \/ Fetch

\* Steps the emulation thread takes inside a call; the others begin a call.
EmuInCall ==
    \/ OpenReply \/ OpenAbandon
    \/ PollFound \/ ValidateOk \/ ValidateFail
    \/ CloseEnd

EmuNext ==
    \/ OpenBegin \/ CloseBegin
    \/ \E r \in Calls : ReadRefused(r) \/ ReadSend(r)
    \/ \E lba \in Lbas : Hint(lba)
    \/ EmuInCall

Next == ReaderNext \/ EmuNext

\* Both threads keep running; nobody has to call the interface.
Fairness == WF_vars(ReaderNext) /\ WF_vars(EmuInCall)

Spec == Init /\ [][Next]_vars /\ Fairness

-----------------------------------------------------------------------------
Messages == [message : {"READ_SECTOR"}, lba : Nat] \union {DIEDIEDIE}
Replies == [message : {"INIT_DONE"}, ok : BOOLEAN]
Contents == {Blank} \union (Discs \X Nat)
SlotType == [valid : BOOLEAN, lba : Nat, data : Contents]
Requests == [first : Nat, sectors : Nat, cooked : BOOLEAN]

\* The types of the variables of cdromif.cpp's two threads.
TypeOK ==
    /\ emu \in {"closed", "opening", "joining", "idle", "polling", "validating", "closing"}
    /\ request \in Requests /\ got \in Seq(Contents)
    /\ status \in {"none", "ok", "failed"}
    /\ toc \in Discs \union {NoDisc}
    /\ ReadThreadQueue \in Seq(Messages) /\ EmuThreadQueue \in Seq(Replies)
    /\ SectorBuffers \in [Slots -> SlotType] /\ SBWritePos \in Slots
    /\ live \subseteq {"queues", "buffers"}
    /\ reader \in {"none", "starting", "waiting", "fetching", "exited"}
    /\ Running \in BOOLEAN /\ p_cdrfile \in BOOLEAN
    /\ ra_lba \in Nat /\ ra_count \in Nat
    /\ last_read_lba \in Int /\ last_read_lba >= -1

\* A session is under way, and the emulation thread may use its disc.
InSession == emu \in {"idle", "polling", "validating", "closing"}

\* No thread uses what CDIF_Close or a failed CDIF_Open has freed: while the
\* reader runs the queues exist, in its loop the buffers and the open image do
\* too, and CDIF_ValidateRawSector, in the emulation thread, finds the image
\* (p_cdrfile belongs to the reader) still open.
NoUseAfterFree ==
    /\ reader \in {"starting", "waiting", "fetching"} => "queues" \in live
    /\ reader \in {"waiting", "fetching"} => "buffers" \in live /\ p_cdrfile
    /\ emu \in {"idle", "polling", "validating"} => live = {"queues", "buffers"}
    /\ emu = "validating" => p_cdrfile

\* assert(how_far_ahead >= 0) never fires, and the branch for a reader further
\* ahead than max_ra is never taken: a sequential request finds the reader
\* between 0 and max_ra sectors ahead, whatever was hinted before.
HowFarAheadInRange ==
    (/\ reader = "waiting" /\ ReadThreadQueue # << >>
     /\ Head(ReadThreadQueue).message = "READ_SECTOR"
     /\ Sequential(Head(ReadThreadQueue).lba))
        => ra_lba - Head(ReadThreadQueue).lba \in 0 .. max_ra

Resident(lba) == \E i \in Slots : Holds(i, lba)

\* Everything from the sector last asked for up to the read-ahead position is
\* still in the circular buffer, so a sequential request the reader skips
\* reading (it is behind ra_lba) is not one it has already overwritten.
ReadAheadResident ==
    reader = "waiting" =>
        \A lba \in last_read_lba .. ra_lba - 1 : lba >= 0 => Resident(lba)

\* A caller polling in CDIF_ReadRawSector is never forgotten: its sector is in
\* the buffer, or its message is still queued, or the reader is about to read it.
RequestInFlight ==
    emu = "polling" =>
        \/ Resident(CurLba)
        \/ \E k \in 1 .. Len(ReadThreadQueue) : ReadThreadQueue[k] = READ_SECTOR(CurLba)
        \/ reader = "fetching" /\ ra_count > 0 /\ ra_lba = CurLba

\* The buffer holds nothing of an earlier disc, nothing past the lead-out, and
\* zeros only where a read can have failed.
BufferHoldsThisDisc ==
    InSession =>
        \A i \in Slots : SectorBuffers[i].valid =>
            /\ SectorBuffers[i].lba < toc.leadout
            /\ SectorBuffers[i].data \in ReadOf(toc, SectorBuffers[i].lba)

-----------------------------------------------------------------------------
(* The interface implements the read service of module DiscService.        *)

Phase ==
    CASE emu \in {"opening", "joining"} -> "opening"
      [] emu \in {"polling", "validating"} -> "busy"
      [] OTHER -> emu

Service == INSTANCE DiscService WITH
    phase <- Phase,
    disc <- IF InSession THEN toc ELSE NoDisc,
    got <- IF status = "ok" THEN got ELSE << >>

\* Every call does what the read service promises: a read returns the sectors
\* asked for, of this disc, in order, and fails only for a reason on the disc.
ImplementsService == Service!ServiceSpec

\* Every CDIF_Open, read and CDIF_Close returns, although the emulation thread
\* polls and joins without a time limit.
ServiceCallsReturn == Service!CallsReturn
=============================================================================
