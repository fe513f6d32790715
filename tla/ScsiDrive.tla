----------------------------- MODULE ScsiDrive -----------------------------
(***************************************************************************)
(* The SCSI CD drive of the PC Engine and the PC-FX (mednafen/cdrom/       *)
(* scsicd.cpp) with the initiator that talks to it (cdrom/pcecd.cpp,       *)
(* pcfx/king.cpp).  The initiator changes its signals, or time passes, and *)
(* the drive runs once (SCSICD_Run): first the reader of sectors           *)
(* (RunCDRead), then the sound (RunCDDA), then the phase of the bus.  pc   *)
(* is where that call is: "bus" between calls, "read" at its start,        *)
(* "phase" at the switch on CurrentPhase.                                  *)
(*                                                                         *)
(* A byte is a tuple that says what it is: <<"cmd", n>>, <<"data", sector, *)
(* offset>>, <<"sense">>, <<"out">>, <<"status", s>>, <<"message">>.  *)
(* A command has 3 bytes (opcode, address, count) where the real ones have *)
(* 6, and 5 where they have 10 or 12; its bytes are numbers, so that one   *)
(* put together from the wrong bytes is still some command.                *)
(***************************************************************************)
EXTENDS Integers, Sequences

CONSTANTS Systems,       \* the consoles: subset of {"PCE", "PCFX"}
          Commands,      \* the commands a game sends
          SectorSize,    \* bytes of data in a sector (2048)
          RawSize,       \* room the PC-FX wants for one (2352)
          FxFifoSize,    \* size of its FIFO (65536; the PC Engine's: 2048)
          LeadOut,       \* number of sectors of the disc
          AudioSectors,  \* those of its audio tracks
          ZeroCount,     \* sectors a READ(6) of 0 asks for (256)
          MaxEvents      \* bound: resets, aborts, ejections, states loaded

TestUnitReady == 0
RequestSense == 1
Read6 == 2
ModeSelect == 3
Read10 == 4
Play == 5
Opcodes == TestUnitReady .. Play

\* The length of a command, by the group its first byte belongs to.
RequiredCDBLen(byte) == IF byte >= Read10 THEN 5 ELSE 3

ASSUME DriveAssumption ==
    /\ Systems \subseteq {"PCE", "PCFX"}
    /\ SectorSize \in Nat \ {0} /\ RawSize \in Nat /\ RawSize >= SectorSize
    /\ FxFifoSize \in Nat /\ FxFifoSize >= RawSize
    /\ LeadOut \in Nat /\ ZeroCount \in Nat \ {0}
    /\ AudioSectors \subseteq 0 .. LeadOut - 1
    /\ Commands \subseteq Seq(Nat)
    /\ \A cdb \in Commands : cdb # <<>> /\ Len(cdb) = RequiredCDBLen(cdb[1])
    /\ MaxEvents \in Nat

VARIABLES
    pc,                         \* where SCSICD_Run is
    system,                     \* WhichSystem
    phase, req, db,             \* CurrentPhase, REQ, the data bus
    ack, sel, atn, rst,         \* the initiator's signals
    lastRst,                    \* last_RST_signal
    din,                        \* the FIFO towards the initiator
    commandBuffer,              \* command_buffer, up to command_buffer_pos
    dataPos, dataSize,          \* data_out_pos, data_out_size
    timer,                      \* CDReadTimer > 0
    sectorAddr, sectorCount, transferDone,
    statusSent, messageSent, trayOpen, discChanged,
    cdda,                       \* CDDAStatus
    cmd, sent,                  \* the initiator's command, bytes of it sent
    held,                       \* the byte it has read and not yet acknowledged
    got, told,                  \* the data and the status it has taken
    cut,      \* history: a command was cut short since one was carried out
    spoiled,  \* history: the one carried out came after such a cut
    clash,    \* history: an error came while a byte was on the bus
    lost,     \* history: a state with a full FIFO was loaded
    events                      \* bound

bus == <<phase, req, db>>
initiator == <<ack, sel, atn, rst>>
reader == <<timer, sectorAddr, sectorCount, transferDone>>
sending == <<statusSent, messageSent>>
output == <<dataPos, dataSize>>
medium == <<trayOpen, discChanged>>
game == <<cmd, sent, held, got, told>>
history == <<cut, spoiled, clash, lost>>
drive == <<lastRst, din, commandBuffer, output, reader, sending, cdda>>
vars == <<pc, system, bus, initiator, drive, medium, game, history, events>>

\* What a run seldom changes: all that is not the drive's, and its commands.
outside == <<system, initiator, medium, game, events>>
work == <<commandBuffer, output, reader, cdda>>

Phases == {"BUS_FREE", "COMMAND", "DATA_IN", "DATA_OUT",
           "STATUS", "MESSAGE_IN", "MESSAGE_OUT"}
FifoSize == IF system = "PCE" THEN SectorSize ELSE FxFifoSize
SectorData(sector) == [i \in 1 .. SectorSize |-> <<"data", sector, i>>]

\* (mutants: any room will do; there has to be more than the sector needs)
SomeRoom == Len(din) < FifoSize
RoomToSpare == FifoSize - Len(din) > IF system = "PCE" THEN SectorSize ELSE RawSize

\* RunCDRead waits until the FIFO has room for a sector.
Room == FifoSize - Len(din) >= IF system = "PCE" THEN SectorSize ELSE RawSize

Init ==
    /\ pc = "bus" /\ system \in Systems
    /\ phase = "BUS_FREE" /\ req = FALSE /\ db = <<"message">>
    /\ ack = FALSE /\ sel = FALSE /\ atn = FALSE /\ rst = FALSE /\ lastRst = FALSE
    /\ din = <<>> /\ commandBuffer = <<>> /\ dataPos = 0 /\ dataSize = 0
    /\ timer = FALSE /\ sectorAddr = 0 /\ sectorCount = 0 /\ transferDone = FALSE
    /\ statusSent = FALSE /\ messageSent = FALSE
    /\ trayOpen = FALSE /\ discChanged = FALSE /\ cdda = "STOPPED"
    /\ cmd = <<>> /\ sent = 0 /\ held = <<>> /\ got = <<>> /\ told = "NONE"
    /\ cut = FALSE /\ spoiled = FALSE /\ clash = FALSE /\ lost = FALSE
    /\ events = 0

-----------------------------------------------------------------------------
\* The initiator.  Every change of its signals is followed by a run.

Runs == pc = "bus" /\ pc' = "read"

\* The game begins a command.
Select(cdb) ==
    /\ Runs
    /\ phase = "BUS_FREE" /\ ~ack /\ ~rst /\ ~sel
    /\ sel' = TRUE
    /\ cmd' = cdb /\ sent' = 0 /\ held' = <<>> /\ got' = <<>> /\ told' = "NONE"
    /\ clash' = FALSE /\ lost' = FALSE
    /\ UNCHANGED <<system, bus, ack, atn, rst, drive, medium, cut, spoiled,
                   events>>

Deselect ==
    /\ Runs
    /\ sel /\ phase # "BUS_FREE"
    /\ sel' = FALSE
    /\ UNCHANGED <<system, bus, ack, atn, rst, drive, medium, game, history,
                   events>>

\* It puts a byte on the bus and raises ACK, as the drive has asked: the
\* next byte of its command, a parameter, or the message of an abort.
Put ==
    /\ Runs
    /\ req /\ ~ack /\ ~sel
    /\ \/ /\ phase = "COMMAND" /\ sent < Len(cmd)
          /\ db' = <<"cmd", cmd[sent + 1]>> /\ sent' = sent + 1 /\ UNCHANGED atn
       \/ /\ phase = "DATA_OUT"
          /\ db' = <<"out">> /\ UNCHANGED <<sent, atn>>
       \/ /\ phase = "MESSAGE_OUT"
          /\ db' = <<"out">> /\ atn' = FALSE /\ UNCHANGED sent
    /\ ack' = TRUE
    /\ UNCHANGED <<system, phase, req, sel, rst, drive, medium, cmd, held,
                   got, told, history, events>>

\* It reads the byte the drive has put there...
Latch ==
    /\ pc = "bus" /\ phase \in {"DATA_IN", "STATUS", "MESSAGE_IN"} /\ req /\ ~ack
    /\ held = <<>>
    /\ held' = db
    /\ UNCHANGED <<pc, system, bus, initiator, drive, medium, cmd, sent, got,
                   told, history, events>>

\* Its command has come to an end, or it drops it.
GameForgets ==
    cmd' = <<>> /\ sent' = 0 /\ held' = <<>> /\ got' = <<>> /\ told' = "NONE"

\* ...and acknowledges it, which is another access.
Take ==
    /\ Runs
    /\ held # <<>>
    /\ ack' = TRUE
    /\ IF held = <<"message">>
       THEN GameForgets
       ELSE /\ held' = <<>>
            /\ IF held[1] = "status"
               THEN told' = held[2] /\ UNCHANGED got
               ELSE got' = Append(got, held) /\ UNCHANGED told
            /\ UNCHANGED <<cmd, sent>>
    /\ UNCHANGED <<system, bus, sel, atn, rst, drive, medium, history,
                   events>>

LowerAck ==
    /\ Runs
    /\ ack /\ ~req
    /\ ack' = FALSE
    /\ UNCHANGED <<system, bus, sel, atn, rst, drive, medium, game, history,
                   events>>

\* The PC-FX can ask to send a message, which the drive takes for an abort.
RaiseAttention ==
    /\ Runs
    /\ system = "PCFX" /\ phase # "BUS_FREE" /\ ~atn /\ ~sel
    /\ events < MaxEvents
    /\ atn' = TRUE
    /\ events' = events + 1
    /\ UNCHANGED <<system, bus, ack, sel, rst, drive, medium, game, history>>

\* A reset, though not while it selects the drive; the initiator drops what it
\* was doing.
ResetOn ==
    /\ Runs
    /\ ~rst /\ ~sel /\ events < MaxEvents
    /\ rst' = TRUE
    /\ GameForgets
    /\ events' = events + 1
    /\ UNCHANGED <<system, bus, ack, sel, atn, drive, medium, history>>

\* On the PC-FX all the signals are in one register, which is written with
\* zeros.
ResetOff ==
    /\ Runs
    /\ rst
    /\ rst' = FALSE
    /\ IF system = "PCFX" THEN ack' = FALSE /\ atn' = FALSE
                          ELSE UNCHANGED <<ack, atn>>
    /\ UNCHANGED <<system, bus, sel, drive, medium, game, history, events>>

\* The drive runs without a change of the signals: when its next event is
\* due, and at least once a frame.
TimePasses ==
    /\ Runs
    /\ UNCHANGED <<outside, bus, drive, history>>

-----------------------------------------------------------------------------
\* The front end: the disc of a PC-FX is taken out and put back, and states
\* are loaded.

Eject ==
    /\ pc = "bus" /\ system = "PCFX" /\ ~trayOpen /\ events < MaxEvents
    /\ trayOpen' = TRUE
    /\ events' = events + 1
    /\ UNCHANGED <<pc, system, bus, initiator, drive, discChanged, game,
                   history>>

Insert ==
    /\ pc = "bus" /\ trayOpen
    /\ trayOpen' = FALSE /\ discChanged' = TRUE
    /\ UNCHANGED <<pc, system, bus, initiator, drive, game, history, events>>

\* The state just saved is loaded: in_count is masked with size - 1, which
\* takes a full FIFO for an empty one.
SaveAndLoadState ==
    /\ pc = "bus" /\ events < MaxEvents
    /\ din' = IF Len(din) = FifoSize THEN <<>> ELSE din
    /\ lost' = (lost \/ din' # din)
    /\ events' = events + 1
    /\ UNCHANGED <<pc, work, system, bus, initiator, lastRst, sending, medium,
                   game, cut, spoiled, clash>>

-----------------------------------------------------------------------------
\* RunCDRead: the reader of sectors.

\* The end of a command; what is left in the FIFO is dropped.
SendStatusAndMessage(status) ==
    /\ din' = <<>>
    /\ statusSent' = FALSE /\ messageSent' = FALSE
    /\ db' = <<"status", status>>
    /\ phase' = "STATUS" /\ req' = TRUE

\* (The sense data, which say what went wrong, are not told apart.)
CommandCCError == SendStatusAndMessage("CHECK")

\* No sector is due, or there is no room for it and it has to wait again.
NoSector ==
    /\ pc = "read"
    /\ pc' = "phase"
    /\ UNCHANGED <<outside, bus, drive, history>>

SectorDue == pc = "read" /\ timer /\ Room /\ pc' = "phase"

SectorRead ==
    /\ SectorDue
    /\ ~trayOpen /\ sectorAddr < LeadOut
    /\ din' = din \o SectorData(sectorAddr)
    /\ sectorAddr' = sectorAddr + 1
    /\ sectorCount' = sectorCount - 1
    /\ IF phase # "DATA_IN" THEN phase' = "DATA_IN" /\ req' = FALSE
                           ELSE UNCHANGED <<phase, req>>
    /\ transferDone' = (sectorCount' = 0)
    /\ timer' = (sectorCount' # 0)
    /\ UNCHANGED <<outside, db, lastRst, commandBuffer, output, sending, cdda,
                   history>>

\* The tray is open, the sector is past the end of the disc, it cannot be
\* read, or its data do not check.
SectorFails ==
    /\ SectorDue
    /\ CommandCCError
    /\ transferDone' = (transferDone /\ ~trayOpen /\ sectorAddr >= LeadOut)
    /\ timer' = FALSE
    /\ clash' = (clash \/ ack \/ req)
    /\ UNCHANGED <<outside, lastRst, commandBuffer, output, sectorAddr,
                   sectorCount, cdda, cut, spoiled, lost>>

\* RunCDDA: playing comes to its end, to the end of the disc or to an open tray.
PlayEnds ==
    /\ pc = "phase" /\ cdda = "PLAYING"
    /\ cdda' = "STOPPED"
    /\ UNCHANGED <<outside, pc, bus, lastRst, din, commandBuffer, output,
                   reader, sending, history>>

-----------------------------------------------------------------------------
\* The commands, carried out with the bytes cdb.

DoREADBase(sa, sc) ==
    IF sa >= LeadOut
    THEN CommandCCError /\ UNCHANGED <<reader, cdda>>
    ELSE /\ sectorAddr' = sa /\ sectorCount' = sc
         /\ timer' = (sc # 0)
         /\ IF sc = 0 THEN SendStatusAndMessage("GOOD")
                     ELSE UNCHANGED <<bus, din, sending>>
         /\ cdda' = "STOPPED"
         /\ UNCHANGED transferDone

\* Play: SAPSP on the PC Engine, PLAY AUDIO(10) on the PC-FX.
DoPlay(lba, n) ==
    /\ IF /\ system = "PCFX"
          /\ lba > LeadOut \/ (n # 0 /\ lba < LeadOut /\ lba \notin AudioSectors)
       THEN CommandCCError /\ UNCHANGED cdda
       ELSE /\ SendStatusAndMessage("GOOD")
            /\ cdda' = IF n # 0 THEN "PLAYING"
                       ELSE IF system = "PCE" THEN "PAUSED" ELSE cdda
    /\ UNCHANGED reader

\* REQUEST SENSE: the data go to the FIFO at once.
DoREQUESTSENSE ==
    /\ din' = Append(din, <<"sense">>)
    /\ transferDone' = TRUE
    /\ phase' = "DATA_IN" /\ req' = FALSE
    /\ UNCHANGED <<db, sending, timer, sectorAddr, sectorCount, cdda>>

DoMODESELECT6(n) ==
    /\ IF n # 0 THEN /\ dataPos' = 0 /\ dataSize' = n
                     /\ phase' = "DATA_OUT" /\ req' = TRUE
                     /\ UNCHANGED <<db, din, sending>>
                ELSE SendStatusAndMessage("GOOD") /\ UNCHANGED output
    /\ UNCHANGED <<reader, cdda>>

Known(op) ==
    op \in IF system = "PCE" THEN {TestUnitReady, RequestSense, Read6, Play} ELSE Opcodes
RequiresMedium(op) == op \notin {RequestSense, ModeSelect}

\* A whole command is in the buffer: carry it out.
DoCommand(cdb) ==
    LET op == cdb[1]
        refused == RequiresMedium(op) /\ (trayOpen \/ discChanged)
    IN  /\ discChanged' = (discChanged /\ ~(Known(op) /\ refused /\ ~trayOpen))
        /\ \/ /\ ~Known(op) \/ refused
              /\ CommandCCError
              /\ UNCHANGED <<reader, cdda, output>>
           \/ /\ Known(op) /\ ~refused
              /\ \/ /\ op = TestUnitReady /\ SendStatusAndMessage("GOOD")
                    /\ UNCHANGED <<reader, cdda, output>>
                 \/ op = RequestSense /\ DoREQUESTSENSE /\ UNCHANGED output
                 \/ /\ op = Read6
                    /\ DoREADBase(cdb[2], IF cdb[3] = 0 THEN ZeroCount ELSE cdb[3])
                    /\ UNCHANGED output
                 \/ op = Read10 /\ DoREADBase(cdb[2], cdb[3]) /\ UNCHANGED output
                 \/ op = Play /\ DoPlay(cdb[2], cdb[3]) /\ UNCHANGED output
                 \/ op = ModeSelect /\ DoMODESELECT6(cdb[2])

-----------------------------------------------------------------------------
\* The switch on CurrentPhase, the last thing a run does.

\* (mutants: ACK is not looked at; neither is REQ)
AttendsAnyAck == phase # "BUS_FREE" /\ atn /\ ~req
QuietAnyAck == ~req
AnyTransfer == ack

Switch == pc = "phase" /\ pc' = "bus" /\ lastRst' = rst
Resets == rst /\ ~lastRst
Attends == phase # "BUS_FREE" /\ atn /\ ~req /\ ~ack
In(p) == Switch /\ ~Resets /\ phase = p /\ ~Attends
Transferred == req /\ ack
Quiet == ~req /\ ~ack

\* The rising edge of RST: VirtualReset.
VirtualReset ==
    /\ Switch /\ Resets
    /\ din' = <<>>
    /\ timer' = FALSE /\ sectorAddr' = 0 /\ sectorCount' = 0
    /\ cdda' = "STOPPED"
    /\ dataPos' = 0 /\ dataSize' = 0
    /\ phase' = "BUS_FREE" /\ req' = FALSE
    /\ cut' = (cut \/ commandBuffer # <<>>)
    /\ UNCHANGED <<outside, db, commandBuffer, transferDone, sending, spoiled,
                   clash, lost>>

Selected ==
    /\ In("BUS_FREE") /\ sel
    /\ phase' = "COMMAND" /\ req' = TRUE
    /\ UNCHANGED <<outside, work, db, din, sending, history>>

Attention ==
    /\ Switch /\ ~Resets /\ Attends
    /\ phase' = "MESSAGE_OUT" /\ req' = TRUE
    /\ UNCHANGED <<outside, work, db, din, sending, history>>

CommandByte ==
    /\ In("COMMAND") /\ Transferred
    /\ commandBuffer' = Append(commandBuffer, db[2])
    /\ req' = FALSE
    /\ UNCHANGED <<outside, phase, db, din, output, reader, sending, cdda,
                   history>>

CommandMore ==
    /\ In("COMMAND") /\ Quiet
    /\ commandBuffer # <<>>
    /\ Len(commandBuffer) # RequiredCDBLen(commandBuffer[1])
    /\ req' = TRUE
    /\ UNCHANGED <<outside, work, phase, db, din, sending, history>>

CommandDone ==
    /\ In("COMMAND") /\ Quiet
    /\ commandBuffer # <<>>
    /\ Len(commandBuffer) = RequiredCDBLen(commandBuffer[1])
    /\ DoCommand(commandBuffer)
    /\ commandBuffer' = <<>>
    /\ spoiled' = cut /\ cut' = FALSE
    /\ UNCHANGED <<system, initiator, trayOpen, game, clash, lost, events>>

DataOutByte ==
    /\ In("DATA_OUT") /\ Transferred
    /\ dataPos' = dataPos + 1
    /\ req' = FALSE
    /\ UNCHANGED <<outside, phase, db, din, commandBuffer, dataSize, reader,
                   sending, cdda, history>>

DataOutMore ==
    /\ In("DATA_OUT") /\ Quiet /\ dataPos # 0 /\ dataPos # dataSize
    /\ req' = TRUE
    /\ UNCHANGED <<outside, work, phase, db, din, sending, history>>

\* FinishMODESELECT6 finds fault with the parameters or not.
DataOutDone ==
    /\ In("DATA_OUT") /\ Quiet /\ dataPos # 0 /\ dataPos = dataSize
    /\ dataPos' = 0
    /\ SendStatusAndMessage("GOOD") \/ CommandCCError
    /\ UNCHANGED <<outside, commandBuffer, dataSize, reader, cdda, history>>

\* Any message aborts the command.
MessageOutByte ==
    /\ In("MESSAGE_OUT") /\ Transferred
    /\ din' = <<>>
    /\ dataPos' = 0 /\ dataSize' = 0
    /\ timer' = FALSE /\ cdda' = "STOPPED"
    /\ phase' = "BUS_FREE" /\ req' = FALSE
    /\ cut' = (cut \/ commandBuffer # <<>>)
    /\ UNCHANGED <<outside, db, commandBuffer, sectorAddr, sectorCount,
                   transferDone, sending, spoiled, clash, lost>>

StatusByte ==
    /\ In("STATUS") /\ Transferred
    /\ statusSent' = TRUE /\ req' = FALSE
    /\ UNCHANGED <<outside, work, phase, db, din, messageSent, history>>

StatusDone ==
    /\ In("STATUS") /\ Quiet /\ statusSent
    /\ statusSent' = FALSE
    /\ db' = <<"message">>
    /\ phase' = "MESSAGE_IN" /\ req' = TRUE
    /\ UNCHANGED <<outside, work, din, messageSent, history>>

DataInNext ==
    /\ In("DATA_IN") /\ Quiet /\ din # <<>>
    /\ db' = Head(din) /\ din' = Tail(din)
    /\ req' = TRUE
    /\ UNCHANGED <<outside, work, phase, sending, history>>

DataInDone ==
    /\ In("DATA_IN") /\ Quiet /\ din = <<>> /\ transferDone
    /\ SendStatusAndMessage("GOOD")
    /\ transferDone' = FALSE
    /\ UNCHANGED <<outside, commandBuffer, output, timer, sectorAddr,
                   sectorCount, cdda, history>>

DataInByte ==
    /\ In("DATA_IN") /\ Transferred
    /\ req' = FALSE
    /\ UNCHANGED <<outside, work, phase, db, din, sending, history>>

MessageInByte ==
    /\ In("MESSAGE_IN") /\ Transferred
    /\ messageSent' = TRUE /\ req' = FALSE
    /\ UNCHANGED <<outside, work, phase, db, din, statusSent, history>>

MessageInDone ==
    /\ In("MESSAGE_IN") /\ Quiet /\ messageSent
    /\ messageSent' = FALSE
    /\ phase' = "BUS_FREE" /\ req' = FALSE
    /\ UNCHANGED <<outside, work, db, din, statusSent, history>>

\* None of the above: the drive waits for the initiator or for a sector.
Waits ==
    /\ Switch /\ ~Resets /\ ~Attends
    /\ CASE phase = "BUS_FREE"    -> ~sel
         [] phase = "MESSAGE_OUT" -> ~Transferred
         [] OTHER -> \/ req # ack
                     \/ /\ Quiet
                        /\ \/ phase = "COMMAND" /\ commandBuffer = <<>>
                           \/ phase = "DATA_OUT" /\ dataPos = 0
                           \/ phase = "STATUS" /\ ~statusSent
                           \/ phase = "DATA_IN" /\ din = <<>> /\ ~transferDone
                           \/ phase = "MESSAGE_IN" /\ ~messageSent
    /\ UNCHANGED <<outside, work, bus, din, sending, history>>

-----------------------------------------------------------------------------
RunCDRead == NoSector \/ SectorRead \/ SectorFails

PhaseSwitch ==
    \/ VirtualReset \/ Selected \/ Attention
    \/ CommandByte \/ CommandMore \/ CommandDone
    \/ DataOutByte \/ DataOutMore \/ DataOutDone
    \/ MessageOutByte \/ StatusByte \/ StatusDone
    \/ DataInNext \/ DataInDone \/ DataInByte
    \/ MessageInByte \/ MessageInDone \/ Waits

Handshake == Deselect \/ Put \/ Latch \/ Take \/ LowerAck

Next ==
    \/ \E cdb \in Commands : Select(cdb)
    \/ Handshake \/ RaiseAttention \/ ResetOn \/ ResetOff \/ TimePasses
    \/ Eject \/ Insert \/ SaveAndLoadState
    \/ RunCDRead \/ PlayEnds \/ PhaseSwitch

Spec == Init /\ [][Next]_vars

\* A run comes to its end; the initiator answers the drive, and time passes
\* and sectors come due, however the rest is interleaved with them.
FairSpec ==
    /\ Spec
    /\ WF_vars(RunCDRead) /\ WF_vars(PhaseSwitch)
    /\ SF_vars(Handshake) /\ SF_vars(TimePasses) /\ SF_vars(SectorRead \/ SectorFails)

-----------------------------------------------------------------------------
Statuses == {"GOOD", "CHECK"}

\* Type correctness, with what every phase relies on the bus for: a byte that
\* is being asked for is of the phase's kind, and after a run no byte is both
\* asked for and acknowledged (it would be taken twice).
TypeOK ==
    /\ pc \in {"bus", "read", "phase"} /\ system \in Systems
    /\ phase \in Phases /\ req \in BOOLEAN
    /\ ack \in BOOLEAN /\ sel \in BOOLEAN /\ atn \in BOOLEAN
    /\ rst \in BOOLEAN /\ lastRst \in BOOLEAN
    /\ \A i \in DOMAIN din : din[i][1] \in {"data", "sense"}
    /\ \A i \in DOMAIN commandBuffer : commandBuffer[i] \in Nat
    /\ dataPos \in Nat /\ dataSize \in Nat /\ dataPos <= dataSize
    /\ timer \in BOOLEAN /\ sectorAddr \in Nat /\ sectorCount \in Nat
    /\ transferDone \in BOOLEAN /\ statusSent \in BOOLEAN /\ messageSent \in BOOLEAN
    /\ trayOpen \in BOOLEAN /\ discChanged \in BOOLEAN
    /\ cdda \in {"STOPPED", "PAUSED", "PLAYING"}
    /\ cmd \in Commands \cup {<<>>} /\ sent \in 0 .. Len(cmd)
    /\ told \in Statuses \cup {"NONE"}
    /\ cut \in BOOLEAN /\ spoiled \in BOOLEAN /\ clash \in BOOLEAN /\ lost \in BOOLEAN
    /\ events \in 0 .. MaxEvents
    /\ phase = "COMMAND" /\ req /\ ack => db[1] = "cmd"
    /\ phase = "STATUS" /\ req => db[1] = "status"
    /\ phase = "DATA_IN" /\ req => db[1] \in {"data", "sense"}
    /\ pc = "bus" => ~(req /\ ack)

\* Sectors come to the bus only for the READ in progress: while one is to
\* come the disc plays no music, no byte of another command is in the buffer,
\* and the bus is not free nor in a phase that ends a command.  The FIFO
\* holds bytes only while they are being sent, so that neither assertion of
\* SimpleFIFO (room for what is written, something to read) can fail.
ReaderOwnsDrive ==
    /\ timer => /\ phase \in {"COMMAND", "DATA_IN", "MESSAGE_OUT"}
               /\ commandBuffer = <<>> /\ sectorCount # 0 /\ cdda = "STOPPED"
               /\ ~(phase = "COMMAND" /\ req)
    /\ Len(din) <= FifoSize
    /\ din # <<>> => phase \in {"DATA_IN", "MESSAGE_OUT"}

\* The sectors a READ asks for, one after the other.
Asked(cdb) == IF cdb[1] = Read6 /\ cdb[3] = 0 THEN ZeroCount ELSE cdb[3]
Wanted(cdb) == [i \in 1 .. Asked(cdb) * SectorSize |->
                  <<"data", cdb[2] + (i - 1) \div SectorSize, ((i - 1) % SectorSize) + 1>>]

\* What the game knows at the end of a command is what happened: told GOOD
\* after a READ it has every byte asked for, once and in order, and it has
\* been told how the command ended.  Three things excuse the drive: the
\* command was put together after another was cut short, a state with a full
\* FIFO was loaded, or an error of a later sector came while a byte was on
\* the bus (its ACK is then taken for that of the status).
Outcome ==
    phase = "MESSAGE_IN" /\ cmd # <<>> /\ ~spoiled =>
       /\ told = "GOOD" /\ cmd[1] \in {Read6, Read10} /\ ~lost => got = Wanted(cmd)
       /\ told = "NONE" => clash

\* The drive carries out the command the game sent, byte for byte; only the
\* first after a reset or an abort that cut one short may be another, since
\* neither empties the buffer.
CommandsIntact ==
    [][CommandDone => commandBuffer = cmd \/ cut]_vars

\* A command put together after a cut may ask for bytes the game does not have.
Starved == cut /\ phase = "COMMAND" /\ sent = Len(cmd)

\* Once selected the drive lets go of the bus again, through waiting for
\* sectors, errors, aborts, resets, an open tray and loaded states, unless it
\* is starved.
BusReleased == phase # "BUS_FREE" ~> phase = "BUS_FREE" \/ Starved

=============================================================================
