-------------------------- MODULE ScsiDriveProofs --------------------------
(***************************************************************************)
(* Proofs about ScsiDrive, for every disc, size of sector and FIFO, set of *)
(* commands and bound.                                                     *)
(***************************************************************************)
EXTENDS ScsiDrive, TLAPS

DataBytes == {<<"data", sector, i>> : sector \in Nat, i \in Nat} \cup {<<"sense">>}
StatusBytes == {<<"status", "GOOD">>, <<"status", "CHECK">>}
CommandBytes == {<<"cmd", n>> : n \in Nat}
Bytes == DataBytes \cup StatusBytes \cup CommandBytes \cup {<<"out">>, <<"message">>}

\* The types of the variables.
Types ==
    /\ pc \in {"bus", "read", "phase"} /\ system \in Systems
    /\ phase \in Phases /\ db \in Bytes
    /\ din \in Seq(DataBytes) /\ commandBuffer \in Seq(Nat)
    /\ dataPos \in Nat /\ dataSize \in Nat
    /\ sectorAddr \in Nat /\ sectorCount \in Nat
    /\ cdda \in {"STOPPED", "PAUSED", "PLAYING"}
    /\ cmd \in Commands \cup {<<>>} /\ sent \in Nat /\ sent <= Len(cmd)
    /\ held \in Bytes \cup {<<>>} /\ told \in {"GOOD", "CHECK", "NONE"}
    /\ events \in 0 .. MaxEvents

Flags ==
    /\ req \in BOOLEAN /\ ack \in BOOLEAN /\ sel \in BOOLEAN /\ atn \in BOOLEAN
    /\ rst \in BOOLEAN /\ lastRst \in BOOLEAN
    /\ timer \in BOOLEAN /\ transferDone \in BOOLEAN
    /\ statusSent \in BOOLEAN /\ messageSent \in BOOLEAN
    /\ trayOpen \in BOOLEAN /\ discChanged \in BOOLEAN
    /\ cut \in BOOLEAN /\ spoiled \in BOOLEAN /\ clash \in BOOLEAN /\ lost \in BOOLEAN

\* The handshake: what REQ, ACK and SEL say in each phase.
Signals ==
    /\ pc = "bus" => ~(req /\ ack) /\ lastRst = rst
    /\ phase = "BUS_FREE" => ~req
    /\ phase = "COMMAND" /\ req /\ ack => sent # 0 /\ db = <<"cmd", cmd[sent]>>
    /\ phase = "STATUS" /\ req => db \in StatusBytes
    /\ phase = "DATA_IN" /\ req => db \in DataBytes
    /\ phase = "DATA_OUT" /\ req => dataPos # dataSize
    /\ dataPos <= dataSize
    /\ phase = "DATA_IN" /\ transferDone => ~timer
    /\ sel => /\ ~ack /\ held = <<>> /\ sent = 0
              /\ phase = "BUS_FREE" \/ (phase = "COMMAND" /\ req)
    /\ Resets => held = <<>>
    /\ held # <<>> => req /\ ~ack /\ phase \in {"DATA_IN", "STATUS", "MESSAGE_IN"}

\* What is in the buffer of the command.
Buffer ==
    /\ phase \notin {"BUS_FREE", "COMMAND", "MESSAGE_OUT"} => commandBuffer = <<>>
    /\ phase = "BUS_FREE" /\ ~cut => commandBuffer = <<>>
    /\ phase = "COMMAND" /\ ~cut /\ ~Resets =>
         \/ commandBuffer = <<>> /\ ~req
         \/ /\ Len(commandBuffer) = IF req /\ ack THEN sent - 1 ELSE sent
            /\ \A i \in 1 .. Len(commandBuffer) : commandBuffer[i] = cmd[i]

IInv == Types /\ Flags /\ Signals /\ ReaderOwnsDrive /\ Buffer

USE DriveAssumption

LEMMA CommandsTyped ==
    \A cdb \in Commands \cup {<<>>} : cdb \in Seq(Nat)
<1>1. Commands \subseteq Seq(Nat)  BY DriveAssumption
<1>2. <<>> \in Seq(Nat)  OBVIOUS
<1> QED  BY <1>1, <1>2

LEMMA SectorTyped ==
    ASSUME NEW sector \in Nat
    PROVE  /\ SectorData(sector) \in Seq(DataBytes)
           /\ Len(SectorData(sector)) = SectorSize
  BY DEF SectorData, DataBytes

\* The four ways a command goes on: it has ended, sectors are to come, the
\* sense data are to be sent, or parameters are to be received.
Ended ==
    /\ phase' = "STATUS" /\ req' = TRUE /\ db' \in StatusBytes
    /\ din' = <<>> /\ statusSent' = FALSE /\ messageSent' = FALSE
    /\ timer' = FALSE /\ dataPos' = dataPos /\ dataSize' = dataSize
    /\ transferDone' = transferDone
SectorsToCome ==
    /\ phase' = "COMMAND" /\ req' = FALSE /\ db' = db
    /\ din' = <<>> /\ statusSent' = statusSent /\ messageSent' = messageSent
    /\ timer' = TRUE /\ dataPos' = dataPos /\ dataSize' = dataSize
    /\ transferDone' = transferDone
    /\ sectorCount' # 0 /\ cdda' = "STOPPED"
SenseToCome ==
    /\ phase' = "DATA_IN" /\ req' = FALSE /\ db' = db
    /\ din' = << <<"sense">> >> /\ statusSent' = statusSent
    /\ messageSent' = messageSent
    /\ timer' = FALSE /\ dataPos' = dataPos /\ dataSize' = dataSize
    /\ transferDone' = TRUE
ParametersToCome ==
    /\ phase' = "DATA_OUT" /\ req' = TRUE /\ db' = db
    /\ din' = <<>> /\ statusSent' = statusSent /\ messageSent' = messageSent
    /\ timer' = FALSE /\ dataPos' = 0 /\ dataSize' \in Nat \ {0}
    /\ transferDone' = transferDone

LEMMA CommandResult ==
    ASSUME IInv, CommandDone
    PROVE  /\ Ended \/ SectorsToCome \/ SenseToCome \/ ParametersToCome
           /\ sectorAddr' \in Nat /\ sectorCount' \in Nat
           /\ cdda' \in {"STOPPED", "PAUSED", "PLAYING"}
           /\ discChanged' = FALSE \/ discChanged' = discChanged
           /\ phase = "COMMAND" /\ ~req /\ ~ack /\ pc' = "bus" /\ lastRst' = rst
           /\ commandBuffer' = <<>> /\ spoiled' = cut /\ cut' = FALSE
           /\ UNCHANGED <<system, initiator, trayOpen, game, clash, lost, events>>
<1> DEFINE cdb == commandBuffer
<1>1. /\ phase = "COMMAND" /\ ~req /\ ~ack /\ pc' = "bus" /\ lastRst' = rst
      /\ commandBuffer' = <<>> /\ spoiled' = cut /\ cut' = FALSE
      /\ UNCHANGED <<system, initiator, trayOpen, game, clash, lost, events>>
  BY DEF CommandDone, In, Quiet, Switch
<1>2. cdb \in Seq(Nat) /\ cdb # <<>> /\ Len(cdb) = RequiredCDBLen(cdb[1])
  BY DEF CommandDone, IInv, Types
<1>3. cdb[1] \in Nat /\ cdb[2] \in Nat /\ cdb[3] \in Nat
  <2>1. Len(cdb) >= 3  BY <1>2 DEF RequiredCDBLen, Read10
  <2> QED  BY <2>1, <1>2
<1>4. timer = FALSE /\ req = FALSE /\ din = <<>> /\ sectorAddr \in Nat /\ sectorCount \in Nat
      /\ cdda \in {"STOPPED", "PAUSED", "PLAYING"}
  <2>1. ~timer  BY <1>2 DEF IInv, ReaderOwnsDrive
  <2>2. timer = FALSE /\ req = FALSE  BY <1>1, <2>1, Zenon DEF IInv, Flags
  <2> QED  BY <2>2, <1>1 DEF IInv, ReaderOwnsDrive, Types
<1>5. DoCommand(cdb)  BY DEF CommandDone
<1>6. discChanged' = FALSE \/ discChanged' = discChanged
  <2>1. discChanged \in BOOLEAN  BY DEF IInv, Flags
  <2>2. \E b \in BOOLEAN : discChanged' = (discChanged /\ b)
    BY <1>5, Zenon DEF DoCommand
  <2> QED  BY <2>1, <2>2, Zenon
<1> HIDE DEF cdb
<1> DEFINE Rest == /\ Ended \/ SectorsToCome \/ SenseToCome \/ ParametersToCome
                   /\ sectorAddr' \in Nat /\ sectorCount' \in Nat
                   /\ cdda' \in {"STOPPED", "PAUSED", "PLAYING"}
<1> USE DEF reader, output, sending, bus
<1>10. ASSUME CommandCCError, UNCHANGED <<reader, cdda, output>>  PROVE Rest
  BY <1>4, <1>10 DEF CommandCCError, SendStatusAndMessage, StatusBytes, Ended
<1>11. ASSUME SendStatusAndMessage("GOOD"), UNCHANGED <<reader, cdda, output>>
       PROVE Rest
  BY <1>4, <1>11 DEF SendStatusAndMessage, StatusBytes, Ended
<1>12. ASSUME DoREQUESTSENSE, UNCHANGED output  PROVE Rest
  BY <1>4, <1>12 DEF DoREQUESTSENSE, SenseToCome
<1>13. ASSUME NEW sc \in Nat, DoREADBase(cdb[2], sc), UNCHANGED output  PROVE Rest
  <2>1. CASE cdb[2] >= LeadOut
    BY <2>1, <1>13, <1>10 DEF DoREADBase
  <2>2. CASE ~(cdb[2] >= LeadOut) /\ sc = 0
    <3>1. timer' = FALSE  BY <2>2, <1>13 DEF DoREADBase
    <3> QED  BY <2>2, <3>1, <1>3, <1>13 DEF DoREADBase, SendStatusAndMessage,
         StatusBytes, Ended
  <2>3. CASE ~(cdb[2] >= LeadOut) /\ sc # 0
    <3>1. timer' = TRUE  BY <2>3, <1>13 DEF DoREADBase
    <3> QED  BY <2>3, <3>1, <1>1, <1>3, <1>4, <1>13 DEF DoREADBase,
         SectorsToCome
  <2> QED  BY <2>1, <2>2, <2>3
<1>14. ASSUME DoPlay(cdb[2], cdb[3]), UNCHANGED output  PROVE Rest
  BY <1>4, <1>14 DEF DoPlay, CommandCCError, SendStatusAndMessage, StatusBytes,
       Ended
<1>15. ASSUME DoMODESELECT6(cdb[2])  PROVE Rest
  BY <1>3, <1>4, <1>15 DEF DoMODESELECT6, SendStatusAndMessage, StatusBytes,
       Ended,
                       ParametersToCome
<1>16. /\ (IF cdb[3] = 0 THEN ZeroCount ELSE cdb[3]) \in Nat
       /\ cdb[3] \in Nat
  BY <1>3, DriveAssumption
<1> HIDE DEF Rest
<1> HIDE DEF reader, output, sending, bus
<1>17. Rest
  BY <1>5, <1>10, <1>11, <1>12, <1>13, <1>14, <1>15, <1>16 DEF DoCommand
<1> QED  BY <1>1, <1>6, <1>17 DEF Rest

LEMMA TypesStep ==
    IInv /\ Next => Types'
<1> SUFFICES ASSUME IInv, Next PROVE Types'  OBVIOUS
<1> USE DEF outside, work, bus, initiator, reader, sending, output, medium,
     game, history, drive
<1>1. ASSUME NEW cdb \in Commands, Select(cdb)  PROVE  Types'
  BY <1>1, CommandsTyped DEF Select, Runs, IInv, Types, Flags, Signals,
       ReaderOwnsDrive, Resets, Bytes, DataBytes, StatusBytes, CommandBytes,
       Phases
<1>2. CASE Deselect
  BY <1>2 DEF Deselect, Runs, IInv, Types, Flags, Signals, ReaderOwnsDrive,
       Resets, Bytes, DataBytes, StatusBytes, CommandBytes, Phases
<1>3. CASE Put
  <2>1. Types /\ cmd \in Seq(Nat)  BY CommandsTyped DEF IInv, Types
  <2>2. db' \in Bytes /\ sent' \in Nat /\ sent' <= Len(cmd)
    <3>1. CASE sent < Len(cmd) /\ db' = <<"cmd", cmd[sent + 1]>> /\ sent' = sent + 1
      BY <2>1, <3>1 DEF Types, Bytes, CommandBytes
    <3>2. CASE db' = <<"out">> /\ sent' = sent
      BY <2>1, <3>2 DEF Types, Bytes
    <3> QED  BY <1>3, <3>1, <3>2 DEF Put
  <2> QED  BY <1>3, <2>1, <2>2 DEF Put, Runs, Types
<1>4. CASE Latch
  BY <1>4 DEF Latch, IInv, Types, Flags, Signals, ReaderOwnsDrive, Resets,
       Bytes, DataBytes, StatusBytes, CommandBytes, Phases
<1>5. CASE Take
  <2>1. Types  BY DEF IInv
  <2>2. CASE held = <<"message">>
    BY <1>5, <2>1, <2>2 DEF Take, Runs, GameForgets, Types
  <2>3. CASE held # <<"message">> /\ held[1] = "status"
    <3>1. held \in StatusBytes  BY <1>5, <2>3 DEF Take, IInv, Types, Flags, Signals, ReaderOwnsDrive, Resets, Bytes, DataBytes, StatusBytes, CommandBytes, Phases
    <3>2. held[2] \in {"GOOD", "CHECK", "NONE"}  BY <3>1 DEF StatusBytes
    <3> QED  BY <1>5, <2>1, <2>3, <3>2 DEF Take, Runs, Types
  <2>4. CASE held # <<"message">> /\ held[1] # "status"
    BY <1>5, <2>1, <2>4 DEF Take, Runs, Types
  <2> QED  BY <2>2, <2>3, <2>4
<1>6. CASE LowerAck
  BY <1>6 DEF LowerAck, Runs, IInv, Types, Flags, Signals, ReaderOwnsDrive,
       Resets, Bytes, DataBytes, StatusBytes, CommandBytes, Phases
<1>7. CASE RaiseAttention
  BY <1>7 DEF RaiseAttention, Runs, IInv, Types, Flags, Signals,
       ReaderOwnsDrive, Resets, Bytes, DataBytes, StatusBytes, CommandBytes,
       Phases
<1>8. CASE ResetOn
  BY <1>8 DEF ResetOn, Runs, GameForgets, IInv, Types, Flags, Signals,
       ReaderOwnsDrive, Resets, Bytes, DataBytes, StatusBytes, CommandBytes,
       Phases
<1>9. CASE ResetOff
  BY <1>9 DEF ResetOff, Runs, IInv, Types, Flags, Signals, ReaderOwnsDrive,
       Resets, Bytes, DataBytes, StatusBytes, CommandBytes, Phases
<1>10. CASE TimePasses
  BY <1>10 DEF TimePasses, Runs, IInv, Types, Flags, Signals, ReaderOwnsDrive,
       Resets, Bytes, DataBytes, StatusBytes, CommandBytes, Phases
<1>11. CASE Eject
  BY <1>11 DEF Eject, IInv, Types, Flags, Signals, ReaderOwnsDrive, Resets,
       Bytes, DataBytes, StatusBytes, CommandBytes, Phases
<1>12. CASE Insert
  BY <1>12 DEF Insert, IInv, Types, Flags, Signals, ReaderOwnsDrive, Resets,
       Bytes, DataBytes, StatusBytes, CommandBytes, Phases
<1>13. CASE SaveAndLoadState
  BY <1>13 DEF SaveAndLoadState, IInv, Types, Flags, Signals, ReaderOwnsDrive,
       Resets, Bytes, DataBytes, StatusBytes, CommandBytes, Phases
<1>14. CASE NoSector
  BY <1>14 DEF NoSector, IInv, Types, Flags, Signals, ReaderOwnsDrive, Resets,
       Bytes, DataBytes, StatusBytes, CommandBytes, Phases
<1>15. CASE SectorRead
  BY <1>15, SectorTyped DEF SectorRead, SectorDue, Room, IInv, Types, Flags,
       Signals, ReaderOwnsDrive, Resets, Bytes, DataBytes, StatusBytes,
       CommandBytes, Phases
<1>16. CASE SectorFails
  BY <1>16 DEF SectorFails, SectorDue, Room, CommandCCError,
       SendStatusAndMessage, IInv, Types, Flags, Signals, ReaderOwnsDrive,
       Resets, Bytes, DataBytes, StatusBytes, CommandBytes, Phases
<1>17. CASE PlayEnds
  BY <1>17 DEF PlayEnds, IInv, Types, Flags, Signals, ReaderOwnsDrive, Resets,
       Bytes, DataBytes, StatusBytes, CommandBytes, Phases
<1>18. CASE VirtualReset
  BY <1>18 DEF VirtualReset, Switch, Transferred, Quiet, IInv, Types, Flags,
       Signals, ReaderOwnsDrive, Resets, Bytes, DataBytes, StatusBytes,
       CommandBytes, Phases
<1>19. CASE Selected
  BY <1>19 DEF Selected, Switch, In, Attends, Transferred, Quiet, IInv, Types,
       Flags, Signals, ReaderOwnsDrive, Resets, Bytes, DataBytes, StatusBytes,
       CommandBytes, Phases
<1>20. CASE Attention
  BY <1>20 DEF Attention, Switch, Attends, Transferred, Quiet, IInv, Types,
       Flags, Signals, ReaderOwnsDrive, Resets, Bytes, DataBytes, StatusBytes,
       CommandBytes, Phases
<1>21. CASE CommandByte
  BY <1>21 DEF CommandByte, Switch, In, Attends, Transferred, Quiet, IInv,
       Types, Flags, Signals, ReaderOwnsDrive, Resets, Bytes, DataBytes,
       StatusBytes, CommandBytes, Phases
<1>22. CASE CommandMore
  BY <1>22 DEF CommandMore, Switch, In, Attends, Transferred, Quiet,
       RequiredCDBLen, IInv, Types, Flags, Signals, ReaderOwnsDrive, Resets,
       Bytes, DataBytes, StatusBytes, CommandBytes, Phases
<1>23. CASE CommandDone
  <2>1. /\ sectorAddr' \in Nat /\ sectorCount' \in Nat
        /\ cdda' \in {"STOPPED", "PAUSED", "PLAYING"}
        /\ pc' = "bus" /\ commandBuffer' = <<>>
        /\ system' = system /\ cmd' = cmd /\ sent' = sent /\ held' = held
        /\ told' = told /\ events' = events
    BY <1>23, CommandResult
  <2>2. /\ phase' \in Phases /\ db' \in Bytes /\ din' \in Seq(DataBytes)
        /\ dataPos' \in Nat /\ dataSize' \in Nat
    <3>1. db \in Bytes /\ dataPos \in Nat /\ dataSize \in Nat  BY DEF IInv, Types
    <3>2. << <<"sense">> >> \in Seq(DataBytes) /\ <<>> \in Seq(DataBytes)  BY DEF DataBytes
    <3> DEFINE Rest == /\ phase' \in Phases /\ db' \in Bytes
                       /\ din' \in Seq(DataBytes)
                       /\ dataPos' \in Nat /\ dataSize' \in Nat
    <3>3. ASSUME Ended  PROVE Rest  BY <3>1, <3>2, <3>3 DEF Ended, Phases, Bytes
    <3>4. ASSUME SectorsToCome  PROVE Rest
      BY <3>1, <3>2, <3>4 DEF SectorsToCome, Phases
    <3>5. ASSUME SenseToCome  PROVE Rest  BY <3>1, <3>2, <3>5 DEF SenseToCome, Phases
    <3>6. ASSUME ParametersToCome  PROVE Rest
      BY <3>1, <3>2, <3>6 DEF ParametersToCome, Phases
    <3> QED  BY <1>23, <3>3, <3>4, <3>5, <3>6, CommandResult
  <2>3. Types  BY DEF IInv
  <2> QED  BY <2>1, <2>2, <2>3 DEF Types
<1>24. CASE DataOutByte
  BY <1>24 DEF DataOutByte, Switch, In, Attends, Transferred, Quiet, IInv,
       Types, Flags, Signals, ReaderOwnsDrive, Resets, Bytes, DataBytes,
       StatusBytes, CommandBytes, Phases
<1>25. CASE DataOutMore
  BY <1>25 DEF DataOutMore, Switch, In, Attends, Transferred, Quiet, IInv,
       Types, Flags, Signals, ReaderOwnsDrive, Resets, Bytes, DataBytes,
       StatusBytes, CommandBytes, Phases
<1>26. CASE DataOutDone
  BY <1>26 DEF DataOutDone, CommandCCError, SendStatusAndMessage, Switch, In,
       Attends, Transferred, Quiet, IInv, Types, Flags, Signals,
       ReaderOwnsDrive, Resets, Bytes, DataBytes, StatusBytes, CommandBytes,
       Phases
<1>27. CASE MessageOutByte
  BY <1>27 DEF MessageOutByte, Switch, In, Attends, Transferred, Quiet, IInv,
       Types, Flags, Signals, ReaderOwnsDrive, Resets, Bytes, DataBytes,
       StatusBytes, CommandBytes, Phases
<1>28. CASE StatusByte
  BY <1>28 DEF StatusByte, Switch, In, Attends, Transferred, Quiet, IInv, Types,
       Flags, Signals, ReaderOwnsDrive, Resets, Bytes, DataBytes, StatusBytes,
       CommandBytes, Phases
<1>29. CASE StatusDone
  BY <1>29 DEF StatusDone, Switch, In, Attends, Transferred, Quiet, IInv, Types,
       Flags, Signals, ReaderOwnsDrive, Resets, Bytes, DataBytes, StatusBytes,
       CommandBytes, Phases
<1>30. CASE DataInNext
  BY <1>30 DEF DataInNext, Switch, In, Attends, Transferred, Quiet, IInv, Types,
       Flags, Signals, ReaderOwnsDrive, Resets, Bytes, DataBytes, StatusBytes,
       CommandBytes, Phases
<1>31. CASE DataInDone
  BY <1>31 DEF DataInDone, CommandCCError, SendStatusAndMessage, Switch, In,
       Attends, Transferred, Quiet, IInv, Types, Flags, Signals,
       ReaderOwnsDrive, Resets, Bytes, DataBytes, StatusBytes, CommandBytes,
       Phases
<1>32. CASE DataInByte
  BY <1>32 DEF DataInByte, Switch, In, Attends, Transferred, Quiet, IInv, Types,
       Flags, Signals, ReaderOwnsDrive, Resets, Bytes, DataBytes, StatusBytes,
       CommandBytes, Phases
<1>33. CASE MessageInByte
  BY <1>33 DEF MessageInByte, Switch, In, Attends, Transferred, Quiet, IInv,
       Types, Flags, Signals, ReaderOwnsDrive, Resets, Bytes, DataBytes,
       StatusBytes, CommandBytes, Phases
<1>34. CASE MessageInDone
  BY <1>34 DEF MessageInDone, Switch, In, Attends, Transferred, Quiet, IInv,
       Types, Flags, Signals, ReaderOwnsDrive, Resets, Bytes, DataBytes,
       StatusBytes, CommandBytes, Phases
<1>35. CASE Waits
  BY <1>35 DEF Waits, Switch, Attends, Transferred, Quiet, IInv, Types, Flags,
       Signals, ReaderOwnsDrive, Resets, Bytes, DataBytes, StatusBytes,
       CommandBytes, Phases
<1> QED
  BY <1>1, <1>2, <1>3, <1>4, <1>5, <1>6, <1>7, <1>8, <1>9, <1>10, <1>11, <1>12,
       <1>13, <1>14, <1>15, <1>16, <1>17, <1>18, <1>19, <1>20, <1>21, <1>22,
       <1>23, <1>24, <1>25, <1>26, <1>27, <1>28, <1>29, <1>30, <1>31, <1>32,
       <1>33, <1>34, <1>35 DEF Next, Handshake, RunCDRead, PhaseSwitch

LEMMA FlagsStep ==
    IInv /\ Next => Flags'
<1> SUFFICES ASSUME IInv, Next PROVE Flags'  OBVIOUS
<1> USE DEF outside, work, bus, initiator, reader, sending, output, medium,
     game, history, drive
<1>1. ASSUME NEW cdb \in Commands, Select(cdb)  PROVE  Flags'
  BY <1>1, CommandsTyped DEF Select, Runs, IInv, Flags
<1>2. CASE Deselect
  <2>1. /\ req' = req /\ ack' = ack /\ atn' = atn /\ rst' = rst
        /\ lastRst' = lastRst /\ timer' = timer /\ transferDone' = transferDone /\ statusSent' = statusSent
        /\ messageSent' = messageSent /\ trayOpen' = trayOpen /\ discChanged' = discChanged /\ cut' = cut
        /\ spoiled' = spoiled /\ clash' = clash /\ lost' = lost
    BY <1>2 DEF Deselect, Runs
  <2>2. sel' = FALSE
    BY <1>2 DEF Deselect, Runs
  <2>3. Flags  BY DEF IInv
  <2> HIDE DEF outside, work, bus, initiator, reader, sending, output, medium,
       game, history, drive
  <2>4. sel' \in BOOLEAN  BY <2>2, <2>3, Zenon DEF Flags
  <2> QED  BY <2>1, <2>3, <2>4 DEF Flags
<1>3. CASE Put
  <2>1. /\ req' = req /\ sel' = sel /\ rst' = rst /\ lastRst' = lastRst
        /\ timer' = timer /\ transferDone' = transferDone /\ statusSent' = statusSent /\ messageSent' = messageSent
        /\ trayOpen' = trayOpen /\ discChanged' = discChanged /\ cut' = cut /\ spoiled' = spoiled
        /\ clash' = clash /\ lost' = lost
    BY <1>3 DEF Put, Runs
  <2>2. ack' = TRUE /\ (atn' = FALSE \/ atn' = atn)
    BY <1>3 DEF Put, Runs
  <2>3. Flags  BY DEF IInv
  <2> HIDE DEF outside, work, bus, initiator, reader, sending, output, medium,
       game, history, drive
  <2>4. ack' \in BOOLEAN /\ atn' \in BOOLEAN  BY <2>2, <2>3, Zenon DEF Flags
  <2> QED  BY <2>1, <2>3, <2>4 DEF Flags
<1>4. CASE Latch
  BY <1>4 DEF Latch, IInv, Flags
<1>5. CASE Take
  BY <1>5 DEF Take, Runs, GameForgets, IInv, Flags
<1>6. CASE LowerAck
  <2>1. /\ req' = req /\ sel' = sel /\ atn' = atn /\ rst' = rst
        /\ lastRst' = lastRst /\ timer' = timer /\ transferDone' = transferDone /\ statusSent' = statusSent
        /\ messageSent' = messageSent /\ trayOpen' = trayOpen /\ discChanged' = discChanged /\ cut' = cut
        /\ spoiled' = spoiled /\ clash' = clash /\ lost' = lost
    BY <1>6 DEF LowerAck, Runs
  <2>2. ack' = FALSE
    BY <1>6 DEF LowerAck, Runs
  <2>3. Flags  BY DEF IInv
  <2> HIDE DEF outside, work, bus, initiator, reader, sending, output, medium,
       game, history, drive
  <2>4. ack' \in BOOLEAN  BY <2>2, <2>3, Zenon DEF Flags
  <2> QED  BY <2>1, <2>3, <2>4 DEF Flags
<1>7. CASE RaiseAttention
  BY <1>7 DEF RaiseAttention, Runs, IInv, Flags
<1>8. CASE ResetOn
  <2>1. /\ req' = req /\ ack' = ack /\ sel' = sel /\ atn' = atn
        /\ lastRst' = lastRst /\ timer' = timer /\ transferDone' = transferDone /\ statusSent' = statusSent
        /\ messageSent' = messageSent /\ trayOpen' = trayOpen /\ discChanged' = discChanged /\ cut' = cut
        /\ spoiled' = spoiled /\ clash' = clash /\ lost' = lost
    BY <1>8 DEF ResetOn, Runs, GameForgets
  <2>2. rst' = TRUE
    BY <1>8 DEF ResetOn, Runs, GameForgets
  <2>3. Flags  BY DEF IInv
  <2> HIDE DEF outside, work, bus, initiator, reader, sending, output, medium,
       game, history, drive
  <2>4. rst' \in BOOLEAN  BY <2>2, <2>3, Zenon DEF Flags
  <2> QED  BY <2>1, <2>3, <2>4 DEF Flags
<1>9. CASE ResetOff
  <2>1. /\ req' = req /\ sel' = sel /\ lastRst' = lastRst /\ timer' = timer
        /\ transferDone' = transferDone /\ statusSent' = statusSent /\ messageSent' = messageSent /\ trayOpen' = trayOpen
        /\ discChanged' = discChanged /\ cut' = cut /\ spoiled' = spoiled /\ clash' = clash
        /\ lost' = lost
    BY <1>9 DEF ResetOff, Runs
  <2>2. rst' = FALSE /\ (ack' = FALSE \/ ack' = ack) /\ (atn' = FALSE \/ atn' = atn)
    BY <1>9 DEF ResetOff, Runs
  <2>3. Flags  BY DEF IInv
  <2> HIDE DEF outside, work, bus, initiator, reader, sending, output, medium,
       game, history, drive
  <2>4. rst' \in BOOLEAN /\ ack' \in BOOLEAN /\ atn' \in BOOLEAN  BY <2>2, <2>3, Zenon DEF Flags
  <2> QED  BY <2>1, <2>3, <2>4 DEF Flags
<1>10. CASE TimePasses
  BY <1>10 DEF TimePasses, Runs, IInv, Flags
<1>11. CASE Eject
  BY <1>11 DEF Eject, IInv, Flags
<1>12. CASE Insert
  <2>1. /\ req' = req /\ ack' = ack /\ sel' = sel /\ atn' = atn
        /\ rst' = rst /\ lastRst' = lastRst /\ timer' = timer /\ transferDone' = transferDone
        /\ statusSent' = statusSent /\ messageSent' = messageSent /\ cut' = cut /\ spoiled' = spoiled
        /\ clash' = clash /\ lost' = lost
    BY <1>12 DEF Insert
  <2>2. trayOpen' = FALSE /\ discChanged' = TRUE
    BY <1>12 DEF Insert
  <2>3. Flags  BY DEF IInv
  <2> HIDE DEF outside, work, bus, initiator, reader, sending, output, medium,
       game, history, drive
  <2>4. trayOpen' \in BOOLEAN /\ discChanged' \in BOOLEAN  BY <2>2, <2>3, Zenon DEF Flags
  <2> QED  BY <2>1, <2>3, <2>4 DEF Flags
<1>13. CASE SaveAndLoadState
  BY <1>13 DEF SaveAndLoadState, IInv, Flags
<1>14. CASE NoSector
  BY <1>14 DEF NoSector, IInv, Flags
<1>15. CASE SectorRead
  <2>1. /\ ack' = ack /\ sel' = sel /\ atn' = atn /\ rst' = rst
        /\ lastRst' = lastRst /\ statusSent' = statusSent /\ messageSent' = messageSent /\ trayOpen' = trayOpen
        /\ discChanged' = discChanged /\ cut' = cut /\ spoiled' = spoiled /\ clash' = clash
        /\ lost' = lost
    BY <1>15 DEF SectorRead, SectorDue, Room
  <2>2. (req' = FALSE \/ req' = req) /\ transferDone' \in BOOLEAN /\ timer' \in BOOLEAN
    BY <1>15 DEF SectorRead, SectorDue, Room
  <2>3. Flags  BY DEF IInv
  <2> HIDE DEF outside, work, bus, initiator, reader, sending, output, medium,
       game, history, drive
  <2>4. req' \in BOOLEAN /\ transferDone' \in BOOLEAN /\ timer' \in BOOLEAN  BY <2>2, <2>3, Zenon DEF Flags
  <2> QED  BY <2>1, <2>3, <2>4 DEF Flags
<1>16. CASE SectorFails
  BY <1>16 DEF SectorFails, SectorDue, Room, CommandCCError,
       SendStatusAndMessage, IInv, Flags
<1>17. CASE PlayEnds
  BY <1>17 DEF PlayEnds, IInv, Flags
<1>18. CASE VirtualReset
  BY <1>18 DEF VirtualReset, Switch, Resets, Transferred, Quiet, IInv, Flags
<1>19. CASE Selected
  BY <1>19 DEF Selected, Switch, Resets, In, Attends, Transferred, Quiet, IInv,
       Flags
<1>20. CASE Attention
  BY <1>20 DEF Attention, Switch, Resets, Attends, Transferred, Quiet, IInv,
       Flags
<1>21. CASE CommandByte
  <2>1. /\ ack' = ack /\ sel' = sel /\ atn' = atn /\ rst' = rst
        /\ timer' = timer /\ transferDone' = transferDone /\ statusSent' = statusSent /\ messageSent' = messageSent
        /\ trayOpen' = trayOpen /\ discChanged' = discChanged /\ cut' = cut /\ spoiled' = spoiled
        /\ clash' = clash /\ lost' = lost
    BY <1>21 DEF CommandByte, Switch, Resets, In, Attends, Transferred, Quiet
  <2>2. req' = FALSE /\ lastRst' = rst
    BY <1>21 DEF CommandByte, Switch, Resets, In, Attends, Transferred, Quiet
  <2>3. Flags  BY DEF IInv
  <2> HIDE DEF outside, work, bus, initiator, reader, sending, output, medium,
       game, history, drive
  <2>4. req' \in BOOLEAN /\ lastRst' \in BOOLEAN  BY <2>2, <2>3, Zenon DEF Flags
  <2> QED  BY <2>1, <2>3, <2>4 DEF Flags
<1>22. CASE CommandMore
  BY <1>22 DEF CommandMore, Switch, Resets, In, Attends, Transferred, Quiet,
       RequiredCDBLen, IInv, Flags
<1>23. CASE CommandDone
  <2>1. /\ ack' = ack /\ sel' = sel /\ atn' = atn /\ rst' = rst
        /\ trayOpen' = trayOpen /\ clash' = clash /\ lost' = lost
    BY <1>23, CommandResult
  <2>2. /\ lastRst' = rst /\ spoiled' = cut /\ cut' = FALSE
        /\ discChanged' = FALSE \/ discChanged' = discChanged
    BY <1>23, CommandResult
  <2>3. Flags  BY DEF IInv
  <2> HIDE DEF outside, work, bus, initiator, reader, sending, output, medium,
       game, history, drive
  <2>4. /\ lastRst' \in BOOLEAN /\ spoiled' \in BOOLEAN
        /\ cut' \in BOOLEAN /\ discChanged' \in BOOLEAN
    BY <2>2, <2>3, Zenon DEF Flags
  <2> DEFINE Rest == /\ req' \in BOOLEAN /\ timer' \in BOOLEAN
                     /\ transferDone' \in BOOLEAN
                     /\ statusSent' \in BOOLEAN /\ messageSent' \in BOOLEAN
  <2>5. ASSUME Ended  PROVE Rest  BY <2>3, <2>5, Zenon DEF Flags, Ended
  <2>6. ASSUME SectorsToCome  PROVE Rest  BY <2>3, <2>6, Zenon DEF Flags, SectorsToCome
  <2>7. ASSUME SenseToCome  PROVE Rest  BY <2>3, <2>7, Zenon DEF Flags, SenseToCome
  <2>8. ASSUME ParametersToCome  PROVE Rest  BY <2>3, <2>8, Zenon DEF Flags, ParametersToCome
  <2> HIDE DEF Rest
  <2>9. Rest  BY <1>23, <2>5, <2>6, <2>7, <2>8, CommandResult
  <2> QED  BY <2>1, <2>3, <2>4, <2>9 DEF Flags, Rest
<1>24. CASE DataOutByte
  <2>1. /\ ack' = ack /\ sel' = sel /\ atn' = atn /\ rst' = rst
        /\ timer' = timer /\ transferDone' = transferDone /\ statusSent' = statusSent /\ messageSent' = messageSent
        /\ trayOpen' = trayOpen /\ discChanged' = discChanged /\ cut' = cut /\ spoiled' = spoiled
        /\ clash' = clash /\ lost' = lost
    BY <1>24 DEF DataOutByte, Switch, Resets, In, Attends, Transferred, Quiet
  <2>2. req' = FALSE /\ lastRst' = rst
    BY <1>24 DEF DataOutByte, Switch, Resets, In, Attends, Transferred, Quiet
  <2>3. Flags  BY DEF IInv
  <2> HIDE DEF outside, work, bus, initiator, reader, sending, output, medium,
       game, history, drive
  <2>4. req' \in BOOLEAN /\ lastRst' \in BOOLEAN  BY <2>2, <2>3, Zenon DEF Flags
  <2> QED  BY <2>1, <2>3, <2>4 DEF Flags
<1>25. CASE DataOutMore
  BY <1>25 DEF DataOutMore, Switch, Resets, In, Attends, Transferred, Quiet,
       IInv, Flags
<1>26. CASE DataOutDone
  BY <1>26 DEF DataOutDone, CommandCCError, SendStatusAndMessage, Switch,
       Resets, In, Attends, Transferred, Quiet, IInv, Flags
<1>27. CASE MessageOutByte
  BY <1>27 DEF MessageOutByte, Switch, Resets, In, Attends, Transferred, Quiet,
       IInv, Flags
<1>28. CASE StatusByte
  BY <1>28 DEF StatusByte, Switch, Resets, In, Attends, Transferred, Quiet,
       IInv, Flags
<1>29. CASE StatusDone
  BY <1>29 DEF StatusDone, Switch, Resets, In, Attends, Transferred, Quiet,
       IInv, Flags
<1>30. CASE DataInNext
  BY <1>30 DEF DataInNext, Switch, Resets, In, Attends, Transferred, Quiet,
       IInv, Flags
<1>31. CASE DataInDone
  BY <1>31 DEF DataInDone, CommandCCError, SendStatusAndMessage, Switch, Resets,
       In, Attends, Transferred, Quiet, IInv, Flags
<1>32. CASE DataInByte
  <2>1. /\ ack' = ack /\ sel' = sel /\ atn' = atn /\ rst' = rst
        /\ timer' = timer /\ transferDone' = transferDone /\ statusSent' = statusSent /\ messageSent' = messageSent
        /\ trayOpen' = trayOpen /\ discChanged' = discChanged /\ cut' = cut /\ spoiled' = spoiled
        /\ clash' = clash /\ lost' = lost
    BY <1>32 DEF DataInByte, Switch, Resets, In, Attends, Transferred, Quiet
  <2>2. req' = FALSE /\ lastRst' = rst
    BY <1>32 DEF DataInByte, Switch, Resets, In, Attends, Transferred, Quiet
  <2>3. Flags  BY DEF IInv
  <2> HIDE DEF outside, work, bus, initiator, reader, sending, output, medium,
       game, history, drive
  <2>4. req' \in BOOLEAN /\ lastRst' \in BOOLEAN  BY <2>2, <2>3, Zenon DEF Flags
  <2> QED  BY <2>1, <2>3, <2>4 DEF Flags
<1>33. CASE MessageInByte
  BY <1>33 DEF MessageInByte, Switch, Resets, In, Attends, Transferred, Quiet,
       IInv, Flags
<1>34. CASE MessageInDone
  BY <1>34 DEF MessageInDone, Switch, Resets, In, Attends, Transferred, Quiet,
       IInv, Flags
<1>35. CASE Waits
  BY <1>35 DEF Waits, Switch, Resets, Attends, Transferred, Quiet, IInv, Flags
<1> QED
  BY <1>1, <1>2, <1>3, <1>4, <1>5, <1>6, <1>7, <1>8, <1>9, <1>10, <1>11, <1>12,
       <1>13, <1>14, <1>15, <1>16, <1>17, <1>18, <1>19, <1>20, <1>21, <1>22,
       <1>23, <1>24, <1>25, <1>26, <1>27, <1>28, <1>29, <1>30, <1>31, <1>32,
       <1>33, <1>34, <1>35 DEF Next, Handshake, RunCDRead, PhaseSwitch

LEMMA SignalsStep ==
    IInv /\ Next => Signals'
<1> SUFFICES ASSUME IInv, Next PROVE Signals'  OBVIOUS
<1> USE DEF outside, work, bus, initiator, reader, sending, output, medium,
     game, history, drive
<1>1. ASSUME NEW cdb \in Commands, Select(cdb)  PROVE  Signals'
  BY <1>1, CommandsTyped DEF Select, Runs, IInv, Types, Flags, Signals,
       ReaderOwnsDrive, Resets, Bytes, DataBytes, StatusBytes, CommandBytes,
       Phases
<1>2. CASE Deselect
  BY <1>2 DEF Deselect, Runs, IInv, Types, Flags, Signals, ReaderOwnsDrive,
       Resets, Bytes, DataBytes, StatusBytes, CommandBytes, Phases
<1>3. CASE Put
  BY <1>3 DEF Put, Runs, IInv, Types, Flags, Signals, ReaderOwnsDrive, Resets,
       Bytes, DataBytes, StatusBytes, CommandBytes, Phases
<1>4. CASE Latch
  BY <1>4 DEF Latch, IInv, Types, Flags, Signals, ReaderOwnsDrive, Resets,
       Bytes, DataBytes, StatusBytes, CommandBytes, Phases
<1>5. CASE Take
  BY <1>5 DEF Take, Runs, GameForgets, IInv, Types, Flags, Signals,
       ReaderOwnsDrive, Resets, Bytes, DataBytes, StatusBytes, CommandBytes,
       Phases
<1>6. CASE LowerAck
  BY <1>6 DEF LowerAck, Runs, IInv, Types, Flags, Signals, ReaderOwnsDrive,
       Resets, Bytes, DataBytes, StatusBytes, CommandBytes, Phases
<1>7. CASE RaiseAttention
  BY <1>7 DEF RaiseAttention, Runs, IInv, Types, Flags, Signals,
       ReaderOwnsDrive, Resets, Bytes, DataBytes, StatusBytes, CommandBytes,
       Phases
<1>8. CASE ResetOn
  BY <1>8 DEF ResetOn, Runs, GameForgets, IInv, Types, Flags, Signals,
       ReaderOwnsDrive, Resets, Bytes, DataBytes, StatusBytes, CommandBytes,
       Phases
<1>9. CASE ResetOff
  BY <1>9 DEF ResetOff, Runs, IInv, Types, Flags, Signals, ReaderOwnsDrive,
       Resets, Bytes, DataBytes, StatusBytes, CommandBytes, Phases
<1>10. CASE TimePasses
  BY <1>10 DEF TimePasses, Runs, IInv, Types, Flags, Signals, ReaderOwnsDrive,
       Resets, Bytes, DataBytes, StatusBytes, CommandBytes, Phases
<1>11. CASE Eject
  BY <1>11 DEF Eject, IInv, Types, Flags, Signals, ReaderOwnsDrive, Resets,
       Bytes, DataBytes, StatusBytes, CommandBytes, Phases
<1>12. CASE Insert
  BY <1>12 DEF Insert, IInv, Types, Flags, Signals, ReaderOwnsDrive, Resets,
       Bytes, DataBytes, StatusBytes, CommandBytes, Phases
<1>13. CASE SaveAndLoadState
  BY <1>13 DEF SaveAndLoadState, IInv, Types, Flags, Signals, ReaderOwnsDrive,
       Resets, Bytes, DataBytes, StatusBytes, CommandBytes, Phases
<1>14. CASE NoSector
  BY <1>14 DEF NoSector, IInv, Types, Flags, Signals, ReaderOwnsDrive, Resets,
       Bytes, DataBytes, StatusBytes, CommandBytes, Phases
<1>15. CASE SectorRead
  BY <1>15 DEF SectorRead, SectorDue, Room, IInv, Types, Flags, Signals,
       ReaderOwnsDrive, Resets, Bytes, DataBytes, StatusBytes, CommandBytes,
       Phases
<1>16. CASE SectorFails
  BY <1>16 DEF SectorFails, SectorDue, Room, CommandCCError,
       SendStatusAndMessage, IInv, Types, Flags, Signals, ReaderOwnsDrive,
       Resets, Bytes, DataBytes, StatusBytes, CommandBytes, Phases
<1>17. CASE PlayEnds
  BY <1>17 DEF PlayEnds, IInv, Types, Flags, Signals, ReaderOwnsDrive, Resets,
       Bytes, DataBytes, StatusBytes, CommandBytes, Phases
<1>18. CASE VirtualReset
  BY <1>18 DEF VirtualReset, Switch, Transferred, Quiet, IInv, Types, Flags,
       Signals, ReaderOwnsDrive, Resets, Bytes, DataBytes, StatusBytes,
       CommandBytes, Phases
<1>19. CASE Selected
  BY <1>19 DEF Selected, Switch, In, Attends, Transferred, Quiet, IInv, Types,
       Flags, Signals, ReaderOwnsDrive, Resets, Bytes, DataBytes, StatusBytes,
       CommandBytes, Phases
<1>20. CASE Attention
  BY <1>20 DEF Attention, Switch, Attends, Transferred, Quiet, IInv, Types,
       Flags, Signals, ReaderOwnsDrive, Resets, Bytes, DataBytes, StatusBytes,
       CommandBytes, Phases
<1>21. CASE CommandByte
  BY <1>21 DEF CommandByte, Switch, In, Attends, Transferred, Quiet, IInv,
       Types, Flags, Signals, ReaderOwnsDrive, Resets, Bytes, DataBytes,
       StatusBytes, CommandBytes, Phases
<1>22. CASE CommandMore
  BY <1>22 DEF CommandMore, Switch, In, Attends, Transferred, Quiet,
       RequiredCDBLen, IInv, Types, Flags, Signals, ReaderOwnsDrive, Resets,
       Bytes, DataBytes, StatusBytes, CommandBytes, Phases
<1>23. CASE CommandDone
  <2>1. /\ pc' = "bus" /\ lastRst' = rst /\ rst' = rst /\ ~ack /\ ack' = ack
        /\ sel' = sel /\ held' = held /\ phase = "COMMAND" /\ ~req
    BY <1>23, CommandResult
  <2>2. /\ held = <<>> /\ ~sel /\ dataPos \in Nat /\ dataSize \in Nat
        /\ dataPos <= dataSize
    BY <2>1 DEF IInv, Types, Signals
  <2>3. CASE Ended  BY <2>1, <2>2, <2>3 DEF Signals, Resets, Ended
  <2>4. CASE SectorsToCome  BY <2>1, <2>2, <2>4 DEF Signals, Resets, SectorsToCome
  <2>5. CASE SenseToCome  BY <2>1, <2>2, <2>5 DEF Signals, Resets, SenseToCome
  <2>6. CASE ParametersToCome  BY <2>1, <2>2, <2>6 DEF Signals, Resets, ParametersToCome
  <2> QED  BY <1>23, <2>3, <2>4, <2>5, <2>6, CommandResult
<1>24. CASE DataOutByte
  BY <1>24 DEF DataOutByte, Switch, In, Attends, Transferred, Quiet, IInv,
       Types, Flags, Signals, ReaderOwnsDrive, Resets, Bytes, DataBytes,
       StatusBytes, CommandBytes, Phases
<1>25. CASE DataOutMore
  BY <1>25 DEF DataOutMore, Switch, In, Attends, Transferred, Quiet, IInv,
       Types, Flags, Signals, ReaderOwnsDrive, Resets, Bytes, DataBytes,
       StatusBytes, CommandBytes, Phases
<1>26. CASE DataOutDone
  BY <1>26 DEF DataOutDone, CommandCCError, SendStatusAndMessage, Switch, In,
       Attends, Transferred, Quiet, IInv, Types, Flags, Signals,
       ReaderOwnsDrive, Resets, Bytes, DataBytes, StatusBytes, CommandBytes,
       Phases
<1>27. CASE MessageOutByte
  BY <1>27 DEF MessageOutByte, Switch, In, Attends, Transferred, Quiet, IInv,
       Types, Flags, Signals, ReaderOwnsDrive, Resets, Bytes, DataBytes,
       StatusBytes, CommandBytes, Phases
<1>28. CASE StatusByte
  BY <1>28 DEF StatusByte, Switch, In, Attends, Transferred, Quiet, IInv, Types,
       Flags, Signals, ReaderOwnsDrive, Resets, Bytes, DataBytes, StatusBytes,
       CommandBytes, Phases
<1>29. CASE StatusDone
  BY <1>29 DEF StatusDone, Switch, In, Attends, Transferred, Quiet, IInv, Types,
       Flags, Signals, ReaderOwnsDrive, Resets, Bytes, DataBytes, StatusBytes,
       CommandBytes, Phases
<1>30. CASE DataInNext
  BY <1>30 DEF DataInNext, Switch, In, Attends, Transferred, Quiet, IInv, Types,
       Flags, Signals, ReaderOwnsDrive, Resets, Bytes, DataBytes, StatusBytes,
       CommandBytes, Phases
<1>31. CASE DataInDone
  BY <1>31 DEF DataInDone, CommandCCError, SendStatusAndMessage, Switch, In,
       Attends, Transferred, Quiet, IInv, Types, Flags, Signals,
       ReaderOwnsDrive, Resets, Bytes, DataBytes, StatusBytes, CommandBytes,
       Phases
<1>32. CASE DataInByte
  BY <1>32 DEF DataInByte, Switch, In, Attends, Transferred, Quiet, IInv, Types,
       Flags, Signals, ReaderOwnsDrive, Resets, Bytes, DataBytes, StatusBytes,
       CommandBytes, Phases
<1>33. CASE MessageInByte
  BY <1>33 DEF MessageInByte, Switch, In, Attends, Transferred, Quiet, IInv,
       Types, Flags, Signals, ReaderOwnsDrive, Resets, Bytes, DataBytes,
       StatusBytes, CommandBytes, Phases
<1>34. CASE MessageInDone
  BY <1>34 DEF MessageInDone, Switch, In, Attends, Transferred, Quiet, IInv,
       Types, Flags, Signals, ReaderOwnsDrive, Resets, Bytes, DataBytes,
       StatusBytes, CommandBytes, Phases
<1>35. CASE Waits
  BY <1>35 DEF Waits, Switch, Attends, Transferred, Quiet, IInv, Types, Flags,
       Signals, ReaderOwnsDrive, Resets, Bytes, DataBytes, StatusBytes,
       CommandBytes, Phases
<1> QED
  BY <1>1, <1>2, <1>3, <1>4, <1>5, <1>6, <1>7, <1>8, <1>9, <1>10, <1>11, <1>12,
       <1>13, <1>14, <1>15, <1>16, <1>17, <1>18, <1>19, <1>20, <1>21, <1>22,
       <1>23, <1>24, <1>25, <1>26, <1>27, <1>28, <1>29, <1>30, <1>31, <1>32,
       <1>33, <1>34, <1>35 DEF Next, Handshake, RunCDRead, PhaseSwitch

LEMMA ReaderStep ==
    IInv /\ Next => ReaderOwnsDrive'
<1> SUFFICES ASSUME IInv, Next PROVE ReaderOwnsDrive'  OBVIOUS
<1> USE DEF outside, work, bus, initiator, reader, sending, output, medium,
     game, history, drive
<1>1. ASSUME NEW cdb \in Commands, Select(cdb)  PROVE  ReaderOwnsDrive'
  BY <1>1, CommandsTyped DEF Select, Runs, IInv, Types, Flags, Signals,
       ReaderOwnsDrive, Buffer, Resets, FifoSize, Phases
<1>2. CASE Deselect
  BY <1>2 DEF Deselect, Runs, IInv, Types, Flags, Signals, ReaderOwnsDrive,
       Buffer, Resets, FifoSize, Phases
<1>3. CASE Put
  BY <1>3 DEF Put, Runs, IInv, Types, Flags, Signals, ReaderOwnsDrive, Buffer,
       Resets, FifoSize, Phases
<1>4. CASE Latch
  BY <1>4 DEF Latch, IInv, Types, Flags, Signals, ReaderOwnsDrive, Buffer,
       Resets, FifoSize, Phases
<1>5. CASE Take
  BY <1>5 DEF Take, Runs, GameForgets, IInv, Types, Flags, Signals,
       ReaderOwnsDrive, Buffer, Resets, FifoSize, Phases
<1>6. CASE LowerAck
  BY <1>6 DEF LowerAck, Runs, IInv, Types, Flags, Signals, ReaderOwnsDrive,
       Buffer, Resets, FifoSize, Phases
<1>7. CASE RaiseAttention
  BY <1>7 DEF RaiseAttention, Runs, IInv, Types, Flags, Signals,
       ReaderOwnsDrive, Buffer, Resets, FifoSize, Phases
<1>8. CASE ResetOn
  BY <1>8 DEF ResetOn, Runs, GameForgets, IInv, Types, Flags, Signals,
       ReaderOwnsDrive, Buffer, Resets, FifoSize, Phases
<1>9. CASE ResetOff
  BY <1>9 DEF ResetOff, Runs, IInv, Types, Flags, Signals, ReaderOwnsDrive,
       Buffer, Resets, FifoSize, Phases
<1>10. CASE TimePasses
  BY <1>10 DEF TimePasses, Runs, IInv, Types, Flags, Signals, ReaderOwnsDrive,
       Buffer, Resets, FifoSize, Phases
<1>11. CASE Eject
  BY <1>11 DEF Eject, IInv, Types, Flags, Signals, ReaderOwnsDrive, Buffer,
       Resets, FifoSize, Phases
<1>12. CASE Insert
  BY <1>12 DEF Insert, IInv, Types, Flags, Signals, ReaderOwnsDrive, Buffer,
       Resets, FifoSize, Phases
<1>13. CASE SaveAndLoadState
  BY <1>13 DEF SaveAndLoadState, IInv, Types, Flags, Signals, ReaderOwnsDrive,
       Buffer, Resets, FifoSize, Phases
<1>14. CASE NoSector
  BY <1>14 DEF NoSector, IInv, Types, Flags, Signals, ReaderOwnsDrive, Buffer,
       Resets, FifoSize, Phases
<1>15. CASE SectorRead
  BY <1>15, SectorTyped DEF SectorRead, SectorDue, Room, IInv, Types, Flags,
       Signals, ReaderOwnsDrive, Buffer, Resets, FifoSize, Phases
<1>16. CASE SectorFails
  BY <1>16 DEF SectorFails, SectorDue, Room, CommandCCError,
       SendStatusAndMessage, IInv, Types, Flags, Signals, ReaderOwnsDrive,
       Buffer, Resets, FifoSize, Phases
<1>17. CASE PlayEnds
  BY <1>17 DEF PlayEnds, IInv, Types, Flags, Signals, ReaderOwnsDrive, Buffer,
       Resets, FifoSize, Phases
<1>18. CASE VirtualReset
  BY <1>18 DEF VirtualReset, Switch, Transferred, Quiet, IInv, Types, Flags,
       Signals, ReaderOwnsDrive, Buffer, Resets, FifoSize, Phases
<1>19. CASE Selected
  BY <1>19 DEF Selected, Switch, In, Attends, Transferred, Quiet, IInv, Types,
       Flags, Signals, ReaderOwnsDrive, Buffer, Resets, FifoSize, Phases
<1>20. CASE Attention
  BY <1>20 DEF Attention, Switch, Attends, Transferred, Quiet, IInv, Types,
       Flags, Signals, ReaderOwnsDrive, Buffer, Resets, FifoSize, Phases
<1>21. CASE CommandByte
  BY <1>21 DEF CommandByte, Switch, In, Attends, Transferred, Quiet, IInv,
       Types, Flags, Signals, ReaderOwnsDrive, Buffer, Resets, FifoSize, Phases
<1>22. CASE CommandMore
  BY <1>22 DEF CommandMore, Switch, In, Attends, Transferred, Quiet,
       RequiredCDBLen, IInv, Types, Flags, Signals, ReaderOwnsDrive, Buffer,
       Resets, FifoSize, Phases
<1>23. CASE CommandDone
  <2>1. commandBuffer' = <<>> /\ system' = system  BY <1>23, CommandResult
  <2>2. FifoSize' \in Nat \ {0}  BY <2>1 DEF FifoSize
  <2>3. CASE Ended  BY <2>1, <2>2, <2>3 DEF ReaderOwnsDrive, Ended
  <2>4. CASE SectorsToCome  BY <2>1, <2>2, <2>4 DEF ReaderOwnsDrive, SectorsToCome
  <2>5. CASE SenseToCome  BY <2>1, <2>2, <2>5 DEF ReaderOwnsDrive, SenseToCome
  <2>6. CASE ParametersToCome  BY <2>1, <2>2, <2>6 DEF ReaderOwnsDrive, ParametersToCome
  <2> QED  BY <1>23, <2>3, <2>4, <2>5, <2>6, CommandResult
<1>24. CASE DataOutByte
  BY <1>24 DEF DataOutByte, Switch, In, Attends, Transferred, Quiet, IInv,
       Types, Flags, Signals, ReaderOwnsDrive, Buffer, Resets, FifoSize, Phases
<1>25. CASE DataOutMore
  BY <1>25 DEF DataOutMore, Switch, In, Attends, Transferred, Quiet, IInv,
       Types, Flags, Signals, ReaderOwnsDrive, Buffer, Resets, FifoSize, Phases
<1>26. CASE DataOutDone
  BY <1>26 DEF DataOutDone, CommandCCError, SendStatusAndMessage, Switch, In,
       Attends, Transferred, Quiet, IInv, Types, Flags, Signals,
       ReaderOwnsDrive, Buffer, Resets, FifoSize, Phases
<1>27. CASE MessageOutByte
  BY <1>27 DEF MessageOutByte, Switch, In, Attends, Transferred, Quiet, IInv,
       Types, Flags, Signals, ReaderOwnsDrive, Buffer, Resets, FifoSize, Phases
<1>28. CASE StatusByte
  BY <1>28 DEF StatusByte, Switch, In, Attends, Transferred, Quiet, IInv, Types,
       Flags, Signals, ReaderOwnsDrive, Buffer, Resets, FifoSize, Phases
<1>29. CASE StatusDone
  BY <1>29 DEF StatusDone, Switch, In, Attends, Transferred, Quiet, IInv, Types,
       Flags, Signals, ReaderOwnsDrive, Buffer, Resets, FifoSize, Phases
<1>30. CASE DataInNext
  BY <1>30 DEF DataInNext, Switch, In, Attends, Transferred, Quiet, IInv, Types,
       Flags, Signals, ReaderOwnsDrive, Buffer, Resets, FifoSize, Phases
<1>31. CASE DataInDone
  BY <1>31 DEF DataInDone, CommandCCError, SendStatusAndMessage, Switch, In,
       Attends, Transferred, Quiet, IInv, Types, Flags, Signals,
       ReaderOwnsDrive, Buffer, Resets, FifoSize, Phases
<1>32. CASE DataInByte
  BY <1>32 DEF DataInByte, Switch, In, Attends, Transferred, Quiet, IInv, Types,
       Flags, Signals, ReaderOwnsDrive, Buffer, Resets, FifoSize, Phases
<1>33. CASE MessageInByte
  BY <1>33 DEF MessageInByte, Switch, In, Attends, Transferred, Quiet, IInv,
       Types, Flags, Signals, ReaderOwnsDrive, Buffer, Resets, FifoSize, Phases
<1>34. CASE MessageInDone
  BY <1>34 DEF MessageInDone, Switch, In, Attends, Transferred, Quiet, IInv,
       Types, Flags, Signals, ReaderOwnsDrive, Buffer, Resets, FifoSize, Phases
<1>35. CASE Waits
  BY <1>35 DEF Waits, Switch, Attends, Transferred, Quiet, IInv, Types, Flags,
       Signals, ReaderOwnsDrive, Buffer, Resets, FifoSize, Phases
<1> QED
  BY <1>1, <1>2, <1>3, <1>4, <1>5, <1>6, <1>7, <1>8, <1>9, <1>10, <1>11, <1>12,
       <1>13, <1>14, <1>15, <1>16, <1>17, <1>18, <1>19, <1>20, <1>21, <1>22,
       <1>23, <1>24, <1>25, <1>26, <1>27, <1>28, <1>29, <1>30, <1>31, <1>32,
       <1>33, <1>34, <1>35 DEF Next, Handshake, RunCDRead, PhaseSwitch

LEMMA BufferStep ==
    IInv /\ Next => Buffer'
<1> SUFFICES ASSUME IInv, Next PROVE Buffer'  OBVIOUS
<1> USE DEF outside, work, bus, initiator, reader, sending, output, medium,
     game, history, drive
<1>1. ASSUME NEW cdb \in Commands, Select(cdb)  PROVE  Buffer'
  BY <1>1, CommandsTyped DEF Select, Runs, IInv, Types, Flags, Signals,
       ReaderOwnsDrive, Buffer, Resets, Phases
<1>2. CASE Deselect
  BY <1>2 DEF Deselect, Runs, IInv, Types, Flags, Signals, ReaderOwnsDrive,
       Buffer, Resets, Phases
<1>3. CASE Put
  BY <1>3 DEF Put, Runs, IInv, Types, Flags, Signals, ReaderOwnsDrive, Buffer,
       Resets, Phases
<1>4. CASE Latch
  BY <1>4 DEF Latch, IInv, Types, Flags, Signals, ReaderOwnsDrive, Buffer,
       Resets, Phases
<1>5. CASE Take
  BY <1>5 DEF Take, Runs, GameForgets, IInv, Types, Flags, Signals,
       ReaderOwnsDrive, Buffer, Resets, Phases
<1>6. CASE LowerAck
  BY <1>6 DEF LowerAck, Runs, IInv, Types, Flags, Signals, ReaderOwnsDrive,
       Buffer, Resets, Phases
<1>7. CASE RaiseAttention
  BY <1>7 DEF RaiseAttention, Runs, IInv, Types, Flags, Signals,
       ReaderOwnsDrive, Buffer, Resets, Phases
<1>8. CASE ResetOn
  BY <1>8 DEF ResetOn, Runs, GameForgets, IInv, Types, Flags, Signals,
       ReaderOwnsDrive, Buffer, Resets, Phases
<1>9. CASE ResetOff
  BY <1>9 DEF ResetOff, Runs, IInv, Types, Flags, Signals, ReaderOwnsDrive,
       Buffer, Resets, Phases
<1>10. CASE TimePasses
  BY <1>10 DEF TimePasses, Runs, IInv, Types, Flags, Signals, ReaderOwnsDrive,
       Buffer, Resets, Phases
<1>11. CASE Eject
  BY <1>11 DEF Eject, IInv, Types, Flags, Signals, ReaderOwnsDrive, Buffer,
       Resets, Phases
<1>12. CASE Insert
  BY <1>12 DEF Insert, IInv, Types, Flags, Signals, ReaderOwnsDrive, Buffer,
       Resets, Phases
<1>13. CASE SaveAndLoadState
  BY <1>13 DEF SaveAndLoadState, IInv, Types, Flags, Signals, ReaderOwnsDrive,
       Buffer, Resets, Phases
<1>14. CASE NoSector
  BY <1>14 DEF NoSector, IInv, Types, Flags, Signals, ReaderOwnsDrive, Buffer,
       Resets, Phases
<1>15. CASE SectorRead
  BY <1>15 DEF SectorRead, SectorDue, Room, IInv, Types, Flags, Signals,
       ReaderOwnsDrive, Buffer, Resets, Phases
<1>16. CASE SectorFails
  BY <1>16 DEF SectorFails, SectorDue, Room, CommandCCError,
       SendStatusAndMessage, IInv, Types, Flags, Signals, ReaderOwnsDrive,
       Buffer, Resets, Phases
<1>17. CASE PlayEnds
  BY <1>17 DEF PlayEnds, IInv, Types, Flags, Signals, ReaderOwnsDrive, Buffer,
       Resets, Phases
<1>18. CASE VirtualReset
  BY <1>18 DEF VirtualReset, Switch, Transferred, Quiet, IInv, Types, Flags,
       Signals, ReaderOwnsDrive, Buffer, Resets, Phases
<1>19. CASE Selected
  BY <1>19 DEF Selected, Switch, In, Attends, Transferred, Quiet, IInv, Types,
       Flags, Signals, ReaderOwnsDrive, Buffer, Resets, Phases
<1>20. CASE Attention
  BY <1>20 DEF Attention, Switch, Attends, Transferred, Quiet, IInv, Types,
       Flags, Signals, ReaderOwnsDrive, Buffer, Resets, Phases
<1>21. CASE CommandByte
  BY <1>21 DEF CommandByte, Switch, In, Attends, Transferred, Quiet, IInv,
       Types, Flags, Signals, ReaderOwnsDrive, Buffer, Resets, Phases
<1>22. CASE CommandMore
  BY <1>22 DEF CommandMore, Switch, In, Attends, Transferred, Quiet,
       RequiredCDBLen, IInv, Types, Flags, Signals, ReaderOwnsDrive, Buffer,
       Resets, Phases
<1>23. CASE CommandDone
  BY <1>23, CommandResult DEF Ended, SectorsToCome, SenseToCome,
       ParametersToCome, IInv, Types, Flags, Signals, ReaderOwnsDrive, Buffer,
       Resets, Phases
<1>24. CASE DataOutByte
  BY <1>24 DEF DataOutByte, Switch, In, Attends, Transferred, Quiet, IInv,
       Types, Flags, Signals, ReaderOwnsDrive, Buffer, Resets, Phases
<1>25. CASE DataOutMore
  BY <1>25 DEF DataOutMore, Switch, In, Attends, Transferred, Quiet, IInv,
       Types, Flags, Signals, ReaderOwnsDrive, Buffer, Resets, Phases
<1>26. CASE DataOutDone
  BY <1>26 DEF DataOutDone, CommandCCError, SendStatusAndMessage, Switch, In,
       Attends, Transferred, Quiet, IInv, Types, Flags, Signals,
       ReaderOwnsDrive, Buffer, Resets, Phases
<1>27. CASE MessageOutByte
  BY <1>27 DEF MessageOutByte, Switch, In, Attends, Transferred, Quiet, IInv,
       Types, Flags, Signals, ReaderOwnsDrive, Buffer, Resets, Phases
<1>28. CASE StatusByte
  BY <1>28 DEF StatusByte, Switch, In, Attends, Transferred, Quiet, IInv, Types,
       Flags, Signals, ReaderOwnsDrive, Buffer, Resets, Phases
<1>29. CASE StatusDone
  BY <1>29 DEF StatusDone, Switch, In, Attends, Transferred, Quiet, IInv, Types,
       Flags, Signals, ReaderOwnsDrive, Buffer, Resets, Phases
<1>30. CASE DataInNext
  BY <1>30 DEF DataInNext, Switch, In, Attends, Transferred, Quiet, IInv, Types,
       Flags, Signals, ReaderOwnsDrive, Buffer, Resets, Phases
<1>31. CASE DataInDone
  BY <1>31 DEF DataInDone, CommandCCError, SendStatusAndMessage, Switch, In,
       Attends, Transferred, Quiet, IInv, Types, Flags, Signals,
       ReaderOwnsDrive, Buffer, Resets, Phases
<1>32. CASE DataInByte
  BY <1>32 DEF DataInByte, Switch, In, Attends, Transferred, Quiet, IInv, Types,
       Flags, Signals, ReaderOwnsDrive, Buffer, Resets, Phases
<1>33. CASE MessageInByte
  BY <1>33 DEF MessageInByte, Switch, In, Attends, Transferred, Quiet, IInv,
       Types, Flags, Signals, ReaderOwnsDrive, Buffer, Resets, Phases
<1>34. CASE MessageInDone
  BY <1>34 DEF MessageInDone, Switch, In, Attends, Transferred, Quiet, IInv,
       Types, Flags, Signals, ReaderOwnsDrive, Buffer, Resets, Phases
<1>35. CASE Waits
  BY <1>35 DEF Waits, Switch, Attends, Transferred, Quiet, IInv, Types, Flags,
       Signals, ReaderOwnsDrive, Buffer, Resets, Phases
<1> QED
  BY <1>1, <1>2, <1>3, <1>4, <1>5, <1>6, <1>7, <1>8, <1>9, <1>10, <1>11, <1>12,
       <1>13, <1>14, <1>15, <1>16, <1>17, <1>18, <1>19, <1>20, <1>21, <1>22,
       <1>23, <1>24, <1>25, <1>26, <1>27, <1>28, <1>29, <1>30, <1>31, <1>32,
       <1>33, <1>34, <1>35 DEF Next, Handshake, RunCDRead, PhaseSwitch

\* The invariant that carries the others: IInv is inductive.
THEOREM DriveInvariant == Spec => []IInv
<1>1. Init => IInv
  <2> SUFFICES ASSUME Init  PROVE IInv  OBVIOUS
  <2>1. Types
    BY DEF Init, Types, Phases, Bytes
  <2>2. Flags
    BY DEF Init, Flags
  <2>3. Signals
    <3>1. /\ ~req /\ ~sel /\ ~rst /\ phase = "BUS_FREE" /\ held = <<>>
          /\ dataPos = 0 /\ dataSize = 0
      BY DEF Init
    <3>2. lastRst = rst
      BY Zenon DEF Init
    <3> QED  BY <3>1, <3>2 DEF Signals, Resets
  <2>4. ReaderOwnsDrive
    BY DEF Init, ReaderOwnsDrive, FifoSize
  <2>5. Buffer
    BY DEF Init, Buffer
  <2> QED  BY <2>1, <2>2, <2>3, <2>4, <2>5 DEF IInv
<1>2. IInv /\ [Next]_vars => IInv'
  <2> SUFFICES ASSUME IInv, [Next]_vars  PROVE IInv'  OBVIOUS
  <2>1. CASE Next
    BY <2>1, TypesStep, FlagsStep, SignalsStep, ReaderStep, BufferStep DEF IInv
  <2>2. CASE UNCHANGED vars
    <3>1. UNCHANGED <<outside, pc, bus, drive, history>>
      BY <2>2 DEF vars, outside
    <3> USE DEF outside, bus, initiator, drive, reader, sending, output, medium,
                game, history
    <3>2. Types' /\ Signals'
      BY <3>1 DEF IInv, Types, Signals, Resets
    <3>3. Flags'
      BY <3>1 DEF IInv, Flags
    <3>4. ReaderOwnsDrive'
      BY <3>1 DEF IInv, ReaderOwnsDrive, FifoSize
    <3>5. Buffer'
      BY <3>1 DEF IInv, Buffer, Resets
    <3> QED  BY <3>2, <3>3, <3>4, <3>5 DEF IInv
  <2> QED  BY <2>1, <2>2
<1> QED  BY <1>1, <1>2, PTL DEF Spec

\* The types of the drive, and the bytes each phase has on its bus.
THEOREM DriveTypes == Spec => []TypeOK
<1>1. IInv => TypeOK
  <2> SUFFICES ASSUME IInv  PROVE TypeOK  OBVIOUS
  <2>1. Types /\ Flags /\ Signals  BY DEF IInv
  <2>2. \A i \in DOMAIN din : din[i][1] \in {"data", "sense"}
    <3>1. \A b \in DataBytes : b[1] \in {"data", "sense"}  BY DEF DataBytes
    <3> QED  BY <2>1, <3>1 DEF Types
  <2>3. \A i \in DOMAIN commandBuffer : commandBuffer[i] \in Nat
    BY <2>1 DEF Types
  <2>4. cmd \in Commands \cup {<<>>} /\ sent \in 0 .. Len(cmd)
    <3>1. cmd \in Seq(Nat)  BY <2>1, CommandsTyped DEF Types
    <3> QED  BY <2>1, <3>1 DEF Types
  <2>5. /\ phase = "COMMAND" /\ req /\ ack => db[1] = "cmd"
        /\ phase = "STATUS" /\ req => db[1] = "status"
        /\ phase = "DATA_IN" /\ req => db[1] \in {"data", "sense"}
    BY <2>1 DEF Signals, StatusBytes, DataBytes
  <2>6. pc = "bus" => ~(req /\ ack)
    BY <2>1 DEF Signals
  <2>7. dataPos <= dataSize
    BY <2>1 DEF Signals
  <2> QED  BY <2>1, <2>2, <2>3, <2>4, <2>5, <2>6, <2>7 DEF TypeOK, Types, Flags,
       Statuses
<1> QED  BY <1>1, DriveInvariant, PTL

\* Sectors come to the bus only for the READ in progress, and neither
\* assertion of the FIFO can fail.
THEOREM ReaderHasDrive == Spec => []ReaderOwnsDrive
<1>1. IInv => ReaderOwnsDrive  BY DEF IInv
<1> QED  BY <1>1, DriveInvariant, PTL

-----------------------------------------------------------------------------
\* The bytes of k sectors from sector a on.
Upto(a, k) == [i \in 1 .. k * SectorSize |->
     <<"data", a + (i - 1) \div SectorSize, ((i - 1) % SectorSize) + 1>>]

LEMMA UptoTyped ==
    ASSUME NEW a \in Nat, NEW k \in Nat
    PROVE  Upto(a, k) \in Seq(DataBytes) /\ Len(Upto(a, k)) = k * SectorSize
<1> DEFINE n == k * SectorSize
<1>1. n \in Nat  OBVIOUS
<1>2. \A i \in 1 .. n : /\ (i - 1) \div SectorSize \in Nat
                        /\ ((i - 1) % SectorSize) + 1 \in Nat
  OBVIOUS
<1>3. Upto(a, k) = [i \in 1 .. n |->
         <<"data", a + (i - 1) \div SectorSize, ((i - 1) % SectorSize) + 1>>]
  BY DEF Upto
<1> HIDE DEF n
<1>4. \A i \in 1 .. n :
        <<"data", a + (i - 1) \div SectorSize, ((i - 1) % SectorSize) + 1>> \in DataBytes
  <2> SUFFICES ASSUME NEW i \in 1 .. n
                PROVE  <<"data", a + (i - 1) \div SectorSize,
                         ((i - 1) % SectorSize) + 1>> \in DataBytes
    OBVIOUS
  <2> DEFINE q == (i - 1) \div SectorSize
             r == ((i - 1) % SectorSize) + 1
  <2>1. q \in Nat /\ r \in Nat  BY <1>2
  <2> HIDE DEF q, r
  <2>2. <<"data", a + q, r>> \in DataBytes  BY <2>1 DEF DataBytes
  <2> QED  BY <2>2 DEF q, r
<1> DEFINE U == Upto(a, k)
<1>5. U \in [1 .. n -> DataBytes]
  BY <1>3, <1>4, Zenon
<1> HIDE DEF U
<1>6. U \in Seq(DataBytes) /\ Len(U) = n
  BY <1>1, <1>5
<1> QED  BY <1>6 DEF n, U

LEMMA UptoNone == ASSUME NEW a \in Nat PROVE Upto(a, 0) = <<>>
<1>1. 0 * SectorSize = 0  OBVIOUS
<1> QED  BY <1>1 DEF Upto

\* Where byte k * SectorSize + j of a disc lies.
LEMMA ByteOfSector ==
    ASSUME NEW k \in Nat, NEW j \in 1 .. SectorSize
    PROVE  /\ (k * SectorSize + j - 1) \div SectorSize = k
           /\ (k * SectorSize + j - 1) % SectorSize = j - 1
  OBVIOUS

\* One more sector of a READ.
LEMMA UptoMore ==
    ASSUME NEW a \in Nat, NEW k \in Nat
    PROVE  Upto(a, k) \o SectorData(a + k) = Upto(a, k + 1)
<1> DEFINE n == k * SectorSize
           U == Upto(a, k)
           D == SectorData(a + k)
           V == Upto(a, k + 1)
<1>1. n \in Nat /\ (k + 1) * SectorSize = n + SectorSize  OBVIOUS
<1>2. U \in Seq(DataBytes) /\ Len(U) = n  BY UptoTyped
<1>3. D \in Seq(DataBytes) /\ Len(D) = SectorSize  BY SectorTyped
<1>4. V \in Seq(DataBytes) /\ Len(V) = n + SectorSize  BY <1>1, UptoTyped
<1>5. \A i \in 1 .. n : U[i] = V[i]
  BY <1>1 DEF Upto
<1>6. \A j \in 1 .. SectorSize : D[j] = V[n + j]
  <2> SUFFICES ASSUME NEW j \in 1 .. SectorSize  PROVE D[j] = V[n + j]
    OBVIOUS
  <2>1. n + j \in 1 .. (k + 1) * SectorSize  BY <1>1
  <2>2. V[n + j] = <<"data", a + (n + j - 1) \div SectorSize,
                     ((n + j - 1) % SectorSize) + 1>>
    BY <2>1 DEF Upto
  <2>3. (n + j - 1) \div SectorSize = k /\ (n + j - 1) % SectorSize = j - 1
    BY ByteOfSector
  <2>4. D[j] = <<"data", a + k, j>>  BY DEF SectorData
  <2> HIDE DEF n, U, D, V
  <2> QED  BY <2>2, <2>3, <2>4
<1> HIDE DEF n, U, D, V
<1>7. U \o D = V
  <2>1. U \o D \in Seq(DataBytes) /\ Len(U \o D) = n + SectorSize
    BY <1>2, <1>3
  <2>2. \A i \in 1 .. n + SectorSize : (U \o D)[i] = V[i]
    <3> SUFFICES ASSUME NEW i \in 1 .. n + SectorSize  PROVE (U \o D)[i] = V[i]
      OBVIOUS
    <3>1. CASE i <= n
      BY <1>1, <1>2, <1>3, <1>5, <3>1
    <3>2. CASE i > n
      <4>1. i - n \in 1 .. SectorSize /\ i = n + (i - n)  BY <1>1, <3>2
      <4>2. (U \o D)[i] = D[i - n]  BY <1>1, <1>2, <1>3, <3>2
      <4> QED  BY <1>6, <4>1, <4>2
    <3>3. n \in Int /\ n + SectorSize \in Int  BY <1>1
    <3>4. i \in Int  BY <3>3
    <3>5. i <= n \/ i > n  BY <3>3, <3>4
    <3> QED  BY <3>1, <3>2, <3>5, Zenon
  <2> QED  BY <1>1, <1>4, <2>1, <2>2
<1> QED  BY <1>7 DEF U, D, V

\* The bytes taken, the one on the bus and those in the FIFO are one stream.
LEMMA StreamSteps ==
    ASSUME NEW S, NEW g \in Seq(S), NEW b \in S, NEW d \in Seq(S)
    PROVE  /\ Append(g, b) \o <<>> \o d = g \o <<b>> \o d
           /\ d # <<>> => g \o <<Head(d)>> \o Tail(d) = g \o <<>> \o d
           /\ \A e \in Seq(S) :
                /\ g \o <<>> \o (d \o e) = (g \o <<>> \o d) \o e
                /\ g \o <<b>> \o (d \o e) = (g \o <<b>> \o d) \o e
           /\ g \o <<>> \o <<>> = g
<1>1. g \o <<>> = g /\ g \o <<>> \o <<>> = g /\ Append(g, b) = g \o <<b>>
  OBVIOUS
<1>2. <<b>> \in Seq(S) /\ <<>> \in Seq(S)
  OBVIOUS
<1>3. Append(g, b) \o <<>> = Append(g, b)
  OBVIOUS
<1>4. \A s, t, u \in Seq(S) : s \o (t \o u) = (s \o t) \o u
  OBVIOUS
<1>5. d # <<>> => <<Head(d)>> \o Tail(d) = d /\ Head(d) \in S /\ Tail(d) \in Seq(S)
  OBVIOUS
<1>6. d # <<>> => g \o <<Head(d)>> \o Tail(d) = g \o <<>> \o d
  <2> SUFFICES ASSUME d # <<>>  PROVE g \o <<Head(d)>> \o Tail(d) = g \o d
    BY <1>1
  <2> DEFINE h == <<Head(d)>>
             t == Tail(d)
  <2>1. h \in Seq(S) /\ t \in Seq(S) /\ h \o t = d  BY <1>5
  <2> HIDE DEF h, t
  <2>2. g \o h \o t = g \o d  BY <1>4, <2>1
  <2> QED  BY <2>2 DEF h, t
<1>7. g \o <<b>> \in Seq(S)
  OBVIOUS
<1>8. Append(g, b) \o <<>> \o d = g \o <<b>> \o d
  BY <1>1, <1>3
<1>9. ASSUME NEW e \in Seq(S)
      PROVE  /\ g \o <<>> \o (d \o e) = (g \o <<>> \o d) \o e
             /\ g \o <<b>> \o (d \o e) = (g \o <<b>> \o d) \o e
  <2>1. g \o (d \o e) = (g \o d) \o e  BY <1>4
  <2>2. (g \o <<b>>) \o (d \o e) = (g \o <<b>> \o d) \o e  BY <1>4, <1>7
  <2> QED  BY <1>1, <2>1, <2>2
<1> QED  BY <1>1, <1>6, <1>8, <1>9

Reading == cmd # <<>> /\ cmd[1] \in {Read6, Read10} /\ ~spoiled
Flight == IF phase = "DATA_IN" /\ req /\ ~ack THEN <<db>> ELSE <<>>

\* What passes between the drive and the game: the byte held is the one on the
\* bus (unless an error came in between), the data come before the status, the
\* status before the message.
Talk ==
    /\ got \in Seq(DataBytes)
    /\ phase = "MESSAGE_IN" => db = <<"message">>
    /\ held \in {<<>>, db} \/
         (held \in DataBytes /\ phase = "STATUS" /\ db = <<"status", "CHECK">> /\ clash)
    /\ phase = "COMMAND" \/ sel => got = <<>>
    /\ told # "NONE" => /\ ~timer /\ ~sel
                        /\ phase \in {"BUS_FREE", "STATUS", "MESSAGE_IN", "MESSAGE_OUT"}
                        /\ phase = "STATUS" /\ req => ack
    /\ cmd # <<>> => \/ told # "NONE" \/ clash
                     \/ /\ phase # "MESSAGE_IN"
                        /\ phase = "STATUS" => req /\ ~ack

\* During a READ: the bytes taken, the one on the bus and those in the FIFO are
\* the first of those wanted, up to the sector the reader is at.
Coming ==
    Reading /\ ~lost /\ (timer \/ phase = "DATA_IN") =>
       /\ sectorCount <= Asked(cmd)
       /\ sectorAddr = cmd[2] + (Asked(cmd) - sectorCount)
       /\ got \o Flight \o din = Upto(cmd[2], Asked(cmd) - sectorCount)
       /\ phase = "DATA_IN" => (transferDone <=> sectorCount = 0)

\* A READ ends with GOOD only when all has been taken.
Whole ==
    /\ Reading => phase # "DATA_OUT"
    /\ Reading /\ ~lost =>
       /\ phase = "STATUS" /\ req /\ db = <<"status", "GOOD">> => got = Wanted(cmd)
       /\ told = "GOOD" => got = Wanted(cmd)

Progress == Talk /\ Coming /\ Whole

\* What these depend on, and the steps that leave it alone.
tracked == <<phase, req, db, ack, sel, din, timer, sectorAddr, sectorCount,
             transferDone, cmd, held, got, told, spoiled, clash, lost>>

LEMMA IdleSteps ==
    \/ RaiseAttention \/ TimePasses \/ Eject \/ Insert \/ NoSector \/ PlayEnds
    \/ Waits
    => UNCHANGED tracked
<1> USE DEF outside, work, bus, initiator, reader, sending, output, medium,
     game, history, drive, tracked
<1>1. CASE RaiseAttention
  BY <1>1 DEF RaiseAttention, Runs
<1>2. CASE TimePasses
  BY <1>2 DEF TimePasses, Runs
<1>3. CASE Eject
  BY <1>3 DEF Eject
<1>4. CASE Insert
  BY <1>4 DEF Insert
<1>5. CASE NoSector
  BY <1>5 DEF NoSector
<1>6. CASE PlayEnds
  BY <1>6 DEF PlayEnds
<1>7. CASE Waits
  BY <1>7 DEF Waits, Switch, In
<1> QED  BY <1>1, <1>2, <1>3, <1>4, <1>5, <1>6, <1>7

\* The byte the game holds, in the three phases that send one.
LEMMA HeldByte ==
    ASSUME IInv, Talk, held # <<>>
    PROVE  /\ req /\ ~ack /\ ~sel
           /\ ~timer \/ phase = "DATA_IN"
           /\ \/ phase = "DATA_IN" /\ held = db /\ db \in DataBytes
              \/ phase = "STATUS" /\ held = db /\ db \in StatusBytes
              \/ phase = "STATUS" /\ held \in DataBytes /\ db = <<"status", "CHECK">> /\ clash
              \/ phase = "MESSAGE_IN" /\ held = <<"message">>
<1>1. /\ req /\ ~ack /\ ~sel /\ phase \in {"DATA_IN", "STATUS", "MESSAGE_IN"}
      /\ ~timer \/ phase = "DATA_IN"
      /\ phase = "DATA_IN" => db \in DataBytes
      /\ phase = "STATUS" => db \in StatusBytes
  BY DEF IInv, Signals, ReaderOwnsDrive
<1>2. /\ phase = "MESSAGE_IN" => db = <<"message">>
      /\ held = db \/
         (held \in DataBytes /\ phase = "STATUS" /\ db = <<"status", "CHECK">> /\ clash)
  BY Zenon DEF Talk
<1> QED  BY <1>1, <1>2

LEMMA TalkStep ==
    IInv /\ Progress /\ Next => Talk'
<1> SUFFICES ASSUME IInv, Progress, Next  PROVE Talk'  OBVIOUS
<1> USE DEF outside, work, bus, initiator, reader, sending, output, medium,
     game, history, drive
<1>1. CASE UNCHANGED tracked
  BY <1>1 DEF tracked, Talk, Progress, IInv, Types, Flags, Signals,
       ReaderOwnsDrive, Resets
<1>2. ASSUME NEW cdb \in Commands, Select(cdb)  PROVE Talk'
  BY <1>2 DEF Select, Runs, Talk, Progress, IInv, Types, Flags, Signals,
       ReaderOwnsDrive, Resets, DataBytes, StatusBytes
<1>3. CASE Deselect
  BY <1>3 DEF Deselect, Runs, Talk, Progress, IInv, Types, Flags, Signals,
       ReaderOwnsDrive, Resets, DataBytes, StatusBytes
<1>4. CASE Put
  BY <1>4 DEF Put, Runs, Talk, Progress, IInv, Types, Flags, Signals,
       ReaderOwnsDrive, Resets, DataBytes, StatusBytes
<1>5. CASE Latch
  BY <1>5 DEF Latch, Talk, Progress, IInv, Types, Flags, Signals,
       ReaderOwnsDrive, Resets, DataBytes, StatusBytes
<1>6. CASE Take
  <2>1. UNCHANGED <<phase, req, db, sel, timer, clash>> /\ ack' = TRUE /\ held # <<>>
    BY <1>6 DEF Take, Runs
  <2>2. Talk  BY DEF Progress
  <2>3. CASE phase = "MESSAGE_IN" /\ held = <<"message">>
    <3>1. got' = <<>> /\ told' = "NONE" /\ cmd' = <<>> /\ held' = <<>>
      BY <1>6, <2>3 DEF Take, GameForgets
    <3> QED  BY <2>1, <2>2, <2>3, <3>1 DEF Talk
  <2>4. CASE phase = "STATUS" /\ held \in StatusBytes
    <3>1. /\ got' = got /\ told' = held[2] /\ cmd' = cmd /\ held' = <<>>
          /\ held[2] # "NONE"
      BY <1>6, <2>4 DEF Take, StatusBytes
    <3>2. ~sel /\ ~timer
      BY <2>1, <2>2, <2>4, HeldByte
    <3> QED  BY <2>1, <2>2, <2>4, <3>1, <3>2 DEF Talk
  <2>5. CASE phase \in {"DATA_IN", "STATUS"} /\ held \in DataBytes
    <3>1. got' = Append(got, held) /\ told' = told /\ cmd' = cmd /\ held' = <<>>
      BY <1>6, <2>5 DEF Take, DataBytes
    <3>2. ~sel /\ (phase = "STATUS" => clash)
      <4>1. held \notin StatusBytes /\ held # <<"message">>
        BY <2>5 DEF StatusBytes, DataBytes
      <4> QED  BY <2>1, <2>2, <4>1, HeldByte
    <3> HIDE DEF outside, work, bus, initiator, reader, sending, output, medium,
         game, history, drive
    <3>3. Append(got, held) \in Seq(DataBytes)
      BY <2>2, <2>5 DEF Talk
    <3> QED  BY <2>1, <2>2, <2>5, <3>1, <3>2, <3>3 DEF Talk
  <2> QED  BY <2>1, <2>2, <2>3, <2>4, <2>5, HeldByte
<1>7. CASE LowerAck
  BY <1>7 DEF LowerAck, Runs, Talk, Progress, IInv, Types, Flags, Signals,
       ReaderOwnsDrive, Resets, DataBytes, StatusBytes
<1>8. CASE ResetOn
  BY <1>8 DEF ResetOn, Runs, GameForgets, Talk, Progress, IInv, Types, Flags,
       Signals, ReaderOwnsDrive, Resets, DataBytes, StatusBytes
<1>9. CASE ResetOff
  BY <1>9 DEF ResetOff, Runs, Talk, Progress, IInv, Types, Flags, Signals,
       ReaderOwnsDrive, Resets, DataBytes, StatusBytes
<1>10. CASE SaveAndLoadState
  BY <1>10 DEF SaveAndLoadState, Talk, Progress, IInv, Types, Flags, Signals,
       ReaderOwnsDrive, Resets, DataBytes, StatusBytes
<1>11. CASE SectorRead
  BY <1>11 DEF SectorRead, SectorDue, Room, Talk, Progress, IInv, Types,
       Flags, Signals, ReaderOwnsDrive, Resets, DataBytes, StatusBytes
<1>12. CASE SectorFails
  BY <1>12 DEF SectorFails, SectorDue, Room, CommandCCError,
       SendStatusAndMessage, Talk, Progress, IInv, Types, Flags, Signals,
       ReaderOwnsDrive, Resets, DataBytes, StatusBytes
<1>13. CASE VirtualReset
  BY <1>13 DEF VirtualReset, Switch, Talk, Progress, IInv, Types, Flags,
       Signals, ReaderOwnsDrive, Resets, DataBytes, StatusBytes
<1>14. CASE Selected
  BY <1>14 DEF Selected, In, Switch, Talk, Progress, IInv, Types, Flags,
       Signals, ReaderOwnsDrive, Resets, DataBytes, StatusBytes
<1>15. CASE Attention
  BY <1>15 DEF Attention, Switch, Attends, Talk, Progress, IInv, Types, Flags,
       Signals, ReaderOwnsDrive, Resets, DataBytes, StatusBytes
<1>16. CASE CommandByte
  BY <1>16 DEF CommandByte, In, Switch, Transferred, Talk, Progress, IInv,
       Types, Flags, Signals, ReaderOwnsDrive, Resets, DataBytes, StatusBytes
<1>17. CASE CommandMore
  BY <1>17 DEF CommandMore, In, Switch, Quiet, Talk, Progress, IInv, Types,
       Flags, Signals, ReaderOwnsDrive, Resets, DataBytes, StatusBytes
<1>18. CASE CommandDone
  <2>1. /\ phase = "COMMAND" /\ ~sel
        /\ UNCHANGED <<sel, cmd, held, got, told, clash, ack>> /\ ~ack
    BY <1>18, CommandResult DEF IInv, Signals
  <2>2. got = <<>> /\ told = "NONE" /\ held = <<>>
    BY <2>1 DEF IInv, Signals, Progress, Talk
  <2>3. /\ phase' # "MESSAGE_IN"
        /\ phase' = "STATUS" => req' /\ ~ack'
    BY <1>18, <2>1, CommandResult DEF Ended, SectorsToCome, SenseToCome, ParametersToCome
  <2> QED  BY <2>1, <2>2, <2>3 DEF Progress, Talk
<1>19. CASE DataOutByte
  BY <1>19 DEF DataOutByte, In, Switch, Transferred, Talk, Progress, IInv,
       Types, Flags, Signals, ReaderOwnsDrive, Resets, DataBytes, StatusBytes
<1>20. CASE DataOutMore
  BY <1>20 DEF DataOutMore, In, Switch, Quiet, Talk, Progress, IInv, Types,
       Flags, Signals, ReaderOwnsDrive, Resets, DataBytes, StatusBytes
<1>21. CASE DataOutDone
  BY <1>21 DEF DataOutDone, CommandCCError, SendStatusAndMessage, In, Switch,
       Quiet, Talk, Progress, IInv, Types, Flags, Signals, ReaderOwnsDrive,
       Resets, DataBytes, StatusBytes
<1>22. CASE MessageOutByte
  BY <1>22 DEF MessageOutByte, In, Switch, Transferred, Talk, Progress, IInv,
       Types, Flags, Signals, ReaderOwnsDrive, Resets, DataBytes, StatusBytes
<1>23. CASE StatusByte
  BY <1>23 DEF StatusByte, In, Switch, Transferred, Talk, Progress, IInv,
       Types, Flags, Signals, ReaderOwnsDrive, Resets, DataBytes, StatusBytes
<1>24. CASE StatusDone
  BY <1>24 DEF StatusDone, In, Switch, Quiet, Talk, Progress, IInv, Types,
       Flags, Signals, ReaderOwnsDrive, Resets, DataBytes, StatusBytes
<1>25. CASE DataInNext
  BY <1>25 DEF DataInNext, In, Switch, Quiet, Talk, Progress, IInv, Types,
       Flags, Signals, ReaderOwnsDrive, Resets, DataBytes, StatusBytes
<1>26. CASE DataInDone
  BY <1>26 DEF DataInDone, SendStatusAndMessage, In, Switch, Quiet, Talk,
       Progress, IInv, Types, Flags, Signals, ReaderOwnsDrive, Resets,
       DataBytes, StatusBytes
<1>27. CASE DataInByte
  BY <1>27 DEF DataInByte, In, Switch, Transferred, Talk, Progress, IInv,
       Types, Flags, Signals, ReaderOwnsDrive, Resets, DataBytes, StatusBytes
<1>28. CASE MessageInByte
  BY <1>28 DEF MessageInByte, In, Switch, Transferred, Talk, Progress, IInv,
       Types, Flags, Signals, ReaderOwnsDrive, Resets, DataBytes, StatusBytes
<1>29. CASE MessageInDone
  BY <1>29 DEF MessageInDone, In, Switch, Quiet, Talk, Progress, IInv, Types,
       Flags, Signals, ReaderOwnsDrive, Resets, DataBytes, StatusBytes
<1> QED
  BY <1>1, <1>2, <1>3, <1>4, <1>5, <1>6, <1>7, <1>8, <1>9, <1>10, <1>11,
       <1>12, <1>13, <1>14, <1>15, <1>16, <1>17, <1>18, <1>19, <1>20, <1>21,
       <1>22, <1>23, <1>24, <1>25, <1>26, <1>27, <1>28, <1>29, IdleSteps DEF
       Next, Handshake, RunCDRead, PhaseSwitch


\* The bytes of the command are in the buffer, unless an earlier one was cut short.
LEMMA CommandArrives ==
    ASSUME IInv, CommandDone, ~cut
    PROVE  commandBuffer = cmd
<1>1. /\ phase = "COMMAND" /\ ~Resets /\ ~(req /\ ack)
      /\ commandBuffer # <<>>
      /\ Len(commandBuffer) = RequiredCDBLen(commandBuffer[1])
  BY DEF CommandDone, In, Quiet
<1>2. /\ Len(commandBuffer) = sent
      /\ \A i \in 1 .. Len(commandBuffer) : commandBuffer[i] = cmd[i]
  BY <1>1 DEF IInv, Buffer
<1>3. /\ commandBuffer \in Seq(Nat) /\ sent \in Nat /\ sent <= Len(cmd)
      /\ cmd \in Commands \cup {<<>>}
  BY DEF IInv, Types
<1>4. cmd \in Seq(Nat)
  BY <1>3, CommandsTyped
<1>5. sent # 0
  BY <1>1, <1>2, <1>3
<1>6. cmd \in Commands
  BY <1>3, <1>4, <1>5
<1>7. Len(cmd) = RequiredCDBLen(cmd[1])
  BY <1>6, DriveAssumption
<1>8. commandBuffer[1] = cmd[1]
  BY <1>2, <1>3, <1>5
<1>9. Len(cmd) = Len(commandBuffer)
  BY <1>1, <1>7, <1>8
<1> QED  BY <1>2, <1>3, <1>4, <1>9

LEMMA ReadCommand ==
    ASSUME IInv, cmd # <<>>
    PROVE  cmd[1] \in Nat /\ cmd[2] \in Nat /\ cmd[3] \in Nat /\ Asked(cmd) \in Nat
<1>1. cmd \in Commands /\ cmd \in Seq(Nat)
  BY CommandsTyped DEF IInv, Types
<1>2. Len(cmd) >= 3
  <2>1. Len(cmd) = RequiredCDBLen(cmd[1])
    BY <1>1, DriveAssumption
  <2> QED  BY <2>1 DEF RequiredCDBLen
<1>3. cmd[1] \in Nat /\ cmd[2] \in Nat /\ cmd[3] \in Nat
  BY <1>1, <1>2
<1> QED  BY <1>3, DriveAssumption DEF Asked

\* How a READ begins: its sectors are to come, or it has ended.
LEMMA ReadBegins ==
    ASSUME IInv, CommandDone, Reading'
    PROVE  /\ Reading \/ spoiled
           /\ \/ SectorsToCome /\ sectorAddr' = cmd[2] /\ sectorCount' = Asked(cmd)
              \/ Ended /\ (db' = <<"status", "CHECK">> \/ Asked(cmd) = 0)
<1>1. cmd' = cmd /\ spoiled' = cut
  BY CommandResult DEF game
<1>2. cmd # <<>> /\ cmd[1] \in {Read6, Read10} /\ ~cut
  BY <1>1 DEF Reading
<1>3. commandBuffer = cmd
  BY <1>2, CommandArrives
<1>4. DoCommand(cmd)
  BY <1>3 DEF CommandDone
<1>5. Ended \/ SectorsToCome \/ SenseToCome \/ ParametersToCome
  BY CommandResult
<1>6. \/ CommandCCError
      \/ DoREADBase(cmd[2], Asked(cmd))
  BY <1>2, <1>4 DEF DoCommand, Asked, TestUnitReady, RequestSense, Read6,
       ModeSelect, Read10, Play
<1>7. CASE CommandCCError
  <2>1. phase' = "STATUS" /\ db' = <<"status", "CHECK">>
    BY <1>7 DEF CommandCCError, SendStatusAndMessage
  <2> QED  BY <1>2, <1>5, <2>1 DEF Reading, SectorsToCome, SenseToCome, ParametersToCome
<1>8. CASE DoREADBase(cmd[2], Asked(cmd)) /\ ~CommandCCError
  <2>1. /\ sectorAddr' = cmd[2] /\ sectorCount' = Asked(cmd)
        /\ IF Asked(cmd) = 0 THEN SendStatusAndMessage("GOOD")
                             ELSE UNCHANGED <<bus, din, sending>>
    BY <1>8 DEF DoREADBase
  <2>2. CASE Asked(cmd) = 0
    <3>1. phase' = "STATUS"  BY <2>1, <2>2 DEF SendStatusAndMessage
    <3> QED  BY <1>2, <1>5, <2>2, <3>1 DEF Reading, SectorsToCome, SenseToCome, ParametersToCome
  <2>3. CASE Asked(cmd) # 0
    <3>1. phase' = "COMMAND"
      BY <2>1, <2>3, CommandResult DEF bus
    <3> QED  BY <1>2, <1>5, <2>1, <3>1 DEF Reading, Ended, SenseToCome, ParametersToCome
  <2> QED  BY <2>2, <2>3
<1> QED  BY <1>6, <1>7, <1>8

LEMMA WholeStep ==
    IInv /\ Progress /\ Next => Whole'
<1> SUFFICES ASSUME IInv, Progress, Next  PROVE Whole'  OBVIOUS
<1> USE DEF outside, work, bus, initiator, reader, sending, output, medium,
     game, history, drive
<1>1. CASE UNCHANGED tracked
  BY <1>1 DEF tracked, Whole, Reading, Progress, IInv, Types, Flags, Signals,
       ReaderOwnsDrive
<1>2. ASSUME NEW cdb \in Commands, Select(cdb)  PROVE Whole'
  BY <1>2 DEF Select, Runs, Whole, Reading, Progress, IInv, Types, Flags,
       Signals, ReaderOwnsDrive, Talk, Resets
<1>3. CASE Deselect
  BY <1>3 DEF Deselect, Runs, Whole, Reading, Progress, IInv, Types, Flags,
       Signals, ReaderOwnsDrive, Talk, Resets
<1>4. CASE Put
  BY <1>4 DEF Put, Runs, Whole, Reading, Progress, IInv, Types, Flags,
       Signals, ReaderOwnsDrive, Talk, Resets
<1>5. CASE Latch
  BY <1>5 DEF Latch, Whole, Reading, Progress, IInv, Types, Flags, Signals,
       ReaderOwnsDrive, Talk, Resets
<1>6. CASE Take
  <2>1. /\ UNCHANGED <<phase, req, db, spoiled, lost>> /\ ack' = TRUE /\ held # <<>>
    BY <1>6 DEF Take, Runs
  <2>2. Talk  BY DEF Progress
  <2>3. CASE held = <<"message">>
    <3>1. cmd' = <<>>
      BY <1>6, <2>3 DEF Take, GameForgets
    <3> QED  BY <3>1 DEF Whole, Reading
  <2>4. CASE phase = "STATUS" /\ held = db /\ held \in StatusBytes
    <3>1. /\ got' = got /\ told' = held[2] /\ cmd' = cmd
          /\ held[2] = "GOOD" => held = <<"status", "GOOD">>
      BY <1>6, <2>4 DEF Take, StatusBytes
    <3>2. req
      BY <2>1, <2>2, HeldByte
    <3> QED  BY <2>1, <2>4, <3>1, <3>2 DEF Whole, Reading, Progress
  <2>5. CASE /\ held \in DataBytes
             /\ phase = "DATA_IN" \/ (phase = "STATUS" /\ db = <<"status", "CHECK">>)
    <3>1. told' = told /\ cmd' = cmd
      BY <1>6, <2>5 DEF Take, DataBytes
    <3>2. told = "NONE"
      <4>1. req /\ ~ack
        BY <2>1, <2>2, HeldByte
      <4> QED  BY <2>2, <2>5, <4>1 DEF Talk
    <3> QED  BY <2>1, <2>5, <3>1, <3>2 DEF Whole, Reading, Progress
  <2> QED  BY <2>1, <2>2, <2>3, <2>4, <2>5, HeldByte
<1>7. CASE LowerAck
  BY <1>7 DEF LowerAck, Runs, Whole, Reading, Progress, IInv, Types, Flags,
       Signals, ReaderOwnsDrive, Talk, Resets
<1>8. CASE ResetOn
  BY <1>8 DEF ResetOn, Runs, GameForgets, Whole, Reading, Progress, IInv,
       Types, Flags, Signals, ReaderOwnsDrive, Talk, Resets
<1>9. CASE ResetOff
  BY <1>9 DEF ResetOff, Runs, Whole, Reading, Progress, IInv, Types, Flags,
       Signals, ReaderOwnsDrive, Talk, Resets
<1>10. CASE SaveAndLoadState
  BY <1>10 DEF SaveAndLoadState, Whole, Reading, Progress, IInv, Types, Flags,
       Signals, ReaderOwnsDrive, Talk, Resets
<1>11. CASE SectorRead
  BY <1>11 DEF SectorRead, SectorDue, Room, Whole, Reading, Progress, IInv,
       Types, Flags, Signals, ReaderOwnsDrive, Talk, Resets
<1>12. CASE SectorFails
  BY <1>12 DEF SectorFails, SectorDue, Room, CommandCCError,
       SendStatusAndMessage, Whole, Reading, Progress, IInv, Types, Flags,
       Signals, ReaderOwnsDrive, Talk, Resets
<1>13. CASE VirtualReset
  BY <1>13 DEF VirtualReset, Switch, Whole, Reading, Progress, IInv, Types,
       Flags, Signals, ReaderOwnsDrive, Talk, Resets
<1>14. CASE Selected
  BY <1>14 DEF Selected, In, Switch, Whole, Reading, Progress, IInv, Types,
       Flags, Signals, ReaderOwnsDrive, Talk, Resets
<1>15. CASE Attention
  BY <1>15 DEF Attention, Switch, Attends, Whole, Reading, Progress, IInv,
       Types, Flags, Signals, ReaderOwnsDrive, Talk, Resets
<1>16. CASE CommandByte
  BY <1>16 DEF CommandByte, In, Switch, Transferred, Whole, Reading, Progress,
       IInv, Types, Flags, Signals, ReaderOwnsDrive, Talk, Resets
<1>17. CASE CommandMore
  BY <1>17 DEF CommandMore, In, Switch, Quiet, Whole, Reading, Progress, IInv,
       Types, Flags, Signals, ReaderOwnsDrive, Talk, Resets
<1>18. CASE CommandDone
  <2> SUFFICES ASSUME Reading'
               PROVE  /\ phase' # "DATA_OUT" /\ told' # "GOOD"
                      /\ ~lost' /\ phase' = "STATUS" /\ db' = <<"status", "GOOD">>
                           => got' = Wanted(cmd')
    BY DEF Whole
  <2>1. cmd' = cmd /\ got' = got /\ told' = told /\ cmd # <<>> /\ phase = "COMMAND"
    BY <1>18, CommandResult DEF Reading
  <2>2. got = <<>> /\ told = "NONE"
    BY <2>1 DEF Progress, Talk
  <2>3. \/ phase' = "COMMAND"
        \/ phase' = "STATUS" /\ (db' = <<"status", "CHECK">> \/ Asked(cmd) = 0)
    BY <1>18, ReadBegins DEF Ended, SectorsToCome
  <2>4. Asked(cmd) = 0 => Wanted(cmd) = <<>>
    <3>1. cmd[2] \in Nat  BY <2>1, ReadCommand
    <3> QED  BY <3>1, UptoNone DEF Wanted, Upto
  <2> QED  BY <2>1, <2>2, <2>3, <2>4
<1>19. CASE DataOutByte
  BY <1>19 DEF DataOutByte, In, Switch, Transferred, Whole, Reading, Progress,
       IInv, Types, Flags, Signals, ReaderOwnsDrive, Talk, Resets
<1>20. CASE DataOutMore
  BY <1>20 DEF DataOutMore, In, Switch, Quiet, Whole, Reading, Progress, IInv,
       Types, Flags, Signals, ReaderOwnsDrive, Talk, Resets
<1>21. CASE DataOutDone
  BY <1>21 DEF DataOutDone, CommandCCError, SendStatusAndMessage, In, Switch,
       Quiet, Whole, Reading, Progress, IInv, Types, Flags, Signals,
       ReaderOwnsDrive, Talk, Resets
<1>22. CASE MessageOutByte
  BY <1>22 DEF MessageOutByte, In, Switch, Transferred, Whole, Reading,
       Progress, IInv, Types, Flags, Signals, ReaderOwnsDrive, Talk, Resets
<1>23. CASE StatusByte
  BY <1>23 DEF StatusByte, In, Switch, Transferred, Whole, Reading, Progress,
       IInv, Types, Flags, Signals, ReaderOwnsDrive, Talk, Resets
<1>24. CASE StatusDone
  BY <1>24 DEF StatusDone, In, Switch, Quiet, Whole, Reading, Progress, IInv,
       Types, Flags, Signals, ReaderOwnsDrive, Talk
<1>25. CASE DataInNext
  BY <1>25 DEF DataInNext, In, Switch, Quiet, Whole, Reading, Progress, IInv,
       Types, Flags, Signals, ReaderOwnsDrive, Talk, Resets
<1>26. CASE DataInDone
  <2>1. /\ UNCHANGED <<cmd, got, spoiled, lost>> /\ din = <<>> /\ transferDone
        /\ phase = "DATA_IN" /\ ~req /\ phase' = "STATUS"
    BY <1>26 DEF DataInDone, SendStatusAndMessage, In, Switch, Quiet
  <2> SUFFICES ASSUME Reading', ~lost'  PROVE got' = Wanted(cmd')
    BY <2>1 DEF Whole
  <2>2. Reading /\ ~lost
    BY <2>1 DEF Reading
  <2>3. sectorCount = 0 /\ got \o Flight \o din = Upto(cmd[2], Asked(cmd) - sectorCount)
    BY <2>1, <2>2 DEF Progress, Coming
  <2>4. got \o Flight \o din = got
    <3>1. got \in Seq(DataBytes) /\ <<"sense">> \in DataBytes /\ <<>> \in Seq(DataBytes)
      BY DEF Progress, Talk, DataBytes
    <3> QED  BY <2>1, <3>1, StreamSteps DEF Flight
  <2>5. Asked(cmd) - 0 = Asked(cmd)
    BY <2>2, ReadCommand DEF Reading
  <2> QED  BY <2>1, <2>3, <2>4, <2>5 DEF Wanted, Upto
<1>27. CASE DataInByte
  BY <1>27 DEF DataInByte, In, Switch, Transferred, Whole, Reading, Progress,
       IInv, Types, Flags, Signals, ReaderOwnsDrive, Talk, Resets
<1>28. CASE MessageInByte
  BY <1>28 DEF MessageInByte, In, Switch, Transferred, Whole, Reading,
       Progress, IInv, Types, Flags, Signals, ReaderOwnsDrive, Talk, Resets
<1>29. CASE MessageInDone
  BY <1>29 DEF MessageInDone, In, Switch, Quiet, Whole, Reading, Progress,
       IInv, Types, Flags, Signals, ReaderOwnsDrive, Talk, Resets
<1> QED
  BY <1>1, <1>2, <1>3, <1>4, <1>5, <1>6, <1>7, <1>8, <1>9, <1>10, <1>11,
       <1>12, <1>13, <1>14, <1>15, <1>16, <1>17, <1>18, <1>19, <1>20, <1>21,
       <1>22, <1>23, <1>24, <1>25, <1>26, <1>27, <1>28, <1>29, IdleSteps DEF
       Next, Handshake, RunCDRead, PhaseSwitch

LEMMA ComingStep ==
    IInv /\ Progress /\ Next => Coming'
<1> SUFFICES ASSUME IInv, Progress, Next  PROVE Coming'  OBVIOUS
<1> USE DEF outside, work, bus, initiator, reader, sending, output, medium,
     game, history, drive
<1>1. CASE UNCHANGED tracked
  BY <1>1 DEF tracked, Coming, Flight, Reading, Progress, IInv, Types, Flags,
       Signals, ReaderOwnsDrive
<1>2. ASSUME NEW cdb \in Commands, Select(cdb)  PROVE Coming'
  BY <1>2 DEF Select, Runs, Coming, Flight, Reading, Progress, IInv, Types,
       Flags, Signals, ReaderOwnsDrive
<1>3. CASE Deselect
  BY <1>3 DEF Deselect, Runs, Coming, Flight, Reading, Progress, IInv, Types,
       Flags, Signals, ReaderOwnsDrive
<1>4. CASE Put
  BY <1>4 DEF Put, Runs, Coming, Flight, Reading, Progress, IInv, Types,
       Flags, Signals, ReaderOwnsDrive
<1>5. CASE Latch
  BY <1>5 DEF Latch, Coming, Flight, Reading, Progress, IInv, Types, Flags,
       Signals, ReaderOwnsDrive
<1>6. CASE Take
  <2> SUFFICES ASSUME Reading', ~lost', timer' \/ phase' = "DATA_IN"
               PROVE  /\ sectorCount' <= Asked(cmd')
                      /\ sectorAddr' = cmd'[2] + (Asked(cmd') - sectorCount')
                      /\ (got \o Flight \o din)' = Upto(cmd'[2], Asked(cmd') - sectorCount')
                      /\ phase' = "DATA_IN" => (transferDone' <=> sectorCount' = 0)
    BY DEF Coming
  <2>1. /\ UNCHANGED <<phase, req, db, din, timer, sectorAddr, sectorCount,
                       transferDone, spoiled, lost>>
        /\ ack' = TRUE /\ held # <<>>
    BY <1>6 DEF Take, Runs
  <2>2. Talk  BY DEF Progress
  <2>3. /\ phase = "DATA_IN" /\ held = db /\ db \in DataBytes /\ req /\ ~ack
    BY <2>1, <2>2, HeldByte
  <2>4. got' = Append(got, db) /\ cmd' = cmd
    BY <1>6, <2>3 DEF Take, DataBytes
  <2>5. Reading /\ ~lost
    BY <2>1, <2>4 DEF Reading
  <2>6. Flight = <<db>> /\ Flight' = <<>>
    BY <2>1, <2>3 DEF Flight
  <2>7. got \in Seq(DataBytes) /\ din \in Seq(DataBytes)
    BY <2>2 DEF Talk, IInv, Types
  <2>8. (got \o Flight \o din)' = got \o Flight \o din
    BY <2>1, <2>3, <2>4, <2>6, <2>7, StreamSteps
  <2> QED  BY <2>1, <2>3, <2>4, <2>5, <2>8 DEF Progress, Coming
<1>7. CASE LowerAck
  BY <1>7 DEF LowerAck, Runs, Coming, Flight, Reading, Progress, IInv, Types,
       Flags, Signals, ReaderOwnsDrive
<1>8. CASE ResetOn
  BY <1>8 DEF ResetOn, Runs, GameForgets, Coming, Flight, Reading, Progress,
       IInv, Types, Flags, Signals, ReaderOwnsDrive
<1>9. CASE ResetOff
  BY <1>9 DEF ResetOff, Runs, Coming, Flight, Reading, Progress, IInv, Types,
       Flags, Signals, ReaderOwnsDrive
<1>10. CASE SaveAndLoadState
  BY <1>10 DEF SaveAndLoadState, Coming, Flight, Reading, Progress, IInv,
       Types, Flags, Signals, ReaderOwnsDrive
<1>11. CASE SectorRead
  <2> SUFFICES ASSUME Reading', ~lost'
               PROVE  /\ sectorCount' <= Asked(cmd')
                      /\ sectorAddr' = cmd'[2] + (Asked(cmd') - sectorCount')
                      /\ (got \o Flight \o din)' = Upto(cmd'[2], Asked(cmd') - sectorCount')
                      /\ phase' = "DATA_IN" => (transferDone' <=> sectorCount' = 0)
    BY DEF Coming
  <2>1. /\ UNCHANGED <<cmd, got, spoiled, lost, db, ack>> /\ timer
        /\ din' = din \o SectorData(sectorAddr) /\ sectorAddr' = sectorAddr + 1
        /\ sectorCount' = sectorCount - 1
        /\ transferDone' = (sectorCount' = 0)
    BY <1>11 DEF SectorRead, SectorDue
  <2>2. Reading /\ ~lost
    BY <2>1 DEF Reading
  <2>3. cmd # <<>> /\ cmd[2] \in Nat /\ Asked(cmd) \in Nat
    BY <2>2, ReadCommand DEF Reading
  <2>4. /\ sectorCount <= Asked(cmd)
        /\ sectorAddr = cmd[2] + (Asked(cmd) - sectorCount)
        /\ got \o Flight \o din = Upto(cmd[2], Asked(cmd) - sectorCount)
    BY <2>1, <2>2 DEF Progress, Coming
  <2>5. sectorCount \in Nat \ {0} /\ sectorAddr \in Nat
    BY <2>1 DEF IInv, Types, ReaderOwnsDrive
  <2>6. Flight' = Flight
    BY <1>11, <2>1 DEF SectorRead, Flight
  <2>7. (got \o Flight \o din)' = (got \o Flight \o din) \o SectorData(sectorAddr)
    <3> HIDE DEF outside, work, bus, initiator, reader, sending, output, medium,
         game, history, drive
    <3>1. /\ got \in Seq(DataBytes) /\ din \in Seq(DataBytes)
          /\ SectorData(sectorAddr) \in Seq(DataBytes)
      BY <2>5, SectorTyped DEF Progress, Talk, IInv, Types
    <3>2. Flight = <<>> \/ (Flight = <<db>> /\ db \in DataBytes)
      BY DEF Flight, IInv, Signals
    <3>3. got \o Flight \o (din \o SectorData(sectorAddr))
            = (got \o Flight \o din) \o SectorData(sectorAddr)
      <4>1. <<"sense">> \in DataBytes  BY DEF DataBytes
      <4> QED  BY <3>1, <3>2, <4>1, StreamSteps
    <3> QED  BY <2>1, <2>6, <3>3
  <2> DEFINE k == Asked(cmd) - sectorCount
  <2>8. k \in Nat /\ Asked(cmd) - (sectorCount - 1) = k + 1
    BY <2>3, <2>4, <2>5
  <2>9. Upto(cmd[2], k) \o SectorData(cmd[2] + k) = Upto(cmd[2], k + 1)
    BY <2>3, <2>8, UptoMore
  <2>10. (got \o Flight \o din)' = Upto(cmd[2], k + 1)
    BY <2>4, <2>7, <2>9
  <2>11. sectorCount - 1 <= Asked(cmd) /\ sectorAddr + 1 = cmd[2] + (k + 1)
    BY <2>3, <2>4, <2>5
  <2> QED  BY <2>1, <2>8, <2>10, <2>11
<1>12. CASE SectorFails
  BY <1>12 DEF SectorFails, SectorDue, Room, CommandCCError,
       SendStatusAndMessage, Coming, Flight, Reading, Progress, IInv, Types,
       Flags, Signals, ReaderOwnsDrive
<1>13. CASE VirtualReset
  BY <1>13 DEF VirtualReset, Switch, Coming, Flight, Reading, Progress, IInv,
       Types, Flags, Signals, ReaderOwnsDrive
<1>14. CASE Selected
  BY <1>14 DEF Selected, In, Switch, Coming, Flight, Reading, Progress, IInv,
       Types, Flags, Signals, ReaderOwnsDrive
<1>15. CASE Attention
  BY <1>15 DEF Attention, Switch, Attends, Coming, Flight, Reading, Progress,
       IInv, Types, Flags, Signals, ReaderOwnsDrive
<1>16. CASE CommandByte
  BY <1>16 DEF CommandByte, In, Switch, Transferred, Coming, Flight, Reading,
       Progress, IInv, Types, Flags, Signals, ReaderOwnsDrive
<1>17. CASE CommandMore
  BY <1>17 DEF CommandMore, In, Switch, Quiet, Coming, Flight, Reading,
       Progress, IInv, Types, Flags, Signals, ReaderOwnsDrive
<1>18. CASE CommandDone
  <2> SUFFICES ASSUME Reading', ~lost', timer' \/ phase' = "DATA_IN"
               PROVE  /\ sectorCount' <= Asked(cmd')
                      /\ sectorAddr' = cmd'[2] + (Asked(cmd') - sectorCount')
                      /\ (got \o Flight \o din)' = Upto(cmd'[2], Asked(cmd') - sectorCount')
                      /\ phase' = "DATA_IN" => (transferDone' <=> sectorCount' = 0)
    BY DEF Coming
  <2>1. SectorsToCome /\ sectorAddr' = cmd[2] /\ sectorCount' = Asked(cmd)
    BY <1>18, ReadBegins DEF Ended
  <2>2. cmd' = cmd /\ got' = got /\ cmd # <<>> /\ phase = "COMMAND"
    BY <1>18, CommandResult DEF Reading
  <2>3. got = <<>>
    BY <2>2 DEF Progress, Talk
  <2>4. (got \o Flight \o din)' = <<>>
    BY <2>1, <2>2, <2>3 DEF SectorsToCome, Flight
  <2>5. cmd[2] \in Nat /\ Asked(cmd) \in Nat
    BY <2>2, ReadCommand
  <2>6. /\ Asked(cmd) - Asked(cmd) = 0 /\ cmd[2] + 0 = cmd[2]
        /\ Asked(cmd) <= Asked(cmd)
        /\ Upto(cmd[2], 0) = <<>>
    BY <2>5, UptoNone
  <2>7. phase' # "DATA_IN"
    BY <2>1 DEF SectorsToCome
  <2> QED  BY <2>1, <2>2, <2>4, <2>6, <2>7
<1>19. CASE DataOutByte
  BY <1>19 DEF DataOutByte, In, Switch, Transferred, Coming, Flight, Reading,
       Progress, IInv, Types, Flags, Signals, ReaderOwnsDrive
<1>20. CASE DataOutMore
  BY <1>20 DEF DataOutMore, In, Switch, Quiet, Coming, Flight, Reading,
       Progress, IInv, Types, Flags, Signals, ReaderOwnsDrive
<1>21. CASE DataOutDone
  BY <1>21 DEF DataOutDone, CommandCCError, SendStatusAndMessage, In, Switch,
       Quiet, Coming, Flight, Reading, Progress, IInv, Types, Flags, Signals,
       ReaderOwnsDrive
<1>22. CASE MessageOutByte
  BY <1>22 DEF MessageOutByte, In, Switch, Transferred, Coming, Flight,
       Reading, Progress, IInv, Types, Flags, Signals, ReaderOwnsDrive
<1>23. CASE StatusByte
  BY <1>23 DEF StatusByte, In, Switch, Transferred, Coming, Flight, Reading,
       Progress, IInv, Types, Flags, Signals, ReaderOwnsDrive
<1>24. CASE StatusDone
  BY <1>24 DEF StatusDone, In, Switch, Quiet, Coming, Flight, Reading,
       Progress, IInv, Types, Flags, Signals, ReaderOwnsDrive
<1>25. CASE DataInNext
  <2> SUFFICES ASSUME Reading', ~lost'
               PROVE  /\ sectorCount' <= Asked(cmd')
                      /\ sectorAddr' = cmd'[2] + (Asked(cmd') - sectorCount')
                      /\ (got \o Flight \o din)' = Upto(cmd'[2], Asked(cmd') - sectorCount')
                      /\ transferDone' <=> sectorCount' = 0
    BY DEF Coming
  <2>1. /\ UNCHANGED <<phase, ack, got, cmd, timer, sectorAddr, sectorCount,
                       transferDone, spoiled, lost>>
        /\ db' = Head(din) /\ din' = Tail(din) /\ din # <<>> /\ req' = TRUE
        /\ phase = "DATA_IN" /\ ~req /\ ~ack
    BY <1>25 DEF DataInNext, In, Switch, Quiet
  <2>2. Reading /\ ~lost
    BY <2>1 DEF Reading
  <2>3. Flight = <<>> /\ Flight' = << Head(din) >>
    BY <2>1 DEF Flight
  <2>4. got \in Seq(DataBytes) /\ din \in Seq(DataBytes) /\ <<"sense">> \in DataBytes
    BY DEF Progress, Talk, IInv, Types, DataBytes
  <2>5. (got \o Flight \o din)' = got \o Flight \o din
    BY <2>1, <2>3, <2>4, StreamSteps
  <2> QED  BY <2>1, <2>2, <2>5 DEF Progress, Coming
<1>26. CASE DataInDone
  BY <1>26 DEF DataInDone, SendStatusAndMessage, In, Switch, Quiet, Coming,
       Flight, Reading, Progress, IInv, Types, Flags, Signals, ReaderOwnsDrive
<1>27. CASE DataInByte
  BY <1>27 DEF DataInByte, In, Switch, Transferred, Coming, Flight, Reading,
       Progress, IInv, Types, Flags, Signals, ReaderOwnsDrive
<1>28. CASE MessageInByte
  BY <1>28 DEF MessageInByte, In, Switch, Transferred, Coming, Flight,
       Reading, Progress, IInv, Types, Flags, Signals, ReaderOwnsDrive
<1>29. CASE MessageInDone
  BY <1>29 DEF MessageInDone, In, Switch, Quiet, Coming, Flight, Reading,
       Progress, IInv, Types, Flags, Signals, ReaderOwnsDrive
<1> QED
  BY <1>1, <1>2, <1>3, <1>4, <1>5, <1>6, <1>7, <1>8, <1>9, <1>10, <1>11,
       <1>12, <1>13, <1>14, <1>15, <1>16, <1>17, <1>18, <1>19, <1>20, <1>21,
       <1>22, <1>23, <1>24, <1>25, <1>26, <1>27, <1>28, <1>29, IdleSteps DEF
       Next, Handshake, RunCDRead, PhaseSwitch

\* The drive carries out the command the game sent, unless an earlier one was
\* cut short.
THEOREM CommandsArriveIntact == Spec => CommandsIntact
<1>1. IInv /\ [Next]_vars => [CommandDone => commandBuffer = cmd \/ cut]_vars
  BY CommandArrives
<1> QED  BY <1>1, DriveInvariant, PTL DEF Spec, CommandsIntact

\* At the end of a command the game has been told how it went, and what a READ
\* was told to have read it has, byte for byte: Progress is the part of the
\* invariant that follows the bytes from the disc to the game.
THEOREM GameKnowsOutcome == Spec => []Outcome
<1>1. Init => Progress
  <2> SUFFICES ASSUME Init  PROVE Progress  OBVIOUS
  <2>1. Talk  BY DEF Init, Talk
  <2>2. Coming /\ Whole  BY DEF Init, Coming, Whole, Reading
  <2> QED  BY <2>1, <2>2 DEF Progress
<1>2. IInv /\ Progress /\ [Next]_vars => Progress'
  <2> SUFFICES ASSUME IInv, Progress, [Next]_vars  PROVE Progress'  OBVIOUS
  <2>1. CASE Next
    BY <2>1, TalkStep, ComingStep, WholeStep DEF Progress
  <2>2. CASE UNCHANGED vars
    <3>1. UNCHANGED tracked
      BY <2>2 DEF vars, bus, initiator, drive, reader, sending, game, history, tracked
    <3>2. Talk' /\ Coming' /\ Whole'
      BY <3>1 DEF tracked, Progress, Talk, Coming, Whole, Reading, Flight
    <3> QED  BY <3>2 DEF Progress
  <2> QED  BY <2>1, <2>2
<1>3. Progress => Outcome
  <2> SUFFICES ASSUME Progress, phase = "MESSAGE_IN", cmd # <<>>, ~spoiled
               PROVE  /\ told = "GOOD" /\ cmd[1] \in {Read6, Read10} /\ ~lost
                           => got = Wanted(cmd)
                      /\ told = "NONE" => clash
    BY DEF Outcome
  <2>1. told = "NONE" => clash  BY DEF Progress, Talk
  <2> QED  BY <2>1 DEF Progress, Whole, Reading
<1> QED  BY <1>1, <1>2, <1>3, DriveInvariant, PTL DEF Spec

=============================================================================
