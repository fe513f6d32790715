------------------------------ MODULE Netplay ------------------------------
(***************************************************************************)
(* Network play (mednafen/netplay.cpp and the commands of mednafen.cpp,    *)
(* state.cpp and movie.cpp that behave otherwise during it): several       *)
(* copies of the program and a server, over connections that keep order.   *)
(*                                                                         *)
(* The server is not part of the repository: its actions (Srv...) are what *)
(* netplay.cpp expects of it.  A copy of the program sends its controllers *)
(* at the start of a frame, then executes what the server sends until it   *)
(* gets the controllers of everybody for this frame.  Packets that only    *)
(* show a text are left out.                                               *)
(*                                                                         *)
(* A game is deterministic, so its state is the sequence of what was done  *)
(* to it ("log"); a frame in which nobody touches a controller leaves it   *)
(* alone.                                                                  *)
(***************************************************************************)
EXTENDS Integers, Sequences, FiniteSetsExt

CONSTANTS Clients,       \* copies of the program, one user each
          Ports,         \* controller ports of the system: 1 .. n
          Device,        \* what is plugged in each (PortDeviceCache)
          PortLen,       \* size of its data (PortDataLenCache)
          Masks,         \* sets of ports the server may give to a player
          Joys, Idle,    \* states of a controller, and the untouched one
          Commands,      \* simple commands: reset, power, insert coin...
          Recorders,     \* those who record a movie, since the start
          Torn,          \* what a state loaded half-way leaves
          NoState, NoClient,
          MaxLag,        \* bound: frames, or their inputs, on a connection
          MaxEvents      \* bound: what users do and what fails, idle frames apart

\* The packets that are not simple commands.
Protocol == {"login", "closed", "input", "frame", "SETFPS", "YOUJOINED",
             "LOADSTATE", "SAVESTATE", "INTEGRITY", "INTEGRITY_RES"}

ASSUME NetplayAssumption ==
    /\ Ports \subseteq Nat
    /\ PortLen \in [Ports -> Nat]
    /\ Masks \subseteq SUBSET Ports
    /\ Idle \in Joys
    /\ Commands \cap Protocol = {}
    /\ MaxLag \in Nat /\ MaxEvents \in Nat

VARIABLES
    phase,                \* where each client is: see Phases
    Joined,               \* it has a place in the game
    LocalPlayersMask,     \* the ports it plays
    LocalInputStateSize,  \* the size of their data
    game,                 \* the state of its game
    replay,               \* the state its movie leads to, if it records one
    toServer, toClient,   \* the connections, one packet an element
    players,              \* (server) who is connected
    seat,                 \* (server) the ports it gave them
    synced,               \* (server) those who have the state of the game
    asked,                \* (server) whose state it waits for
    held,                 \* (server) the controllers, as received since the last frame
    events                \* what users have done and what has failed (bound)

localVars == <<Joined, LocalPlayersMask, LocalInputStateSize>>
clientVars == <<phase, localVars, game, replay>>
serverVars == <<players, seat, synced, asked, held>>
vars == <<clientVars, toServer, toClient, serverVars, events>>

\* "out" of netplay; in it, "between" two frames, or there but with a command
\* just done, so that the frame comes next ("ready"); in NetplayUpdate
\* ("updating"); or executing what never was a packet ("lost").
Phases == {"out", "between", "ready", "updating", "lost"}

SetSize(ports) == MapThenSumSet(LAMBDA p : PortLen[p], ports)

Boot(c) == <<c>>
Did(state, event) == Append(state, event)
HalfLoaded == <<Torn>>
Astray(state) == Head(state) = Torn

Input(size, pads) == [kind |-> "input", size |-> size, pads |-> pads]
Command(size, cmd) == [kind |-> cmd, size |-> size]
State(size, state) == [kind |-> "LOADSTATE", size |-> size, state |-> state]
Login == [kind |-> "login", size |-> 0]
Closed == [kind |-> "closed", size |-> 0]

Frame(pads) == [kind |-> "frame", pads |-> pads]
Packet(cmd) == [kind |-> cmd]
Remote(state) == [kind |-> "LOADSTATE", state |-> state]
YouJoined(mask) == [kind |-> "YOUJOINED", mask |-> mask]

\* The end of a connection, or the start of one, is on its way.
Turning(channel) == \E i \in DOMAIN channel : channel[i].kind \in {"closed", "login"}

Init ==
    /\ phase = [c \in Clients |-> "out"]
    /\ Joined = [c \in Clients |-> FALSE]
    /\ LocalPlayersMask = [c \in Clients |-> {}]
    /\ LocalInputStateSize = [c \in Clients |-> 0]
    /\ game = [c \in Clients |-> Boot(c)]
    /\ replay = [c \in Clients |-> IF c \in Recorders THEN Boot(c) ELSE NoState]
    /\ toServer = [c \in Clients |-> << >>]
    /\ toClient = [c \in Clients |-> << >>]
    /\ players = {}
    /\ seat = [c \in Clients |-> {}]
    /\ synced = {}
    /\ asked = NoClient
    /\ held = [p \in Ports |-> Idle]
    /\ events = 0

-----------------------------------------------------------------------------
\* The pieces of the actions.

Event == events < MaxEvents /\ events' = events + 1

\* MDFND_SendData, of a packet and what follows it.
Send(c, message) == toServer' = [toServer EXCEPT ![c] = Append(@, message)]

Goes(c, where) == phase' = [phase EXCEPT ![c] = where]

\* The game and the movie of a client come to another state; or the movie
\* only keeps the old one.
Becomes(c, state) == game' = [game EXCEPT ![c] = state]
Recorded(c, state) == replay' = [replay EXCEPT ![c] = IF @ = NoState THEN @ ELSE state]

\* Whose data goes in the place of port x of the mask: the first port, up to
\* x, that has the same device and is not taken by an earlier port of the
\* mask.
Source(mask, x) ==
    LET same == {p \in Ports : Device[p] = Device[x]}
        rank == Cardinality({p \in mask \cap same : p <= x})
    IN  CHOOSE n \in same : Cardinality({p \in same : p <= n}) = rank

\* The user plays with the first controller.
Pad(joy, n) == IF \A q \in Ports : n <= q THEN joy ELSE Idle

-----------------------------------------------------------------------------
\* The users, between frames.

\* What the server is to read when MDFND_NetworkClose has closed the
\* connection, if there is one.
Closing(c) == IF phase[c] \in {"out", "lost"} THEN toServer[c] ELSE Append(toServer[c], Closed)

\* (mutants: NetplayStart keeps what the last game left)
StaleNetplayStart(c) == UNCHANGED localVars

\* NetplayStart: the login has been sent, nothing is known yet.
NetplayStart(c) ==
    /\ Joined' = [Joined EXCEPT ![c] = FALSE]
    /\ LocalPlayersMask' = [LocalPlayersMask EXCEPT ![c] = {}]
    /\ LocalInputStateSize' = [LocalInputStateSize EXCEPT ![c] = 0]

\* MDFND_NetStart leaves netplay first if need be.
NetStart(c) ==
    /\ phase[c] \in {"out", "between", "lost"}
    /\ Event
    /\ toServer' = [toServer EXCEPT ![c] = Append(Closing(c), Login)]
    /\ toClient' = [toClient EXCEPT ![c] = << >>]
    /\ NetplayStart(c)
    /\ Goes(c, "ready")
    /\ UNCHANGED <<game, replay, serverVars>>

NetworkClose(c) ==
    /\ phase[c] \in {"between", "lost"}
    /\ Event
    /\ toServer' = [toServer EXCEPT ![c] = Closing(c)]
    /\ toClient' = [toClient EXCEPT ![c] = << >>]
    /\ Goes(c, "out")
    /\ UNCHANGED <<localVars, game, replay, serverVars>>

\* A command of the menu, before the frame that follows.
Menu(c) == phase[c] = "between" /\ Event /\ Goes(c, "ready")

\* (mutant: the command is done at once as well)
CommandAndDo(c, cmd) ==
    Send(c, Command(LocalInputStateSize[c], cmd)) /\ Becomes(c, Did(game[c], cmd))

\* MDFN_QSimpleCommand: sent, and done when it comes back.
QSimpleCommand(c, cmd) ==
    Send(c, Command(LocalInputStateSize[c], cmd)) /\ UNCHANGED game

SimpleCommand(c, cmd) ==
    /\ Menu(c)
    /\ QSimpleCommand(c, cmd)
    /\ UNCHANGED <<localVars, replay, toClient, serverVars>>

\* (mutant: the others are not told)
KeepState(c, state) == UNCHANGED toServer

\* MDFNNET_SendState
SendState(c, state) == Send(c, State(LocalInputStateSize[c], state))

\* MDFNI_LoadState of a state saved when the game started.
LoadState(c) ==
    /\ Menu(c)
    /\ Becomes(c, Boot(c))
    /\ SendState(c, Boot(c))
    /\ Recorded(c, Boot(c))
    /\ UNCHANGED <<localVars, toClient, serverVars>>

\* The state turns out unreadable after part of it was loaded.
LoadStateFails(c) ==
    /\ Menu(c)
    /\ Becomes(c, HalfLoaded)
    /\ UNCHANGED <<localVars, replay, toServer, toClient, serverVars>>

-----------------------------------------------------------------------------
\* NetplayUpdate.

\* It sends the controllers, if there is a place in the game.
BeginUpdate(c, joy) ==
    LET packed == [x \in LocalPlayersMask[c] |-> Pad(joy, Source(LocalPlayersMask[c], x))]
    IN  /\ phase[c] \in {"between", "ready"}
        /\ Goes(c, "updating")
        /\ IF joy = Idle THEN UNCHANGED events ELSE Event
        /\ IF Joined[c] THEN Send(c, Input(LocalInputStateSize[c], packed))
           ELSE UNCHANGED toServer
        /\ UNCHANGED <<localVars, game, replay, toClient, serverVars>>

\* The next packet, if it is of this kind.
Receives(c, kinds) ==
    /\ phase[c] = "updating"
    /\ toClient[c] # << >>
    /\ Head(toClient[c]).kind \in kinds
    /\ toClient' = [toClient EXCEPT ![c] = Tail(@)]
    /\ UNCHANGED <<serverVars, events>>

\* What a frame with these controllers makes of a game.
Emulated(state, pads) ==
    IF \A p \in Ports : pads[p] = Idle THEN state ELSE Did(state, pads)

\* (mutant: the loop ends on commands instead)
GoesOn(c) == UNCHANGED phase

\* The loop ends on a packet without a command.
EndsUpdate(c) == Goes(c, "between")

\* The controllers of everybody: the update ends, the frame is recorded and
\* emulated with them.
RecvFrame(c) ==
    LET pads == Head(toClient[c]).pads
    IN  /\ Receives(c, {"frame"})
        /\ Becomes(c, Emulated(game[c], pads))
        /\ Recorded(c, Emulated(replay[c], pads))
        /\ EndsUpdate(c)
        /\ UNCHANGED <<localVars, toServer>>

\* MDFN_DoSimpleCommand, which tells the movie nothing.
RecvCommand(c) ==
    /\ Receives(c, Commands)
    /\ Becomes(c, Did(game[c], Head(toClient[c]).kind))
    /\ UNCHANGED <<phase, localVars, replay, toServer>>

RecvSaveState(c) ==
    /\ Receives(c, {"SAVESTATE"})
    /\ SendState(c, game[c])
    /\ UNCHANGED clientVars

\* (mutants: the movie does not get the state; it is not uncompressed)
RecvUnrecorded(c, state) == Becomes(c, state) /\ UNCHANGED replay
RecvPacked(c, state) == Becomes(c, <<state>>) /\ Recorded(c, <<state>>)

\* MDFNNET_RecvState
RecvState(c, state) == Becomes(c, state) /\ Recorded(c, state)

RecvLoadState(c) ==
    /\ Receives(c, {"LOADSTATE"})
    /\ RecvState(c, Head(toClient[c]).state)
    /\ UNCHANGED <<phase, localVars, toServer>>

\* The state is too large, or turns out unreadable after part of it was
\* loaded: NetError leaves netplay.
RecvStateFails(c) ==
    /\ phase[c] = "updating"
    /\ toClient[c] # << >> /\ Head(toClient[c]).kind = "LOADSTATE"
    /\ Event
    /\ \E state \in {game[c], HalfLoaded} : Becomes(c, state)
    /\ Send(c, Closed)
    /\ toClient' = [toClient EXCEPT ![c] = << >>]
    /\ Goes(c, "out")
    /\ UNCHANGED <<localVars, replay, serverVars>>

RecvIntegrity(c) ==
    /\ Receives(c, {"INTEGRITY"})
    /\ Send(c, Command(LocalInputStateSize[c], "INTEGRITY_RES"))
    /\ UNCHANGED clientVars

\* (mutant: the answer is sent before the size changes)
SetFpsFirst(c, mask) == Command(LocalInputStateSize[c], "SETFPS")

SetFps(c, mask) == Command(SetSize(mask), "SETFPS")

RecvYouJoined(c) ==
    LET mask == Head(toClient[c]).mask
    IN  /\ Receives(c, {"YOUJOINED"})
        /\ Joined' = [Joined EXCEPT ![c] = TRUE]
        /\ LocalPlayersMask' = [LocalPlayersMask EXCEPT ![c] = mask]
        /\ LocalInputStateSize' = [LocalInputStateSize EXCEPT ![c] = SetSize(mask)]
        /\ Send(c, SetFps(c, mask))
        /\ UNCHANGED <<phase, game, replay>>

\* recv() gives less than a packet, or nothing because the server is gone:
\* MDFND_RecvData reports success and the buffer is executed as it is.  What
\* the client does from here to its end of netplay is not followed.
RecvPart(c) ==
    /\ phase[c] = "updating"
    /\ Event
    /\ Becomes(c, HalfLoaded)
    /\ Send(c, Closed)
    /\ toClient' = [toClient EXCEPT ![c] = << >>]
    /\ Goes(c, "lost")
    /\ UNCHANGED <<localVars, replay, serverVars>>

-----------------------------------------------------------------------------
\* The server.

\* A connection that the client has closed takes no more packets.
Reaches(c) == c \in players /\ ~Turning(toServer[c])

Relay(packet) ==
    toClient' = [c \in Clients |-> IF Reaches(c) THEN Append(toClient[c], packet) ELSE toClient[c]]

\* The next message of a client, of one of these kinds, is read.
SrvReads(c, kinds) ==
    /\ toServer[c] # << >>
    /\ Head(toServer[c]).kind \in kinds
    /\ toServer' = [toServer EXCEPT ![c] = Tail(@)]
    /\ UNCHANGED <<clientVars, events>>

\* What is left to play with: a newcomer who gets nothing watches.
Free == {mask \in Masks : \A d \in players : mask \cap seat[d] = {}}

SrvLogin(c) ==
    /\ SrvReads(c, {"login"})
    /\ \E mask \in Free \cup (IF Free = {} THEN {{}} ELSE {}) :
         /\ seat' = [seat EXCEPT ![c] = mask]
         /\ toClient' = IF Len(toServer[c]) = 1
                        THEN [toClient EXCEPT ![c] = <<YouJoined(mask)>>]
                        ELSE toClient
    /\ players' = players \cup {c}
    /\ synced' = IF players = {} THEN {c} ELSE synced
    /\ UNCHANGED <<asked, held>>

SrvClosed(c) ==
    /\ SrvReads(c, {"closed"})
    /\ players' = players \ {c}
    /\ seat' = [seat EXCEPT ![c] = {}]
    /\ synced' = synced \ {c}
    /\ asked' = IF asked = c THEN NoClient ELSE asked
    /\ held' = [p \in Ports |-> IF p \in seat[c] THEN Idle ELSE held[p]]
    /\ UNCHANGED toClient

SrvInput(c) ==
    /\ SrvReads(c, {"input"})
    /\ held' = [p \in Ports |-> IF p \in seat[c] THEN Head(toServer[c]).pads[p] ELSE held[p]]
    /\ UNCHANGED <<toClient, players, seat, synced, asked>>

SrvCommand(c) ==
    /\ SrvReads(c, Commands)
    /\ Relay(Packet(Head(toServer[c]).kind))
    /\ UNCHANGED serverVars

SrvState(c) ==
    /\ SrvReads(c, {"LOADSTATE"})
    /\ Relay(Remote(Head(toServer[c]).state))
    /\ synced' = players
    /\ asked' = NoClient
    /\ UNCHANGED <<players, seat, held>>

SrvAnswer(c) ==
    /\ SrvReads(c, {"SETFPS", "INTEGRITY_RES"})
    /\ UNCHANGED <<toClient, serverVars>>

\* Somebody has no state yet: somebody who has one is asked for it, or, if
\* all those have left, one of the others.
SrvAskState(c) ==
    /\ players \ synced # {}
    /\ asked = NoClient
    /\ c \in (IF synced = {} THEN players ELSE synced)
    /\ Reaches(c)
    /\ asked' = c
    /\ toClient' = [toClient EXCEPT ![c] = Append(@, Packet("SAVESTATE"))]
    /\ UNCHANGED <<clientVars, toServer, players, seat, synced, held, events>>

SrvAskIntegrity ==
    /\ players # {}
    /\ Event
    /\ Relay(Packet("INTEGRITY"))
    /\ UNCHANGED <<clientVars, toServer, serverVars>>

Lag(channel, kind) == Len(SelectSeq(channel, LAMBDA message : message.kind = kind))

\* The frames go out at the pace of the server, whoever has sent what; a touch
\* of the controllers is in one of them.
SrvTick ==
    /\ players # {}
    /\ \A c \in players : Lag(toClient[c], "frame") < MaxLag /\ Lag(toServer[c], "input") < MaxLag
    /\ Relay(Frame(held))
    /\ held' = [p \in Ports |-> Idle]
    /\ UNCHANGED <<clientVars, toServer, players, seat, synced, asked, events>>

-----------------------------------------------------------------------------
SrvReceive(c) ==
    \/ SrvLogin(c) \/ SrvClosed(c) \/ SrvInput(c)
    \/ SrvCommand(c) \/ SrvState(c) \/ SrvAnswer(c)

\* NetplayUpdate goes on.
Receive(c) ==
    \/ RecvFrame(c) \/ RecvCommand(c) \/ RecvSaveState(c) \/ RecvLoadState(c)
    \/ RecvStateFails(c) \/ RecvIntegrity(c) \/ RecvYouJoined(c)

User(c) ==
    \/ NetStart(c) \/ NetworkClose(c)
    \/ \E cmd \in Commands : SimpleCommand(c, cmd)
    \/ LoadState(c) \/ LoadStateFails(c)

Next ==
    \/ \E c \in Clients :
         \/ User(c) \/ Receive(c) \/ RecvPart(c)
         \/ \E joy \in Joys : BeginUpdate(c, joy)
         \/ SrvReceive(c) \/ SrvAskState(c)
    \/ SrvAskIntegrity \/ SrvTick

Spec == Init /\ [][Next]_vars

\* The main loop never rests between frames, a connection delivers, and the
\* server keeps its pace.
Fairness ==
    /\ \A c \in Clients :
         /\ WF_vars(\E joy \in Joys : BeginUpdate(c, joy))
         /\ WF_vars(Receive(c))
         /\ WF_vars(SrvReceive(c))
    /\ WF_vars(\E c \in Clients : SrvAskState(c))
    /\ WF_vars(SrvTick)

FairSpec == Spec /\ Fairness

-----------------------------------------------------------------------------
\* Properties.

\* A state begins with the start of the game, or with what loading one left.
States == Seq(Clients \cup Commands \cup {Torn} \cup [Ports -> Joys]) \ {<<>>}

\* The ports a player may have, and the sizes of their data.
Places == Masks \cup {{}}
Sizes == {SetSize(mask) : mask \in Places} \cup {0}

ServerMessages ==
    [kind : {"input"}, size : Sizes, pads : UNION {[mask -> Joys] : mask \in Places}]
    \cup [kind : {"LOADSTATE"}, size : Sizes, state : States]
    \cup [kind : Commands \cup {"login", "closed", "SETFPS", "INTEGRITY_RES"}, size : Sizes]

ClientMessages ==
    [kind : {"frame"}, pads : [Ports -> Joys]]
    \cup [kind : {"LOADSTATE"}, state : States]
    \cup [kind : {"YOUJOINED"}, mask : Places]
    \cup [kind : Commands \cup {"SAVESTATE", "INTEGRITY"}]

\* Every variable has its type.
TypeOK ==
    /\ phase \in [Clients -> Phases]
    /\ Joined \in [Clients -> BOOLEAN]
    /\ LocalPlayersMask \in [Clients -> Places]
    /\ LocalInputStateSize \in [Clients -> Sizes]
    /\ game \in [Clients -> States]
    /\ replay \in [Clients -> States \cup {NoState}]
    /\ toServer \in [Clients -> Seq(ServerMessages)]
    /\ toClient \in [Clients -> Seq(ClientMessages)]
    /\ players \subseteq Clients
    /\ seat \in [Clients -> Places]
    /\ synced \subseteq players
    /\ asked \in Clients \cup {NoClient}
    /\ held \in [Ports -> Joys]
    /\ events \in 0 .. MaxEvents

\* A packet has no length of its own but for what follows a command: the
\* server reads as many bytes of input as the ports it gave this player have,
\* so whatever reaches it must have been built with that size, across joining,
\* leaving and joining again.
Aligned ==
    \A c \in Clients : toServer[c] # << >> =>
        LET message == Head(toServer[c])
        IN  \/ message.kind \in {"login", "closed"}
            \/ /\ c \in players
               /\ message.size = SetSize(seat[c])
               /\ message.kind = "input" => DOMAIN message.pads = seat[c]

\* What a packet makes of a game.
Effect(state, packet) ==
    IF packet.kind = "frame" THEN Emulated(state, packet.pads)
    ELSE IF packet.kind = "LOADSTATE" THEN packet.state
    ELSE IF packet.kind \in Commands THEN Did(state, packet.kind)
    ELSE state

Executed(state, channel) ==
    LET executed[i \in 0 .. Len(channel)] ==
            IF i = 0 THEN state ELSE Effect(executed[i - 1], channel[i])
    IN  executed[Len(channel)]

\* The game of a client once it has executed what is on its way.
Settled(c) == Executed(game[c], toClient[c])

\* It has loaded a state that the server has not read yet.
Loading(channel) == \E i \in DOMAIN channel : channel[i].kind = "LOADSTATE"

\* The clients that have the state of the game, and have not just loaded one
\* that the others are yet to get.
Settling == {c \in synced : Reaches(c) /\ ~Loading(toServer[c])}

\* Everybody plays the same game: whatever is done to it is done at the same
\* place of the stream by all, the one who asked for it included, also when
\* states are loaded or handed to newcomers in the middle.  (Games astray
\* apart.)
Agreement ==
    \A c, d \in Settling :
        \/ Settled(c) = Settled(d)
        \/ Astray(Settled(c)) \/ Astray(Settled(d))

\* A movie recorded during netplay has every input that the game had, with
\* the states received in between, at their places.
Inputs(state) ==
    LET inputs[i \in 0 .. Len(state)] ==
            IF i = 0 THEN << >>
            ELSE IF state[i] \in Commands THEN inputs[i - 1]
            ELSE Append(inputs[i - 1], state[i])
    IN  inputs[Len(state)]
MovieKeepsInputs ==
    \A c \in Clients : \/ replay[c] = NoState
                       \/ Astray(game[c])
                       \/ Inputs(replay[c]) = Inputs(game[c])

\* "Recording's ok during netplay": such a movie leads to the state of the
\* game.
MovieFollows ==
    \A c \in Clients : replay[c] = NoState \/ Astray(game[c]) \/ replay[c] = game[c]

\* A frame does not wait for ever in NetplayUpdate while the server ticks.
UpdateReturns == \A c \in Clients : phase[c] = "updating" ~> phase[c] # "updating"

\* Who joins a game gets its state, or leaves.
NewcomerSynced == \A c \in Clients : c \in players ~> c \in synced \/ c \notin players
=============================================================================
