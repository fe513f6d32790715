------------------------- MODULE NetplayGamesProofs -------------------------
(***************************************************************************)
(* Everybody plays the same game, whatever the clients, the ports and the  *)
(* bounds.  The games are compared once each client has executed what is   *)
(* on its way to it, so the proof is about executing a sequence of         *)
(* packets: one at its end is done last (ExecutedMore), the one taken is   *)
(* done first (ExecutedNext).  Then a client that takes a packet keeps     *)
(* what it settles to, and what the server sends, it sends to all.         *)
(***************************************************************************)
EXTENDS NetplayProofs, Recursion

-----------------------------------------------------------------------------
\* Executing what is on a connection, a packet at a time.

Path(state, channel, f) ==
    /\ f \in [0 .. Len(channel) -> States]
    /\ f[0] = state
    /\ \A i \in 1 .. Len(channel) : f[i] = Effect(f[i - 1], channel[i])

LEMMA EffectTypes ==
    ASSUME NEW state \in States, NEW packet \in ClientMessages
    PROVE  Effect(state, packet) \in States
<1>1. CASE packet.kind = "frame"
  BY <1>1, ClientMessageTypes, StateTypes DEF Effect
<1>2. CASE packet.kind = "LOADSTATE"
  BY <1>2, ClientMessageTypes DEF Effect
<1>3. CASE packet.kind \in Commands
  BY <1>3, StateTypes, NetplayAssumption DEF Effect, Protocol
<1>4. CASE packet.kind \notin Commands \cup {"frame", "LOADSTATE"}
  BY <1>4 DEF Effect
<1> QED  BY <1>1, <1>2, <1>3, <1>4

LEMMA ExecutedPath ==
    ASSUME NEW state \in States, NEW channel \in Seq(ClientMessages)
    PROVE  \E f : Path(state, channel, f) /\ Executed(state, channel) = f[Len(channel)]
<1> DEFINE n == Len(channel)
           R == [i \in 1 .. n |-> [s \in States |-> Effect(s, channel[i])]]
           Step(g) == [i \in 0 .. n |-> IF i = 0 THEN state ELSE Effect(g[i - 1], channel[i])]
           f == CHOOSE g : g = Step(g)
<1>1. n \in Nat /\ \A i \in 1 .. n : channel[i] \in ClientMessages
  OBVIOUS
<1>2. R \in [1 .. n -> [States -> States]]
  BY <1>1, EffectTypes
<1>3. PICK h : Iterates(n, States, state, R, h)
  <2> HIDE DEF R, n
  <2> QED  BY <1>1, <1>2, Iteration
<1>4. h \in [0 .. n -> States] /\ h[0] = state /\ \A i \in 1 .. n : h[i] = R[i][h[i - 1]]
  <2> HIDE DEF R, n
  <2> QED  BY <1>3 DEF Iterates
<1>5. \A i \in 1 .. n : h[i] = Effect(h[i - 1], channel[i])
  BY <1>4
<1>6. h = Step(h)
  BY <1>4, <1>5
<1> HIDE DEF Step
<1>7. f = Step(f)
  BY <1>6
<1>8. Executed(state, channel) = f[n]
  BY DEF Executed, Step
<1> HIDE DEF f
<1>9. /\ DOMAIN f = 0 .. n /\ f[0] = state
      /\ \A i \in 1 .. n : f[i] = Effect(f[i - 1], channel[i])
  BY <1>1, <1>7 DEF Step
<1> DEFINE T == {i \in 0 .. n : f[i] \in States}
<1>10. 0 .. n \subseteq T
  <2>1. 0 \in T
    BY <1>1, <1>9
  <2>2. ASSUME NEW i \in 1 .. n, i - 1 \in T  PROVE i \in T
    <3>1. Effect(f[i - 1], channel[i]) \in States
      BY <1>1, <2>2, EffectTypes
    <3> QED  BY <1>9, <3>1
  <2> HIDE DEF T, n
  <2> QED  BY <1>1, <2>1, <2>2, Induction
<1>11. f = [i \in 0 .. n |-> f[i]]
  BY <1>7 DEF Step
<1>12. f \in [0 .. n -> States]
  BY <1>10, <1>11
<1> QED  BY <1>8, <1>9, <1>12 DEF Path

LEMMA ExecutedTyped ==
    ASSUME NEW state \in States, NEW channel \in Seq(ClientMessages)
    PROVE  Executed(state, channel) \in States
<1>1. PICK f : Path(state, channel, f) /\ Executed(state, channel) = f[Len(channel)]
  BY ExecutedPath
<1> QED  BY <1>1 DEF Path

\* One more packet at the end.
LEMMA ExecutedMore ==
    ASSUME NEW state \in States, NEW channel \in Seq(ClientMessages), NEW packet \in ClientMessages
    PROVE  Executed(state, Append(channel, packet)) = Effect(Executed(state, channel), packet)
<1> DEFINE n == Len(channel)
           longer == Append(channel, packet)
<1>1. /\ n \in Nat /\ longer \in Seq(ClientMessages) /\ Len(longer) = n + 1
      /\ \A i \in 1 .. n : longer[i] = channel[i]
      /\ longer[n + 1] = packet
  OBVIOUS
<1>2. PICK f : Path(state, channel, f) /\ Executed(state, channel) = f[n]
  BY ExecutedPath
<1> HIDE DEF longer
<1>3. PICK g : Path(state, longer, g) /\ Executed(state, longer) = g[n + 1]
  BY <1>1, ExecutedPath
<1>4. /\ f[0] = state /\ g[0] = state
      /\ \A i \in 1 .. n : f[i] = Effect(f[i - 1], channel[i])
      /\ \A i \in 1 .. n + 1 : g[i] = Effect(g[i - 1], longer[i])
  BY <1>1, <1>2, <1>3 DEF Path
<1> DEFINE T == {i \in 0 .. n : f[i] = g[i]}
<1>5. 0 .. n \subseteq T
  <2>1. 0 \in T
    BY <1>1, <1>4
  <2>2. ASSUME NEW i \in 1 .. n, i - 1 \in T  PROVE i \in T
    <3>1. f[i - 1] = g[i - 1] /\ i \in 1 .. n + 1
      BY <1>1, <2>2
    <3> QED  BY <1>1, <1>4, <3>1
  <2> HIDE DEF T, n
  <2> QED  BY <1>1, <2>1, <2>2, Induction
<1>6. f[n] = g[n]
  BY <1>1, <1>5
<1>7. g[n + 1] = Effect(g[n], packet)
  BY <1>1, <1>4
<1> QED  BY <1>2, <1>3, <1>6, <1>7 DEF longer

\* The first packet executed.
LEMMA ExecutedNext ==
    ASSUME NEW state \in States, NEW channel \in Seq(ClientMessages), channel # << >>
    PROVE  Executed(Effect(state, Head(channel)), Tail(channel)) = Executed(state, channel)
<1> DEFINE n == Len(channel) - 1
           next == Effect(state, Head(channel))
           rest == Tail(channel)
<1>1. /\ n \in Nat /\ rest \in Seq(ClientMessages) /\ Len(rest) = n /\ Len(channel) = n + 1
      /\ \A i \in 1 .. n : rest[i] = channel[i + 1]
      /\ Head(channel) = channel[1] /\ Head(channel) \in ClientMessages
  OBVIOUS
<1>2. next \in States
  BY <1>1, EffectTypes
<1>3. PICK f : Path(state, channel, f) /\ Executed(state, channel) = f[n + 1]
  BY <1>1, ExecutedPath
<1> HIDE DEF rest, next
<1>4. PICK g : Path(next, rest, g) /\ Executed(next, rest) = g[n]
  BY <1>1, <1>2, ExecutedPath
<1>5. /\ f[0] = state /\ g[0] = next
      /\ \A i \in 1 .. n + 1 : f[i] = Effect(f[i - 1], channel[i])
      /\ \A i \in 1 .. n : g[i] = Effect(g[i - 1], rest[i])
  BY <1>1, <1>3, <1>4 DEF Path
<1> HIDE DEF n
<1> DEFINE T == {i \in 0 .. n : g[i] = f[i + 1]}
<1>6. 0 .. n \subseteq T
  <2>1. 0 \in T
    <3>1. f[1] = Effect(f[0], channel[1])
      <4>1. 1 \in 1 .. n + 1 /\ 1 - 1 = 0
        BY <1>1
      <4> QED  BY <1>5, <4>1
    <3> QED  BY <1>1, <1>5, <3>1 DEF next
  <2>2. ASSUME NEW i \in 1 .. n, i - 1 \in T  PROVE i \in T
    <3>1. g[i - 1] = f[i] /\ i + 1 \in 1 .. n + 1 /\ (i + 1) - 1 = i /\ i \in 0 .. n
      BY <1>1, <2>2
    <3>2. f[i + 1] = Effect(f[i], channel[i + 1])
      BY <1>5, <3>1
    <3>3. g[i] = Effect(g[i - 1], rest[i])
      BY <1>5
    <3> QED  BY <1>1, <3>1, <3>2, <3>3
  <2> HIDE DEF T
  <2> QED  BY <1>1, <2>1, <2>2, Induction
<1>7. g[n] = f[n + 1]
  BY <1>1, <1>6
<1> QED  BY <1>3, <1>4, <1>7 DEF rest, next

\* A game astray stays so until it gets a state.
LEMMA AstrayStays ==
    ASSUME NEW state \in States, Astray(state), NEW packet, packet.kind # "LOADSTATE"
    PROVE  Astray(Effect(state, packet))
<1>1. \A event : Astray(Did(state, event))
  BY DEF Astray, Did, States
<1> QED  BY <1>1 DEF Effect, Emulated

\* What gets to a game astray leaves it astray, or makes of it what it makes
\* of any other.
LEMMA ExecutedTorn ==
    ASSUME NEW state \in States, NEW torn \in States, Astray(torn),
           NEW channel \in Seq(ClientMessages)
    PROVE  Astray(Executed(torn, channel)) \/ Executed(torn, channel) = Executed(state, channel)
<1> DEFINE n == Len(channel)
<1>1. n \in Nat
  OBVIOUS
<1>2. PICK f : Path(state, channel, f) /\ Executed(state, channel) = f[n]
  BY ExecutedPath
<1>3. PICK g : Path(torn, channel, g) /\ Executed(torn, channel) = g[n]
  BY ExecutedPath
<1>4. /\ g \in [0 .. n -> States] /\ g[0] = torn
      /\ \A i \in 1 .. n : f[i] = Effect(f[i - 1], channel[i]) /\ g[i] = Effect(g[i - 1], channel[i])
  BY <1>2, <1>3 DEF Path
<1> HIDE DEF n
<1> DEFINE T == {i \in 0 .. n : Astray(g[i]) \/ g[i] = f[i]}
<1>5. 0 .. n \subseteq T
  <2>1. 0 \in T
    BY <1>1, <1>4
  <2>2. ASSUME NEW i \in 1 .. n, i - 1 \in T  PROVE i \in T
    <3>1. g[i - 1] \in States /\ (Astray(g[i - 1]) \/ g[i - 1] = f[i - 1])
      BY <1>1, <1>4, <2>2
    <3>2. f[i] = Effect(f[i - 1], channel[i]) /\ g[i] = Effect(g[i - 1], channel[i])
      BY <1>4
    <3>3. CASE channel[i].kind = "LOADSTATE"
      <4>1. g[i] = f[i]
        BY <3>2, <3>3 DEF Effect
      <4> QED  BY <1>1, <4>1
    <3>4. CASE channel[i].kind # "LOADSTATE" /\ Astray(g[i - 1])
      <4>1. Astray(g[i])
        BY <3>1, <3>2, <3>4, AstrayStays
      <4> QED  BY <1>1, <4>1
    <3>5. CASE g[i - 1] = f[i - 1]
      <4>1. g[i] = f[i]
        BY <3>2, <3>5
      <4> QED  BY <1>1, <4>1
    <3> QED  BY <3>1, <3>3, <3>4, <3>5
  <2> HIDE DEF T
  <2> QED  BY <1>1, <2>1, <2>2, Induction
<1>6. Astray(g[n]) \/ g[n] = f[n]
  BY <1>1, <1>5
<1> QED  BY <1>2, <1>3, <1>6

-----------------------------------------------------------------------------
\* Who settles.

Settles(up) == ~Turning(up) /\ ~Loading(up)

\* A message that leaves things settled.
Calm(message) == message.kind \notin {"closed", "login", "LOADSTATE"}

LEMMA SettlesMeans ==
    ASSUME NEW up \in Seq(ServerMessages)
    PROVE  Settles(up) <=> \A i \in DOMAIN up : Calm(up[i])
  BY DEF Settles, Turning, Loading, Calm

LEMMA SettlesAppend ==
    ASSUME NEW up \in Seq(ServerMessages), NEW m \in ServerMessages
    PROVE  Settles(Append(up, m)) <=> Settles(up) /\ Calm(m)
<1> DEFINE up2 == Append(up, m)
<1>1. /\ up2 \in Seq(ServerMessages) /\ Len(up) \in Nat
      /\ DOMAIN up = 1 .. Len(up) /\ DOMAIN up2 = 1 .. Len(up) + 1
      /\ \A i \in DOMAIN up : up2[i] = up[i]
      /\ up2[Len(up) + 1] = m
  OBVIOUS
<1> HIDE DEF up2
<1>2. (\A i \in DOMAIN up2 : Calm(up2[i])) <=> (\A i \in DOMAIN up : Calm(up[i])) /\ Calm(m)
  <2>1. ASSUME \A i \in DOMAIN up2 : Calm(up2[i])
        PROVE  (\A i \in DOMAIN up : Calm(up[i])) /\ Calm(m)
    BY <1>1, <2>1
  <2>2. ASSUME \A i \in DOMAIN up : Calm(up[i]), Calm(m), NEW i \in DOMAIN up2
        PROVE  Calm(up2[i])
    <3>1. i \in DOMAIN up \/ i = Len(up) + 1
      BY <1>1
    <3> QED  BY <1>1, <2>2, <3>1
  <2> QED  BY <2>1, <2>2
<1> QED  BY <1>1, <1>2, SettlesMeans DEF up2

LEMMA SettlesTail ==
    ASSUME NEW up \in Seq(ServerMessages), up # << >>, Calm(Head(up))
    PROVE  Settles(Tail(up)) <=> Settles(up)
<1> DEFINE up2 == Tail(up)
<1>1. /\ up2 \in Seq(ServerMessages) /\ DOMAIN up = 1 .. Len(up) /\ Len(up) \in Nat
      /\ DOMAIN up2 = 1 .. Len(up) - 1
      /\ Head(up) = up[1]
      /\ \A i \in DOMAIN up2 : up2[i] = up[i + 1] /\ i + 1 \in DOMAIN up
  BY LinkRest
<1> HIDE DEF up2
<1>2. (\A i \in DOMAIN up2 : Calm(up2[i])) <=> (\A i \in DOMAIN up : Calm(up[i]))
  <2>1. ASSUME \A i \in DOMAIN up2 : Calm(up2[i]), NEW i \in DOMAIN up
        PROVE  Calm(up[i])
    <3>1. CASE i = 1
      BY <1>1, <3>1
    <3>2. CASE i # 1
      <4>1. i - 1 \in DOMAIN up2 /\ (i - 1) + 1 = i
        BY <1>1, <3>2
      <4>2. up2[i - 1] = up[i]
        BY <1>1, <4>1
      <4> QED  BY <2>1, <4>1, <4>2
    <3> QED  BY <3>1, <3>2
  <2>2. ASSUME \A i \in DOMAIN up : Calm(up[i]), NEW i \in DOMAIN up2
        PROVE  Calm(up2[i])
    BY <1>1, <2>2
  <2> QED  BY <2>1, <2>2
<1> QED  BY <1>1, <1>2, SettlesMeans DEF up2

LEMMA SettlingMeans ==
    ASSUME NEW d
    PROVE  /\ d \in Settling <=> d \in synced /\ d \in players /\ Settles(toServer[d])
           /\ (d \in Settling)' <=> d \in synced' /\ d \in players' /\ Settles(toServer'[d])
  BY DEF Settling, Settles, Reaches

-----------------------------------------------------------------------------
\* The games of those who settle.

LEMMA SettledTyped ==
    ASSUME IInv, NEW d \in Clients
    PROVE  /\ game[d] \in States /\ toClient[d] \in Seq(ClientMessages)
           /\ toServer[d] \in Seq(ServerMessages)
           /\ Settled(d) \in States
<1>1. game[d] \in States /\ toClient[d] \in Seq(ClientMessages) /\ toServer[d] \in Seq(ServerMessages)
  BY DEF IInv, TypeOK
<1> QED  BY <1>1, ExecutedTyped DEF Settled

\* All that stay settled get the same packet, or go astray.
LEMMA Together ==
    ASSUME IInv, Agreement, NEW packet, packet.kind # "LOADSTATE",
           \A d \in Clients : d \in Settling' =>
               /\ d \in Settling
               /\ Astray(Settled(d)') \/ Settled(d)' = Effect(Settled(d), packet),
           Settling' \subseteq Clients
    PROVE  Agreement'
<1> SUFFICES ASSUME NEW c \in Clients, NEW d \in Clients, c \in Settling', d \in Settling',
                    ~Astray(Settled(c)'), ~Astray(Settled(d)')
             PROVE  Settled(c)' = Settled(d)'
  BY DEF Agreement
<1>1. /\ c \in Settling /\ Settled(c)' = Effect(Settled(c), packet)
      /\ d \in Settling /\ Settled(d)' = Effect(Settled(d), packet)
  OBVIOUS
<1>2. ~Astray(Settled(c)) /\ ~Astray(Settled(d))
  BY <1>1, SettledTyped, AstrayStays
<1>3. Settled(c) = Settled(d)
  BY <1>1, <1>2 DEF Agreement
<1> QED  BY <1>1, <1>3

\* A packet that changes nothing.
LEMMA Nothing ==
    \A state : Effect(state, Packet("INTEGRITY")) = state /\ Effect(state, Packet("SAVESTATE")) = state
  BY NetplayAssumption DEF Effect, Packet, Protocol

\* A step of one client.
LEMMA OneClient ==
    ASSUME IInv, Agreement, IInv', NEW c \in Clients, UNCHANGED serverVars,
           \A d \in Clients \ {c} : /\ game'[d] = game[d] /\ toClient'[d] = toClient[d]
                                    /\ toServer'[d] = toServer[d],
           c \in Settling' => /\ c \in Settling
                              /\ Astray(Settled(c)') \/ Settled(c)' = Settled(c)
    PROVE  Agreement'
<1> DEFINE packet == Packet("INTEGRITY")
<1>1. packet.kind # "LOADSTATE" /\ \A state : Effect(state, packet) = state
  BY Nothing DEF Packet
<1> HIDE DEF packet
<1>2. Settling' \subseteq Clients
  BY DEF IInv, TypeOK, Settling
<1>3. ASSUME NEW d \in Clients, d \in Settling'
      PROVE  d \in Settling /\ (Astray(Settled(d)') \/ Settled(d)' = Effect(Settled(d), packet))
  <2>1. CASE d = c
    BY <1>1, <1>3, <2>1
  <2>2. CASE d # c
    <3>1. game'[d] = game[d] /\ toClient'[d] = toClient[d] /\ toServer'[d] = toServer[d]
      BY <2>2
    <3>2. d \in Settling
      BY <1>3, <3>1, SettlingMeans DEF serverVars
    <3>3. Settled(d)' = Settled(d)
      BY <3>1 DEF Settled
    <3> QED  BY <1>1, <3>2, <3>3
  <2> QED  BY <2>1, <2>2
<1> QED  BY <1>1, <1>2, <1>3, Together

\* What a client sends unsettles it, or nobody.
LEMMA Unsettles ==
    ASSUME IInv, NEW c \in Clients, NEW up \in Seq(ServerMessages), NEW m \in ServerMessages,
           toServer'[c] = Append(up, m), ~Calm(m)
    PROVE  c \notin Settling'
  BY SettlesAppend, SettlingMeans

LEMMA NetStartAgrees ==
    ASSUME IInv, Agreement, IInv', NEW c \in Clients, NetStart(c)
    PROVE  Agreement'
<1>1. Closing(c) \in Seq(ServerMessages) /\ Login \in ServerMessages /\ ~Calm(Login)
  BY ServerMessageTypes DEF Closing, IInv, TypeOK, Calm, Login
<1>2. /\ toServer' = [toServer EXCEPT ![c] = Append(Closing(c), Login)]
      /\ toClient' = [toClient EXCEPT ![c] = << >>] /\ UNCHANGED <<game, serverVars>>
  BY DEF NetStart
<1>3. toServer'[c] = Append(Closing(c), Login)
  BY <1>2 DEF IInv, TypeOK
<1>4. \A d \in Clients \ {c} : /\ game'[d] = game[d] /\ toClient'[d] = toClient[d]
                               /\ toServer'[d] = toServer[d]
  BY <1>2 DEF IInv, TypeOK
<1>5. c \notin Settling'
  BY <1>1, <1>3, Unsettles
<1> QED  BY <1>2, <1>4, <1>5, OneClient

LEMMA NetworkCloseAgrees ==
    ASSUME IInv, Agreement, IInv', NEW c \in Clients, NetworkClose(c)
    PROVE  Agreement'
<1>1. /\ toServer' = [toServer EXCEPT ![c] = Closing(c)]
      /\ toClient' = [toClient EXCEPT ![c] = << >>] /\ UNCHANGED <<game, serverVars>>
  BY DEF NetworkClose
<1>2. \A d \in Clients \ {c} : /\ game'[d] = game[d] /\ toClient'[d] = toClient[d]
                               /\ toServer'[d] = toServer[d]
  BY <1>1 DEF IInv, TypeOK
<1>3. toServer'[c] = Closing(c)
  BY <1>1 DEF IInv, TypeOK
<1>4. c \notin Settling'
  <2>1. CASE phase[c] = "lost"
    <3>1. toServer'[c] = toServer[c] /\ (c \in players' <=> c \in players)
      BY <1>1, <1>3, <2>1 DEF Closing, serverVars
    <3>2. c \in players => Turning(toServer[c])
      BY <2>1, LinkOf DEF Link0, Link, InNetplay
    <3> QED  BY <3>1, <3>2, SettlingMeans DEF Settles
  <2>2. CASE phase[c] = "between"
    <3>1. Closing(c) = Append(toServer[c], Closed)
      BY <2>2 DEF Closing
    <3>2. Closed \in ServerMessages /\ ~Calm(Closed) /\ toServer[c] \in Seq(ServerMessages)
      BY ServerMessageTypes DEF Calm, Closed, IInv, TypeOK
    <3> QED  BY <1>3, <3>1, <3>2, Unsettles
  <2> QED  BY <2>1, <2>2 DEF NetworkClose
<1> QED  BY <1>1, <1>2, <1>4, OneClient

\* Sending, the game and what is on its way staying as they are.
LEMMA SendAgrees ==
    ASSUME IInv, Agreement, IInv', NEW c \in Clients, NEW m \in ServerMessages, Send(c, m),
           UNCHANGED serverVars,
           \A d \in Clients \ {c} : game'[d] = game[d] /\ toClient'[d] = toClient[d],
           Calm(m) => Settled(c)' = Settled(c)
    PROVE  Agreement'
<1>1. toServer' = [toServer EXCEPT ![c] = Append(@, m)] /\ toServer[c] \in Seq(ServerMessages)
  BY DEF Send, IInv, TypeOK
<1>2. toServer'[c] = Append(toServer[c], m) /\ \A d \in Clients \ {c} : toServer'[d] = toServer[d]
  BY <1>1 DEF IInv, TypeOK
<1>3. CASE Calm(m)
  <2>1. c \in Settling' => c \in Settling
    BY <1>1, <1>2, SettlesAppend, SettlingMeans DEF serverVars
  <2> QED  BY <1>2, <1>3, <2>1, OneClient
<1>4. CASE ~Calm(m)
  <2>1. c \notin Settling'
    BY <1>1, <1>2, <1>4, Unsettles
  <2> QED  BY <1>2, <2>1, OneClient
<1> QED  BY <1>3, <1>4

\* The game and the connections of a client, each as it is for the others.
LEMMA SameGame ==
    ASSUME IInv, NEW c \in Clients, UNCHANGED <<game, toClient>>
    PROVE  /\ \A d \in Clients \ {c} : game'[d] = game[d] /\ toClient'[d] = toClient[d]
           /\ Settled(c)' = Settled(c)
  BY DEF Settled

LEMMA SimpleCommandAgrees ==
    ASSUME IInv, Agreement, IInv', NEW c \in Clients, NEW cmd \in Commands, SimpleCommand(c, cmd)
    PROVE  Agreement'
<1>1. /\ Send(c, Command(LocalInputStateSize[c], cmd))
      /\ UNCHANGED <<game, toClient, serverVars>>
  BY DEF SimpleCommand, QSimpleCommand
<1>2. Command(LocalInputStateSize[c], cmd) \in ServerMessages
  BY ServerMessageTypes DEF IInv, TypeOK
<1> QED  BY <1>1, <1>2, SameGame, SendAgrees

LEMMA LoadStateAgrees ==
    ASSUME IInv, Agreement, IInv', NEW c \in Clients, LoadState(c)
    PROVE  Agreement'
<1> DEFINE m == State(LocalInputStateSize[c], Boot(c))
<1>1. /\ Send(c, m) /\ game' = [game EXCEPT ![c] = Boot(c)]
      /\ UNCHANGED <<toClient, serverVars>>
  BY DEF LoadState, SendState, Becomes
<1>2. m \in ServerMessages
  BY ServerMessageTypes, StateTypes DEF IInv, TypeOK
<1>3. ~Calm(m)
  BY DEF Calm, State
<1> HIDE DEF m
<1>4. \A d \in Clients \ {c} : game'[d] = game[d] /\ toClient'[d] = toClient[d]
  BY <1>1 DEF IInv, TypeOK
<1> QED  BY <1>1, <1>2, <1>3, <1>4, SendAgrees

LEMMA LoadStateFailsAgrees ==
    ASSUME IInv, Agreement, IInv', NEW c \in Clients, LoadStateFails(c)
    PROVE  Agreement'
<1>1. /\ game' = [game EXCEPT ![c] = HalfLoaded]
      /\ UNCHANGED <<toServer, toClient, serverVars>>
  BY DEF LoadStateFails, Becomes
<1>2. /\ game'[c] = HalfLoaded
      /\ \A d \in Clients \ {c} : game'[d] = game[d]
  BY <1>1 DEF IInv, TypeOK
<1>3. HalfLoaded \in States /\ Astray(HalfLoaded)
  BY StateTypes DEF HalfLoaded, Astray
<1>4. Astray(Settled(c)') \/ Settled(c)' = Settled(c)
  <2>1. game[c] \in States /\ toClient[c] \in Seq(ClientMessages)
    BY SettledTyped
  <2> QED  BY <1>1, <1>2, <1>3, <2>1, ExecutedTorn DEF Settled
<1>5. c \in Settling' => c \in Settling
  BY <1>1, SettlingMeans DEF serverVars
<1> QED  BY <1>1, <1>2, <1>4, <1>5, OneClient

LEMMA BeginUpdateAgrees ==
    ASSUME IInv, Agreement, IInv', NEW c \in Clients, NEW joy \in Joys, BeginUpdate(c, joy)
    PROVE  Agreement'
<1> DEFINE packed == [x \in LocalPlayersMask[c] |-> Pad(joy, Source(LocalPlayersMask[c], x))]
           m == Input(LocalInputStateSize[c], packed)
<1>1. UNCHANGED <<game, toClient, serverVars>>
  BY DEF BeginUpdate
<1>2. CASE Joined[c]
  <2>1. Send(c, m)
    BY <1>2 DEF BeginUpdate
  <2>2. packed \in [LocalPlayersMask[c] -> Joys]
    BY NetplayAssumption DEF Pad
  <2>3. m \in ServerMessages
    <3> HIDE DEF packed
    <3> QED  BY <2>2, ServerMessageTypes DEF IInv, TypeOK
  <2> HIDE DEF m
  <2> QED  BY <1>1, <2>1, <2>3, SameGame, SendAgrees
<1>3. CASE ~Joined[c]
  <2>1. UNCHANGED toServer
    BY <1>3 DEF BeginUpdate
  <2>2. c \in Settling' => c \in Settling
    BY <1>1, <2>1, SettlingMeans DEF serverVars
  <2> QED  BY <1>1, <2>1, <2>2, SameGame, OneClient
<1> QED  BY <1>2, <1>3

\* A client does what the packet it takes says.
LEMMA TakeAgrees ==
    ASSUME IInv, Agreement, IInv', NEW c \in Clients, NEW kinds, Receives(c, kinds),
           \/ UNCHANGED toServer
           \/ \E m \in ServerMessages : Send(c, m),
           game' = [game EXCEPT ![c] = Effect(game[c], Head(toClient[c]))]
    PROVE  Agreement'
<1>1. /\ toClient[c] # << >> /\ toClient' = [toClient EXCEPT ![c] = Tail(@)]
      /\ UNCHANGED serverVars
  BY DEF Receives
<1>2. /\ game'[c] = Effect(game[c], Head(toClient[c])) /\ toClient'[c] = Tail(toClient[c])
      /\ \A d \in Clients \ {c} : game'[d] = game[d] /\ toClient'[d] = toClient[d]
  BY <1>1 DEF IInv, TypeOK
<1>3. Settled(c)' = Settled(c)
  <2>1. game[c] \in States /\ toClient[c] \in Seq(ClientMessages)
    BY SettledTyped
  <2> QED  BY <1>1, <1>2, <2>1, ExecutedNext DEF Settled
<1>4. CASE UNCHANGED toServer
  <2>1. c \in Settling' => c \in Settling
    BY <1>1, <1>4, SettlingMeans DEF serverVars
  <2> QED  BY <1>1, <1>2, <1>3, <1>4, <2>1, OneClient
<1>5. ASSUME NEW m \in ServerMessages, Send(c, m)  PROVE Agreement'
  BY <1>1, <1>2, <1>3, <1>5, SendAgrees
<1> QED  BY <1>4, <1>5

\* A packet that leaves the game alone.
LEMMA NoEffect ==
    ASSUME IInv, NEW c \in Clients, UNCHANGED game,
           NEW packet, packet.kind \in {"SAVESTATE", "INTEGRITY", "YOUJOINED"}
    PROVE  game' = [game EXCEPT ![c] = Effect(game[c], packet)]
<1>1. Effect(game[c], packet) = game[c]
  BY NetplayAssumption DEF Effect, Protocol
<1> QED  BY <1>1 DEF IInv, TypeOK

LEMMA ReceiveAgrees ==
    ASSUME IInv, Agreement, IInv', NEW c \in Clients,
           \/ RecvFrame(c) \/ RecvCommand(c) \/ RecvLoadState(c)
           \/ RecvSaveState(c) \/ RecvIntegrity(c) \/ RecvYouJoined(c)
    PROVE  Agreement'
<1> DEFINE packet == Head(toClient[c])
           after == [game EXCEPT ![c] = Effect(game[c], packet)]
<1>1. CASE RecvFrame(c)
  <2>1. Receives(c, {"frame"}) /\ UNCHANGED toServer
    BY <1>1 DEF RecvFrame
  <2>2. packet.kind = "frame"
    BY <2>1 DEF Receives
  <2>3. game' = after
    BY <1>1, <2>2 DEF RecvFrame, Becomes, Effect
  <2> QED  BY <2>1, <2>3, TakeAgrees
<1>2. CASE RecvCommand(c)
  <2>1. Receives(c, Commands) /\ UNCHANGED toServer
    BY <1>2 DEF RecvCommand
  <2>2. packet.kind \in Commands /\ packet.kind # "frame" /\ packet.kind # "LOADSTATE"
    BY <2>1, NetplayAssumption DEF Receives, Protocol
  <2>3. game' = after
    BY <1>2, <2>2 DEF RecvCommand, Becomes, Effect
  <2> QED  BY <2>1, <2>3, TakeAgrees
<1>3. CASE RecvLoadState(c)
  <2>1. Receives(c, {"LOADSTATE"}) /\ UNCHANGED toServer
    BY <1>3 DEF RecvLoadState
  <2>2. packet.kind = "LOADSTATE"
    BY <2>1 DEF Receives
  <2>3. game' = after
    BY <1>3, <2>2 DEF RecvLoadState, RecvState, Becomes, Effect
  <2> QED  BY <2>1, <2>3, TakeAgrees
<1>4. CASE RecvSaveState(c)
  <2>1. Receives(c, {"SAVESTATE"}) /\ UNCHANGED game /\ Send(c, State(LocalInputStateSize[c], game[c]))
    BY <1>4 DEF RecvSaveState, SendState, clientVars
  <2>2. packet.kind = "SAVESTATE"
    BY <2>1 DEF Receives
  <2>3. game' = after
    BY <2>1, <2>2, NoEffect
  <2>4. State(LocalInputStateSize[c], game[c]) \in ServerMessages
    BY ServerMessageTypes DEF IInv, TypeOK
  <2> QED  BY <2>1, <2>3, <2>4, TakeAgrees
<1>5. CASE RecvIntegrity(c)
  <2>1. Receives(c, {"INTEGRITY"}) /\ UNCHANGED game
        /\ Send(c, Command(LocalInputStateSize[c], "INTEGRITY_RES"))
    BY <1>5 DEF RecvIntegrity, clientVars
  <2>2. packet.kind = "INTEGRITY"
    BY <2>1 DEF Receives
  <2>3. game' = after
    BY <2>1, <2>2, NoEffect
  <2>4. Command(LocalInputStateSize[c], "INTEGRITY_RES") \in ServerMessages
    BY ServerMessageTypes DEF IInv, TypeOK
  <2> QED  BY <2>1, <2>3, <2>4, TakeAgrees
<1>6. CASE RecvYouJoined(c)
  <2>1. Receives(c, {"YOUJOINED"}) /\ UNCHANGED game /\ Send(c, Command(SetSize(packet.mask), "SETFPS"))
    BY <1>6 DEF RecvYouJoined, SetFps
  <2>2. packet.kind = "YOUJOINED" /\ toClient[c] # << >>
    BY <2>1 DEF Receives
  <2>3. game' = after
    BY <2>1, <2>2, NoEffect
  <2>4. packet \in ClientMessages
    BY <2>2, SettledTyped
  <2>5. SetSize(packet.mask) \in Sizes
    BY <2>2, <2>4, ClientMessageTypes DEF Sizes
  <2>6. Command(SetSize(packet.mask), "SETFPS") \in ServerMessages
    BY <2>5, ServerMessageTypes
  <2> QED  BY <2>1, <2>3, <2>6, TakeAgrees
<1> QED  BY <1>1, <1>2, <1>3, <1>4, <1>5, <1>6

\* A client leaves netplay in the middle of an update.
LEMMA LeaveAgrees ==
    ASSUME IInv, Agreement, IInv', NEW c \in Clients, RecvStateFails(c) \/ RecvPart(c)
    PROVE  Agreement'
<1>1. /\ Send(c, Closed) /\ toClient' = [toClient EXCEPT ![c] = << >>] /\ UNCHANGED serverVars
      /\ \E state : game' = [game EXCEPT ![c] = state]
  BY DEF RecvStateFails, RecvPart, Becomes
<1>2. \A d \in Clients \ {c} : game'[d] = game[d] /\ toClient'[d] = toClient[d]
  BY <1>1 DEF IInv, TypeOK
<1>3. Closed \in ServerMessages /\ ~Calm(Closed)
  BY ServerMessageTypes DEF Calm, Closed
<1> QED  BY <1>1, <1>2, <1>3, SendAgrees

-----------------------------------------------------------------------------
\* The server, and the games.

\* The server reads what settles nobody, and sends to all the same packet.
LEMMA RelayAgrees ==
    ASSUME IInv, Agreement, IInv', NEW packet \in ClientMessages, packet.kind # "LOADSTATE",
           Relay(packet), UNCHANGED <<game, players, synced>>,
           UNCHANGED toServer \/ \E c \in Clients : SrvReads(c, Commands)
    PROVE  Agreement'
<1>1. \A d \in Clients : \/ toServer'[d] = toServer[d]
                         \/ /\ toServer[d] # << >> /\ Calm(Head(toServer[d]))
                            /\ toServer'[d] = Tail(toServer[d])
  <2>1. CASE UNCHANGED toServer
    BY <2>1
  <2>2. ASSUME NEW c \in Clients, SrvReads(c, Commands)
        PROVE  /\ toServer[c] # << >> /\ Calm(Head(toServer[c])) /\ toServer'[c] = Tail(toServer[c])
               /\ \A d \in Clients \ {c} : toServer'[d] = toServer[d]
    <3>1. toServer[c] # << >> /\ Head(toServer[c]).kind \in Commands
          /\ toServer'[c] = Tail(toServer[c])
          /\ \A d \in Clients \ {c} : toServer'[d] = toServer[d]
      BY <2>2, Read
    <3> QED  BY <3>1, NetplayAssumption DEF Calm, Protocol
  <2> QED  BY <2>1, <2>2
<1>2. ASSUME NEW d \in Clients, d \in Settling'
      PROVE  d \in Settling /\ Settled(d)' = Effect(Settled(d), packet)
  <2>1. toServer[d] \in Seq(ServerMessages)
    BY SettledTyped
  <2>2. d \in synced /\ d \in players /\ Settles(toServer'[d])
    BY <1>2, SettlingMeans
  <2>3. Settles(toServer[d])
    BY <1>1, <2>1, <2>2, SettlesTail
  <2>4. d \in Settling /\ Reaches(d)
    BY <2>2, <2>3, SettlingMeans DEF Reaches, Settles
  <2>5. toClient'[d] = Append(toClient[d], packet)
    BY <2>4 DEF Relay, IInv, TypeOK
  <2>6. game[d] \in States /\ toClient[d] \in Seq(ClientMessages)
    BY SettledTyped
  <2>7. Executed(game[d], Append(toClient[d], packet)) = Effect(Executed(game[d], toClient[d]), packet)
    BY <2>6, ExecutedMore
  <2> QED  BY <2>4, <2>5, <2>7 DEF Settled
<1>3. Settling' \subseteq Clients
  BY DEF IInv, TypeOK, Settling
<1> QED  BY <1>2, <1>3, Together

\* The server reads what is no state, and sends nothing.
LEMMA ReadAgrees ==
    ASSUME IInv, Agreement, IInv', NEW c \in Clients, NEW kinds, SrvReads(c, kinds),
           "login" \notin kinds, "LOADSTATE" \notin kinds,
           UNCHANGED toClient, synced' \subseteq synced,
           "closed" \in kinds => c \notin synced'
    PROVE  Agreement'
<1> DEFINE packet == Packet("INTEGRITY")
<1>1. /\ toServer[c] # << >> /\ Head(toServer[c]).kind \in kinds
      /\ toServer'[c] = Tail(toServer[c])
      /\ \A d \in Clients \ {c} : toServer'[d] = toServer[d]
      /\ UNCHANGED game
  BY Read DEF clientVars
<1>2. packet.kind # "LOADSTATE" /\ \A state : Effect(state, packet) = state
  BY Nothing DEF Packet
<1> HIDE DEF packet
<1>3. ASSUME NEW d \in Clients, d \in Settling'
      PROVE  d \in Settling /\ Settled(d)' = Effect(Settled(d), packet)
  <2>1. Settled(d)' = Settled(d)
    BY <1>1 DEF Settled
  <2>2. d \in synced /\ d \in players /\ Settles(toServer'[d])
    BY <1>3, SettlingMeans DEF IInv, TypeOK
  <2>3. toServer[d] \in Seq(ServerMessages)
    BY SettledTyped
  <2>4. Settles(toServer[d])
    <3>1. CASE d = c
      <4>1. "closed" \notin kinds
        BY <1>3, <3>1, SettlingMeans
      <4>2. Calm(Head(toServer[c]))
        BY <1>1, <4>1 DEF Calm
      <4> QED  BY <1>1, <2>2, <2>3, <3>1, <4>2, SettlesTail
    <3>2. CASE d # c
      BY <1>1, <2>2, <3>2
    <3> QED  BY <3>1, <3>2
  <2> QED  BY <1>2, <2>1, <2>2, <2>4, SettlingMeans
<1>4. Settling' \subseteq Clients
  BY DEF IInv, TypeOK, Settling
<1> QED  BY <1>2, <1>3, <1>4, Together

LEMMA SrvReadAgrees ==
    ASSUME IInv, Agreement, IInv', NEW c \in Clients, SrvClosed(c) \/ SrvInput(c) \/ SrvAnswer(c)
    PROVE  Agreement'
<1>1. CASE SrvClosed(c)
  <2>1. SrvReads(c, {"closed"}) /\ UNCHANGED toClient /\ synced' = synced \ {c}
    BY <1>1 DEF SrvClosed
  <2> QED  BY <2>1, ReadAgrees
<1>2. CASE SrvInput(c)
  <2>1. SrvReads(c, {"input"}) /\ UNCHANGED <<toClient, synced>>
    BY <1>2 DEF SrvInput
  <2> QED  BY <2>1, ReadAgrees
<1>3. CASE SrvAnswer(c)
  <2>1. SrvReads(c, {"SETFPS", "INTEGRITY_RES"}) /\ UNCHANGED <<toClient, synced>>
    BY <1>3 DEF SrvAnswer, serverVars
  <2> QED  BY <2>1, ReadAgrees
<1> QED  BY <1>1, <1>2, <1>3

LEMMA SrvRelayAgrees ==
    ASSUME IInv, Agreement, IInv',
           SrvTick \/ SrvAskIntegrity \/ \E c \in Clients : SrvCommand(c)
    PROVE  Agreement'
<1>1. CASE SrvTick
  <2>1. Relay(Frame(held)) /\ UNCHANGED <<clientVars, toServer, players, synced>>
    BY <1>1 DEF SrvTick
  <2>2. Frame(held) \in ClientMessages /\ Frame(held).kind # "LOADSTATE"
    BY ClientMessageTypes DEF Frame, IInv, TypeOK
  <2> QED  BY <2>1, <2>2, RelayAgrees DEF clientVars
<1>2. CASE SrvAskIntegrity
  <2>1. Relay(Packet("INTEGRITY")) /\ UNCHANGED <<clientVars, toServer, serverVars>>
    BY <1>2 DEF SrvAskIntegrity
  <2>2. Packet("INTEGRITY") \in ClientMessages /\ Packet("INTEGRITY").kind # "LOADSTATE"
    BY ClientMessageTypes DEF Packet
  <2> QED  BY <2>1, <2>2, RelayAgrees DEF clientVars, serverVars
<1>3. ASSUME NEW c \in Clients, SrvCommand(c)  PROVE Agreement'
  <2> DEFINE packet == Packet(Head(toServer[c]).kind)
  <2>1. SrvReads(c, Commands) /\ Relay(packet) /\ UNCHANGED serverVars
    BY <1>3 DEF SrvCommand
  <2>2. Head(toServer[c]).kind \in Commands /\ UNCHANGED clientVars
    BY <2>1, Read
  <2>3. packet \in ClientMessages /\ packet.kind # "LOADSTATE"
    BY <2>2, ClientMessageTypes, NetplayAssumption DEF Packet, Protocol
  <2> HIDE DEF packet
  <2> QED  BY <2>1, <2>2, <2>3, RelayAgrees DEF clientVars, serverVars
<1> QED  BY <1>1, <1>2, <1>3

LEMMA SrvAskStateAgrees ==
    ASSUME IInv, Agreement, IInv', NEW c \in Clients, SrvAskState(c)
    PROVE  Agreement'
<1> DEFINE packet == Packet("SAVESTATE")
<1>1. /\ packet \in ClientMessages /\ packet.kind # "LOADSTATE"
      /\ \A state : Effect(state, packet) = state
  BY Nothing, ClientMessageTypes DEF Packet
<1>2. /\ toClient' = [toClient EXCEPT ![c] = Append(@, packet)]
      /\ UNCHANGED <<clientVars, toServer, players, synced>>
  BY DEF SrvAskState
<1> HIDE DEF packet
<1>3. ASSUME NEW d \in Clients, d \in Settling'
      PROVE  d \in Settling /\ Settled(d)' = Effect(Settled(d), packet)
  <2>1. d \in Settling
    BY <1>2, <1>3, SettlingMeans
  <2>2. game' = game /\ game[d] \in States /\ toClient[d] \in Seq(ClientMessages)
    BY <1>2, SettledTyped DEF clientVars
  <2>3. CASE d = c
    <3>1. toClient'[d] = Append(toClient[d], packet)
      BY <1>2, <2>3 DEF IInv, TypeOK
    <3> QED  BY <1>1, <2>1, <2>2, <3>1, ExecutedMore DEF Settled
  <2>4. CASE d # c
    <3>1. toClient'[d] = toClient[d]
      BY <1>2, <2>4 DEF IInv, TypeOK
    <3> QED  BY <1>1, <2>1, <2>2, <3>1 DEF Settled
  <2> QED  BY <2>3, <2>4
<1>4. Settling' \subseteq Clients
  BY DEF IInv, TypeOK, Settling
<1> QED  BY <1>1, <1>3, <1>4, Together

\* All get the state.
LEMMA SrvStateAgrees ==
    ASSUME IInv, IInv', NEW c \in Clients, SrvState(c)
    PROVE  Agreement'
<1> DEFINE state == Head(toServer[c]).state
<1>1. SrvReads(c, {"LOADSTATE"}) /\ Relay(Remote(state)) /\ UNCHANGED players
  BY DEF SrvState
<1>2. /\ toServer[c] # << >> /\ toServer[c] \in Seq(ServerMessages)
      /\ Head(toServer[c]) \in ServerMessages /\ Head(toServer[c]).kind = "LOADSTATE"
      /\ toServer'[c] = Tail(toServer[c])
      /\ \A d \in Clients \ {c} : toServer'[d] = toServer[d]
      /\ UNCHANGED clientVars
  BY <1>1, Read
<1>3. state \in States
  BY <1>2, ServerMessageTypes
<1>4. Remote(state) \in ClientMessages /\ \A s : Effect(s, Remote(state)) = state
  BY <1>3, ClientMessageTypes DEF Effect, Remote
<1>5. ~Turning(toServer'[c]) => ~Turning(toServer[c])
  <2>1. ASSUME NEW i \in DOMAIN toServer[c], toServer[c][i].kind \in {"closed", "login"}
        PROVE  Turning(toServer'[c])
    <3>1. /\ DOMAIN Tail(toServer[c]) = 1 .. Len(toServer[c]) - 1
          /\ DOMAIN toServer[c] = 1 .. Len(toServer[c]) /\ Len(toServer[c]) \in Nat
          /\ \A j \in DOMAIN Tail(toServer[c]) : Tail(toServer[c])[j] = toServer[c][j + 1]
          /\ Head(toServer[c]) = toServer[c][1]
      BY <1>2, LinkRest
    <3>2. i # 1
      BY <1>2, <2>1, <3>1
    <3>3. i - 1 \in DOMAIN Tail(toServer[c]) /\ (i - 1) + 1 = i
      BY <3>1, <3>2
    <3>4. Tail(toServer[c])[i - 1] = toServer[c][i]
      BY <3>1, <3>3
    <3> QED  BY <1>2, <2>1, <3>3, <3>4 DEF Turning
  <2> QED  BY <2>1 DEF Turning
<1> HIDE DEF state
<1>6. ASSUME NEW d \in Clients, d \in Settling'
      PROVE  Settled(d)' = state
  <2>1. Reaches(d)
    <3>1. d \in players /\ ~Turning(toServer'[d])
      BY <1>1, <1>6, SettlingMeans DEF Settles
    <3> QED  BY <1>2, <1>5, <3>1 DEF Reaches
  <2>2. toClient'[d] = Append(toClient[d], Remote(state))
    BY <1>1, <2>1 DEF Relay, IInv, TypeOK
  <2>3. game' = game /\ game[d] \in States /\ toClient[d] \in Seq(ClientMessages)
    BY <1>2, SettledTyped DEF clientVars
  <2> QED  BY <1>4, <2>2, <2>3, ExecutedMore DEF Settled
<1>7. Settling' \subseteq Clients
  BY DEF IInv, TypeOK, Settling
<1> QED  BY <1>6, <1>7 DEF Agreement

-----------------------------------------------------------------------------
\* Who logs in is not a player: a connection starts only where none was, or
\* where the one before has ended.

Opened(up, player) ==
    /\ up # << >> /\ up[1].kind = "login" => ~player
    /\ \A i \in DOMAIN up : i > 1 /\ up[i].kind = "login" => up[i - 1].kind = "closed"

AllOpened == \A c \in Clients : Opened(toServer[c], c \in players)

LEMMA OpenedSend ==
    ASSUME NEW up \in Seq(ServerMessages), NEW player, Opened(up, player),
           NEW m \in ServerMessages,
           m.kind = "login" => IF up = << >> THEN ~player ELSE up[Len(up)].kind = "closed"
    PROVE  Opened(Append(up, m), player)
<1> DEFINE up2 == Append(up, m)
<1>1. /\ up2 \in Seq(ServerMessages) /\ Len(up) \in Nat
      /\ DOMAIN up = 1 .. Len(up) /\ DOMAIN up2 = 1 .. Len(up) + 1
      /\ \A i \in DOMAIN up : up2[i] = up[i]
      /\ up2[Len(up) + 1] = m
      /\ up = << >> <=> Len(up) = 0
  OBVIOUS
<1> HIDE DEF up2
<1>2. up2[1].kind = "login" => ~player
  <2>1. CASE up = << >>
    <3>1. up2[1] = m
      BY <1>1, <2>1
    <3> QED  BY <2>1, <3>1
  <2>2. CASE up # << >>
    <3>1. up2[1] = up[1]
      BY <1>1, <2>2
    <3> QED  BY <2>2, <3>1 DEF Opened
  <2> QED  BY <2>1, <2>2
<1>3. ASSUME NEW i \in DOMAIN up2, i > 1, up2[i].kind = "login"
      PROVE  up2[i - 1].kind = "closed"
  <2>1. i \in Nat /\ i - 1 \in DOMAIN up
    BY <1>1, <1>3
  <2>2. up2[i - 1] = up[i - 1]
    BY <1>1, <2>1
  <2>3. CASE i \in DOMAIN up
    BY <1>1, <1>3, <2>2, <2>3 DEF Opened
  <2>4. CASE i = Len(up) + 1
    <3>1. up2[i] = m /\ up # << >> /\ i - 1 = Len(up)
      BY <1>1, <1>3, <2>4
    <3> QED  BY <1>3, <2>2, <3>1
  <2> QED  BY <1>1, <2>3, <2>4
<1> QED  BY <1>2, <1>3 DEF Opened, up2

LEMMA OpenedTail ==
    ASSUME NEW up \in Seq(ServerMessages), NEW player, Opened(up, player), up # << >>, NEW then,
           IF Head(up).kind = "closed" THEN ~then ELSE Head(up).kind = "login" \/ then = player
    PROVE  Opened(Tail(up), then)
<1> DEFINE up2 == Tail(up)
<1>1. /\ up2 \in Seq(ServerMessages) /\ DOMAIN up = 1 .. Len(up) /\ Len(up) \in Nat
      /\ DOMAIN up2 = 1 .. Len(up) - 1
      /\ Head(up) = up[1]
      /\ \A i \in DOMAIN up2 : up2[i] = up[i + 1] /\ i + 1 \in DOMAIN up
      /\ up2 # << >> => 1 \in DOMAIN up2
  BY LinkRest
<1> HIDE DEF up2
<1>2. up2 # << >> /\ up2[1].kind = "login" => ~then
  <2> SUFFICES ASSUME up2 # << >>, up2[1].kind = "login"  PROVE ~then
    OBVIOUS
  <2>1. 2 \in DOMAIN up /\ up2[1] = up[2] /\ 2 > 1 /\ 2 - 1 = 1
    BY <1>1
  <2>2. up[1].kind = "closed"
    BY <2>1 DEF Opened
  <2> QED  BY <1>1, <2>2
<1>3. ASSUME NEW i \in DOMAIN up2, i > 1, up2[i].kind = "login"
      PROVE  up2[i - 1].kind = "closed"
  <2>1. /\ i + 1 \in DOMAIN up /\ i + 1 > 1 /\ (i + 1) - 1 = i /\ up2[i] = up[i + 1]
        /\ i - 1 \in DOMAIN up2 /\ (i - 1) + 1 = i
    BY <1>1, <1>3
  <2>2. up[i].kind = "closed"
    BY <1>3, <2>1 DEF Opened
  <2> QED  BY <1>1, <2>1, <2>2
<1> QED  BY <1>2, <1>3 DEF Opened, up2

\* A client out of netplay has no connection that has not ended.
LEMMA Ended ==
    ASSUME IInv, NEW c \in Clients, phase[c] \notin InNetplay
    PROVE  IF toServer[c] = << >> THEN c \notin players
           ELSE toServer[c][Len(toServer[c])].kind = "closed"
<1> DEFINE up == toServer[c]
<1>1. up \in Seq(ServerMessages) /\ DOMAIN up = 1 .. Len(up) /\ Len(up) \in Nat
      /\ (up # << >> => Len(up) \in DOMAIN up)
  BY DEF IInv, TypeOK
<1>2. /\ \A i, j \in DOMAIN up : i < j /\ ~Data(up[i]) => ~Data(up[j])
      /\ \A i \in DOMAIN up : Data(up[i]) => c \in players
      /\ up # << >> /\ up[Len(up)].kind = "login" => phase[c] \in InNetplay
      /\ c \in players => Turning(up)
  BY LinkOf DEF Link0, Link
<1> HIDE DEF up
<1>3. CASE up = << >>
  <2>1. DOMAIN up = {}
    BY <1>3
  <2> QED  BY <1>2, <1>3, <2>1 DEF Turning, up
<1>4. CASE up # << >>
  <2>1. ~Data(up[Len(up)])
    <3> SUFFICES ASSUME Data(up[Len(up)])  PROVE FALSE
      OBVIOUS
    <3>1. c \in players
      BY <1>1, <1>2, <1>4
    <3>2. PICK i \in DOMAIN up : ~Data(up[i])
      BY <1>2, <3>1 DEF Turning, Data
    <3>3. i # Len(up) /\ i < Len(up)
      BY <1>1, <3>2
    <3> QED  BY <1>1, <1>2, <1>4, <3>2, <3>3
  <2> QED  BY <1>2, <1>4, <2>1 DEF Data, up
<1> QED  BY <1>3, <1>4

\* A client sends something other than the start of a connection.
LEMMA SendOpened ==
    ASSUME IInv, AllOpened, NEW c \in Clients, NEW m \in ServerMessages, m.kind # "login",
           toServer' = [toServer EXCEPT ![c] = Append(@, m)], UNCHANGED players
    PROVE  AllOpened'
<1>1. /\ toServer'[c] = Append(toServer[c], m) /\ toServer[c] \in Seq(ServerMessages)
      /\ \A d \in Clients \ {c} : toServer'[d] = toServer[d]
  BY DEF IInv, TypeOK
<1>2. Opened(toServer'[c], c \in players)
  BY <1>1, OpenedSend DEF AllOpened
<1> QED  BY <1>1, <1>2 DEF AllOpened

\* The server reads something.
LEMMA ReadOpened ==
    ASSUME IInv, AllOpened, NEW c \in Clients, NEW kinds, SrvReads(c, kinds),
           \A d \in Clients \ {c} : (d \in players') = (d \in players),
           IF Head(toServer[c]).kind = "closed" THEN c \notin players'
           ELSE Head(toServer[c]).kind = "login" \/ (c \in players') = (c \in players)
    PROVE  AllOpened'
<1>1. /\ toServer[c] # << >> /\ toServer[c] \in Seq(ServerMessages)
      /\ toServer'[c] = Tail(toServer[c])
      /\ \A d \in Clients \ {c} : toServer'[d] = toServer[d]
  BY Read
<1>2. Opened(toServer'[c], c \in players')
  BY <1>1, OpenedTail DEF AllOpened
<1>3. \A d \in Clients \ {c} : Opened(toServer'[d], d \in players')
  BY <1>1 DEF AllOpened
<1> QED  BY <1>2, <1>3 DEF AllOpened

LEMMA OpenedKept ==
    ASSUME IInv, AllOpened, [Next]_vars
    PROVE  AllOpened'
<1>0. UNCHANGED <<toServer, players>> => AllOpened'
  BY DEF AllOpened
<1>1. ASSUME NEW c \in Clients, NetStart(c)  PROVE AllOpened'
  <2>1. toServer' = [toServer EXCEPT ![c] = Append(Closing(c), Login)] /\ UNCHANGED players
        /\ Closing(c) = IF phase[c] = "between" THEN Append(toServer[c], Closed) ELSE toServer[c]
    BY <1>1 DEF NetStart, serverVars, Closing
  <2>2. toServer[c] \in Seq(ServerMessages) /\ Closed \in ServerMessages /\ Login \in ServerMessages
        /\ Closed.kind = "closed"
    BY ServerMessageTypes DEF IInv, TypeOK, Closed
  <2>3. Opened(Append(Closing(c), Login), c \in players)
    <3>1. CASE phase[c] = "between"
      <4> DEFINE up == Append(toServer[c], Closed)
      <4>1. Opened(up, c \in players)
        BY <2>2, OpenedSend DEF AllOpened
      <4>2. up \in Seq(ServerMessages) /\ up # << >> /\ up[Len(up)] = Closed
        BY <2>2
      <4> HIDE DEF up
      <4>3. Opened(Append(up, Login), c \in players)
        BY <2>2, <4>1, <4>2, OpenedSend
      <4> QED  BY <2>1, <3>1, <4>3 DEF up
    <3>2. CASE phase[c] # "between"
      <4>1. phase[c] \notin InNetplay
        BY <1>1, <3>2 DEF NetStart, InNetplay
      <4>2. IF toServer[c] = << >> THEN c \notin players
            ELSE toServer[c][Len(toServer[c])].kind = "closed"
        BY <4>1, Ended
      <4>3. Opened(Append(toServer[c], Login), c \in players)
        BY <2>2, <4>2, OpenedSend DEF AllOpened
      <4> QED  BY <2>1, <3>2, <4>3
    <3> QED  BY <3>1, <3>2
  <2>4. /\ toServer'[c] = Append(Closing(c), Login)
        /\ \A d \in Clients \ {c} : toServer'[d] = toServer[d]
    BY <2>1 DEF IInv, TypeOK
  <2> QED  BY <2>1, <2>3, <2>4 DEF AllOpened
<1>2. ASSUME NEW c \in Clients, NetworkClose(c)  PROVE AllOpened'
  <2>1. toServer' = [toServer EXCEPT ![c] = Closing(c)] /\ UNCHANGED players
    BY <1>2 DEF NetworkClose, serverVars
  <2>2. CASE phase[c] = "lost"
    <3>1. toServer' = toServer
      BY <2>1, <2>2 DEF Closing, IInv, TypeOK
    <3> QED  BY <1>0, <2>1, <3>1
  <2>3. CASE phase[c] = "between"
    <3>1. toServer' = [toServer EXCEPT ![c] = Append(@, Closed)]
      BY <2>1, <2>3 DEF Closing
    <3>2. Closed \in ServerMessages /\ Closed.kind # "login"
      BY ServerMessageTypes DEF Closed
    <3> QED  BY <2>1, <3>1, <3>2, SendOpened
  <2> QED  BY <1>2, <2>2, <2>3 DEF NetworkClose
<1>3. ASSUME NEW c \in Clients, NEW cmd \in Commands, SimpleCommand(c, cmd)  PROVE AllOpened'
  <2>1. Send(c, Command(LocalInputStateSize[c], cmd)) /\ UNCHANGED players
    BY <1>3 DEF SimpleCommand, QSimpleCommand, serverVars
  <2>2. Command(LocalInputStateSize[c], cmd) \in ServerMessages
        /\ Command(LocalInputStateSize[c], cmd).kind # "login"
    BY ServerMessageTypes, NetplayAssumption DEF IInv, TypeOK, Command, Protocol
  <2> QED  BY <2>1, <2>2, SendOpened DEF Send
<1>4. ASSUME NEW c \in Clients, LoadState(c)  PROVE AllOpened'
  <2>1. Send(c, State(LocalInputStateSize[c], Boot(c))) /\ UNCHANGED players
    BY <1>4 DEF LoadState, SendState, serverVars
  <2>2. State(LocalInputStateSize[c], Boot(c)) \in ServerMessages
        /\ State(LocalInputStateSize[c], Boot(c)).kind # "login"
    BY ServerMessageTypes, StateTypes DEF IInv, TypeOK, State
  <2> QED  BY <2>1, <2>2, SendOpened DEF Send
<1>5. ASSUME NEW c \in Clients,
             \/ LoadStateFails(c) \/ RecvFrame(c) \/ RecvCommand(c) \/ RecvLoadState(c)
             \/ SrvAskState(c)
      PROVE  AllOpened'
  BY <1>0, <1>5 DEF LoadStateFails, RecvFrame, RecvCommand, RecvLoadState, Receives, SrvAskState,
                    serverVars
<1>6. ASSUME NEW c \in Clients, NEW joy \in Joys, BeginUpdate(c, joy)  PROVE AllOpened'
  <2> DEFINE packed == [x \in LocalPlayersMask[c] |-> Pad(joy, Source(LocalPlayersMask[c], x))]
             m == Input(LocalInputStateSize[c], packed)
  <2>1. UNCHANGED players /\ (UNCHANGED toServer \/ Send(c, m))
    BY <1>6 DEF BeginUpdate, serverVars
  <2>2. packed \in [LocalPlayersMask[c] -> Joys]
    BY NetplayAssumption DEF Pad
  <2>3. m \in ServerMessages /\ m.kind # "login"
    <3> HIDE DEF packed
    <3> QED  BY <2>2, ServerMessageTypes DEF IInv, TypeOK, Input
  <2> HIDE DEF m
  <2> QED  BY <1>0, <2>1, <2>3, SendOpened DEF Send
<1>7. ASSUME NEW c \in Clients, RecvSaveState(c)  PROVE AllOpened'
  <2>1. Send(c, State(LocalInputStateSize[c], game[c])) /\ UNCHANGED players
    BY <1>7 DEF RecvSaveState, SendState, Receives, serverVars
  <2>2. State(LocalInputStateSize[c], game[c]) \in ServerMessages
        /\ State(LocalInputStateSize[c], game[c]).kind # "login"
    BY ServerMessageTypes DEF IInv, TypeOK, State
  <2> QED  BY <2>1, <2>2, SendOpened DEF Send
<1>8. ASSUME NEW c \in Clients, RecvIntegrity(c)  PROVE AllOpened'
  <2>1. Send(c, Command(LocalInputStateSize[c], "INTEGRITY_RES")) /\ UNCHANGED players
    BY <1>8 DEF RecvIntegrity, Receives, serverVars
  <2>2. Command(LocalInputStateSize[c], "INTEGRITY_RES") \in ServerMessages
        /\ Command(LocalInputStateSize[c], "INTEGRITY_RES").kind # "login"
    BY ServerMessageTypes DEF IInv, TypeOK, Command
  <2> QED  BY <2>1, <2>2, SendOpened DEF Send
<1>9. ASSUME NEW c \in Clients, RecvYouJoined(c)  PROVE AllOpened'
  <2> DEFINE packet == Head(toClient[c])
  <2>1. /\ Send(c, Command(SetSize(packet.mask), "SETFPS")) /\ UNCHANGED players
        /\ toClient[c] # << >> /\ packet.kind = "YOUJOINED"
    BY <1>9 DEF RecvYouJoined, SetFps, Receives, serverVars
  <2>2. packet \in ClientMessages
    BY <2>1, SettledTyped
  <2>3. SetSize(packet.mask) \in Sizes
    BY <2>1, <2>2, ClientMessageTypes DEF Sizes
  <2>4. Command(SetSize(packet.mask), "SETFPS") \in ServerMessages
        /\ Command(SetSize(packet.mask), "SETFPS").kind # "login"
    BY <2>3, ServerMessageTypes DEF Command
  <2> QED  BY <2>1, <2>4, SendOpened DEF Send
<1>10. ASSUME NEW c \in Clients, RecvStateFails(c) \/ RecvPart(c)  PROVE AllOpened'
  <2>1. Send(c, Closed) /\ UNCHANGED players
    BY <1>10 DEF RecvStateFails, RecvPart, serverVars
  <2>2. Closed \in ServerMessages /\ Closed.kind # "login"
    BY ServerMessageTypes DEF Closed
  <2> QED  BY <2>1, <2>2, SendOpened DEF Send
<1>11. ASSUME NEW c \in Clients, SrvLogin(c)  PROVE AllOpened'
  <2>1. SrvReads(c, {"login"}) /\ players' = players \cup {c}
    BY <1>11 DEF SrvLogin
  <2>2. Head(toServer[c]).kind = "login"
    BY <2>1, Read
  <2> QED  BY <2>1, <2>2, ReadOpened
<1>12. ASSUME NEW c \in Clients, SrvClosed(c)  PROVE AllOpened'
  <2>1. SrvReads(c, {"closed"}) /\ players' = players \ {c}
    BY <1>12 DEF SrvClosed
  <2>2. Head(toServer[c]).kind = "closed"
    BY <2>1, Read
  <2> QED  BY <2>1, <2>2, ReadOpened
<1>13. ASSUME NEW c \in Clients, SrvInput(c) \/ SrvCommand(c) \/ SrvState(c) \/ SrvAnswer(c)
       PROVE  AllOpened'
  <2>1. /\ UNCHANGED players
        /\ \E kinds : SrvReads(c, kinds) /\ "closed" \notin kinds
    BY <1>13, NetplayAssumption DEF SrvInput, SrvCommand, SrvState, SrvAnswer, serverVars, Protocol
  <2>2. PICK kinds : SrvReads(c, kinds) /\ "closed" \notin kinds
    BY <2>1
  <2>3. Head(toServer[c]).kind # "closed"
    BY <2>2, Read
  <2> QED  BY <2>1, <2>2, <2>3, ReadOpened
<1>14. CASE SrvAskIntegrity \/ SrvTick
  BY <1>0, <1>14 DEF SrvAskIntegrity, SrvTick, serverVars
<1>15. CASE UNCHANGED vars
  BY <1>0, <1>15 DEF vars, serverVars
<1>16. ASSUME NEW c \in Clients, User(c)  PROVE AllOpened'
  BY <1>1, <1>2, <1>3, <1>4, <1>5, <1>16 DEF User
<1>17. ASSUME NEW c \in Clients, Receive(c)  PROVE AllOpened'
  BY <1>5, <1>7, <1>8, <1>9, <1>10, <1>17 DEF Receive
<1>18. ASSUME NEW c \in Clients, SrvReceive(c)  PROVE AllOpened'
  BY <1>11, <1>12, <1>13, <1>18 DEF SrvReceive
<1> QED  BY <1>5, <1>6, <1>10, <1>14, <1>15, <1>16, <1>17, <1>18 DEF Next

\* The first to log in has the game; another has it only once it gets its
\* state.
LEMMA SrvLoginAgrees ==
    ASSUME IInv, AllOpened, Agreement, IInv', NEW c \in Clients, SrvLogin(c)
    PROVE  Agreement'
<1>1. /\ SrvReads(c, {"login"}) /\ players' = players \cup {c}
      /\ synced' = IF players = {} THEN {c} ELSE synced
      /\ \A d \in Clients \ {c} : toClient'[d] = toClient[d]
  BY DEF SrvLogin, IInv, TypeOK
<1>2. /\ Head(toServer[c]).kind = "login" /\ toServer[c] # << >>
      /\ toServer[c] \in Seq(ServerMessages) /\ UNCHANGED clientVars
      /\ \A d \in Clients \ {c} : toServer'[d] = toServer[d]
  BY <1>1, Read
<1>3. c \notin players
  <2>1. Head(toServer[c]) = toServer[c][1]
    BY <1>2, LinkRest
  <2> QED  BY <1>2, <2>1 DEF AllOpened, Opened
<1>4. Settling' \subseteq Clients
  BY DEF IInv, TypeOK, Settling
<1>5. CASE players = {}
  <2>1. \A d \in Settling' : d = c
    BY <1>1, <1>5, SettlingMeans
  <2> QED  BY <2>1 DEF Agreement
<1>6. CASE players # {}
  <2> DEFINE packet == Packet("INTEGRITY")
  <2>1. packet.kind # "LOADSTATE" /\ \A state : Effect(state, packet) = state
    BY Nothing DEF Packet
  <2> HIDE DEF packet
  <2>2. ASSUME NEW d \in Clients, d \in Settling'
        PROVE  d \in Settling /\ Settled(d)' = Effect(Settled(d), packet)
    <3>1. d \in synced /\ d \in players /\ Settles(toServer'[d])
      BY <1>1, <1>6, <2>2, SettlingMeans DEF IInv, TypeOK
    <3>2. d # c
      BY <1>3, <3>1
    <3>3. toServer'[d] = toServer[d] /\ toClient'[d] = toClient[d] /\ game' = game
      BY <1>1, <1>2, <3>2 DEF clientVars
    <3>4. Settled(d)' = Settled(d)
      BY <3>3 DEF Settled
    <3> QED  BY <2>1, <3>1, <3>3, <3>4, SettlingMeans
  <2> QED  BY <1>4, <2>1, <2>2, Together
<1> QED  BY <1>5, <1>6

\* Everybody plays the same game: whatever one does to it is done by all at
\* the same place of what the server sends, whoever joins, leaves or loads a
\* state, and a newcomer gets the game as all have it.
THEOREM GamesAgree == Spec => []Agreement
<1> DEFINE All == IInv /\ AllOpened /\ Agreement
<1>1. Init => All
  <2> SUFFICES ASSUME Init PROVE All
    OBVIOUS
  <2>1. IInv
    BY Initially
  <2>2. AllOpened
    <3>1. DOMAIN << >> = {}
      OBVIOUS
    <3> QED  BY <3>1 DEF Init, AllOpened, Opened
  <2>3. Agreement
    BY DEF Init, Agreement, Settling
  <2> QED  BY <2>1, <2>2, <2>3
<1>2. All /\ [Next]_vars => All'
  <2> SUFFICES ASSUME IInv, AllOpened, Agreement, [Next]_vars
               PROVE  IInv' /\ AllOpened' /\ Agreement'
    OBVIOUS
  <2>1. IInv' /\ AllOpened'
    BY Inductive, OpenedKept
  <2>2. ASSUME NEW c \in Clients, User(c)  PROVE Agreement'
    BY <2>1, <2>2, NetStartAgrees, NetworkCloseAgrees, SimpleCommandAgrees, LoadStateAgrees,
       LoadStateFailsAgrees DEF User
  <2>3. ASSUME NEW c \in Clients, Receive(c)  PROVE Agreement'
    BY <2>1, <2>3, ReceiveAgrees, LeaveAgrees DEF Receive
  <2>4. ASSUME NEW c \in Clients, SrvReceive(c)  PROVE Agreement'
    BY <2>1, <2>4, SrvLoginAgrees, SrvReadAgrees, SrvRelayAgrees, SrvStateAgrees DEF SrvReceive
  <2>5. ASSUME UNCHANGED vars  PROVE Agreement'
    <3>1. UNCHANGED <<game, toServer, toClient, players, synced>>
      BY <2>5 DEF vars, clientVars, serverVars
    <3>2. Settling' = Settling /\ \A c : Settled(c)' = Settled(c)
      BY <3>1 DEF Settling, Reaches, Settled
    <3> QED  BY <3>2 DEF Agreement
  <2>6. Agreement'
    BY <2>1, <2>2, <2>3, <2>4, <2>5, LeaveAgrees, BeginUpdateAgrees, SrvAskStateAgrees,
       SrvRelayAgrees DEF Next
  <2> QED  BY <2>1, <2>6
<1>3. All => Agreement
  OBVIOUS
<1> HIDE DEF All
<1> QED  BY <1>1, <1>2, <1>3, PTL DEF Spec

-----------------------------------------------------------------------------
\* The inputs in the past of a game.

Happenings == Clients \cup Commands \cup {Torn} \cup [Ports -> Joys]

\* What one more event adds to the inputs.
Noted(inputs, event) == IF event \in Commands THEN inputs ELSE Append(inputs, event)

InputsPath(state, f) ==
    /\ DOMAIN f = 0 .. Len(state)
    /\ f[0] = << >>
    /\ \A i \in 1 .. Len(state) : f[i] = Noted(f[i - 1], state[i])

LEMMA InputsNoted ==
    ASSUME NEW state \in Seq(Happenings)
    PROVE  \E f : InputsPath(state, f) /\ Inputs(state) = f[Len(state)]
<1> DEFINE n == Len(state)
           S == Seq(Happenings)
           R == [i \in 1 .. n |-> [s \in S |-> Noted(s, state[i])]]
           Step(g) == [i \in 0 .. n |-> IF i = 0 THEN << >> ELSE Noted(g[i - 1], state[i])]
           f == CHOOSE g : g = Step(g)
<1>1. n \in Nat /\ \A i \in 1 .. n : state[i] \in Happenings
  OBVIOUS
<1>2. R \in [1 .. n -> [S -> S]] /\ << >> \in S
  <2>1. \A i \in 1 .. n, s \in S : Noted(s, state[i]) \in S
    BY <1>1 DEF Noted
  <2> QED  BY <2>1
<1>3. PICK h : Iterates(n, S, << >>, R, h)
  <2> HIDE DEF R, n, S
  <2> QED  BY <1>1, <1>2, Iteration
<1>4. h \in [0 .. n -> S] /\ h[0] = << >> /\ \A i \in 1 .. n : h[i] = R[i][h[i - 1]]
  <2> HIDE DEF R, n, S
  <2> QED  BY <1>3 DEF Iterates
<1>5. \A i \in 1 .. n : h[i] = Noted(h[i - 1], state[i])
  <2> SUFFICES ASSUME NEW i \in 1 .. n  PROVE h[i] = Noted(h[i - 1], state[i])
    OBVIOUS
  <2>1. h[i - 1] \in S
    <3> HIDE DEF R, S
    <3> QED  BY <1>1, <1>4
  <2>2. R[i][h[i - 1]] = Noted(h[i - 1], state[i])
    <3> HIDE DEF n, S
    <3> QED  BY <2>1
  <2> QED  BY <1>4, <2>2
<1>6. h = Step(h)
  BY <1>4, <1>5
<1> HIDE DEF Step
<1>7. f = Step(f)
  BY <1>6
<1>8. Inputs(state) = f[n]
  BY DEF Inputs, Step, Noted
<1> HIDE DEF f
<1>9. InputsPath(state, f)
  BY <1>1, <1>7 DEF Step, InputsPath
<1> QED  BY <1>8, <1>9

LEMMA InputsMore ==
    ASSUME NEW state \in Seq(Happenings), NEW event \in Happenings
    PROVE  Inputs(Append(state, event)) = Noted(Inputs(state), event)
<1> DEFINE n == Len(state)
           longer == Append(state, event)
<1>1. /\ n \in Nat /\ longer \in Seq(Happenings) /\ Len(longer) = n + 1
      /\ \A i \in 1 .. n : longer[i] = state[i]
      /\ longer[n + 1] = event
  OBVIOUS
<1>2. PICK f : InputsPath(state, f) /\ Inputs(state) = f[n]
  BY InputsNoted
<1> HIDE DEF longer
<1>3. PICK g : InputsPath(longer, g) /\ Inputs(longer) = g[n + 1]
  BY <1>1, InputsNoted
<1>4. /\ f[0] = << >> /\ g[0] = << >>
      /\ \A i \in 1 .. n : f[i] = Noted(f[i - 1], state[i])
      /\ \A i \in 1 .. n + 1 : g[i] = Noted(g[i - 1], longer[i])
  BY <1>1, <1>2, <1>3 DEF InputsPath
<1> HIDE DEF n
<1> DEFINE T == {i \in 0 .. n : f[i] = g[i]}
<1>5. 0 .. n \subseteq T
  <2>1. 0 \in T
    BY <1>1, <1>4
  <2>2. ASSUME NEW i \in 1 .. n, i - 1 \in T  PROVE i \in T
    <3>1. f[i - 1] = g[i - 1] /\ i \in 1 .. n + 1
      BY <1>1, <2>2
    <3> QED  BY <1>1, <1>4, <3>1
  <2> HIDE DEF T
  <2> QED  BY <1>1, <2>1, <2>2, Induction
<1>6. f[n] = g[n]
  BY <1>1, <1>5
<1>7. g[n + 1] = Noted(g[n], event)
  BY <1>1, <1>4
<1> QED  BY <1>2, <1>3, <1>6, <1>7 DEF longer

\* A movie keeps the inputs of a game.
Keeps(movie, state) == movie = NoState \/ Astray(state) \/ Inputs(movie) = Inputs(state)

LEMMA FrameKeeps ==
    ASSUME NEW movie \in States, NEW state \in States, NEW pads \in [Ports -> Joys],
           Astray(state) \/ Inputs(movie) = Inputs(state)
    PROVE  Astray(Emulated(state, pads)) \/ Inputs(Emulated(movie, pads)) = Inputs(Emulated(state, pads))
<1>1. movie \in Seq(Happenings) /\ state \in Seq(Happenings) /\ pads \in Happenings
      /\ state # << >>
  BY DEF States, Happenings
<1>2. Inputs(Did(movie, pads)) = Noted(Inputs(movie), pads)
      /\ Inputs(Did(state, pads)) = Noted(Inputs(state), pads)
  BY <1>1, InputsMore DEF Did
<1>3. Astray(state) => Astray(Did(state, pads))
  BY <1>1 DEF Astray, Did
<1> QED  BY <1>2, <1>3 DEF Emulated

LEMMA CommandKeeps ==
    ASSUME NEW movie, NEW state \in States, NEW cmd \in Commands, Keeps(movie, state)
    PROVE  Keeps(movie, Did(state, cmd))
<1>1. state \in Seq(Happenings) /\ cmd \in Happenings /\ state # << >>
  BY DEF States, Happenings
<1>2. Inputs(Did(state, cmd)) = Inputs(state)
  BY <1>1, InputsMore DEF Did, Noted
<1>3. Astray(state) => Astray(Did(state, cmd))
  BY <1>1 DEF Astray, Did
<1> QED  BY <1>2, <1>3 DEF Keeps

\* Only the game and the movie of one client change.
LEMMA OneKeeps ==
    ASSUME IInv, MovieKeepsInputs, NEW c \in Clients, NEW movie, NEW state,
           game' = [game EXCEPT ![c] = state], replay' = [replay EXCEPT ![c] = movie],
           Keeps(movie, state)
    PROVE  MovieKeepsInputs'
<1>1. /\ game'[c] = state /\ replay'[c] = movie
      /\ \A d \in Clients \ {c} : game'[d] = game[d] /\ replay'[d] = replay[d]
  BY DEF IInv, TypeOK
<1> QED  BY <1>1 DEF MovieKeepsInputs, Keeps

\* A movie recorded during netplay has all that was played, and the states
\* received, at their places: the simple commands apart, which
\* MDFN_DoSimpleCommand does not tell it.
THEOREM MoviesKeepInputs == Spec => []MovieKeepsInputs
<1>1. Init => MovieKeepsInputs
  BY DEF Init, MovieKeepsInputs
<1>2. ASSUME IInv, MovieKeepsInputs, [Next]_vars  PROVE MovieKeepsInputs'
  <2>0. /\ game \in [Clients -> States] /\ replay \in [Clients -> States \cup {NoState}]
        /\ \A c \in Clients : Keeps(replay[c], game[c])
    BY <1>2 DEF IInv, TypeOK, MovieKeepsInputs, Keeps
  <2>1. UNCHANGED <<game, replay>> => MovieKeepsInputs'
    BY <1>2 DEF MovieKeepsInputs
  <2>2. ASSUME NEW c \in Clients, LoadState(c) \/ RecvLoadState(c)  PROVE MovieKeepsInputs'
    <3>1. PICK state : /\ game' = [game EXCEPT ![c] = state]
                       /\ replay' = [replay EXCEPT ![c] = IF @ = NoState THEN @ ELSE state]
      BY <2>2 DEF LoadState, RecvLoadState, RecvState, Becomes, Recorded
    <3>2. replay' = [replay EXCEPT ![c] = IF replay[c] = NoState THEN replay[c] ELSE state]
      BY <3>1
    <3>3. Keeps(IF replay[c] = NoState THEN replay[c] ELSE state, state)
      BY DEF Keeps
    <3> QED  BY <1>2, <3>1, <3>2, <3>3, OneKeeps
  <2>3. ASSUME NEW c \in Clients, LoadStateFails(c) \/ RecvStateFails(c) \/ RecvPart(c)
        PROVE  MovieKeepsInputs'
    <3>1. PICK state \in {game[c], HalfLoaded} :
            game' = [game EXCEPT ![c] = state] /\ UNCHANGED replay
      BY <2>3 DEF LoadStateFails, RecvStateFails, RecvPart, Becomes
    <3>2. replay' = [replay EXCEPT ![c] = replay[c]]
      BY <2>0, <3>1
    <3>3. Keeps(replay[c], state)
      BY <2>0, <3>1 DEF Keeps, Astray, HalfLoaded
    <3> QED  BY <1>2, <3>1, <3>2, <3>3, OneKeeps
  <2>4. ASSUME NEW c \in Clients, RecvFrame(c)  PROVE MovieKeepsInputs'
    <3> DEFINE pads == Head(toClient[c]).pads
               movie == IF replay[c] = NoState THEN NoState ELSE Emulated(replay[c], pads)
    <3>1. Receives(c, {"frame"}) /\ "YOUJOINED" \notin {"frame"}
      BY <2>4 DEF RecvFrame
    <3>2. pads \in [Ports -> Joys]
      BY <1>2, <3>1, Taken, ClientMessageTypes
    <3>3. game' = [game EXCEPT ![c] = Emulated(game[c], pads)]
          /\ replay' = [replay EXCEPT ![c] = movie]
      BY <2>0, <2>4 DEF RecvFrame, Becomes, Recorded
    <3> HIDE DEF pads
    <3>4. Keeps(movie, Emulated(game[c], pads))
      <4>1. CASE replay[c] = NoState
        BY <4>1 DEF Keeps
      <4>2. CASE replay[c] # NoState
        <5>1. replay[c] \in States /\ game[c] \in States
              /\ (Astray(game[c]) \/ Inputs(replay[c]) = Inputs(game[c]))
          BY <2>0, <4>2 DEF Keeps
        <5> QED  BY <3>2, <4>2, <5>1, FrameKeeps DEF Keeps
      <4> QED  BY <4>1, <4>2
    <3> HIDE DEF movie
    <3> QED  BY <1>2, <3>3, <3>4, OneKeeps
  <2>5. ASSUME NEW c \in Clients, RecvCommand(c)  PROVE MovieKeepsInputs'
    <3> DEFINE cmd == Head(toClient[c]).kind
    <3>1. Receives(c, Commands) /\ game' = [game EXCEPT ![c] = Did(game[c], cmd)] /\ UNCHANGED replay
      BY <2>5 DEF RecvCommand, Becomes
    <3>2. cmd \in Commands
      BY <3>1 DEF Receives
    <3>3. replay' = [replay EXCEPT ![c] = replay[c]]
      BY <2>0, <3>1
    <3>4. Keeps(replay[c], Did(game[c], cmd))
      BY <2>0, <3>2, CommandKeeps
    <3> QED  BY <1>2, <3>1, <3>3, <3>4, OneKeeps
  <2>6. ASSUME NEW c \in Clients,
               \/ NetStart(c) \/ NetworkClose(c) \/ (\E cmd \in Commands : SimpleCommand(c, cmd))
               \/ (\E joy \in Joys : BeginUpdate(c, joy))
               \/ RecvSaveState(c) \/ RecvIntegrity(c) \/ RecvYouJoined(c)
        PROVE  MovieKeepsInputs'
    BY <2>1, <2>6 DEF NetStart, NetworkClose, SimpleCommand, QSimpleCommand, BeginUpdate,
                      RecvSaveState, RecvIntegrity, RecvYouJoined, clientVars
  <2>7. ASSUME NEW c \in Clients, SrvReceive(c) \/ SrvAskState(c)  PROVE MovieKeepsInputs'
    BY <2>1, <2>7 DEF SrvReceive, SrvLogin, SrvClosed, SrvInput, SrvCommand, SrvState, SrvAnswer,
                      SrvAskState, SrvReads, clientVars
  <2>8. ASSUME SrvAskIntegrity \/ SrvTick \/ UNCHANGED vars  PROVE MovieKeepsInputs'
    BY <2>1, <2>8 DEF SrvAskIntegrity, SrvTick, vars, clientVars
  <2>9. ASSUME NEW c \in Clients, User(c) \/ Receive(c)  PROVE MovieKeepsInputs'
    BY <2>2, <2>3, <2>4, <2>5, <2>6, <2>9 DEF User, Receive
  <2> QED  BY <1>2, <2>3, <2>6, <2>7, <2>8, <2>9 DEF Next
<1>3. MovieKeepsInputs /\ IInv /\ [Next]_vars => MovieKeepsInputs'
  BY <1>2
<1> QED  BY <1>1, <1>3, ConnectionsLinked, PTL DEF Spec
=============================================================================
