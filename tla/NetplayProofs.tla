--------------------------- MODULE NetplayProofs ---------------------------
(***************************************************************************)
(* Whatever the clients, the ports and the bounds, the two ends of each    *)
(* connection agree on the ports a player has, and so on the sizes of what *)
(* it sends.  The invariant is one predicate on a single connection and    *)
(* the two ends of it (Link): lemmas about Link alone say what sending,    *)
(* reading, closing and joining do to it, and each action is one or two of *)
(* them.                                                                   *)
(***************************************************************************)
EXTENDS Netplay, TLAPS

InNetplay == {"ready", "between", "updating"}

\* A message other than those that end or start a connection.
Data(message) == message.kind \notin {"closed", "login"}

\* It is built for a player of these ports.
Fits(message, ports) ==
    /\ message.size = SetSize(ports)
    /\ message.kind = "input" => DOMAIN message.pads = ports

\* The ends of a connection agree: "up" is on its way to the server, which has
\* or has not the client among its players, on the given ports; "down" to the
\* client, which is at "where" and has these local variables.
Link(where, joined, mask, size, up, down, player, ports) ==
    /\ \A i, j \in DOMAIN up : i < j /\ ~Data(up[i]) => ~Data(up[j])
    /\ \A i \in DOMAIN up : Data(up[i]) => player /\ Fits(up[i], ports)
    /\ up # << >> /\ up[Len(up)].kind = "closed" => where \notin InNetplay
    /\ up # << >> /\ up[Len(up)].kind = "login" => where \in InNetplay
    /\ Turning(up) => down = << >>
    /\ Turning(up) /\ where \in InNetplay => ~joined
    /\ where \notin InNetplay => down = << >> /\ (player => Turning(up))
    /\ where = "between" => joined
    /\ where \in InNetplay /\ ~Turning(up) =>
         /\ player
         /\ joined => mask = ports /\ size = SetSize(ports)
         /\ joined => \A i \in DOMAIN down : down[i].kind # "YOUJOINED"
         /\ ~joined => /\ up = << >>
                       /\ down # << >> /\ down[1] = YouJoined(ports)
                       /\ \A i \in DOMAIN down : i > 1 => down[i].kind # "YOUJOINED"

Linked ==
    \A c \in Clients : Link(phase[c], Joined[c], LocalPlayersMask[c], LocalInputStateSize[c],
                            toServer[c], toClient[c], c \in players, seat[c])

IInv == TypeOK /\ Linked

-----------------------------------------------------------------------------
\* What the steps do to a link, whatever the rest of the system does.

Link0(where, joined, mask, size, up, down, player, ports) ==
    /\ up \in Seq(ServerMessages)
    /\ down \in Seq(ClientMessages)
    /\ Link(where, joined, mask, size, up, down, player, ports)

LEMMA MessageKinds ==
    /\ \A m \in ServerMessages : m.kind # "YOUJOINED"
    /\ Login.kind = "login" /\ Closed.kind = "closed"
    /\ \A mask : YouJoined(mask).kind = "YOUJOINED" /\ YouJoined(mask).mask = mask
  BY NetplayAssumption DEF ServerMessages, Login, Closed, YouJoined, Protocol

\* A player sends something built for its ports.
LEMMA LinkSend ==
    ASSUME NEW where, NEW joined, NEW mask, NEW size, NEW up, NEW down, NEW player, NEW ports,
           Link0(where, joined, mask, size, up, down, player, ports),
           where \in InNetplay, joined, NEW there \in InNetplay,
           NEW m \in ServerMessages, Data(m), Fits(m, ports)
    PROVE  Link(there, joined, mask, size, Append(up, m), down, player, ports)
<1> DEFINE up2 == Append(up, m)
<1>1. /\ up \in Seq(ServerMessages) /\ Len(up2) = Len(up) + 1 /\ Len(up) \in Nat
      /\ \A i \in 1 .. Len(up) : up2[i] = up[i]
      /\ up2[Len(up) + 1] = m
      /\ DOMAIN up = 1 .. Len(up) /\ DOMAIN up2 = 1 .. Len(up) + 1
  BY DEF Link0
<1>2. ~Turning(up) /\ Link(where, joined, mask, size, up, down, player, ports)
  BY DEF Link0, Link
<1>3. \A i \in DOMAIN up : Data(up[i])
  BY <1>2 DEF Turning, Data
<1> HIDE DEF up2
<1>4. \A i \in DOMAIN up2 : Data(up2[i]) /\ Fits(up2[i], ports)
  BY <1>1, <1>2, <1>3 DEF Link
<1>5. ~Turning(up2)
  BY <1>4 DEF Turning, Data
<1>6. up2[Len(up2)].kind \notin {"closed", "login"}
  BY <1>1 DEF Data
<1>7. player /\ mask = ports /\ size = SetSize(ports)
      /\ \A i \in DOMAIN down : down[i].kind # "YOUJOINED"
  BY <1>2 DEF Link
<1> QED  BY <1>4, <1>5, <1>6, <1>7 DEF Link, up2

\* A client moves between its places in netplay.
LEMMA LinkMove ==
    ASSUME NEW where, NEW joined, NEW mask, NEW size, NEW up, NEW down, NEW player, NEW ports,
           Link(where, joined, mask, size, up, down, player, ports),
           where \in InNetplay, NEW there \in InNetplay, there = "between" => joined
    PROVE  Link(there, joined, mask, size, up, down, player, ports)
  BY DEF Link, InNetplay

\* A client closes the connection.
LEMMA LinkClose ==
    ASSUME NEW where, NEW joined, NEW mask, NEW size, NEW up, NEW down, NEW player, NEW ports,
           Link0(where, joined, mask, size, up, down, player, ports),
           NEW there \in {"out", "lost"}
    PROVE  Link(there, joined, mask, size, Append(up, Closed), << >>, player, ports)
<1> DEFINE up2 == Append(up, Closed)
<1>1. /\ up \in Seq(ServerMessages) /\ Len(up2) = Len(up) + 1 /\ Len(up) \in Nat
      /\ \A i \in 1 .. Len(up) : up2[i] = up[i]
      /\ up2[Len(up) + 1] = Closed
      /\ DOMAIN up = 1 .. Len(up) /\ DOMAIN up2 = 1 .. Len(up) + 1
  BY DEF Link0
<1>2. Link(where, joined, mask, size, up, down, player, ports)
  BY DEF Link0
<1> HIDE DEF up2
<1>3. Closed.kind = "closed" /\ ~Data(Closed) /\ there \notin InNetplay
  BY MessageKinds DEF Data, InNetplay
<1>4. Turning(up2)
  BY <1>1, <1>3 DEF Turning
<1>5. \A i, j \in DOMAIN up2 : i < j /\ ~Data(up2[i]) => ~Data(up2[j])
  BY <1>1, <1>2, <1>3 DEF Link
<1>6. \A i \in DOMAIN up2 : Data(up2[i]) => player /\ Fits(up2[i], ports)
  BY <1>1, <1>2, <1>3 DEF Link
<1>7. up2[Len(up2)].kind = "closed"
  BY <1>1, <1>3
<1>8. DOMAIN << >> = {} /\ there # "between"
  BY <1>3 DEF InNetplay
<1> QED  BY <1>3, <1>4, <1>5, <1>6, <1>7, <1>8 DEF Link, up2

\* A client that is out of netplay closes nothing.
LEMMA LinkStay ==
    ASSUME NEW where, NEW joined, NEW mask, NEW size, NEW up, NEW down, NEW player, NEW ports,
           Link(where, joined, mask, size, up, down, player, ports),
           where \notin InNetplay, NEW there \in {"out", "lost"}
    PROVE  Link(there, joined, mask, size, up, << >>, player, ports)
  BY DEF Link, InNetplay

\* A client that is out of netplay opens a connection.
LEMMA LinkStart ==
    ASSUME NEW where, NEW joined, NEW mask, NEW size, NEW up, NEW down, NEW player, NEW ports,
           Link0(where, joined, mask, size, up, down, player, ports), where \notin InNetplay
    PROVE  Link("ready", FALSE, {}, 0, Append(up, Login), << >>, player, ports)
<1> DEFINE up2 == Append(up, Login)
<1>1. /\ up \in Seq(ServerMessages) /\ Len(up2) = Len(up) + 1 /\ Len(up) \in Nat
      /\ \A i \in 1 .. Len(up) : up2[i] = up[i]
      /\ up2[Len(up) + 1] = Login
      /\ DOMAIN up = 1 .. Len(up) /\ DOMAIN up2 = 1 .. Len(up) + 1
  BY DEF Link0
<1>2. Link(where, joined, mask, size, up, down, player, ports)
  BY DEF Link0
<1> HIDE DEF up2
<1>3. Login.kind = "login" /\ ~Data(Login)
  BY MessageKinds DEF Data
<1>4. Turning(up2)
  BY <1>1, <1>3 DEF Turning
<1>5. \A i, j \in DOMAIN up2 : i < j /\ ~Data(up2[i]) => ~Data(up2[j])
  BY <1>1, <1>2, <1>3 DEF Link
<1>6. \A i \in DOMAIN up2 : Data(up2[i]) => player /\ Fits(up2[i], ports)
  BY <1>1, <1>2, <1>3 DEF Link
<1>7. up2[Len(up2)].kind = "login"
  BY <1>1, <1>3
<1> QED  BY <1>3, <1>4, <1>5, <1>6, <1>7 DEF Link, up2, InNetplay

\* A client takes a packet that is not its place in the game: it has one.
LEMMA LinkTake ==
    ASSUME NEW where, NEW joined, NEW mask, NEW size, NEW up, NEW down, NEW player, NEW ports,
           Link0(where, joined, mask, size, up, down, player, ports),
           where \in InNetplay, down # << >>, Head(down).kind # "YOUJOINED"
    PROVE  joined /\ Link(where, joined, mask, size, up, Tail(down), player, ports)
<1> DEFINE down2 == Tail(down)
<1>1. /\ DOMAIN down = 1 .. Len(down) /\ Len(down) \in Nat \ {0} /\ Head(down) = down[1]
      /\ down2 \in Seq(ClientMessages) /\ DOMAIN down2 = 1 .. Len(down) - 1
      /\ \A i \in DOMAIN down2 : down2[i] = down[i + 1] /\ i + 1 \in DOMAIN down
  BY DEF Link0
<1>2. Link(where, joined, mask, size, up, down, player, ports)
  BY DEF Link0
<1>3. YouJoined(ports).kind = "YOUJOINED"
  BY MessageKinds
<1> HIDE DEF down2
<1>4. ~Turning(up) /\ joined
  BY <1>1, <1>2, <1>3 DEF Link
<1>5. \A i \in DOMAIN down2 : down2[i].kind # "YOUJOINED"
  BY <1>1, <1>2, <1>4 DEF Link
<1>6. Link(where, joined, mask, size, up, down2, player, ports)
  BY <1>2, <1>4, <1>5 DEF Link
<1> QED  BY <1>4, <1>6 DEF down2

\* A client takes its place in the game, and answers.
LEMMA LinkJoin ==
    ASSUME NEW where, NEW joined, NEW mask, NEW size, NEW up, NEW down, NEW player, NEW ports,
           Link0(where, joined, mask, size, up, down, player, ports),
           where \in InNetplay, down # << >>, Head(down).kind = "YOUJOINED",
           NEW m \in ServerMessages, Data(m), Fits(m, ports)
    PROVE  /\ Head(down) = YouJoined(ports)
           /\ Link(where, TRUE, ports, SetSize(ports), Append(up, m), Tail(down), player, ports)
<1> DEFINE down2 == Tail(down)
<1>1. /\ DOMAIN down = 1 .. Len(down) /\ Len(down) \in Nat \ {0} /\ Head(down) = down[1]
      /\ down2 \in Seq(ClientMessages) /\ DOMAIN down2 = 1 .. Len(down) - 1
      /\ \A i \in DOMAIN down2 : down2[i] = down[i + 1] /\ i + 1 \in DOMAIN down /\ i + 1 > 1
  BY DEF Link0
<1>2. Link(where, joined, mask, size, up, down, player, ports)
  BY DEF Link0
<1> HIDE DEF down2
<1>3. ~Turning(up) /\ ~joined
  BY <1>1, <1>2 DEF Link
<1>4. up = << >> /\ down[1] = YouJoined(ports) /\ player
  BY <1>2, <1>3 DEF Link
<1>5. \A i \in DOMAIN down2 : down2[i].kind # "YOUJOINED"
  BY <1>1, <1>2, <1>3 DEF Link
<1>6. Link(where, TRUE, ports, SetSize(ports), up, down2, player, ports)
  BY <1>2, <1>3, <1>4, <1>5 DEF Link
<1>7. up \in Seq(ServerMessages)
  BY DEF Link0
<1>8. Link(where, TRUE, ports, SetSize(ports), Append(up, m), down2, player, ports)
  BY <1>1, <1>6, <1>7, LinkSend DEF Link0
<1> QED  BY <1>1, <1>4, <1>8 DEF down2

\* The server sends a packet other than the place in the game.
LEMMA LinkPush ==
    ASSUME NEW where, NEW joined, NEW mask, NEW size, NEW up, NEW down, NEW player, NEW ports,
           Link0(where, joined, mask, size, up, down, player, ports),
           player, ~Turning(up), NEW packet \in ClientMessages, packet.kind # "YOUJOINED"
    PROVE  Link(where, joined, mask, size, up, Append(down, packet), player, ports)
<1> DEFINE down2 == Append(down, packet)
<1>1. /\ DOMAIN down = 1 .. Len(down) /\ Len(down) \in Nat
      /\ DOMAIN down2 = 1 .. Len(down) + 1 /\ down2 # << >>
      /\ \A i \in DOMAIN down : down2[i] = down[i]
      /\ down2[Len(down) + 1] = packet
  BY DEF Link0
<1>6. down # << >> => 1 \in DOMAIN down
  BY DEF Link0
<1>2. Link(where, joined, mask, size, up, down, player, ports)
  BY DEF Link0
<1> HIDE DEF down2
<1>3. where \in InNetplay
  BY <1>2 DEF Link
<1>4. joined => \A i \in DOMAIN down2 : down2[i].kind # "YOUJOINED"
  BY <1>1, <1>2, <1>3 DEF Link
<1>5. ~joined => /\ down2[1] = YouJoined(ports)
                 /\ \A i \in DOMAIN down2 : i > 1 => down2[i].kind # "YOUJOINED"
  BY <1>1, <1>2, <1>3, <1>6 DEF Link
<1> QED  BY <1>1, <1>2, <1>3, <1>4, <1>5 DEF Link, down2

\* What is left on the way to the server once it has read a message.
LEMMA LinkRest ==
    ASSUME NEW up \in Seq(ServerMessages), up # << >>
    PROVE  /\ Tail(up) \in Seq(ServerMessages) /\ DOMAIN up = 1 .. Len(up) /\ Len(up) \in Nat
           /\ Head(up) = up[1] /\ 1 \in DOMAIN up
           /\ DOMAIN Tail(up) = 1 .. Len(up) - 1 /\ Len(Tail(up)) = Len(up) - 1
           /\ \A i \in DOMAIN Tail(up) : /\ Tail(up)[i] = up[i + 1]
                                         /\ i + 1 \in DOMAIN up /\ 1 < i + 1
           /\ Tail(up) # << >> => /\ Tail(up)[Len(Tail(up))] = up[Len(up)]
                                  /\ 1 \in DOMAIN Tail(up)
           /\ (Tail(up) = << >> <=> Len(up) = 1) /\ (Len(up) = 1 => up[Len(up)] = Head(up))
<1>1. /\ Tail(up) \in Seq(ServerMessages) /\ DOMAIN up = 1 .. Len(up) /\ Len(up) \in Nat \ {0}
      /\ Head(up) = up[1]
      /\ DOMAIN Tail(up) = 1 .. Len(up) - 1 /\ Len(Tail(up)) = Len(up) - 1
      /\ \A i \in 1 .. Len(up) - 1 : Tail(up)[i] = up[i + 1]
  OBVIOUS
<1>2. Tail(up) # << >> => Len(up) - 1 \in 1 .. Len(up) - 1
  BY <1>1
<1>3. Tail(up) = << >> <=> Len(up) = 1
  BY <1>1
<1> QED  BY <1>1, <1>2, <1>3

\* The server reads a message of a player.
LEMMA LinkRead ==
    ASSUME NEW where, NEW joined, NEW mask, NEW size, NEW up, NEW down, NEW player, NEW ports,
           Link0(where, joined, mask, size, up, down, player, ports),
           up # << >>, Data(Head(up))
    PROVE  /\ player /\ Fits(Head(up), ports)
           /\ Link(where, joined, mask, size, Tail(up), down, player, ports)
<1> DEFINE up2 == Tail(up)
<1>1. up \in Seq(ServerMessages) /\ Link(where, joined, mask, size, up, down, player, ports)
  BY DEF Link0
<1>2. /\ up2 \in Seq(ServerMessages) /\ DOMAIN up = 1 .. Len(up)
      /\ Head(up) = up[1] /\ 1 \in DOMAIN up
      /\ \A i \in DOMAIN up2 : up2[i] = up[i + 1] /\ i + 1 \in DOMAIN up
      /\ DOMAIN up2 = 1 .. Len(up) - 1 /\ Len(up) \in Nat
      /\ up2 # << >> => up2[Len(up2)] = up[Len(up)]
  BY <1>1, LinkRest
<1> HIDE DEF up2
<1>3. player /\ Fits(Head(up), ports)
  BY <1>1, <1>2 DEF Link
<1>4. \A i, j \in DOMAIN up2 : i < j /\ ~Data(up2[i]) => ~Data(up2[j])
  <2> TAKE i, j \in DOMAIN up2
  <2>1. i + 1 \in DOMAIN up /\ j + 1 \in DOMAIN up /\ (i < j => i + 1 < j + 1)
    BY <1>2
  <2>2. i < j /\ ~Data(up[i + 1]) => ~Data(up[j + 1])
    BY <1>1, <2>1 DEF Link
  <2> QED  BY <1>2, <2>2
<1>5. \A i \in DOMAIN up2 : Data(up2[i]) => player /\ Fits(up2[i], ports)
  BY <1>1, <1>2 DEF Link
<1>6. Turning(up2) <=> Turning(up)
  <2>1. Turning(up2) => Turning(up)
    BY <1>2 DEF Turning
  <2>2. ASSUME NEW i \in DOMAIN up, up[i].kind \in {"closed", "login"}  PROVE Turning(up2)
    <3>1. i # 1
      BY <1>2, <2>2 DEF Data
    <3>2. i - 1 \in DOMAIN up2 /\ (i - 1) + 1 = i
      BY <1>2, <3>1
    <3> QED  BY <1>2, <2>2, <3>2 DEF Turning
  <2> QED  BY <2>1, <2>2 DEF Turning
<1>7. Link(where, joined, mask, size, up2, down, player, ports)
  BY <1>1, <1>2, <1>3, <1>4, <1>5, <1>6 DEF Link
<1> QED  BY <1>3, <1>7 DEF up2

\* The server reads the start of a connection: it sends the place in the game,
\* unless the connection has ended since.
LEMMA LinkLogin ==
    ASSUME NEW where, NEW joined, NEW mask, NEW size, NEW up, NEW down, NEW player, NEW ports,
           Link0(where, joined, mask, size, up, down, player, ports),
           up # << >>, Head(up).kind = "login", NEW place
    PROVE  Link(where, joined, mask, size, Tail(up),
                IF Len(up) = 1 THEN <<YouJoined(place)>> ELSE down, TRUE, place)
<1> DEFINE up2 == Tail(up)
<1>1. up \in Seq(ServerMessages) /\ Link(where, joined, mask, size, up, down, player, ports)
  BY DEF Link0
<1>2. /\ DOMAIN up = 1 .. Len(up) /\ Len(up) \in Nat
      /\ Head(up) = up[1] /\ 1 \in DOMAIN up
      /\ DOMAIN up2 = 1 .. Len(up) - 1
      /\ \A i \in DOMAIN up2 : up2[i] = up[i + 1] /\ i + 1 \in DOMAIN up /\ 1 < i + 1
      /\ up2 # << >> => up2[Len(up2)] = up[Len(up)] /\ 1 \in DOMAIN up2
      /\ up2 = << >> <=> Len(up) = 1
  BY <1>1, LinkRest
<1> HIDE DEF up2
<1>3. Turning(up) /\ ~Data(up[1])
  BY <1>2 DEF Turning, Data
<1>4. \A i \in DOMAIN up2 : ~Data(up2[i])
  BY <1>1, <1>2, <1>3 DEF Link
<1>5. down = << >> /\ (where \in InNetplay => ~joined)
  BY <1>1, <1>3 DEF Link
<1>6. CASE Len(up) = 1
  <2>1. up2 = << >> /\ where \in InNetplay /\ ~joined
    BY <1>1, <1>2, <1>5, <1>6 DEF Link
  <2>2. DOMAIN << >> = {} /\ ~Turning(<< >>)
    BY DEF Turning
  <2> DEFINE down2 == <<YouJoined(place)>>
  <2>3. down2 # << >> /\ down2[1] = YouJoined(place) /\ \A i \in DOMAIN down2 : ~(i > 1)
    OBVIOUS
  <2> HIDE DEF down2
  <2>4. where # "between"
    BY <1>1, <2>1 DEF Link
  <2>5. Link(where, joined, mask, size, up2, down2, TRUE, place)
    BY <2>1, <2>2, <2>3, <2>4 DEF Link
  <2> QED  BY <1>6, <2>5 DEF up2, down2
<1>7. CASE Len(up) # 1
  <2>1. Turning(up2)
    BY <1>2, <1>4, <1>7 DEF Turning, Data
  <2>2. Link(where, joined, mask, size, up2, down, TRUE, place)
    BY <1>1, <1>2, <1>4, <1>5, <1>7, <2>1 DEF Link
  <2> QED  BY <1>7, <2>2 DEF up2
<1> QED  BY <1>6, <1>7

\* The server reads the end of a connection.
LEMMA LinkClosed ==
    ASSUME NEW where, NEW joined, NEW mask, NEW size, NEW up, NEW down, NEW player, NEW ports,
           Link0(where, joined, mask, size, up, down, player, ports),
           up # << >>, Head(up).kind = "closed", NEW place
    PROVE  Link(where, joined, mask, size, Tail(up), down, FALSE, place)
<1> DEFINE up2 == Tail(up)
<1>1. up \in Seq(ServerMessages) /\ Link(where, joined, mask, size, up, down, player, ports)
  BY DEF Link0
<1>2. /\ DOMAIN up = 1 .. Len(up) /\ Len(up) \in Nat
      /\ Head(up) = up[1] /\ 1 \in DOMAIN up
      /\ \A i \in DOMAIN up2 : up2[i] = up[i + 1] /\ i + 1 \in DOMAIN up /\ 1 < i + 1
      /\ up2 # << >> => up2[Len(up2)] = up[Len(up)] /\ 1 \in DOMAIN up2
      /\ up2 = << >> => up[Len(up)] = Head(up)
  BY <1>1, LinkRest
<1> HIDE DEF up2
<1>3. Turning(up) /\ ~Data(up[1])
  BY <1>2 DEF Turning, Data
<1>4. \A i \in DOMAIN up2 : ~Data(up2[i])
  BY <1>1, <1>2, <1>3 DEF Link
<1>5. down = << >> /\ (where \in InNetplay => ~joined)
  BY <1>1, <1>3 DEF Link
<1>6. up2 = << >> => where \notin InNetplay
  BY <1>1, <1>2 DEF Link
<1>7. up2 # << >> => Turning(up2)
  BY <1>2, <1>4 DEF Turning, Data
<1>8. Link(where, joined, mask, size, up2, down, FALSE, place)
  BY <1>1, <1>2, <1>4, <1>5, <1>6, <1>7 DEF Link
<1> QED  BY <1>8 DEF up2

-----------------------------------------------------------------------------
\* The types of messages and packets.

LEMMA ServerMessageTypes ==
    /\ Closed \in ServerMessages /\ Login \in ServerMessages
    /\ \A size \in Sizes, state \in States : State(size, state) \in ServerMessages
    /\ \A size \in Sizes, cmd \in Commands \cup {"SETFPS", "INTEGRITY_RES"} :
         Command(size, cmd) \in ServerMessages
    /\ \A size \in Sizes, mask \in Places :
         \A pads \in [mask -> Joys] : Input(size, pads) \in ServerMessages
    /\ \A m \in ServerMessages :
         /\ m.kind = "LOADSTATE" => m.state \in States
         /\ m.kind = "input" => \A p \in DOMAIN m.pads : m.pads[p] \in Joys
<1>1. Closed \in ServerMessages /\ Login \in ServerMessages
  BY DEF Closed, Login, ServerMessages, Sizes
<1>2. \A size \in Sizes, state \in States : State(size, state) \in ServerMessages
  BY DEF State, ServerMessages
<1>3. \A size \in Sizes, cmd \in Commands \cup {"SETFPS", "INTEGRITY_RES"} :
         Command(size, cmd) \in ServerMessages
  BY DEF Command, ServerMessages
<1>4. ASSUME NEW size \in Sizes, NEW mask \in Places, NEW pads \in [mask -> Joys]
      PROVE  Input(size, pads) \in ServerMessages
  <2>1. pads \in UNION {[place -> Joys] : place \in Places}
    OBVIOUS
  <2> QED  BY <2>1 DEF Input, ServerMessages
<1>5. ASSUME NEW m \in ServerMessages, m.kind = "LOADSTATE"  PROVE m.state \in States
  BY <1>5, NetplayAssumption DEF ServerMessages, Protocol
<1>6. ASSUME NEW m \in ServerMessages, m.kind = "input"
      PROVE  \A p \in DOMAIN m.pads : m.pads[p] \in Joys
  <2>1. m.pads \in UNION {[place -> Joys] : place \in Places}
    BY <1>6, NetplayAssumption DEF ServerMessages, Protocol
  <2> QED  BY <2>1
<1> QED  BY <1>1, <1>2, <1>3, <1>4, <1>5, <1>6

LEMMA ClientMessageTypes ==
    /\ \A pads \in [Ports -> Joys] : Frame(pads) \in ClientMessages /\ Frame(pads).kind # "YOUJOINED"
    /\ \A state \in States : Remote(state) \in ClientMessages /\ Remote(state).kind # "YOUJOINED"
    /\ \A mask \in Places : YouJoined(mask) \in ClientMessages
    /\ \A cmd \in Commands \cup {"SAVESTATE", "INTEGRITY"} :
         Packet(cmd) \in ClientMessages /\ Packet(cmd).kind # "YOUJOINED"
    /\ \A m \in ClientMessages :
         /\ m.kind = "frame" => m.pads \in [Ports -> Joys]
         /\ m.kind = "LOADSTATE" => m.state \in States
         /\ m.kind = "YOUJOINED" => m.mask \in Places
  BY NetplayAssumption DEF Frame, Remote, YouJoined, Packet, ClientMessages, Protocol

LEMMA StateTypes ==
    /\ \A c \in Clients : Boot(c) \in States
    /\ HalfLoaded \in States
    /\ \A state \in States, cmd \in Commands : Did(state, cmd) \in States
    /\ \A state \in States, pads \in [Ports -> Joys] : Emulated(state, pads) \in States
  BY DEF States, Boot, HalfLoaded, Did, Emulated

-----------------------------------------------------------------------------
\* The invariant holds at first.

LEMMA Initially == Init => IInv
<1> SUFFICES ASSUME Init PROVE IInv
  OBVIOUS
<1>1. TypeOK
  <2>1. phase \in [Clients -> Phases] /\ Joined \in [Clients -> BOOLEAN]
        /\ LocalPlayersMask \in [Clients -> Places] /\ LocalInputStateSize \in [Clients -> Sizes]
        /\ seat \in [Clients -> Places]
    BY DEF Init, Phases, Places, Sizes
  <2>2. game \in [Clients -> States] /\ replay \in [Clients -> States \cup {NoState}]
    BY StateTypes DEF Init
  <2>3. toServer \in [Clients -> Seq(ServerMessages)] /\ toClient \in [Clients -> Seq(ClientMessages)]
    BY DEF Init
  <2>4. players \subseteq Clients /\ synced \subseteq players /\ asked \in Clients \cup {NoClient}
        /\ held \in [Ports -> Joys] /\ events \in 0 .. MaxEvents
    BY NetplayAssumption DEF Init
  <2> QED  BY <2>1, <2>2, <2>3, <2>4 DEF TypeOK
<1>2. Linked
  <2> SUFFICES ASSUME NEW c \in Clients
               PROVE  Link("out", FALSE, {}, 0, << >>, << >>, c \in {}, {})
    BY DEF Init, Linked
  <2>1. DOMAIN << >> = {}
    OBVIOUS
  <2> QED  BY <2>1 DEF Link, Turning, InNetplay
<1> QED  BY <1>1, <1>2 DEF IInv

\* What the links of the others depend on stays as it is.
OthersKept(c) ==
    \A d \in Clients \ {c} :
        /\ phase'[d] = phase[d] /\ Joined'[d] = Joined[d]
        /\ LocalPlayersMask'[d] = LocalPlayersMask[d]
        /\ LocalInputStateSize'[d] = LocalInputStateSize[d]
        /\ toServer'[d] = toServer[d] /\ toClient'[d] = toClient[d]
        /\ (d \in players') = (d \in players) /\ seat'[d] = seat[d]

LEMMA LinkedByOne ==
    ASSUME Linked, NEW c \in Clients, OthersKept(c),
           Link(phase'[c], Joined'[c], LocalPlayersMask'[c], LocalInputStateSize'[c],
                toServer'[c], toClient'[c], c \in players', seat'[c])
    PROVE  Linked'
<1> SUFFICES ASSUME NEW d \in Clients
             PROVE  Link(phase'[d], Joined'[d], LocalPlayersMask'[d], LocalInputStateSize'[d],
                         toServer'[d], toClient'[d], d \in players', seat'[d])
  BY DEF Linked
<1>1. CASE d = c
  BY <1>1
<1>2. CASE d # c
  <2>1. Link(phase[d], Joined[d], LocalPlayersMask[d], LocalInputStateSize[d],
             toServer[d], toClient[d], d \in players, seat[d])
    BY DEF Linked
  <2>2. /\ phase'[d] = phase[d] /\ Joined'[d] = Joined[d]
        /\ LocalPlayersMask'[d] = LocalPlayersMask[d]
        /\ LocalInputStateSize'[d] = LocalInputStateSize[d]
        /\ toServer'[d] = toServer[d] /\ toClient'[d] = toClient[d]
        /\ (d \in players') = (d \in players) /\ seat'[d] = seat[d]
    BY <1>2 DEF OthersKept
  <2> QED  BY <2>1, <2>2
<1> QED  BY <1>1, <1>2

\* The link of a client, with the types of its connection.
LEMMA LinkOf ==
    ASSUME IInv, NEW c \in Clients
    PROVE  Link0(phase[c], Joined[c], LocalPlayersMask[c], LocalInputStateSize[c],
                 toServer[c], toClient[c], c \in players, seat[c])
  BY DEF IInv, TypeOK, Linked, Link0

-----------------------------------------------------------------------------
\* The users.

LEMMA NetStartStep ==
    ASSUME IInv, NEW c \in Clients, NetStart(c)
    PROVE  IInv'
<1> USE DEF NetStart, NetplayStart, Goes, Event
<1>1. Closing(c) \in Seq(ServerMessages) /\ toServer' = [toServer EXCEPT ![c] = Append(Closing(c), Login)]
  BY ServerMessageTypes DEF Closing, IInv, TypeOK
<1>2. TypeOK'
  <2>1. toServer' \in [Clients -> Seq(ServerMessages)]
    BY <1>1, ServerMessageTypes DEF IInv, TypeOK
  <2>2. toClient' \in [Clients -> Seq(ClientMessages)]
    BY DEF IInv, TypeOK
  <2>3. phase' \in [Clients -> Phases] /\ Joined' \in [Clients -> BOOLEAN]
        /\ LocalPlayersMask' \in [Clients -> Places] /\ LocalInputStateSize' \in [Clients -> Sizes]
    BY DEF IInv, TypeOK, Phases, Places, Sizes
  <2>4. events' \in 0 .. MaxEvents
    BY NetplayAssumption DEF IInv, TypeOK
  <2> QED  BY <2>1, <2>2, <2>3, <2>4 DEF IInv, TypeOK, serverVars
<1>3. \E where : /\ where \notin InNetplay
                 /\ Link0(where, Joined[c], LocalPlayersMask[c], LocalInputStateSize[c],
                          Closing(c), << >>, c \in players, seat[c])
  <2>0. << >> \in Seq(ClientMessages)
    OBVIOUS
  <2>1. CASE phase[c] \in {"out", "lost"}
    <3>1. toClient[c] = << >> /\ phase[c] \notin InNetplay
      BY <2>1, LinkOf DEF Link0, Link, InNetplay
    <3> QED  BY <2>1, <3>1, LinkOf DEF Closing
  <2>2. CASE phase[c] \notin {"out", "lost"}
    <3>1. Link("out", Joined[c], LocalPlayersMask[c], LocalInputStateSize[c],
               Append(toServer[c], Closed), << >>, c \in players, seat[c])
      BY LinkOf, LinkClose
    <3>2. "out" \notin InNetplay
      BY DEF InNetplay
    <3> QED  BY <1>1, <2>0, <2>2, <3>1, <3>2 DEF Closing, Link0
  <2> QED  BY <2>1, <2>2
<1>4. Link("ready", FALSE, {}, 0, Append(Closing(c), Login), << >>, c \in players, seat[c])
  BY <1>3, LinkStart
<1>5. /\ phase'[c] = "ready" /\ Joined'[c] = FALSE /\ LocalPlayersMask'[c] = {}
      /\ LocalInputStateSize'[c] = 0 /\ toServer'[c] = Append(Closing(c), Login)
      /\ toClient'[c] = << >> /\ players' = players /\ seat' = seat
  BY DEF IInv, TypeOK, serverVars
<1>6. Linked'
  <2>1. OthersKept(c)
    BY <1>5 DEF IInv, TypeOK, OthersKept
  <2> HIDE DEF NetStart
  <2>2. Link(phase'[c], Joined'[c], LocalPlayersMask'[c], LocalInputStateSize'[c],
             toServer'[c], toClient'[c], c \in players', seat'[c])
    BY <1>4, <1>5
  <2> QED  BY <2>1, <2>2, LinkedByOne DEF IInv
<1> QED  BY <1>2, <1>6 DEF IInv

LEMMA NetworkCloseStep ==
    ASSUME IInv, NEW c \in Clients, NetworkClose(c)
    PROVE  IInv'
<1> USE DEF NetworkClose, Goes, Event
<1>1. Closing(c) \in Seq(ServerMessages)
  BY ServerMessageTypes DEF Closing, IInv, TypeOK
<1>2. TypeOK'
  <2>1. toServer' \in [Clients -> Seq(ServerMessages)] /\ toClient' \in [Clients -> Seq(ClientMessages)]
    BY <1>1 DEF IInv, TypeOK
  <2>2. phase' \in [Clients -> Phases]
    BY DEF IInv, TypeOK, Phases
  <2>3. events' \in 0 .. MaxEvents
    BY NetplayAssumption DEF IInv, TypeOK
  <2> QED  BY <2>1, <2>2, <2>3 DEF IInv, TypeOK, serverVars, localVars
<1>3. Link("out", Joined[c], LocalPlayersMask[c], LocalInputStateSize[c],
           Closing(c), << >>, c \in players, seat[c])
  <2>1. CASE phase[c] = "lost"
    <3>1. phase[c] \notin InNetplay /\ "out" \in {"out", "lost"} /\ Closing(c) = toServer[c]
      BY <2>1 DEF InNetplay, Closing
    <3> QED  BY <3>1, LinkOf, LinkStay DEF Link0
  <2>2. CASE phase[c] = "between"
    <3>1. Closing(c) = Append(toServer[c], Closed)
      BY <2>2 DEF Closing
    <3> QED  BY <3>1, LinkOf, LinkClose
  <2> QED  BY <2>1, <2>2
<1>4. /\ phase'[c] = "out" /\ Joined' = Joined /\ LocalPlayersMask' = LocalPlayersMask
      /\ LocalInputStateSize' = LocalInputStateSize /\ toServer'[c] = Closing(c)
      /\ toClient'[c] = << >> /\ players' = players /\ seat' = seat
  BY DEF IInv, TypeOK, serverVars, localVars
<1>5. OthersKept(c)
  BY <1>4 DEF IInv, TypeOK, OthersKept
<1> HIDE DEF NetworkClose
<1>6. Linked'
  BY <1>3, <1>4, <1>5, LinkedByOne DEF IInv
<1> QED  BY <1>2, <1>6 DEF IInv

\* What a player sends with the size it has for its ports fits them.
LEMMA Between ==
    ASSUME IInv, NEW c \in Clients, phase[c] \in InNetplay, Joined[c]
    PROVE  /\ LocalInputStateSize[c] = SetSize(seat[c]) /\ LocalPlayersMask[c] = seat[c]
           /\ c \in players
<1>1. Link(phase[c], Joined[c], LocalPlayersMask[c], LocalInputStateSize[c],
           toServer[c], toClient[c], c \in players, seat[c])
  BY LinkOf DEF Link0
<1> QED  BY <1>1 DEF Link

\* A client sends a message of its own, at most moving in netplay and
\* changing its game and its movie.
LEMMA SendStep ==
    ASSUME IInv, NEW c \in Clients, NEW m \in ServerMessages, Data(m), Fits(m, seat[c]),
           phase[c] \in InNetplay, Joined[c],
           NEW there \in InNetplay, phase' = [phase EXCEPT ![c] = there],
           Send(c, m), UNCHANGED <<localVars, toClient, serverVars>>,
           game' \in [Clients -> States], replay' \in [Clients -> States \cup {NoState}],
           events' \in 0 .. MaxEvents
    PROVE  IInv'
<1>1. TypeOK'
  <2>1. toServer' \in [Clients -> Seq(ServerMessages)]
    BY DEF IInv, TypeOK, Send
  <2>2. phase' \in [Clients -> Phases]
    BY DEF IInv, TypeOK, Phases, InNetplay
  <2> QED  BY <2>1, <2>2 DEF IInv, TypeOK, serverVars, localVars
<1>2. Link(there, Joined[c], LocalPlayersMask[c], LocalInputStateSize[c],
           Append(toServer[c], m), toClient[c], c \in players, seat[c])
  BY LinkOf, LinkSend
<1>3. /\ phase'[c] = there /\ Joined' = Joined /\ LocalPlayersMask' = LocalPlayersMask
      /\ LocalInputStateSize' = LocalInputStateSize /\ toServer'[c] = Append(toServer[c], m)
      /\ toClient' = toClient /\ players' = players /\ seat' = seat
  BY DEF IInv, TypeOK, serverVars, localVars, Send
<1>4. OthersKept(c)
  BY <1>3 DEF IInv, TypeOK, OthersKept, Send
<1>5. Linked'
  BY <1>2, <1>3, <1>4, LinkedByOne DEF IInv
<1> QED  BY <1>1, <1>5 DEF IInv

\* A client between two frames has its place in the game.
LEMMA BetweenJoined ==
    ASSUME IInv, NEW c \in Clients, phase[c] = "between"
    PROVE  Joined[c] /\ phase[c] \in InNetplay
<1>1. Link(phase[c], Joined[c], LocalPlayersMask[c], LocalInputStateSize[c],
           toServer[c], toClient[c], c \in players, seat[c])
  BY LinkOf DEF Link0
<1> QED  BY <1>1 DEF Link, InNetplay

LEMMA SimpleCommandStep ==
    ASSUME IInv, NEW c \in Clients, NEW cmd \in Commands, SimpleCommand(c, cmd)
    PROVE  IInv'
<1> DEFINE m == Command(LocalInputStateSize[c], cmd)
<1>1. Joined[c] /\ phase[c] \in InNetplay /\ "ready" \in InNetplay
  BY BetweenJoined DEF SimpleCommand, Menu, InNetplay
<1>2. m \in ServerMessages
  BY ServerMessageTypes DEF IInv, TypeOK
<1>3. Data(m) /\ Fits(m, seat[c])
  BY <1>1, Between, NetplayAssumption DEF Data, Fits, Command, Protocol
<1>4. Send(c, m) /\ phase' = [phase EXCEPT ![c] = "ready"]
      /\ UNCHANGED <<localVars, toClient, serverVars, game, replay>>
  BY DEF SimpleCommand, Menu, QSimpleCommand, Goes
<1>5. events' \in 0 .. MaxEvents
  BY NetplayAssumption DEF SimpleCommand, Menu, Event, IInv, TypeOK
<1>6. game' \in [Clients -> States] /\ replay' \in [Clients -> States \cup {NoState}]
  BY <1>4 DEF IInv, TypeOK
<1> HIDE DEF m
<1> QED  BY <1>1, <1>2, <1>3, <1>4, <1>5, <1>6, SendStep

LEMMA LoadStateStep ==
    ASSUME IInv, NEW c \in Clients, LoadState(c)
    PROVE  IInv'
<1> DEFINE m == State(LocalInputStateSize[c], Boot(c))
<1>1. Joined[c] /\ phase[c] \in InNetplay /\ "ready" \in InNetplay
  BY BetweenJoined DEF LoadState, Menu, InNetplay
<1>2. m \in ServerMessages
  BY ServerMessageTypes, StateTypes DEF IInv, TypeOK
<1>3. Data(m) /\ Fits(m, seat[c])
  BY <1>1, Between DEF Data, Fits, State
<1>4. Send(c, m) /\ phase' = [phase EXCEPT ![c] = "ready"]
      /\ UNCHANGED <<localVars, toClient, serverVars>>
  BY DEF LoadState, Menu, SendState, Goes
<1>5. events' \in 0 .. MaxEvents
  BY NetplayAssumption DEF LoadState, Menu, Event, IInv, TypeOK
<1>6. game' \in [Clients -> States] /\ replay' \in [Clients -> States \cup {NoState}]
  BY StateTypes DEF IInv, TypeOK, LoadState, Becomes, Recorded
<1> HIDE DEF m
<1> QED  BY <1>1, <1>2, <1>3, <1>4, <1>5, <1>6, SendStep

\* A client moves in netplay, and its game and its movie may change.
LEMMA MoveStep ==
    ASSUME IInv, NEW c \in Clients, phase[c] \in InNetplay,
           NEW there \in InNetplay, there = "between" => Joined[c],
           phase' = [phase EXCEPT ![c] = there],
           UNCHANGED <<localVars, toServer, toClient, serverVars>>,
           game' \in [Clients -> States], replay' \in [Clients -> States \cup {NoState}],
           events' \in 0 .. MaxEvents
    PROVE  IInv'
<1>1. TypeOK'
  <2>1. phase' \in [Clients -> Phases]
    BY DEF IInv, TypeOK, Phases, InNetplay
  <2> QED  BY <2>1 DEF IInv, TypeOK, serverVars, localVars
<1>2. Link(there, Joined[c], LocalPlayersMask[c], LocalInputStateSize[c],
           toServer[c], toClient[c], c \in players, seat[c])
  BY LinkOf, LinkMove DEF Link0
<1>3. /\ phase'[c] = there /\ Joined' = Joined /\ LocalPlayersMask' = LocalPlayersMask
      /\ LocalInputStateSize' = LocalInputStateSize /\ toServer' = toServer
      /\ toClient' = toClient /\ players' = players /\ seat' = seat
  BY DEF IInv, TypeOK, serverVars, localVars
<1>4. OthersKept(c)
  BY <1>3 DEF IInv, TypeOK, OthersKept
<1>5. Linked'
  BY <1>2, <1>3, <1>4, LinkedByOne DEF IInv
<1> QED  BY <1>1, <1>5 DEF IInv

LEMMA LoadStateFailsStep ==
    ASSUME IInv, NEW c \in Clients, LoadStateFails(c)
    PROVE  IInv'
<1>1. Joined[c] /\ phase[c] \in InNetplay /\ "ready" \in InNetplay /\ "ready" # "between"
  BY BetweenJoined DEF LoadStateFails, Menu, InNetplay
<1>2. game' \in [Clients -> States] /\ replay' \in [Clients -> States \cup {NoState}]
      /\ events' \in 0 .. MaxEvents
  BY StateTypes, NetplayAssumption DEF IInv, TypeOK, LoadStateFails, Becomes, Menu, Event
<1>3. phase' = [phase EXCEPT ![c] = "ready"] /\ UNCHANGED <<localVars, toServer, toClient, serverVars>>
  BY DEF LoadStateFails, Menu, Goes
<1> QED  BY <1>1, <1>2, <1>3, MoveStep

-----------------------------------------------------------------------------
\* NetplayUpdate.

LEMMA BeginUpdateStep ==
    ASSUME IInv, NEW c \in Clients, NEW joy \in Joys, BeginUpdate(c, joy)
    PROVE  IInv'
<1> DEFINE packed == [x \in LocalPlayersMask[c] |-> Pad(joy, Source(LocalPlayersMask[c], x))]
           m == Input(LocalInputStateSize[c], packed)
<1>1. phase[c] \in InNetplay /\ "updating" \in InNetplay /\ "updating" # "between"
  BY DEF BeginUpdate, InNetplay
<1>2. game' \in [Clients -> States] /\ replay' \in [Clients -> States \cup {NoState}]
      /\ events' \in 0 .. MaxEvents
  BY NetplayAssumption DEF IInv, TypeOK, BeginUpdate, Event
<1>3. phase' = [phase EXCEPT ![c] = "updating"] /\ UNCHANGED <<localVars, toClient, serverVars>>
  BY DEF BeginUpdate, Goes
<1>4. CASE Joined[c]
  <2>1. Send(c, m)
    BY <1>4 DEF BeginUpdate
  <2>2. packed \in [LocalPlayersMask[c] -> Joys]
    BY NetplayAssumption DEF Pad
  <2>3. m \in ServerMessages
    <3> HIDE DEF packed
    <3> QED  BY <2>2, ServerMessageTypes DEF IInv, TypeOK
  <2>4. Data(m) /\ Fits(m, seat[c])
    <3>1. DOMAIN packed = LocalPlayersMask[c]
      OBVIOUS
    <3> HIDE DEF packed
    <3> QED  BY <1>1, <1>4, <3>1, Between DEF Data, Fits, Input
  <2> HIDE DEF m
  <2> QED  BY <1>1, <1>2, <1>3, <1>4, <2>1, <2>3, <2>4, SendStep
<1>5. CASE ~Joined[c]
  <2>1. UNCHANGED toServer
    BY <1>5 DEF BeginUpdate
  <2> QED  BY <1>1, <1>2, <1>3, <2>1, MoveStep
<1>6. Joined[c] \in BOOLEAN
  BY DEF IInv, TypeOK
<1> QED  BY <1>4, <1>5, <1>6

\* The packet a client takes.
LEMMA Taken ==
    ASSUME IInv, NEW c \in Clients, NEW kinds, Receives(c, kinds), "YOUJOINED" \notin kinds
    PROVE  /\ phase[c] \in InNetplay /\ Joined[c]
           /\ Head(toClient[c]) \in ClientMessages /\ Head(toClient[c]).kind \in kinds
           /\ toClient' \in [Clients -> Seq(ClientMessages)]
           /\ toClient'[c] = Tail(toClient[c])
           /\ \A d \in Clients \ {c} : toClient'[d] = toClient[d]
           /\ Link0(phase[c], Joined[c], LocalPlayersMask[c], LocalInputStateSize[c],
                    toServer[c], Tail(toClient[c]), c \in players, seat[c])
<1>1. phase[c] \in InNetplay /\ toClient[c] # << >> /\ Head(toClient[c]).kind \in kinds
  BY DEF Receives, InNetplay
<1>2. toClient[c] \in Seq(ClientMessages) /\ toClient' = [toClient EXCEPT ![c] = Tail(@)]
  BY DEF Receives, IInv, TypeOK
<1>3. Tail(toClient[c]) \in Seq(ClientMessages) /\ Head(toClient[c]) \in ClientMessages
  BY <1>1, <1>2
<1>4. /\ Joined[c]
      /\ Link(phase[c], Joined[c], LocalPlayersMask[c], LocalInputStateSize[c],
              toServer[c], Tail(toClient[c]), c \in players, seat[c])
  BY <1>1, LinkOf, LinkTake
<1>5. toServer[c] \in Seq(ServerMessages) /\ toClient \in [Clients -> Seq(ClientMessages)]
  BY DEF IInv, TypeOK
<1> QED  BY <1>1, <1>2, <1>3, <1>4, <1>5 DEF Link0

\* A client takes a packet that changes its game and its movie at most.
LEMMA TakeStep ==
    ASSUME IInv, NEW c \in Clients, NEW kinds, Receives(c, kinds), "YOUJOINED" \notin kinds,
           NEW there \in InNetplay, phase' = [phase EXCEPT ![c] = there],
           UNCHANGED <<localVars, toServer>>,
           game' \in [Clients -> States], replay' \in [Clients -> States \cup {NoState}]
    PROVE  IInv'
<1>0. UNCHANGED <<serverVars, events>>
  BY DEF Receives
<1>1. TypeOK'
  <2>1. phase' \in [Clients -> Phases]
    BY DEF IInv, TypeOK, Phases, InNetplay
  <2>2. toClient' \in [Clients -> Seq(ClientMessages)]
    BY Taken
  <2> QED  BY <1>0, <2>1, <2>2 DEF IInv, TypeOK, serverVars, localVars
<1>2. Link(there, Joined[c], LocalPlayersMask[c], LocalInputStateSize[c],
           toServer[c], Tail(toClient[c]), c \in players, seat[c])
  BY Taken, LinkMove DEF Link0
<1>3. /\ phase'[c] = there /\ Joined' = Joined /\ LocalPlayersMask' = LocalPlayersMask
      /\ LocalInputStateSize' = LocalInputStateSize /\ toServer' = toServer
      /\ toClient'[c] = Tail(toClient[c]) /\ players' = players /\ seat' = seat
  BY <1>0, Taken DEF IInv, TypeOK, serverVars, localVars
<1>4. OthersKept(c)
  BY <1>3, Taken DEF IInv, TypeOK, OthersKept
<1>5. Linked'
  BY <1>2, <1>3, <1>4, LinkedByOne DEF IInv
<1> QED  BY <1>1, <1>5 DEF IInv

\* A client takes a packet and answers it.
LEMMA AnswerStep ==
    ASSUME IInv, NEW c \in Clients, NEW kinds, Receives(c, kinds), "YOUJOINED" \notin kinds,
           NEW m \in ServerMessages, Data(m), Fits(m, seat[c]), Send(c, m), UNCHANGED clientVars
    PROVE  IInv'
<1>0. UNCHANGED <<serverVars, events>>
  BY DEF Receives
<1>1. TypeOK'
  <2>1. toServer' \in [Clients -> Seq(ServerMessages)]
    BY DEF IInv, TypeOK, Send
  <2>2. toClient' \in [Clients -> Seq(ClientMessages)]
    BY Taken
  <2> QED  BY <1>0, <2>1, <2>2 DEF IInv, TypeOK, serverVars, clientVars, localVars
<1>2. Link(phase[c], Joined[c], LocalPlayersMask[c], LocalInputStateSize[c],
           Append(toServer[c], m), Tail(toClient[c]), c \in players, seat[c])
  BY Taken, LinkSend
<1>3. /\ phase' = phase /\ Joined' = Joined /\ LocalPlayersMask' = LocalPlayersMask
      /\ LocalInputStateSize' = LocalInputStateSize /\ toServer'[c] = Append(toServer[c], m)
      /\ toClient'[c] = Tail(toClient[c]) /\ players' = players /\ seat' = seat
  BY <1>0, Taken DEF IInv, TypeOK, serverVars, clientVars, localVars, Send
<1>4. OthersKept(c)
  BY <1>3, Taken DEF IInv, TypeOK, OthersKept, Send
<1>5. Linked'
  BY <1>2, <1>3, <1>4, LinkedByOne DEF IInv
<1> QED  BY <1>1, <1>5 DEF IInv

LEMMA RecvFrameStep ==
    ASSUME IInv, NEW c \in Clients, RecvFrame(c)
    PROVE  IInv'
<1>1. Receives(c, {"frame"}) /\ "YOUJOINED" \notin {"frame"}
  BY DEF RecvFrame
<1>2. Head(toClient[c]).pads \in [Ports -> Joys]
  BY <1>1, Taken, ClientMessageTypes
<1>3. Emulated(game[c], Head(toClient[c]).pads) \in States
  BY <1>2, StateTypes DEF IInv, TypeOK
<1>4. replay[c] # NoState => Emulated(replay[c], Head(toClient[c]).pads) \in States
  BY <1>2, StateTypes DEF IInv, TypeOK
<1>5. game' \in [Clients -> States]
  BY <1>3 DEF RecvFrame, Becomes, IInv, TypeOK
<1>6. replay' \in [Clients -> States \cup {NoState}]
  BY <1>4 DEF RecvFrame, Recorded, IInv, TypeOK
<1>7. "between" \in InNetplay /\ phase' = [phase EXCEPT ![c] = "between"]
      /\ UNCHANGED <<localVars, toServer>>
  BY DEF RecvFrame, EndsUpdate, Goes, InNetplay
<1> QED  BY <1>1, <1>5, <1>6, <1>7, TakeStep

\* A client that stays where it is.
LEMMA Staying ==
    ASSUME IInv, NEW c \in Clients, UNCHANGED phase
    PROVE  phase' = [phase EXCEPT ![c] = phase[c]]
  BY DEF IInv, TypeOK

LEMMA RecvCommandStep ==
    ASSUME IInv, NEW c \in Clients, RecvCommand(c)
    PROVE  IInv'
<1>1. Receives(c, Commands) /\ "YOUJOINED" \notin Commands
  BY NetplayAssumption DEF RecvCommand, Protocol
<1>2. Head(toClient[c]).kind \in Commands /\ phase[c] \in InNetplay
  BY <1>1, Taken
<1>3. game' \in [Clients -> States] /\ replay' \in [Clients -> States \cup {NoState}]
  BY <1>2, StateTypes DEF RecvCommand, Becomes, IInv, TypeOK
<1>4. UNCHANGED <<phase, localVars, toServer>>
  BY DEF RecvCommand
<1> QED  BY <1>1, <1>2, <1>3, <1>4, Staying, TakeStep

LEMMA RecvLoadStateStep ==
    ASSUME IInv, NEW c \in Clients, RecvLoadState(c)
    PROVE  IInv'
<1>1. Receives(c, {"LOADSTATE"}) /\ "YOUJOINED" \notin {"LOADSTATE"}
  BY DEF RecvLoadState
<1>2. Head(toClient[c]).state \in States /\ phase[c] \in InNetplay
  BY <1>1, Taken, ClientMessageTypes
<1>3. game' \in [Clients -> States] /\ replay' \in [Clients -> States \cup {NoState}]
  BY <1>2 DEF RecvLoadState, RecvState, Becomes, Recorded, IInv, TypeOK
<1>4. UNCHANGED <<phase, localVars, toServer>>
  BY DEF RecvLoadState
<1> QED  BY <1>1, <1>2, <1>3, <1>4, Staying, TakeStep

LEMMA RecvSaveStateStep ==
    ASSUME IInv, NEW c \in Clients, RecvSaveState(c)
    PROVE  IInv'
<1> DEFINE m == State(LocalInputStateSize[c], game[c])
<1>1. Receives(c, {"SAVESTATE"}) /\ "YOUJOINED" \notin {"SAVESTATE"}
  BY DEF RecvSaveState
<1>2. m \in ServerMessages
  BY ServerMessageTypes DEF IInv, TypeOK
<1>3. Data(m) /\ Fits(m, seat[c])
  BY <1>1, Taken, Between DEF Data, Fits, State
<1>4. Send(c, m) /\ UNCHANGED clientVars
  BY DEF RecvSaveState, SendState
<1> HIDE DEF m
<1> QED  BY <1>1, <1>2, <1>3, <1>4, AnswerStep

LEMMA RecvIntegrityStep ==
    ASSUME IInv, NEW c \in Clients, RecvIntegrity(c)
    PROVE  IInv'
<1> DEFINE m == Command(LocalInputStateSize[c], "INTEGRITY_RES")
<1>1. Receives(c, {"INTEGRITY"}) /\ "YOUJOINED" \notin {"INTEGRITY"}
  BY DEF RecvIntegrity
<1>2. m \in ServerMessages
  BY ServerMessageTypes DEF IInv, TypeOK
<1>3. Data(m) /\ Fits(m, seat[c])
  BY <1>1, Taken, Between DEF Data, Fits, Command
<1>4. Send(c, m) /\ UNCHANGED clientVars
  BY DEF RecvIntegrity
<1> HIDE DEF m
<1> QED  BY <1>1, <1>2, <1>3, <1>4, AnswerStep

LEMMA RecvYouJoinedStep ==
    ASSUME IInv, NEW c \in Clients, RecvYouJoined(c)
    PROVE  IInv'
<1> DEFINE mask == Head(toClient[c]).mask
           m == Command(SetSize(mask), "SETFPS")
<1>1. /\ phase[c] \in InNetplay /\ toClient[c] # << >> /\ Head(toClient[c]).kind = "YOUJOINED"
      /\ toClient' = [toClient EXCEPT ![c] = Tail(@)]
      /\ UNCHANGED <<phase, game, replay, serverVars, events>>
      /\ Joined' = [Joined EXCEPT ![c] = TRUE]
      /\ LocalPlayersMask' = [LocalPlayersMask EXCEPT ![c] = mask]
      /\ LocalInputStateSize' = [LocalInputStateSize EXCEPT ![c] = SetSize(mask)]
      /\ Send(c, m)
  BY DEF RecvYouJoined, Receives, InNetplay, SetFps
<1>2. toClient[c] \in Seq(ClientMessages)
  BY DEF IInv, TypeOK
<1>3. Tail(toClient[c]) \in Seq(ClientMessages) /\ Head(toClient[c]) \in ClientMessages
  BY <1>1, <1>2
<1>4. mask \in Places
  BY <1>1, <1>3, ClientMessageTypes
<1>5. SetSize(mask) \in Sizes
  BY <1>4 DEF Sizes
<1>6. m \in ServerMessages
  BY <1>5, ServerMessageTypes
<1>7. Data(m) /\ \A ports : mask = ports => Fits(m, ports)
  BY DEF Data, Fits, Command
<1>8. /\ phase[c] \in InNetplay /\ toClient[c] # << >> /\ Head(toClient[c]).kind = "YOUJOINED"
      /\ Link0(phase[c], Joined[c], LocalPlayersMask[c], LocalInputStateSize[c],
               toServer[c], toClient[c], c \in players, seat[c])
  BY <1>1, LinkOf
<1> HIDE DEF m, mask
<1>9. mask = seat[c]
  <2> DEFINE m2 == Command(SetSize(seat[c]), "SETFPS")
  <2>1. m2 \in ServerMessages
    <3>1. seat[c] \in Places
      BY DEF IInv, TypeOK
    <3>2. SetSize(seat[c]) \in Sizes
      BY <3>1 DEF Sizes
    <3> QED  BY <3>2, ServerMessageTypes
  <2>2. Data(m2) /\ Fits(m2, seat[c])
    BY DEF Data, Fits, Command
  <2> HIDE DEF m2
  <2>3. /\ Head(toClient[c]) = YouJoined(seat[c])
        /\ Link(phase[c], TRUE, seat[c], SetSize(seat[c]), Append(toServer[c], m2),
                Tail(toClient[c]), c \in players, seat[c])
    BY <1>8, <2>1, <2>2, LinkJoin
  <2> QED  BY <2>3, MessageKinds DEF mask
<1>10. Link(phase[c], TRUE, seat[c], SetSize(seat[c]), Append(toServer[c], m),
            Tail(toClient[c]), c \in players, seat[c])
  <2>1. Fits(m, seat[c])
    BY <1>7, <1>9
  <2> QED  BY <1>6, <1>7, <1>8, <2>1, LinkJoin
<1>11. TypeOK'
  <2>1. toServer' \in [Clients -> Seq(ServerMessages)]
    BY <1>1, <1>6 DEF IInv, TypeOK, Send
  <2>2. toClient' \in [Clients -> Seq(ClientMessages)]
    BY <1>1, <1>3 DEF IInv, TypeOK
  <2>3. Joined' \in [Clients -> BOOLEAN] /\ LocalPlayersMask' \in [Clients -> Places]
        /\ LocalInputStateSize' \in [Clients -> Sizes]
    BY <1>1, <1>4, <1>5 DEF IInv, TypeOK
  <2> QED  BY <1>1, <2>1, <2>2, <2>3 DEF IInv, TypeOK, serverVars
<1>12. /\ phase' = phase /\ Joined'[c] = TRUE /\ LocalPlayersMask'[c] = seat[c]
       /\ LocalInputStateSize'[c] = SetSize(seat[c]) /\ toServer'[c] = Append(toServer[c], m)
       /\ toClient'[c] = Tail(toClient[c]) /\ players' = players /\ seat' = seat
  BY <1>1, <1>9 DEF IInv, TypeOK, serverVars, Send
<1>13. OthersKept(c)
  BY <1>1, <1>12 DEF IInv, TypeOK, OthersKept, Send
<1>14. Linked'
  BY <1>10, <1>12, <1>13, LinkedByOne DEF IInv
<1> QED  BY <1>11, <1>14 DEF IInv

\* A client leaves netplay in the middle of an update.
LEMMA LeaveStep ==
    ASSUME IInv, NEW c \in Clients, NEW there \in {"out", "lost"}, Goes(c, there), Event,
           Send(c, Closed), toClient' = [toClient EXCEPT ![c] = << >>],
           game' \in [Clients -> States], UNCHANGED <<localVars, replay, serverVars>>
    PROVE  IInv'
<1>1. TypeOK'
  <2>1. toServer' \in [Clients -> Seq(ServerMessages)]
    BY ServerMessageTypes DEF IInv, TypeOK, Send
  <2>2. phase' \in [Clients -> Phases] /\ toClient' \in [Clients -> Seq(ClientMessages)]
    BY DEF IInv, TypeOK, Phases, Goes
  <2>3. events' \in 0 .. MaxEvents
    BY NetplayAssumption DEF IInv, TypeOK, Event
  <2> QED  BY <2>1, <2>2, <2>3 DEF IInv, TypeOK, serverVars, localVars
<1>2. Link(there, Joined[c], LocalPlayersMask[c], LocalInputStateSize[c],
           Append(toServer[c], Closed), << >>, c \in players, seat[c])
  BY LinkOf, LinkClose
<1>3. /\ phase'[c] = there /\ Joined' = Joined /\ LocalPlayersMask' = LocalPlayersMask
      /\ LocalInputStateSize' = LocalInputStateSize /\ toServer'[c] = Append(toServer[c], Closed)
      /\ toClient'[c] = << >> /\ players' = players /\ seat' = seat
  BY DEF IInv, TypeOK, serverVars, localVars, Send, Goes
<1>4. OthersKept(c)
  BY <1>3 DEF IInv, TypeOK, OthersKept, Send, Goes
<1>5. Linked'
  BY <1>2, <1>3, <1>4, LinkedByOne DEF IInv
<1> QED  BY <1>1, <1>5 DEF IInv

LEMMA RecvStateFailsStep ==
    ASSUME IInv, NEW c \in Clients, RecvStateFails(c)
    PROVE  IInv'
<1>1. game' \in [Clients -> States]
  BY StateTypes DEF RecvStateFails, Becomes, IInv, TypeOK
<1>2. /\ "out" \in {"out", "lost"} /\ Goes(c, "out") /\ Event /\ Send(c, Closed)
      /\ toClient' = [toClient EXCEPT ![c] = << >>] /\ UNCHANGED <<localVars, replay, serverVars>>
  BY DEF RecvStateFails
<1> QED  BY <1>1, <1>2, LeaveStep

LEMMA RecvPartStep ==
    ASSUME IInv, NEW c \in Clients, RecvPart(c)
    PROVE  IInv'
<1>1. game' \in [Clients -> States]
  BY StateTypes DEF RecvPart, Becomes, IInv, TypeOK
<1>2. /\ "lost" \in {"out", "lost"} /\ Goes(c, "lost") /\ Event /\ Send(c, Closed)
      /\ toClient' = [toClient EXCEPT ![c] = << >>] /\ UNCHANGED <<localVars, replay, serverVars>>
  BY DEF RecvPart
<1> QED  BY <1>1, <1>2, LeaveStep

-----------------------------------------------------------------------------
\* The server.

\* The message the server reads.
LEMMA Read ==
    ASSUME IInv, NEW c \in Clients, NEW kinds, SrvReads(c, kinds)
    PROVE  /\ toServer[c] # << >> /\ toServer[c] \in Seq(ServerMessages)
           /\ Head(toServer[c]) \in ServerMessages /\ Head(toServer[c]).kind \in kinds
           /\ toServer' \in [Clients -> Seq(ServerMessages)]
           /\ toServer'[c] = Tail(toServer[c])
           /\ \A d \in Clients \ {c} : toServer'[d] = toServer[d]
           /\ UNCHANGED <<clientVars, events>>
<1>1. /\ toServer[c] # << >> /\ Head(toServer[c]).kind \in kinds
      /\ toServer' = [toServer EXCEPT ![c] = Tail(@)] /\ UNCHANGED <<clientVars, events>>
  BY DEF SrvReads
<1>2. toServer[c] \in Seq(ServerMessages) /\ toServer \in [Clients -> Seq(ServerMessages)]
  BY DEF IInv, TypeOK
<1>3. Head(toServer[c]) \in ServerMessages /\ Tail(toServer[c]) \in Seq(ServerMessages)
  BY <1>1, <1>2
<1> QED  BY <1>1, <1>2, <1>3

LEMMA SrvLoginStep ==
    ASSUME IInv, NEW c \in Clients, SrvLogin(c)
    PROVE  IInv'
<1>1. SrvReads(c, {"login"}) /\ players' = players \cup {c} /\ UNCHANGED <<asked, held>>
      /\ synced' = IF players = {} THEN {c} ELSE synced
  BY DEF SrvLogin
<1>2. PICK mask \in Places :
         /\ seat' = [seat EXCEPT ![c] = mask]
         /\ toClient' = IF Len(toServer[c]) = 1
                        THEN [toClient EXCEPT ![c] = <<YouJoined(mask)>>]
                        ELSE toClient
  <2>1. Free \cup (IF Free = {} THEN {{}} ELSE {}) \subseteq Places
    BY DEF Free, Places
  <2> QED  BY <2>1 DEF SrvLogin
<1>3. YouJoined(mask) \in ClientMessages
  BY ClientMessageTypes
<1>4. toClient' \in [Clients -> Seq(ClientMessages)]
  BY <1>2, <1>3 DEF IInv, TypeOK
<1>5. TypeOK'
  <2>1. seat' \in [Clients -> Places] /\ players' \subseteq Clients /\ synced' \subseteq players'
    BY <1>1, <1>2 DEF IInv, TypeOK
  <2>2. toServer' \in [Clients -> Seq(ServerMessages)] /\ UNCHANGED <<clientVars, events>>
    BY <1>1, Read
  <2> QED  BY <1>1, <1>4, <2>1, <2>2 DEF IInv, TypeOK, clientVars, localVars
<1>6. Link(phase[c], Joined[c], LocalPlayersMask[c], LocalInputStateSize[c],
           Tail(toServer[c]),
           IF Len(toServer[c]) = 1 THEN <<YouJoined(mask)>> ELSE toClient[c], TRUE, mask)
  <2>1. toServer[c] # << >> /\ Head(toServer[c]).kind = "login"
    BY <1>1, Read
  <2> QED  BY <2>1, LinkOf, LinkLogin
<1>7. /\ UNCHANGED clientVars /\ toServer'[c] = Tail(toServer[c])
      /\ \A d \in Clients \ {c} : toServer'[d] = toServer[d]
  BY <1>1, Read
<1>8. /\ toClient'[c] = IF Len(toServer[c]) = 1 THEN <<YouJoined(mask)>> ELSE toClient[c]
      /\ (c \in players') = TRUE /\ seat'[c] = mask
      /\ \A d \in Clients \ {c} : /\ toClient'[d] = toClient[d] /\ seat'[d] = seat[d]
                                  /\ (d \in players') = (d \in players)
  BY <1>1, <1>2 DEF IInv, TypeOK
<1>9. OthersKept(c)
  BY <1>7, <1>8 DEF OthersKept, clientVars, localVars
<1>10. Link(phase'[c], Joined'[c], LocalPlayersMask'[c], LocalInputStateSize'[c],
            toServer'[c], toClient'[c], c \in players', seat'[c])
  BY <1>6, <1>7, <1>8 DEF clientVars, localVars
<1>11. Linked'
  BY <1>9, <1>10, LinkedByOne DEF IInv
<1> QED  BY <1>5, <1>11 DEF IInv

LEMMA SrvClosedStep ==
    ASSUME IInv, NEW c \in Clients, SrvClosed(c)
    PROVE  IInv'
<1>1. SrvReads(c, {"closed"}) /\ players' = players \ {c} /\ seat' = [seat EXCEPT ![c] = {}]
      /\ synced' = synced \ {c} /\ asked' = (IF asked = c THEN NoClient ELSE asked)
      /\ held' = [p \in Ports |-> IF p \in seat[c] THEN Idle ELSE held[p]]
      /\ UNCHANGED toClient
  BY DEF SrvClosed
<1>2. TypeOK'
  <2>1. seat' \in [Clients -> Places] /\ players' \subseteq Clients /\ synced' \subseteq players'
        /\ asked' \in Clients \cup {NoClient}
    BY <1>1 DEF IInv, TypeOK, Places
  <2>2. held' \in [Ports -> Joys]
    BY <1>1, NetplayAssumption DEF IInv, TypeOK
  <2>3. toServer' \in [Clients -> Seq(ServerMessages)] /\ UNCHANGED <<clientVars, events>>
    BY <1>1, Read
  <2> QED  BY <1>1, <2>1, <2>2, <2>3 DEF IInv, TypeOK, clientVars, localVars
<1>3. Link(phase[c], Joined[c], LocalPlayersMask[c], LocalInputStateSize[c],
           Tail(toServer[c]), toClient[c], FALSE, {})
  <2>1. toServer[c] # << >> /\ Head(toServer[c]).kind = "closed"
    BY <1>1, Read
  <2> QED  BY <2>1, LinkOf, LinkClosed
<1>4. /\ UNCHANGED clientVars /\ toServer'[c] = Tail(toServer[c])
      /\ \A d \in Clients \ {c} : toServer'[d] = toServer[d]
  BY <1>1, Read
<1>5. /\ (c \in players') = FALSE /\ seat'[c] = {}
      /\ \A d \in Clients \ {c} : seat'[d] = seat[d] /\ (d \in players') = (d \in players)
  BY <1>1 DEF IInv, TypeOK
<1>6. OthersKept(c)
  BY <1>1, <1>4, <1>5 DEF OthersKept, clientVars, localVars
<1>7. Link(phase'[c], Joined'[c], LocalPlayersMask'[c], LocalInputStateSize'[c],
           toServer'[c], toClient'[c], c \in players', seat'[c])
  BY <1>1, <1>3, <1>4, <1>5 DEF clientVars, localVars
<1>8. Linked'
  BY <1>6, <1>7, LinkedByOne DEF IInv
<1> QED  BY <1>2, <1>8 DEF IInv

\* What the server sends, and reads, when nobody comes or goes: each client gets
\* nothing or the packet, and the server reads some messages of players.
Served(packet) ==
    /\ UNCHANGED <<clientVars, players, seat>>
    /\ \A d \in Clients :
         /\ \/ toClient'[d] = toClient[d]
            \/ Reaches(d) /\ toClient'[d] = Append(toClient[d], packet)
         /\ \/ toServer'[d] = toServer[d]
            \/ /\ toServer[d] # << >> /\ Data(Head(toServer[d]))
               /\ toServer'[d] = Tail(toServer[d])

LEMMA ServedStep ==
    ASSUME IInv, NEW packet \in ClientMessages, packet.kind # "YOUJOINED", Served(packet)
    PROVE  Linked'
<1> SUFFICES ASSUME NEW d \in Clients
             PROVE  Link(phase[d], Joined[d], LocalPlayersMask[d], LocalInputStateSize[d],
                         toServer'[d], toClient'[d], d \in players, seat[d])
  BY DEF Linked, Served, clientVars, localVars
<1>1. Link0(phase[d], Joined[d], LocalPlayersMask[d], LocalInputStateSize[d],
            toServer[d], toClient[d], d \in players, seat[d])
  BY LinkOf
<1>2. Link0(phase[d], Joined[d], LocalPlayersMask[d], LocalInputStateSize[d],
            toServer[d], toClient'[d], d \in players, seat[d])
  <2>1. CASE toClient'[d] = toClient[d]
    BY <1>1, <2>1
  <2>2. CASE Reaches(d) /\ toClient'[d] = Append(toClient[d], packet)
    <3>1. Link(phase[d], Joined[d], LocalPlayersMask[d], LocalInputStateSize[d],
               toServer[d], Append(toClient[d], packet), d \in players, seat[d])
      BY <1>1, <2>2, LinkPush DEF Reaches
    <3>2. Append(toClient[d], packet) \in Seq(ClientMessages)
      BY <1>1 DEF Link0
    <3> QED  BY <1>1, <2>2, <3>1, <3>2 DEF Link0
  <2> QED  BY <2>1, <2>2 DEF Served
<1>3. CASE toServer'[d] = toServer[d]
  BY <1>2, <1>3 DEF Link0
<1>4. CASE toServer[d] # << >> /\ Data(Head(toServer[d])) /\ toServer'[d] = Tail(toServer[d])
  <2>1. Link(phase[d], Joined[d], LocalPlayersMask[d], LocalInputStateSize[d],
             Tail(toServer[d]), toClient'[d], d \in players, seat[d])
    BY <1>2, <1>4, LinkRead
  <2> QED  BY <1>4, <2>1
<1> QED  BY <1>3, <1>4 DEF Served

\* To all, and to none.
LEMMA Relayed ==
    ASSUME IInv, NEW packet \in ClientMessages, Relay(packet)
    PROVE  /\ toClient' \in [Clients -> Seq(ClientMessages)]
           /\ \A d \in Clients : \/ toClient'[d] = toClient[d]
                                 \/ Reaches(d) /\ toClient'[d] = Append(toClient[d], packet)
<1>1. toClient \in [Clients -> Seq(ClientMessages)]
  BY DEF IInv, TypeOK
<1>2. \A d \in Clients : toClient'[d] = IF Reaches(d) THEN Append(toClient[d], packet)
                                        ELSE toClient[d]
  BY <1>1 DEF Relay
<1>3. toClient' \in [Clients -> Seq(ClientMessages)]
  BY <1>1 DEF Relay
<1> QED  BY <1>2, <1>3

\* A message other than an end or a start of a connection is one of a player.
LEMMA DataRead ==
    ASSUME IInv, NEW c \in Clients, NEW kinds, SrvReads(c, kinds),
           "closed" \notin kinds, "login" \notin kinds
    PROVE  /\ toServer[c] # << >> /\ Data(Head(toServer[c])) /\ Fits(Head(toServer[c]), seat[c])
           /\ \A d \in Clients : \/ toServer'[d] = toServer[d]
                                 \/ /\ toServer[d] # << >> /\ Data(Head(toServer[d]))
                                    /\ toServer'[d] = Tail(toServer[d])
<1>1. toServer[c] # << >> /\ Data(Head(toServer[c]))
  BY Read DEF Data
<1>2. Fits(Head(toServer[c]), seat[c])
  BY <1>1, LinkOf, LinkRead
<1> QED  BY <1>1, <1>2, Read

LEMMA SrvInputStep ==
    ASSUME IInv, NEW c \in Clients, SrvInput(c)
    PROVE  IInv'
<1>1. SrvReads(c, {"input"}) /\ UNCHANGED <<toClient, players, seat, synced, asked>>
      /\ held' = [p \in Ports |-> IF p \in seat[c] THEN Head(toServer[c]).pads[p] ELSE held[p]]
  BY DEF SrvInput
<1>2. Head(toServer[c]) \in ServerMessages /\ Head(toServer[c]).kind = "input"
      /\ toServer' \in [Clients -> Seq(ServerMessages)] /\ UNCHANGED <<clientVars, events>>
  BY <1>1, Read
<1>3. DOMAIN Head(toServer[c]).pads = seat[c]
  BY <1>1, <1>2, DataRead DEF Fits
<1>4. \A p \in seat[c] : Head(toServer[c]).pads[p] \in Joys
  BY <1>2, <1>3, ServerMessageTypes
<1>5. held' \in [Ports -> Joys]
  BY <1>1, <1>4 DEF IInv, TypeOK
<1>6. TypeOK'
  BY <1>1, <1>2, <1>5 DEF IInv, TypeOK, clientVars, localVars
<1>7. Packet("INTEGRITY") \in ClientMessages /\ Packet("INTEGRITY").kind # "YOUJOINED"
  BY ClientMessageTypes
<1>8. Served(Packet("INTEGRITY"))
  BY <1>1, <1>2, DataRead DEF Served
<1> QED  BY <1>6, <1>7, <1>8, ServedStep DEF IInv

LEMMA SrvAnswerStep ==
    ASSUME IInv, NEW c \in Clients, SrvAnswer(c)
    PROVE  IInv'
<1>1. SrvReads(c, {"SETFPS", "INTEGRITY_RES"}) /\ UNCHANGED <<toClient, serverVars>>
  BY DEF SrvAnswer
<1>2. toServer' \in [Clients -> Seq(ServerMessages)] /\ UNCHANGED <<clientVars, events>>
  BY <1>1, Read
<1>3. TypeOK'
  BY <1>1, <1>2 DEF IInv, TypeOK, clientVars, localVars, serverVars
<1>4. Packet("INTEGRITY") \in ClientMessages /\ Packet("INTEGRITY").kind # "YOUJOINED"
  BY ClientMessageTypes
<1>5. Served(Packet("INTEGRITY"))
  BY <1>1, <1>2, DataRead DEF Served, serverVars
<1> QED  BY <1>3, <1>4, <1>5, ServedStep DEF IInv

LEMMA SrvCommandStep ==
    ASSUME IInv, NEW c \in Clients, SrvCommand(c)
    PROVE  IInv'
<1> DEFINE packet == Packet(Head(toServer[c]).kind)
<1>1. SrvReads(c, Commands) /\ Relay(packet) /\ UNCHANGED serverVars
  BY DEF SrvCommand
<1>2. Head(toServer[c]).kind \in Commands
      /\ toServer' \in [Clients -> Seq(ServerMessages)] /\ UNCHANGED <<clientVars, events>>
  BY <1>1, Read
<1>3. packet \in ClientMessages /\ packet.kind # "YOUJOINED"
  BY <1>2, ClientMessageTypes
<1> HIDE DEF packet
<1>4. TypeOK'
  BY <1>1, <1>2, <1>3, Relayed DEF IInv, TypeOK, clientVars, localVars, serverVars
<1>5. "closed" \notin Commands /\ "login" \notin Commands
  BY NetplayAssumption DEF Protocol
<1>6. Served(packet)
  BY <1>1, <1>2, <1>3, <1>5, DataRead, Relayed DEF Served, serverVars
<1> QED  BY <1>3, <1>4, <1>6, ServedStep DEF IInv

LEMMA SrvStateStep ==
    ASSUME IInv, NEW c \in Clients, SrvState(c)
    PROVE  IInv'
<1> DEFINE packet == Remote(Head(toServer[c]).state)
<1>1. SrvReads(c, {"LOADSTATE"}) /\ Relay(packet) /\ synced' = players /\ asked' = NoClient
      /\ UNCHANGED <<players, seat, held>>
  BY DEF SrvState
<1>2. Head(toServer[c]) \in ServerMessages /\ Head(toServer[c]).kind = "LOADSTATE"
      /\ toServer' \in [Clients -> Seq(ServerMessages)] /\ UNCHANGED <<clientVars, events>>
  BY <1>1, Read
<1>3. Head(toServer[c]).state \in States
  BY <1>2, ServerMessageTypes
<1>4. packet \in ClientMessages /\ packet.kind # "YOUJOINED"
  BY <1>3, ClientMessageTypes
<1> HIDE DEF packet
<1>5. TypeOK'
  BY <1>1, <1>2, <1>4, Relayed DEF IInv, TypeOK, clientVars, localVars
<1>6. Served(packet)
  BY <1>1, <1>2, <1>4, DataRead, Relayed DEF Served
<1> QED  BY <1>4, <1>5, <1>6, ServedStep DEF IInv

LEMMA SrvAskStateStep ==
    ASSUME IInv, NEW c \in Clients, SrvAskState(c)
    PROVE  IInv'
<1> DEFINE packet == Packet("SAVESTATE")
<1>1. Reaches(c) /\ asked' = c /\ toClient' = [toClient EXCEPT ![c] = Append(@, packet)]
      /\ UNCHANGED <<clientVars, toServer, players, seat, synced, held, events>>
  BY DEF SrvAskState
<1>2. packet \in ClientMessages /\ packet.kind # "YOUJOINED"
  BY ClientMessageTypes
<1> HIDE DEF packet
<1>3. /\ toClient' \in [Clients -> Seq(ClientMessages)] /\ toClient'[c] = Append(toClient[c], packet)
      /\ \A d \in Clients \ {c} : toClient'[d] = toClient[d]
  BY <1>1, <1>2 DEF IInv, TypeOK
<1>4. TypeOK'
  BY <1>1, <1>3 DEF IInv, TypeOK, clientVars, localVars
<1>5. Served(packet)
  BY <1>1, <1>3 DEF Served
<1> QED  BY <1>2, <1>4, <1>5, ServedStep DEF IInv

LEMMA SrvAskIntegrityStep == ASSUME IInv, SrvAskIntegrity PROVE IInv'
<1> DEFINE packet == Packet("INTEGRITY")
<1>1. Event /\ Relay(packet) /\ UNCHANGED <<clientVars, toServer, serverVars>>
  BY DEF SrvAskIntegrity
<1>2. packet \in ClientMessages /\ packet.kind # "YOUJOINED"
  BY ClientMessageTypes
<1> HIDE DEF packet
<1>3. events' \in 0 .. MaxEvents
  BY <1>1, NetplayAssumption DEF Event, IInv, TypeOK
<1>4. TypeOK'
  BY <1>1, <1>2, <1>3, Relayed DEF IInv, TypeOK, clientVars, localVars, serverVars
<1>5. Served(packet)
  BY <1>1, <1>2, Relayed DEF Served, serverVars
<1> QED  BY <1>2, <1>4, <1>5, ServedStep DEF IInv

LEMMA SrvTickStep == ASSUME IInv, SrvTick PROVE IInv'
<1> DEFINE packet == Frame(held)
<1>1. Relay(packet) /\ held' = [p \in Ports |-> Idle]
      /\ UNCHANGED <<clientVars, toServer, players, seat, synced, asked, events>>
  BY DEF SrvTick
<1>2. packet \in ClientMessages /\ packet.kind # "YOUJOINED"
  BY ClientMessageTypes DEF IInv, TypeOK
<1> HIDE DEF packet
<1>3. held' \in [Ports -> Joys]
  BY <1>1, NetplayAssumption
<1>4. TypeOK'
  BY <1>1, <1>2, <1>3, Relayed DEF IInv, TypeOK, clientVars, localVars
<1>5. Served(packet)
  BY <1>1, <1>2, Relayed DEF Served
<1> QED  BY <1>2, <1>4, <1>5, ServedStep DEF IInv

-----------------------------------------------------------------------------
\* All the steps.

LEMMA Inductive == IInv /\ [Next]_vars => IInv'
<1> SUFFICES ASSUME IInv, [Next]_vars PROVE IInv'
  OBVIOUS
<1>1. ASSUME NEW c \in Clients, User(c)  PROVE IInv'
  BY <1>1, NetStartStep, NetworkCloseStep, SimpleCommandStep, LoadStateStep, LoadStateFailsStep
     DEF User
<1>2. ASSUME NEW c \in Clients, Receive(c)  PROVE IInv'
  BY <1>2, RecvFrameStep, RecvCommandStep, RecvSaveStateStep, RecvLoadStateStep,
     RecvStateFailsStep, RecvIntegrityStep, RecvYouJoinedStep DEF Receive
<1>3. ASSUME NEW c \in Clients, SrvReceive(c)  PROVE IInv'
  BY <1>3, SrvLoginStep, SrvClosedStep, SrvInputStep, SrvCommandStep, SrvStateStep, SrvAnswerStep
     DEF SrvReceive
<1>4. CASE UNCHANGED vars
  BY <1>4 DEF vars, clientVars, localVars, serverVars, IInv, TypeOK, Linked
<1> QED  BY <1>1, <1>2, <1>3, <1>4, RecvPartStep, BeginUpdateStep, SrvAskStateStep,
            SrvAskIntegrityStep, SrvTickStep DEF Next

\* The ends of every connection agree, through joining, leaving in the middle of
\* a frame and joining again.
THEOREM ConnectionsLinked == Spec => []IInv
<1>1. IInv /\ [Next]_vars => IInv'
  BY Inductive
<1> QED  BY Initially, <1>1, PTL DEF Spec

\* The types of the netplay variables of netplay.cpp and of what is on the
\* connections.
THEOREM NetplayTypes == Spec => []TypeOK
<1>1. IInv => TypeOK
  BY DEF IInv
<1> QED  BY <1>1, ConnectionsLinked, PTL

\* Whatever the server reads is as long as it expects: each packet was built
\* with the size of the ports the server gave the player, who is one.
THEOREM MessagesAligned == Spec => []Aligned
<1>1. IInv => Aligned
  <2> SUFFICES ASSUME IInv, NEW c \in Clients, toServer[c] # << >>,
                      Head(toServer[c]).kind \notin {"login", "closed"}
               PROVE  /\ c \in players
                      /\ Head(toServer[c]).size = SetSize(seat[c])
                      /\ Head(toServer[c]).kind = "input" =>
                           DOMAIN Head(toServer[c]).pads = seat[c]
    BY DEF Aligned
  <2>1. Data(Head(toServer[c])) /\ toServer[c] # << >>
    BY DEF Data
  <2>2. Head(toServer[c]) = toServer[c][1] /\ 1 \in DOMAIN toServer[c]
    BY LinkRest DEF IInv, TypeOK
  <2>3. \A i \in DOMAIN toServer[c] :
          Data(toServer[c][i]) => c \in players /\ Fits(toServer[c][i], seat[c])
    BY LinkOf DEF Link0, Link
  <2>4. c \in players /\ Fits(Head(toServer[c]), seat[c])
    BY <2>1, <2>2, <2>3
  <2> QED  BY <2>4 DEF Fits
<1> QED  BY <1>1, ConnectionsLinked, PTL
=============================================================================
