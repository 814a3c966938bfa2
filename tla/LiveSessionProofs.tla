------------------------- MODULE LiveSessionProofs -------------------------
(***************************************************************************)
(* Proofs about LiveSession, for every set of DJs and pages and every      *)
(* number of connections and failures.                                     *)
(***************************************************************************)
EXTENDS LiveSession, TLAPS

\* A call and what its handler has read.
Handler == [session : Connections, kind : {"djon", "djoff"}, user : Djs \cup {NoDj},
            at : {"sent", "begun", "ended", "found"}, wasLive : BOOLEAN,
            streamer : Djs \cup {NoDj}, open : SUBSET Nat]

\* TypeOK with the handlers typed whole.
TypeInv == /\ TypeOK
           /\ handlers \subseteq Handler

\* The mount is taken by a live connection from its start to the end of its
\* djoff, and nothing is known of a connection that was not made.
MountInv ==
    /\ mount = 0 <=> phase = "free"
    /\ mount # 0 => connection[mount].at = "live"
    /\ \A c \in Connections : c > made => connection[c] = NoConnection

\* An accepted connection's DJ is the one dj_auth noted last, or another DJ was
\* accepted since.
NameInv ==
    /\ \A c \in Connections : connection[c].at = "accepted" =>
           last_authenticated_dj = connection[c].dj \/ connection[c].mixed
    /\ SessionOfItsDj

\* A page's socket is a connection the page has made.
SocketInv ==
    \A p \in Pages : socket[p] # 0 => /\ socket[p] <= made
                                      /\ connection[socket[p]].dj = p

\* The station names the DJ who is live, with one open broadcast of that DJ ...
Right ==
    /\ live_dj \in Djs
    /\ is_streamer_live
    /\ current_streamer = live_dj
    /\ \E i \in DOMAIN broadcasts : /\ getActiveBroadcasts = {i}
                                    /\ broadcasts[i].dj = live_dj

\* ... or nobody, with none.
Clear == /\ ~ is_streamer_live
         /\ current_streamer = NoDj
         /\ getActiveBroadcasts = {}

\* What the handler loaded is still what the station says.
Loaded(h) == /\ h.wasLive = is_streamer_live
             /\ h.streamer = current_streamer

\* The session's djon, so far as it was handled: the station it began with may
\* be any, its flush makes it right.
Connects(h) ==
    /\ h.session = mount /\ h.kind = "djon" /\ h.user = live_dj
    /\ h.at \in {"sent", "begun", "ended"}
    /\ h.at # "sent" => Loaded(h)
    /\ h.at = "ended" => getActiveBroadcasts = {}

\* The session's djoff, so far as it was handled: the station is still right.
Disconnects(h) ==
    /\ h.session = mount /\ h.kind = "djoff"
    /\ Right
    /\ h.at \in {"sent", "begun", "found"}
    /\ h.at # "sent" => Loaded(h)
    /\ h.at = "found" => h.open = getActiveBroadcasts

\* Undisturbed, at most one call is under way, the one of the harbor's phase.
StationInv ==
    ~ disturbed =>
        /\ phase = "free" => handlers = {} /\ Clear
        /\ phase = "connecting" => \/ handlers = {} /\ Right
                                   \/ \E h \in handlers : handlers = {h} /\ Connects(h)
        /\ phase = "live" => handlers = {} /\ Right
        /\ phase = "leaving" => \/ handlers = {} /\ Clear
                                \/ \E h \in handlers : handlers = {h} /\ Disconnects(h)

IInv == /\ TypeInv
        /\ MountInv
        /\ NameInv
        /\ SocketInv /\ OpenIsShown /\ ShownIsConnected
        /\ StationInv

-----------------------------------------------------------------------------
\* What every step but the making of a connection, the opening of a socket and
\* the report of its end does to the connections.
Progress ==
    \A x \in Connections :
        /\ connection'[x].dj = connection[x].dj
        /\ connection[x].mixed => connection'[x].mixed
        /\ connection[x].closing => connection'[x].closing
        /\ connection'[x].at \in Open => connection[x].at \in Open
        /\ connection[x].at \in Open \cup {"gone"} =>
               connection'[x].at \in Open \cup {"gone"}
        /\ connection[x] = NoConnection => connection'[x] = NoConnection

\* The accepted connections and the live ones stay what they are.
Steady ==
    \A x \in Connections :
        connection[x].at \in {"accepted", "live"} \/ connection'[x].at \in {"accepted", "live"}
            => connection'[x].at = connection[x].at

\* Closing a socket.
LEMMA CloseSocketStep ==
  ASSUME connection \in [Connections -> Connection], NEW c \in Connections,
         connection' = CloseSocket(c)
  PROVE  /\ connection' \in [Connections -> Connection]
         /\ Progress /\ Steady
<1> DEFINE n == IF connection[c].at = "connecting" THEN "gone" ELSE connection[c].at
           k == connection[c].closing \/ connection[c].at \in Open
<1>1. connection[c] \in Connection
  OBVIOUS
<1>2. connection' = [connection EXCEPT ![c] = [connection[c] EXCEPT !.at = n, !.closing = k]]
  BY <1>1 DEF CloseSocket
<1>3. /\ connection'[c] = [connection[c] EXCEPT !.at = n, !.closing = k]
      /\ \A x \in Connections \ {c} : connection'[x] = connection[x]
  BY <1>2
<1>4. /\ connection'[c] \in Connection
      /\ connection'[c].dj = connection[c].dj /\ connection'[c].mixed = connection[c].mixed
      /\ connection'[c].at = n /\ connection'[c].closing = k
  BY <1>1, <1>3 DEF Connection, Open
<1>5. connection' \in [Connections -> Connection]
  BY <1>2, <1>3, <1>4
<1>6. ASSUME connection[c] = NoConnection PROVE connection'[c] = NoConnection
  <2>1. n = "none" /\ k = FALSE
    BY <1>6 DEF NoConnection, Open
  <2> HIDE DEF n, k
  <2>2. connection'[c] = [NoConnection EXCEPT !.at = "none", !.closing = FALSE]
    BY <1>3, <1>6, <2>1
  <2> QED BY <2>2 DEF NoConnection
<1>7. Progress
  BY <1>3, <1>4, <1>6 DEF Progress, Open
<1>8. Steady
  BY <1>3, <1>4 DEF Steady
<1> QED BY <1>5, <1>7, <1>8

\* Putting one connection at another place.
LEMMA MoveStep ==
  ASSUME connection \in [Connections -> Connection], NEW c \in Connections,
         NEW n \in Open \cup {"gone"}, connection[c].at \in Open,
         connection' = [connection EXCEPT ![c].at = n]
  PROVE  /\ connection' \in [Connections -> Connection]
         /\ Progress
         /\ connection'[c].at = n
         /\ \A x \in Connections \ {c} : connection'[x] = connection[x]
<1>1. connection[c] \in Connection
  OBVIOUS
<1>2. /\ connection'[c] = [connection[c] EXCEPT !.at = n]
      /\ \A x \in Connections \ {c} : connection'[x] = connection[x]
  OBVIOUS
<1>3. /\ connection'[c] \in Connection
      /\ connection'[c].dj = connection[c].dj /\ connection'[c].mixed = connection[c].mixed
      /\ connection'[c].at = n /\ connection'[c].closing = connection[c].closing
  BY <1>1, <1>2 DEF Connection, Open
<1>4. connection' \in [Connections -> Connection]
  BY <1>2, <1>3
<1>5. connection[c] # NoConnection
  BY DEF NoConnection, Open
<1>6. Progress
  BY <1>2, <1>3, <1>5 DEF Progress, Open
<1> QED BY <1>2, <1>3, <1>4, <1>6

-----------------------------------------------------------------------------
\* A step that leaves the server's rows and calls and the harbor alone leaves
\* the station as right as it was.
LEMMA StationKept ==
  ASSUME StationInv, UNCHANGED <<stationVars, handlers, mount, phase, live_dj, disturbed>>
  PROVE  StationInv'
BY DEF StationInv, stationVars, Right, Clear, Connects, Disconnects, Loaded,
       getActiveBroadcasts

\* A step of the connections alone leaves the pages what they are.
LEMMA PagesKept ==
  ASSUME TypeInv, SocketInv, OpenIsShown, ShownIsConnected, Progress,
         UNCHANGED <<made, pageVars>>
  PROVE  SocketInv' /\ OpenIsShown' /\ ShownIsConnected'
<1>1. \A p \in Pages : socket[p] # 0 => socket[p] \in Connections
  BY LiveSessionAssumption DEF TypeInv, TypeOK, Connections
<1>2. SocketInv'
  BY <1>1 DEF SocketInv, Progress, pageVars
<1>3. OpenIsShown'
  BY DEF OpenIsShown, Progress, pageVars
<1>4. ShownIsConnected'
  BY DEF ShownIsConnected, Progress, pageVars
<1> QED BY <1>2, <1>3, <1>4

\* A step that leaves the harbor and the accepted connections alone.
LEMMA HarborKept ==
  ASSUME TypeInv, MountInv, NameInv, Progress, Steady,
         UNCHANGED <<made, mount, phase, live_dj, last_authenticated_dj>>
  PROVE  MountInv' /\ NameInv'
<1>1. mount # 0 => mount \in Connections
  BY LiveSessionAssumption DEF TypeInv, TypeOK, Connections
<1>2. MountInv'
  BY <1>1 DEF MountInv, Progress, Steady
<1>3. NameInv'
  BY <1>1 DEF NameInv, SessionOfItsDj, Progress, Steady
<1> QED BY <1>2, <1>3

\* A step that changes the connections alone, and of the pages nothing.
LEMMA ConnectionsStep ==
  ASSUME IInv, connection' \in [Connections -> Connection], Progress, Steady,
         faults' \in 0 .. MaxTrouble,
         UNCHANGED <<made, stationVars, handlers, pageVars, harborVars,
                     last_authenticated_dj, disturbed>>,
         is_active' \subseteq Djs, disconnect' \in Disconnect
  PROVE  IInv'
<1>1. TypeInv'
  BY DEF IInv, TypeInv, TypeOK, StationTypeOK, stationVars, pageVars, harborVars, Handler
<1>2. MountInv' /\ NameInv'
  BY HarborKept DEF IInv, harborVars
<1>3. SocketInv' /\ OpenIsShown' /\ ShownIsConnected'
  BY PagesKept DEF IInv
<1>4. StationInv'
  BY StationKept DEF IInv, harborVars
<1> QED BY <1>1, <1>2, <1>3, <1>4 DEF IInv

\* A new connection is nobody's yet, and no page's socket before the step.
LEMMA NewConnectionStep ==
  ASSUME IInv, NEW d \in Djs, NewConnection(d),
         \/ UNCHANGED pageVars
         \/ d \in Pages /\ startStreaming(d, made + 1)
  PROVE  IInv'
<1> DEFINE new == [NoConnection EXCEPT !.dj = d, !.at = "connecting"]
<1>1. /\ made \in Nat /\ made + 1 \in Connections /\ made' = made + 1
      /\ made' \in 0 .. MaxConnections
  BY LiveSessionAssumption DEF IInv, TypeInv, TypeOK, NewConnection, Connections
<1>2. /\ connection' = [connection EXCEPT ![made + 1] = new]
      /\ connection \in [Connections -> Connection]
  BY DEF NewConnection, IInv, TypeInv, TypeOK
<1>3. new \in Connection /\ new.dj = d /\ new.at = "connecting"
  BY DEF Connection, NoConnection
<1> HIDE DEF new
<1>4. /\ connection'[made + 1] = new
      /\ \A x \in Connections : x # made + 1 => connection'[x] = connection[x]
      /\ connection' \in [Connections -> Connection]
  BY <1>1, <1>2, <1>3
<1>5. connection[made + 1] = NoConnection
  BY <1>1 DEF IInv, MountInv
<1>6. connection[made + 1].at = "none"
  BY <1>5 DEF NoConnection
<1>7. UNCHANGED <<serverVars, harborVars, last_authenticated_dj, disconnect, bounds>>
  BY DEF NewConnection
<1>8. mount # 0 => mount \in Connections /\ mount # made + 1
  BY <1>6, LiveSessionAssumption DEF IInv, TypeInv, TypeOK, Connections, MountInv
<1>9. \A p \in Pages : socket[p] # 0 => socket[p] \in Connections /\ socket[p] # made + 1
  BY <1>1, LiveSessionAssumption DEF IInv, TypeInv, TypeOK, Connections, SocketInv
<1>10. TypeInv'
  <2>1. /\ isStreaming' \in [Pages -> BOOLEAN]
        /\ socket' \in [Pages -> 0 .. MaxConnections]
        /\ encoders' \subseteq Connections
        /\ stale' \subseteq Pages
    BY <1>1 DEF IInv, TypeInv, TypeOK, pageVars, startStreaming, Connections
  <2> QED BY <1>1, <1>4, <1>7, <2>1
          DEF IInv, TypeInv, TypeOK, StationTypeOK, serverVars, stationVars, harborVars,
              bounds, Handler
<1>11. MountInv'
  <2>1. \A c \in Connections : c > made' => connection'[c] = NoConnection
    BY <1>1, <1>4 DEF IInv, MountInv, Connections
  <2> QED BY <1>4, <1>7, <1>8, <2>1 DEF IInv, MountInv, harborVars
<1>12. NameInv'
  <2>1. ASSUME NEW c \in Connections, connection'[c].at = "accepted"
        PROVE  last_authenticated_dj' = connection'[c].dj \/ connection'[c].mixed
    <3>1. c # made + 1
      BY <1>3, <1>4, <2>1
    <3> QED BY <1>4, <1>7, <2>1, <3>1 DEF IInv, NameInv
  <2>2. SessionOfItsDj'
    BY <1>4, <1>7, <1>8 DEF IInv, NameInv, SessionOfItsDj, harborVars
  <2> QED BY <2>1, <2>2 DEF NameInv
<1>13. /\ isStreaming' = isStreaming /\ encoders' = encoders
       /\ \A p \in Pages : \/ socket'[p] = socket[p] /\ (p \in stale => p \in stale' \/ p = d)
                           \/ p = d /\ socket'[p] = made + 1
  <2>1. socket \in [Pages -> 0 .. MaxConnections]
    BY DEF IInv, TypeInv, TypeOK
  <2> QED BY <2>1 DEF pageVars, startStreaming
<1>14. SocketInv'
  <2> SUFFICES ASSUME NEW p \in Pages, socket'[p] # 0
               PROVE  socket'[p] <= made' /\ connection'[socket'[p]].dj = p
    BY DEF SocketInv
  <2>1. CASE socket'[p] = socket[p]
    BY <1>1, <1>4, <1>9, <2>1, LiveSessionAssumption
       DEF IInv, SocketInv, TypeInv, TypeOK
  <2>2. CASE p = d /\ socket'[p] = made + 1
    BY <1>1, <1>3, <1>4, <2>2
  <2> QED BY <1>13, <2>1, <2>2
<1>15. OpenIsShown'
  <2> SUFFICES ASSUME NEW p \in Pages, socket'[p] \in Connections \ encoders',
                      connection'[socket'[p]].at \in Open,
                      ~ connection'[socket'[p]].closing
               PROVE  isStreaming'[p] \/ p \in stale'
    BY DEF OpenIsShown
  <2>1. socket'[p] # made + 1
    BY <1>3, <1>4 DEF Open
  <2>2. socket'[p] = socket[p] /\ (p \in stale => p \in stale' \/ p = d)
    BY <1>13, <2>1
  <2>3. CASE UNCHANGED pageVars
    BY <1>4, <2>1, <2>2, <2>3 DEF IInv, OpenIsShown, pageVars
  <2>4. CASE startStreaming(d, made + 1) /\ d \in Pages
    <3>1. p # d
      BY <2>1, <2>4 DEF startStreaming, IInv, TypeInv, TypeOK
    <3> QED BY <1>4, <1>13, <2>1, <2>2, <3>1 DEF IInv, OpenIsShown
  <2> QED BY <2>3, <2>4
<1>16. ShownIsConnected'
  <2> SUFFICES ASSUME NEW p \in Pages, isStreaming'[p]
               PROVE  \E c \in Connections : /\ connection'[c].dj = p
                                             /\ connection'[c].at \in Open \cup {"gone"}
    BY DEF ShownIsConnected
  <2>1. PICK c \in Connections : /\ connection[c].dj = p
                                 /\ connection[c].at \in Open \cup {"gone"}
    BY <1>13 DEF IInv, ShownIsConnected
  <2>2. c # made + 1
    BY <1>6, <2>1 DEF Open
  <2> QED BY <1>4, <2>1, <2>2
<1>17. StationInv'
  BY <1>7, StationKept DEF IInv, serverVars, harborVars, bounds
<1> QED BY <1>10, <1>11, <1>12, <1>14, <1>15, <1>16, <1>17 DEF IInv

\* Whether or not the page gives up its socket, the connections progress.
LEMMA TakesSocketStep ==
  ASSUME IInv, NEW p \in Pages, TakesSocket(p)
  PROVE  connection' \in [Connections -> Connection] /\ Progress /\ Steady
<1>1. connection \in [Connections -> Connection] /\ (socket[p] # 0 => socket[p] \in Connections)
  BY LiveSessionAssumption DEF IInv, TypeInv, TypeOK, Connections
<1>2. CASE connection' = CloseSocket(socket[p]) /\ socket[p] # 0
  BY <1>1, <1>2, CloseSocketStep
<1>3. CASE connection' = connection
  BY <1>1, <1>3 DEF Progress, Steady
<1> QED BY <1>2, <1>3 DEF TakesSocket

\* Stopping hides the page's stream and leaves its socket to the worker or
\* takes it; either way the page claims no open socket.
LEMMA PageStopsStep ==
  ASSUME IInv, NEW p \in Pages,
         \/ PageStops(p)
         \/ \E c \in encoders : EncoderCloses(p, c)
  PROVE  IInv'
<1>1. /\ TakesSocket(p)
      /\ UNCHANGED <<made, serverVars, harborVars,
                     last_authenticated_dj, disconnect, bounds>>
  BY DEF PageStops, EncoderCloses, TakesSocket
<1>2. connection' \in [Connections -> Connection] /\ Progress /\ Steady
  BY <1>1, TakesSocketStep
<1>3. /\ isStreaming \in [Pages -> BOOLEAN] /\ socket \in [Pages -> 0 .. MaxConnections]
      /\ encoders \subseteq Connections
      /\ \A q \in Pages : socket[q] # 0 => socket[q] \in Connections
  BY LiveSessionAssumption DEF IInv, TypeInv, TypeOK, Connections
<1>4. /\ isStreaming' \in [Pages -> BOOLEAN] /\ socket' \in [Pages -> 0 .. MaxConnections]
      /\ encoders' \subseteq Connections /\ stale' = stale
      /\ \A q \in Pages : /\ socket'[q] = socket[q] \/ socket'[q] = 0
                          /\ isStreaming'[q] => isStreaming[q]
                          /\ isStreaming[q] => isStreaming'[q] \/ q = p
                          /\ q = p => socket'[q] = 0 \/ socket'[q] \in encoders'
                                      \/ isStreaming'[q] = isStreaming[q]
      /\ \A c \in encoders : \/ c \in encoders'
                             \/ socket'[p] = 0 /\ connection[c].dj = p
  <2>1. CASE PageStops(p)
    <3>1. socket[p] # 0 => socket[p] \in Connections
      BY <1>3
    <3>2. /\ isStreaming' \in [Pages -> BOOLEAN] /\ stale' = stale /\ isStreaming[p]
          /\ ~ isStreaming'[p]
          /\ \A q \in Pages \ {p} : isStreaming'[q] = isStreaming[q]
      BY <1>3, <2>1 DEF PageStops, stopStreaming
    <3>3. CASE socket[p] # 0 /\ encoders' = encoders \cup {socket[p]} /\ socket' = socket
      <4>1. encoders' \subseteq Connections
        BY <1>3, <3>1, <3>3
      <4> QED BY <1>3, <3>2, <3>3, <4>1
    <3>4. CASE socket' = [socket EXCEPT ![p] = 0] /\ encoders' = encoders
      <4>1. /\ socket' \in [Pages -> 0 .. MaxConnections] /\ socket'[p] = 0
            /\ \A q \in Pages \ {p} : socket'[q] = socket[q]
        BY <1>3, <3>4, LiveSessionAssumption
      <4> QED BY <1>3, <3>2, <3>4, <4>1
    <3> QED BY <2>1, <3>3, <3>4 DEF PageStops, stopStreaming
  <2>2. CASE \E c \in encoders : EncoderCloses(p, c)
    BY <1>3, <2>2, LiveSessionAssumption DEF EncoderCloses, encoderClosed
  <2> QED BY <2>1, <2>2
<1>5. TypeInv'
  BY <1>1, <1>2, <1>4 DEF IInv, TypeInv, TypeOK, StationTypeOK, serverVars, stationVars,
                          harborVars, bounds, Handler
<1>6. MountInv' /\ NameInv'
  BY <1>1, <1>2, HarborKept DEF IInv, harborVars
<1>7. SocketInv'
  BY <1>1, <1>2, <1>3, <1>4 DEF IInv, SocketInv, Progress
<1>8. OpenIsShown'
  <2> SUFFICES ASSUME NEW q \in Pages, socket'[q] \in Connections \ encoders',
                      connection'[socket'[q]].at \in Open,
                      ~ connection'[socket'[q]].closing
               PROVE  isStreaming'[q] \/ q \in stale'
    BY DEF OpenIsShown
  <2>1. socket'[q] # 0 /\ socket'[q] = socket[q]
    BY <1>4, LiveSessionAssumption DEF Connections
  <2>2. connection[socket[q]].at \in Open /\ ~ connection[socket[q]].closing
    BY <1>2, <2>1 DEF Progress
  <2>3. socket[q] \notin encoders
    BY <1>3, <1>4, <2>1 DEF IInv, SocketInv
  <2>4. isStreaming[q] \/ q \in stale
    BY <2>1, <2>2, <2>3 DEF IInv, OpenIsShown
  <2>5. isStreaming[q] => isStreaming'[q]
    BY <1>4, <2>1
  <2> QED BY <1>4, <2>4, <2>5
<1>9. ShownIsConnected'
  BY <1>2, <1>4 DEF IInv, ShownIsConnected, Progress
<1>10. StationInv'
  BY <1>1, StationKept DEF IInv, serverVars, harborVars, bounds
<1> QED BY <1>5, <1>6, <1>7, <1>8, <1>9, <1>10 DEF IInv

\* A client's end or the network's: one socket is closed.
LEMMA ClosesOneStep ==
  ASSUME IInv, NEW c \in Connections, ClientLeaves(c) \/ ConnectionDrops(c)
  PROVE  IInv'
<1>1. connection \in [Connections -> Connection] /\ connection' = CloseSocket(c)
  BY DEF IInv, TypeInv, TypeOK, ClientLeaves, ConnectionDrops
<1>2. connection' \in [Connections -> Connection] /\ Progress /\ Steady
  BY <1>1, CloseSocketStep
<1>3. /\ is_active' \subseteq Djs /\ faults' \in 0 .. MaxTrouble
      /\ disconnect' \in Disconnect
  BY LiveSessionAssumption DEF IInv, TypeInv, TypeOK, StationTypeOK, ClientLeaves,
         ConnectionDrops, Trouble, serverVars, bounds
<1>4. UNCHANGED <<made, stationVars, handlers, pageVars, harborVars,
                  last_authenticated_dj, disturbed>>
  BY DEF ClientLeaves, ConnectionDrops, serverVars, bounds
<1> QED BY <1>2, <1>3, <1>4, ConnectionsStep

\* A step of disconnectStreamer closes a socket at most.
LEMMA DisconnectStep ==
  ASSUME IInv, disconnectStreamer
  PROVE  IInv'
<1>1. /\ connection \in [Connections -> Connection]
      /\ current_streamer \in Djs \cup {NoDj} /\ live_dj \in Djs \cup {NoDj}
      /\ is_active \subseteq Djs /\ faults \in 0 .. MaxTrouble
      /\ mount # 0 => mount \in Connections
  BY LiveSessionAssumption DEF IInv, TypeInv, TypeOK, StationTypeOK, Connections
<1>2. connection' \in [Connections -> Connection] /\ Progress /\ Steady
  <2>1. CASE mount # 0 /\ connection' = CloseSocket(mount)
    BY <1>1, <2>1, CloseSocketStep
  <2>2. CASE connection' = connection
    BY <1>1, <2>2 DEF Progress, Steady
  <2> QED BY <2>1, <2>2 DEF disconnectStreamer, DisconnectReads, DisconnectFlushes,
                            DisconnectStops, DisconnectFails, clientVars
<1>3. disconnect' \in Disconnect
  <2>2. CASE DisconnectReads
    BY <1>1, <2>2 DEF DisconnectReads, Disconnect
  <2>3. /\ NoDisconnect \in Disconnect
        /\ [NoDisconnect EXCEPT !.at = "flushed"] \in Disconnect
    BY DEF NoDisconnect, Disconnect
  <2>4. CASE DisconnectFlushes \/ DisconnectStops \/ DisconnectFails
    BY <2>3, <2>4 DEF DisconnectFlushes, DisconnectStops, DisconnectFails
  <2> QED BY <2>2, <2>4 DEF disconnectStreamer
<1>4. /\ is_active' \subseteq Djs /\ faults' \in 0 .. MaxTrouble
      /\ UNCHANGED <<made, stationVars, handlers, pageVars, harborVars,
                     last_authenticated_dj, disturbed>>
  BY <1>1 DEF disconnectStreamer, DisconnectReads, DisconnectFlushes, DisconnectStops,
              DisconnectFails, serverVars, clientVars, bounds
<1> QED BY <1>2, <1>3, <1>4, ConnectionsStep

\* The socket's page, if it has one, shows the stream from now on.
LEMMA SocketOpensStep ==
  ASSUME IInv, NEW c \in Connections, SocketOpens(c)
  PROVE  IInv'
<1>1. /\ connection \in [Connections -> Connection] /\ connection[c] \in Connection
      /\ connection[c].at = "connecting"
      /\ connection' = [connection EXCEPT ![c].at = "hello"]
      /\ UNCHANGED <<made, serverVars, harborVars,
                     last_authenticated_dj, disconnect, bounds>>
  BY DEF SocketOpens, IInv, TypeInv, TypeOK
<1>2. /\ connection'[c] = [connection[c] EXCEPT !.at = "hello"]
      /\ \A x \in Connections \ {c} : connection'[x] = connection[x]
  BY <1>1
<1>3. /\ connection'[c] \in Connection
      /\ connection'[c].dj = connection[c].dj /\ connection'[c].mixed = connection[c].mixed
      /\ connection'[c].at = "hello" /\ connection'[c].closing = connection[c].closing
  BY <1>1, <1>2 DEF Connection, Open
<1>4. connection' \in [Connections -> Connection]
  BY <1>1, <1>2, <1>3
<1>5. /\ socket' = socket /\ encoders' = encoders /\ stale' = stale
      /\ isStreaming' \in [Pages -> BOOLEAN]
      /\ \A p \in Pages : isStreaming'[p] = IF p = connection[c].dj THEN TRUE ELSE isStreaming[p]
  BY DEF SocketOpens, onOpen, pageVars, IInv, TypeInv, TypeOK
<1>6. \A p \in Pages : socket[p] # 0 => socket[p] \in Connections
  BY LiveSessionAssumption DEF IInv, TypeInv, TypeOK, Connections
<1>7. mount # 0 => mount \in Connections /\ mount # c
  BY <1>1, LiveSessionAssumption DEF IInv, TypeInv, TypeOK, Connections, MountInv
<1>8. TypeInv'
  BY <1>1, <1>4, <1>5 DEF IInv, TypeInv, TypeOK, StationTypeOK, serverVars, stationVars,
                          harborVars, bounds, Handler
<1>9. MountInv'
  <2>1. connection[c] # NoConnection
    BY <1>1 DEF NoConnection
  <2> QED BY <1>1, <1>2, <1>7, <2>1 DEF IInv, MountInv, harborVars
<1>10. NameInv'
  BY <1>1, <1>2, <1>3, <1>7 DEF IInv, NameInv, SessionOfItsDj, harborVars
<1>11. SocketInv'
  BY <1>1, <1>2, <1>3, <1>5, <1>6 DEF IInv, SocketInv
<1>12. OpenIsShown'
  <2> SUFFICES ASSUME NEW p \in Pages, socket[p] \in Connections \ encoders,
                      connection'[socket[p]].at \in Open,
                      ~ connection'[socket[p]].closing
               PROVE  isStreaming'[p] \/ p \in stale
    BY <1>5 DEF OpenIsShown
  <2>1. CASE socket[p] = c
    <3>1. socket[p] # 0
      BY LiveSessionAssumption DEF Connections
    <3> QED BY <1>5, <2>1, <3>1 DEF IInv, SocketInv
  <2>2. CASE socket[p] # c
    BY <1>2, <1>5, <2>2 DEF IInv, OpenIsShown
  <2> QED BY <2>1, <2>2
<1>13. ShownIsConnected'
  <2> SUFFICES ASSUME NEW p \in Pages, isStreaming'[p]
               PROVE  \E x \in Connections : /\ connection'[x].dj = p
                                             /\ connection'[x].at \in Open \cup {"gone"}
    BY DEF ShownIsConnected
  <2>1. CASE p = connection[c].dj
    BY <1>3, <2>1 DEF Open
  <2>2. CASE p # connection[c].dj
    <3>1. PICK x \in Connections : /\ connection[x].dj = p
                                   /\ connection[x].at \in Open \cup {"gone"}
      BY <1>5, <2>2 DEF IInv, ShownIsConnected
    <3> QED BY <1>2, <2>2, <3>1
  <2> QED BY <2>1, <2>2
<1>14. StationInv'
  BY <1>1, StationKept DEF IInv, serverVars, harborVars, bounds
<1> QED BY <1>8, <1>9, <1>10, <1>11, <1>12, <1>13, <1>14 DEF IInv

\* The page of a connection that has ended no longer shows its stream; if it
\* has an open socket besides, it is stale.
LEMMA SocketClosesStep ==
  ASSUME IInv, NEW c \in Connections, SocketCloses(c)
  PROVE  IInv'
<1>1. /\ connection \in [Connections -> Connection] /\ connection[c] \in Connection
      /\ connection[c].at = "gone"
      /\ connection' = [connection EXCEPT ![c] = Closed(connection[c].dj)]
      /\ UNCHANGED <<made, serverVars, harborVars,
                     last_authenticated_dj, disconnect, bounds>>
  BY DEF SocketCloses, IInv, TypeInv, TypeOK
<1>2. /\ connection'[c] = Closed(connection[c].dj)
      /\ \A x \in Connections \ {c} : connection'[x] = connection[x]
  BY <1>1
<1>3. /\ connection'[c] \in Connection
      /\ connection'[c].dj = connection[c].dj /\ connection'[c].at = "closed"
  BY <1>1, <1>2 DEF Connection, Closed, NoConnection
<1>4. connection' \in [Connections -> Connection]
  BY <1>1, <1>2, <1>3
<1>5. /\ socket' = socket /\ encoders' = encoders
      /\ isStreaming' \in [Pages -> BOOLEAN] /\ stale \subseteq stale' /\ stale' \subseteq Pages
      /\ \A p \in Pages : isStreaming'[p] = IF p = connection[c].dj THEN FALSE ELSE isStreaming[p]
      /\ \A p \in Pages : (/\ p = connection[c].dj /\ socket[p] # 0 /\ socket[p] # c
                           /\ connection[socket[p]].at \in Open) => p \in stale'
  BY DEF SocketCloses, onClose, pageVars, IInv, TypeInv, TypeOK
<1>6. \A p \in Pages : socket[p] # 0 => socket[p] \in Connections
  BY LiveSessionAssumption DEF IInv, TypeInv, TypeOK, Connections
<1>7. mount # 0 => mount \in Connections /\ mount # c
  BY <1>1, LiveSessionAssumption DEF IInv, TypeInv, TypeOK, Connections, MountInv
<1>8. TypeInv'
  BY <1>1, <1>4, <1>5 DEF IInv, TypeInv, TypeOK, StationTypeOK, serverVars, stationVars,
                          harborVars, bounds, Handler
<1>9. MountInv'
  <2>1. connection[c] # NoConnection
    BY <1>1 DEF NoConnection
  <2> QED BY <1>1, <1>2, <1>7, <2>1 DEF IInv, MountInv, harborVars
<1>10. NameInv'
  BY <1>1, <1>2, <1>3, <1>7 DEF IInv, NameInv, SessionOfItsDj, harborVars
<1>11. SocketInv'
  BY <1>1, <1>2, <1>3, <1>5, <1>6 DEF IInv, SocketInv
<1>12. OpenIsShown'
  <2> SUFFICES ASSUME NEW p \in Pages, socket[p] \in Connections \ encoders,
                      connection'[socket[p]].at \in Open,
                      ~ connection'[socket[p]].closing
               PROVE  isStreaming'[p] \/ p \in stale'
    BY <1>5 DEF OpenIsShown
  <2>1. socket[p] # 0 /\ socket[p] # c
    BY <1>3, LiveSessionAssumption DEF Connections, Open
  <2>2. connection[socket[p]].at \in Open /\ ~ connection[socket[p]].closing
    BY <1>2, <2>1
  <2>3. CASE p = connection[c].dj
    BY <1>5, <2>1, <2>2, <2>3
  <2>4. CASE p # connection[c].dj
    BY <1>5, <2>2, <2>4 DEF IInv, OpenIsShown
  <2> QED BY <2>3, <2>4
<1>13. ShownIsConnected'
  <2> SUFFICES ASSUME NEW p \in Pages, isStreaming'[p]
               PROVE  \E x \in Connections : /\ connection'[x].dj = p
                                             /\ connection'[x].at \in Open \cup {"gone"}
    BY DEF ShownIsConnected
  <2>1. p # connection[c].dj
    BY <1>5
  <2>2. PICK x \in Connections : /\ connection[x].dj = p
                                 /\ connection[x].at \in Open \cup {"gone"}
    BY <1>5, <2>1 DEF IInv, ShownIsConnected
  <2> QED BY <1>2, <2>1, <2>2
<1>14. StationInv'
  BY <1>1, StationKept DEF IInv, serverVars, harborVars, bounds
<1> QED BY <1>8, <1>9, <1>10, <1>11, <1>12, <1>13, <1>14 DEF IInv

\* dj_auth notes the name it has accepted, and every other DJ's connection that
\* was accepted before is mixed from now on.
LEMMA DjAuthStep ==
  ASSUME IInv, NEW c \in Connections, dj_auth(c)
  PROVE  IInv'
<1> DEFINE d == connection[c].dj
           ok == Authenticates(d)
<1>1. /\ connection \in [Connections -> Connection]
      /\ \A x \in Connections : connection[x] \in Connection
      /\ connection[c].at = "hello" /\ d \in Djs \cup {NoDj}
      /\ last_authenticated_dj' = IF ok THEN d ELSE last_authenticated_dj
      /\ UNCHANGED <<made, serverVars, pageVars, harborVars, disconnect, bounds>>
  BY DEF dj_auth, Authenticated, IInv, TypeInv, TypeOK, Connection
<1>2. connection'[c] = [connection[c] EXCEPT !.at = IF ok THEN "accepted" ELSE "gone"]
  BY <1>1 DEF dj_auth
<1>3. \A x \in Connections \ {c} : connection'[x] =
          [connection[x] EXCEPT !.mixed = connection[x].mixed \/ (/\ ok
                                              /\ connection[x].at = "accepted"
                                              /\ connection[x].dj # d)]
  BY <1>1 DEF dj_auth
<1> HIDE DEF ok, d
<1>4. /\ connection'[c] \in Connection
      /\ connection'[c].dj = connection[c].dj /\ connection'[c].mixed = connection[c].mixed
      /\ connection'[c].at = (IF ok THEN "accepted" ELSE "gone")
      /\ connection'[c].closing = connection[c].closing
  BY <1>1, <1>2 DEF Connection, Open
<1>5. ASSUME NEW x \in Connections \ {c}
      PROVE  /\ connection'[x] \in Connection
             /\ connection'[x].dj = connection[x].dj /\ connection'[x].at = connection[x].at
             /\ connection'[x].closing = connection[x].closing
             /\ connection[x].mixed => connection'[x].mixed
             /\ ok /\ connection[x].at = "accepted" /\ connection[x].dj # d
                    => connection'[x].mixed
             /\ connection[x] = NoConnection => connection'[x] = NoConnection
  <2> DEFINE m == connection[x].mixed \/ (ok /\ connection[x].at = "accepted"
                                              /\ connection[x].dj # d)
  <2>1. connection'[x] = [connection[x] EXCEPT !.mixed = m] /\ connection[x] \in Connection
    BY <1>1, <1>3
  <2>2. connection[x] = NoConnection => m = FALSE
    BY DEF NoConnection
  <2>3. m \in BOOLEAN
    OBVIOUS
  <2>4. (connection[x].mixed => m)
        /\ (ok /\ connection[x].at = "accepted" /\ connection[x].dj # d => m)
    OBVIOUS
  <2> HIDE DEF m
  <2>5. ASSUME connection[x] = NoConnection PROVE connection'[x] = NoConnection
    <3>1. connection'[x] = [NoConnection EXCEPT !.mixed = FALSE]
      BY <2>1, <2>2, <2>5
    <3> QED BY <3>1 DEF NoConnection
  <2> QED BY <2>1, <2>3, <2>4, <2>5 DEF Connection
<1>6. connection' \in [Connections -> Connection]
  <2>1. DOMAIN connection' = Connections
    BY DEF dj_auth
  <2>2. \A x \in Connections : connection'[x] \in Connection
    BY <1>4, <1>5
  <2>3. connection' = [x \in Connections |-> connection'[x]]
    BY DEF dj_auth
  <2> QED BY <2>2, <2>3
<1>7. Progress
  <2>1. connection[c] # NoConnection
    BY <1>1 DEF NoConnection
  <2> QED BY <1>1, <1>4, <1>5, <2>1 DEF Progress, Open
<1>8. TypeInv'
  <2>1. last_authenticated_dj' \in Djs \cup {NoDj}
    BY <1>1 DEF IInv, TypeInv, TypeOK
  <2> QED BY <1>1, <1>6, <2>1 DEF IInv, TypeInv, TypeOK, StationTypeOK, serverVars,
                              stationVars, pageVars, harborVars, bounds, Handler
<1>9. mount # 0 => mount \in Connections /\ mount # c
  BY <1>1, LiveSessionAssumption DEF IInv, TypeInv, TypeOK, Connections, MountInv
<1>10. MountInv'
  <2>1. \A x \in Connections : x > made' => connection'[x] = NoConnection
    BY <1>1, <1>7 DEF IInv, MountInv, Progress
  <2> QED BY <1>1, <1>5, <1>9, <2>1 DEF IInv, MountInv, harborVars
<1>11. NameInv'
  <2>1. ASSUME NEW x \in Connections, connection'[x].at = "accepted"
        PROVE  last_authenticated_dj' = connection'[x].dj \/ connection'[x].mixed
    <3>1. CASE x = c
      BY <1>1, <1>4, <2>1, <3>1 DEF d
    <3>2. CASE x # c
      BY <1>1, <1>5, <2>1, <3>2 DEF IInv, NameInv
    <3> QED BY <3>1, <3>2
  <2>2. SessionOfItsDj'
    BY <1>1, <1>5, <1>9 DEF IInv, NameInv, SessionOfItsDj, harborVars
  <2> QED BY <2>1, <2>2 DEF NameInv
<1>12. SocketInv' /\ OpenIsShown' /\ ShownIsConnected'
  BY <1>1, <1>7, PagesKept DEF IInv
<1>13. StationInv'
  BY <1>1, StationKept DEF IInv, serverVars, harborVars, bounds
<1> QED BY <1>8, <1>10, <1>11, <1>12, <1>13 DEF IInv

\* A refused connection held no mount.
LEMMA RefusedStep ==
  ASSUME IInv, NEW c \in Connections, Refused(c)
  PROVE  IInv'
<1>1. /\ connection \in [Connections -> Connection]
      /\ connection[c].at \in {"hello", "accepted"} /\ connection[c].at \in Open
      /\ connection' = [connection EXCEPT ![c].at = "gone"]
      /\ UNCHANGED <<made, serverVars, pageVars, harborVars,
                     last_authenticated_dj, disconnect, bounds>>
  BY DEF Refused, IInv, TypeInv, TypeOK, Open
<1>2. /\ connection' \in [Connections -> Connection] /\ Progress
      /\ connection'[c].at = "gone"
      /\ \A x \in Connections \ {c} : connection'[x] = connection[x]
  BY <1>1, MoveStep
<1>3. TypeInv'
  BY <1>1, <1>2 DEF IInv, TypeInv, TypeOK, StationTypeOK, serverVars, stationVars,
                    pageVars, harborVars, bounds, Handler
<1>4. mount # 0 => mount \in Connections /\ mount # c
  BY <1>1, LiveSessionAssumption DEF IInv, TypeInv, TypeOK, Connections, MountInv
<1>5. MountInv'
  <2>1. \A x \in Connections : x > made' => connection'[x] = NoConnection
    BY <1>1, <1>2 DEF IInv, MountInv, Progress
  <2> QED BY <1>1, <1>2, <1>4, <2>1 DEF IInv, MountInv, harborVars
<1>6. NameInv'
  BY <1>1, <1>2, <1>4 DEF IInv, NameInv, SessionOfItsDj, harborVars
<1>7. SocketInv' /\ OpenIsShown' /\ ShownIsConnected'
  BY <1>1, <1>2, PagesKept DEF IInv
<1>8. StationInv'
  BY <1>1, StationKept DEF IInv, serverVars, harborVars, bounds
<1> QED BY <1>3, <1>5, <1>6, <1>7, <1>8 DEF IInv

-----------------------------------------------------------------------------
\* A call that sets out is typed.
LEMMA CallType ==
  ASSUME NEW c \in Connections, NEW k \in {"djon", "djoff"}, NEW u \in Djs \cup {NoDj}
  PROVE  /\ Call(c, k, u) \in Handler
         /\ Call(c, k, u).session = c /\ Call(c, k, u).kind = k /\ Call(c, k, u).user = u
         /\ Call(c, k, u).at = "sent" /\ Call(c, k, u).open = {}
BY DEF Call, Handler

\* The calls' types, from the types of their parts.
LEMMA HandlersTyped ==
  ASSUME handlers \subseteq Handler, broadcasts \in Seq(Broadcast),
         is_streamer_live \in BOOLEAN, current_streamer \in Djs \cup {NoDj},
         is_active \subseteq Djs, \A h \in handlers : h.open \subseteq DOMAIN broadcasts
  PROVE  StationTypeOK
BY DEF StationTypeOK, Handler

\* A session begins: its djon is the one call under way, or the step was
\* disturbed before and stays so.
LEMMA LiveConnectedStep ==
  ASSUME IInv, NEW c \in Connections, live_connected(c)
  PROVE  IInv'
<1> PICK h : h = Call(c, "djon", last_authenticated_dj)
  OBVIOUS
<1>1. /\ connection \in [Connections -> Connection]
      /\ connection[c].at = "accepted" /\ connection[c].at \in Open /\ "live" \in Open
      /\ connection' = [connection EXCEPT ![c].at = "live"]
      /\ mount = 0 /\ phase = "free" /\ last_authenticated_dj \in Djs \cup {NoDj}
      /\ UNCHANGED <<made, stationVars, is_active, pageVars,
                     last_authenticated_dj, disconnect, faults>>
  BY DEF live_connected, IInv, TypeInv, TypeOK, Open, MountInv
<1>2. /\ mount' = c /\ phase' = "connecting" /\ live_dj' = last_authenticated_dj
      /\ handlers' = handlers \cup {h}
      /\ disturbed' = (disturbed /\ handlers # {})
  BY DEF live_connected
<1>3. /\ connection' \in [Connections -> Connection] /\ Progress
      /\ connection'[c].at = "live"
      /\ \A x \in Connections \ {c} : connection'[x] = connection[x]
  BY <1>1, MoveStep
<1>4. /\ h \in Handler /\ h.session = c /\ h.kind = "djon" /\ h.user = last_authenticated_dj
      /\ h.at = "sent" /\ h.open = {}
  BY <1>1, CallType
<1>5. c # 0 /\ c \in 0 .. MaxConnections
  BY LiveSessionAssumption DEF Connections
<1>6. TypeInv'
  <2>1. handlers' \subseteq Handler /\ \A x \in handlers' : x.open \subseteq DOMAIN broadcasts'
    BY <1>1, <1>2, <1>4 DEF IInv, TypeInv, TypeOK, StationTypeOK, stationVars
  <2>2. StationTypeOK'
    BY <1>1, <2>1, HandlersTyped
       DEF IInv, TypeInv, TypeOK, StationTypeOK, stationVars, Handler
  <2>3. disturbed' \in BOOLEAN
    BY <1>2 DEF IInv, TypeInv, TypeOK
  <2> QED BY <1>1, <1>2, <1>3, <1>5, <2>1, <2>2, <2>3 DEF IInv, TypeInv, TypeOK, pageVars
<1>7. MountInv'
  <2>1. \A x \in Connections : x > made' => connection'[x] = NoConnection
    BY <1>1, <1>3 DEF IInv, MountInv, Progress
  <2> QED BY <1>2, <1>3, <1>5, <2>1 DEF MountInv
<1>8. NameInv'
  <2>1. last_authenticated_dj = connection[c].dj \/ connection[c].mixed
    BY <1>1 DEF IInv, NameInv
  <2>2. SessionOfItsDj'
    BY <1>2, <1>3, <2>1 DEF SessionOfItsDj, Progress
  <2>3. \A x \in Connections : connection'[x].at = "accepted" =>
           last_authenticated_dj' = connection'[x].dj \/ connection'[x].mixed
    BY <1>1, <1>3 DEF IInv, NameInv
  <2> QED BY <2>2, <2>3 DEF NameInv
<1>9. SocketInv' /\ OpenIsShown' /\ ShownIsConnected'
  BY <1>1, <1>3, PagesKept DEF IInv
<1>10. StationInv'
  <2> SUFFICES ASSUME ~ disturbed'
               PROVE  \E x \in handlers' : handlers' = {x} /\ Connects(x)'
    BY <1>2 DEF StationInv
  <2>1. handlers = {}
    BY <1>1, <1>2 DEF IInv, StationInv
  <2>2. Connects(h)'
    BY <1>2, <1>4 DEF Connects
  <2> QED BY <1>2, <2>1, <2>2
<1> QED BY <1>6, <1>7, <1>8, <1>9, <1>10 DEF IInv

\* The live session ends: its djoff is the one call under way.
LEMMA LiveDisconnectedStep ==
  ASSUME IInv, live_disconnected
  PROVE  IInv'
<1> PICK h : h = Call(mount, "djoff", live_dj)
  OBVIOUS
<1>1. /\ phase = "live" /\ phase' = "leaving"
      /\ handlers' = handlers \cup {h}
      /\ UNCHANGED <<stationVars, is_active, pageVars, clientVars, mount, live_dj,
                     last_authenticated_dj, disconnect, bounds>>
  BY DEF live_disconnected
<1>2. mount # 0 /\ mount \in Connections /\ live_dj \in Djs \cup {NoDj}
  BY <1>1, LiveSessionAssumption DEF IInv, TypeInv, TypeOK, Connections, MountInv
<1>3. /\ h \in Handler /\ h.session = mount /\ h.kind = "djoff" /\ h.user = live_dj
      /\ h.at = "sent" /\ h.open = {}
  BY <1>2, CallType
<1>4. TypeInv'
  <2>1. handlers' \subseteq Handler /\ \A x \in handlers' : x.open \subseteq DOMAIN broadcasts'
    BY <1>1, <1>3 DEF IInv, TypeInv, TypeOK, StationTypeOK, stationVars
  <2>2. StationTypeOK'
    BY <1>1, <2>1, HandlersTyped
       DEF IInv, TypeInv, TypeOK, StationTypeOK, stationVars, Handler
  <2> QED BY <1>1, <2>1, <2>2 DEF IInv, TypeInv, TypeOK, pageVars, clientVars, bounds
<1>5. MountInv' /\ NameInv'
  BY <1>1, <1>2 DEF IInv, MountInv, NameInv, SessionOfItsDj, clientVars
<1>6. SocketInv' /\ OpenIsShown' /\ ShownIsConnected'
  BY <1>1 DEF IInv, SocketInv, OpenIsShown, ShownIsConnected, clientVars, pageVars
<1>7. StationInv'
  <2> SUFFICES ASSUME ~ disturbed'
               PROVE  \E x \in handlers' : handlers' = {x} /\ Disconnects(x)'
    BY <1>1 DEF StationInv
  <2>1. handlers = {} /\ Right
    BY <1>1 DEF IInv, StationInv, bounds
  <2>2. Right'
    BY <1>1, <2>1 DEF Right, getActiveBroadcasts, stationVars
  <2>3. Disconnects(h)'
    BY <1>1, <1>3, <2>2 DEF Disconnects
  <2> QED BY <1>1, <2>1, <2>3
<1> QED BY <1>4, <1>5, <1>6, <1>7 DEF IInv

\* Whether answered or given up, a call lets the harbor's phase go on.
LEMMA PhaseGoesOn ==
  ASSUME IInv, djon_returns \/ djoff_returns, disturbed' \in BOOLEAN,
         faults' \in 0 .. MaxTrouble,
         UNCHANGED <<serverVars, pageVars, last_authenticated_dj, disconnect>>
  PROVE  /\ TypeInv' /\ MountInv' /\ NameInv'
         /\ SocketInv' /\ OpenIsShown' /\ ShownIsConnected'
<1>1. mount # 0 /\ mount \in Connections /\ connection[mount].at = "live"
  BY LiveSessionAssumption
     DEF IInv, TypeInv, TypeOK, Connections, MountInv, djon_returns, djoff_returns
<1>2. connection \in [Connections -> Connection]
  BY DEF IInv, TypeInv, TypeOK
<1>3. /\ connection' \in [Connections -> Connection] /\ Progress
      /\ \/ connection' = connection /\ mount' = mount /\ phase' = "live"
            /\ live_dj' = live_dj
         \/ /\ mount' = 0 /\ phase' = "free" /\ live_dj' = NoDj
            /\ connection'[mount].at = "gone"
            /\ \A x \in Connections \ {mount} : connection'[x] = connection[x]
  <2>1. CASE djon_returns
    BY <1>2, <2>1 DEF djon_returns, Progress, clientVars
  <2>2. CASE djoff_returns
    <3>1. connection' = [connection EXCEPT ![mount].at = "gone"] /\ connection[mount].at \in Open
      BY <1>1, <2>2 DEF djoff_returns, Open
    <3>2. /\ connection' \in [Connections -> Connection] /\ Progress
          /\ connection'[mount].at = "gone"
          /\ \A x \in Connections \ {mount} : connection'[x] = connection[x]
      BY <1>1, <1>2, <3>1, MoveStep
    <3> QED BY <2>2, <3>2 DEF djoff_returns
  <2> QED BY <2>1, <2>2
<1>4. made' = made
  BY DEF djon_returns, djoff_returns, clientVars
<1>5. TypeInv'
  <2>1. mount' \in 0 .. MaxConnections
    BY <1>1, <1>3, LiveSessionAssumption DEF Connections
  <2> QED BY <1>3, <1>4, <2>1 DEF IInv, TypeInv, TypeOK, StationTypeOK, serverVars,
                                  stationVars, pageVars, Handler
<1>6. MountInv'
  <2>1. \A x \in Connections : x > made' => connection'[x] = NoConnection
    BY <1>3, <1>4 DEF IInv, MountInv, Progress
  <2> QED BY <1>1, <1>3, <2>1 DEF MountInv
<1>7. NameInv'
  BY <1>1, <1>3 DEF IInv, NameInv, SessionOfItsDj
<1>8. SocketInv' /\ OpenIsShown' /\ ShownIsConnected'
  BY <1>3, <1>4, PagesKept DEF IInv
<1> QED BY <1>5, <1>6, <1>7, <1>8

\* A call that was answered leaves the station right: it was the only one.
LEMMA CallReturnsStep ==
  ASSUME IInv, CallReturns
  PROVE  IInv'
<1>1. /\ djon_returns \/ djoff_returns
      /\ UNCHANGED <<serverVars, pageVars, last_authenticated_dj, disconnect, bounds>>
      /\ \A h \in handlers : h.session = mount => h.kind \notin {"djon", "djoff"}
  BY DEF CallReturns, Pending
<1>2. disturbed' \in BOOLEAN /\ faults' \in 0 .. MaxTrouble
  BY <1>1 DEF IInv, TypeInv, TypeOK, bounds
<1>3. StationInv'
  <2> SUFFICES ASSUME ~ disturbed'
               PROVE  /\ phase' = "live" => handlers' = {} /\ Right'
                      /\ phase' = "free" => handlers' = {} /\ Clear'
                      /\ phase' \in {"live", "free"}
    BY DEF StationInv
  <2>1. ~ disturbed
    BY <1>1 DEF bounds
  <2>2. CASE djon_returns
    <3>1. handlers = {} /\ Right
      BY <1>1, <2>1, <2>2 DEF IInv, StationInv, Connects, djon_returns
    <3>2. Right'
      BY <1>1, <2>2, <3>1
         DEF Right, djon_returns, serverVars, stationVars, getActiveBroadcasts
    <3> QED BY <1>1, <2>2, <3>1, <3>2 DEF djon_returns, serverVars
  <2>3. CASE djoff_returns
    <3>1. handlers = {} /\ Clear
      BY <1>1, <2>1, <2>3 DEF IInv, StationInv, Disconnects, djoff_returns
    <3>2. Clear'
      BY <1>1, <3>1 DEF Clear, serverVars, stationVars, getActiveBroadcasts
    <3> QED BY <1>1, <2>3, <3>1, <3>2 DEF djoff_returns, serverVars
  <2> QED BY <1>1, <2>2, <2>3
<1> QED BY <1>1, <1>2, <1>3, PhaseGoesOn DEF IInv

\* A call that was given up disturbs the station.
LEMMA CallGivenUpStep ==
  ASSUME IInv, CallGivenUp
  PROVE  IInv'
<1>1. /\ djon_returns \/ djoff_returns
      /\ UNCHANGED <<serverVars, pageVars, last_authenticated_dj, disconnect>>
      /\ disturbed' = TRUE /\ faults' \in 0 .. MaxTrouble
  BY LiveSessionAssumption DEF CallGivenUp, Trouble, IInv, TypeInv, TypeOK
<1>2. StationInv'
  BY <1>1 DEF StationInv
<1> QED BY <1>1, <1>2, PhaseGoesOn DEF IInv

\* So does one that was lost, which changes nothing else.
LEMMA CallLostStep ==
  ASSUME IInv, NEW h \in handlers, CallLost(h)
  PROVE  IInv'
<1>1. /\ handlers' \subseteq handlers /\ disturbed' = TRUE /\ faults' \in 0 .. MaxTrouble
      /\ UNCHANGED <<stationVars, is_active, pageVars, clientVars, harborVars,
                     last_authenticated_dj, disconnect>>
  BY LiveSessionAssumption DEF CallLost, Answered, Trouble, IInv, TypeInv, TypeOK
<1>2. TypeInv'
  BY <1>1 DEF IInv, TypeInv, TypeOK, StationTypeOK, stationVars, pageVars, clientVars,
              harborVars, Handler
<1>3. MountInv' /\ NameInv' /\ SocketInv' /\ OpenIsShown' /\ ShownIsConnected'
  BY <1>1 DEF IInv, MountInv, NameInv, SessionOfItsDj, SocketInv, OpenIsShown,
              ShownIsConnected, pageVars, clientVars, harborVars
<1>4. StationInv'
  BY <1>1 DEF StationInv
<1> QED BY <1>2, <1>3, <1>4 DEF IInv

\* A restart ends every connection, and disturbs the station.
LEMMA LiquidsoapRestartsStep ==
  ASSUME IInv, LiquidsoapRestarts
  PROVE  IInv'
<1>1. /\ mount' = 0 /\ phase' = "free" /\ live_dj' = NoDj /\ last_authenticated_dj' = NoDj
      /\ disturbed' = TRUE /\ faults' \in 0 .. MaxTrouble
      /\ UNCHANGED <<made, serverVars, pageVars, disconnect>>
  BY LiveSessionAssumption DEF LiquidsoapRestarts, Trouble, IInv, TypeInv, TypeOK
<1>2. connection \in [Connections -> Connection]
  BY DEF IInv, TypeInv, TypeOK
<1>3. ASSUME NEW x \in Connections
      PROVE  /\ connection'[x] \in Connection
             /\ connection'[x].dj = connection[x].dj
             /\ connection'[x].mixed = connection[x].mixed
             /\ connection'[x].closing = connection[x].closing
             /\ connection'[x].at = IF connection[x].at \in Open \cup {"connecting"}
                                    THEN "gone" ELSE connection[x].at
             /\ connection[x] = NoConnection => connection'[x] = NoConnection
  <2>1. connection[x] \in Connection
    BY <1>2
  <2>2. CASE connection[x].at \in Open \cup {"connecting"}
    <3>1. connection'[x] = [connection[x] EXCEPT !.at = "gone"]
      BY <2>2 DEF LiquidsoapRestarts
    <3>2. connection[x] # NoConnection
      BY <2>2 DEF NoConnection, Open
    <3> QED BY <2>1, <2>2, <3>1, <3>2 DEF Connection, Open
  <2>3. CASE connection[x].at \notin Open \cup {"connecting"}
    <3>1. connection'[x] = connection[x]
      BY <2>3 DEF LiquidsoapRestarts
    <3> QED BY <2>1, <2>3, <3>1
  <2> QED BY <2>2, <2>3
<1>4. connection' \in [Connections -> Connection]
  <2>1. connection' = [x \in Connections |-> connection'[x]]
    BY DEF LiquidsoapRestarts
  <2> QED BY <1>3, <2>1
<1>5. Progress
  BY <1>3 DEF Progress, Open
<1>6. TypeInv'
  BY <1>1, <1>4, LiveSessionAssumption
     DEF IInv, TypeInv, TypeOK, StationTypeOK, serverVars, stationVars, pageVars, Handler
<1>7. MountInv'
  BY <1>1, <1>3 DEF IInv, MountInv
<1>8. NameInv'
  <2>1. \A x \in Connections : connection'[x].at # "accepted"
    BY <1>3 DEF Open
  <2> QED BY <1>1, <2>1 DEF NameInv, SessionOfItsDj
<1>9. SocketInv' /\ OpenIsShown' /\ ShownIsConnected'
  BY <1>1, <1>5, PagesKept DEF IInv
<1>10. StationInv'
  BY <1>1 DEF StationInv
<1> QED BY <1>6, <1>7, <1>8, <1>9, <1>10 DEF IInv

\* A streamer may log in again.
LEMMA ReactivatedStep ==
  ASSUME IInv, NEW d \in Djs, Reactivated(d)
  PROVE  IInv'
<1>1. /\ is_active' \subseteq Djs
      /\ UNCHANGED <<stationVars, handlers, pageVars, clientVars, harborVars,
                     last_authenticated_dj, disconnect, bounds>>
  BY DEF Reactivated, IInv, TypeInv, TypeOK, StationTypeOK
<1>2. connection' \in [Connections -> Connection] /\ Progress /\ Steady
  BY <1>1 DEF IInv, TypeInv, TypeOK, Progress, Steady, clientVars
<1>3. /\ faults' \in 0 .. MaxTrouble /\ disconnect' \in Disconnect
      /\ made' = made /\ disturbed' = disturbed
  BY <1>1 DEF IInv, TypeInv, TypeOK, clientVars, bounds
<1> QED BY <1>1, <1>2, <1>3, ConnectionsStep

-----------------------------------------------------------------------------
\* Ending broadcasts keeps the rows, and leaves only others open.
LEMMA EndLemma ==
  ASSUME broadcasts \in Seq(Broadcast), NEW ids
  PROVE  /\ End(ids) \in Seq(Broadcast)
         /\ DOMAIN End(ids) = DOMAIN broadcasts
         /\ {i \in DOMAIN End(ids) : End(ids)[i].open} = getActiveBroadcasts \ ids
<1>1. /\ DOMAIN broadcasts = 1 .. Len(broadcasts) /\ Len(broadcasts) \in Nat
      /\ \A i \in DOMAIN broadcasts : broadcasts[i] \in Broadcast
  OBVIOUS
<1>2. DOMAIN End(ids) = DOMAIN broadcasts
  BY DEF End
<1>3. \A i \in DOMAIN broadcasts :
          /\ End(ids)[i] \in Broadcast
          /\ i \in ids => End(ids)[i].open = FALSE
          /\ i \notin ids => End(ids)[i] = broadcasts[i]
  BY <1>1 DEF End, Broadcast
<1>4. End(ids) \in [1 .. Len(broadcasts) -> Broadcast]
  <2>1. End(ids) = [i \in 1 .. Len(broadcasts) |-> End(ids)[i]]
    BY <1>1 DEF End
  <2> QED BY <1>1, <1>3, <2>1
<1>5. End(ids) \in Seq(Broadcast)
  BY <1>1, <1>4
<1> QED BY <1>2, <1>3, <1>5 DEF getActiveBroadcasts

\* A handler's step is typed: it goes on with its call, or answers it.
LEMMA HandlesType ==
  ASSUME TypeInv, NEW h \in handlers, Handles(h)
  PROVE  TypeInv'
<1>1. /\ h \in Handler /\ handlers \subseteq Handler /\ broadcasts \in Seq(Broadcast)
      /\ is_streamer_live \in BOOLEAN /\ current_streamer \in Djs \cup {NoDj}
      /\ is_active \subseteq Djs
      /\ \A x \in handlers : x.open \subseteq DOMAIN broadcasts
  BY DEF TypeInv, TypeOK, StationTypeOK
<1>2. UNCHANGED <<pageVars, clientVars, harborVars,
                  last_authenticated_dj, disconnect, faults>>
  BY DEF Handles
<1>3. disturbed' \in BOOLEAN
  BY DEF Handles, TypeInv, TypeOK
<1>4. /\ handlers' \subseteq Handler
      /\ \A x \in handlers' : x.open \subseteq DOMAIN broadcasts'
      /\ broadcasts' \in Seq(Broadcast)
      /\ is_streamer_live' \in BOOLEAN /\ current_streamer' \in Djs \cup {NoDj}
      /\ is_active' \subseteq Djs
  <2>1. CASE HandlerBegins(h)
    <3>1. PICK n : n = [h EXCEPT !.at = "begun", !.wasLive = is_streamer_live,
                                 !.streamer = current_streamer]
      OBVIOUS
    <3>2. n \in Handler /\ n.open = h.open
      BY <1>1, <3>1 DEF Handler
    <3>3. handlers' = (handlers \ {h}) \cup {n} /\ UNCHANGED <<stationVars, is_active>>
      BY <2>1, <3>1 DEF HandlerBegins, Becomes
    <3> QED BY <1>1, <3>2, <3>3 DEF stationVars
  <2>2. CASE EndAllActiveBroadcasts(h)
    <3>1. PICK n : n = [h EXCEPT !.at = "ended"]
      OBVIOUS
    <3>2. n \in Handler /\ n.open = h.open
      BY <1>1, <3>1 DEF Handler
    <3>3. /\ handlers' = (handlers \ {h}) \cup {n}
          /\ UNCHANGED <<is_streamer_live, current_streamer, is_active>>
          /\ broadcasts' = End(getActiveBroadcasts)
      BY <2>2, <3>1 DEF EndAllActiveBroadcasts, Becomes
    <3>4. broadcasts' \in Seq(Broadcast) /\ DOMAIN broadcasts' = DOMAIN broadcasts
      BY <1>1, <3>3, EndLemma
    <3> QED BY <1>1, <3>2, <3>3, <3>4
  <2>3. CASE onConnect(h)
    <3>1. handlers' \subseteq handlers /\ is_active' = is_active
      BY <2>3 DEF onConnect, Answered
    <3>2. CASE h.user \in is_active
      <4>1. PICK b : b = [dj |-> h.user, open |-> TRUE]
        OBVIOUS
      <4>2. b \in Broadcast
        BY <1>1, <3>2, <4>1 DEF Broadcast
      <4>3. broadcasts' = Append(broadcasts, b) /\ Write(h, TRUE, h.user)
        BY <2>3, <3>2, <4>1 DEF onConnect
      <4>4. broadcasts' \in Seq(Broadcast) /\ DOMAIN broadcasts \subseteq DOMAIN broadcasts'
        BY <1>1, <4>2, <4>3
      <4>5. is_streamer_live' \in BOOLEAN /\ current_streamer' \in Djs \cup {NoDj}
        BY <1>1, <3>2, <4>3 DEF Write
      <4> QED BY <1>1, <3>1, <4>4, <4>5
    <3>3. CASE h.user \notin is_active
      <4>1. UNCHANGED stationVars
        BY <2>3, <3>3 DEF onConnect
      <4> QED BY <1>1, <3>1, <4>1 DEF stationVars
    <3> QED BY <3>2, <3>3
  <2>4. CASE FindActiveBroadcasts(h)
    <3>1. PICK n : n = [h EXCEPT !.at = "found", !.open = getActiveBroadcasts]
      OBVIOUS
    <3>2. getActiveBroadcasts \subseteq DOMAIN broadcasts /\ DOMAIN broadcasts \subseteq Nat
      BY <1>1 DEF getActiveBroadcasts
    <3>3. n \in Handler /\ n.open = getActiveBroadcasts
      BY <1>1, <3>1, <3>2 DEF Handler
    <3>4. handlers' = (handlers \ {h}) \cup {n} /\ UNCHANGED <<stationVars, is_active>>
      BY <2>4, <3>1 DEF FindActiveBroadcasts, Becomes
    <3> QED BY <1>1, <3>2, <3>3, <3>4 DEF stationVars
  <2>5. CASE onDisconnect(h)
    <3>1. /\ handlers' \subseteq handlers /\ is_active' = is_active
          /\ broadcasts' = End(h.open) /\ Write(h, FALSE, NoDj)
      BY <2>5 DEF onDisconnect, Answered, Ended
    <3>2. broadcasts' \in Seq(Broadcast) /\ DOMAIN broadcasts' = DOMAIN broadcasts
      BY <1>1, <3>1, EndLemma
    <3>3. is_streamer_live' \in BOOLEAN /\ current_streamer' \in Djs \cup {NoDj}
      BY <1>1, <3>1 DEF Write
    <3> QED BY <1>1, <3>1, <3>2, <3>3
  <2> QED BY <2>1, <2>2, <2>3, <2>4, <2>5 DEF Handles, Handle
<1>5. StationTypeOK'
  BY <1>4, HandlersTyped DEF StationTypeOK, Handler
<1> QED BY <1>2, <1>3, <1>4, <1>5 DEF TypeInv, TypeOK, pageVars, clientVars, harborVars

\* The session's djon goes on, and makes the station right when it is done.
LEMMA ConnectsStep ==
  ASSUME TypeInv, NEW h \in handlers, handlers = {h}, Connects(h), Handle(h),
         h.at = "ended" => h.user \in is_active,
         UNCHANGED <<mount, live_dj>>
  PROVE  \/ handlers' = {} /\ Right'
         \/ \E x \in handlers' : handlers' = {x} /\ Connects(x)'
<1>1. /\ h \in Handler /\ broadcasts \in Seq(Broadcast) /\ is_active \subseteq Djs
      /\ is_streamer_live \in BOOLEAN
  BY DEF TypeInv, TypeOK, StationTypeOK
<1>2. CASE HandlerBegins(h)
  <2>1. PICK n : n = [h EXCEPT !.at = "begun", !.wasLive = is_streamer_live,
                               !.streamer = current_streamer]
    OBVIOUS
  <2>2. /\ n.session = h.session /\ n.kind = h.kind /\ n.user = h.user /\ n.at = "begun"
        /\ n.wasLive = is_streamer_live /\ n.streamer = current_streamer
    BY <1>1, <2>1 DEF Handler
  <2>3. handlers' = {n} /\ UNCHANGED <<stationVars, is_active>>
    BY <1>2, <2>1 DEF HandlerBegins, Becomes
  <2>4. Connects(n)'
    BY <2>2, <2>3 DEF Connects, Loaded, stationVars
  <2> QED BY <2>3, <2>4
<1>3. CASE EndAllActiveBroadcasts(h)
  <2>1. PICK n : n = [h EXCEPT !.at = "ended"]
    OBVIOUS
  <2>2. /\ n.session = h.session /\ n.kind = h.kind /\ n.user = h.user /\ n.at = "ended"
        /\ n.wasLive = h.wasLive /\ n.streamer = h.streamer
    BY <1>1, <2>1 DEF Handler
  <2>3. /\ handlers' = {n} /\ UNCHANGED <<is_streamer_live, current_streamer>>
        /\ broadcasts' = End(getActiveBroadcasts)
    BY <1>3, <2>1 DEF EndAllActiveBroadcasts, Becomes
  <2>4. getActiveBroadcasts' = {}
    <3>1. {i \in DOMAIN broadcasts' : broadcasts'[i].open}
              = getActiveBroadcasts \ getActiveBroadcasts
      BY <1>1, <2>3, EndLemma
    <3> QED BY <3>1 DEF getActiveBroadcasts
  <2>5. Loaded(h)
    BY <1>3 DEF EndAllActiveBroadcasts, Connects
  <2>6. Connects(n)'
    BY <2>2, <2>3, <2>4, <2>5 DEF Connects, Loaded
  <2> QED BY <2>3, <2>6
<1>4. CASE onConnect(h)
  <2>1. /\ h.user \in is_active /\ h.user = live_dj /\ Loaded(h)
        /\ getActiveBroadcasts = {} /\ handlers' = {}
    BY <1>4 DEF onConnect, Connects, Answered
  <2>2. Write(h, TRUE, h.user)
    BY <1>4, <2>1 DEF onConnect
  <2>3. PICK b : b = [dj |-> h.user, open |-> TRUE]
    OBVIOUS
  <2>4. b \in Broadcast /\ b.dj = live_dj /\ b.open
    BY <1>1, <2>1, <2>3 DEF Broadcast
  <2>5. broadcasts' = Append(broadcasts, b)
    BY <1>4, <2>1, <2>3 DEF onConnect
  <2>6. is_streamer_live' /\ current_streamer' = live_dj
    BY <1>1, <2>1, <2>2 DEF Write, Loaded
  <2>7. /\ DOMAIN broadcasts' = DOMAIN broadcasts \cup {Len(broadcasts) + 1}
        /\ broadcasts'[Len(broadcasts) + 1] = b
        /\ \A i \in DOMAIN broadcasts : broadcasts'[i] = broadcasts[i]
    BY <1>1, <2>4, <2>5
  <2>8. getActiveBroadcasts' = {Len(broadcasts) + 1}
    BY <2>1, <2>4, <2>7 DEF getActiveBroadcasts
  <2>9. live_dj' = live_dj /\ live_dj \in Djs
    BY <1>1, <2>1
  <2>10. \E i \in DOMAIN broadcasts' :
             getActiveBroadcasts' = {i} /\ broadcasts'[i].dj = live_dj'
    BY <2>4, <2>7, <2>8, <2>9
  <2> QED BY <2>1, <2>6, <2>9, <2>10 DEF Right
<1>5. ~ FindActiveBroadcasts(h) /\ ~ onDisconnect(h)
  BY DEF FindActiveBroadcasts, onDisconnect, Connects
<1> QED BY <1>2, <1>3, <1>4, <1>5 DEF Handle

\* The session's djoff goes on, and clears the station when it is done.
LEMMA DisconnectsStep ==
  ASSUME TypeInv, NEW h \in handlers, handlers = {h}, Disconnects(h), Handle(h),
         UNCHANGED <<mount, live_dj>>
  PROVE  \/ handlers' = {} /\ Clear'
         \/ \E x \in handlers' : handlers' = {x} /\ Disconnects(x)'
<1>1. /\ h \in Handler /\ broadcasts \in Seq(Broadcast)
      /\ is_streamer_live \in BOOLEAN
  BY DEF TypeInv, TypeOK, StationTypeOK
<1>2. CASE HandlerBegins(h)
  <2>1. PICK n : n = [h EXCEPT !.at = "begun", !.wasLive = is_streamer_live,
                               !.streamer = current_streamer]
    OBVIOUS
  <2>2. /\ n.session = h.session /\ n.kind = h.kind /\ n.at = "begun"
        /\ n.wasLive = is_streamer_live /\ n.streamer = current_streamer
    BY <1>1, <2>1 DEF Handler
  <2>3. handlers' = {n} /\ UNCHANGED <<stationVars, is_active>>
    BY <1>2, <2>1 DEF HandlerBegins, Becomes
  <2>4. Right'
    BY <2>3 DEF Disconnects, Right, stationVars, getActiveBroadcasts
  <2>5. Disconnects(n)'
    BY <2>2, <2>3, <2>4 DEF Disconnects, Loaded, stationVars
  <2> QED BY <2>3, <2>5
<1>3. CASE FindActiveBroadcasts(h)
  <2>1. PICK n : n = [h EXCEPT !.at = "found", !.open = getActiveBroadcasts]
    OBVIOUS
  <2>2. /\ n.session = h.session /\ n.kind = h.kind /\ n.at = "found"
        /\ n.wasLive = h.wasLive /\ n.streamer = h.streamer /\ n.open = getActiveBroadcasts
    BY <1>1, <2>1 DEF Handler
  <2>3. handlers' = {n} /\ UNCHANGED stationVars
    BY <1>3, <2>1 DEF FindActiveBroadcasts, Becomes
  <2>4. Right' /\ getActiveBroadcasts' = getActiveBroadcasts
    BY <2>3 DEF Disconnects, Right, stationVars, getActiveBroadcasts
  <2>5. Loaded(h)
    BY <1>3 DEF FindActiveBroadcasts, Disconnects
  <2>6. Disconnects(n)'
    BY <2>2, <2>3, <2>4, <2>5 DEF Disconnects, Loaded, stationVars
  <2> QED BY <2>3, <2>6
<1>4. CASE onDisconnect(h)
  <2>1. /\ Right /\ Loaded(h) /\ h.open = getActiveBroadcasts /\ handlers' = {}
        /\ Write(h, FALSE, NoDj) /\ broadcasts' = End(h.open)
    BY <1>4 DEF onDisconnect, Disconnects, Answered, Ended
  <2>2. ~ is_streamer_live' /\ current_streamer' = NoDj
    BY <1>1, <2>1, StationStreamerAssumption DEF Write, Loaded, Right
  <2>3. getActiveBroadcasts' = {}
    <3>1. {i \in DOMAIN broadcasts' : broadcasts'[i].open} = getActiveBroadcasts \ h.open
      BY <1>1, <2>1, EndLemma
    <3> QED BY <2>1, <3>1 DEF getActiveBroadcasts
  <2> QED BY <2>1, <2>2, <2>3 DEF Clear
<1>5. ~ EndAllActiveBroadcasts(h) /\ ~ onConnect(h)
  BY DEF EndAllActiveBroadcasts, onConnect, Disconnects
<1> QED BY <1>2, <1>3, <1>4, <1>5 DEF Handle

\* A step of a handler.
LEMMA HandlesStep ==
  ASSUME IInv, NEW h \in handlers, Handles(h)
  PROVE  IInv'
<1>1. UNCHANGED <<pageVars, clientVars, harborVars, last_authenticated_dj, disconnect>>
  BY DEF Handles
<1>2. TypeInv'
  BY HandlesType DEF IInv
<1>3. MountInv' /\ NameInv' /\ SocketInv' /\ OpenIsShown' /\ ShownIsConnected'
  BY <1>1 DEF IInv, MountInv, NameInv, SessionOfItsDj, SocketInv, OpenIsShown,
              ShownIsConnected, pageVars, clientVars, harborVars
<1>4. StationInv'
  <2> SUFFICES ASSUME ~ disturbed' PROVE StationInv'
    BY DEF StationInv
  <2>1. ~ disturbed /\ (h.at = "ended" => h.user \in is_active) /\ Handle(h)
    BY DEF Handles, IInv, TypeInv, TypeOK
  <2>2. \/ phase = "connecting" /\ handlers = {h} /\ Connects(h)
        \/ phase = "leaving" /\ handlers = {h} /\ Disconnects(h)
    BY <2>1 DEF IInv, TypeInv, TypeOK, StationInv
  <2>3. phase' = phase /\ mount' = mount /\ live_dj' = live_dj
    BY <1>1 DEF harborVars
  <2>4. CASE phase = "connecting" /\ handlers = {h} /\ Connects(h)
    <3>1. \/ handlers' = {} /\ Right'
          \/ \E x \in handlers' : handlers' = {x} /\ Connects(x)'
      BY <2>1, <2>3, <2>4, ConnectsStep DEF IInv
    <3> QED BY <2>3, <2>4, <3>1 DEF StationInv
  <2>5. CASE phase = "leaving" /\ handlers = {h} /\ Disconnects(h)
    <3>1. \/ handlers' = {} /\ Clear'
          \/ \E x \in handlers' : handlers' = {x} /\ Disconnects(x)'
      BY <2>1, <2>3, <2>5, DisconnectsStep DEF IInv
    <3> QED BY <2>3, <2>5, <3>1 DEF StationInv
  <2> QED BY <2>2, <2>4, <2>5
<1> QED BY <1>2, <1>3, <1>4 DEF IInv

-----------------------------------------------------------------------------
\* Before the first connection nobody is live.
LEMMA InitInv == Init => IInv
<1> SUFFICES ASSUME Init PROVE IInv
  OBVIOUS
<1> USE DEF Init, StationInit, PageInit
<1>1. /\ MaxConnections \in Nat /\ MaxTrouble \in Nat /\ Pages \subseteq Djs /\ NoDj \notin Djs
  BY LiveSessionAssumption, StationStreamerAssumption
<1>2. NoConnection \in Connection
  BY DEF NoConnection, Connection
<1>3. \A c \in Connections : connection[c] = NoConnection
  OBVIOUS
<1>4. \A c \in Connections : connection[c].at = "none"
  BY <1>3 DEF NoConnection
<1>5. TypeInv
  <2>1. broadcasts \in Seq(Broadcast)
    OBVIOUS
  <2>2. connection \in [Connections -> Connection]
    BY <1>2
  <2>3. StationTypeOK
    BY <2>1 DEF StationTypeOK
  <2>5. disconnect \in Disconnect
    BY DEF NoDisconnect, Disconnect
  <2>4. /\ isStreaming \in [Pages -> BOOLEAN] /\ socket \in [Pages -> 0 .. MaxConnections]
        /\ made \in 0 .. MaxConnections /\ mount \in 0 .. MaxConnections
        /\ faults \in 0 .. MaxTrouble
    BY <1>1
  <2> QED BY <2>2, <2>3, <2>4, <2>5 DEF TypeInv, TypeOK
<1>6. MountInv
  BY <1>3 DEF MountInv
<1>7. NameInv
  BY <1>4 DEF NameInv, SessionOfItsDj
<1>8. SocketInv
  BY DEF SocketInv
<1>9. OpenIsShown
  <2>1. \A p \in Pages : socket[p] \notin Connections
    BY <1>1 DEF Connections
  <2> QED BY <2>1 DEF OpenIsShown
<1>10. ShownIsConnected
  BY DEF ShownIsConnected
<1>11. StationInv
  <2>1. Clear
    BY DEF Clear, getActiveBroadcasts
  <2> QED BY <2>1 DEF StationInv
<1> QED BY <1>5, <1>6, <1>7, <1>8, <1>9, <1>10, <1>11 DEF IInv

\* Every step keeps the invariant.
LEMMA NextInv == IInv /\ [Next]_vars => IInv'
<1> SUFFICES ASSUME IInv, [Next]_vars PROVE IInv'
  OBVIOUS
<1>1. ASSUME NEW d \in Djs, ClientStarts(d) PROVE IInv'
  BY <1>1, NewConnectionStep DEF ClientStarts
<1>2. ASSUME NEW d \in Djs, Reactivated(d) PROVE IInv'
  BY <1>2, ReactivatedStep
<1>3. ASSUME NEW p \in Pages, PageStarts(p) PROVE IInv'
  <2>1. p \in Djs
    BY LiveSessionAssumption
  <2> QED BY <1>3, <2>1, NewConnectionStep DEF PageStarts
<1>4. ASSUME NEW p \in Pages, PageStops(p) PROVE IInv'
  BY <1>4, PageStopsStep
<1>5. ASSUME NEW p \in Pages, NEW c \in encoders, EncoderCloses(p, c) PROVE IInv'
  BY <1>5, PageStopsStep
<1>6. ASSUME NEW c \in Connections, ClientLeaves(c) \/ ConnectionDrops(c) PROVE IInv'
  BY <1>6, ClosesOneStep
<1>7. ASSUME NEW c \in Connections, SocketOpens(c) PROVE IInv'
  BY <1>7, SocketOpensStep
<1>8. ASSUME NEW c \in Connections, SocketCloses(c) PROVE IInv'
  BY <1>8, SocketClosesStep
<1>9. ASSUME NEW c \in Connections, dj_auth(c) PROVE IInv'
  BY <1>9, DjAuthStep
<1>10. ASSUME NEW c \in Connections, live_connected(c) PROVE IInv'
  BY <1>10, LiveConnectedStep
<1>11. ASSUME NEW c \in Connections, Refused(c) PROVE IInv'
  BY <1>11, RefusedStep
<1>12. CASE live_disconnected
  BY <1>12, LiveDisconnectedStep
<1>13. CASE CallReturns
  BY <1>13, CallReturnsStep
<1>14. CASE CallGivenUp
  BY <1>14, CallGivenUpStep
<1>15. ASSUME NEW h \in handlers, CallLost(h) PROVE IInv'
  BY <1>15, CallLostStep
<1>16. ASSUME NEW h \in handlers, Handles(h) PROVE IInv'
  BY <1>16, HandlesStep
<1>17. CASE LiquidsoapRestarts
  BY <1>17, LiquidsoapRestartsStep
<1>18. CASE disconnectStreamer
  BY <1>18, DisconnectStep
<1>19. CASE UNCHANGED vars
  <2>1. UNCHANGED <<made, connection, stationVars, handlers, is_active, pageVars, harborVars,
                    last_authenticated_dj, disconnect, disturbed, faults>>
    BY <1>19 DEF vars, serverVars, clientVars, bounds
  <2>2. connection' \in [Connections -> Connection] /\ Progress /\ Steady
    BY <2>1 DEF IInv, TypeInv, TypeOK, Progress, Steady
  <2>3. is_active' \subseteq Djs /\ faults' \in 0 .. MaxTrouble /\ disconnect' \in Disconnect
    BY <2>1 DEF IInv, TypeInv, TypeOK, StationTypeOK
  <2> QED BY <2>1, <2>2, <2>3, ConnectionsStep
<1> QED BY <1>1, <1>2, <1>3, <1>4, <1>5, <1>6, <1>7, <1>8, <1>9, <1>10, <1>11, <1>12, <1>13,
           <1>14, <1>15, <1>16, <1>17, <1>18, <1>19 DEF Next

\* The inductive invariant holds throughout.
THEOREM InvariantHolds == Spec => []IInv
BY InitInv, NextInv, PTL DEF Spec

\* A session's state has its types in the harbor, the pages and on the server.
THEOREM TypesHold == Spec => []TypeOK
<1>1. IInv => TypeOK
  BY DEF IInv, TypeInv
<1> QED BY <1>1, InvariantHolds, PTL

\* Once its calls are handled the station says who is live: whatever the DJs,
\* pages and operators do, undisturbed at most one call is under way, the one of
\* the harbor's phase, and the handler writes over what it loaded itself
\* (StationStreamerRepository, onConnect and onDisconnect).
THEOREM StationRight == Spec => []StationIsRight
<1>1. IInv => StationIsRight
  BY DEF IInv, StationInv, StationIsRight, Right, Clear, TypeInv, TypeOK
<1> QED BY <1>1, InvariantHolds, PTL

\* A session is attributed to the DJ who connected, unless another DJ was
\* accepted between the two steps (ConfigWriter, last_authenticated_dj).
THEOREM SessionAttributed == Spec => []SessionOfItsDj
<1>1. IInv => SessionOfItsDj
  BY DEF IInv, NameInv
<1> QED BY <1>1, InvariantHolds, PTL

\* A page that shows its stream has an open connection, or has not been told of
\* its end yet (SettingsPanel's listeners).
THEOREM ShownConnected == Spec => []ShownIsConnected
<1>1. IInv => ShownIsConnected
  BY DEF IInv
<1> QED BY <1>1, InvariantHolds, PTL

\* A page does not hide that its socket is open, unless an earlier socket's end
\* was reported to it late (webcast.js, close).
THEOREM OpenShown == Spec => []OpenIsShown
<1>1. IInv => OpenIsShown
  BY DEF IInv
<1> QED BY <1>1, InvariantHolds, PTL

\* A call of disconnectStreamer that has read a station sure to know holds the
\* DJ who was live then, or none.
DisconnectInv ==
    disconnect.at = "read" /\ disconnect.sure =>
        disconnect.streamer \in {NoDj, disconnect.live}

\* Only the reading of the station starts such a call, from a station that is
\* right or clear.
LEMMA NextDisconnect == IInv /\ DisconnectInv /\ [Next]_vars => DisconnectInv'
<1> SUFFICES ASSUME IInv, DisconnectInv, [Next]_vars PROVE DisconnectInv'
  OBVIOUS
<1>1. CASE DisconnectReads
  <2>1. disconnect' = [at |-> "read", streamer |-> current_streamer, live |-> live_dj,
                       sure |-> handlers = {} /\ ~ disturbed]
    BY <1>1 DEF DisconnectReads
  <2>2. handlers = {} /\ ~ disturbed => Right \/ Clear
    BY DEF IInv, TypeInv, TypeOK, StationInv
  <2> QED BY <2>1, <2>2 DEF DisconnectInv, Right, Clear
<1>2. CASE DisconnectFlushes \/ DisconnectStops \/ DisconnectFails
  BY <1>2 DEF DisconnectFlushes, DisconnectStops, DisconnectFails, NoDisconnect, DisconnectInv
<1>3. CASE disconnect' = disconnect
  BY <1>3 DEF DisconnectInv
<1>4. disconnect' = disconnect \/ disconnectStreamer
  BY DEF Next, vars, ClientStarts, Reactivated, PageStarts, NewConnection, PageStops,
         EncoderCloses, TakesSocket, ClientLeaves, SocketOpens, SocketCloses, dj_auth,
         live_connected, Refused, ConnectionDrops, live_disconnected, CallReturns,
         CallGivenUp, CallLost, Handles, LiquidsoapRestarts
<1> QED BY <1>1, <1>2, <1>3, <1>4 DEF disconnectStreamer

\* Disconnecting deactivates a DJ who was live when the station was read, unless
\* calls were under way then or trouble had left the station with an earlier one,
\* whatever comes between the read and the flush (Liquidsoap, disconnectStreamer).
THEOREM TheLiveDeactivated == Spec => DeactivatesTheLive
<1> DEFINE A == \A d \in Djs : (d \in is_active /\ d \notin is_active')
                                   => (d = disconnect.live \/ ~disconnect.sure)
<1>1. IInv /\ DisconnectInv /\ [Next]_vars => [A]_vars
  <2> SUFFICES ASSUME DisconnectInv, Next, NEW d \in Djs, d \in is_active,
                      d \notin is_active', disconnect.sure
               PROVE  d = disconnect.live
    OBVIOUS
  <2>1. disconnectStreamer
    <3>1. CASE \E h \in handlers : CallLost(h) \/ Handles(h)
      BY <3>1 DEF CallLost, Handles, Handle, HandlerBegins, EndAllActiveBroadcasts,
             onConnect, FindActiveBroadcasts, onDisconnect
    <3>2. CASE \E e \in Djs : Reactivated(e)
      BY <3>2 DEF Reactivated
    <3> QED BY <3>1, <3>2
            DEF Next, ClientStarts, PageStarts, NewConnection, PageStops, EncoderCloses,
                TakesSocket, ClientLeaves, SocketOpens, SocketCloses, dj_auth,
                live_connected, Refused, ConnectionDrops, live_disconnected, CallReturns,
                CallGivenUp, LiquidsoapRestarts, serverVars
  <2>2. DisconnectFlushes
    BY <2>1 DEF disconnectStreamer, DisconnectReads, DisconnectStops, DisconnectFails,
                serverVars
  <2>3. disconnect.at = "read" /\ d = disconnect.streamer
    BY <2>2 DEF DisconnectFlushes
  <2> QED BY <2>3, StationStreamerAssumption DEF DisconnectInv
<1>2. Init => DisconnectInv
  BY DEF Init, NoDisconnect, DisconnectInv
<1> HIDE DEF A
<1>3. Spec => [][A]_vars
  BY <1>1, <1>2, NextDisconnect, InvariantHolds, PTL DEF Spec
<1> QED BY <1>3 DEF DeactivatesTheLive, A
=============================================================================
