---------------------------- MODULE LiveSession ----------------------------
(* Live DJ sessions from end to end: DJs connect to Liquidsoap's harbor with *)
(* the WebDJ page or a source client; the generated Liquidsoap script asks   *)
(* the server to authenticate them and reports each session with the calls   *)
(* djon and djoff, which it awaits for five seconds at most; operators       *)
(* disconnect the streamer the station names.                                *)
EXTENDS StationStreamer, WebDj, FiniteSets

CONSTANTS MaxConnections,   \* bound: connections ever made
          MaxTrouble        \* bound: calls given up or lost, dropped
                            \* connections, restarts of Liquidsoap

ASSUME LiveSessionAssumption == /\ Pages \subseteq Djs
                                /\ MaxConnections \in Nat
                                /\ MaxTrouble \in Nat

VARIABLES made,        \* number of connections made
          connection,
          mount,       \* the connection on the harbor's mount, 0 for none
          phase,       \* where the harbor is with it
          live_dj, last_authenticated_dj,
          disconnect,  \* the call of disconnectStreamer under way
          disturbed,   \* history: a call lost, given up or refused since the
                       \* last session that began with no call under way
          faults

harborVars == <<mount, phase, live_dj>>
clientVars == <<made, connection>>
bounds == <<disturbed, faults>>
vars == <<serverVars, pageVars, clientVars, harborVars, last_authenticated_dj, disconnect,
          bounds>>

Connections == 1 .. MaxConnections
Open == {"hello", "accepted", "live"}
NoConnection == [dj |-> NoDj, at |-> "none", closing |-> FALSE, mixed |-> FALSE]
Closed(d) == [NoConnection EXCEPT !.dj = d, !.at = "closed"]

Connection == [dj : Djs \cup {NoDj},
               at : Open \cup {"none", "connecting", "gone", "closed"},
               closing : BOOLEAN, mixed : BOOLEAN]

(* What a call of disconnectStreamer has read: the station's streamer, and    *)
(* (history) who was live then and whether the station was sure to know.     *)
Disconnect == [at : {"idle", "read", "flushed"}, streamer : Djs \cup {NoDj},
               live : Djs \cup {NoDj}, sure : BOOLEAN]
NoDisconnect == [at |-> "idle", streamer |-> NoDj, live |-> NoDj, sure |-> FALSE]

TypeOK == /\ StationTypeOK
          /\ isStreaming \in [Pages -> BOOLEAN]
          /\ socket \in [Pages -> 0 .. MaxConnections]
          /\ encoders \subseteq Connections
          /\ stale \subseteq Pages
          /\ made \in 0 .. MaxConnections
          /\ connection \in [Connections -> Connection]
          /\ mount \in 0 .. MaxConnections
          /\ phase \in {"free", "connecting", "live", "leaving"}
          /\ live_dj \in Djs \cup {NoDj}
          /\ last_authenticated_dj \in Djs \cup {NoDj}
          /\ disconnect \in Disconnect
          /\ disturbed \in BOOLEAN
          /\ faults \in 0 .. MaxTrouble

Init == /\ StationInit
        /\ PageInit
        /\ made = 0
        /\ connection = [c \in Connections |-> NoConnection]
        /\ mount = 0
        /\ phase = "free"
        /\ live_dj = NoDj
        /\ last_authenticated_dj = NoDj
        /\ disconnect = NoDisconnect
        /\ disturbed = FALSE
        /\ faults = 0

-----------------------------------------------------------------------------
(* Clients                                                                   *)

(* A socket that is closed while it connects is never open.                  *)
CloseSocket(c) ==
    [connection EXCEPT ![c].at = IF @ = "connecting" THEN "gone" ELSE @,
                       ![c].closing = @ \/ connection[c].at \in Open]

NewConnection(d) ==
    /\ made < MaxConnections
    /\ made' = made + 1
    /\ connection' = [connection EXCEPT ![made + 1] =
                          [NoConnection EXCEPT !.dj = d, !.at = "connecting"]]
    /\ UNCHANGED <<serverVars, harborVars, last_authenticated_dj, disconnect, bounds>>

PageStarts(p) == /\ startStreaming(p, made + 1)
                 /\ NewConnection(p)

ClientStarts(d) == /\ d \notin Pages
                   /\ NewConnection(d)
                   /\ UNCHANGED pageVars

(* Stopping and the worker's late answer close the page's socket, if they    *)
(* take it from the page.                                                    *)
TakesSocket(p) ==
    /\ connection' = IF socket[p] # 0 /\ socket'[p] = 0 THEN CloseSocket(socket[p])
                     ELSE connection
    /\ UNCHANGED <<made, serverVars, harborVars,
                   last_authenticated_dj, disconnect, bounds>>

PageStops(p) == stopStreaming(p) /\ TakesSocket(p)
EncoderCloses(p, c) == connection[c].dj = p /\ encoderClosed(p, c) /\ TakesSocket(p)

(* A source client leaves, or the harbor drops a source that sends nothing:  *)
(* a page's audio goes to its present socket only (external).                *)
ClientLeaves(c) ==
    /\ connection[c].at = "live"
    /\ (connection[c].dj \in Pages => socket[connection[c].dj] # c)
    /\ connection' = CloseSocket(c)
    /\ UNCHANGED <<made, serverVars, pageVars, harborVars,
                   last_authenticated_dj, disconnect, bounds>>

(* The handshake is through: the page's panel and the hello message.         *)
SocketOpens(c) ==
    /\ connection[c].at = "connecting"
    /\ connection' = [connection EXCEPT ![c].at = "hello"]
    /\ IF connection[c].dj \in Pages THEN onOpen(connection[c].dj) ELSE UNCHANGED pageVars
    /\ UNCHANGED <<made, serverVars, harborVars,
                   last_authenticated_dj, disconnect, bounds>>

(* The client learns that its connection has ended.                          *)
SocketCloses(c) ==
    /\ connection[c].at = "gone"
    /\ connection' = [connection EXCEPT ![c] = Closed(connection[c].dj)]
    /\ LET p == connection[c].dj IN
       IF p \in Pages
       THEN onClose(p, c, socket[p] # 0 /\ connection[socket[p]].at \in Open)
       ELSE UNCHANGED pageVars
    /\ UNCHANGED <<made, serverVars, harborVars,
                   last_authenticated_dj, disconnect, bounds>>

-----------------------------------------------------------------------------
(* The harbor and its script                                                 *)

\* BUG variant: the name is noted before the server has answered.
Authenticated_Unasked(d) == d

\* BUG variant: the answer is noted instead of the name.
Authenticated_Answer(d) == Authenticates(d)

(* dj_auth notes the name the server has accepted.                           *)
Authenticated(d) == IF Authenticates(d) THEN d ELSE last_authenticated_dj

(* dj_auth; `mixed` marks other DJs' connections accepted and not yet live.  *)
dj_auth(c) ==
    LET d == connection[c].dj IN
    /\ connection[c].at = "hello"
    /\ last_authenticated_dj' = Authenticated(d)
    /\ connection' = [x \in Connections |->
           IF x = c THEN [connection[c] EXCEPT
                              !.at = IF Authenticates(d) THEN "accepted" ELSE "gone"]
           ELSE [connection[x] EXCEPT
                    !.mixed = @ \/ (Authenticates(d) /\ connection[x].at = "accepted"
                                    /\ connection[x].dj # d)]]
    /\ UNCHANGED <<made, serverVars, pageVars, harborVars, disconnect, bounds>>

(* live_connected, for a source that finds the mount free.                   *)
live_connected(c) ==
    /\ connection[c].at = "accepted"
    /\ mount = 0
    /\ mount' = c
    /\ phase' = "connecting"
    /\ live_dj' = last_authenticated_dj
    /\ connection' = [connection EXCEPT ![c].at = "live"]
    /\ handlers' = handlers \cup {Call(c, "djon", last_authenticated_dj)}
    /\ disturbed' = (disturbed /\ handlers # {})
    /\ UNCHANGED <<made, stationVars, is_active, pageVars,
                   last_authenticated_dj, disconnect, faults>>

(* A second source is refused; one that has closed meanwhile is dropped.     *)
Refused(c) ==
    /\ \/ connection[c].at = "accepted" /\ mount # 0
       \/ connection[c].at \in {"hello", "accepted"} /\ connection[c].closing
    /\ connection' = [connection EXCEPT ![c].at = "gone"]
    /\ UNCHANGED <<made, serverVars, pageVars, harborVars,
                   last_authenticated_dj, disconnect, bounds>>

(* The call is answered, or given up, and live_connected returns.            *)
djon_returns ==
    /\ phase = "connecting"
    /\ phase' = "live"
    /\ UNCHANGED <<clientVars, mount, live_dj>>

(* live_disconnected.                                                        *)
live_disconnected ==
    /\ phase = "live"
    /\ connection[mount].closing
    /\ phase' = "leaving"
    /\ handlers' = handlers \cup {Call(mount, "djoff", live_dj)}
    /\ UNCHANGED <<stationVars, is_active, pageVars, clientVars, mount, live_dj,
                   last_authenticated_dj, disconnect, bounds>>

djoff_returns ==
    /\ phase = "leaving"
    /\ phase' = "free"
    /\ mount' = 0
    /\ live_dj' = NoDj
    /\ connection' = [connection EXCEPT ![mount].at = "gone"]
    /\ UNCHANGED made

CallReturns ==
    /\ ~Pending(mount, "djon") /\ ~Pending(mount, "djoff")
    /\ djon_returns \/ djoff_returns
    /\ UNCHANGED <<serverVars, pageVars, last_authenticated_dj, disconnect, bounds>>

Trouble == /\ faults < MaxTrouble
           /\ faults' = faults + 1

(* Five seconds are over: the handler may still be at work, or not begun.    *)
CallGivenUp ==
    /\ Trouble
    /\ Pending(mount, "djon") \/ Pending(mount, "djoff")
    /\ djon_returns \/ djoff_returns
    /\ disturbed' = TRUE
    /\ UNCHANGED <<serverVars, pageVars, last_authenticated_dj, disconnect>>

(* A call that does not reach the server, or a handler that fails at once.   *)
CallLost(h) ==
    /\ Trouble
    /\ h.at = "sent"
    /\ Answered(h)
    /\ disturbed' = TRUE
    /\ UNCHANGED <<stationVars, is_active, pageVars, clientVars, harborVars,
                   last_authenticated_dj, disconnect>>

(* The network drops a connection.                                           *)
ConnectionDrops(c) ==
    /\ Trouble
    /\ connection[c].at \in Open \cup {"connecting"}
    /\ connection' = CloseSocket(c)
    /\ UNCHANGED <<made, serverVars, pageVars, harborVars,
                   last_authenticated_dj, disconnect, disturbed>>

(* Liquidsoap is restarted: no djoff.                                        *)
LiquidsoapRestarts ==
    /\ Trouble
    /\ connection' = [c \in Connections |->
           IF connection[c].at \in Open \cup {"connecting"}
           THEN [connection[c] EXCEPT !.at = "gone"] ELSE connection[c]]
    /\ mount' = 0
    /\ phase' = "free"
    /\ live_dj' = NoDj
    /\ last_authenticated_dj' = NoDj
    /\ disturbed' = TRUE
    /\ UNCHANGED <<made, serverVars, pageVars, disconnect>>

-----------------------------------------------------------------------------
(* Operators and the server                                                  *)

(* disconnectStreamer, asked for by an operator or by the task that enforces *)
(* the DJs' schedules (one call at a time, a bound).  The station is read    *)
(* when the request or the task's round begins ...                           *)
DisconnectReads ==
    /\ disconnect.at = "idle"
    /\ disconnect' = [at |-> "read", streamer |-> current_streamer, live |-> live_dj,
                      sure |-> handlers = {} /\ ~disturbed]
    /\ UNCHANGED <<serverVars, pageVars, clientVars, harborVars, last_authenticated_dj,
                   bounds>>

(* ... the streamer read, if any, is deactivated (its timeout is set) ...    *)
DisconnectFlushes ==
    /\ disconnect.at = "read"
    /\ is_active' = is_active \ {disconnect.streamer}
    /\ disconnect' = [NoDisconnect EXCEPT !.at = "flushed"]
    /\ UNCHANGED <<stationVars, handlers, pageVars, clientVars, harborVars,
                   last_authenticated_dj, bounds>>

(* ... and Liquidsoap is told to stop its input, whoever is on it.           *)
DisconnectStops ==
    /\ disconnect.at = "flushed"
    /\ disconnect' = NoDisconnect
    /\ connection' = IF mount = 0 THEN connection ELSE CloseSocket(mount)
    /\ UNCHANGED <<made, serverVars, pageVars, harborVars, last_authenticated_dj, bounds>>

(* The flush fails, or the command does not reach Liquidsoap.                *)
DisconnectFails ==
    /\ disconnect.at # "idle"
    /\ disconnect' = NoDisconnect
    /\ UNCHANGED <<serverVars, pageVars, clientVars, harborVars, last_authenticated_dj,
                   bounds>>

disconnectStreamer == \/ DisconnectReads \/ DisconnectFlushes
                      \/ DisconnectStops \/ DisconnectFails

Reactivated(d) ==
    /\ d \notin is_active
    /\ is_active' = is_active \cup {d}
    /\ UNCHANGED <<stationVars, handlers, pageVars, clientVars, harborVars,
                   last_authenticated_dj, disconnect, bounds>>

(* A djon of a streamer who was deactivated meanwhile changes nothing.       *)
Handles(h) ==
    /\ Handle(h)
    /\ disturbed' = (disturbed \/ (h.at = "ended" /\ h.user \notin is_active))
    /\ UNCHANGED <<pageVars, clientVars, harborVars,
                   last_authenticated_dj, disconnect, faults>>

Next == \/ \E d \in Djs : ClientStarts(d) \/ Reactivated(d)
        \/ \E p \in Pages : \/ PageStarts(p) \/ PageStops(p)
                            \/ \E c \in encoders : EncoderCloses(p, c)
        \/ \E c \in Connections : \/ ClientLeaves(c) \/ SocketOpens(c) \/ SocketCloses(c)
                                  \/ dj_auth(c) \/ live_connected(c) \/ Refused(c)
                                  \/ ConnectionDrops(c)
        \/ live_disconnected
        \/ CallReturns
        \/ CallGivenUp
        \/ \E h \in handlers : CallLost(h) \/ Handles(h)
        \/ LiquidsoapRestarts
        \/ disconnectStreamer

Spec == Init /\ [][Next]_vars

(* The network, the harbor, the workers and the server's handlers go on; the *)
(* harbor times out a silent source.  DJs and operators need not act.        *)
Fairness ==
    /\ \A c \in Connections : /\ WF_vars(SocketOpens(c)) /\ WF_vars(SocketCloses(c))
                              /\ WF_vars(dj_auth(c))
                              /\ WF_vars(live_connected(c) \/ Refused(c))
                              /\ WF_vars(connection[c].dj \in Pages /\ ClientLeaves(c))
    /\ \A p \in Pages, c \in Connections : WF_vars(EncoderCloses(p, c))
    /\ WF_vars(live_disconnected)
    /\ WF_vars(CallReturns)
    /\ WF_vars(\E h \in handlers : Handles(h))

FairSpec == Spec /\ Fairness

-----------------------------------------------------------------------------
(* Properties                                                                *)

(* Once its calls are handled the station says who is live, with one open    *)
(* broadcast of that DJ, or that nobody is: after trouble again from the     *)
(* next session on that begins with no call under way.                       *)
StationIsRight ==
    (handlers = {} /\ ~disturbed) =>
        IF phase = "free"
        THEN ~is_streamer_live /\ current_streamer = NoDj /\ getActiveBroadcasts = {}
        ELSE phase = "live" =>
                /\ is_streamer_live
                /\ current_streamer = live_dj
                /\ \E i \in DOMAIN broadcasts : /\ getActiveBroadcasts = {i}
                                                /\ broadcasts[i].dj = live_dj

(* A session is attributed to the DJ who connected, unless another DJ was    *)
(* accepted between the two steps (ConfigWriter, last_authenticated_dj).     *)
SessionOfItsDj ==
    mount # 0 => (live_dj = connection[mount].dj \/ connection[mount].mixed)

(* A page that shows its stream has an open connection, or has not been told *)
(* of its end yet (SettingsPanel's listeners).                               *)
ShownIsConnected ==
    \A p \in Pages : isStreaming[p] =>
        \E c \in Connections : connection[c].dj = p /\ connection[c].at \in Open \cup {"gone"}

(* A page does not hide that its socket is open, unless an earlier socket's  *)
(* end was reported to it late.                                              *)
OpenIsShown ==
    \A p \in Pages :
        (/\ socket[p] \in Connections \ encoders
         /\ connection[socket[p]].at \in Open
         /\ ~connection[socket[p]].closing)
            => isStreaming[p] \/ p \in stale

(* Disconnecting deactivates a DJ who was live when the station was read,    *)
(* unless calls were under way then or trouble had left the station with an  *)
(* earlier DJ.  By the time of the flush another DJ may be live, and by that *)
(* of the command another's input be stopped (Liquidsoap::disconnectStreamer).*)
DeactivatesTheLive ==
    [][\A d \in Djs : (d \in is_active /\ d \notin is_active')
                          => (d = disconnect.live \/ ~disconnect.sure)]_vars

(* No page shows for ever a stream that is not on the air.                   *)
PageLearns ==
    \A p \in Pages : isStreaming[p] ~>
        (~isStreaming[p] \/ (mount # 0 /\ connection[mount].dj = p))
=============================================================================
