-------------------------- MODULE StationStreamer --------------------------
(* The server's side of a live session: the streamer fields of the station,  *)
(* its broadcasts, and the handlers of Liquidsoap's djon and djoff calls.    *)
(* A handler loads the station when it begins; its flush writes the fields   *)
(* that differ from what it loaded, and only those.                          *)
EXTENDS Naturals, Sequences

CONSTANTS Djs,    \* the station's streamers
          NoDj

ASSUME StationStreamerAssumption == NoDj \notin Djs

VARIABLES is_streamer_live, current_streamer,
          is_active,    \* the streamers that may log in
          broadcasts,   \* StationStreamerBroadcast rows, in order
          handlers      \* calls on their way or being handled

stationVars == <<is_streamer_live, current_streamer, broadcasts>>
serverVars == <<stationVars, is_active, handlers>>

Broadcast == [dj : Djs, open : BOOLEAN]

StationTypeOK == /\ is_streamer_live \in BOOLEAN
                 /\ current_streamer \in Djs \cup {NoDj}
                 /\ is_active \subseteq Djs
                 /\ broadcasts \in Seq(Broadcast)
                 /\ \A h \in handlers :
                        /\ h.kind \in {"djon", "djoff"}
                        /\ h.at \in {"sent", "begun", "ended", "found"}
                        /\ h.user \in Djs \cup {NoDj}
                        /\ h.wasLive \in BOOLEAN
                        /\ h.streamer \in Djs \cup {NoDj}
                        /\ h.open \subseteq DOMAIN broadcasts

StationInit == /\ is_streamer_live = FALSE
               /\ current_streamer = NoDj
               /\ is_active \in SUBSET Djs
               /\ broadcasts = <<>>
               /\ handlers = {}

(* A call of a session, and what its handler has read so far.                *)
Call(session, kind, user) ==
    [session |-> session, kind |-> kind, user |-> user, at |-> "sent",
     wasLive |-> FALSE, streamer |-> NoDj, open |-> {}]

Pending(session, kind) ==
    \E h \in handlers : h.session = session /\ h.kind = kind

Becomes(h, after) == handlers' = (handlers \ {h}) \cup {after}
Answered(h) == handlers' = handlers \ {h}

getActiveBroadcasts == {i \in DOMAIN broadcasts : broadcasts[i].open}

End(ids) == [i \in DOMAIN broadcasts |->
                IF i \in ids THEN [broadcasts[i] EXCEPT !.open = FALSE] ELSE broadcasts[i]]

(* authenticate: active streamers only.                                      *)
Authenticates(user) == user \in is_active

(* The request of the call loads the station.                                *)
HandlerBegins(h) ==
    /\ h.at = "sent"
    /\ Becomes(h, [h EXCEPT !.at = "begun", !.wasLive = is_streamer_live,
                            !.streamer = current_streamer])
    /\ UNCHANGED <<stationVars, is_active>>

(* onConnect ends all broadcasts in a statement of its own ...               *)
EndAllActiveBroadcasts(h) ==
    /\ h.kind = "djon" /\ h.at = "begun"
    /\ broadcasts' = End(getActiveBroadcasts)
    /\ Becomes(h, [h EXCEPT !.at = "ended"])
    /\ UNCHANGED <<is_streamer_live, current_streamer, is_active>>

\* BUG variant: the streamer of an earlier session is kept.
Write_KeepsStreamer(h, live, streamer) ==
    /\ is_streamer_live' = IF live = h.wasLive THEN is_streamer_live ELSE live
    /\ current_streamer' = IF current_streamer = NoDj THEN streamer ELSE current_streamer

(* The flush writes what differs from what the handler loaded.               *)
Write(h, live, streamer) ==
    /\ is_streamer_live' = IF live = h.wasLive THEN is_streamer_live ELSE live
    /\ current_streamer' = IF streamer = h.streamer THEN current_streamer ELSE streamer

(* ... and flushes the station and the new broadcast, for a known streamer.  *)
onConnect(h) ==
    /\ h.kind = "djon" /\ h.at = "ended"
    /\ IF h.user \in is_active
       THEN /\ Write(h, TRUE, h.user)
            /\ broadcasts' = Append(broadcasts, [dj |-> h.user, open |-> TRUE])
       ELSE UNCHANGED stationVars
    /\ Answered(h)
    /\ UNCHANGED is_active

(* onDisconnect reads the active broadcasts ...                              *)
FindActiveBroadcasts(h) ==
    /\ h.kind = "djoff" /\ h.at = "begun"
    /\ Becomes(h, [h EXCEPT !.at = "found", !.open = getActiveBroadcasts])
    /\ UNCHANGED <<stationVars, is_active>>

\* BUG variant: the broadcasts are left to the next connection.
Ended_None(h) == broadcasts

Ended(h) == End(h.open)

(* ... and flushes their end with the station.                               *)
onDisconnect(h) ==
    /\ h.kind = "djoff" /\ h.at = "found"
    /\ Write(h, FALSE, NoDj)
    /\ broadcasts' = Ended(h)
    /\ Answered(h)
    /\ UNCHANGED is_active

Handle(h) == \/ HandlerBegins(h)
             \/ EndAllActiveBroadcasts(h) \/ onConnect(h)
             \/ FindActiveBroadcasts(h) \/ onDisconnect(h)
=============================================================================
