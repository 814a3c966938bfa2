------------------------------- MODULE WebDj -------------------------------
(* The WebDJ page of each DJ who uses one: its settings panel and the        *)
(* webcast source, which has one socket and one encoder at a time, set and   *)
(* cleared together.  Closing waits for the encoder's worker, if it has one, *)
(* and then closes the socket the source has by that time.                   *)
EXTENDS Naturals

CONSTANTS Pages    \* the DJs with a page

VARIABLES isStreaming,
          socket,     \* options.socket of the webcast source, 0 for none
          encoders,   \* sockets whose encoder's worker was told to close
          stale       \* history: pages that were told of the end of a socket
                      \* they had replaced by one that was open

pageVars == <<isStreaming, socket, encoders, stale>>

PageInit == /\ isStreaming = [p \in Pages |-> FALSE]
            /\ socket = [p \in Pages |-> 0]
            /\ encoders = {}
            /\ stale = {}

(* startStreaming and connectSocket: a socket of before is left as it is.    *)
startStreaming(p, c) ==
    /\ ~isStreaming[p]
    /\ socket' = [socket EXCEPT ![p] = c]
    /\ stale' = stale \ {p}
    /\ UNCHANGED <<isStreaming, encoders>>

(* The panel's listener of "open".                                           *)
onOpen(p) ==
    /\ isStreaming' = [isStreaming EXCEPT ![p] = TRUE]
    /\ UNCHANGED <<socket, encoders, stale>>

\* BUG variant: only a connection that was live is reported as closed.
onClose_OnlyReplaced(p, c, open) ==
    /\ isStreaming' = [isStreaming EXCEPT ![p] = @ /\ socket[p] = c]
    /\ stale' = IF open /\ socket[p] # c THEN stale \cup {p} ELSE stale
    /\ UNCHANGED <<socket, encoders>>

(* The panel's listener of "close", of any socket it ever opened; `open`     *)
(* says whether the present socket is.                                       *)
onClose(p, c, open) ==
    /\ isStreaming' = [isStreaming EXCEPT ![p] = FALSE]
    /\ stale' = IF open /\ socket[p] # c THEN stale \cup {p} ELSE stale
    /\ UNCHANGED <<socket, encoders>>

\* BUG variant: the panel forgets to close the source.
stopStreaming_Silent(p) ==
    /\ isStreaming[p]
    /\ isStreaming' = [isStreaming EXCEPT ![p] = FALSE]
    /\ UNCHANGED <<socket, encoders, stale>>

(* stopStreaming: an encoder with a worker keeps the socket for now.         *)
stopStreaming(p) ==
    /\ isStreaming[p]
    /\ isStreaming' = [isStreaming EXCEPT ![p] = FALSE]
    /\ \/ /\ socket[p] # 0
          /\ encoders' = encoders \cup {socket[p]}
          /\ UNCHANGED socket
       \/ /\ socket' = [socket EXCEPT ![p] = 0]
          /\ UNCHANGED encoders
    /\ UNCHANGED stale

(* The worker of socket c's encoder has closed.                              *)
encoderClosed(p, c) ==
    /\ c \in encoders
    /\ encoders' = encoders \ {c}
    /\ socket' = [socket EXCEPT ![p] = 0]
    /\ UNCHANGED <<isStreaming, stale>>
=============================================================================
