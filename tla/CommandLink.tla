------------------------------ MODULE CommandLink ------------------------------
(***************************************************************************)
(* A protocol and its connection: the queue of UavProtocol, whose packets  *)
(* writeToParent hands to the connection, and the connection's own queue,  *)
(* which keeps what it is given until it has a peer and drops the oldest   *)
(* packet when too many wait, as Link promises.                            *)
(*                                                                         *)
(* The counters of UavSendMessage run down as packets are handed over,     *)
(* while the link may be down, and a command may still wait in the         *)
(* connection when the one that replaces it is submitted.  What the        *)
(* vehicle answers comes after a packet has gone out, and may be lost.     *)
(***************************************************************************)
EXTENDS SendQueue

CONSTANTS
  Limit,      \* the most packets that wait in the connection
  Replies(_)  \* Replies(p): what the vehicle may send back once p has gone out

\* An answer comes from a packet that has gone out, not from its hand-over: an
\* instance of this module has no Answers, and what it says does not need that.
ASSUME CommandLinkAssumption == Limit \in Nat \ {0}

VARIABLES
  connected,  \* the connection has a peer
  waiting,    \* the packets it keeps, as [msg, pos]
  order,      \* history: the messages in the order they were submitted
  gone,       \* history: the messages of which a packet has gone out
  dropped     \* history: those of which the connection dropped a packet

linkVars == <<connected, waiting, order, gone, dropped>>
allVars  == <<vars, linkVars>>

LinkInit ==
  /\ Init
  /\ connected \in BOOLEAN
  /\ waiting = << >> /\ order = << >>
  /\ gone = {} /\ dropped = {}

-----------------------------------------------------------------------------
\* The connection keeps the newest packets.
Newest(all) == IF Len(all) > Limit THEN Tail(all) ELSE all

\* Mutant: what is written while there is no peer is not kept.
HandOverOnlyOpen ==
  /\ Transmit
  /\ waiting' = IF connected
                THEN LET e == m_send[turn][CHOOSE i \in DOMAIN m_send[turn] :
                                             Sendable(m_send[turn], i)]
                     IN  Newest(Append(waiting, [msg |-> e.msg, pos |-> e.pos]))
                ELSE waiting
  /\ UNCHANGED <<connected, order, gone, dropped>>

\* requestToSend writes the packet of the first entry that is due.
HandOver ==
  /\ Transmit
  /\ \E i \in DOMAIN m_send[turn] :
       /\ Sendable(m_send[turn], i)
       /\ LET e   == m_send[turn][i]
              all == Append(waiting, [msg |-> e.msg, pos |-> e.pos])
          IN  /\ waiting' = Newest(all)
              /\ dropped' = IF Len(all) > Limit THEN dropped \cup {Head(all).msg} ELSE dropped
  /\ UNCHANGED <<connected, order, gone>>

Submit(m) ==
  /\ SendMessage(m)
  /\ order' = Append(order, m)
  /\ UNCHANGED <<connected, waiting, gone, dropped>>

\* Mutant: the newest packet goes out first.
GoOutNewest ==
  /\ connected /\ waiting # << >>
  /\ LET w == waiting[Len(waiting)]
     IN  /\ waiting' = SubSeq(waiting, 1, Len(waiting) - 1)
         /\ gone' = gone \cup {w.msg}
         /\ heard' \in {heard, heard \cup Replies(Packets[w.msg][w.pos])}
  /\ UNCHANGED <<m_send, turn, started, fresh, sent, superseded, overtaken, connected, order,
                 dropped>>

\* The oldest packet goes out, and the vehicle answers or does not.
GoOut ==
  /\ connected /\ waiting # << >>
  /\ LET w == Head(waiting)
     IN  /\ waiting' = Tail(waiting)
         /\ gone' = gone \cup {w.msg}
         /\ heard' \in {heard, heard \cup Replies(Packets[w.msg][w.pos])}
  /\ UNCHANGED <<m_send, turn, started, fresh, sent, superseded, overtaken, connected, order,
                 dropped>>

Connect    == ~connected /\ connected' = TRUE
Disconnect == connected /\ connected' = FALSE

PeerChanges ==
  /\ Connect \/ Disconnect
  /\ UNCHANGED <<vars, waiting, order, gone, dropped>>

QueueStep ==
  \/ \E m \in Messages : Submit(m)
  \/ HandOver
  \/ /\ \/ NothingDue \/ StartMessaging
        \/ \E a \in heard : ProcessFromParent(a)
        \/ \E m \in Messages : TimelyElapse(m)
     /\ UNCHANGED linkVars

LinkNext == QueueStep \/ GoOut \/ PeerChanges

\* The sender thread and the connection's thread run, time goes on, and a peer
\* that is lost comes back often enough for packets to go out.
LinkSpec ==
  /\ LinkInit /\ [][LinkNext]_allVars
  /\ WF_allVars(HandOver \/ (NothingDue /\ UNCHANGED linkVars))
  /\ \A m \in Messages : SF_allVars(TimelyElapse(m) /\ UNCHANGED linkVars)
  /\ WF_allVars(PeerChanges /\ Connect) /\ SF_allVars(GoOut)

-----------------------------------------------------------------------------
Before(m, n) ==
  \E i, j \in DOMAIN order : i < j /\ order[i] = m /\ order[j] = n

\* Once a command has gone out, an older one that it replaced (an ARM before a
\* DISARM) never goes out again: neither is a copy of it left in the queue of
\* the protocol nor does the connection bring one forward.
WireNewestLast ==
  [][GoOut =>
       \A m \in Singles : \A n \in gone \cap Singles :
         Head(waiting).msg = m /\ Compare(Packet(m), Packet(n)) => ~Before(m, n)]_allVars

\* What is submitted goes out, although its transmissions are counted while the
\* link is down, unless something newer takes its place, the connection drops a
\* packet of it for want of room, or the vehicle has answered such a request.
SubmittedGoesOut ==
  \A m \in Singles :
    (started /\ m \notin fresh)
      ~> \/ m \in gone \cup superseded \cup dropped
         \/ \E a \in heard : Compare(Packet(m), a)
=============================================================================
