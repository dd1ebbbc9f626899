------------------------------ MODULE SendQueue ------------------------------
(***************************************************************************)
(* The outgoing side of a protocol: libSGCS/connection/UavProtocol.cpp and *)
(* the retransmission counters of libUAV/UavMessage.cpp.                   *)
(*                                                                         *)
(* Three kinds of thread share the queues m_send under m_sendMutex: every  *)
(* thread of the program that submits a message (sendMessage), the         *)
(* connection's thread that delivers packets of the vehicle                *)
(* (processFromParent) and the sender thread, which every 5 ms tries the   *)
(* HIGHT, NORMAL and LOW list in turn and releases the mutex in between.   *)
(*                                                                         *)
(* A message is a UavSendMessage object, submitted at most once.  It holds *)
(* one packet, or several if it is a MavlinkMessageTypeStack.              *)
(***************************************************************************)
EXTENDS Integers, Sequences, FiniteSetsExt

CONSTANTS
  Messages,       \* the message objects
  Stacks,         \* those that are stacks
  Packets,        \* Packets[m]: the packets of m, in the order they are sent
  Ticks,          \* Ticks[m]: transmissions per packet, negative for no limit
  Prio,           \* Prio[m]: the list m is queued in
  Compare(_, _),  \* Compare(p, a): UavSendMessage::compare, p pending
  Answers(_)      \* Answers(p): the packets a vehicle may send back for p

HIGHT  == 0
NORMAL == 1
LOW    == 2
Priorities == HIGHT .. LOW

AllPackets == UNION {{Packets[m][k] : k \in 1 .. Len(Packets[m])} : m \in Messages}

\* The constructors' arguments: a single message has one packet, a stack at
\* least one, and no caller asks for zero transmissions.
ASSUME MessagesAssumption ==
  /\ Stacks \subseteq Messages
  /\ Prio \in [Messages -> Priorities]
  /\ Ticks \in [Messages -> Int \ {0}]
  /\ DOMAIN Packets = Messages
  /\ \A m \in Messages :
       /\ Packets[m] \in Seq(AllPackets)
       /\ Len(Packets[m]) > 0
       /\ m \notin Stacks => Len(Packets[m]) = 1

Singles == Messages \ Stacks
Packet(m) == Packets[m][1]      \* the packet of a single message

\* Among the packets the program submits, "is about the same request" is
\* symmetric and transitive, and no packet of a stack is about the request of a
\* single message: the fragments of a long RTCM message have a flag the short
\* ones do not, and intervals are set by stacks only.
ASSUME CompareAssumption ==
  /\ \A m, n \in Singles :
       Compare(Packet(m), Packet(n)) => Compare(Packet(n), Packet(m))
  /\ \A l, m, n \in Singles :
       Compare(Packet(l), Packet(m)) /\ Compare(Packet(m), Packet(n))
         => Compare(Packet(l), Packet(n))
  /\ \A s \in Stacks : \A k \in 1 .. Len(Packets[s]) : \A m \in Singles :
       ~Compare(Packets[s][k], Packet(m))

VARIABLES
  m_send,      \* m_send[p]: the list of priority p
  turn,        \* the list the sender thread examines next
  started,     \* startMessaging() has created the sender thread
  fresh,       \* messages not submitted yet
  heard,       \* packets the vehicle may have sent back (delayed, repeated, lost)
  sent,        \* history: sent[m][k], transmissions of the k-th packet of m
  superseded,  \* history: single messages a newer submission is about
  overtaken    \* history: overtaken[p], lower-priority transmissions since
               \* list p was last examined, while it had a message to send

vars == <<m_send, turn, started, fresh, heard, sent, superseded, overtaken>>

-----------------------------------------------------------------------------
(* UavSendMessage: an entry of a list                                       *)

Entries == [msg : Messages, pos : Nat \ {0}, first : BOOLEAN, ticks : Int,
            due : BOOLEAN]

New(m) == [msg |-> m, pos |-> 1, first |-> TRUE, ticks |-> Ticks[m],
           due |-> FALSE]

Empty(e) == e.pos > Len(Packets[e.msg])
Front(e) == Packets[e.msg][e.pos]
Pop(e)   == [e EXCEPT !.pos = @ + 1]

Reset(e) == [e EXCEPT !.first = TRUE, !.ticks = Ticks[e.msg], !.due = FALSE]

\* Mutant: the last transmission is not counted.
TouchKeepsLast(e) == [e EXCEPT !.first = FALSE, !.due = FALSE,
                               !.ticks = IF @ > 1 THEN @ - 1 ELSE @]

Touch(e) == [e EXCEPT !.first = FALSE, !.due = FALSE,
                      !.ticks = IF @ > 0 THEN @ - 1 ELSE @]

IsReadyInterval(e) == e.first \/ e.due

\* Mutant: a stack that moves on keeps the counter of the packet before.
ExpireWithoutReset(e) == IF e.first \/ e.ticks # 0 THEN e ELSE Pop(e)

\* isReadyToDelete() on a non-empty entry; the entry is to be deleted if the
\* result is empty.  A reset entry is `first`, so the recursion stops there.
Expire(e) ==
  IF e.first \/ e.ticks # 0 THEN e
  ELSE IF Empty(Pop(e)) THEN Pop(e) ELSE Reset(Pop(e))

-----------------------------------------------------------------------------
(* The loops over a list                                                    *)

\* The loop replaces the entries of q by those of r one by one, and stops
\* after erasing the first that is empty.
Erasing(r) == {i \in DOMAIN r : Empty(r[i])}

\* Mutants: nothing is erased; the entry behind the erased one goes with it.
SweepErasesNothing(q, r) == r

SweepErasesTwo(q, r) ==
  IF Erasing(r) = {} THEN r
  ELSE LET d == Min(Erasing(r))
       IN  SubSeq(r, 1, d - 1) \o SubSeq(q, d + 2, Len(q))

Sweep(q, r) ==
  IF Erasing(r) = {} THEN r
  ELSE LET d == Min(Erasing(r))
       IN  SubSeq(r, 1, d - 1) \o SubSeq(q, d + 1, Len(q))

\* Mutant: the scan skips the first entry.
PoppedFromSecond(q, a) ==
  [i \in DOMAIN q |-> IF i > 1 /\ Compare(Front(q[i]), a) THEN Pop(q[i]) ELSE q[i]]

Popped(q, a) ==
  [i \in DOMAIN q |-> IF Compare(Front(q[i]), a) THEN Pop(q[i]) ELSE q[i]]

\* sendMessage and processFromParent: the entries that packet a is about are
\* popped, list by list, until one of them becomes empty and is erased.
PopMatching(a) ==
  [p \in Priorities |->
     IF \E h \in Priorities : h < p /\ Erasing(Popped(m_send[h], a)) # {}
     THEN m_send[p]
     ELSE Sweep(m_send[p], Popped(m_send[p], a))]

Expired(q) == [i \in DOMAIN q |-> Expire(q[i])]

-----------------------------------------------------------------------------
Init ==
  /\ m_send = [p \in Priorities |-> << >>]
  /\ turn = HIGHT
  /\ started = FALSE
  /\ fresh = Messages
  /\ heard = {}
  /\ sent = [m \in Messages |-> [k \in 1 .. Len(Packets[m]) |-> 0]]
  /\ superseded = {}
  /\ overtaken = [p \in Priorities |-> 0]

\* Mutant: every message is queued as urgent.
PushedFirst(lists, m) == [lists EXCEPT ![HIGHT] = Append(@, New(m))]

Pushed(lists, m) == [lists EXCEPT ![Prio[m]] = Append(@, New(m))]

\* UavProtocol::sendMessage.  A stack is not a MavlinkMessageType, so it
\* matches nothing that is pending.
SendMessage(m) ==
  /\ m \in fresh
  /\ fresh' = fresh \ {m}
  /\ m_send' = Pushed(IF m \in Stacks THEN m_send ELSE PopMatching(Packet(m)), m)
  /\ superseded' =
       IF m \in Stacks THEN superseded
       ELSE superseded \cup {n \in Singles \ fresh : Compare(Packet(n), Packet(m))}
  /\ UNCHANGED <<turn, started, heard, sent, overtaken>>

\* UavProtocol::processFromParent, for one packet of the vehicle.
ProcessFromParent(a) ==
  /\ a \in heard
  /\ m_send' = PopMatching(a)
  /\ UNCHANGED <<turn, started, fresh, heard, sent, superseded, overtaken>>

StartMessaging ==
  /\ ~started
  /\ started' = TRUE
  /\ UNCHANGED <<m_send, turn, fresh, heard, sent, superseded, overtaken>>

\* Mutants: LOW is followed by nothing; a pass goes on with the list it wrote
\* from; every pass ends after HIGHT.
ResumeUnwrapped(written) == IF written THEN HIGHT ELSE turn + 1

ResumeInPlace(written) ==
  IF written THEN turn ELSE IF turn = LOW THEN HIGHT ELSE turn + 1

ResumeHight(written) == HIGHT

\* UavProtocol::requestToSend(): what a list that had nothing to write is
\* followed by; the pass after a write starts from HIGHT.
Resume(written) == IF written \/ turn = LOW THEN HIGHT ELSE turn + 1

\* The sender thread finds the first entry of the list that is due ...
Sendable(q, i) ==
  /\ i \in DOMAIN q
  /\ IsReadyInterval(q[i])
  /\ \A j \in 1 .. i - 1 : ~IsReadyInterval(q[j]) /\ ~Empty(Expire(q[j]))

\* ... writes it, counts the transmission and looks at all the entries for one
\* to delete ...
Transmit ==
  /\ started
  /\ \E i \in DOMAIN m_send[turn] :
       LET q == m_send[turn]
           m == q[i].msg
       IN  /\ Sendable(q, i)
           /\ m_send' = [m_send EXCEPT ![turn] =
                           Sweep(q, Expired([q EXCEPT ![i] = Touch(@)]))]
           /\ heard' = heard \cup Answers(Front(q[i]))
           /\ sent' = [sent EXCEPT ![m][q[i].pos] =
                         IF Ticks[m] < 0 THEN 1 ELSE @ + 1]
  /\ turn' = Resume(TRUE)
  /\ overtaken' =
       [p \in Priorities |->
          IF p = turn THEN 0
          ELSE IF p < turn /\ \E i \in DOMAIN m_send[p] : IsReadyInterval(m_send[p][i])
               THEN overtaken[p] + 1
               ELSE overtaken[p]]
  /\ UNCHANGED <<started, fresh, superseded>>

\* ... or, when nothing of the list is due, goes on to the next list.
NothingDue ==
  /\ started
  /\ \A i \in DOMAIN m_send[turn] : ~Sendable(m_send[turn], i)
  /\ m_send' = [m_send EXCEPT ![turn] = Sweep(@, Expired(@))]
  /\ turn' = Resume(FALSE)
  /\ overtaken' = [overtaken EXCEPT ![turn] = 0]
  /\ UNCHANGED <<started, fresh, heard, sent, superseded>>

\* The interval of a message has passed since it was last sent.
Elapse(p, i) ==
  /\ i \in DOMAIN m_send[p]
  /\ ~IsReadyInterval(m_send[p][i])
  /\ m_send' = [m_send EXCEPT ![p][i].due = TRUE]
  /\ UNCHANGED <<turn, started, fresh, heard, sent, superseded, overtaken>>

Next ==
  \/ \E m \in Messages : SendMessage(m)
  \/ \E a \in heard : ProcessFromParent(a)
  \/ StartMessaging
  \/ Transmit
  \/ NothingDue
  \/ \E p \in Priorities : \E i \in DOMAIN m_send[p] : Elapse(p, i)

Spec == Init /\ [][Next]_vars

\* Real time.  A pass takes 5 ms and the intervals are 50 ms to 1 s, so the
\* interval of an entry does not pass while an entry served after it has been
\* waiting for its turn.  Time itself always goes on.
ServedAfter(p, i, h, j) == p < h \/ (p = h /\ i < j)

TimelyElapse(m) ==
  \E p \in Priorities : \E i \in DOMAIN m_send[p] :
    /\ m_send[p][i].msg = m
    /\ \A h \in Priorities : \A j \in DOMAIN m_send[h] :
         ServedAfter(p, i, h, j) => ~IsReadyInterval(m_send[h][j])
    /\ Elapse(p, i)

-----------------------------------------------------------------------------
(* Properties                                                               *)

InQueue(m) == \E p \in Priorities : \E i \in DOMAIN m_send[p] : m_send[p][i].msg = m
Ready(m) == \E p \in Priorities : \E i \in DOMAIN m_send[p] :
              m_send[p][i].msg = m /\ IsReadyInterval(m_send[p][i])

\* The type of every variable.
TypeOK ==
  /\ m_send \in [Priorities -> Seq(Entries)]
  /\ turn \in Priorities
  /\ started \in BOOLEAN
  /\ fresh \subseteq Messages
  /\ DOMAIN sent = Messages
  /\ \A m \in Messages : sent[m] \in [1 .. Len(Packets[m]) -> Nat]
  /\ superseded \subseteq Messages
  /\ overtaken \in [Priorities -> Nat]

\* Whatever the order of submissions, replies and transmissions, every entry
\* left in a list has a packet to send and a transmission left for it: the
\* erase-and-break loops of UavProtocol leave no exhausted entry behind.
NoExhaustedEntry ==
  \A p \in Priorities : \A i \in DOMAIN m_send[p] :
    LET e == m_send[p][i]
    IN  ~Empty(e) /\ (e.first \/ e.ticks # 0)

\* A message object is in one place of one list, the list of its priority, and
\* only after it was submitted: the lists never share a pointer that one of
\* them deletes.
OnePlace ==
  /\ \A p \in Priorities : \A i \in DOMAIN m_send[p] :
       Prio[m_send[p][i].msg] = p /\ m_send[p][i].msg \notin fresh
  /\ \A p \in Priorities : \A i, j \in DOMAIN m_send[p] :
       m_send[p][i].msg = m_send[p][j].msg => i = j

\* The latest submission wins: a single message that a later submission is
\* about (an ARM followed by a DISARM) is no longer in any list, although the
\* loop of sendMessage stops at the first entry it erases.
LatestWins ==
  \A p \in Priorities : \A i \in DOMAIN m_send[p] :
    m_send[p][i].msg \notin superseded

\* Two pending single messages are never about the same request.
OneRequestPending ==
  \A m, n \in Singles :
    InQueue(m) /\ InQueue(n) /\ Compare(Packet(m), Packet(n)) => m = n

\* No packet is transmitted more often than its message allows, also when
\* acknowledgements move a stack on in the middle of a round.
RetryBound ==
  \A m \in Messages : \A k \in 1 .. Len(Packets[m]) :
    Ticks[m] > 0 => sent[m][k] <= Ticks[m]

\* The sender releases the mutex between two lists, yet at most one packet of
\* lower priority overtakes a message that is due.
BoundedInversion == \A p \in Priorities : overtaken[p] <= 1

\* Every message that is due is sent or leaves the lists; in particular the
\* GCS heartbeat, queued once and for ever, goes on being sent.
DueIsServed == \A m \in Messages : (started /\ Ready(m)) ~> ~Ready(m)

\* What an answer removes was transmitted before: processFromParent has a log
\* line, commented out, that calls it ACCEPTED (UavProtocol.cpp:142).
AcceptedWasSent ==
  [][\A m \in Singles :
       InQueue(m) /\ ~InQueue(m)' /\ m \notin superseded'
         => sent'[m][1] > 0]_vars
=============================================================================
