--------------------------- MODULE SendQueueOutbox ---------------------------
(***************************************************************************)
(* SendQueue implements Outbox: the message pending for a subject is the   *)
(* one that is in some list.                                               *)
(***************************************************************************)
EXTENDS SendQueue

\* Messages with the same subject are the single messages that concern each
\* other; a stack has a subject of its own.
SubjectOf == [m \in Messages |->
  {m} \cup {n \in Singles : m \in Singles /\ Compare(Packet(m), Packet(n))}]

Pending == {m \in Messages : InQueue(m)}

AsOutbox == INSTANCE Outbox WITH
  Subject     <- SubjectOf,
  PacketCount <- [m \in Messages |-> Len(Packets[m])],
  Limit       <- [m \in Messages |-> IF Ticks[m] < 0 THEN 1 ELSE Ticks[m]],
  pending     <- Pending

\* The lists, their scans and the sender thread behave as an Outbox: a reply
\* or a submission settles at most the message it is about, and nothing that
\* was settled or replaced is transmitted.
ImplementsOutbox == AsOutbox!Spec
=============================================================================
