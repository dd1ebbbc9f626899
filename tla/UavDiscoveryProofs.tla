--------------------------- MODULE UavDiscoveryProofs ---------------------------
(***************************************************************************)
(* Theorems about UavDiscovery, for any vehicles and protocols: the        *)
(* invariants of the hand-over from the router to the protocol, and of the *)
(* announcements of the vehicles to the leafs, and that it all implements  *)
(* Registry.                                                               *)
(***************************************************************************)
EXTENDS DiscoveryRegistry, TLAPS, SequenceTheorems

-----------------------------------------------------------------------------
(* The choice of a protocol                                                 *)

\* The protocols that are popped from the back are deleted, but for the chosen one.
Deletion ==
  \E n \in 0..Len(Protos) :
    /\ m_protos = SubSeq(Protos, 1, n)
    /\ deleted = {Protos[i] : i \in (n + 1)..Len(Protos)} \ {m_protocol}

\* What tells the state before the choice from that after it.  Nothing but the
\* router hears of the connection before it, and nothing is left to try after it.
Choice ==
  IF m_protocol = None
  THEN /\ router \in {"search", "asleep", "try", "check", "found", "detached"}
       /\ m_protos = Protos
       /\ deleted = {}
       /\ m_childs \subseteq {Router}
       /\ router = "detached" => m_childs = {}
       /\ \A d \in inflight : d.to = Router
       /\ router \in {"check", "found", "detached"} => trial.at \in DOMAIN Protos
  ELSE IF router \in {"popping", "joining"}
  THEN /\ Deletion
       /\ m_childs = {}
       /\ \A d \in inflight : d.to = Router
       /\ router = "joining" => m_protos # << >> /\ LastProto # m_protocol
  ELSE /\ router \in {"chosen", "announced", "registered", "attached", "ready", "drain",
                      "try", "done"}
       /\ m_protos = << >>
       /\ deleted = Protocols \ {m_protocol}
       /\ m_childs \subseteq {m_protocol}
       /\ \A d \in inflight : d.to \in {Router, m_protocol}

\* The readers of deleted protocols have ended.
Ended == \A p \in deleted : reader[p].at = "ended"

\* A reader at work has a vehicle that it has made an autopilot for, and the
\* vehicle is registered when the handlers are told of it.
Readers ==
  \A p \in Protocols :
    /\ m_uavs[p] \subseteq m_modes[p]
    /\ AtWork(p) => reader[p].v \in m_modes[p]
    /\ reader[p].at \in {"found", "valid"} => reader[p].v \notin m_uavs[p]
    /\ reader[p].at = "inserted" => reader[p].v \in m_uavs[p]

Inv == TypeOK /\ Choice /\ Ended /\ Readers

LEMMA Names ==
  /\ None \notin Protocols /\ Router \notin Protocols
  /\ \A i \in DOMAIN Protos : Protos[i] \in Protocols
  /\ DOMAIN << >> = {}
BY DiscoveryAssumption DEF Protocols

\* Popping a protocol from what is left of them.
LEMMA PopPrefix ==
  ASSUME NEW n \in 0..Len(Protos), SubSeq(Protos, 1, n) # << >>
  PROVE  /\ n \in 1..Len(Protos)
         /\ Len(SubSeq(Protos, 1, n)) = n
         /\ SubSeq(Protos, 1, n)[n] = Protos[n]
         /\ SubSeq(SubSeq(Protos, 1, n), 1, n - 1) = SubSeq(Protos, 1, n - 1)
<1>1. Protos \in Seq(Protocols) /\ Len(Protos) \in Nat
  BY DiscoveryAssumption
<1>2. /\ SubSeq(Protos, 1, n) \in Seq(Protocols)
      /\ Len(SubSeq(Protos, 1, n)) = n
      /\ \A i \in 1..n : SubSeq(Protos, 1, n)[i] = Protos[i]
  BY <1>1
<1>3. n # 0
  BY <1>2, EmptySeq
<1>4. PICK q \in Seq(Protocols) : q = SubSeq(Protos, 1, n)
  BY <1>2
<1>5. Len(q) = n /\ \A i \in 1..n : q[i] = Protos[i]
  BY <1>2, <1>4
<1>6. SubSeq(q, 1, n - 1) = SubSeq(Protos, 1, n - 1)
  <2>1. /\ SubSeq(q, 1, n - 1) \in Seq(Protocols) /\ Len(SubSeq(q, 1, n - 1)) = n - 1
        /\ \A i \in 1..(n - 1) : SubSeq(q, 1, n - 1)[i] = q[i]
    BY <1>3, <1>5
  <2>2. /\ SubSeq(Protos, 1, n - 1) \in Seq(Protocols)
        /\ Len(SubSeq(Protos, 1, n - 1)) = n - 1
        /\ \A i \in 1..(n - 1) : SubSeq(Protos, 1, n - 1)[i] = Protos[i]
    BY <1>1, <1>3
  <2> QED  BY <1>5, <2>1, <2>2, SeqEqual
<1> QED  BY <1>2, <1>3, <1>4, <1>6

LEMMA WholePrefix == SubSeq(Protos, 1, Len(Protos)) = Protos
<1>1. Protos \in Seq(Protocols) /\ Len(Protos) \in Nat
  BY DiscoveryAssumption
<1>2. /\ SubSeq(Protos, 1, Len(Protos)) \in Seq(Protocols)
      /\ Len(SubSeq(Protos, 1, Len(Protos))) = Len(Protos)
      /\ \A i \in 1..Len(Protos) : SubSeq(Protos, 1, Len(Protos))[i] = Protos[i]
  BY <1>1
<1> QED  BY <1>1, <1>2, SeqEqual

LEMMA AppendType ==
  ASSUME NEW S, NEW s \in Seq(S), NEW e \in S
  PROVE  Append(s, e) \in Seq(S)
OBVIOUS

\* A sequence that is not empty, without its last element.
LEMMA FrontType ==
  ASSUME NEW S, NEW s \in Seq(S), s # << >>
  PROVE  /\ SubSeq(s, 1, Len(s) - 1) \in Seq(S)
         /\ s[Len(s)] \in S
<1>1. Len(s) \in Nat /\ Len(s) # 0
  BY EmptySeq, LenProperties
<1>2. Len(s) \in 1 .. Len(s) /\ 1 .. Len(s) = DOMAIN s
  BY <1>1, LenProperties
<1>3. s[Len(s)] \in S
  BY <1>2, ElementOfSeq
<1>4. SubSeq(s, 1, Len(s) - 1) \in Seq(S)
  BY <1>1
<1> QED  BY <1>3, <1>4

LEMMA InitInv == Init => Inv
<1> SUFFICES ASSUME Init PROVE Inv
  OBVIOUS
<1>1. TypeOK
  <2>1. m_protos \in Prefixes
    <3>1. m_protos = SubSeq(Protos, 1, Len(Protos))
      BY WholePrefix DEF Init
    <3>2. Len(Protos) \in 0..Len(Protos)
      BY DiscoveryAssumption
    <3> QED  BY <3>1, <3>2 DEF Prefixes
  <2>2. router \in RouterPlaces /\ trial \in [from : Vehicles \cup {0}, at : Nat]
    BY DEF Init, NoTrial, RouterPlaces
  <2>3. /\ store \in [Protocols -> Seq(Vehicles)] /\ m_buffer \in Seq(Vehicles)
        /\ announced \in [Vehicles -> Nat] /\ cursor \in Vehicles \cup {-1}
        /\ messaging \in [parent : BOOLEAN, started : BOOLEAN]
    BY DEF Init
  <2>4. /\ reader \in [Protocols -> [at : {"idle", "found", "valid", "inserted", "ended"},
                                     v : Vehicles \cup {0}]]
        /\ m_valid \in [Protocols -> BOOLEAN] /\ handlers \in [Protocols -> BOOLEAN]
        /\ m_modes \in [Protocols -> SUBSET Vehicles]
        /\ m_uavs \in [Protocols -> SUBSET Vehicles]
    BY DEF Init
  <2>5. /\ m_childs \subseteq Protocols \cup {Router} /\ deleted \subseteq Protocols
        /\ inflight \subseteq [to : Protocols \cup {Router}, from : Vehicles]
        /\ m_protocol \in Protocols \cup {None}
        /\ overlapped \subseteq Vehicles /\ crashed \in BOOLEAN
    BY DEF Init
  <2> QED  BY <2>1, <2>2, <2>3, <2>4, <2>5 DEF TypeOK
<1>2. Choice
  BY DEF Init, Choice
<1>3. Ended /\ Readers
  BY DEF Init, Ended, Readers, AtWork
<1> QED  BY <1>1, <1>2, <1>3 DEF Inv

\* A step of a thread that is not a reader.
LEMMA ReadersKept ==
  ASSUME Readers, UNCHANGED readerVars
  PROVE  Readers'
BY DEF Readers, AtWork, readerVars

\* A chunk that arrives, and a chunk that is handed over.
LEMMA ReceiveInv ==
  ASSUME Inv, crashed' \in BOOLEAN, NEW v \in Vehicles, Receive(v)
  PROVE  Inv'
<1>1. TypeOK'
  BY DEF Inv, TypeOK, Receive, routerVars, choiceVars, protocolVars, readerVars, historyVars
<1>2. Choice' /\ Ended'
  BY DEF Inv, Choice, Deletion, Ended, LastProto, Receive, routerVars, choiceVars,
         protocolVars, readerVars, historyVars
<1>3. Readers'
  BY ReadersKept DEF Inv, Receive, protocolVars
<1> QED  BY <1>1, <1>2, <1>3 DEF Inv

LEMMA ParseType ==
  ASSUME TypeOK, NEW p \in Protocols, NEW v \in Vehicles, Parse(p, v)
  PROVE  /\ store' \in [Protocols -> Seq(Vehicles)]
         /\ \A o \in Protocols : o # p => store'[o] = store[o]
<1>1. store \in [Protocols -> Seq(Vehicles)] /\ Append(store[p], v) \in Seq(Vehicles)
  BY AppendType DEF TypeOK
<1> QED  BY <1>1 DEF Parse

LEMMA HandOverInv ==
  ASSUME Inv, crashed' \in BOOLEAN, NEW d \in inflight, HandOver(d)
  PROVE  Inv'
<1>1. d.to \in Protocols \cup {Router} /\ d.from \in Vehicles
  BY DEF Inv, TypeOK
<1>2. /\ store' \in [Protocols -> Seq(Vehicles)] /\ m_buffer' \in Seq(Vehicles)
      /\ \A o \in Protocols : o # d.to => store'[o] = store[o]
  <2>1. CASE d.to = Router
    <3>1. Append(m_buffer, d.from) \in Seq(Vehicles)
      BY <1>1, AppendType DEF Inv, TypeOK
    <3> QED  BY <2>1, <3>1 DEF HandOver, Inv, TypeOK
  <2>2. CASE d.to # Router
    <3>1. Parse(d.to, d.from) /\ d.to \in Protocols /\ m_buffer' = m_buffer
      BY <1>1, <2>2 DEF HandOver
    <3> QED  BY <1>1, <3>1, ParseType DEF Inv, TypeOK
  <2> QED  BY <2>1, <2>2
<1>3. TypeOK'
  BY <1>2 DEF Inv, TypeOK, HandOver, routerVars, choiceVars, readerVars, historyVars
<1>4. Choice'
  BY DEF Inv, Choice, Deletion, LastProto, HandOver, routerVars, choiceVars
<1>5. d.to \notin deleted
  BY Names DEF Inv, Choice, TypeOK
<1>6. Ended'
  BY <1>2, <1>5 DEF Inv, Ended, TypeOK, HandOver, routerVars, choiceVars, readerVars
<1>7. Readers'
  BY ReadersKept DEF Inv, HandOver
<1> QED  BY <1>3, <1>4, <1>6, <1>7 DEF Inv

-----------------------------------------------------------------------------
(* The router's thread                                                      *)

LEMMA TakeChunkInv ==
  ASSUME Inv, crashed' \in BOOLEAN, TakeChunk
  PROVE  Inv'
<1>1. m_buffer' \in Seq(Vehicles) /\ trial' \in [from : Vehicles \cup {0}, at : Nat]
  BY FrontType DEF Inv, TypeOK, TakeChunk
<1>2. TypeOK'
  BY <1>1 DEF Inv, TypeOK, TakeChunk, choiceVars, protocolVars, readerVars, historyVars,
              RouterPlaces
<1>3. Choice' /\ Ended'
  BY DEF Inv, Choice, Deletion, Ended, LastProto, TakeChunk, choiceVars,
         protocolVars, readerVars
<1>4. Readers'
  BY ReadersKept DEF Inv, TakeChunk, protocolVars
<1> QED  BY <1>2, <1>3, <1>4 DEF Inv

LEMMA TryProtocolInv ==
  ASSUME Inv, crashed' \in BOOLEAN, TryProtocol
  PROVE  Inv'
<1>1. m_protocol = None /\ m_protos = Protos /\ deleted = {}
  BY Names DEF Inv, Choice, TryProtocol, Goto
<1>2. PICK p \in Protocols : p = m_protos[trial.at]
  BY <1>1, Names DEF TryProtocol
<1>3. trial.from \in Vehicles \cup {0}
  BY DEF Inv, TypeOK
<1>4. store' \in [Protocols -> Seq(Vehicles)]
  <2>1. CASE trial.from \in Vehicles
    BY <1>2, <2>1, ParseType DEF TryProtocol, Inv
  <2>2. CASE trial.from \notin Vehicles
    <3>1. trial.from \notin Understands[p]
      BY <2>2, DiscoveryAssumption
    <3> QED  BY <1>2, <3>1 DEF TryProtocol, Parse, Inv, TypeOK
  <2> QED  BY <2>1, <2>2
<1>5. TypeOK'
  BY <1>4 DEF Inv, TypeOK, TryProtocol, Goto, linkVars, choiceVars, readerVars, historyVars,
              RouterPlaces
<1>6. Choice' /\ Ended'
  BY <1>1 DEF Inv, Choice, Ended, TryProtocol, Goto, linkVars, choiceVars
<1>7. Readers'
  BY ReadersKept DEF Inv, TryProtocol
<1> QED  BY <1>5, <1>6, <1>7 DEF Inv

\* The steps that move the router and change nothing else but the trial.
LEMMA SearchInv ==
  ASSUME Inv, crashed' \in BOOLEAN, AllTried \/ CheckValid \/ SayHello \/ WakeUp \/ RouterEnds
  PROVE  Inv'
<1>1. UNCHANGED <<linkVars, choiceVars, protocolVars>>
  BY DEF AllTried, CheckValid, SayHello, WakeUp, RouterEnds
<1>2. trial' \in [from : Vehicles \cup {0}, at : Nat] /\ router' \in RouterPlaces
  <2>1. trial' \in {trial, NoTrial, [trial EXCEPT !.at = @ + 1]}
    BY DEF AllTried, CheckValid, SayHello, WakeUp, RouterEnds
  <2>2. router' \in {"search", "asleep", "try", "found", "drain", "done"}
    BY DEF AllTried, CheckValid, SayHello, WakeUp, RouterEnds, Goto
  <2>3. trial \in [from : Vehicles \cup {0}, at : Nat] /\ NoTrial \in [from : {0}, at : Nat]
    BY DEF Inv, TypeOK, NoTrial
  <2>4. trial' \in [from : Vehicles \cup {0}, at : Nat]
    BY <2>1, <2>3
  <2> QED  BY <2>2, <2>4 DEF RouterPlaces
<1>3. TypeOK'
  BY <1>1, <1>2 DEF Inv, TypeOK, linkVars, choiceVars, protocolVars, readerVars, historyVars
<1>4. Choice'
  BY <1>1 DEF Inv, Choice, AllTried, CheckValid, SayHello, WakeUp, RouterEnds, Goto, linkVars,
              choiceVars
<1>5. Ended'
  BY <1>1 DEF Inv, Ended, choiceVars, protocolVars, readerVars
<1>6. Readers'
  BY <1>1, ReadersKept DEF Inv, protocolVars
<1> QED  BY <1>3, <1>4, <1>5, <1>6 DEF Inv

LEMMA DetachInv ==
  ASSUME Inv, crashed' \in BOOLEAN, Detach
  PROVE  Inv'
<1>1. TypeOK'
  BY DEF Inv, TypeOK, Detach, Goto, choiceVars, protocolVars, readerVars, historyVars,
         RouterPlaces
<1>2. Choice'
  BY DEF Inv, Choice, Detach, Goto, choiceVars
<1>3. Ended'
  BY DEF Inv, Ended, Detach, choiceVars, protocolVars, readerVars
<1>4. Readers'
  BY ReadersKept DEF Inv, Detach, protocolVars
<1> QED  BY <1>1, <1>2, <1>3, <1>4 DEF Inv

LEMMA ChooseInv ==
  ASSUME Inv, crashed' \in BOOLEAN, Choose
  PROVE  Inv'
<1>1. /\ m_protocol = None /\ m_protos = Protos /\ m_childs = {} /\ deleted = {}
      /\ \A d \in inflight : d.to = Router
      /\ trial.at \in DOMAIN Protos
  BY DEF Inv, Choice, Choose, Goto
<1>2. PICK p \in Protocols : p = m_protos[trial.at]
  BY <1>1, Names
<1>3. /\ m_protocol' = p /\ router' = "popping" /\ m_buffer' = << >>
      /\ UNCHANGED <<m_childs, inflight, trial, m_protos, deleted, cursor, messaging,
                     protocolVars>>
  BY <1>2 DEF Choose, Goto
<1>4. TypeOK'
  BY <1>3 DEF Inv, TypeOK, protocolVars, readerVars, historyVars, RouterPlaces
<1>5. Deletion'
  <2>1. Len(Protos) \in 0..Len(Protos) /\ (Len(Protos) + 1)..Len(Protos) = {}
    BY DiscoveryAssumption
  <2>2. deleted' = {Protos[i] : i \in (Len(Protos) + 1)..Len(Protos)} \ {p}
    BY <1>1, <1>3, <2>1
  <2> QED  BY <1>1, <1>3, <2>1, <2>2, WholePrefix DEF Deletion
<1>6. Choice'
  BY <1>1, <1>3, <1>5, Names DEF Choice
<1>7. Ended'
  BY <1>1, <1>3 DEF Ended
<1>8. Readers'
  BY <1>3, ReadersKept DEF Inv, protocolVars
<1> QED  BY <1>4, <1>6, <1>7, <1>8 DEF Inv

\* A protocol is popped: it is deleted, unless it is the chosen one.
LEMMA PopInv ==
  ASSUME Inv, crashed' \in BOOLEAN, PopChosen \/ Delete
  PROVE  Inv'
<1>1. /\ router \in {"popping", "joining"} /\ m_protos # << >> /\ m_protocol # None
      /\ Deletion /\ m_childs = {} /\ \A d \in inflight : d.to = Router
  BY DEF Inv, Choice, PopChosen, Delete, Goto
<1>2. PICK n \in 0..Len(Protos) :
        /\ m_protos = SubSeq(Protos, 1, n)
        /\ deleted = {Protos[i] : i \in (n + 1)..Len(Protos)} \ {m_protocol}
  BY <1>1 DEF Deletion
<1>3. /\ n \in 1..Len(Protos) /\ LastProto = Protos[n] /\ Popped = SubSeq(Protos, 1, n - 1)
  BY <1>1, <1>2, PopPrefix DEF LastProto, Popped
<1>4. /\ m_protos' = Popped /\ router' = "popping"
      /\ UNCHANGED <<linkVars, trial, m_protocol, cursor, messaging, protocolVars>>
      /\ deleted' = (deleted \cup {LastProto}) \ {m_protocol}
      /\ \A p \in deleted' \ deleted : p = LastProto /\ reader[p].at = "ended"
  BY <1>1, <1>2 DEF PopChosen, Delete, Goto, Inv, Choice
<1>5. n - 1 \in 0..Len(Protos) /\ n - 1 + 1 = n /\ Len(Protos) \in Nat
  BY <1>3, DiscoveryAssumption
<1>6. Deletion'
  <2>1. {Protos[i] : i \in n..Len(Protos)}
          = {Protos[i] : i \in (n + 1)..Len(Protos)} \cup {Protos[n]}
    BY <1>3, <1>5
  <2>2. deleted' = {Protos[i] : i \in n..Len(Protos)} \ {m_protocol}
    BY <1>2, <1>3, <1>4, <2>1
  <2> QED  BY <1>3, <1>4, <1>5, <2>2 DEF Deletion
<1>7. Protos[n] \in Protocols
  BY <1>3, DiscoveryAssumption DEF Protocols
<1>8. TypeOK'
  <2>1. m_protos' \in Prefixes
    BY <1>3, <1>4, <1>5 DEF Prefixes
  <2> QED  BY <1>3, <1>4, <1>7, <2>1
     DEF Inv, TypeOK, linkVars, protocolVars, readerVars, historyVars, RouterPlaces
<1>9. Choice'
  BY <1>1, <1>4, <1>6 DEF Choice, linkVars
<1>10. Ended'
  BY <1>4 DEF Inv, Ended, protocolVars, readerVars
<1>11. Readers'
  BY <1>4, ReadersKept DEF Inv, protocolVars
<1> QED  BY <1>8, <1>9, <1>10, <1>11 DEF Inv

LEMMA StopReaderInv ==
  ASSUME Inv, crashed' \in BOOLEAN, StopReader
  PROVE  Inv'
<1>1. TypeOK'
  BY DEF Inv, TypeOK, StopReader, Goto, linkVars, choiceVars, protocolVars, readerVars,
         historyVars, RouterPlaces
<1>2. Choice'
  BY DEF Inv, Choice, Deletion, LastProto, StopReader, Goto, linkVars, choiceVars
<1>3. Ended' /\ Readers'
  BY ReadersKept DEF Inv, Ended, StopReader, choiceVars, protocolVars, readerVars
<1> QED  BY <1>1, <1>2, <1>3 DEF Inv

LEMMA AllPoppedInv ==
  ASSUME Inv, crashed' \in BOOLEAN, AllPopped
  PROVE  Inv'
<1>1. /\ m_protos = << >> /\ m_protocol # None /\ router' = "chosen"
      /\ Deletion /\ m_childs = {} /\ \A d \in inflight : d.to = Router
      /\ UNCHANGED <<linkVars, trial, choiceVars, protocolVars>>
  BY DEF Inv, Choice, AllPopped, Goto
<1>2. deleted = Protocols \ {m_protocol}
  <2>1. PICK n \in 0..Len(Protos) :
          /\ m_protos = SubSeq(Protos, 1, n)
          /\ deleted = {Protos[i] : i \in (n + 1)..Len(Protos)} \ {m_protocol}
    BY <1>1 DEF Deletion
  <2>2. n = 0
    <3>1. Len(SubSeq(Protos, 1, n)) = n
      BY DiscoveryAssumption
    <3> QED  BY <1>1, <2>1, <3>1
  <2>3. Protocols = {Protos[i] : i \in (n + 1)..Len(Protos)}
    BY <2>2, DiscoveryAssumption DEF Protocols
  <2> QED  BY <2>1, <2>3
<1>3. TypeOK'
  BY <1>1 DEF Inv, TypeOK, linkVars, choiceVars, protocolVars, readerVars, historyVars,
              RouterPlaces
<1>4. Choice'
  BY <1>1, <1>2 DEF Choice, linkVars, choiceVars
<1>5. Ended' /\ Readers'
  BY <1>1, ReadersKept DEF Inv, Ended, choiceVars, protocolVars, readerVars
<1> QED  BY <1>3, <1>4, <1>5 DEF Inv

LEMMA RegistrationType ==
  ASSUME TypeOK, Readers, NEW p \in Protocols
  PROVE  /\ InRegistration(p) \subseteq Vehicles
         /\ m_uavs[p] \subseteq Vehicles
BY DEF TypeOK, Readers, InRegistration, AtWork

\* The steps that tell the handler of the vehicles.
LEMMA AnnounceInv ==
  ASSUME Inv, crashed' \in BOOLEAN, AnnounceKnown \/ AllAnnounced \/ RegisterHandler
  PROVE  Inv'
<1>1. m_protocol # None /\ m_protocol \in Protocols
  BY DEF Inv, TypeOK, Choice, AnnounceKnown, AllAnnounced, RegisterHandler, Goto
<1>2. InRegistration(m_protocol) \subseteq Vehicles /\ m_uavs[m_protocol] \subseteq Vehicles
  BY <1>1, RegistrationType DEF Inv
<1>3. /\ UNCHANGED <<linkVars, trial, m_protos, m_protocol, deleted, store, readerVars,
                     messaging>>
      /\ router \in {"chosen", "announced"}
      /\ router' \in {"chosen", "announced", "registered"}
      /\ overlapped' = overlapped \cup InRegistration(m_protocol)
      /\ handlers' \in [Protocols -> BOOLEAN]
  BY <1>1 DEF AnnounceKnown, AllAnnounced, RegisterHandler, Goto, choiceVars, Inv, TypeOK
<1>4. cursor' \in Vehicles \cup {-1} /\ announced' \in [Vehicles -> Nat]
  <2>1. CASE AnnounceKnown
    <3>1. PICK v \in Unvisited : cursor' = v /\ announced' = [announced EXCEPT ![v] = @ + 1]
      BY <2>1 DEF AnnounceKnown, OnCreateUav
    <3>2. v \in Vehicles
      BY <1>2 DEF Unvisited
    <3> QED  BY <3>1, <3>2 DEF Inv, TypeOK
  <2>2. CASE AllAnnounced \/ RegisterHandler
    BY <2>2 DEF AllAnnounced, RegisterHandler, choiceVars, Inv, TypeOK
  <2> QED  BY <2>1, <2>2
<1>5. TypeOK'
  BY <1>2, <1>3, <1>4 DEF Inv, TypeOK, linkVars, readerVars, RouterPlaces
<1>6. Choice'
  BY <1>1, <1>3 DEF Inv, Choice, linkVars
<1>7. Ended' /\ Readers'
  BY <1>3, ReadersKept DEF Inv, Ended, readerVars
<1> QED  BY <1>5, <1>6, <1>7 DEF Inv

\* The steps that put the protocol into the router's place.
LEMMA AttachInv ==
  ASSUME Inv, crashed' \in BOOLEAN, Attach \/ SetParent \/ StartMessaging
  PROVE  Inv'
<1>1. /\ m_protocol # None /\ m_protocol \in Protocols
      /\ router \in {"registered", "attached", "ready"}
  BY DEF Inv, TypeOK, Choice, Attach, SetParent, StartMessaging, Goto
<1>2. /\ UNCHANGED <<inflight, m_buffer, trial, m_protos, m_protocol, deleted, cursor,
                     protocolVars>>
      /\ router' \in {"attached", "ready", "drain"}
      /\ m_childs' \in {m_childs, m_childs \cup {m_protocol}}
      /\ messaging' \in [parent : BOOLEAN, started : BOOLEAN]
  BY DEF Attach, SetParent, StartMessaging, Goto, linkVars, choiceVars, Inv, TypeOK
<1>3. TypeOK'
  <2>1. m_childs' \subseteq Protocols \cup {Router} /\ router' \in RouterPlaces
    BY <1>1, <1>2 DEF Inv, TypeOK, RouterPlaces
  <2> QED  BY <1>1, <1>2, <2>1 DEF Inv, TypeOK, protocolVars, readerVars, historyVars
<1>4. Choice'
  BY <1>1, <1>2 DEF Inv, Choice
<1>5. Ended' /\ Readers'
  BY <1>2, ReadersKept DEF Inv, Ended, protocolVars, readerVars
<1> QED  BY <1>3, <1>4, <1>5 DEF Inv

-----------------------------------------------------------------------------
(* The readers                                                              *)

\* Where a reader is, and with which vehicle.
ReaderStates == [at : {"idle", "found", "valid", "inserted", "ended"}, v : Vehicles \cup {0}]

LEMMA ReaderType ==
  ASSUME TypeOK, NEW p \in Protocols, NEW r \in ReaderStates
  PROVE  [reader EXCEPT ![p] = r] \in [Protocols -> ReaderStates]
<1>1. reader \in [Protocols -> ReaderStates]
  BY DEF TypeOK, ReaderStates
<1> QED  BY <1>1

LEMMA ReaderMoves ==
  ASSUME TypeOK, NEW p \in Protocols, NEW at \in {"idle", "found", "valid", "inserted", "ended"}
  PROVE  [reader EXCEPT ![p].at = at] \in [Protocols -> ReaderStates]
<1>1. reader[p] \in ReaderStates
  BY DEF TypeOK, ReaderStates
<1>2. [reader[p] EXCEPT !.at = at] \in ReaderStates
  BY <1>1 DEF ReaderStates
<1>3. [reader EXCEPT ![p].at = at] = [reader EXCEPT ![p] = [reader[p] EXCEPT !.at = at]]
  OBVIOUS
<1> QED  BY <1>2, <1>3, ReaderType

LEMMA TakePacketInv ==
  ASSUME Inv, crashed' \in BOOLEAN, NEW p \in Protocols, TakePacket(p)
  PROVE  Inv'
<1> DEFINE v == store[p][Len(store[p])]
           rest == SubSeq(store[p], 1, Len(store[p]) - 1)
<1>1. rest \in Seq(Vehicles) /\ v \in Vehicles
  BY FrontType DEF Inv, TypeOK, TakePacket
<1>2. /\ reader[p].at = "idle"
      /\ store' = [store EXCEPT ![p] = rest]
      /\ overlapped' \in {overlapped, overlapped \cup {v}}
      /\ UNCHANGED <<linkVars, routerVars, m_valid, m_uavs, handlers, announced>>
  BY DEF TakePacket
<1>3. \/ UNCHANGED <<reader, m_modes>>
      \/ /\ v \notin m_modes[p]
         /\ m_modes' = [m_modes EXCEPT ![p] = @ \cup {v}]
         /\ reader' = [reader EXCEPT ![p] = [at |-> "found", v |-> v]]
  BY DEF TakePacket
<1> HIDE DEF v, rest
<1>4. TypeOK'
  <2>1. /\ store' \in [Protocols -> Seq(Vehicles)]
        /\ overlapped' \subseteq Vehicles
    BY <1>1, <1>2 DEF Inv, TypeOK
  <2>2. m_modes' \in [Protocols -> SUBSET Vehicles]
    <3>1. m_modes[p] \cup {v} \in SUBSET Vehicles
      BY <1>1 DEF Inv, TypeOK
    <3> QED  BY <1>3, <3>1 DEF Inv, TypeOK
  <2>3. reader' \in [Protocols -> ReaderStates]
    <3>1. [at |-> "found", v |-> v] \in ReaderStates
      BY <1>1 DEF ReaderStates
    <3>2. /\ [reader EXCEPT ![p] = [at |-> "found", v |-> v]] \in [Protocols -> ReaderStates]
          /\ reader \in [Protocols -> ReaderStates]
      BY <3>1, ReaderType DEF Inv, TypeOK, ReaderStates
    <3> QED  BY <1>3, <3>2
  <2> QED  BY <1>2, <2>1, <2>2, <2>3 DEF ReaderStates, Inv, TypeOK, linkVars, routerVars,
                                          choiceVars
<1>5. Choice'
  BY <1>2 DEF Inv, Choice, Deletion, LastProto, linkVars, routerVars, choiceVars
<1>6. Ended'
  BY <1>2, <1>3 DEF Inv, TypeOK, Ended, routerVars, choiceVars
<1>7. Readers'
  BY <1>1, <1>2, <1>3 DEF Inv, TypeOK, Readers, AtWork
<1> QED  BY <1>4, <1>5, <1>6, <1>7 DEF Inv

\* The steps of a reader that registers a vehicle.
LEMMA AddingInv ==
  ASSUME Inv, crashed' \in BOOLEAN, NEW p \in Protocols,
         Validate(p) \/ InsertUav(p) \/ NotifyHandlers(p)
  PROVE  Inv'
<1>1. /\ AtWork(p)
      /\ UNCHANGED <<linkVars, routerVars, store, m_modes, handlers, overlapped>>
      /\ \E at \in {"idle", "valid", "inserted"} : reader' = [reader EXCEPT ![p].at = at]
  BY DEF Validate, InsertUav, NotifyHandlers, Adding, AtWork, historyVars
<1>2. reader[p].v \in Vehicles /\ reader[p].v \in m_modes[p]
  BY <1>1 DEF Inv, Readers, TypeOK
<1>3. /\ m_valid' \in [Protocols -> BOOLEAN]
      /\ m_uavs' \in [Protocols -> SUBSET Vehicles]
      /\ announced' \in [Vehicles -> Nat]
  <2>1. CASE Validate(p)
    BY <2>1 DEF Inv, TypeOK, Validate, historyVars
  <2>2. CASE InsertUav(p)
    <3>1. m_uavs[p] \cup {reader[p].v} \in SUBSET Vehicles
      BY <1>2 DEF Inv, TypeOK
    <3>2. m_uavs' = [m_uavs EXCEPT ![p] = m_uavs[p] \cup {reader[p].v}]
      BY <2>2 DEF InsertUav, Registered
    <3> QED  BY <2>2, <3>1, <3>2 DEF Inv, TypeOK, InsertUav, historyVars
  <2>3. CASE NotifyHandlers(p)
    <3>1. announced' \in {announced, [announced EXCEPT ![reader[p].v] = @ + 1]}
      BY <2>3 DEF NotifyHandlers, OnCreateUav
    <3>2. [announced EXCEPT ![reader[p].v] = @ + 1] \in [Vehicles -> Nat]
      BY <1>2 DEF Inv, TypeOK
    <3> QED  BY <2>3, <3>1, <3>2 DEF Inv, TypeOK, NotifyHandlers
  <2> QED  BY <2>1, <2>2, <2>3
<1>4. TypeOK'
  <2>1. reader' \in [Protocols -> ReaderStates]
    <3>1. PICK at \in {"idle", "valid", "inserted"} : reader' = [reader EXCEPT ![p].at = at]
      BY <1>1
    <3>2. [reader EXCEPT ![p].at = at] \in [Protocols -> ReaderStates]
      BY ReaderMoves DEF Inv
    <3> QED  BY <3>1, <3>2, Zenon
  <2> QED  BY <1>1, <1>3, <2>1 DEF ReaderStates, Inv, TypeOK, linkVars, routerVars, choiceVars
<1>5. Choice'
  BY <1>1 DEF Inv, Choice, Deletion, LastProto, linkVars, routerVars, choiceVars
<1>6. Ended'
  BY <1>1 DEF Inv, TypeOK, Ended, AtWork, routerVars, choiceVars
<1>7. Readers'
  BY <1>1, <1>2 DEF Inv, TypeOK, Readers, AtWork, Validate, InsertUav, NotifyHandlers, Adding,
                    Registered
<1> QED  BY <1>4, <1>5, <1>6, <1>7 DEF Inv

\* The reader of a protocol that is being deleted ends.
LEMMA EndReaderInv ==
  ASSUME Inv, crashed' \in BOOLEAN, NEW p \in Protocols, EndReader(p)
  PROVE  Inv'
<1>1. /\ reader[p].at = "idle" /\ reader' = [reader EXCEPT ![p].at = "ended"]
      /\ UNCHANGED <<linkVars, routerVars, store, m_valid, m_modes, m_uavs, handlers,
                     historyVars>>
  BY DEF EndReader, Adding
<1>2. reader' \in [Protocols -> ReaderStates]
  BY <1>1, ReaderMoves DEF Inv
<1>3. TypeOK'
  BY <1>1, <1>2 DEF ReaderStates, Inv, TypeOK, linkVars, routerVars, choiceVars, historyVars
<1>4. Choice'
  BY <1>1 DEF Inv, Choice, Deletion, LastProto, linkVars, routerVars, choiceVars
<1>5. Ended'
  BY <1>1 DEF Inv, TypeOK, Ended, routerVars, choiceVars
<1>6. Readers'
  BY <1>1 DEF Inv, TypeOK, Readers, AtWork
<1> QED  BY <1>3, <1>4, <1>5, <1>6 DEF Inv

-----------------------------------------------------------------------------
LEMMA NextInv == Inv /\ [Next]_vars => Inv'
<1> SUFFICES ASSUME Inv, [Next]_vars PROVE Inv'
  OBVIOUS
<1>1. crashed' \in BOOLEAN
  BY DEF Inv, TypeOK, Next, Receiving, HandingOver, RouterRuns, ReaderRuns, Up, Crash, vars
<1>2. ASSUME NEW v \in Vehicles, Receive(v) PROVE Inv'
  BY <1>1, <1>2, ReceiveInv
<1>3. ASSUME NEW d \in inflight, HandOver(d) PROVE Inv'
  BY <1>1, <1>3, HandOverInv
<1>4. CASE RouterStep
  BY <1>1, <1>4, TakeChunkInv, TryProtocolInv, SearchInv, DetachInv, ChooseInv, PopInv,
     StopReaderInv, AllPoppedInv, AnnounceInv, AttachInv DEF RouterStep
<1>5. ASSUME NEW p \in Protocols, ReaderStep(p) PROVE Inv'
  BY <1>1, <1>5, TakePacketInv, AddingInv, EndReaderInv DEF ReaderStep
<1>6. CASE Crash \/ UNCHANGED vars
  BY <1>1, <1>6 DEF Crash, vars, linkVars, routerVars, choiceVars, protocolVars, readerVars,
                    historyVars, Inv, TypeOK, Choice, Deletion, Ended, LastProto, Readers, AtWork
<1> QED
  BY <1>2, <1>3, <1>4, <1>5, <1>6 DEF Next, Receiving, HandingOver, RouterRuns, ReaderRuns

LEMMA InvHolds == Spec => []Inv
BY InitInv, NextInv, PTL DEF Spec

\* The type of every variable.
THEOREM TypeCorrect == Spec => []TypeOK
<1>1. Inv => TypeOK
  BY DEF Inv
<1> QED  BY <1>1, InvHolds, PTL

\* Nothing but the threads of its autopilots reaches a protocol once its destructor
\* has run, although its reader was at work: neither a child list, nor a hand-over
\* under way, nor a trial of the router, nor the reader.
THEOREM DeletedIsLost == Spec => []DeletedIsUnreachable
<1>1. ASSUME Inv, NEW p \in deleted, NEW i \in DOMAIN m_protos
      PROVE  m_protos[i] # p
  <2>1. m_protocol # None /\ Deletion
    BY <1>1, Names DEF Inv, Choice
  <2>2. PICK n \in 0..Len(Protos) :
          /\ m_protos = SubSeq(Protos, 1, n)
          /\ deleted = {Protos[k] : k \in (n + 1)..Len(Protos)} \ {m_protocol}
    BY <2>1 DEF Deletion
  <2>3. i \in 1..n /\ m_protos[i] = Protos[i]
    BY <2>2, DiscoveryAssumption
  <2>4. PICK k \in (n + 1)..Len(Protos) : p = Protos[k]
    BY <2>2
  <2>5. i # k /\ i \in DOMAIN Protos /\ k \in DOMAIN Protos
    BY <2>3, <2>4, DiscoveryAssumption
  <2> QED  BY <2>3, <2>4, <2>5, DiscoveryAssumption
<1>2. ASSUME Inv, NEW p \in deleted
      PROVE  /\ p \notin m_childs /\ p # m_protocol
             /\ \A d \in inflight : d.to # p
  BY <1>2, Names DEF Inv, TypeOK, Choice, Deletion
<1>3. Inv => DeletedIsUnreachable
  BY <1>1, <1>2 DEF Inv, Ended, DeletedIsUnreachable
<1> QED  BY <1>3, InvHolds, PTL

\* The connection's thread and the router never feed the same parser in turns.
THEOREM ParsersAreNotShared == Spec => []OneParser
<1>1. Inv => OneParser
  BY Names DEF Inv, TypeOK, Choice, OneParser
<1> QED  BY <1>1, InvHolds, PTL

-----------------------------------------------------------------------------
(* The announcements                                                        *)

\* The protocol that serves the connection: from when the others are deleted.
LEMMA Serving ==
  ASSUME Inv
  PROVE  /\ serving # None =>
              /\ serving = m_protocol /\ m_protocol \in Protocols
              /\ deleted = Protocols \ {m_protocol}
         /\ router \in {"chosen", "announced", "registered", "attached", "ready"} =>
              serving # None
BY DEF Inv, TypeOK, Choice, serving

\* How often a vehicle whose registration did not overlap the call of
\* addUavCreateHandler has been announced, by where the router is in it: those
\* up to the cursor while it visits them, all that are registered until the
\* handler takes over, and then all whose reader has called the handler.
Announcements ==
  IF serving = None
  THEN /\ cursor = -1
       /\ \A p \in Protocols : ~handlers[p]
       /\ \A v \in Vehicles : announced[v] = 0
  ELSE /\ \A p \in Protocols :
            handlers[p] <=> p = m_protocol /\ router \notin {"chosen", "announced"}
       /\ router = "chosen" =>
            /\ InRegistration(m_protocol) \subseteq overlapped \/ cursor = -1
            /\ \A v \in Vehicles \ overlapped :
                 announced[v] = IF v \in m_uavs[m_protocol] /\ v <= cursor THEN 1 ELSE 0
       /\ router = "announced" =>
            /\ InRegistration(m_protocol) \subseteq overlapped
            /\ \A v \in Vehicles \ overlapped :
                 announced[v] = IF v \in m_uavs[m_protocol] THEN 1 ELSE 0
       /\ router \notin {"chosen", "announced"} =>
            \A v \in Vehicles \ overlapped :
              announced[v] = IF v \in m_uavs[m_protocol] \ InRegistration(m_protocol)
                             THEN 1 ELSE 0

LEMMA InitAnnouncements == Init => Announcements
BY DEF Init, Announcements, serving

\* The steps before a protocol serves the connection.
LEMMA UnservedAnnouncements ==
  ASSUME Announcements, serving = None, serving' = None,
         UNCHANGED <<handlers, cursor, announced>>
  PROVE  Announcements'
BY DEF Announcements

\* The steps that neither visit, register nor announce a vehicle, and leave the
\* router in the same part of the call.
LEMMA OtherAnnouncements ==
  ASSUME Inv, Announcements, serving' = serving,
         UNCHANGED <<m_protocol, reader, m_uavs, handlers, cursor, announced, overlapped>>,
         router' = router \/ {router, router'} \cap {"chosen", "announced"} = {}
  PROVE  Announcements'
BY DEF Announcements, InRegistration, AtWork

LEMMA ServeAnnouncements ==
  ASSUME Inv, Announcements, AllPopped
  PROVE  Announcements'
<1>1. /\ serving = None /\ m_protocol \in Protocols /\ m_protocol # None
      /\ UNCHANGED <<m_protocol, reader, m_uavs, handlers, cursor, announced, overlapped>>
      /\ router' = "chosen"
  BY DEF Inv, TypeOK, Choice, AllPopped, Goto, serving, choiceVars, protocolVars, readerVars,
         historyVars
<1>2. serving' = m_protocol
  BY <1>1 DEF serving
<1>3. \A v \in Vehicles : ~(v <= -1)
  BY DiscoveryAssumption
<1>4. /\ cursor = -1 /\ \A p \in Protocols : ~handlers[p]
      /\ \A v \in Vehicles : announced[v] = 0
  BY <1>1 DEF Announcements
<1> QED  BY <1>1, <1>2, <1>3, <1>4 DEF Announcements

\* The next vehicle is visited: those up to it have been announced once.
LEMMA KnownAnnouncements ==
  ASSUME Inv, Announcements, AnnounceKnown
  PROVE  Announcements'
<1>1. /\ serving # None /\ serving' = serving /\ m_protocol \in Protocols
      /\ router = "chosen"
      /\ UNCHANGED <<router, m_protocol, reader, m_uavs, handlers>>
      /\ overlapped' = overlapped \cup InRegistration(m_protocol)
  BY Serving DEF AnnounceKnown, readerVars, serving
<1>2. PICK v \in Unvisited : /\ \A u \in Unvisited : v <= u
                             /\ cursor' = v
                             /\ announced' = [announced EXCEPT ![v] = @ + 1]
  BY DEF AnnounceKnown, OnCreateUav
<1>3. /\ v \in Vehicles /\ v \in m_uavs[m_protocol] /\ v > cursor
      /\ Vehicles \subseteq Int /\ cursor \in Int
      /\ announced \in [Vehicles -> Nat]
      /\ m_uavs[m_protocol] \subseteq Vehicles
  BY <1>1, RegistrationType, DiscoveryAssumption DEF Inv, TypeOK, Unvisited
<1>4. ASSUME NEW u \in Vehicles \ overlapped'
      PROVE  announced'[u] = IF u \in m_uavs[m_protocol] /\ u <= v THEN 1 ELSE 0
  <2>1. announced[u] = IF u \in m_uavs[m_protocol] /\ u <= cursor THEN 1 ELSE 0
    BY <1>1, <1>4 DEF Announcements
  <2>2. CASE u = v
    BY <1>2, <1>3, <2>1, <2>2
  <2>3. CASE u # v
    <3>1. announced'[u] = announced[u]
      BY <1>2, <1>3, <2>3
    <3>2. u \in m_uavs[m_protocol] => (u <= cursor <=> u <= v)
      BY <1>2, <1>3, <2>3 DEF Unvisited
    <3> QED  BY <2>1, <3>1, <3>2
  <2> QED  BY <2>2, <2>3
<1>5. InRegistration(m_protocol)' \subseteq overlapped'
  BY <1>1 DEF InRegistration, AtWork
<1>6. \A p \in Protocols : ~handlers'[p]
  BY <1>1 DEF Announcements
<1> QED  BY <1>1, <1>2, <1>4, <1>5, <1>6 DEF Announcements

LEMMA AllAnnouncements ==
  ASSUME Inv, Announcements, AllAnnounced
  PROVE  Announcements'
<1>1. /\ serving # None /\ serving' = serving /\ m_protocol \in Protocols
      /\ router = "chosen" /\ router' = "announced" /\ Unvisited = {}
      /\ UNCHANGED <<m_protocol, reader, m_uavs, handlers, cursor, announced>>
      /\ overlapped' = overlapped \cup InRegistration(m_protocol)
  BY Serving DEF AllAnnounced, Goto, readerVars, choiceVars, serving
<1>2. Vehicles \subseteq Int /\ cursor \in Int /\ m_uavs[m_protocol] \subseteq Vehicles
  BY <1>1, RegistrationType, DiscoveryAssumption DEF Inv, TypeOK
<1>3. \A v \in m_uavs[m_protocol] : v <= cursor
  <2> SUFFICES ASSUME NEW v \in m_uavs[m_protocol] PROVE v <= cursor
    OBVIOUS
  <2>1. v \in Int /\ ~(v > cursor)
    BY <1>1, <1>2 DEF Unvisited
  <2> QED  BY <1>2, <2>1
<1>4. InRegistration(m_protocol)' \subseteq overlapped'
  BY <1>1 DEF InRegistration, AtWork
<1> QED  BY <1>1, <1>3, <1>4 DEF Announcements

LEMMA RegisterAnnouncements ==
  ASSUME Inv, Announcements, RegisterHandler
  PROVE  Announcements'
<1>1. /\ serving # None /\ serving' = serving /\ m_protocol \in Protocols
      /\ router = "announced" /\ router' = "registered"
      /\ UNCHANGED <<m_protocol, reader, m_uavs, cursor, announced>>
      /\ handlers' = [handlers EXCEPT ![m_protocol] = TRUE]
      /\ overlapped' = overlapped \cup InRegistration(m_protocol)
  BY Serving DEF RegisterHandler, Goto, readerVars, choiceVars, serving
<1>2. InRegistration(m_protocol)' = InRegistration(m_protocol)
  BY <1>1 DEF InRegistration, AtWork
<1>3. \A p \in Protocols : handlers'[p] <=> p = m_protocol
  BY <1>1 DEF Announcements, Inv, TypeOK
<1> QED  BY <1>1, <1>2, <1>3 DEF Announcements

\* Then only the chosen protocol has a reader.
LEMMA OneReader ==
  ASSUME Inv, serving # None, NEW p \in Protocols, reader[p].at # "ended"
  PROVE  p = m_protocol
BY Serving DEF Inv, Ended

\* A packet is taken: its vehicle is in registration, not registered, and counts
\* as overlapping if the call is under way.
LEMMA TakePacketAnnouncements ==
  ASSUME Inv, Announcements, NEW p \in Protocols, TakePacket(p)
  PROVE  Announcements'
<1> DEFINE v == store[p][Len(store[p])]
<1>1. /\ reader[p].at = "idle" /\ v \in Vehicles /\ serving' = serving
      /\ UNCHANGED <<router, m_protocol, m_uavs, handlers, cursor, announced>>
      /\ overlapped' = IF p = m_protocol /\ router \in {"chosen", "announced"}
                       THEN overlapped \cup {v} ELSE overlapped
  BY FrontType DEF Inv, TypeOK, TakePacket, routerVars, choiceVars, serving
<1>2. \/ UNCHANGED reader
      \/ /\ v \notin m_modes[p]
         /\ reader' = [reader EXCEPT ![p] = [at |-> "found", v |-> v]]
  BY DEF TakePacket
<1> HIDE DEF v
<1>3. CASE serving = None
  BY <1>1, <1>3 DEF Announcements
<1>4. CASE serving # None
  <2>1. p = m_protocol
    BY <1>1, <1>4, OneReader
  <2>2. InRegistration(p) = {} /\ InRegistration(p)' \subseteq {v}
    BY <1>1, <1>2 DEF Inv, TypeOK, InRegistration, AtWork
  <2>3. m_uavs[p] \ InRegistration(p)' = m_uavs[p]
    <3>1. CASE UNCHANGED reader
      BY <2>2, <3>1 DEF InRegistration, AtWork
    <3>2. CASE v \notin m_modes[p]
      BY <2>2, <3>2 DEF Inv, Readers
    <3> QED  BY <1>2, <3>1, <3>2
  <2> QED  BY <1>1, <1>4, <2>1, <2>2, <2>3 DEF Announcements
<1> QED  BY <1>3, <1>4

LEMMA ValidateAnnouncements ==
  ASSUME Inv, Announcements, NEW p \in Protocols, Validate(p)
  PROVE  Announcements'
<1>1. /\ UNCHANGED <<router, m_protocol, m_uavs, handlers, cursor, announced, overlapped>>
      /\ reader[p].at = "found" /\ reader' = [reader EXCEPT ![p].at = "valid"]
      /\ serving' = serving
  BY DEF Validate, Adding, routerVars, choiceVars, historyVars, serving
<1>2. \A o \in Protocols : InRegistration(o)' = InRegistration(o)
  BY <1>1 DEF InRegistration, AtWork, Inv, TypeOK
<1>3. serving # None => m_protocol \in Protocols
  BY Serving
<1> QED  BY <1>1, <1>2, <1>3 DEF Announcements

\* A vehicle is inserted: the handler has not been told of it.
LEMMA InsertAnnouncements ==
  ASSUME Inv, Announcements, NEW p \in Protocols, InsertUav(p)
  PROVE  Announcements'
<1> DEFINE v == reader[p].v
<1>1. /\ serving' = serving
      /\ UNCHANGED <<router, m_protocol, handlers, cursor, announced, overlapped>>
      /\ reader[p].at = "valid" /\ reader' = [reader EXCEPT ![p].at = "inserted"]
      /\ m_uavs' = [m_uavs EXCEPT ![p] = @ \cup {v}]
  BY DEF InsertUav, Adding, Registered, routerVars, choiceVars, historyVars, serving
<1>2. CASE serving = None
  BY <1>1, <1>2 DEF Announcements
<1>3. CASE serving # None
  <2>1. p = m_protocol
    BY <1>1, <1>3, OneReader
  <2>2. InRegistration(p) = {v} /\ InRegistration(p)' = {v}
    BY <1>1 DEF InRegistration, AtWork, Inv, TypeOK
  <2>3. /\ v \in Vehicles /\ v \notin m_uavs[p]
        /\ m_uavs'[p] = m_uavs[p] \cup {v}
    BY <1>1 DEF Inv, TypeOK, Readers, AtWork
  <2> HIDE DEF v
  <2>4. ~(v <= -1)
    <3>1. v \in Nat
      BY <2>3, DiscoveryAssumption
    <3> QED  BY <3>1
  <2> QED  BY <1>1, <1>3, <2>1, <2>2, <2>3, <2>4 DEF Announcements
<1> QED  BY <1>2, <1>3

\* The reader calls the handler, if it is registered: once for each vehicle.
LEMMA NotifyAnnouncements ==
  ASSUME Inv, Announcements, NEW p \in Protocols, NotifyHandlers(p)
  PROVE  Announcements'
<1> DEFINE v == reader[p].v
<1>1. /\ serving' = serving
      /\ UNCHANGED <<router, m_protocol, m_uavs, handlers, cursor, overlapped>>
      /\ reader[p].at = "inserted" /\ reader' = [reader EXCEPT ![p].at = "idle"]
      /\ announced' = IF handlers[p] THEN [announced EXCEPT ![v] = @ + 1] ELSE announced
  BY DEF NotifyHandlers, Adding, OnCreateUav, routerVars, choiceVars, serving
<1>2. CASE serving = None
  BY <1>1, <1>2 DEF Announcements
<1>3. CASE serving # None
  <2>1. p = m_protocol
    BY <1>1, <1>3, OneReader
  <2>2. InRegistration(p) = {v} /\ InRegistration(p)' = {}
    BY <1>1 DEF InRegistration, AtWork, Inv, TypeOK
  <2>3. /\ v \in Vehicles /\ v \in m_uavs[p]
        /\ announced \in [Vehicles -> Nat]
    BY <1>1 DEF Inv, TypeOK, Readers
  <2> HIDE DEF v
  <2>4. CASE router \in {"chosen", "announced"}
    BY <1>1, <1>3, <2>1, <2>2, <2>4 DEF Announcements
  <2>5. CASE router \notin {"chosen", "announced"}
    <3>1. handlers[p] /\ announced' = [announced EXCEPT ![v] = @ + 1]
      BY <1>1, <1>3, <2>1, <2>5 DEF Announcements
    <3>2. ASSUME NEW u \in Vehicles \ overlapped
          PROVE  announced'[u] = IF u \in m_uavs[p] THEN 1 ELSE 0
      <4>1. announced[u] = IF u \in m_uavs[p] \ {v} THEN 1 ELSE 0
        BY <1>3, <2>1, <2>2, <2>5 DEF Announcements
      <4> QED  BY <2>3, <3>1, <4>1
    <3> QED  BY <1>1, <1>3, <2>1, <2>2, <2>5, <3>2 DEF Announcements
  <2> QED  BY <2>4, <2>5
<1> QED  BY <1>2, <1>3

LEMMA NextAnnouncements == Inv /\ Announcements /\ [Next]_vars => Announcements'
<1> SUFFICES ASSUME Inv, Announcements, [Next]_vars PROVE Announcements'
  OBVIOUS
<1> USE DEF vars, linkVars, routerVars, choiceVars, protocolVars, readerVars, historyVars
<1>1. ASSUME NEW v \in Vehicles, Receive(v) PROVE Announcements'
  BY <1>1, OtherAnnouncements DEF Receive, serving
<1>2. ASSUME NEW d \in inflight, HandOver(d) PROVE Announcements'
  BY <1>2, OtherAnnouncements DEF HandOver, serving
<1>3. CASE TakeChunk \/ TryProtocol \/ AllTried \/ CheckValid \/ SayHello \/ WakeUp \/ Detach
  BY <1>3, OtherAnnouncements
     DEF TakeChunk, TryProtocol, AllTried, CheckValid, SayHello, WakeUp, Detach, Goto, serving
<1>4. CASE Attach \/ SetParent \/ StartMessaging \/ RouterEnds
  BY <1>4, OtherAnnouncements DEF Attach, SetParent, StartMessaging, RouterEnds, Goto, serving
<1>5. CASE Choose \/ PopChosen \/ StopReader \/ Delete
  <2>1. serving = None /\ serving' = None
    BY <1>5 DEF Inv, Choice, Choose, PopChosen, StopReader, Delete, Goto, serving
  <2>2. UNCHANGED <<handlers, cursor, announced>>
    BY <1>5 DEF Choose, PopChosen, StopReader, Delete
  <2> QED  BY <2>1, <2>2, UnservedAnnouncements
<1>6. CASE AllPopped \/ AnnounceKnown \/ AllAnnounced \/ RegisterHandler
  BY <1>6, ServeAnnouncements, KnownAnnouncements, AllAnnouncements, RegisterAnnouncements
<1>7. ASSUME NEW p \in Protocols, EndReader(p) PROVE Announcements'
  BY <1>7, UnservedAnnouncements DEF EndReader, serving
<1>8. ASSUME NEW p \in Protocols, ReaderStep(p) PROVE Announcements'
  BY <1>7, <1>8, TakePacketAnnouncements, ValidateAnnouncements, InsertAnnouncements,
     NotifyAnnouncements DEF ReaderStep
<1>9. CASE Crash \/ UNCHANGED vars
  BY <1>9, OtherAnnouncements DEF Crash, serving
<1> QED
  BY <1>1, <1>2, <1>3, <1>4, <1>5, <1>6, <1>8, <1>9
     DEF Next, Receiving, HandingOver, RouterRuns, ReaderRuns, RouterStep

\* A vehicle that was registered before addUavCreateHandler or is found after it
\* is announced to the leafs exactly once, however many vehicles there are.
THEOREM EachIsAnnouncedOnce == Spec => []AnnouncedOnce
<1>1. Inv /\ Announcements => AnnouncedOnce
  BY Names, RegistrationType, Serving DEF Inv, TypeOK, Announcements, AnnouncedOnce
<1>2. Spec => []Announcements
  BY InvHolds, InitAnnouncements, NextAnnouncements, PTL DEF Spec
<1> QED  BY <1>1, <1>2, InvHolds, PTL

-----------------------------------------------------------------------------
(* The registry                                                             *)

\* What a protocol has stored, registers or has become valid by are vehicles it
\* understands, and the router has found a valid protocol.
Understood ==
  /\ \A p \in Protocols :
       /\ store[p] \in Seq(Understands[p])
       /\ AtWork(p) => reader[p].v \in Understands[p]
       /\ m_valid[p] => Understands[p] # {}
  /\ router \in {"found", "detached"} => m_valid[m_protos[trial.at]]
  /\ m_protocol # None => m_valid[m_protocol]

\* The leafs hear of a vehicle at most twice: when addUavCreateHandler has
\* visited it, and when its reader has called the handler.
CalledTwice ==
  serving # None =>
    \A v \in Vehicles :
      announced[v] <= (IF v <= cursor THEN 1 ELSE 0)
        + (IF v \in m_uavs[m_protocol] \ InRegistration(m_protocol) THEN 1 ELSE 0)

LEMMA InitRegistry == ASSUME Init PROVE Understood /\ CalledTwice /\ AsRegistry!Init
BY DEF Init, Understood, AtWork, CalledTwice, serving, AsRegistry!Init

\* The steps that store nothing and leave the readers alone.
LEMMA OtherUnderstood ==
  ASSUME Understood, UNCHANGED <<store, reader, m_valid>>,
         router' \in {"found", "detached"} => m_valid[m_protos'[trial'.at]],
         m_protocol' \in {None, m_protocol} \/ m_valid[m_protocol']
  PROVE  Understood'
BY DEF Understood, AtWork

LEMMA ParseUnderstood ==
  ASSUME Inv, Understood, NEW p \in Protocols, NEW v, Parse(p, v)
  PROVE  \A o \in Protocols : store'[o] \in Seq(Understands[o])
<1> SUFFICES ASSUME NEW o \in Protocols PROVE store'[o] \in Seq(Understands[o])
  OBVIOUS
<1>1. store[o] \in Seq(Understands[o])
  BY DEF Understood
<1>2. v \in Understands[o] => Append(store[o], v) \in Seq(Understands[o])
  BY <1>1, AppendType
<1>3. DOMAIN store = Protocols
  BY DEF Inv, TypeOK
<1> QED  BY <1>1, <1>2, <1>3 DEF Parse

LEMMA HandOverUnderstood ==
  ASSUME Inv, Understood, NEW d \in inflight, HandOver(d)
  PROVE  Understood'
<1>1. CASE d.to = Router
  BY <1>1, OtherUnderstood
     DEF HandOver, Understood, routerVars, choiceVars, readerVars
<1>2. CASE d.to # Router
  <2>1. d.to \in Protocols /\ Parse(d.to, d.from)
    BY <1>2 DEF Inv, TypeOK, HandOver
  <2>2. \A o \in Protocols : store'[o] \in Seq(Understands[o])
    BY <2>1, ParseUnderstood
  <2> QED  BY <2>2 DEF Understood, AtWork, HandOver, routerVars, choiceVars, readerVars
<1> QED  BY <1>1, <1>2

LEMMA TryUnderstood ==
  ASSUME Inv, Understood, TryProtocol
  PROVE  Understood'
<1>1. m_protos = Protos
  BY Names DEF Inv, Choice, TryProtocol, Goto
<1>2. m_protos[trial.at] \in Protocols /\ Parse(m_protos[trial.at], trial.from)
  BY <1>1, Names DEF TryProtocol
<1>3. \A o \in Protocols : store'[o] \in Seq(Understands[o])
  BY <1>2, ParseUnderstood
<1> QED  BY <1>3 DEF Understood, AtWork, TryProtocol, Goto, choiceVars, readerVars

LEMMA TakeUnderstood ==
  ASSUME Inv, Understood, NEW p \in Protocols, TakePacket(p)
  PROVE  Understood'
<1> DEFINE v == store[p][Len(store[p])]
           rest == SubSeq(store[p], 1, Len(store[p]) - 1)
<1>1. rest \in Seq(Understands[p]) /\ v \in Understands[p]
  BY FrontType DEF Understood, TakePacket
<1>2. /\ store' = [store EXCEPT ![p] = rest]
      /\ reader' \in {reader, [reader EXCEPT ![p] = [at |-> "found", v |-> v]]}
      /\ UNCHANGED <<m_valid, router, m_protos, m_protocol, trial>>
  BY DEF TakePacket, routerVars, choiceVars
<1>3. DOMAIN store = Protocols /\ DOMAIN reader = Protocols
  BY DEF Inv, TypeOK
<1> HIDE DEF v, rest
<1>4. \A o \in Protocols : store'[o] \in Seq(Understands[o])
  BY <1>1, <1>2, <1>3 DEF Understood
<1>5. \A o \in Protocols : AtWork(o)' => reader'[o].v \in Understands[o]
  BY <1>1, <1>2, <1>3 DEF Understood, AtWork
<1> QED  BY <1>2, <1>4, <1>5 DEF Understood

LEMMA AddingUnderstood ==
  ASSUME Inv, Understood, NEW p \in Protocols,
         Validate(p) \/ InsertUav(p) \/ NotifyHandlers(p)
  PROVE  Understood'
<1>1. /\ AtWork(p)
      /\ \E at : reader' = [reader EXCEPT ![p].at = at]
      /\ m_valid' \in {m_valid, [m_valid EXCEPT ![p] = TRUE]}
      /\ UNCHANGED <<store, router, m_protos, m_protocol, trial>>
  BY DEF Validate, InsertUav, NotifyHandlers, Adding, AtWork, routerVars, choiceVars,
         historyVars
<1>2. reader[p].v \in Understands[p]
  BY <1>1 DEF Understood
<1>3. DOMAIN reader = Protocols /\ DOMAIN m_valid = Protocols
  BY DEF Inv, TypeOK
<1>4. \A o \in Protocols : AtWork(o)' => reader'[o].v \in Understands[o]
  BY <1>1, <1>2, <1>3 DEF Understood, AtWork, Inv, TypeOK
<1>5. \A o \in Protocols : m_valid'[o] => Understands[o] # {}
  BY <1>1, <1>2, <1>3 DEF Understood
<1>6. router' \in {"found", "detached"} => m_valid'[m_protos'[trial'.at]]
  <2>1. router \in {"found", "detached"} => m_protos[trial.at] \in Protocols
    BY Names DEF Inv, Choice
  <2> QED  BY <1>1, <1>3, <2>1 DEF Understood
<1>7. m_protocol' # None => m_valid'[m_protocol']
  <2>1. m_protocol \in Protocols \cup {None}
    BY DEF Inv, TypeOK
  <2> QED  BY <1>1, <1>3, <2>1 DEF Understood
<1> QED  BY <1>1, <1>4, <1>5, <1>6, <1>7 DEF Understood

\* A valid protocol is chosen.
LEMMA ChooseUnderstood ==
  ASSUME Understood, Choose
  PROVE  Understood'
<1>1. m_valid[m_protos[trial.at]]
  BY DEF Understood, Choose, Goto
<1> QED  BY <1>1, OtherUnderstood DEF Choose, Goto, protocolVars, readerVars

LEMMA EndUnderstood ==
  ASSUME Inv, Understood, NEW p \in Protocols, EndReader(p)
  PROVE  Understood'
<1>1. /\ UNCHANGED <<store, m_valid, router, m_protos, m_protocol, trial>>
      /\ reader' = [reader EXCEPT ![p].at = "ended"]
  BY DEF EndReader, Adding, routerVars, choiceVars
<1>2. \A o \in Protocols : AtWork(o)' => reader'[o].v \in Understands[o]
  BY <1>1 DEF Understood, AtWork, Inv, TypeOK
<1> QED  BY <1>1, <1>2 DEF Understood

LEMMA NextUnderstood ==
  ASSUME Inv, Understood, [Next]_vars
  PROVE  Understood'
<1> USE DEF vars, linkVars, routerVars, choiceVars, protocolVars, readerVars, historyVars
<1>1. ASSUME NEW v \in Vehicles, Receive(v) PROVE Understood'
  BY <1>1, OtherUnderstood DEF Receive, Understood
<1>2. ASSUME NEW d \in inflight, HandOver(d) PROVE Understood'
  BY <1>2, HandOverUnderstood
<1>3. CASE TakeChunk \/ AllTried \/ CheckValid \/ SayHello \/ WakeUp \/ Detach \/ RouterEnds
  BY <1>3, OtherUnderstood
     DEF TakeChunk, AllTried, CheckValid, SayHello, WakeUp, Detach, RouterEnds, Goto, Understood
<1>4. CASE TryProtocol
  BY <1>4, TryUnderstood
<1>5. CASE Choose
  BY <1>5, ChooseUnderstood
<1>6. CASE PopChosen \/ StopReader \/ Delete \/ AllPopped \/ AnnounceKnown \/ AllAnnounced
             \/ RegisterHandler \/ Attach \/ SetParent \/ StartMessaging
  BY <1>6, OtherUnderstood
     DEF PopChosen, StopReader, Delete, AllPopped, AnnounceKnown, AllAnnounced,
         RegisterHandler, Attach, SetParent, StartMessaging, Goto
<1>7. ASSUME NEW p \in Protocols, ReaderStep(p) PROVE Understood'
  BY <1>7, TakeUnderstood, AddingUnderstood, EndUnderstood DEF ReaderStep
<1>8. CASE Crash \/ UNCHANGED vars
  BY <1>8, OtherUnderstood DEF Crash, Understood
<1> QED
  BY <1>1, <1>2, <1>3, <1>4, <1>5, <1>6, <1>7, <1>8
     DEF Next, Receiving, HandingOver, RouterRuns, ReaderRuns, RouterStep

\* The steps that call no handler.
LEMMA OtherCalls ==
  ASSUME Inv, CalledTwice,
         serving' = serving, UNCHANGED <<m_protocol, cursor, announced>>,
         \A p \in Protocols :
           (m_uavs[p] \ InRegistration(p)) \subseteq (m_uavs'[p] \ InRegistration(p)')
  PROVE  CalledTwice'
<1> SUFFICES ASSUME serving # None, NEW v \in Vehicles
             PROVE  announced[v] <= (IF v <= cursor THEN 1 ELSE 0)
               + (IF v \in m_uavs'[m_protocol] \ InRegistration(m_protocol)' THEN 1 ELSE 0)
  BY DEF CalledTwice
<1>1. announced[v] <= (IF v <= cursor THEN 1 ELSE 0)
        + (IF v \in m_uavs[m_protocol] \ InRegistration(m_protocol) THEN 1 ELSE 0)
  BY DEF CalledTwice
<1>2. announced[v] \in Nat /\ m_protocol \in Protocols
  BY Serving DEF Inv, TypeOK
<1> QED  BY <1>1, <1>2

\* A reader takes a packet, validates its protocol or registers the vehicle.
LEMMA ReaderCalls ==
  ASSUME Inv, CalledTwice, NEW p \in Protocols,
         TakePacket(p) \/ Validate(p) \/ InsertUav(p)
  PROVE  CalledTwice'
<1>1. serving' = serving /\ UNCHANGED <<m_protocol, cursor, announced>>
  BY DEF TakePacket, Validate, InsertUav, routerVars, choiceVars, historyVars, serving
<1>2. ASSUME NEW o \in Protocols
      PROVE  (m_uavs[o] \ InRegistration(o)) \subseteq (m_uavs'[o] \ InRegistration(o)')
  <2>1. DOMAIN reader = Protocols /\ DOMAIN m_uavs = Protocols
    BY DEF Inv, TypeOK
  <2>2. CASE TakePacket(p)
    <3>1. /\ UNCHANGED m_uavs /\ reader[p].at = "idle"
          /\ \/ UNCHANGED reader
             \/ \E v : /\ v \notin m_modes[p]
                       /\ reader' = [reader EXCEPT ![p] = [at |-> "found", v |-> v]]
      BY <2>2 DEF TakePacket
    <3>2. m_uavs[p] \subseteq m_modes[p]
      BY DEF Inv, Readers
    <3>3. CASE UNCHANGED reader
      BY <3>1, <3>3 DEF InRegistration, AtWork
    <3>4. CASE o # p
      BY <2>1, <3>1, <3>4 DEF InRegistration, AtWork
    <3>5. CASE o = p /\ reader' # reader
      <4>1. PICK v : /\ v \notin m_modes[p]
                     /\ reader' = [reader EXCEPT ![p] = [at |-> "found", v |-> v]]
        BY <3>1, <3>5
      <4>2. InRegistration(p)' = {v}
        BY <2>1, <4>1 DEF InRegistration, AtWork
      <4> QED  BY <3>1, <3>2, <3>5, <4>1, <4>2
    <3> QED  BY <3>3, <3>4, <3>5
  <2>3. CASE Validate(p) \/ InsertUav(p)
    <3>1. /\ AtWork(p)
          /\ \E at \in {"valid", "inserted"} : reader' = [reader EXCEPT ![p].at = at]
          /\ m_uavs[o] \subseteq m_uavs'[o]
      BY <2>1, <2>3 DEF Validate, InsertUav, Adding, AtWork, Registered
    <3>2. PICK at \in {"valid", "inserted"} : reader' = [reader EXCEPT ![p].at = at]
      BY <3>1
    <3>3. reader[p] = [at |-> reader[p].at, v |-> reader[p].v]
      BY DEF Inv, TypeOK
    <3>4. reader'[p].at = at /\ reader'[p].v = reader[p].v
      BY <2>1, <3>2, <3>3
    <3>5. CASE o = p
      BY <3>1, <3>4, <3>5 DEF InRegistration, AtWork
    <3>6. CASE o # p
      BY <2>1, <3>1, <3>2, <3>6 DEF InRegistration, AtWork
    <3> QED  BY <3>5, <3>6
  <2> QED  BY <2>2, <2>3
<1> QED  BY <1>1, <1>2, OtherCalls

\* The call that tells of v: it may be called once more.
LEMMA OnceMore ==
  ASSUME Inv, CalledTwice, NEW v \in Vehicles, serving # None,
         v > cursor \/ v \in InRegistration(m_protocol)
  PROVE  announced[v] \in {0, 1}
<1>1. announced[v] <= (IF v <= cursor THEN 1 ELSE 0)
        + (IF v \in m_uavs[m_protocol] \ InRegistration(m_protocol) THEN 1 ELSE 0)
  BY DEF CalledTwice
<1>2. announced[v] \in Nat /\ v \in Int /\ cursor \in Int
  BY DiscoveryAssumption DEF Inv, TypeOK
<1> QED  BY <1>1, <1>2

LEMMA KnownCalls ==
  ASSUME Inv, CalledTwice, AnnounceKnown
  PROVE  CalledTwice'
<1>1. /\ serving # None /\ serving' = serving /\ m_protocol \in Protocols
      /\ UNCHANGED <<m_protocol, reader, m_uavs>>
  BY Serving DEF AnnounceKnown, readerVars, serving
<1>2. PICK v \in Unvisited : cursor' = v /\ announced' = [announced EXCEPT ![v] = @ + 1]
  BY DEF AnnounceKnown, OnCreateUav
<1>3. /\ v > cursor /\ v \in Vehicles /\ Vehicles \subseteq Int /\ cursor \in Int
      /\ announced \in [Vehicles -> Nat]
  BY <1>1, RegistrationType, DiscoveryAssumption DEF Inv, TypeOK, Unvisited
<1> SUFFICES ASSUME NEW u \in Vehicles
             PROVE  announced'[u] <= (IF u <= v THEN 1 ELSE 0)
               + (IF u \in m_uavs[m_protocol] \ InRegistration(m_protocol) THEN 1 ELSE 0)
  BY <1>1, <1>2 DEF CalledTwice, InRegistration, AtWork
<1>4. announced[u] <= (IF u <= cursor THEN 1 ELSE 0)
        + (IF u \in m_uavs[m_protocol] \ InRegistration(m_protocol) THEN 1 ELSE 0)
  BY <1>1 DEF CalledTwice
<1>5. u <= cursor => u <= v
  BY <1>3
<1>6. announced'[u] = IF u = v THEN announced[u] + 1 ELSE announced[u]
  BY <1>2, <1>3
<1>7. u = v => ~(u <= cursor) /\ u <= v
  BY <1>3
<1>8. announced[u] \in Nat
  BY <1>3
<1> QED  BY <1>4, <1>5, <1>6, <1>7, <1>8

LEMMA NotifyCalls ==
  ASSUME Inv, CalledTwice, NEW p \in Protocols, NotifyHandlers(p)
  PROVE  CalledTwice'
<1> DEFINE v == reader[p].v
<1>1. /\ serving' = serving
      /\ UNCHANGED <<m_protocol, cursor, m_uavs>>
      /\ reader[p].at = "inserted" /\ reader' = [reader EXCEPT ![p].at = "idle"]
      /\ announced' \in {announced, [announced EXCEPT ![v] = @ + 1]}
  BY DEF NotifyHandlers, Adding, OnCreateUav, routerVars, choiceVars, serving
<1>2. serving # None => p = m_protocol
  BY <1>1, OneReader
<1>3. /\ InRegistration(p) = {v} /\ v \in m_uavs[p]
      /\ serving # None => InRegistration(m_protocol)' = {}
  BY <1>1, <1>2 DEF InRegistration, AtWork, Inv, TypeOK, Readers
<1> SUFFICES ASSUME serving # None, NEW u \in Vehicles
             PROVE  announced'[u] <= (IF u <= cursor THEN 1 ELSE 0)
                                       + (IF u \in m_uavs[p] THEN 1 ELSE 0)
  BY <1>1, <1>2, <1>3 DEF CalledTwice
<1>4. announced[u] <= (IF u <= cursor THEN 1 ELSE 0)
        + (IF u \in m_uavs[p] /\ u # v THEN 1 ELSE 0)
  BY <1>2, <1>3 DEF CalledTwice
<1>5. /\ announced[u] \in Nat
      /\ announced'[u] = announced[u] \/ (u = v /\ announced'[u] = announced[u] + 1)
  BY <1>1 DEF Inv, TypeOK
<1> HIDE DEF v
<1> QED  BY <1>3, <1>4, <1>5

LEMMA NextCalls ==
  ASSUME Inv, Announcements, CalledTwice, [Next]_vars
  PROVE  CalledTwice'
<1> USE DEF vars, linkVars, routerVars, choiceVars, protocolVars, readerVars, historyVars
<1>1. CASE serving' = serving /\ UNCHANGED <<m_protocol, cursor, announced, m_uavs, reader>>
  BY <1>1, OtherCalls DEF InRegistration, AtWork
<1>2. CASE serving' = None
  BY <1>2 DEF CalledTwice
<1>3. CASE AllPopped
  <2>1. UNCHANGED announced /\ serving = None
    BY <1>3 DEF AllPopped, Goto, serving
  <2>2. \A v \in Vehicles : announced'[v] = 0
    BY <2>1 DEF Announcements
  <2> QED  BY <2>2 DEF CalledTwice
<1>4. CASE Choose \/ PopChosen \/ StopReader \/ Delete
  BY <1>2, <1>4 DEF Inv, Choice, Choose, PopChosen, StopReader, Delete, Goto, serving
<1>5. CASE AnnounceKnown
  BY <1>5, KnownCalls
<1>6. ASSUME NEW p \in Protocols, ReaderStep(p) PROVE CalledTwice'
  <2>1. CASE EndReader(p)
    BY <1>2, <2>1 DEF EndReader, serving
  <2> QED  BY <1>6, <2>1, ReaderCalls, NotifyCalls DEF ReaderStep
<1>7. CASE AllAnnounced \/ RegisterHandler \/ Attach \/ SetParent \/ StartMessaging
  BY <1>1, <1>7
     DEF AllAnnounced, RegisterHandler, Attach, SetParent, StartMessaging, Goto, serving
<1>8. CASE TakeChunk \/ TryProtocol \/ AllTried \/ CheckValid \/ SayHello \/ WakeUp \/ Detach
             \/ RouterEnds
  BY <1>1, <1>8
     DEF TakeChunk, TryProtocol, AllTried, CheckValid, SayHello, WakeUp, Detach, RouterEnds,
         Goto, serving
<1>9. ASSUME NEW v \in Vehicles, Receive(v) PROVE CalledTwice'
  BY <1>1, <1>9 DEF Receive, serving
<1>10. ASSUME NEW d \in inflight, HandOver(d) PROVE CalledTwice'
  BY <1>1, <1>10 DEF HandOver, serving
<1>11. CASE Crash \/ UNCHANGED vars
  BY <1>1, <1>11 DEF Crash, serving
<1> QED
  BY <1>3, <1>4, <1>5, <1>6, <1>7, <1>8, <1>9, <1>10, <1>11
     DEF Next, Receiving, HandingOver, RouterRuns, ReaderRuns, RouterStep

\* A step that serves, registers or tells, and one that does neither.
LEMMA ServeRefines ==
  ASSUME Inv, Understood, AllPopped
  PROVE  AsRegistry!Next
<1>1. /\ serving = None /\ m_protocol \in Protocols /\ m_protocol # None
      /\ serving' = m_protocol
      /\ UNCHANGED <<m_uavs, announced, overlapped>>
  BY DEF Inv, TypeOK, Choice, AllPopped, Goto, serving, choiceVars, protocolVars, readerVars,
         historyVars
<1>2. Understands[m_protocol] # {}
  BY <1>1 DEF Understood
<1>3. AsRegistry!Serve(m_protocol)
  BY <1>1, <1>2 DEF AsRegistry!Serve
<1>4. overlapped \subseteq Vehicles
  BY DEF Inv, TypeOK
<1> QED  BY <1>1, <1>3, <1>4 DEF AsRegistry!Next

LEMMA KnownRefines ==
  ASSUME Inv, Announcements, CalledTwice, AnnounceKnown
  PROVE  AsRegistry!Next
<1>1. /\ serving # None /\ serving' = serving
      /\ serving = m_protocol /\ m_protocol \in Protocols /\ router = "chosen"
      /\ UNCHANGED m_uavs
      /\ overlapped' = overlapped \cup InRegistration(m_protocol)
  BY Serving DEF AnnounceKnown, readerVars, serving
<1>2. PICK v \in Unvisited : announced' = [announced EXCEPT ![v] = @ + 1]
  BY DEF AnnounceKnown, OnCreateUav
<1>3. v \in Vehicles /\ v \in m_uavs[m_protocol] /\ v > cursor
  BY <1>1, RegistrationType DEF Inv, Unvisited
<1>4. announced[v] \in {0, 1}
  BY <1>1, <1>3, OnceMore
<1>5. v \notin overlapped => announced[v] = 0
  <2>1. v \in Int /\ cursor \in Int
    BY <1>3, DiscoveryAssumption DEF Inv, TypeOK
  <2> QED  BY <1>1, <1>3, <2>1 DEF Announcements
<1>6. AsRegistry!Tell(v)
  BY <1>1, <1>2, <1>3, <1>4, <1>5 DEF AsRegistry!Tell
<1>7. overlapped \subseteq overlapped' /\ overlapped' \subseteq Vehicles
  BY <1>1, RegistrationType DEF Inv, TypeOK
<1> QED  BY <1>3, <1>6, <1>7 DEF AsRegistry!Next

LEMMA InsertRefines ==
  ASSUME Inv, Understood, NEW p \in Protocols, InsertUav(p)
  PROVE  AsRegistry!Next
<1>1. /\ serving' = serving /\ reader[p].at = "valid"
      /\ UNCHANGED <<announced, overlapped>>
      /\ m_uavs' = [m_uavs EXCEPT ![p] = m_uavs[p] \cup {reader[p].v}]
  BY DEF InsertUav, Adding, Registered, routerVars, choiceVars, historyVars, serving
<1>2. serving \in {None, p}
  BY <1>1, OneReader, Serving
<1>3. reader[p].v \in Understands[p] \ m_uavs[p]
  BY <1>1 DEF Understood, AtWork, Inv, Readers
<1>4. AsRegistry!Register(p, reader[p].v)
  BY <1>1, <1>2, <1>3 DEF AsRegistry!Register
<1>5. reader[p].v \in Vehicles /\ overlapped \subseteq Vehicles
  BY <1>1 DEF Inv, TypeOK, Readers, AtWork
<1> QED  BY <1>1, <1>4, <1>5 DEF AsRegistry!Next

LEMMA NotifyRefines ==
  ASSUME Inv, Announcements, CalledTwice, NEW p \in Protocols, NotifyHandlers(p)
  PROVE  AsRegistry!Next
<1> DEFINE v == reader[p].v
<1>1. /\ serving' = serving
      /\ UNCHANGED <<m_uavs, overlapped>>
      /\ reader[p].at = "inserted"
      /\ announced' = IF handlers[p] THEN [announced EXCEPT ![v] = @ + 1] ELSE announced
  BY DEF NotifyHandlers, Adding, OnCreateUav, routerVars, choiceVars, readerVars, serving
<1>2. /\ v \in Vehicles /\ v \in m_uavs[p] /\ InRegistration(p) = {v}
      /\ overlapped \subseteq Vehicles
  BY <1>1 DEF Inv, TypeOK, Readers, InRegistration, AtWork
<1> HIDE DEF v
<1>3. CASE ~handlers[p]
  BY <1>1, <1>2, <1>3 DEF AsRegistry!Next
<1>4. CASE handlers[p]
  <2>1. /\ serving # None /\ serving = p /\ m_protocol = p
        /\ router \notin {"chosen", "announced"}
    BY <1>4, Serving DEF Announcements
  <2>2. announced[v] \in {0, 1}
    BY <1>2, <2>1, OnceMore
  <2>3. v \notin overlapped => announced[v] = 0
    BY <1>2, <2>1 DEF Announcements
  <2>4. AsRegistry!Tell(v)
    BY <1>1, <1>2, <1>4, <2>1, <2>2, <2>3 DEF AsRegistry!Tell
  <2> QED  BY <1>1, <1>2, <2>4 DEF AsRegistry!Next
<1> QED  BY <1>3, <1>4

LEMMA NextRefines ==
  ASSUME Inv, Announcements, Understood, CalledTwice, [Next]_vars
  PROVE  [AsRegistry!Next]_AsRegistry!vars
<1> USE DEF vars, linkVars, routerVars, choiceVars, protocolVars, readerVars, historyVars
<1>1. CASE serving' = serving /\ UNCHANGED <<m_uavs, announced, overlapped>>
  BY <1>1 DEF AsRegistry!vars
<1>2. CASE /\ serving' = serving /\ UNCHANGED <<m_uavs, announced>>
           /\ overlapped \subseteq overlapped' /\ overlapped' \subseteq Vehicles
  BY <1>2 DEF AsRegistry!Next
<1>3. overlapped' \subseteq Vehicles
  BY NextInv DEF Inv, TypeOK
<1>4. CASE AllPopped \/ AnnounceKnown
  BY <1>4, ServeRefines, KnownRefines
<1>5. ASSUME NEW p \in Protocols, ReaderStep(p)
      PROVE  [AsRegistry!Next]_AsRegistry!vars
  <2>1. CASE TakePacket(p) \/ Validate(p) \/ EndReader(p)
    BY <1>2, <1>3, <2>1 DEF TakePacket, Validate, EndReader, Adding, serving
  <2> QED  BY <1>5, <2>1, InsertRefines, NotifyRefines DEF ReaderStep
<1>6. CASE AllAnnounced \/ RegisterHandler
  BY <1>2, <1>3, <1>6 DEF AllAnnounced, RegisterHandler, Goto, serving
<1>7. CASE Choose \/ PopChosen \/ StopReader \/ Delete
  BY <1>1, <1>7 DEF Inv, Choice, Choose, PopChosen, StopReader, Delete, Goto, serving
<1>8. CASE TakeChunk \/ TryProtocol \/ AllTried \/ CheckValid \/ SayHello \/ WakeUp \/ Detach
             \/ Attach \/ SetParent \/ StartMessaging \/ RouterEnds
  BY <1>1, <1>8
     DEF TakeChunk, TryProtocol, AllTried, CheckValid, SayHello, WakeUp, Detach, Attach,
         SetParent, StartMessaging, RouterEnds, Goto, serving
<1>9. ASSUME NEW v \in Vehicles, Receive(v)
      PROVE  [AsRegistry!Next]_AsRegistry!vars
  BY <1>1, <1>9 DEF Receive, serving
<1>10. ASSUME NEW d \in inflight, HandOver(d)
       PROVE  [AsRegistry!Next]_AsRegistry!vars
  BY <1>1, <1>10 DEF HandOver, serving
<1>11. CASE Crash \/ UNCHANGED vars
  BY <1>1, <1>11 DEF Crash, serving
<1> QED
  BY <1>1, <1>4, <1>5, <1>6, <1>7, <1>8, <1>9, <1>10, <1>11
     DEF Next, Receiving, HandingOver, RouterRuns, ReaderRuns, RouterStep

\* The threads of the discovery promise the leafs a Registry: a protocol that
\* understands a vehicle serves the connection for ever, and a leaf hears only
\* of its registered vehicles, at most twice, and once of those that were not
\* found in the middle of the change-over.
THEOREM DiscoveryIsARegistry == Spec => ImplementsRegistry
<1>1. Init => Understood /\ CalledTwice /\ AsRegistry!Init
  BY InitRegistry
<1>2. Inv /\ Announcements /\ Understood /\ CalledTwice /\ [Next]_vars
        => Understood' /\ CalledTwice' /\ [AsRegistry!Next]_AsRegistry!vars
  BY NextUnderstood, NextCalls, NextRefines
<1>3. Spec => []Announcements
  BY InvHolds, InitAnnouncements, NextAnnouncements, PTL DEF Spec
<1> QED
  BY <1>1, <1>2, <1>3, InvHolds, PTL DEF Spec, ImplementsRegistry, AsRegistry!Spec
=============================================================================
