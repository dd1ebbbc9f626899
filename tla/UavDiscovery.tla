----------------------------- MODULE UavDiscovery -----------------------------
(***************************************************************************)
(* How the program finds out which protocol the vehicles on a connection   *)
(* speak and which vehicles there are: libSGCS/connection/ConnectionRouter *)
(* with the vehicle registry of UavProtocol and MavlinkProtocol.           *)
(*                                                                         *)
(* Three kinds of thread take part.  The connection's thread hands every   *)
(* chunk of bytes it reads to its children, without a lock on their list.  *)
(* The router, the only child at first, buffers the chunks and its own     *)
(* thread tries them, the newest first, on every protocol; once a protocol *)
(* is valid the router puts it in its own place.  Every protocol has a     *)
(* reader thread that takes the packets the protocol has parsed, the       *)
(* newest first, and registers the vehicles whose heartbeats it sees.      *)
(* The protocols that are not chosen are deleted while their readers and   *)
(* the threads of the autopilots they have made are at work.               *)
(*                                                                         *)
(* A chunk holds the heartbeat of one vehicle.  Where the code uses what   *)
(* has been deleted or never set, it goes on or crashes (Undefined).       *)
(***************************************************************************)
EXTENDS Integers, Sequences, FiniteSets

CONSTANTS
  Vehicles,     \* system ids
  Protos,       \* the protocols of the plugins, in the order of the plugins
  Understands,  \* Understands[p]: the vehicles whose packets p can parse
  MaxBuffer,    \* bound on the router's buffer
  MaxStore      \* bound on the packets a reader has not taken yet

Protocols == {Protos[i] : i \in DOMAIN Protos}
None   == "none"
Router == "router"
NoTrial == [from |-> 0, at |-> 0]

ASSUME DiscoveryAssumption ==
  /\ Vehicles \subseteq Nat \ {0} /\ IsFiniteSet(Vehicles)
  /\ Protos \in Seq(Protocols)
  /\ \A i, j \in DOMAIN Protos : Protos[i] = Protos[j] => i = j
  /\ {None, Router} \cap Protocols = {}
  /\ Understands \in [Protocols -> SUBSET Vehicles]
  /\ MaxBuffer \in Nat \ {0} /\ MaxStore \in Nat \ {0}

VARIABLES
  m_childs,    \* the children of the connection
  inflight,    \* chunks the connection's thread is handing over: [to, from]
  m_buffer,    \* the router's buffer
  router,      \* where the router's thread is
  trial,       \* [from, at]: the chunk being tried and the index in m_protos
  m_protos,    \* the protocols still on trial
  m_protocol,  \* the protocol that was chosen
  deleted,     \* protocols whose destructor has run
  store,       \* store[p]: packets parsed and not taken by the reader of p
  reader,      \* reader[p]: where the reader of p is, and with which vehicle
  m_valid,     \* m_valid[p]
  m_modes,     \* m_modes[p]: the vehicles p has an autopilot for
  m_uavs,      \* m_uavs[p]: the vehicles registered
  handlers,    \* handlers[p]: the router's handler is registered with p
  cursor,      \* the last vehicle addUavCreateHandler has visited
  messaging,   \* [parent, started]: of the chosen protocol
  announced,   \* history: announced[v], calls of setUAV for v on each leaf
  crashed,     \* undefined behaviour has ended the process
  overlapped   \* history: vehicles being registered during addUavCreateHandler

linkVars     == <<m_childs, inflight, m_buffer>>
choiceVars   == <<m_protos, m_protocol, deleted, cursor, messaging>>
routerVars   == <<router, trial, choiceVars>>
readerVars   == <<reader, m_valid, m_modes, m_uavs>>
historyVars  == <<announced, overlapped>>
protocolVars == <<store, readerVars, handlers, historyVars>>
vars         == <<linkVars, routerVars, protocolVars, crashed>>

Init ==
  /\ m_childs = {Router}
  /\ inflight = {}
  /\ m_buffer = << >>
  /\ router = "search"
  /\ trial = NoTrial
  /\ m_protos = Protos
  /\ m_protocol = None
  /\ deleted = {}
  /\ store = [p \in Protocols |-> << >>]
  /\ reader = [p \in Protocols |-> [at |-> "idle", v |-> 0]]
  /\ m_valid = [p \in Protocols |-> FALSE]
  /\ m_modes = [p \in Protocols |-> {}]
  /\ m_uavs = [p \in Protocols |-> {}]
  /\ handlers = [p \in Protocols |-> FALSE]
  /\ cursor = -1
  /\ messaging = [parent |-> FALSE, started |-> FALSE]
  /\ announced = [v \in Vehicles |-> 0]
  /\ overlapped = {}
  /\ crashed = FALSE

-----------------------------------------------------------------------------
(* The connection's thread                                                  *)

\* IOObject::writeToChild: the loop over the list of children, which has one
\* element at most, has got to the child ...
Receive(v) ==
  /\ inflight = {}
  /\ Router \in m_childs => Len(m_buffer) < MaxBuffer
  /\ inflight' = {[to |-> c, from |-> v] : c \in m_childs}
  /\ UNCHANGED <<m_childs, m_buffer, routerVars, protocolVars>>

\* Mutant: what a protocol cannot parse is stored, too.
ParseUnchecked(p, v) ==
  Len(store[p]) < MaxStore /\ store' = [store EXCEPT ![p] = Append(@, v)]

\* UavProtocol::processFromParent and createUAVMesage parse the packet and store
\* it for the reader.
Parse(p, v) ==
  /\ Len(store[p]) < MaxStore
  /\ store' = IF v \in Understands[p] THEN [store EXCEPT ![p] = Append(@, v)] ELSE store

\* ... and calls it, and goes on from its place in the list.
HandOver(d) ==
  /\ d \in inflight
  /\ inflight' = inflight \ {d}
  /\ IF d.to = Router THEN m_buffer' = Append(m_buffer, d.from) /\ UNCHANGED store
     ELSE Parse(d.to, d.from) /\ UNCHANGED m_buffer
  /\ UNCHANGED <<m_childs, routerVars, readerVars, handlers, historyVars>>

-----------------------------------------------------------------------------
(* ConnectionRouter::runConection                                           *)

Goto(pc, at) == router = pc /\ router' = at

\* The newest chunk of the buffer is tried.  (After the choice there is nothing
\* left to try it on.)
TakeChunk ==
  /\ router \in {"search", "drain"}
  /\ m_buffer # << >>
  /\ trial' = [from |-> m_buffer[Len(m_buffer)], at |-> 1]
  /\ m_buffer' = SubSeq(m_buffer, 1, Len(m_buffer) - 1)
  /\ router' = "try"
  /\ UNCHANGED <<m_childs, inflight, choiceVars, protocolVars>>

TryProtocol ==
  /\ Goto("try", "check")
  /\ trial.at \in DOMAIN m_protos
  /\ Parse(m_protos[trial.at], trial.from)
  /\ UNCHANGED <<linkVars, trial, choiceVars, readerVars, handlers, historyVars>>

AllTried ==
  /\ trial.at \notin DOMAIN m_protos
  /\ Goto("try", IF m_protocol = None THEN "search" ELSE "drain")
  /\ trial' = NoTrial
  /\ UNCHANGED <<linkVars, choiceVars, protocolVars>>

CheckValid ==
  /\ router = "check"
  /\ IF m_valid[m_protos[trial.at]]
     THEN router' = "found" /\ UNCHANGED trial
     ELSE router' = "try" /\ trial' = [trial EXCEPT !.at = @ + 1]
  /\ UNCHANGED <<linkVars, choiceVars, protocolVars>>

\* With nothing in the buffer every protocol's HELLO is written, and the router
\* sleeps for two seconds.
SayHello ==
  /\ m_buffer = << >>
  /\ Goto("search", "asleep")
  /\ UNCHANGED <<linkVars, trial, choiceVars, protocolVars>>

\* Mutant: the router's thread ends when it has found nothing to try.
WakeUpNever == router = "asleep" /\ UNCHANGED vars

WakeUp ==
  /\ Goto("asleep", "search")
  /\ UNCHANGED <<linkVars, trial, choiceVars, protocolVars>>

Detach ==
  /\ Goto("found", "detached")
  /\ m_childs' = m_childs \ {Router}
  /\ UNCHANGED <<inflight, m_buffer, trial, choiceVars, protocolVars>>

Choose ==
  /\ Goto("detached", "popping")
  /\ m_protocol' = m_protos[trial.at]
  /\ m_buffer' = << >>
  /\ UNCHANGED <<m_childs, inflight, trial, m_protos, deleted, cursor, messaging, protocolVars>>

\* The protocols are popped from m_protos, from the back, and all but the chosen
\* one deleted.
LastProto == m_protos[Len(m_protos)]

\* Mutant: the protocol at the other end is popped.
PoppedFirst == Tail(m_protos)

Popped == SubSeq(m_protos, 1, Len(m_protos) - 1)

PopChosen ==
  /\ router = "popping" /\ m_protos # << >> /\ LastProto = m_protocol
  /\ m_protos' = Popped
  /\ UNCHANGED <<linkVars, router, trial, m_protocol, deleted, cursor, messaging, protocolVars>>

\* ~MavlinkProtocol asks its reader to stop and joins it.
StopReader ==
  /\ m_protos # << >> /\ LastProto # m_protocol
  /\ Goto("popping", "joining")
  /\ UNCHANGED <<linkVars, trial, choiceVars, protocolVars>>

\* Mutant: the reader is not joined.
DeleteUnjoined ==
  /\ Goto("joining", "popping")
  /\ deleted' = deleted \cup {LastProto}
  /\ m_protos' = Popped
  /\ UNCHANGED <<linkVars, trial, m_protocol, cursor, messaging, protocolVars>>

\* ~UavProtocol tests m_sendTick, which only startMessaging sets (see Undefined).
Delete ==
  /\ Goto("joining", "popping")
  /\ reader[LastProto].at = "ended"
  /\ deleted' = deleted \cup {LastProto}
  /\ m_protos' = Popped
  /\ UNCHANGED <<linkVars, trial, m_protocol, cursor, messaging, protocolVars>>

\* Mutant: the loop ends at the chosen protocol.
AllPoppedEarly ==
  /\ m_protos # << >> => LastProto = m_protocol
  /\ Goto("popping", "chosen")
  /\ UNCHANGED <<linkVars, trial, choiceVars, protocolVars>>

AllPopped ==
  /\ m_protos = << >>
  /\ Goto("popping", "chosen")
  /\ UNCHANGED <<linkVars, trial, choiceVars, protocolVars>>

\* addUavCreateHandler: the handler is called for the vehicles there are ...
\* Mutant: the handler is only registered.
UnvisitedNone == {}

Unvisited == {v \in m_uavs[m_protocol] : v > cursor}

AtWork(p) == reader[p].at \in {"found", "valid", "inserted"}

InRegistration(p) == IF AtWork(p) THEN {reader[p].v} ELSE {}

\* ConnectionRouter's handler tells every leaf of the vehicle.
OnCreateUav(v) == announced' = [announced EXCEPT ![v] = @ + 1]

AnnounceKnown ==
  /\ router = "chosen"
  /\ \E v \in Unvisited :
       /\ \A u \in Unvisited : v <= u
       /\ cursor' = v
       /\ OnCreateUav(v)
  /\ overlapped' = overlapped \cup InRegistration(m_protocol)
  /\ UNCHANGED <<linkVars, router, trial, m_protos, m_protocol, deleted, store,
                 readerVars, handlers, messaging>>

AllAnnounced ==
  /\ Goto("chosen", "announced")
  /\ Unvisited = {}
  /\ overlapped' = overlapped \cup InRegistration(m_protocol)
  /\ UNCHANGED <<linkVars, trial, choiceVars, store, readerVars, handlers, announced>>

\* ... and then registered for those that come.
RegisterHandler ==
  /\ Goto("announced", "registered")
  /\ handlers' = [handlers EXCEPT ![m_protocol] = TRUE]
  /\ overlapped' = overlapped \cup InRegistration(m_protocol)
  /\ UNCHANGED <<linkVars, trial, choiceVars, store, readerVars, announced>>

Attach ==
  /\ Goto("registered", "attached")
  /\ m_childs' = m_childs \cup {m_protocol}
  /\ UNCHANGED <<inflight, m_buffer, trial, choiceVars, protocolVars>>

SetParent ==
  /\ Goto("attached", "ready")
  /\ messaging' = [messaging EXCEPT !.parent = TRUE]
  /\ UNCHANGED <<linkVars, trial, m_protos, m_protocol, deleted, protocolVars, cursor>>

StartMessaging ==
  /\ Goto("ready", "drain")
  /\ messaging' = [messaging EXCEPT !.started = TRUE]
  /\ UNCHANGED <<linkVars, trial, m_protos, m_protocol, deleted, protocolVars, cursor>>

RouterEnds ==
  /\ m_buffer = << >>
  /\ Goto("drain", "done")
  /\ UNCHANGED <<linkVars, trial, choiceVars, protocolVars>>

RouterStep ==
  \/ TakeChunk \/ TryProtocol \/ AllTried \/ CheckValid \/ SayHello \/ WakeUp
  \/ Detach \/ Choose \/ PopChosen \/ StopReader \/ Delete \/ AllPopped
  \/ AnnounceKnown \/ AllAnnounced \/ RegisterHandler
  \/ Attach \/ SetParent \/ StartMessaging \/ RouterEnds

-----------------------------------------------------------------------------
(* MavlinkProtocol::runMessageReader                                        *)

\* The newest packet is taken; the first one of a vehicle makes an autopilot.
TakePacket(p) ==
  /\ reader[p].at = "idle"
  /\ store[p] # << >>
  /\ LET v == store[p][Len(store[p])]
     IN  /\ store' = [store EXCEPT ![p] = SubSeq(@, 1, Len(@) - 1)]
         /\ IF v \in m_modes[p] THEN UNCHANGED <<reader, m_modes>>
            ELSE /\ m_modes' = [m_modes EXCEPT ![p] = @ \cup {v}]
                 /\ reader' = [reader EXCEPT ![p] = [at |-> "found", v |-> v]]
         /\ overlapped' = IF p = m_protocol /\ router \in {"chosen", "announced"}
                          THEN overlapped \cup {v} ELSE overlapped
  /\ UNCHANGED <<linkVars, routerVars, m_valid, m_uavs, handlers, announced>>

Adding(p, pc, next) ==
  /\ reader[p].at = pc
  /\ reader' = [reader EXCEPT ![p].at = next]

\* UavProtocol::checkUAV: the protocol is valid before the vehicle is in m_uavs.
Validate(p) ==
  /\ Adding(p, "found", "valid")
  /\ m_valid' = [m_valid EXCEPT ![p] = TRUE]
  /\ UNCHANGED <<linkVars, routerVars, store, m_modes, m_uavs, handlers, historyVars>>

\* UavProtocol::setUAV: the vehicle is inserted, then the handlers are called.
\* Mutant: a protocol knows one vehicle only.
RegisteredOnly(p) == {reader[p].v}

Registered(p) == m_uavs[p] \cup {reader[p].v}

InsertUav(p) ==
  /\ Adding(p, "valid", "inserted")
  /\ m_uavs' = [m_uavs EXCEPT ![p] = Registered(p)]
  /\ UNCHANGED <<linkVars, routerVars, store, m_valid, m_modes, handlers, historyVars>>

NotifyHandlers(p) ==
  /\ Adding(p, "inserted", "idle")
  /\ IF handlers[p] THEN OnCreateUav(reader[p].v) ELSE UNCHANGED announced
  /\ UNCHANGED <<linkVars, routerVars, store, m_valid, m_modes, m_uavs, handlers,
                 overlapped>>

\* A reader finds itself stopped when it wakes up, whatever has been stored
\* while it slept.
EndReader(p) ==
  /\ router = "joining" /\ p = LastProto
  /\ Adding(p, "idle", "ended")
  /\ UNCHANGED <<linkVars, routerVars, store, m_valid, m_modes, m_uavs, handlers, historyVars>>

ReaderStep(p) ==
  TakePacket(p) \/ Validate(p) \/ InsertUav(p) \/ NotifyHandlers(p) \/ EndReader(p)

-----------------------------------------------------------------------------
\* Where the code uses what has been deleted or never set: the connection's loop
\* goes on from a child that removeChild has unlinked and freed meanwhile, and its
\* push meets the unlocked clear of Choose; ~UavProtocol tests and joins an m_sendTick that nobody has set; and the threads
\* of the autopilots that a deleted protocol has made go on calling its
\* sendMessage, their pings every second.
Undefined ==
  \/ \E d \in inflight : d.to \notin m_childs
  \/ router = "joining" /\ reader[LastProto].at = "ended"
  \/ \E p \in deleted : m_modes[p] # {}

Crash ==
  /\ ~crashed /\ Undefined
  /\ crashed' = TRUE
  /\ UNCHANGED <<linkVars, routerVars, protocolVars>>

Up == ~crashed /\ UNCHANGED crashed

Receiving(v)  == Up /\ Receive(v)
HandingOver   == Up /\ \E d \in inflight : HandOver(d)
RouterRuns    == Up /\ RouterStep
ReaderRuns(p) == Up /\ ReaderStep(p)

Next ==
  \/ \E v \in Vehicles : Receiving(v)
  \/ HandingOver
  \/ RouterRuns
  \/ \E p \in Protocols : ReaderRuns(p)
  \/ Crash
  \/ crashed /\ UNCHANGED vars

Spec == Init /\ [][Next]_vars

\* The threads keep running, and only the program reads the connection.  A vehicle sends a heartbeat every second, so the
\* link is not silent for ever whenever the program can take a chunk.
Fairness ==
  /\ WF_vars(RouterRuns)
  /\ WF_vars(HandingOver)
  /\ \A p \in Protocols : WF_vars(ReaderRuns(p))
  /\ \A v \in Vehicles : SF_vars(Receiving(v))

FairSpec == Spec /\ Fairness

-----------------------------------------------------------------------------
(* Properties                                                               *)

RouterPlaces ==
  {"search", "asleep", "try", "check", "found", "detached", "popping", "joining",
   "chosen", "announced", "registered", "attached", "ready", "drain", "done"}

\* What is left of the protocols while they are popped.
Prefixes == {SubSeq(Protos, 1, n) : n \in 0..Len(Protos)}

\* The type of every variable.
TypeOK ==
  /\ m_childs \subseteq Protocols \cup {Router}
  /\ inflight \subseteq [to : Protocols \cup {Router}, from : Vehicles]
  /\ m_buffer \in Seq(Vehicles)
  /\ router \in RouterPlaces
  /\ trial \in [from : Vehicles \cup {0}, at : Nat]
  /\ m_protos \in Prefixes
  /\ m_protocol \in Protocols \cup {None}
  /\ deleted \subseteq Protocols
  /\ store \in [Protocols -> Seq(Vehicles)]
  /\ reader \in [Protocols -> [at : {"idle", "found", "valid", "inserted", "ended"},
                               v : Vehicles \cup {0}]]
  /\ m_valid \in [Protocols -> BOOLEAN]
  /\ m_modes \in [Protocols -> SUBSET Vehicles]
  /\ m_uavs \in [Protocols -> SUBSET Vehicles]
  /\ handlers \in [Protocols -> BOOLEAN]
  /\ cursor \in Vehicles \cup {-1}
  /\ messaging \in [parent : BOOLEAN, started : BOOLEAN]
  /\ announced \in [Vehicles -> Nat]
  /\ overlapped \subseteq Vehicles
  /\ crashed \in BOOLEAN

\* A protocol is deleted while the other threads run, its own reader at work.  Once
\* it is, it gets no chunk any more, from the connection, from a hand-over under way
\* or from the router, and no thread of its own uses it.  (The threads of the
\* autopilots it has made do: see Undefined.)
DeletedIsUnreachable ==
  \A p \in deleted :
    /\ p \notin m_childs /\ p # m_protocol
    /\ \A d \in inflight : d.to # p
    /\ \A i \in DOMAIN m_protos : m_protos[i] # p
    /\ reader[p].at = "ended"

\* The MAVLink parser has one state for all the calls made to it.  Two threads
\* call it, but never in turns: once the connection's thread may call a protocol
\* directly, the router has none left to try a chunk on.
OneParser ==
  (\E p \in Protocols : p \in m_childs \/ \E d \in inflight : d.to = p)
    => router # "check" /\ ~(router = "try" /\ trial.at \in DOMAIN m_protos)

\* addUavCreateHandler runs without a lock.  A vehicle is announced to the leafs
\* exactly once unless its own registration overlaps that call; one that was
\* registered before it or is found after it is neither lost nor doubled.
AnnouncedOnce ==
  \A p \in Protocols : \A v \in m_uavs[p] :
    handlers[p] /\ v \notin overlapped \cup InRegistration(p) => announced[v] = 1

\* If some protocol understands a vehicle that keeps sending, the router ends
\* its search, and every such vehicle gets registered, as long as the process lives.
SearchEnds ==
  (\E p \in Protocols : Understands[p] # {}) => <>(router = "done" \/ crashed)

EveryVehicleIsFound ==
  \A p \in Protocols :
    [](m_protocol = p => <>(Understands[p] \subseteq m_uavs[p] \/ crashed))
=============================================================================
