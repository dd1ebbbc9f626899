------------------------------ MODULE TcpClient ------------------------------
(***************************************************************************)
(* plugins/PluginIPConnection: IPInterfaceTCPClient, which IPConnection    *)
(* drives, and its child IPChild, which queues what the protocols send.    *)
(*                                                                         *)
(* A caller names a host and a port without a lock, one after the other,   *)
(* and asks for a reconnection with _dirty.  The thread connects a closed  *)
(* socket to what it reads of the two, closes the socket when _dirty is    *)
(* set, and otherwise receives and writes what IPChild has queued.         *)
(*                                                                         *)
(* A message is its number.  What is received is handed to the children    *)
(* and keeps no state here.  closeConnection has no body, so               *)
(* IPConnection::doDisconnectFromPort changes nothing.                     *)
(***************************************************************************)
EXTENDS Integers, Sequences

CONSTANTS
  Hosts,        \* numeric addresses, the ones inet_pton converts
  NoHost,       \* any other name
  PortNumbers,
  Closed,       \* the socket -1
  MaxMessages,  \* bound on the messages queued
  MaxChanges    \* bound on the calls of doConnect

ASSUME TcpAssumption ==
  /\ NoHost \notin Hosts
  /\ \A host \in Hosts \cup {NoHost}, port \in PortNumbers :
       Closed # [host |-> host, port |-> port]
  /\ MaxMessages \in Nat /\ MaxChanges \in Nat

Names     == Hosts \cup {NoHost}
Addresses == [host : Names, port : PortNumbers]

VARIABLES
  m_hostName, m_port, _dirty, m_stopThread,
  m_bufferMutex,  \* whether the thread holds it
  m_writeBuffer,
  sock,           \* the address the socket is connected to, or Closed
  servaddr,       \* what the thread has read of the host and the port
  run,            \* where the thread is
  caller,         \* [at, host, port]: where doConnect is
  pushed,         \* history: messages queued so far
  written,        \* history: the last message handed to send
  changes         \* history: calls of doConnect

nameVars   == <<m_hostName, m_port>>
threadVars == <<sock, servaddr, run>>
bufferVars == <<m_bufferMutex, m_writeBuffer, written>>
callerVars == <<caller, changes>>
vars == <<nameVars, _dirty, m_stopThread, threadVars, bufferVars, pushed, callerVars>>

\* The constructors and start, which sets _dirty whatever was configured.
Init ==
  /\ m_hostName \in Names /\ m_port \in PortNumbers
  /\ _dirty = TRUE /\ m_stopThread = FALSE
  /\ m_bufferMutex = FALSE
  /\ m_writeBuffer = << >> /\ pushed = 0 /\ written = 0
  /\ sock = Closed
  /\ servaddr = [host |-> m_hostName, port |-> m_port]
  /\ run = "while"
  /\ caller = [at |-> "idle", host |-> m_hostName, port |-> m_port]
  /\ changes = 0

-----------------------------------------------------------------------------
(***************************************************************************)
(* The callers.                                                            *)
(***************************************************************************)
ProcessFromChild ==
  /\ ~m_bufferMutex
  /\ pushed < MaxMessages
  /\ pushed' = pushed + 1
  /\ m_writeBuffer' = Append(m_writeBuffer, pushed')
  /\ UNCHANGED <<nameVars, _dirty, m_stopThread, threadVars, m_bufferMutex, written, callerVars>>

\* doConnect: the name is assigned, then the port, then _dirty.
DoConnect(host, port) ==
  /\ caller.at = "idle"
  /\ changes < MaxChanges
  /\ changes' = changes + 1
  /\ caller' = [at |-> "setHost", host |-> host, port |-> port]
  /\ UNCHANGED <<nameVars, _dirty, m_stopThread, threadVars, bufferVars, pushed>>

SetHost ==
  /\ caller.at = "setHost"
  /\ m_hostName' = caller.host
  /\ caller' = [caller EXCEPT !.at = "setPort"]
  /\ UNCHANGED <<m_port, _dirty, m_stopThread, threadVars, bufferVars, pushed, changes>>

SetPort ==
  /\ caller.at = "setPort"
  /\ m_port' = caller.port
  /\ caller' = [caller EXCEPT !.at = "setDirty"]
  /\ UNCHANGED <<m_hostName, _dirty, m_stopThread, threadVars, bufferVars, pushed, changes>>

SetDirty ==
  /\ caller.at = "setDirty"
  /\ _dirty' = TRUE
  /\ caller' = [caller EXCEPT !.at = "idle"]
  /\ UNCHANGED <<nameVars, m_stopThread, threadVars, bufferVars, pushed, changes>>

Stop ==
  /\ ~m_stopThread /\ caller.at = "idle"
  /\ m_stopThread' = TRUE
  /\ UNCHANGED <<nameVars, _dirty, threadVars, bufferVars, pushed, callerVars>>

-----------------------------------------------------------------------------
(***************************************************************************)
(* The thread.                                                             *)
(***************************************************************************)
ThreadKeeps == UNCHANGED <<nameVars, m_stopThread, pushed, callerVars>>

While ==
  /\ run = "while" /\ ~m_stopThread
  /\ run' = IF sock = Closed THEN "port" ELSE "dirty?"
  /\ UNCHANGED <<_dirty, sock, servaddr, bufferVars>> /\ ThreadKeeps

End ==
  /\ run = "while" /\ m_stopThread
  /\ sock' = Closed /\ run' = "ended"
  /\ UNCHANGED <<_dirty, servaddr, bufferVars>> /\ ThreadKeeps

ReadPort ==
  /\ run = "port"
  /\ servaddr' = [servaddr EXCEPT !.port = m_port]
  /\ run' = "host"
  /\ UNCHANGED <<_dirty, sock, bufferVars>> /\ ThreadKeeps

\* The host's name, or anything at all while it is being assigned.
HostsRead == IF caller.at = "setHost" THEN Names ELSE {m_hostName}

\* Mutant: the result of inet_pton is not looked at.
ReadHostUnchecked ==
  /\ run = "host"
  /\ \E host \in HostsRead : servaddr' = [servaddr EXCEPT !.host = host]
  /\ run' = "connect"
  /\ UNCHANGED <<_dirty, sock, bufferVars>> /\ ThreadKeeps

ReadHost ==
  /\ run = "host"
  /\ \E host \in HostsRead :
       /\ servaddr' = [servaddr EXCEPT !.host = host]
       /\ run' = IF host \in Hosts THEN "connect" ELSE "while"
  /\ UNCHANGED <<_dirty, sock, bufferVars>> /\ ThreadKeeps

\* Mutant: a connection that succeeds takes the flag down, as in SerialConnection.
ConnectAndClear ==
  /\ run = "connect"
  /\ sock' = servaddr
  /\ _dirty' = FALSE
  /\ run' = "while"
  /\ UNCHANGED <<servaddr, bufferVars>> /\ ThreadKeeps

Connect ==
  /\ run = "connect"
  /\ sock' = servaddr
  /\ run' = "while"
  /\ UNCHANGED <<_dirty, servaddr, bufferVars>> /\ ThreadKeeps

ConnectFails ==
  /\ run = "connect"
  /\ run' = "while"
  /\ UNCHANGED <<_dirty, sock, servaddr, bufferVars>> /\ ThreadKeeps

CheckDirty ==
  /\ run = "dirty?"
  /\ run' = IF _dirty THEN "close" ELSE "lock"
  /\ UNCHANGED <<_dirty, sock, servaddr, bufferVars>> /\ ThreadKeeps

\* Mutant: the flag stays up.
CloseStaysDirty ==
  /\ run = "close"
  /\ sock' = Closed
  /\ run' = "while"
  /\ UNCHANGED <<_dirty, servaddr, bufferVars>> /\ ThreadKeeps

Close ==
  /\ run = "close"
  /\ _dirty' = FALSE
  /\ sock' = Closed
  /\ run' = "while"
  /\ UNCHANGED <<servaddr, bufferVars>> /\ ThreadKeeps

LockToWrite ==
  /\ run = "lock" /\ ~m_bufferMutex
  /\ m_bufferMutex' = TRUE /\ run' = "write"
  /\ UNCHANGED <<_dirty, sock, servaddr, m_writeBuffer, written>> /\ ThreadKeeps

\* Mutants: the message written is not popped; the newest is written first.
WriteWithoutPop ==
  /\ run = "write" /\ m_writeBuffer # << >>
  /\ written' = Head(m_writeBuffer)
  /\ UNCHANGED <<_dirty, threadVars, m_bufferMutex, m_writeBuffer>> /\ ThreadKeeps

WriteLastIn ==
  /\ run = "write" /\ m_writeBuffer # << >>
  /\ written' = m_writeBuffer[Len(m_writeBuffer)]
  /\ m_writeBuffer' = SubSeq(m_writeBuffer, 1, Len(m_writeBuffer) - 1)
  /\ UNCHANGED <<_dirty, threadVars, m_bufferMutex>> /\ ThreadKeeps

Write ==
  /\ run = "write" /\ m_writeBuffer # << >>
  /\ written' = Head(m_writeBuffer)
  /\ m_writeBuffer' = Tail(m_writeBuffer)
  /\ UNCHANGED <<_dirty, threadVars, m_bufferMutex>> /\ ThreadKeeps

Unlock ==
  /\ run = "write" /\ m_writeBuffer = << >>
  /\ m_bufferMutex' = FALSE /\ run' = "while"
  /\ UNCHANGED <<_dirty, sock, servaddr, m_writeBuffer, written>> /\ ThreadKeeps

Thread ==
  \/ While \/ End \/ ReadPort \/ ReadHost \/ Connect \/ ConnectFails
  \/ CheckDirty \/ Close \/ LockToWrite \/ Write \/ Unlock

Caller == SetHost \/ SetPort \/ SetDirty

Gone == run = "ended" /\ UNCHANGED vars

Next ==
  \/ Thread \/ Caller \/ Stop
  \/ ~m_stopThread /\ ProcessFromChild
  \/ ~m_stopThread /\ \E host \in Names, port \in PortNumbers : DoConnect(host, port)
  \/ Gone

Spec == Init /\ [][Next]_vars

\* The scheduler runs the thread and a call that has begun, and a host that is
\* tried again and again accepts in the end.
FairSpec == Spec /\ WF_vars(Thread) /\ WF_vars(Caller) /\ SF_vars(Connect)

-----------------------------------------------------------------------------
(***************************************************************************)
(* Properties.                                                             *)
(***************************************************************************)
named == [host |-> m_hostName, port |-> m_port]

\* The type of every variable.
TypeOK ==
  /\ m_hostName \in Names /\ m_port \in PortNumbers
  /\ _dirty \in BOOLEAN /\ m_stopThread \in BOOLEAN
  /\ m_bufferMutex \in BOOLEAN
  /\ m_writeBuffer \in Seq(Nat) /\ pushed \in Nat /\ written \in Nat
  /\ sock \in [host : Hosts, port : PortNumbers] \cup {Closed}
  /\ servaddr \in Addresses
  /\ run \in {"while", "port", "host", "connect", "dirty?", "close", "lock", "write", "ended"}
  /\ caller \in [at : {"idle", "setHost", "setPort", "setDirty"}, host : Names, port : PortNumbers]
  /\ changes \in Nat
  /\ run = "connect" => servaddr.host \in Hosts

\* However the thread's reads of the host and the port fall between a caller's
\* assignments, a socket that is open with no reconnection asked for is
\* connected to the host and the port named last.
ConnectedIsConfigured ==
  sock # Closed /\ ~_dirty /\ caller.at = "idle" => sock = named

\* Nothing queued is lost, repeated or reordered: the queue is what has come
\* since the last message handed to send.
QueueIsComplete ==
  /\ written = pushed - Len(m_writeBuffer)
  /\ \A i \in DOMAIN m_writeBuffer : m_writeBuffer[i] = written + i

\* The host and the port that were named get a connection that no pending
\* request will close, unless another call comes first.
NamedHostIsConnected ==
  \A host \in Hosts, port \in PortNumbers :
    (m_hostName = host /\ m_port = port /\ caller.at = "idle")
      ~> \/ sock = [host |-> host, port |-> port] /\ ~_dirty
         \/ m_hostName # host \/ m_port # port \/ caller.at # "idle" \/ m_stopThread
=============================================================================
