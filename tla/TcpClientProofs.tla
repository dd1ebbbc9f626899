--------------------------- MODULE TcpClientProofs ---------------------------
(***************************************************************************)
(* Theorems about TcpClient, for any hosts and ports and any bounds.       *)
(***************************************************************************)
EXTENDS TcpLink, TLAPS

(***************************************************************************)
(* Types.                                                                  *)
(***************************************************************************)

\* The variables keep their types: the ones of IPInterfaceTCPClient, of
\* IPChild and the positions of the thread and of the caller.
THEOREM TypeCorrect == Spec => []TypeOK
<1> USE TcpAssumption DEF Addresses, named
<1>1. Init => TypeOK
  <2> SUFFICES ASSUME Init PROVE TypeOK
    OBVIOUS
  <2>1. m_writeBuffer \in Seq(Nat)
    BY DEF Init
  <2>2. caller \in [at : {"idle", "setHost", "setPort", "setDirty"}, host : Names, port : PortNumbers]
    BY DEF Init
  <2>3. servaddr \in Addresses /\ sock \in [host : Hosts, port : PortNumbers] \cup {Closed}
    BY DEF Init
  <2> QED BY <2>1, <2>2, <2>3 DEF Init, TypeOK
<1>2. TypeOK /\ [Next]_vars => TypeOK'
  <2> SUFFICES ASSUME TypeOK, [Next]_vars PROVE TypeOK'
    OBVIOUS
  <2> USE DEF TypeOK
  <2>1. CASE Thread
    <3> USE DEF ThreadKeeps, nameVars, threadVars, bufferVars, callerVars
    <3>1. CASE ReadHost
      <4>1. HostsRead \subseteq Names
        BY DEF HostsRead, Names
      <4> QED BY <3>1, <4>1 DEF ReadHost
    <3>2. CASE ReadPort
      BY <3>2 DEF ReadPort
    <3>3. CASE Connect \/ ConnectFails \/ Close \/ CheckDirty \/ While \/ End
      BY <3>3 DEF Connect, ConnectFails, Close, CheckDirty, While, End
    <3>4. CASE LockToWrite \/ Unlock
      BY <3>4 DEF LockToWrite, Unlock
    <3>5. CASE Write
      <4>1. Head(m_writeBuffer) \in Nat /\ Tail(m_writeBuffer) \in Seq(Nat)
        <5> HIDE DEF TypeOK
        <5>1. m_writeBuffer \in Seq(Nat) /\ m_writeBuffer # << >>
          BY <3>5 DEF TypeOK, Write
        <5> QED BY <5>1
      <4> QED BY <3>5, <4>1 DEF Write
    <3> QED BY <2>1, <3>1, <3>2, <3>3, <3>4, <3>5 DEF Thread
  <2>2. CASE Caller \/ Stop
    BY <2>2 DEF Caller, Stop, SetHost, SetPort, SetDirty,
                nameVars, threadVars, bufferVars, callerVars
  <2>3. CASE ProcessFromChild
    BY <2>3 DEF ProcessFromChild, nameVars, threadVars, callerVars
  <2>4. ASSUME NEW host \in Names, NEW port \in PortNumbers, DoConnect(host, port)
        PROVE  TypeOK'
    BY <2>4 DEF DoConnect, nameVars, threadVars, bufferVars
  <2>5. CASE UNCHANGED vars
    BY <2>5 DEF vars, nameVars, threadVars, bufferVars, callerVars
  <2> QED BY <2>1, <2>2, <2>3, <2>4, <2>5 DEF Next, Gone
<1> QED BY <1>1, <1>2, PTL DEF Spec

(***************************************************************************)
(* The address.  What the thread has read while no reconnection is asked   *)
(* for and no call is going on is what is named: a call that changes it    *)
(* afterwards ends with _dirty set, and only the thread takes _dirty down, *)
(* with the socket closed and nothing read yet.                            *)
(***************************************************************************)
Settled == ~_dirty /\ caller.at = "idle"

AddressInv ==
  /\ run \in {"port", "host", "connect"} => sock = Closed
  /\ Settled /\ run \in {"host", "connect"} => servaddr.port = m_port
  /\ Settled /\ run = "connect" => servaddr.host = m_hostName
  /\ ConnectedIsConfigured

LEMMA AddressInvHolds == Spec => []AddressInv
<1> USE TcpAssumption DEF Settled, ConnectedIsConfigured, named, Addresses
<1>1. Init => AddressInv
  BY DEF Init, AddressInv
<1>2. TypeOK /\ AddressInv /\ [Next]_vars => AddressInv'
  <2> SUFFICES ASSUME TypeOK, AddressInv, [Next]_vars PROVE AddressInv'
    OBVIOUS
  <2> USE DEF AddressInv
  <2>1. CASE Thread
    <3> USE DEF ThreadKeeps, nameVars, callerVars
    <3>1. CASE ReadHost
      <4>1. PICK host \in HostsRead : /\ servaddr' = [servaddr EXCEPT !.host = host]
                                      /\ run' = IF host \in Hosts THEN "connect" ELSE "while"
        BY <3>1 DEF ReadHost
      <4>2. Settled => host = m_hostName
        BY DEF HostsRead
      <4> QED BY <3>1, <4>1, <4>2 DEF ReadHost, TypeOK
    <3>2. CASE ReadPort
      BY <3>2 DEF ReadPort, TypeOK
    <3>3. CASE Connect
      BY <3>3 DEF Connect, TypeOK
    <3>4. CASE ConnectFails \/ CheckDirty \/ While \/ End
      BY <3>4 DEF ConnectFails, CheckDirty, While, End
    <3>5. CASE Close
      BY <3>5 DEF Close
    <3>6. CASE LockToWrite \/ Write \/ Unlock
      BY <3>6 DEF LockToWrite, Write, Unlock, threadVars
    <3> QED BY <2>1, <3>1, <3>2, <3>3, <3>4, <3>5, <3>6 DEF Thread
  <2>2. CASE Caller
    BY <2>2 DEF Caller, SetHost, SetPort, SetDirty, nameVars, threadVars, TypeOK
  <2>3. CASE Stop \/ ProcessFromChild
    BY <2>3 DEF Stop, ProcessFromChild, nameVars, threadVars, callerVars
  <2>4. ASSUME NEW host \in Names, NEW port \in PortNumbers, DoConnect(host, port)
        PROVE  AddressInv'
    BY <2>4 DEF DoConnect, nameVars, threadVars
  <2>5. CASE UNCHANGED vars
    BY <2>5 DEF vars, nameVars, threadVars, callerVars
  <2> QED BY <2>1, <2>2, <2>3, <2>4, <2>5 DEF Next, Gone
<1> QED BY <1>1, <1>2, TypeCorrect, PTL DEF Spec

\* However a caller's assignments and the thread's reads interleave, an open
\* socket that nobody has asked to reconnect is connected to the host and port
\* that doConnect was given last.
THEOREM AlwaysConfigured == Spec => []ConnectedIsConfigured
<1>1. AddressInv => ConnectedIsConfigured
  BY DEF AddressInv
<1> QED BY <1>1, AddressInvHolds, PTL

(***************************************************************************)
(* The queue.                                                              *)
(***************************************************************************)

\* IPChild's queue is everything that has come since the last message handed
\* to send, in the order it came, however often the connection is remade.
THEOREM QueueAlwaysComplete == Spec => []QueueIsComplete
<1>1. Init => QueueIsComplete
  <2> SUFFICES ASSUME Init PROVE QueueIsComplete
    OBVIOUS
  <2>1. m_writeBuffer \in Seq(Nat) /\ Len(m_writeBuffer) = 0
    BY DEF Init
  <2>2. DOMAIN m_writeBuffer = {}
    BY <2>1
  <2>3. written = 0 /\ pushed = 0
    BY DEF Init
  <2> QED BY <2>1, <2>2, <2>3 DEF QueueIsComplete
<1>2. TypeOK /\ QueueIsComplete /\ [Next]_vars => QueueIsComplete'
  <2> SUFFICES ASSUME TypeOK, QueueIsComplete, [Next]_vars PROVE QueueIsComplete'
    OBVIOUS
  <2> USE DEF QueueIsComplete
  <2>1. CASE Write
    <3>1. PICK n \in Nat : n = Len(m_writeBuffer)
      BY DEF TypeOK
    <3>2. /\ m_writeBuffer \in Seq(Nat) /\ m_writeBuffer # << >> /\ written \in Nat
          /\ m_writeBuffer' = Tail(m_writeBuffer)
          /\ written' = Head(m_writeBuffer) /\ pushed' = pushed /\ pushed \in Nat
      BY <2>1 DEF Write, ThreadKeeps, TypeOK
    <3>3. n >= 1 /\ DOMAIN m_writeBuffer = 1..n
      BY <3>1, <3>2
    <3>4. /\ Len(m_writeBuffer') = n - 1 /\ DOMAIN m_writeBuffer' = 1..(n - 1)
          /\ \A i \in 1..(n - 1) : m_writeBuffer'[i] = m_writeBuffer[i + 1]
      BY <3>1, <3>2, <3>3
    <3>5. written' = m_writeBuffer[1]
      BY <3>2
    <3> HIDE DEF QueueIsComplete
    <3>6. written = pushed - n /\ \A i \in 1..n : m_writeBuffer[i] = written + i
      BY <3>1, <3>3 DEF QueueIsComplete
    <3>7. written' = written + 1
      BY <3>3, <3>5, <3>6
    <3>8. \A i \in 1..(n - 1) : m_writeBuffer'[i] = written' + i
      BY <3>2, <3>4, <3>6, <3>7
    <3>9. written' = pushed' - Len(m_writeBuffer')
      BY <3>2, <3>3, <3>4, <3>6, <3>7
    <3> QED BY <3>4, <3>8, <3>9 DEF QueueIsComplete
  <2>2. CASE ProcessFromChild
    <3>1. PICK n \in Nat : n = Len(m_writeBuffer)
      BY DEF TypeOK
    <3>2. /\ m_writeBuffer \in Seq(Nat) /\ pushed' \in Nat /\ written \in Nat
          /\ m_writeBuffer' = Append(m_writeBuffer, pushed')
          /\ pushed' = written + n + 1 /\ written' = written
      BY <2>2, <3>1 DEF ProcessFromChild, TypeOK
    <3>3. /\ Len(m_writeBuffer') = n + 1
          /\ \A i \in 1..n : m_writeBuffer'[i] = m_writeBuffer[i]
          /\ m_writeBuffer'[n + 1] = pushed'
      BY <3>1, <3>2
    <3>4. DOMAIN m_writeBuffer' = 1..(n + 1) /\ DOMAIN m_writeBuffer = 1..n
      BY <3>1, <3>2, <3>3
    <3> HIDE DEF QueueIsComplete
    <3>5. \A i \in 1..n : m_writeBuffer[i] = written + i
      BY <3>4 DEF QueueIsComplete
    <3>6. ASSUME NEW i \in 1..(n + 1) PROVE m_writeBuffer'[i] = written' + i
      <4>1. CASE i = n + 1
        BY <3>2, <3>3, <4>1
      <4>2. CASE i \in 1..n
        BY <3>2, <3>3, <3>5, <4>2
      <4> QED BY <3>1, <4>1, <4>2
    <3>7. written' = pushed' - Len(m_writeBuffer')
      BY <3>1, <3>2, <3>3
    <3> QED BY <3>4, <3>6, <3>7 DEF QueueIsComplete
  <2>3. CASE UNCHANGED <<m_writeBuffer, pushed, written>>
    BY <2>3
  <2>4. CASE Thread /\ ~Write
    BY <2>3, <2>4 DEF Thread, While, End, ReadPort, ReadHost, Connect, ConnectFails, CheckDirty,
                      Close, LockToWrite, Unlock, ThreadKeeps, bufferVars
  <2>5. CASE Caller \/ Stop
    BY <2>3, <2>5 DEF Caller, Stop, SetHost, SetPort, SetDirty, bufferVars
  <2>6. ASSUME NEW host \in Names, NEW port \in PortNumbers, DoConnect(host, port)
        PROVE  QueueIsComplete'
    BY <2>3, <2>6 DEF DoConnect, bufferVars
  <2>7. CASE UNCHANGED vars
    BY <2>3, <2>7 DEF vars, bufferVars
  <2> QED BY <2>1, <2>2, <2>4, <2>5, <2>6, <2>7 DEF Next, Gone
<1> QED BY <1>1, <1>2, TypeCorrect, PTL DEF Spec

(***************************************************************************)
(* The connection is a data link.                                          *)
(***************************************************************************)

\* The thread writes only through an open socket, and connects to what is named
\* unless a call is going on or has just ended.
LinkInv ==
  /\ TypeOK /\ QueueIsComplete
  /\ AddressInv
  /\ run \in {"dirty?", "close", "lock", "write"} => sock # Closed

LEMMA LinkInvHolds == Spec => []LinkInv
<1> DEFINE Places == run \in {"dirty?", "close", "lock", "write"} => sock # Closed
<1>1. Init => Places
  BY DEF Init
<1>2. TypeOK /\ Places /\ [Next]_vars => Places'
  <2> SUFFICES ASSUME TypeOK, Places, [Next]_vars PROVE Places'
    OBVIOUS
  <2>1. CASE Thread
    <3>1. CASE While \/ End \/ CheckDirty \/ Close
      BY <3>1 DEF While, End, CheckDirty, Close
    <3>2. CASE LockToWrite \/ Write \/ Unlock
      BY <3>2 DEF LockToWrite, Write, Unlock, threadVars
    <3>3. CASE ReadPort \/ ReadHost \/ Connect \/ ConnectFails
      BY <3>3 DEF ReadPort, ReadHost, Connect, ConnectFails
    <3> QED BY <2>1, <3>1, <3>2, <3>3 DEF Thread
  <2>2. CASE Caller \/ Stop \/ ProcessFromChild
    BY <2>2 DEF Caller, SetHost, SetPort, SetDirty, Stop, ProcessFromChild, threadVars
  <2>3. ASSUME NEW host \in Names, NEW port \in PortNumbers, DoConnect(host, port)
        PROVE  Places'
    BY <2>3 DEF DoConnect, threadVars
  <2>4. CASE UNCHANGED vars
    BY <2>4 DEF vars, threadVars
  <2> QED BY <2>1, <2>2, <2>3, <2>4 DEF Next, Gone
<1>3. TypeOK /\ QueueIsComplete /\ AddressInv /\ Places => LinkInv
  BY DEF LinkInv
<1> HIDE DEF Places
<1> QED BY <1>1, <1>2, <1>3, TypeCorrect, QueueAlwaysComplete, AddressInvHolds, PTL DEF Spec

LEMMA LinkStep == LinkInv /\ [Next]_vars => [AsLink!Next]_AsLink!vars
<1> SUFFICES ASSUME LinkInv, [Next]_vars PROVE [AsLink!Next]_AsLink!vars
  OBVIOUS
<1>1. CASE Thread
  <2> USE DEF ThreadKeeps, nameVars, callerVars
  <2>1. CASE While \/ ReadPort \/ ReadHost \/ ConnectFails \/ CheckDirty \/ LockToWrite \/ Unlock
    BY <2>1 DEF While, ReadPort, ReadHost, ConnectFails, CheckDirty, LockToWrite, Unlock,
                bufferVars, AsLink!vars, named
  <2>2. CASE End
    <3>1. /\ sock' = Closed
          /\ UNCHANGED <<m_hostName, m_port, _dirty, caller, pushed, m_writeBuffer, written>>
      BY <2>2 DEF End, bufferVars
    <3> QED BY <3>1 DEF AsLink!Next, AsLink!Disconnect, AsLink!vars, named
  <2>3. CASE Connect
    <3>1. /\ sock = Closed /\ servaddr \in Addresses
          /\ ~_dirty /\ caller.at = "idle" =>
               servaddr.port = m_port /\ servaddr.host = m_hostName
      BY <2>3 DEF LinkInv, AddressInv, Settled, TypeOK, Connect
    <3>2. ~_dirty /\ caller.at = "idle" => servaddr = named
      BY <3>1 DEF Addresses, named
    <3>3. /\ sock' = servaddr
          /\ UNCHANGED <<m_hostName, m_port, _dirty, caller, pushed, m_writeBuffer, written>>
      BY <2>3 DEF Connect, bufferVars
    <3>4. AsLink!Connect
      BY <3>1, <3>2, <3>3 DEF AsLink!Connect, named
    <3> QED BY <3>4 DEF AsLink!Next
  <2>4. CASE Close
    <3>1. /\ _dirty' = FALSE /\ sock' = Closed /\ sock # Closed
          /\ UNCHANGED <<m_hostName, m_port, caller, pushed, m_writeBuffer, written>>
      BY <2>4 DEF Close, bufferVars, LinkInv
    <3>2. CASE caller.at = "idle"
      <4>1. AsLink!Settle
        BY <3>1, <3>2 DEF AsLink!Settle, named
      <4> QED BY <4>1 DEF AsLink!Next
    <3>3. CASE caller.at # "idle"
      <4>1. AsLink!Disconnect
        BY <3>1, <3>3 DEF AsLink!Disconnect, named
      <4> QED BY <4>1 DEF AsLink!Next
    <3> QED BY <3>2, <3>3
  <2>5. CASE Write
    <3>1. sock # Closed
      BY <2>5 DEF LinkInv, Write
    <3>2. AsLink!GoOut
      BY <2>5, <3>1 DEF Write, AsLink!GoOut, threadVars, named
    <3> QED BY <3>2 DEF AsLink!Next
  <2> QED BY <1>1, <2>1, <2>2, <2>3, <2>4, <2>5 DEF Thread
<1>2. CASE ProcessFromChild
  <2> DEFINE all == Append(m_writeBuffer, pushed + 1)
  <2>1. /\ pushed < MaxMessages /\ pushed' = pushed + 1 /\ m_writeBuffer' = all
        /\ UNCHANGED <<m_hostName, m_port, _dirty, caller, sock, written>>
    BY <1>2 DEF ProcessFromChild, nameVars, threadVars, callerVars
  <2>2. ~(Len(all) > MaxMessages)
    <3>1. PICK n \in Nat : n = Len(m_writeBuffer)
      BY DEF LinkInv, TypeOK
    <3>2. /\ m_writeBuffer \in Seq(Nat) /\ pushed \in Nat /\ written \in Nat
          /\ written = pushed - n
      BY <3>1 DEF LinkInv, TypeOK, QueueIsComplete
    <3>3. Len(all) = n + 1
      BY <3>1, <3>2
    <3> QED BY <2>1, <3>2, <3>3, TcpAssumption
  <2> HIDE DEF all
  <2>3. AsLink!Give
    BY <2>1, <2>2 DEF AsLink!Give, named, all
  <2> QED BY <2>3 DEF AsLink!Next
<1>3. CASE SetHost \/ SetPort
  <2>1. /\ m_hostName' \in Names /\ m_port' \in PortNumbers /\ caller'.at # "idle"
        /\ UNCHANGED <<_dirty, sock, pushed, m_writeBuffer, written>>
    BY <1>3 DEF SetHost, SetPort, LinkInv, TypeOK, threadVars, bufferVars
  <2>2. AsLink!Ask
    BY <2>1 DEF AsLink!Ask, named, Addresses
  <2> QED BY <2>2 DEF AsLink!Next
<1>4. CASE SetDirty \/ Stop
  BY <1>4 DEF SetDirty, Stop, nameVars, threadVars, bufferVars, callerVars, AsLink!vars, named
<1>5. ASSUME NEW host \in Names, NEW port \in PortNumbers, DoConnect(host, port)
      PROVE  AsLink!Next
  <2>1. /\ m_hostName \in Names /\ m_port \in PortNumbers /\ caller'.at # "idle"
        /\ UNCHANGED <<m_hostName, m_port, sock, pushed, m_writeBuffer, written>>
    BY <1>5 DEF DoConnect, LinkInv, TypeOK, nameVars, threadVars, bufferVars
  <2>2. AsLink!Ask
    BY <2>1 DEF AsLink!Ask, named, Addresses
  <2> QED BY <2>2 DEF AsLink!Next
<1>6. CASE UNCHANGED vars
  BY <1>6 DEF vars, AsLink!vars, nameVars, threadVars, bufferVars, callerVars, named
<1> QED BY <1>1, <1>2, <1>3, <1>4, <1>5, <1>6 DEF Next, Gone, Caller

\* A TCP client implements Link, for any hosts and ports and any interleaving of
\* doConnect's unlocked assignments with the thread's reads.
THEOREM TcpIsALink == Spec => ImplementsLink
<1>1. Init => AsLink!Init
  BY DEF Init, AsLink!Init, named, Addresses
<1> QED BY <1>1, LinkStep, LinkInvHolds, PTL DEF Spec, ImplementsLink, AsLink!Spec
=============================================================================
