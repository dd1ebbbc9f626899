----------------------- MODULE SerialConnectionProofs -----------------------
(***************************************************************************)
(* Theorems about SerialConnection, for any set of ports, any limit of the *)
(* queue and any bounds.                                                   *)
(***************************************************************************)
EXTENDS SerialLink, SequenceTheorems, TLAPS

(***************************************************************************)
(* The queue.                                                              *)
(***************************************************************************)

\* Popping down to the limit keeps the end of a queue.
LEMMA KeptIsTheEnd ==
  ASSUME NEW buffer \in Seq(Nat), Len(buffer) <= MAX_BUFFER_SIZE
  PROVE  /\ Kept(buffer) \in Seq(Nat)
         /\ Len(Kept(buffer)) <= Len(buffer)
         /\ Len(Kept(buffer)) < MAX_BUFFER_SIZE
         /\ \A i \in 1..Len(Kept(buffer)) :
              Kept(buffer)[i] = buffer[Len(buffer) - Len(Kept(buffer)) + i]
<1> USE SerialAssumption
<1>1. CASE Len(buffer) - (MAX_BUFFER_SIZE - 1) > 0
  <2>1. PICK n \in Nat : n = Len(buffer)
    OBVIOUS
  <2>2. n = MAX_BUFFER_SIZE
    BY <1>1, <2>1
  <2>3. Kept(buffer) = SubSeq(buffer, 2, n)
    BY <2>1, <2>2 DEF Kept
  <2>4. n >= 1
    BY <2>2
  <2>5. /\ SubSeq(buffer, 2, n) \in Seq(Nat)
        /\ Len(SubSeq(buffer, 2, n)) = n - 1
        /\ \A i \in 1..(n - 1) : SubSeq(buffer, 2, n)[i] = buffer[1 + i]
    BY <2>1, <2>4
  <2> QED BY <2>1, <2>2, <2>3, <2>4, <2>5
<1>2. CASE ~(Len(buffer) - (MAX_BUFFER_SIZE - 1) > 0)
  <2>1. Kept(buffer) = buffer
    BY <1>2 DEF Kept
  <2>2. Len(buffer) < MAX_BUFFER_SIZE
    BY <1>2
  <2> QED BY <2>1, <2>2
<1> QED BY <1>1, <1>2

\* The messages of the queue, which are what came last.
Newest(buffer, last) ==
  /\ Len(buffer) <= last
  /\ \A i \in 1..Len(buffer) : buffer[i] = last - Len(buffer) + i

LEMMA KeptAreNewest ==
  ASSUME NEW buffer \in Seq(Nat), NEW last \in Nat,
         Newest(buffer, last), Len(buffer) < MAX_BUFFER_SIZE
  PROVE  LET kept == Kept(Append(buffer, last + 1))
         IN  /\ kept \in Seq(Nat) /\ Newest(kept, last + 1)
             /\ Len(kept) < MAX_BUFFER_SIZE /\ Len(kept) <= Len(buffer) + 1
<1> DEFINE all == Append(buffer, last + 1)
<1>1. PICK n \in Nat : n = Len(buffer)
  OBVIOUS
<1>2. /\ all \in Seq(Nat) /\ Len(all) = n + 1 /\ all[n + 1] = last + 1
      /\ \A i \in 1..n : all[i] = buffer[i]
  BY <1>1
<1>3. \A i \in 1..(n + 1) : all[i] = last - n + i
  BY <1>1, <1>2 DEF Newest
<1>4. n <= last
  BY <1>1 DEF Newest
<1> HIDE DEF all
<1>5. PICK kept : kept = Kept(all)
  OBVIOUS
<1>6. /\ kept \in Seq(Nat) /\ Len(kept) <= n + 1 /\ Len(kept) < MAX_BUFFER_SIZE
      /\ \A i \in 1..Len(kept) : kept[i] = all[n + 1 - Len(kept) + i]
  <2>1. n + 1 <= MAX_BUFFER_SIZE
    BY <1>1, SerialAssumption
  <2>2. /\ Kept(all) \in Seq(Nat) /\ Len(Kept(all)) <= Len(all)
        /\ Len(Kept(all)) < MAX_BUFFER_SIZE
        /\ \A i \in 1..Len(Kept(all)) : Kept(all)[i] = all[Len(all) - Len(Kept(all)) + i]
    BY <1>2, <2>1, KeptIsTheEnd
  <2>3. Len(all) = n + 1
    BY <1>2
  <2> QED BY <1>5, <2>2, <2>3
<1>7. PICK k \in Nat : k = Len(kept)
  BY <1>6
<1>8. \A i \in 1..k : kept[i] = (last + 1) - k + i
  <2> SUFFICES ASSUME NEW i \in 1..k PROVE kept[i] = (last + 1) - k + i
    OBVIOUS
  <2>1. n + 1 - k + i \in 1..(n + 1)
    BY <1>6, <1>7
  <2>2. kept[i] = all[n + 1 - k + i]
    BY <1>6, <1>7
  <2> QED BY <1>3, <2>1, <2>2
<1>9. Newest(kept, last + 1)
  <2>1. k <= last + 1
    BY <1>4, <1>6, <1>7
  <2> QED BY <1>7, <1>8, <2>1 DEF Newest
<1> QED BY <1>1, <1>5, <1>6, <1>9 DEF all

\* The head goes out and the rest are still the newest.
LEMMA TailAreNewest ==
  ASSUME NEW buffer \in Seq(Nat), NEW last \in Nat, Newest(buffer, last), buffer # << >>
  PROVE  /\ Newest(Tail(buffer), last)
         /\ Len(Tail(buffer)) = Len(buffer) - 1
         /\ Head(buffer) = last - Len(Tail(buffer))
<1>1. PICK n \in Nat : n = Len(buffer)
  OBVIOUS
<1>2. n >= 1
  BY <1>1
<1>3. /\ Len(Tail(buffer)) = n - 1 /\ Head(buffer) = buffer[1]
      /\ \A i \in 1..(n - 1) : Tail(buffer)[i] = buffer[i + 1]
  BY <1>1, <1>2
<1>4. n <= last /\ \A i \in 1..n : buffer[i] = last - n + i
  BY <1>1 DEF Newest
<1>5. \A i \in 1..(n - 1) : Tail(buffer)[i] = last - (n - 1) + i
  BY <1>2, <1>3, <1>4
<1>6. Head(buffer) = last - (n - 1)
  BY <1>2, <1>3, <1>4
<1> QED BY <1>1, <1>3, <1>4, <1>5, <1>6 DEF Newest

(***************************************************************************)
(* Types, and who holds m_mutex.                                           *)
(***************************************************************************)

\* The variables keep their types: the ones of SerialConnection and the
\* positions of the thread and of the caller.
THEOREM TypeCorrect == Spec => []TypeOK
<1> USE SerialAssumption
<1>1. Init => TypeOK
  <2> SUFFICES ASSUME Init PROVE TypeOK
    OBVIOUS
  <2>1. m_writeBuffer \in Seq(Nat)
    BY DEF Init
  <2>2. caller \in [at : {"idle", "setBaud", "setDirty"}, rate : Rates]
    BY DEF Init, Rates
  <2>3. m_isDirty \in BOOLEAN /\ m_autoConnect \in BOOLEAN
    BY DEF Init
  <2>4. /\ m_portName \in Names /\ m_baudRate \in Rates /\ m_stop \in BOOLEAN
    BY DEF Init
  <2>7. m_mutex \in {"none", "run", "caller"} /\ serialDsc \in Ports \cup {Closed}
    BY DEF Init
  <2>5. pushed \in Nat /\ written \in Nat /\ changes \in Nat
    BY DEF Init
  <2>6. /\ run \in {"while", "dirty?", "lock", "write", "read", "name?", "baud?", "open",
                   "ended"}
        /\ read_buf \in {"array", "bytes"} /\ crashed \in BOOLEAN
    BY DEF Init
  <2> QED BY <2>1, <2>2, <2>3, <2>4, <2>5, <2>6, <2>7 DEF TypeOK
<1>2. TypeOK /\ [Next]_vars => TypeOK'
  <2> USE DEF Names, Rates
  <2> SUFFICES ASSUME TypeOK, [Next]_vars PROVE TypeOK'
    OBVIOUS
  <2>1. CASE Thread
    <3>0. crashed' \in BOOLEAN
      BY <2>1 DEF Thread, Up, TypeOK
    <3> USE <3>0 DEF ThreadKeeps, portVars, threadVars, callerVars
    <3>1. CASE While \/ End \/ CheckDirty
      BY <3>1 DEF While, End, CheckDirty, TypeOK
    <3>2. CASE LockToWrite \/ Unlock \/ Read \/ CheckName \/ CheckBaud
      BY <3>2 DEF LockToWrite, Unlock, Read, bufferVars, CheckName, CheckBaud, TypeOK
    <3>3. CASE Open
      <4>1. serialDsc' \in Ports \cup {Closed}
        BY <3>3 DEF Open, TypeOK
      <4>2. m_isDirty' \in BOOLEAN /\ run' = "while"
        BY <3>3 DEF Open
      <4> QED BY <3>3, <4>1, <4>2 DEF Open, TypeOK
    <3>4. CASE OpenFails
      BY <3>4 DEF OpenFails, TypeOK
    <3>5. CASE Write
      <4>1. m_writeBuffer \in Seq(Nat) /\ m_writeBuffer # << >>
        BY <3>5 DEF TypeOK, Write
      <4>2. Head(m_writeBuffer) \in Nat /\ Tail(m_writeBuffer) \in Seq(Nat)
        BY <4>1
      <4> QED BY <3>5, <4>2 DEF Write, TypeOK
    <3> QED BY <2>1, <3>1, <3>2, <3>3, <3>4, <3>5 DEF Thread
  <2>2. CASE ProcessFromChild /\ UNCHANGED readVars
    <3>1. Append(m_writeBuffer, pushed + 1) \in Seq(Nat)
      BY DEF TypeOK
    <3>2. m_writeBuffer' \in Seq(Nat)
      <4>1. PICK all \in Seq(Nat) : all = Append(m_writeBuffer, pushed + 1)
        BY <3>1
      <4>2. m_writeBuffer' = Kept(all)
        BY <2>2, <4>1 DEF ProcessFromChild
      <4>3. Kept(all) \in Seq(Nat)
        BY DEF Kept
      <4> QED BY <4>2, <4>3
    <3> QED
      BY <2>2, <3>2
         DEF ProcessFromChild, TypeOK, portVars, threadVars, callerVars, readVars
  <2>3. ASSUME NEW name \in Names, NEW rate \in Rates, SetPort(name, rate),
               UNCHANGED readVars
        PROVE  TypeOK'
    BY <2>3 DEF SetPort, TypeOK, threadVars, bufferVars, readVars
  <2>4. CASE (SetBaud \/ SetDirty \/ Stop) /\ UNCHANGED readVars
    <3> USE <2>4 DEF readVars, portVars, threadVars, bufferVars, callerVars
    <3>1. CASE SetBaud
      <4> HIDE DEF Rates
      <4>1. m_baudRate' \in Rates /\ m_autoConnect' \in BOOLEAN
        <5>1. caller.rate \in Rates
          BY DEF TypeOK
        <5> QED BY <3>1, <5>1 DEF SetBaud
      <4>2. caller' \in [at : {"idle", "setBaud", "setDirty"}, rate : Rates]
        BY <3>1 DEF SetBaud, TypeOK
      <4> QED BY <3>1, <4>1, <4>2 DEF SetBaud, TypeOK
    <3>2. CASE SetDirty
      <4>1. caller' \in [at : {"idle", "setBaud", "setDirty"}, rate : Rates]
        BY <3>2 DEF SetDirty, TypeOK
      <4> QED BY <3>2, <4>1 DEF SetDirty, TypeOK
    <3>3. CASE Stop
      BY <3>3 DEF Stop, TypeOK
    <3> QED BY <3>1, <3>2, <3>3
  <2>5. CASE UNCHANGED vars
    BY <2>5 DEF vars, TypeOK, portVars, threadVars, bufferVars, callerVars, readVars
  <2>6. CASE Crash
    BY <2>6 DEF Crash, TypeOK, portVars, threadVars, bufferVars, callerVars
  <2> QED
    BY <2>1, <2>2, <2>3, <2>4, <2>5, <2>6 DEF Next, Caller, Calls, Up, Gone, readVars
<1> QED BY <1>1, <1>2, PTL DEF Spec

(***************************************************************************)
(* The port.  The caller holds m_mutex for the whole of connectToPort and  *)
(* the thread opens under it, so the name does not change between the      *)
(* thread's second look at it and its taking m_isDirty down.               *)
(***************************************************************************)
PortInv ==
  /\ caller.at # "idle" => m_mutex = "caller"
  /\ run = "write" => m_mutex = "run"
  /\ run \in {"name?", "baud?", "open", "ended"} => serialDsc = Closed
  /\ OpenIsConfigured

\* However a call of connectToPort or disconnectFromPort falls between the
\* thread's unlocked checks, a port that is open and that the thread has not
\* been asked to close is the port named last.
THEOREM AlwaysConfigured == Spec => []OpenIsConfigured
<1> USE DEF OpenIsConfigured
<1>1. Init => PortInv
  BY DEF Init, PortInv
<1>2. TypeOK /\ PortInv /\ [Next]_vars => PortInv'
  <2> SUFFICES ASSUME TypeOK, PortInv, [Next]_vars PROVE PortInv'
    OBVIOUS
  <2> USE DEF PortInv
  <2>1. CASE Thread
    <3> USE DEF ThreadKeeps, portVars, callerVars
    <3>1. CASE While \/ End \/ CheckDirty
      BY <3>1 DEF While, End, CheckDirty
    <3>2. CASE LockToWrite \/ Write \/ Unlock \/ Read
      BY <3>2 DEF LockToWrite, Write, Unlock, Read, threadVars
    <3>3. CASE CheckName \/ CheckBaud
      BY <3>3 DEF CheckName, CheckBaud
    <3>4. CASE Open \/ OpenFails
      BY <3>4 DEF Open, OpenFails
    <3> QED BY <2>1, <3>1, <3>2, <3>3, <3>4 DEF Thread
  <2>2. CASE ProcessFromChild
    BY <2>2 DEF ProcessFromChild, portVars, threadVars, callerVars
  <2>3. ASSUME NEW name \in Names, NEW rate \in Rates, SetPort(name, rate)
        PROVE  PortInv'
    BY <2>3 DEF SetPort, threadVars
  <2>4. CASE SetBaud \/ SetDirty \/ Stop
    BY <2>4 DEF SetBaud, SetDirty, Stop, portVars, threadVars, callerVars, TypeOK
  <2>5. CASE UNCHANGED vars
    BY <2>5 DEF vars, portVars, threadVars, callerVars
  <2>6. CASE Crash
    BY <2>6 DEF Crash, portVars, threadVars, callerVars
  <2> QED
    BY <2>1, <2>2, <2>3, <2>4, <2>5, <2>6 DEF Next, Caller, Calls, Gone, Names, Rates
<1>3. PortInv => OpenIsConfigured
  BY DEF PortInv
<1> QED BY <1>1, <1>2, <1>3, TypeCorrect, PTL DEF Spec

\* Below its limit the queue loses nothing, above it it loses the oldest: it
\* holds the newest messages in order, none of which has been written.
THEOREM QueueKeepsNewest == Spec => []NewestInOrder
<1>1. Init => NewestInOrder
  <2> SUFFICES ASSUME Init PROVE NewestInOrder
    OBVIOUS
  <2>1. m_writeBuffer \in Seq(Nat) /\ Len(m_writeBuffer) = 0
    BY DEF Init
  <2>2. written = 0 /\ pushed = 0
    BY DEF Init
  <2> QED BY <2>1, <2>2, SerialAssumption DEF NewestInOrder
<1>2. TypeOK /\ NewestInOrder /\ [Next]_vars => NewestInOrder'
  <2> SUFFICES ASSUME TypeOK, NewestInOrder, [Next]_vars PROVE NewestInOrder'
    OBVIOUS
  <2>1. /\ m_writeBuffer \in Seq(Nat) /\ pushed \in Nat /\ written \in Nat
        /\ Newest(m_writeBuffer, pushed)
        /\ Len(m_writeBuffer) < MAX_BUFFER_SIZE /\ written <= pushed - Len(m_writeBuffer)
    BY DEF TypeOK, NewestInOrder, Newest
  <2>2. CASE Write
    <3>1. /\ m_writeBuffer # << >> /\ m_writeBuffer' = Tail(m_writeBuffer)
          /\ written' = Head(m_writeBuffer) /\ pushed' = pushed
      BY <2>2 DEF Write, ThreadKeeps
    <3>2. /\ Newest(m_writeBuffer', pushed')
          /\ Len(m_writeBuffer') = Len(m_writeBuffer) - 1
          /\ written' = pushed' - Len(m_writeBuffer')
      BY <2>1, <3>1, TailAreNewest
    <3>3. Len(m_writeBuffer') < MAX_BUFFER_SIZE
      BY <2>1, <3>2, SerialAssumption
    <3>4. written' <= pushed' - Len(m_writeBuffer')
      <4>1. PICK n \in Nat : n = Len(m_writeBuffer)
        BY <2>1
      <4> QED BY <2>1, <3>1, <3>2, <4>1
    <3> QED BY <3>2, <3>3, <3>4 DEF NewestInOrder, Newest
  <2>3. CASE ProcessFromChild
    <3>1. m_writeBuffer' = Kept(Append(m_writeBuffer, pushed + 1)) /\ pushed' = pushed + 1
          /\ written' = written
      BY <2>3 DEF ProcessFromChild
    <3>2. /\ m_writeBuffer' \in Seq(Nat) /\ Newest(m_writeBuffer', pushed')
          /\ Len(m_writeBuffer') < MAX_BUFFER_SIZE
          /\ Len(m_writeBuffer') <= Len(m_writeBuffer) + 1
      BY <2>1, <3>1, KeptAreNewest
    <3>3. written' <= pushed' - Len(m_writeBuffer')
      <4>1. PICK n \in Nat, k \in Nat : n = Len(m_writeBuffer) /\ k = Len(m_writeBuffer')
        BY <2>1, <3>2
      <4> QED BY <2>1, <3>1, <3>2, <4>1
    <3> QED BY <3>2, <3>3 DEF NewestInOrder, Newest
  <2>4. CASE UNCHANGED bufferVars
    BY <2>4 DEF NewestInOrder, bufferVars
  <2>5. CASE Thread /\ ~Write
    BY <2>4, <2>5 DEF Thread, While, End, CheckDirty, LockToWrite, Unlock, Read,
                      CheckName, CheckBaud, Open, OpenFails, ThreadKeeps, bufferVars
  <2>6. CASE SetBaud \/ SetDirty \/ Stop
    BY <2>4, <2>6 DEF SetBaud, SetDirty, Stop
  <2>7. ASSUME NEW name \in Names, NEW rate \in Rates, SetPort(name, rate)
        PROVE  NewestInOrder'
    BY <2>4, <2>7 DEF SetPort
  <2>8. CASE UNCHANGED vars
    BY <2>4, <2>8 DEF vars
  <2>9. CASE Crash
    BY <2>4, <2>9 DEF Crash
  <2> QED
    BY <2>2, <2>3, <2>5, <2>6, <2>7, <2>8, <2>9 DEF Next, Caller, Calls, Gone, Names, Rates
<1> QED BY <1>1, <1>2, TypeCorrect, PTL DEF Spec

(***************************************************************************)
(* The connection is a data link.                                          *)
(***************************************************************************)

\* The thread writes only while a port is open.
LinkInv ==
  /\ TypeOK /\ NewestInOrder
  /\ caller.at # "idle" => m_mutex = "caller"
  /\ run \in {"dirty?", "lock", "write"} => serialDsc # Closed
  /\ run = "open" => serialDsc = Closed

LEMMA LinkInvHolds == Spec => []LinkInv
<1> DEFINE Places ==
      /\ caller.at # "idle" => m_mutex = "caller"
      /\ run = "write" => m_mutex = "run"
      /\ run \in {"dirty?", "lock", "write"} => serialDsc # Closed
      /\ run \in {"name?", "baud?", "open"} => serialDsc = Closed
<1>1. Init => Places
  BY DEF Init
<1>2. TypeOK /\ Places /\ [Next]_vars => Places'
  <2> SUFFICES ASSUME TypeOK, Places, [Next]_vars PROVE Places'
    OBVIOUS
  <2>1. CASE Thread
    <3> USE DEF ThreadKeeps, callerVars
    <3>1. CASE While \/ End \/ CheckDirty
      BY <3>1 DEF While, End, CheckDirty
    <3>2. CASE LockToWrite \/ Write \/ Unlock \/ Read
      BY <3>2 DEF LockToWrite, Write, Unlock, Read, threadVars
    <3>3. CASE CheckName \/ CheckBaud
      BY <3>3 DEF CheckName, CheckBaud
    <3>4. CASE Open \/ OpenFails
      BY <3>4 DEF Open, OpenFails
    <3> QED BY <2>1, <3>1, <3>2, <3>3, <3>4 DEF Thread
  <2>2. CASE ProcessFromChild
    BY <2>2 DEF ProcessFromChild, threadVars, callerVars
  <2>3. ASSUME NEW name \in Names, NEW rate \in Rates, SetPort(name, rate)
        PROVE  Places'
    BY <2>3 DEF SetPort, threadVars
  <2>4. CASE SetBaud \/ SetDirty \/ Stop
    BY <2>4 DEF SetBaud, SetDirty, Stop, threadVars, callerVars, TypeOK
  <2>5. CASE UNCHANGED vars
    BY <2>5 DEF vars, threadVars, callerVars
  <2>6. CASE Crash
    BY <2>6 DEF Crash, threadVars, callerVars
  <2> QED
    BY <2>1, <2>2, <2>3, <2>4, <2>5, <2>6 DEF Next, Caller, Calls, Gone, Names, Rates
<1>3. TypeOK /\ NewestInOrder /\ Places => LinkInv
  BY DEF LinkInv
<1> HIDE DEF Places
<1> QED BY <1>1, <1>2, <1>3, TypeCorrect, QueueKeepsNewest, PTL DEF Spec

\* A queue that has grown beyond its limit has grown by one message.
LEMMA KeptDropsOne ==
  ASSUME NEW all \in Seq(Nat), Len(all) <= MAX_BUFFER_SIZE
  PROVE  Kept(all) = IF Len(all) > MAX_BUFFER_SIZE - 1 THEN Tail(all) ELSE all
<1> USE SerialAssumption
<1>1. PICK n \in Nat : n = Len(all)
  OBVIOUS
<1>2. CASE n > MAX_BUFFER_SIZE - 1
  <2>1. n = MAX_BUFFER_SIZE /\ n >= 1
    BY <1>1, <1>2
  <2>2. Kept(all) = SubSeq(all, 2, n)
    BY <1>1, <2>1 DEF Kept
  <2>3. SubSeq(all, 2, n) = Tail(all)
    <3>1. all # << >>
      BY <1>1, <2>1
    <3> QED BY <1>1, <3>1, TailIsSubSeq
  <2> QED BY <1>1, <1>2, <2>2, <2>3
<1>3. CASE ~(n > MAX_BUFFER_SIZE - 1)
  BY <1>1, <1>3 DEF Kept
<1> QED BY <1>2, <1>3

LEMMA LinkStep == LinkInv /\ [Next]_vars => [AsLink!Next]_AsLink!vars
<1> SUFFICES ASSUME LinkInv, [Next]_vars PROVE [AsLink!Next]_AsLink!vars
  OBVIOUS
<1> USE DEF settled
<1>1. CASE Thread
  <2> USE DEF ThreadKeeps, portVars, callerVars
  <2>1. CASE While \/ LockToWrite \/ Unlock \/ Read \/ CheckName \/ CheckBaud \/ OpenFails
    BY <2>1 DEF While, LockToWrite, Unlock, Read, bufferVars, CheckName, CheckBaud, OpenFails,
                    AsLink!vars
  <2>2. CASE End \/ CheckDirty
    <3>1. serialDsc' \in {serialDsc, Closed}
          /\ UNCHANGED <<m_portName, m_isDirty, caller, pushed, m_writeBuffer, written>>
      BY <2>2 DEF End, CheckDirty
    <3> QED BY <3>1 DEF AsLink!Next, AsLink!Disconnect, AsLink!vars
  <2>3. CASE Write
    <3>1. serialDsc # Closed
      BY <2>3 DEF LinkInv, Write
    <3>2. AsLink!GoOut
      BY <2>3, <3>1 DEF Write, AsLink!GoOut, threadVars
    <3> QED BY <3>2 DEF AsLink!Next
  <2>4. CASE Open
    <3>1. serialDsc = Closed /\ caller.at = "idle" /\ m_portName \in Names
      BY <2>4 DEF LinkInv, TypeOK, Open
    <3>2. AsLink!Connect
      BY <2>4, <3>1 DEF Open, AsLink!Connect
    <3> QED BY <3>2 DEF AsLink!Next
  <2> QED BY <1>1, <2>1, <2>2, <2>3, <2>4 DEF Thread
<1>2. CASE ProcessFromChild
  <2> DEFINE all == Append(m_writeBuffer, pushed + 1)
  <2>1. /\ all \in Seq(Nat) /\ Len(all) <= MAX_BUFFER_SIZE
    <3>1. PICK n \in Nat : n = Len(m_writeBuffer)
      BY DEF LinkInv, TypeOK
    <3>2. n < MAX_BUFFER_SIZE /\ m_writeBuffer \in Seq(Nat) /\ pushed \in Nat
      BY <3>1 DEF LinkInv, TypeOK, NewestInOrder
    <3>3. all \in Seq(Nat) /\ Len(all) = n + 1
      BY <3>1, <3>2
    <3> QED BY <3>2, <3>3, SerialAssumption
  <2>2. /\ pushed < MaxMessages /\ pushed' = pushed + 1 /\ m_writeBuffer' = Kept(all)
        /\ UNCHANGED <<m_portName, m_isDirty, caller, serialDsc, written>>
    BY <1>2 DEF ProcessFromChild, portVars, threadVars, callerVars
  <2>3. m_writeBuffer' = IF Len(all) > MAX_BUFFER_SIZE - 1 THEN Tail(all) ELSE all
    BY <2>1, <2>2, KeptDropsOne
  <2>4. AsLink!Give
    BY <2>2, <2>3 DEF AsLink!Give
  <2> QED BY <2>4 DEF AsLink!Next
<1>3. ASSUME NEW name \in Names, NEW rate \in Rates, SetPort(name, rate)
      PROVE  AsLink!Ask
  BY <1>3 DEF SetPort, AsLink!Ask, threadVars, bufferVars
<1>4. CASE SetBaud \/ SetDirty \/ Stop
  <2>1. /\ UNCHANGED <<m_portName, serialDsc, pushed, m_writeBuffer, written>>
        /\ settled' = settled
    BY <1>4 DEF SetBaud, SetDirty, Stop, portVars, threadVars, bufferVars, callerVars, LinkInv,
                TypeOK
  <2> QED BY <2>1 DEF AsLink!vars
<1>5. CASE UNCHANGED vars
  BY <1>5 DEF vars, AsLink!vars, portVars, threadVars, bufferVars, callerVars
<1>6. CASE Crash
  BY <1>6 DEF Crash, AsLink!vars, portVars, threadVars, bufferVars, callerVars
<1> QED
  BY <1>1, <1>2, <1>3, <1>4, <1>5, <1>6
     DEF Next, Caller, Calls, Gone, Names, Rates, AsLink!Next

\* A serial connection implements Link, for any ports, any limit of its queue and
\* any interleaving of connectToPort and processFromChild with the thread.
THEOREM SerialIsALink == Spec => ImplementsLink
<1>1. Init => AsLink!Init
  BY DEF Init, AsLink!Init, settled
<1> QED BY <1>1, LinkStep, LinkInvHolds, PTL DEF Spec, ImplementsLink, AsLink!Spec
=============================================================================
