-------------------------- MODULE SerialConnection --------------------------
(***************************************************************************)
(* plugins/PluginSerialConnection/SerialConnection: a serial port.         *)
(*                                                                         *)
(* The thread opens the port, writes what the protocols have queued and    *)
(* reads; a caller may name another port at any time.  The queue and the   *)
(* port's name are under m_mutex, which the thread holds while it writes   *)
(* or opens; m_isDirty asks it to close the port, and the thread looks at  *)
(* it, and at the name and the baud rate of a closed port, unlocked.       *)
(*                                                                         *)
(* read() gets the address of the pointer to its buffer in place of the    *)
(* buffer: what is read overwrites the pointer, which the thread deletes   *)
(* when it ends, and the stack behind it.                                  *)
(*                                                                         *)
(* A message is its number.  The bytes that are handed to the children and *)
(* the settings of the tty are left out.                                   *)
(***************************************************************************)
EXTENDS Integers, Sequences

CONSTANTS
  Ports,           \* names of serial ports
  NoName,          \* ""
  Closed,          \* the descriptor -1
  MAX_BUFFER_SIZE,
  MaxMessages,     \* bound on the messages queued
  MaxChanges       \* bound on the calls of connectToPort

ASSUME SerialAssumption ==
  /\ NoName \notin Ports
  /\ Closed \notin Ports
  /\ NoName # Closed
  /\ MAX_BUFFER_SIZE \in Nat \ {0}
  /\ MaxMessages \in Nat /\ MaxChanges \in Nat

Names == Ports \cup {NoName}
Rates == {0, 57600}

VARIABLES
  m_portName, m_baudRate, m_autoConnect,
  m_isDirty, m_stop,
  m_mutex,        \* who holds it: "none", "run" or "caller"
  m_writeBuffer,
  serialDsc,      \* the port that is open, or Closed
  run,            \* where the thread is
  read_buf,       \* what the pointer to the buffer holds: "array" or "bytes" read
  crashed,        \* undefined behaviour has ended the process
  caller,         \* [at, rate]: where connectToPort is
  pushed,         \* history: messages queued so far
  written,        \* history: the last message written
  changes         \* history: calls of connectToPort

portVars   == <<m_portName, m_baudRate, m_autoConnect>>
threadVars == <<serialDsc, run>>
bufferVars == <<m_writeBuffer, pushed, written>>
callerVars == <<caller, changes>>
readVars   == <<read_buf, crashed>>
vars == <<portVars, m_isDirty, m_stop, m_mutex, threadVars, bufferVars, callerVars, readVars>>

\* The constructor, whose thread starts after the connectToPort it may make.
Init ==
  /\ m_portName \in Names /\ m_baudRate \in Rates
  /\ \E auto \in BOOLEAN :
       LET connects == m_portName # NoName /\ m_baudRate >= 9600 /\ ~auto
       IN  m_autoConnect = auto /\ m_isDirty = connects
  /\ m_stop = FALSE
  /\ m_mutex = "none"
  /\ m_writeBuffer = << >> /\ pushed = 0 /\ written = 0
  /\ serialDsc = Closed /\ run = "while" /\ read_buf = "array" /\ crashed = FALSE
  /\ caller = [at |-> "idle", rate |-> 0] /\ changes = 0

-----------------------------------------------------------------------------
(***************************************************************************)
(* The callers.                                                            *)
(***************************************************************************)

\* Mutant: what comes when the queue is full is dropped.
KeptOldest(buffer) ==
  IF Len(buffer) < MAX_BUFFER_SIZE THEN buffer ELSE SubSeq(buffer, 1, MAX_BUFFER_SIZE - 1)

\* processFromChild: a lock, a push, and pops until the size is below the limit.
Kept(buffer) ==
  LET surplus == Len(buffer) - (MAX_BUFFER_SIZE - 1)
  IN  IF surplus > 0 THEN SubSeq(buffer, surplus + 1, Len(buffer)) ELSE buffer

ProcessFromChild ==
  /\ m_mutex = "none"
  /\ pushed < MaxMessages
  /\ pushed' = pushed + 1
  /\ m_writeBuffer' = Kept(Append(m_writeBuffer, pushed'))
  /\ UNCHANGED <<portVars, m_isDirty, m_stop, m_mutex, threadVars, written, callerVars>>

\* connectToPort, and disconnectFromPort with no name and rate 0: the thread
\* can see the name before it sees the rate, and both before the flag.
SetPort(name, rate) ==
  /\ caller.at = "idle" /\ m_mutex = "none"
  /\ changes < MaxChanges
  /\ changes' = changes + 1
  /\ m_mutex' = "caller"
  /\ m_portName' = name
  /\ caller' = [at |-> "setBaud", rate |-> rate]
  /\ UNCHANGED <<m_baudRate, m_autoConnect, m_isDirty, m_stop, threadVars, bufferVars>>

SetBaud ==
  /\ caller.at = "setBaud"
  /\ m_baudRate' = caller.rate
  /\ m_autoConnect' = FALSE
  /\ caller' = [caller EXCEPT !.at = "setDirty"]
  /\ UNCHANGED <<m_portName, m_isDirty, m_stop, m_mutex, threadVars, bufferVars, changes>>

\* Mutant: the thread is not told.
SetDirtyNot ==
  /\ caller.at = "setDirty"
  /\ m_mutex' = "none"
  /\ caller' = [caller EXCEPT !.at = "idle"]
  /\ UNCHANGED <<portVars, m_isDirty, m_stop, threadVars, bufferVars, changes>>

SetDirty ==
  /\ caller.at = "setDirty"
  /\ m_isDirty' = TRUE
  /\ m_mutex' = "none"
  /\ caller' = [caller EXCEPT !.at = "idle"]
  /\ UNCHANGED <<portVars, m_stop, threadVars, bufferVars, changes>>

\* The destructor, which then waits for the thread.
Stop ==
  /\ ~m_stop /\ caller.at = "idle"
  /\ m_stop' = TRUE
  /\ UNCHANGED <<portVars, m_isDirty, m_mutex, threadVars, bufferVars, callerVars>>

-----------------------------------------------------------------------------
(***************************************************************************)
(* The thread.                                                             *)
(***************************************************************************)
ThreadKeeps == UNCHANGED <<portVars, m_stop, pushed, callerVars, read_buf>>

While ==
  /\ run = "while" /\ ~m_stop
  /\ run' = IF serialDsc # Closed THEN "dirty?" ELSE "name?"
  /\ UNCHANGED <<m_isDirty, m_mutex, serialDsc, m_writeBuffer, written>> /\ ThreadKeeps

\* delete[] read_buf is harmless while the pointer is what new gave (see Crash).
End ==
  /\ run = "while" /\ m_stop
  /\ serialDsc' = Closed
  /\ run' = "ended"
  /\ UNCHANGED <<m_isDirty, m_mutex, m_writeBuffer, written>> /\ ThreadKeeps

\* Mutant: the flag is not looked at.
CheckDirtyNever ==
  /\ run = "dirty?"
  /\ run' = "lock"
  /\ UNCHANGED <<m_isDirty, m_mutex, serialDsc, m_writeBuffer, written>> /\ ThreadKeeps

CheckDirty ==
  /\ run = "dirty?"
  /\ IF m_isDirty
       THEN serialDsc' = Closed /\ run' = "while"
       ELSE run' = "lock" /\ UNCHANGED serialDsc
  /\ UNCHANGED <<m_isDirty, m_mutex, m_writeBuffer, written>> /\ ThreadKeeps

LockToWrite ==
  /\ run = "lock" /\ m_mutex = "none"
  /\ m_mutex' = "run" /\ run' = "write"
  /\ UNCHANGED <<m_isDirty, serialDsc, m_writeBuffer, written>> /\ ThreadKeeps

\* Mutants: the newest message is written first; the one written is not popped.
WriteLastIn ==
  /\ run = "write" /\ m_writeBuffer # << >>
  /\ written' = m_writeBuffer[Len(m_writeBuffer)]
  /\ m_writeBuffer' = SubSeq(m_writeBuffer, 1, Len(m_writeBuffer) - 1)
  /\ UNCHANGED <<m_isDirty, m_mutex, threadVars>> /\ ThreadKeeps

WriteWithoutPop ==
  /\ run = "write" /\ m_writeBuffer # << >>
  /\ written' = Head(m_writeBuffer)
  /\ UNCHANGED <<m_isDirty, m_mutex, threadVars, m_writeBuffer>> /\ ThreadKeeps

Write ==
  /\ run = "write" /\ m_writeBuffer # << >>
  /\ written' = Head(m_writeBuffer)
  /\ m_writeBuffer' = Tail(m_writeBuffer)
  /\ UNCHANGED <<m_isDirty, m_mutex, threadVars>> /\ ThreadKeeps

\* Mutant: the lock is kept.
UnlockNot ==
  /\ run = "write" /\ m_writeBuffer = << >>
  /\ run' = "read"
  /\ UNCHANGED <<m_isDirty, m_mutex, serialDsc, m_writeBuffer, written>> /\ ThreadKeeps

Unlock ==
  /\ run = "write" /\ m_writeBuffer = << >>
  /\ m_mutex' = "none" /\ run' = "read"
  /\ UNCHANGED <<m_isDirty, serialDsc, m_writeBuffer, written>> /\ ThreadKeeps

\* Nothing is there to be read, or what is there overwrites the pointer.
Read ==
  /\ run = "read" /\ run' = "while"
  /\ read_buf' \in {read_buf, "bytes"}
  /\ UNCHANGED <<portVars, m_isDirty, m_stop, m_mutex, serialDsc, bufferVars, callerVars>>

CheckName ==
  /\ run = "name?"
  /\ run' = IF m_portName # NoName \/ m_autoConnect THEN "baud?" ELSE "while"
  /\ UNCHANGED <<m_isDirty, m_mutex, serialDsc, m_writeBuffer, written>> /\ ThreadKeeps

CheckBaud ==
  /\ run = "baud?"
  /\ run' = IF m_baudRate > 0 THEN "open" ELSE "while"
  /\ UNCHANGED <<m_isDirty, m_mutex, serialDsc, m_writeBuffer, written>> /\ ThreadKeeps

\* Mutant: the name is not looked at again.
OpenUnchecked ==
  /\ run = "open" /\ m_mutex = "none"
  /\ serialDsc' = m_portName
  /\ m_isDirty' = FALSE
  /\ run' = "while"
  /\ UNCHANGED <<m_mutex, m_writeBuffer, written>> /\ ThreadKeeps

\* The name is looked at again under m_mutex; the automatic choice of a port
\* that the flag stands for is commented out in the source.
Open ==
  /\ run = "open" /\ m_mutex = "none" /\ m_portName # NoName
  /\ serialDsc' = m_portName
  /\ m_isDirty' = FALSE
  /\ run' = "while"
  /\ UNCHANGED <<m_mutex, m_writeBuffer, written>> /\ ThreadKeeps

\* No name any more, or open or tcsetattr fails and a second goes by.
OpenFails ==
  /\ run = "open" /\ m_mutex = "none"
  /\ run' = "while"
  /\ UNCHANGED <<m_isDirty, m_mutex, serialDsc, m_writeBuffer, written>> /\ ThreadKeeps

\* What is read beyond the pointer, up to MAX_READ_BYTES_SIZE bytes, overwrites
\* the stack, and the end of the thread deletes what is no array.  Either may go
\* unnoticed (Read, End) or end the process.
Crash ==
  /\ ~crashed
  /\ run = "read" \/ (run = "while" /\ m_stop /\ read_buf = "bytes")
  /\ crashed' = TRUE /\ read_buf' = "bytes"
  /\ UNCHANGED <<portVars, m_isDirty, m_stop, m_mutex, threadVars, bufferVars, callerVars>>

Up == ~crashed /\ UNCHANGED crashed

Thread ==
  /\ Up
  /\ \/ While \/ End \/ CheckDirty \/ LockToWrite \/ Write \/ Unlock \/ Read
     \/ CheckName \/ CheckBaud \/ Open \/ OpenFails

\* A caller in connectToPort.
Caller == Up /\ UNCHANGED read_buf /\ (SetBaud \/ SetDirty)

Calls ==
  /\ Up /\ UNCHANGED read_buf
  /\ \/ ~m_stop /\ ProcessFromChild
     \/ ~m_stop /\ \E name \in Ports, rate \in Rates : SetPort(name, rate)
     \/ ~m_stop /\ SetPort(NoName, 0)
     \/ Stop

\* The destructor has returned, so that nobody uses the object any more, or the
\* process is gone.
Gone == (run = "ended" \/ crashed) /\ UNCHANGED vars

Next == Thread \/ Caller \/ Calls \/ Crash \/ Gone

Spec == Init /\ [][Next]_vars

\* The scheduler runs the thread and a caller that has the lock, and a port
\* that is tried again and again is there in the end.
FairSpec == Spec /\ WF_vars(Thread) /\ WF_vars(Caller) /\ SF_vars(Up /\ Open)

-----------------------------------------------------------------------------
(***************************************************************************)
(* Properties.                                                             *)
(***************************************************************************)
\* The type of every variable.
TypeOK ==
  /\ m_portName \in Names /\ m_baudRate \in Rates /\ m_autoConnect \in BOOLEAN
  /\ m_isDirty \in BOOLEAN /\ m_stop \in BOOLEAN
  /\ m_mutex \in {"none", "run", "caller"}
  /\ m_writeBuffer \in Seq(Nat) /\ pushed \in Nat /\ written \in Nat
  /\ serialDsc \in Ports \cup {Closed}
  /\ run \in {"while", "dirty?", "lock", "write", "read", "name?", "baud?", "open", "ended"}
  /\ read_buf \in {"array", "bytes"} /\ crashed \in BOOLEAN
  /\ caller \in [at : {"idle", "setBaud", "setDirty"}, rate : Rates]
  /\ changes \in Nat

\* The thread works on the configured port: one that is open and that the
\* thread has not been asked to close is the port named last.  What the thread
\* saw of the name before it had the lock plays no part in it.
OpenIsConfigured ==
  serialDsc # Closed /\ ~m_isDirty /\ caller.at = "idle" => serialDsc = m_portName

\* The queue keeps the newest messages, all of them up to its limit, in the
\* order they came, and none of them has been written before.
NewestInOrder ==
  LET n == Len(m_writeBuffer)
  IN  /\ n < MAX_BUFFER_SIZE
      /\ n <= pushed /\ written <= pushed - n
      /\ \A i \in 1..n : m_writeBuffer[i] = pushed - n + i

\* A port that was named is opened, whatever port was open before, unless
\* another call comes first.
NamedPortIsOpened ==
  \A name \in Ports :
    (m_portName = name /\ m_baudRate > 0 /\ caller.at = "idle")
      ~> (serialDsc = name \/ m_portName # name \/ caller.at # "idle" \/ m_stop \/ crashed)

\* While a port stays open and the process lives, what is queued is written.
QueueIsWritten ==
  \A k \in 1..MaxMessages :
    (k \in {m_writeBuffer[i] : i \in DOMAIN m_writeBuffer} /\ serialDsc # Closed)
      ~> (k \notin {m_writeBuffer[i] : i \in DOMAIN m_writeBuffer} \/ serialDsc = Closed
          \/ crashed)

\* The destructor gets its thread back, with the port closed, wherever in the
\* loop it finds it.  Only what read() has overwritten can keep it from that: the
\* thread ends, or bytes have been read and they end the process.
ThreadEnds ==
  m_stop ~> (run = "ended" /\ serialDsc = Closed) \/ (crashed /\ read_buf = "bytes")
=============================================================================
