# Formal models of SGCS

SGCS is a ground control station: it connects to vehicles (drones) over a serial
line or TCP, finds out which protocol they speak, keeps a model of each of them,
and sends them commands.  This directory holds TLA+ models of its concurrent core,
the TLC configurations that check them and the TLAPS proofs of their main
invariants.  Paths below are relative to the repository (`src/`).

## The system

| Component | State | Operations | Talks to |
|---|---|---|---|
| `libSGCS/connection/Connection`, `libTools/IOObject` | list of children, parent | `addChild`, `removeChild`, `writeToChild`, `processFromChild` | plugin connections below, router or protocol above |
| `libSGCS/connection/ConnectionRouter` | `m_buffer`, `m_protos`, `m_protocol`, a thread | buffers chunks, tries them on every protocol, hands the connection over to the first valid one | connection (callback), protocols (calls, deletion), leafs |
| `libSGCS/connection/UavProtocol`, `libUAV/UavMessage` | three lists `m_send`, `m_uavs`, handlers, the sender thread | `sendMessage`, `processFromParent`, `requestToSend`, `checkUAV`, `addUavCreateHandler` | connection (bytes), autopilots (submissions), leafs (new vehicles) |
| `plugins/PluginMavlink/MavlinkProtocol` | parsed packets, `m_modes2`, the reader thread | parses, creates an autopilot per vehicle, dispatches telemetry, connects the vehicle's controls | `UavProtocol`, autopilots, `libUAV` |
| `plugins/PluginMavlink/MavlinkHelper` | none | `compare`: which packet answers or replaces which; stacks of packets | `UavProtocol` |
| `IAutopilot`, `AutopilotPixhawkImpl`, `AutopilotAPMImpl` | last heard mode, flags of the flight logic, reposition thread, ping thread | arm, disarm, take off, land, return, go to, speed, calibration, RTCM | submits to `UavProtocol`, writes `libUAV` |
| `plugins/PluginSerialConnection` | port name, rate, dirty flag, bounded queue, a thread | `connectToPort`, `disconnectFromPort`, `processFromChild`, `run` | a tty |
| `plugins/PluginIPConnection` | host, port, dirty flag, unbounded queue, a thread | `doConnect`, `closeConnection` (empty), `processFromChild`, `run` | a socket |
| `libUAV` | plain values behind a mutex each | getters, setters, callbacks to the autopilot | leafs, autopilots |
| `libSGCS/config/RunConfiguration` | configuration objects and a file | `create`, `get`, `save`, `forceSave` | all plugins |
| `libSGCS/GCSRTK`, `GCSStatus` | callbacks | forwards RTCM corrections | autopilots |
| `libSGCS/plugins`, `SGCSApp/main.cpp` | loaded libraries | wiring at start | everything |
| `plugins/PluginIPConnection/IPInterfaceUDP*`, `libUAV/obj`, `UavFabric.h`, `PluginMavlink/impl` | | not reached from the program | |

A chunk of bytes goes from a connection's thread through `writeToChild` into the
router or the protocol; `UavProtocol::processFromParent` parses it, removes the
pending messages it answers and leaves the packets for the reader thread, which
updates the vehicle's model through its autopilot.  Commands go the other way:
a leaf calls a control of the vehicle, the autopilot packs a message,
`sendMessage` queues it, the sender thread writes it to the connection, which
queues the bytes again for its own thread.  Every arrow is a call made by
whatever thread is at hand; most state is shared without a lock or with a lock
that covers a part of its uses.

What is hard: the number of threads (operator, connection, router, reader, sender,
reposition, ping); lists that are tested without the lock that protects them;
names and flags that one thread assigns while another reads; answers that come
late, twice or never; endless and repeated messages competing for one line;
deletion of protocols that other threads have just used, or still use.

What makes each part correct:

* the queue: the latest of two conflicting commands wins; nothing is sent more
  often than it may be, nothing starves, no object is freed while still queued;
* discovery: exactly one protocol survives, neither the connection nor the router nor its
  reader reaches a deleted one, every vehicle is announced;
* connections: the open port or socket is the one named last; what is queued comes
  out in order; shutdown ends, unless what was read has destroyed the thread's frame;
* flight commands: what the operator asked for last is what the vehicle hears last;
  a stream of set-points stops when told to.

## Modules

| Module | Models | Correspondence |
|---|---|---|
| `MavlinkMatch` | `MavlinkHelper.h` compare | a relation between packets `[id, key]`, the key being the one field the code compares |
| `MavlinkRTCM` | `IAutopilot::sendRTCM` | the packets of a correction: their flags and what `compare` reads of the data |
| `SendQueue` | `UavProtocol` lists, `UavMessage` counters | `m_send` is three sequences of entries; `SendMessage`, `ProcessFromParent`, `Transmit`, `NothingDue`, `Elapse` are the critical sections and the clock |
| `CommandLink` | `SendQueue` over the connection's own queue | `HandOver` is `writeToParent` of the packet that `Transmit` counts; `GoOut` is the connection's thread, the peer comes and goes |
| `Outbox`, `SendQueueOutbox` | what the queue promises, and the refinement mapping | an entry that is in some list is *pending* |
| `UavDiscovery` | router, registry and readers | one action per step between shared accesses; `router` and `reader` are program counters; `Crash` is what a use of deleted or unset objects may do |
| `Registry`, `DiscoveryRegistry` | what the discovery promises the leafs, and the refinement mapping | a protocol serves once the others are deleted; registered, told; the change-over is the unlocked call of `addUavCreateHandler` |
| `Link` | what a connection promises | asked, settled, connected, given, put on the wire in order |
| `SerialConnection`, `SerialLink` | the serial plugin and its mapping to `Link` | `connectToPort` is seen in its three assignments; `run` is the thread's place in the loop; `Read` and `Crash` are what a read into the pointer does |
| `TcpClient`, `TcpLink` | the TCP client with `IPChild` and its mapping to `Link` | same; the host may be read during its assignment |
| `MavlinkAutopilot` | `IAutopilot`, what it sees of `UavProtocol`, the reader | `pending` is `Outbox`'s set of pending messages, `store` the reader's packets; `TakePacket` calls the handlers of `IAutopilot` |
| `PixhawkAutopilot` | the controls in `MavlinkProtocol.h`, `IAutopilot`, `AutopilotPixhawkImpl` | `call[c]` is where the call of a leaf's thread is, `tick` where the reposition thread is |
| `ArdupilotAutopilot` | the controls and `AutopilotAPMImpl` | a call is one action, as it reads the heard mode and submits one message at most; `m_processingMode` is the type of the vehicle |
| `Autopilots` | the autopilot that `runMessageReader` makes by the first heartbeat | `PixhawkAutopilot` extended and `ArdupilotAutopilot` instantiated over the same link |
| `Telemetry` | the telemetry setters of `IAutopilot` and `libUAV`'s attitude, position, GPS, power and status | `truth` is what the vehicle says, `m_uav` what the leafs are shown; `Read` takes the newest packet, as the reader does |
| `RunConfiguration` | the configuration's objects and file, the plugin loader, the start in `main.cpp` | `main` is the main thread's place; a section's settings are one value, `Get`, `ToNode` and `FromNode` are the methods of these names; `Kill` and the exceptions drop what is in memory |
| `MC*` | instances for TLC | |
| `*Proofs` | TLAPS proofs | |

Operators marked *Mutant* are wrong versions of the definition that follows them;
substituting one for the other makes the named property fail.  No specification
uses them.

## Runs

| Run | Question | Result |
|---|---|---|
| `queue` | arm, disarm, a stack of intervals, a correction in two fragments, a request of default priority and the heartbeat, all interleavings with answers and retries | invariants and the refinement of `Outbox` hold |
| `command_link` | what is counted as sent while the link is down, and a command that waits in the connection when its successor is submitted: does the newest go out last, does everything go out, is everything due served? | yes under `LinkSpec`; what is lost is what the connection had no room for |
| `late_ack` | is what an answer removes, and a commented-out log line calls accepted, something that was sent? | no: a late or repeated acknowledgement of an ARM removes a DISARM never transmitted |
| `discovery` | two protocols, one of which is deleted while its reader is at work, two vehicles, every thread interleaved; does the search end, is every vehicle registered? | invariants and the refinement of `Registry` hold; yes under `FairSpec`, while the process lives |
| `serial`, `tcp` | a connection renamed while its thread works; is a named address reached and, of the serial line, the queue written and the thread joined? | invariants and the refinement of `Link` hold; yes under `FairSpec`; the serial thread ends unless the bytes it has read end the process |
| `stream` | two leafs send targets, yaws, RTL, take-offs, speeds and calibrations during a tick of the reposition thread | a stopped stream and a replaced target last one set-point at most; a vehicle told to go OFFBOARD is fed, and the stream goes on until it is stopped |
| `flight_commands` | a PX4 or an ArduPilot vehicle: arming, disarming, take-off, landing, repositions, speeds and calibrations while the heard mode lags and messages are lost or repeated | either vehicle hears the newest last |
| `telemetry` | reports lost, repeated and applied in the wrong order, changes too small to be stored: do the leafs come to be shown what the vehicle says, is the home point learnt? | yes under `FairSpec` |
| `prepared` | does an arming in a wrong mode arm once the mode has come? | no: `setHeartbeat` is not virtual, the one that would go on is never called |
| `configuration` | do the user's settings survive starts with any plugins, exceptions, kills and failed saves? | yes, but for a stop or an error between truncation and write |
| `auto` | has the router always a connection, as its constructor asserts? | no: with `--auto` and the IP plugin first, `instance()` is a null pointer that nobody tests |

### Bounds

Message counters are scaled from 3, 5 and 10 transmissions to 1 and 2: the code
tells apart the first, a middle and the last one.  Six messages put two conflicting
ones and unrelated ones in the same list and something in the others.  The correction is
the longest in two packets: a flag marks its fragments, so that no short correction is
about the same request, which is what `CompareAssumption` asks and TLC evaluates.
`command_link` has an arming of two transmissions, a disarming of one and the heartbeat
without a last one, over a connection that keeps two packets (`Limit`): it is full, drops
its oldest and holds an arming while the disarming is submitted.
Two protocols, of which one understands a vehicle and the other both, are each chosen in
some behaviours, with the reader of the other at any step of a registration, with packets
left in its store or vehicles registered; and one vehicle appears during the registration
of the other.  The router's buffer (`MaxBuffer` 2) and the packet stores (`MaxStore` 1) are
bounded; both are LIFO, and the bound hides that an entry may stay at the bottom of a stack
that never empties.  `MAX_BUFFER_SIZE` of the
serial queue is 3 with four messages, so that it overflows.  Two ports or hosts and
up to three changes cover a rename, a rename back and a disconnection at every point
of the loop.

The flight commands use one target, which each leaf may send again, and one yaw; two leafs
where their calls can disturb each other (`stream`) and one where the property is about a
sequence of calls (`flight_commands`); three calls in all, which cover a stop between two
repositions.
The ArduPilot vehicle is a copter, a plane (as which a VTOL is flown) or of no type, whose
packets the reader drops.  The PX4 one is a copter: its code does not ask.
One packet at a time waits for the reader; the vehicle's heartbeats and
acknowledgements come at any time and any number of times, which includes the late,
repeated and foreign ones.  Of two leafs, one may stop the stream after the other has
turned it on and before that asks for OFFBOARD: `OffboardIsFed` keeps, in a call's `cut`,
which of the stops came in between.

`telemetry` changes what the vehicle says twice (`MaxChanges`), by 8 where the setters drop
10, which adds up to more than that; two packets wait at a time (`MaxStore`), so that the
older one is applied last.

`configuration` lets the user change the file twice, at any moment but within a save
(`MaxEdits`), with any number of starts and kills: a section set, then another one, a
document that stops to parse or is removed.  A save is a truncation and one write, which
happens or not: the document is a few hundred bytes and goes out when the stream is
closed.  A document whose root is no map throws where a section that does not convert
does.  The program leaves its last loop by a signal only, so that the save in the
destructor of `RunConfiguration` is not an action.  For `auto`, the file need not change.

### Fairness

`CommandLink!LinkSpec`: a pass of the sender takes 5 ms, intervals are 50 ms to 1 s; an
interval does not pass while an entry behind it has been waiting (`TimelyElapse`).  The
sender thread runs (weak fairness), time goes on (strong fairness of `TimelyElapse`, which
is enabled again and again), a lost peer comes back (weak fairness), often enough for
packets to go out (strong fairness of `GoOut`).

`UavDiscovery!FairSpec`: threads run; vehicles repeat their heartbeat, so a chunk arrives
whenever one can be taken infinitely often; this leaves no room for a second reader of the
same port, which `main.cpp:106` and `:118` make of a serial connection and which is not
modelled.  `SerialConnection!FairSpec`,
`TcpClient!FairSpec`: the thread and a call under way go on; an address tried for ever
answers in the end (strong fairness of `Open`, `Connect`).

`Telemetry!FairSpec`: the reader runs; the vehicle goes on reporting and not all of a kind
of report is lost.  `PixhawkAutopilot!StreamSpec`: the reposition thread runs.
`PixhawkAutopilot!FairSpec` (`prepared`): the leaf's call, the reposition thread and the
reader go on (weak fairness).  In `Telemetry` and `prepared`, of the requests for the home point and its answers
not all are lost, and for `prepared` the vehicle keeps sending heartbeats and fixes (strong
fairness).

### Granularity

A critical section is one action.  Reads and writes outside a lock are actions of
their own where another thread can tell: the flag and the name in the connections,
the checks of the port name before the lock, the list of children, `m_valid`.  Reads
of a `std::string` under assignment give any name.  `empty()` and `clear()` on a
container without its lock are taken as atomic.  The unlocked `empty()` of
`requestToSend` (`UavProtocol.cpp:173`) is part of the locked scan: if it says empty, that
is a `NothingDue` at the moment of the test, which changes only whose turn it is; if not,
the scan that follows looks at the list again.  `writeToChild` goes over a list of one
child at most; it takes the child and calls it in two steps, between which the router may
unlink it.  The reader of a deleted protocol stops when it wakes up, whatever waits in its
store.  Jumps of the system clock, the bytes
of a packet, the settings of the tty and the errors `write` and `send` return (the
code ignores them) are left out.

Undefined behaviour is a choice: the code goes on as if nothing had happened, or the
process ends (`Crash`).  Invariants and refinements hold in either case; the liveness
properties excuse a process that has ended.  A third outcome, that a thread goes on with
other values in its variables, is left out.

## Proofs

For every value of the constants that meets the modules' assumptions:

* `SendQueueProofs`: `TypeCorrect`, `NothingExhausted`, `EachInOnePlace`,
  `LatestAlwaysWins`, `InversionIsBounded`, `RetriesAreBounded`, `QueueIsAnOutbox`,
  `SettledStaysSettled`, and over the connection `QueueOverLinkIsAnOutbox` and
  `NewestGoesOutLast`.  `LatestWins` alone is not inductive: the loop of `sendMessage` stops
  at the first entry it erases, which is enough only because at most one pending message is
  about any request (`OneRequestPending`).  The invariant is their conjunction;
  `CompareAssumption` says what is used of the comparison.
  `BoundedInversion` needs that a list being passed over was examined since
  (`OvertakenOnce`), and `RetryBound` that what an entry's counter leaves and what was sent
  of its packet add up to its limit (`RetryInv`).  `QueueIsAnOutbox` maps every step to one
  of `Outbox`: a scan erases one entry at most (`ErasedOnce`) and keeps all others
  (`PopMatchingKeeps`), and looking for exhausted entries can find only the one just sent.
  Hence nothing that was answered, replaced or given up is pending or transmitted again
  (`SettledStaysSettled`).  Every step of `CommandLink` is one of the queue or leaves its
  lists alone (`LinkStep`), so that all of this holds over a connection, too.
  `WireNewestLast` does not follow from the queue alone, which has forgotten a command while
  the connection still keeps its packet: `WireInv` says that what waits is in the order of
  the submissions, that none of it is older than what is gone, and that whatever is older
  than another submission has been noted as replaced, so that by `LatestWins` it is not
  handed over any more.
* `UavDiscoveryProofs`: `TypeCorrect`, `DeletedIsLost`, `ParsersAreNotShared`,
  `EachIsAnnouncedOnce`, `DiscoveryIsARegistry`, for any vehicles and protocols.  The
  invariant says what the choice of a protocol leaves behind (`Choice`: whose children and
  hand-overs there are at each step of the router), that the protocols popped so far are
  deleted but for the chosen one (`Deletion`, which uses that no two are the same), that
  the readers of the deleted ones have ended, and what a reader at work has done.  The announcements add, per step of the
  router, which vehicles have been announced (`Announcements`); for vehicles found in the
  middle of the change-over, that the two ways to hear of one are used once each
  (`CalledTwice`).  The refinement of `Registry` needs, besides, that what a protocol
  stores, registers and has become valid by are vehicles it understands (`Understood`).
* `SerialConnectionProofs`: `TypeCorrect`, `AlwaysConfigured`, `QueueKeepsNewest`,
  `SerialIsALink`.  The invariant says that the open port differs from the configured one
  only while the dirty flag is set or is about to be, and that the flag is cleared only with
  the lock held and the name read under it.  `LinkInv` adds in which places of the loop the
  port is open.
* `TcpClientProofs`: `TypeCorrect`, `AlwaysConfigured`, `QueueAlwaysComplete`,
  `TcpIsALink`.  No lock covers the names; what carries the proof is that `_dirty` is set
  after both assignments and cleared only by closing the socket.

* `MavlinkAutopilotProofs`: lemmas about `IAutopilot`, the link and the reader, for any
  autopilot that submits through them: a submission, a transmission, a loss and an arrival
  keep `RequestInv`.  `SubmittedCompare`: for all packets the program submits, whatever their
  modes, parameters and corrections, `MavlinkCompare` is what `CompareAssumption` asks of a
  comparison (which TLC evaluates for the packets of a run only): symmetric and transitive
  among those submitted alone, and no packet of a stack is about the request of one of them.
* `PixhawkAutopilotProofs`: `TypeCorrect`, `StopAlwaysPrompt`, `TargetAlwaysPrompt`,
  `NewestAlwaysLast`, `OffboardAlwaysFed`.  A stopped stream stops because the thread
  tests the flag before every set-point: the invariant says that after the stray one
  the tick is over.  `NewestHeardLast` is an action property; it follows from
  `RequestInv`: of each kind of request (modes, armings, targets, speeds, calibrations)
  there is one at most pending and it is not older than what the vehicle has heard, because a submission takes the
  place of all that compare equal (`MavlinkCompare` is expanded, not assumed).
  `OffboardAlwaysFed` holds for any number of leafs: the invariant tells from the step a
  call has come to what it has done, and which stops of other leafs have cut it.
  `NewestAlwaysLastOfAny` is about `Autopilots`: the class is fixed when the autopilot is
  made, so that a behaviour is one of `PixhawkAutopilot` or, by an instance of
  `ArdupilotAutopilotProofs`, of `ArdupilotAutopilot`.

* `ArdupilotAutopilotProofs`: `TypeCorrect`, `NewestAlwaysLast`, for any operations the
  leafs ask for.  A call submits one message at most (`CallSubmits`), and the lemmas of
  `MavlinkAutopilotProofs` do the rest: mission items compare equal whatever their target,
  so that a target takes the place of the one before it.

* `RunConfigurationProofs`: `TypeCorrect`, `SettingsAlwaysSurvive`, `ReaderAlwaysFinds`,
  for any section foreign to the program and any number of edits.  `SettingsSurvive`
  alone is not inductive, as a save writes what is in memory: the invariant adds that
  from reading the file on, the document in memory has what the user wants
  (`Remembered`), that an object agrees with its section (`Faithful`), that a section has
  one object (`Unique`), and that nothing is left in memory when the program starts
  again (`Fresh`).  The reader's rates are found because the plugin's constructor has
  asked for them (`Configured`).

Only model-checked is liveness, as fairness and ENABLED are beyond the prover:
`SubmittedGoesOut`, `DueIsServed`, `SearchEnds`, `EveryVehicleIsFound`,
`NamedPortIsOpened`, `QueueIsWritten`, `ThreadEnds`, `NamedHostIsConnected`, `StreamGoesOn`,
`SettledIsShown` and `HomeIsLearnt`.  Every invariant, action property and refinement that
a passing run checks is a theorem.

## Findings

* `late_ack`: a log line, commented out, calls a removed message ACCEPTED
  (`UavProtocol.cpp:142`); it may never have been transmitted, since `compare` looks at the
  number of the command and not at when it was sent.
* `prepared`: `requestARM` in a wrong mode waits for a heartbeat whose handler is never
  called (`IAutopilot::setHeartbeat` is not virtual), so that it never arms.
* `auto`: `main.cpp:128` passes on a null connection.

Three more defects contradict no line of the repository.  They are part of the models as
undefined behaviour, and no property excludes them:

* `SerialConnection.cpp:107` reads into the address of the pointer `read_buf` instead of the
  buffer: what arrives overwrites the pointer and the stack behind it, and `:247` deletes
  it.  `ThreadEnds` shows that nothing else keeps the thread from ending.
* `ConnectionRouter.cpp:89` deletes the protocols that were not chosen.  `~UavProtocol` tests
  `m_sendTick` (`UavProtocol.cpp:40`), which only `startMessaging` sets; and the autopilots a
  deleted protocol has made are not deleted, so that their ping threads go on calling its
  `sendMessage` (`MavlinkProtocol.cpp:138`, `IAutopilot.cpp:355`), the repositions and
  corrections likewise.  It takes a second protocol plugin, which the repository does not
  have.
* `IOObject.h:23` goes over the list of children while the router unlinks itself from it
  (`ConnectionRouter.cpp:81`): the loop may go on from a freed node.

## Not modelled

The RTK source, which forwards corrections and counts them; the mission upload, which
copies the path and sends nothing; of `libUAV`, the records that only the flight commands
read and write, a mutex each; the end of the router, whose destructor joins a thread it does
not stop and which no exit of the program reaches; the UDP interfaces, of which the server
is compiled and never made and the client not compiled; other code that nothing reaches;
`--help`, the log, and the leafs' own plugins.  `PROJECT.json` says for each component what
of it is left out.

## Plan

1. RTCM: a stream of corrections, of which one may replace fragments of another that is
   still queued; what a vehicle that reassembles them by their sequence number can get.
2. Shutdown, once there is an exit that reaches it.
3. Telemetry: that what the leafs are shown was reported, as a theorem.
