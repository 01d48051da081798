-------------------------------- MODULE Edge --------------------------------
(***************************************************************************)
(* The collector mes-iot, for one configured device: the poller thread     *)
(* (collector/DevicePoller.cc) that reads its sensors over Modbus TCP      *)
(* (modbus/ModbusClient.cc), the command thread (cmd/CmdConsumer.cc) that  *)
(* pauses and resumes it, the publisher thread and the main thread         *)
(* (main.cc).  Pollers share only the publisher's queue, so one is enough; *)
(* a command for a device without a poller is an action nobody knows.      *)
(*                                                                         *)
(* External: the device, which answers a request late, twice, with an      *)
(* exception or not at all, over a stream that keeps the order; and the    *)
(* broker, which keeps a command until it is acknowledged and hands out    *)
(* one at a time (the client's default prefetch is 1, and the consumer is  *)
(* exclusive).  Backoff and intervals are only time, and are left out.     *)
(***************************************************************************)
EXTENDS Integers, Sequences, SequencesExt

CONSTANTS
  SensorLists,    \* sensors the backend may list: [register_addr, words, parses]
  kRegisterBase,  \* 40001: the address of register 0
  Space,          \* 2^16: addresses, lengths and transactions are uint16_t
  kMaxQuantity,   \* 125: registers of one read
  kBatchSize,     \* batch_size
  MaxRounds,      \* bound: rounds of polling
  MaxCommands,    \* bound: commands sent to the queue
  MaxFaults,      \* bound: reads, connections and publications that fail
  MaxRestarts     \* bound: ends of the process

ASSUME EdgeAssumption ==
  /\ SensorLists \subseteq Seq([register_addr : Nat, words : {1, 2}, parses : BOOLEAN])
  /\ {kRegisterBase, Space, kMaxQuantity, kBatchSize} \subseteq Nat \ {0}
  /\ kMaxQuantity < Space
  /\ {MaxRounds, MaxCommands, MaxFaults, MaxRestarts} \subseteq Nat

VARIABLES
  sensors,   \* config_.sensors, by their places in the list
  phase,     \* main: "run", "signalled", "commands_off", "pollers_off", "down",
             \* or "skeleton": no configuration was loaded
  pc,        \* the poller: "top", "connect", "send", "receive", "split"
  socket,    \* its connection: "open" or "closed"
  at,        \* the frame, the sensor in it and its first register, that it is at
  round,     \* rounds begun: the timestamp of their readings
  txn,       \* nextTransactionId_
  request,   \* requests under way at the device, as [txn, start, quantity]
  wire,      \* its answers on the connection
  registers, \* the registers of the last read, as [address, round]
  paused,    \* paused_
  consumer,  \* the command thread: "off", "waiting", "handled"
  cmds,      \* iot.cmd.collector.queue
  owed,      \* the last stop or resume sent that this process can know of
  queue,     \* queue_
  batch,     \* the publisher's batch
  arrived,   \* readings the broker has
  counts     \* commands, faults, restarts so far

poller == <<pc, socket, at, round, txn, request, wire, registers>>
command == <<paused, consumer, cmds, owed>>
publisher == <<queue, batch, arrived>>
edgeVars == <<sensors, phase, poller, command, publisher, counts>>
-----------------------------------------------------------------------------
(* Frames *)

\* Mutant: as the comment beside the code says, "at most the end of the frame".
JoinsMutant(f, offset, words) ==
  /\ offset <= f.start + f.quantity
  /\ f.quantity + words <= kMaxQuantity

\* A sensor that starts where the frame ends is read with it.
Joins(f, offset, words) ==
  /\ offset = (f.start + f.quantity) % Space
  /\ f.quantity + words <= kMaxQuantity

Offset(sensor) == (sensor.register_addr - kRegisterBase) % Space

\* The sensor of S that the sort puts last.  Equal addresses may be sorted
\* either way: SensorLists has both orders.
LastSorted(s, S) ==
  CHOOSE i \in S : \A j \in S \ {i} :
    \/ s[j].register_addr < s[i].register_addr
    \/ s[j].register_addr = s[i].register_addr /\ j < i

\* The frames with one more sensor: in the last of them, or in a frame of its own.
Merged(s, frames, i) ==
  IF frames # <<>> /\ Joins(Last(frames), Offset(s[i]), s[i].words)
  THEN [frames EXCEPT ![Len(frames)] =
          [start |-> @.start, quantity |-> @.quantity + s[i].words,
           members |-> Append(@.members, i)]]
  ELSE Append(frames, [start |-> Offset(s[i]), quantity |-> s[i].words, members |-> <<i>>])

\* The sensors merged in the order of their addresses.
mergeFrames(s) ==
  MapThenFoldSet(LAMBDA i, frames : Merged(s, frames, i), <<>>, LAMBDA i : i,
                 LAMBDA S : LastSorted(s, S), DOMAIN s)

Frames == mergeFrames(sensors)
Frame == Frames[at.frame]

\* The sensor that it is at.
Polled == Frame.members[at.member]

extractValue == SubSeq(registers, at.offset + 1, at.offset + sensors[Polled].words)
-----------------------------------------------------------------------------
(* The configuration, read once *)

\* A sensor without an address is skipped; an address that is no number, or a
\* number out of range, throws and fails the whole list.
loadConfig(list) ==
  IF \E i \in DOMAIN list : ~list[i].parses THEN <<>>
  ELSE RestrictValues(list, LAMBDA s : s.register_addr > 0)

\* No login, no answer, or no sensor left: nothing is collected and the load is
\* not tried again.
Modes(loaded) == {"skeleton"} \cup (IF loaded = <<>> THEN {} ELSE {"run"})

EdgeInit ==
  /\ pc = "top"
  /\ socket = "closed"
  /\ at = [frame |-> 1, member |-> 1, offset |-> 0]
  /\ txn = 1
  /\ request = <<>>
  /\ wire = <<>>
  /\ registers = <<>>
  /\ paused = FALSE
  /\ consumer = "off"
  /\ queue = <<>>
  /\ batch = <<>>
  /\ sensors \in {loadConfig(list) : list \in SensorLists}
  /\ phase \in Modes(sensors)
  /\ round = 0
  /\ cmds = <<>>
  /\ owed = "resume"
  /\ arrived = <<>>
  /\ counts = [commands |-> 0, faults |-> 0, restarts |-> 0]

CanFail == counts.faults < MaxFaults
Failed == counts' = [counts EXCEPT !.faults = @ + 1]
PollerRuns == phase \in {"run", "signalled", "commands_off"}
ConsumerRuns == phase \in {"run", "signalled"}
-----------------------------------------------------------------------------
(* The poller *)

Check ==
  /\ PollerRuns
  /\ pc = "top"
  /\ ~paused
  /\ round < MaxRounds
  /\ pc' = "connect"
  /\ UNCHANGED <<sensors, phase, socket, at, round, txn, request, wire, registers,
                 command, publisher, counts>>

\* The connection, or the one that is still open, and the round's timestamp.
BeginRound ==
  /\ PollerRuns
  /\ pc = "connect"
  /\ socket' = "open"
  /\ round' = round + 1
  /\ at' = [frame |-> 1, member |-> 1, offset |-> 0]
  /\ pc' = IF Frames = <<>> THEN "top" ELSE "send"
  /\ UNCHANGED <<sensors, phase, txn, request, wire, registers, command, publisher, counts>>

ConnectFails ==
  /\ PollerRuns
  /\ pc = "connect"
  /\ socket = "closed"
  /\ CanFail /\ Failed
  /\ pc' = "top"
  /\ UNCHANGED <<sensors, phase, socket, at, round, txn, request, wire, registers,
                 command, publisher>>

Send ==
  /\ PollerRuns
  /\ pc = "send"
  /\ txn' = (txn + 1) % Space
  /\ request' = Append(request, [txn |-> txn, start |-> Frame.start, quantity |-> Frame.quantity])
  /\ pc' = "receive"
  /\ UNCHANGED <<sensors, phase, socket, at, round, wire, registers, command, publisher, counts>>

\* The answer to the request the stream is at: its header names it.  The
\* length of the answer is checked against the request, as its function is.
Receive ==
  /\ PollerRuns
  /\ pc = "receive"
  /\ wire # <<>>
  /\ (Head(wire).txn + 1) % Space = txn
  /\ Len(Head(wire).data) = Frame.quantity
  /\ registers' = Head(wire).data
  /\ wire' = Tail(wire)
  /\ pc' = "split"
  /\ UNCHANGED <<sensors, phase, socket, at, round, txn, request, command, publisher, counts>>

\* One reading goes to the publisher; after the last one the next frame is
\* read, and after the last frame the round is over.
Split ==
  /\ PollerRuns
  /\ pc = "split"
  /\ queue' = Append(queue, [round |-> round, sensor |-> Polled,
                             frame |-> at.frame, value |-> extractValue])
  /\ \/ /\ at.member < Len(Frame.members)
        /\ at' = [frame |-> at.frame, member |-> at.member + 1,
                  offset |-> at.offset + sensors[Polled].words]
        /\ UNCHANGED pc
     \/ /\ at.member = Len(Frame.members)
        /\ at.frame < Len(Frames)
        /\ at' = [frame |-> at.frame + 1, member |-> 1, offset |-> 0]
        /\ pc' = "send"
     \/ /\ at.member = Len(Frame.members)
        /\ at.frame = Len(Frames)
        /\ pc' = "top"
        /\ UNCHANGED at
  /\ UNCHANGED <<sensors, phase, socket, round, txn, request, wire, registers, command,
                 batch, arrived, counts>>

\* disconnect(): what the device still answers goes nowhere.
Disconnect ==
  /\ socket' = "closed"
  /\ request' = <<>>
  /\ wire' = <<>>

\* Another transaction, an exception or a wrong length ends the round.
ReadRejected ==
  /\ PollerRuns
  /\ pc = "receive"
  /\ wire # <<>>
  /\ \/ (Head(wire).txn + 1) % Space # txn
     \/ Len(Head(wire).data) # Frame.quantity
  /\ pc' = "top"
  /\ Disconnect
  /\ UNCHANGED <<sensors, phase, at, round, txn, registers, command, publisher, counts>>

\* The send or the read fails, or nothing came within kRecvTimeoutMs.
ReadFails ==
  /\ PollerRuns
  /\ pc = "receive"
  /\ CanFail /\ Failed
  /\ pc' = "top"
  /\ Disconnect
  /\ UNCHANGED <<sensors, phase, at, round, txn, registers, command, publisher>>
-----------------------------------------------------------------------------
(* The device *)

\* Registers of the device from this address, as they are in this round.
Read(r) == IF r.start + r.quantity <= Space
           THEN [k \in 1 .. r.quantity |-> [address |-> r.start + k - 1, round |-> round]]
           ELSE <<>>

Respond ==
  /\ request # <<>>
  /\ \E data \in {Read(Head(request))} \cup (IF CanFail THEN {<<>>} ELSE {}) :
       /\ wire' = Append(wire, [txn |-> Head(request).txn, data |-> data])
       /\ IF data = Read(Head(request)) THEN UNCHANGED counts ELSE Failed
  /\ request' = Tail(request)
  /\ UNCHANGED <<sensors, phase, pc, socket, at, round, txn, registers, command, publisher>>

RespondTwice ==
  /\ request # <<>>
  /\ CanFail /\ Failed
  /\ wire' = Append(wire, [txn |-> Head(request).txn, data |-> Read(Head(request))])
  /\ UNCHANGED <<sensors, phase, pc, socket, at, round, txn, request, registers,
                 command, publisher>>
-----------------------------------------------------------------------------
(* Commands *)

Stops == {"stop", "resume"}

\* The places of a queue's stops and resumes.
Told(q) == {k \in DOMAIN q : q[k] \in Stops}

\* A message of the queue: its action, or "cmd.stop" for the one that
\* StopCollectionHandler relays, whose payload has no action.  Other messages
\* that are ignored (a device_command, a device without a poller, a payload
\* that does not parse) behave as that one.
SendCommand(a) ==
  /\ counts.commands < MaxCommands
  /\ counts' = [counts EXCEPT !.commands = @ + 1]
  /\ cmds' = Append(cmds, a)
  /\ owed' = IF a \in Stops THEN a ELSE owed
  /\ UNCHANGED <<sensors, phase, poller, paused, consumer, publisher>>

Consume ==
  /\ ConsumerRuns
  /\ consumer = "off"
  /\ consumer' = "waiting"
  /\ UNCHANGED <<sensors, phase, poller, paused, cmds, owed, publisher, counts>>

HandleCommand ==
  /\ ConsumerRuns
  /\ consumer = "waiting"
  /\ cmds # <<>>
  /\ consumer' = "handled"
  /\ paused' = IF Head(cmds) \in Stops THEN Head(cmds) = "stop" ELSE paused
  /\ UNCHANGED <<sensors, phase, poller, cmds, owed, publisher, counts>>

Ack ==
  /\ ConsumerRuns
  /\ consumer = "handled"
  /\ consumer' = "waiting"
  /\ cmds' = Tail(cmds)
  /\ UNCHANGED <<sensors, phase, poller, paused, owed, publisher, counts>>

\* Mutant: the message is taken as acknowledged when it is delivered, and the
\* connection breaks before it is handled.
LoseConsumerMutant ==
  /\ ConsumerRuns
  /\ consumer # "off"
  /\ CanFail /\ Failed
  /\ consumer' = "off"
  /\ cmds' = IF cmds = <<>> THEN cmds ELSE Tail(cmds)
  /\ UNCHANGED <<sensors, phase, poller, paused, owed, publisher>>

\* The connection breaks, or the broker cancels the consumer: a message that
\* was not acknowledged comes again.
LoseConsumer ==
  /\ ConsumerRuns
  /\ consumer # "off"
  /\ CanFail /\ Failed
  /\ consumer' = "off"
  /\ UNCHANGED <<sensors, phase, poller, paused, cmds, owed, publisher>>
-----------------------------------------------------------------------------
(* The publisher *)

Take ==
  /\ phase \in {"run", "skeleton"}
  /\ batch = <<>>
  /\ queue # <<>>
  /\ LET n == IF Len(queue) < kBatchSize THEN Len(queue) ELSE kBatchSize IN
       /\ batch' = SubSeq(queue, 1, n)
       /\ queue' = SubSeq(queue, n + 1, Len(queue))
  /\ UNCHANGED <<sensors, phase, poller, command, arrived, counts>>

\* The channel, when there is none, is opened by the first publication.
Publish ==
  /\ phase # "down"
  /\ batch # <<>>
  /\ batch' = Tail(batch)
  /\ arrived' = Append(arrived, Head(batch))
  /\ UNCHANGED <<sensors, phase, poller, command, queue, counts>>

\* There are no confirms: what was written to a dying connection is lost.
PublishLost ==
  /\ phase # "down"
  /\ batch # <<>>
  /\ CanFail /\ Failed
  /\ batch' = Tail(batch)
  /\ UNCHANGED <<sensors, phase, poller, command, queue, arrived>>

\* Mutant: the rest of the batch goes back to the queue, behind newer readings.
PublishFailsMutant ==
  /\ phase # "down"
  /\ batch # <<>>
  /\ CanFail /\ Failed
  /\ batch' = <<>>
  /\ queue' = queue \o batch
  /\ UNCHANGED <<sensors, phase, poller, command, arrived>>

\* The exception ends the batch: what was not published is lost.
PublishFails ==
  /\ phase # "down"
  /\ batch # <<>>
  /\ CanFail /\ Failed
  /\ batch' = <<>>
  /\ UNCHANGED <<sensors, phase, poller, command, queue, arrived>>
-----------------------------------------------------------------------------
(* The main thread *)

Signal ==
  /\ phase \in {"run", "skeleton"}
  /\ counts.restarts < MaxRestarts
  /\ phase' = IF phase = "run" THEN "signalled" ELSE "pollers_off"
  /\ UNCHANGED <<sensors, poller, command, publisher, counts>>

\* CmdConsumer::stop(): its loop ends between two messages.
StopCommands ==
  /\ phase = "signalled"
  /\ consumer # "handled"
  /\ phase' = "commands_off"
  /\ consumer' = "off"
  /\ UNCHANGED <<sensors, poller, paused, cmds, owed, publisher, counts>>

\* DevicePoller::stop(): its loop ends between two rounds.
StopPollers ==
  /\ phase = "commands_off"
  /\ pc = "top"
  /\ phase' = "pollers_off"
  /\ UNCHANGED <<sensors, poller, command, publisher, counts>>

\* The process is gone: the new one knows the commands that are still queued.
End ==
  /\ phase' = "down"
  /\ counts' = [counts EXCEPT !.restarts = @ + 1]
  /\ owed' = IF Told(cmds) = {} THEN "resume" ELSE cmds[Max(Told(cmds))]
  /\ UNCHANGED <<sensors, round, cmds, arrived>>
  /\ pc' = "top"
  /\ socket' = "closed"
  /\ at' = [frame |-> 1, member |-> 1, offset |-> 0]
  /\ txn' = 1
  /\ request' = <<>>
  /\ wire' = <<>>
  /\ registers' = <<>>
  /\ paused' = FALSE
  /\ consumer' = "off"
  /\ queue' = <<>>
  /\ batch' = <<>>

\* BatchPublisher::stop(): the batch is finished, the queue is not.
Exit ==
  /\ phase = "pollers_off"
  /\ batch = <<>>
  /\ End

Crash ==
  /\ phase # "down"
  /\ counts.restarts < MaxRestarts
  /\ End

\* Without the configuration the process runs, and collects nothing.
StartAgain ==
  /\ phase = "down"
  /\ phase' \in Modes(sensors)
  /\ UNCHANGED <<sensors, poller, command, publisher, counts>>
-----------------------------------------------------------------------------
ConsumerNext == Consume \/ HandleCommand \/ Ack

EdgeNext ==
  \/ Check \/ BeginRound \/ ConnectFails \/ Send \/ Receive \/ Split
  \/ ReadRejected \/ ReadFails
  \/ Respond \/ RespondTwice
  \/ \E a \in Stops \cup {"cmd.stop"} : SendCommand(a)
  \/ ConsumerNext \/ LoseConsumer
  \/ Take \/ Publish \/ PublishLost \/ PublishFails
  \/ Signal \/ StopCommands \/ StopPollers \/ Exit \/ Crash \/ StartAgain

\* The command thread keeps running, and the broker takes its consumer back.
Fairness == WF_edgeVars(ConsumerNext)

EdgeSpec == EdgeInit /\ [][EdgeNext]_edgeVars /\ Fairness
-----------------------------------------------------------------------------
(* Properties *)

\* A reading carries the registers of its own sensor, read in the round whose
\* timestamp it has: merging sensors into frames, cutting a frame into values
\* and answers that come late or twice never mix two sensors or two rounds up
\* (mergeFrames, extractValue, readHoldingRegisters).
ValuesFromOwnRegisters ==
  \A r \in ToSet(queue) \cup ToSet(batch) \cup ToSet(arrived) :
    LET s == sensors[r.sensor] IN
    r.value = [k \in 1 .. s.words |-> [address |-> Offset(s) + (k - 1), round |-> r.round]]

\* Read earlier: in an earlier round or frame, or at a lower address.
Earlier(a, b) ==
  \/ a.round < b.round
  \/ a.round = b.round /\ a.frame < b.frame
  \/ /\ a.round = b.round
     /\ a.frame = b.frame
     /\ a.value[1].address < b.value[1].address

\* The broker gets the readings of a device at most once and in the order in
\* which they were read, whatever publication fails (BatchPublisher::loop).
PublishedInOrder ==
  \A i, j \in DOMAIN arrived : i < j => Earlier(arrived[i], arrived[j])

\* The device ends up as the last command said that the running process could
\* know of, whatever connection broke on the way: a message handled twice, or
\* redelivered, never undoes a later one (CmdConsumer::consumeLoop).
LastCommandWins ==
  <>[](phase = "run" => paused = (owed = "stop"))

\* What the plan says of a stop command of the backend: the collector pauses
\* the device.  Its payload has no action, so that HandleCommand ignores it.
StopIsObeyed ==
  [][cmds # <<>> /\ Head(cmds) = "cmd.stop" /\ Ack => paused]_edgeVars
=============================================================================
