# TLA+ models of tcp_explore

The repository simulates TCP over a fat-tree data-centre network in NS-3 with
DCE. Its own code is a set of switch devices (ECMP with flowlets, path hashing),
a patched CSMA device with ECN marking, the programs under `fat-tree/` that wire
a fat-tree and schedule the traffic, and Python scripts that generate
experiments, run them and search TCP parameters by simulated annealing. The rest
of `src/src` is vendored NS-3, `iperf/` is vendored, `experiments/` is data.

The model-checked runs are the `.cfg` files, each with its `MC*.tla` module; the
proofs are in the `*Proofs.tla` modules. `PROJECT.json` lists the runs, the
mutants of each property, the map from definitions to source lines, the hazards
and the theorems.

    tlc -workers 2 -config MCFlowletPath.cfg MCFlowletPath.tla
    tlapm FlowletProofs.tla

## 1. Inventory of the system

Everything runs inside one single-threaded event simulator: a handler (an event,
or a receive callback) is atomic, and concurrency is the order in which events of
different nodes are executed. An action of a model is one such handler, with the
calls it makes. The Python scripts are separate processes, and their state is in
files.

| component | state | operations | interacts with |
|---|---|---|---|
| path-hashing devices, `src/src/path-hashing{,-adv}` | `pathCounter`, `totalPackets`, `maxPath`, `packetsOnMaxPath`, `previousMaxPath`, `packetsOnPreviousMaxPath`, `offset`; routing table, uplinks | `EdgeReceiveFromDevice`, `AggReceiveFromDevice`, `CoreReceiveFromDevice`, `UpdatePath`, timer `resetWindow` | packets through the CSMA devices of the switch; the uplink of the aggregation switch travels in the ToS byte of the packet |
| ECMP/flowlet device, `src/src/ecmp` | `flowlet_table`, attributes `FlowletGap` and `EcmpMode`; routing table, uplinks | the three receive handlers, `hashToUplink` | as above, without the ToS byte |
| CSMA device and channel, `src/src/csma` | `m_txMachineState`, `m_currentPkt`, queue, back-off, enable flags; channel `m_state`, `m_currentSrc`, device list with `active` | `SendFrom`, `TransmitStart`, `TransmitAbort`, `TransmitCompleteEvent`, `TransmitReadyEvent`, `Receive`, `SetSendEnable`, `SetReceiveEnable`; channel `Attach`, `Detach`, `Reattach`, `TransmitStart`, `TransmitEnd`, `PropagationCompleteEvent` | switch devices and hosts above; writes the ECN bits of the ToS byte |
| drop-tail queue | packets, limit | `DoEnqueue`, `DoDequeue` | CSMA device |
| topology, `fat-tree/fat-tree.cc` | nodes, devices, masks, tables | wiring loops, `addRoute`, host start-up, statistics at the end | installs the devices |
| traffic, `fat-tree/misc-tools.cc` | flow list, schedule | `StartFlow`, `generateFlowsNormalDist`, `generateFlowsCdf`, `getSourceDestPairs` | iperf processes on the hosts |
| `src/src/traffic-simulation` | none | six functions that install flows | included by the program and never called |
| `anneal_robust.py` | `old_cost`, `params`, `T`, iteration; checkpoint pickle | `anneal`, `anneal_continue`, `cost`, `neighbor` | runs one simulation per cost |
| `experiment_generator.py`, `experiment.py`, `run_experiments.py` | `last_exp_id`, pickles of pending and finished experiments | generate, run, move | file system, simulator processes |

What is hard in it, component by component (`hazards` in `PROJECT.json` gives the
lines):

* **Path hashing.** The hottest path is tracked incrementally and consumed a window
  later, while packets of any flow and the timer come in any order. The base device
  counts a packet on the path it *hashes to* before the packet is moved, the
  advanced one on the path it *takes*. Three fields are used before the first
  `resetWindow` without having been initialised. One byte carries both a port index
  and the ECN bits that the queues on the way set. *Right when* the maximum is the
  maximum at every timer, flows only leave overloaded paths, a flow keeps its path
  in a window, and the aggregation switch sends where the edge switch decided.
* **Flowlets.** The table key is a hash truncated to 16 bits, so flows collide and
  renew each other's entry; entries never go away; time and the gap decide whether a
  packet may change path. Edge and aggregation switch each apply the rule, with other
  hash seeds, to gaps that the link between them has changed. *Right when* a burst stays on one path and, if the gap
  covers the difference of the path delays, nothing is reordered.
* **CSMA.** An event chain (start, complete, ready) that must be restarted by exactly
  one party, the event or `SendFrom`; a lost restart strands the queue. In half duplex
  devices compete for one channel, back off, and give a packet up after a number of
  retries, with the queue behind it; a device may be detached or disabled between any
  two of its events. The channel has two elements per array: what belongs to whom depends
  on the number of devices attached, and attaching one writes to an element that may be in
  use. *Right when* no packet is lost unseen, duplicated,
  reordered or stranded, and no two devices transmit at a time on one channel.
* **Fabric.** Tables per level with different masks, fixed uplink order, and handlers
  of three levels of switches, of either device, that have to agree. *Right when* every
  packet takes a shortest route, arrives unless a queue was full, and overtakes another
  one of its flow only after a change of path.
* **Traffic.** Loops that draw random pairs until one fits, a fatal error on sizes
  that are not multiples of 128000 bytes, and a schedule that has to end before the
  simulation does. *Right when* a pair is of the locality drawn, sizes follow the
  distribution, every flow has its client, and clients start early enough to end.
* **Annealing.** Work of days that is checkpointed to a file by two functions. The
  process may die between any two steps, also while it writes. *Right when* the
  cost it compares with is that of its parameters, and step, temperature and
  checkpoint stay together through restarts.
* **Experiments.** Ids from a file, one pickle file per experiment, a batch runner with
  its own directories; both programs may die and are started again. *Right when* a
  report is of its own simulation, a finished batch is complete, no result is lost or
  becomes another experiment's, and recorded ids are not overwritten.

## 2. Modules

| module | models | composed of |
|---|---|---|
| `PathWindow` | window state of a path-hashing edge switch and the pure steps on it, both devices | |
| `PathHashing` | one edge switch: packets going up, and the timer | `PathWindow` |
| `PathHashingProofs` | theorems about `PathHashing` | |
| `FatTree` | wiring, addresses, tables, masks, uplinks | |
| `LinkQueue` | queue, mark and line of one direction of a link, as pure steps | |
| `Fabric` | the whole network, of path-hashing or of ECMP switches | `FatTree`, `PathWindow`, `LinkQueue` |
| `FabricProofs` | theorems about `Fabric` and the routing of `FatTree` | |
| `Flowlet` | `hashToUplink` of one ECMP switch, with a clock and delays beyond the uplinks | |
| `FlowletPath` | packets through an edge switch and the aggregation switches beyond it, each with its table | `Flowlet` |
| `FlowletProofs` | theorems about `Flowlet` and `FlowletPath` | |
| `Link` | abstract specification of a link, from `LinkQueue`'s operators | `LinkQueue` |
| `CsmaLink` | the transmit machine of the CSMA device and its half of the channel | implements `Link` |
| `CsmaLinkProofs` | theorems about `CsmaLink`, and the step simulation of `Link` | |
| `CsmaBus` | the whole CSMA device and channel: any number of devices, half and full duplex, backoff and abort, detaching and enable flags | |
| `CsmaBusProofs` | theorems about `CsmaBus` | |
| `Anneal` | the search: `anneal`, `anneal_continue`, `cost`, `neighbor`, the checkpoint | |
| `AnnealProofs` | theorems about `Anneal` | |
| `Experiments` | `experiment_generator.py`, `run_experiments.py`, `experiment.py` and their files | |
| `ExperimentsProofs` | theorems about `Experiments` | |
| `Traffic` | the choice of the clients of one simulation | `FatTree` |
| `TrafficProofs` | theorems about `Traffic` | |

### PathWindow and PathHashing

`Window` is the record of the device's fields, with the fields' names.
`ChoosePath` and `Count` are the part of `EdgeReceiveFromDevice` after the table
lookup fails, `UpdatePath` and `ResetWindow` are the functions of those names,
`NewOffset` the arithmetic in the middle of `resetWindow`. A *path* is a number in
`0 .. totalPaths-1`; `EdgePort` and `AggPort` are the division and the remainder the
code takes of it. The variable `adv` chooses the device. What `getHash` and
`getHash_2` compute depends only on the flow, so `Hash` and `ReHash` are constants.
The fields that `PathHashingHelper::Install` does not set start with any value of
the constant `Garbage`. `load`, `last`, `active` and `closed` are history variables:
they observe what the device did to packets and are read by no action.

The timer fires whenever it likes: a real timer fires every window length, and which
packets come between two firings is arbitrary.

### Flowlet

The three cases of `hashToUplink` are three actions: `StaticPort` (gap 0),
`NewFlowlet` (unknown or expired entry) and `SameFlowlet`. `hashedTuple` keeps the
width of the `uint16_t` (`Uint16` is 2^16). `Tick` is the passing of time between
events. The random uplink of a new flowlet is any uplink. Beyond an uplink there is a
first-in first-out network with a delay in `MinDelay .. MaxDelay` per packet, an
external assumption that only the reordering property depends on.

### FlowletPath

Two levels of the switches of `Flowlet`. `EdgeReceive` is the action of `Flowlet`, with
the packet put on its way; `AggReceive` is `hashToUplink` at the aggregation switch the
packet gets to, with that switch's table and the hash its seed gives (`main` counts the
seed up from switch to switch). The links between are those of `Flowlet`: `Arrives` is
the moment a packet is due, and `PathTick` lets no time pass over it. A packet is a
record of when it was sent, where it is due and when, and, once it has left the
aggregation switch, by which uplink and when it is across. The gap is one for all
switches (`fat-tree.cc:194`).

Order on a path is not the order on each hop: the first links stretch and shorten gaps,
so the second switch may move a flowlet the first one kept. A gap that covers
the difference of the delays of a link once is enough for one hop and not for two; twice
is enough (`NoReorderingOnPath`, checked and proved).

### CsmaLink and Link

`m_txMachineState`, `m_currentPkt`, `m_queue` are the device's fields, `m_state` the
state of its half of the full-duplex channel, `propagating` the scheduled receptions.
`SendFrom`, `TransmitComplete`, `TransmitReady` and `Receive` are the handlers; the
call of the channel's `TransmitStart` and `TransmitEnd` is part of the handler that
makes it. Back-off, half duplex, detaching and the enable flags are not reachable from
`fat-tree.cc`, which has two devices on each channel, sets it full duplex and never
detaches or disables one: they are the subject of `CsmaBus`.

`Link` is the same link as the switches see it: it says neither which event runs nor
how long the interframe gap lasts, only what comes out of the other end.
`ImplementsLink` is the refinement, with the packet in transmission and the packets
propagating as `line`.

### CsmaBus

The device and the channel as `src/src/csma` offers them. `wire` is the channel's arrays
`m_state`, `m_currentSrc` and `m_currentPkt`: `Index` is the element a device uses (its
own in full duplex, element 0 in half duplex). `Attach` may come at any time: it falls back
to half duplex with a third device, and in half duplex it makes the channel `IDLE` whatever
is on it. When a frame was (`disturbed`, history), the events of that frame find a state
that the assertions at `csma-net-device.cc:605` and `csma-channel.cc:237, 302` exclude.
`CompleteAsserts` and `PropagationAsserts` are these events, and stop the program
(`halted`), as `NS_ASSERT` does in a debug build; in an optimised build the
assertions are compiled out and the events go on, which is not modelled. `Leave` writes the fields of a transmitter; `waiting` says that a
`TransmitStart` is scheduled. `TransmitStart` is the disjunction of its outcomes, in the
order the code tests them, and is part of the handler that calls it (`SendFrom`,
`TransmitReady`, `BackoffOver`); `TransmitAbort` includes the `TransmitStart` it makes of
the next packet. `TransmitComplete` includes the channel's `TransmitEnd`, which schedules
one reception per active device and, in half duplex, the end of the propagation
after them (`idle`). `scheduled` is that list of events: all are delayed by the same `m_delay`, so
they run in the order they were scheduled. When a backoff is over or a transmission
ends is left open: any order of the events of different devices is possible.

The faults are calls of the public interface: `DetachOrReattach`, `SetSendEnable` and
`SetReceiveEnable`, at any moment, on the devices in `Faulty`, `MaxFaults` times together.
Every packet is a broadcast: addresses decide only which callback gets it. `source`,
`transmitted`, `received`, `missed` and `lost` are history.

### Fabric

All nodes of the fat-tree, with a `Link` per direction of every cable. A step is a
host sending, a device starting the next transmission, a packet received by a host,
an edge, an aggregation or a core switch (one action per handler, forwarding
included), or the timer of one edge switch. `halted` stands for the program that has
stopped: an assertion that fails or an index past the end of `uplinkDevices`. Only
the edge switches that flows enter by have a window worth keeping.

`device` is the kind of all the switches. `fat-tree.cc` as committed installs
`EcmpNetDevice`; the path-hashing devices are installed by a helper with the same
parameters (devices, uplinks, table, mask). The edge and the aggregation handler of
`EcmpNetDevice` are the same code and one action, `EcmpReceive`; all three devices have
the same core handler. In `EcmpFlowlet` any packet may start a flowlet and take any
uplink: when that happens is `Flowlet`'s subject.

### Anneal

`pc` says where a process is: in a simulation, between emptying and writing
`anneal.chk`, after it, or gone. `params`, `old_cost`, `T`, `i`, `step` are the local
variables of both functions, `chk` the file, with the list that one or the other has
pickled. The temperature is the number of times it was multiplied by `alpha`. A
neighbour is any of those `neighbor` can return; a worse one may be accepted or
refused, a better or equal one is accepted, as `acceptance_probability` says.
`StartContinue` restores what `anneal` saved before its last temperature;
`StartContinueFails` is every other restart, each of which raises: no file or an empty one,
a list of `anneal_continue`, or a search whose temperatures are all over (see below).
`averageFCT` is what a simulation with a seed and parameters yields, `MaxGain` the
improvement from which `exp` overflows. `measured` is history: the seeds `old_cost`
was measured with.

### Experiments

One generator and one runner, each started at any moment by its user and each able to
die between any two of its steps; what survives are `last_exp_id`, the pickle files, the
simulator's output under `files-*`, and the directories `experiment_N` in the runner's
directory (`cwd`) and in the folder. `here` says that these two are one directory, as they
are with the generator's default `-o .`: then `mv experiment_N .` fails, the report stays,
and the next one of that id replaces it. The report and the three files `mv` puts in its directory are one
step: a death between them leaves files that the next run of the experiment overwrites. An experiment is the number of those made before
it, so that two experiments under one id can be told apart. `reused` is history.

### Traffic

`main()` from the choice of the experiment type to the start of the simulation: it
generates flows (times and sizes), draws a pair for each (one action per draw, as
in `getSourceDestPairs`), and installs a client. Times are in tenths of a second,
probabilities in percent. Redrawing while a draw is the source's is one draw among the
others; when there are none the action is not enabled, and the loop does not end.

## 3. Runs

| run | configuration | what it shows |
|---|---|---|
| `path_hashing` | 4 paths (the k = 4 fabric), 4 flows, both devices, uninitialised fields 0, 3 or 100, at most 8 packets in a window, any number of windows | the incremental maximum is right at every moment and the assertions of `resetWindow` hold; the counters err on one side; the offset stays in its band; flows leave only overloaded paths, and only at a reset |
| `fabric` | k = 4: 16 hosts, 20 switches, 96 directed links; each of the four kinds of switches; two flows of different lengths, queues of 1 packet, marking off | chosen path followed, shortest routes, packets of a flow are reordered only when its path was changed (with ECMP without flowlets never), each is delivered or dropped; nobody halts |
| `fabric_ecn` | path-hashing switches, marking at a queue of 1 | **violated**: the mark overwrites the port in the ToS byte |
| `flowlet` | 2 uplinks, each to an aggregation switch with 2 uplinks; 2 flows that collide modulo 2^16 at the edge and at one of the aggregation switches; 3 packets, gaps 0 and 4, delays 1 to 3, clock to 7 | flowlets keep their uplink, also under collisions; no reordering on the first hop, nor on both, when the gap covers (twice) the difference of delays |
| `csma_link` | queue of 2, line of 2, threshold 1, 6 packets of two sizes and two ToS values | the device implements `Link`, its fairness included: nothing is lost, duplicated, reordered or stranded |
| `csma_bus` | up to 3 devices, attached at any time to one channel that starts in either mode; queue of 1, 1 retry, 3 packets, 2 faults on device 1 | the assertions on the channel's state fail only after a device was attached while a frame was on the channel, the others never; one packet at a time on a shared channel; each device hears the others' packets in one order; every packet is transmitted, dropped or still held, once; a device gets stuck only by a fault, and otherwise every packet leaves |
| `csma_stuck` | the same, faults on device 0 | **violated**: a device whose backoff ended while its send side was off takes packets for ever and starts none |
| `anneal` | two parameters (three values and two), two lists of seeds, 2 steps at each of 3 temperatures, 3 processes; costs with a hill between two valleys; `exp` overflows for the largest gains | `old_cost` is the cost of `params`, in memory and in the file; step, `T` and `i` agree and a search that ends made all its steps; while it is not being written the file holds the beginning of `anneal`'s temperature, or the step `anneal_continue` is at; a search nobody kills ends |
| `anneal_resume` | 2 temperatures | **violated**: a resumed search saves what cannot be restored |
| `experiments` | two runs of the generator of 2 experiments each, of either style of names, in the runner's directory or another folder, two batches, two deaths or failures | a report is computed from its own simulation; a finished batch has every result, of the right experiment unless its id was given out twice; recorded ids stay; a rerun loses no result, and replaces one only in the runner's directory |
| `traffic` | k = 4, all five experiment types, three simulation times, up to two flows, a distribution with one size that cannot be sent and a sample above its last line | pairs have the locality drawn, sizes are the quantiles, the set-up ends |
| `traffic_end` | the same, normal distribution | **violated**: a client starts in the last 5 seconds |

Bounds. `MaxPerWindow` = 8 is two packets per path, the first total at which the hottest
path can be above the equal share and less than twice it, and it lets one flow carry
eight times its share (`totalPaths` packets are needed before the offset is computed at
all, twice the share to move anyone). In `flowlet` three packets are one that makes an
entry, one within the gap that renews it and one past the first's gap: the least that
tells whether renewing matters; `MaxTime` = 7 lets all three cross, and a gap of 4 is
twice the difference of the delays. In `csma_link`, `MaxSent` = 6 fills queue, transmitter and
line, drops, and drains again. `LineLength` bounds the packets in flight on one cable:
a new transmission waits, which in the code is the propagation delay; one packet is
enough in the fabric for the queue behind it to fill. In the fabric the far flow
crosses pods and the near one stays in its pod; both use the same uplinks, so their
packets meet in every queue up to the aggregation level, and two packets of the far one
can be sent to different core switches.

In `csma_bus`, 3 devices are the least that turn the channel to half duplex, and a
channel is left at 2, in full duplex, too; a third packet meets a transmitter with one in
transmission and one in a queue of 1, is dropped there, or collides from another device
with both; 1 retry lets a backoff end well, end in another one, and end in an abort with
and without a queue behind it. 2 faults are a device that goes and comes back, or loses
both its sides; which device has them makes little difference, as all are attached at any
time and each of them may send, so one of the three has them.

In `anneal`, 3 processes are a search, its continuation, and one that finds the
continuation's checkpoint; 3 temperatures are a first, a last and one between. In
`experiments`, 2 deaths let the generator die in its first run (so that the second one
reuses ids) and the runner in the first batch, or one die twice; a third batch would only
repeat what the second finds. In `traffic` two flows show what one carries over to the
next (nothing but the place in the agenda).

`CHECK_DEADLOCK FALSE` is set where the system really comes to rest: the senders have
a bounded number of packets, and when they are delivered nothing is left to do (in
`flowlet`, when the clock has stopped).

### Fairness

The simulator runs every event it has scheduled before it ends, so the events of the
CSMA device and the receptions have weak fairness in `CsmaLink`, and so have the events of
each device and those of the channel in `CsmaBus` (a device that is cut off has none);
nothing obliges a host to send, or anyone to attach, detach, disable or enable a device. In the fabric the steps that move packets (`Transmit` and the receptions)
together have weak fairness (`Move`): a packet that is in a queue or on a line gets
moved. Sends and timers have none. A Python process that lives makes its next step
(`Work` in `Anneal`), and nobody has to start one; a crash is possible at any step and
never obliged. `main()` runs on (`Next` in `Traffic`). `Experiments` has no fairness, as
it has no liveness property.

### Divergences from what the code says of itself

1. A congested queue's `SetEcn(ECN_CE)` replaces the two low bits of the ToS byte, in
   which the edge switch has left the uplink of the aggregation switch
   (`fabric_ecn`). `ecnThresh` is 0 unless it is given, and then the bits
   are left alone; the experiments give 10. With k = 4, port 3 is past the last uplink.
2. "Otherwise, the transmission will be started when the current packet finished
   transmission" (`csma-net-device.cc:1024-1026`): not when the send side of the device
   was off at the end of a backoff. `TransmitStart` drops the packet and leaves the state
   `BACKOFF` with nothing scheduled (line 469), and `SendFrom` only starts a device that is
   `READY` (`csma_stuck`).
3. A resumed search saves a list of another shape than the one it restores
   (`anneal_resume`).
4. "Stop generating flows for the last 5 seconds of the total time in order to let all the
   flows finish inside the simulation window" (`misc-tools.cc:117-118`): the clock of the
   generators has `CLIENTS_START_TIME` in it, `main` adds it again, and clients start up to
   3 seconds before the end (`traffic_end`; `EveryFlowHasItsClient` states the 3).

Seen while modelling, without a run of their own:

* `previousMaxPath` and `offset` are compared before they are initialised; before the
  first window has been closed a flow may be re-hashed.
* The attribute `EcmpMode` ("0 = ECMP, 1 = Random Flowlet Switching") is never read: the
  gap alone decides.
* A device that is detached when its backoff ends becomes `READY` without a look at its
  queue. If that is full, `SendFrom` returns at `Enqueue` for ever after, also when the
  device is attached again.
* `m_numBackoffRetries` is reset when a packet is transmitted or aborted, not when it
  is dropped by a disabled or a detached device: the next packet inherits its retries.
* The comment on marking says that the queue "exceeds" the threshold
  (`csma-net-device.cc:991`), the code compares with `>=` (line 996).
* `CsmaChannel::Attach` sets the state of the new device to `IDLE` without a look at it
  (`csma-channel.cc:97`). In half duplex that is the state of everybody: attached while a
  frame is on the channel, the device makes `TransmitCompleteEvent` or
  `PropagationCompleteEvent` fail its assertion. A third device on a full-duplex channel
  with a frame on it does the same. `fat-tree.cc` attaches all devices before the simulation.
* The seeds "have to be the same across experiments so that the comparison is fair"
  (`anneal_robust.py:65`). They are drawn when the module is loaded and are in no file: a
  resumed search compares its first costs with one of other seeds (`measured` is not
  `seeds`), until it accepts a neighbour.
* A process that dies after the last checkpoint of `anneal` and before the end is resumed at
  the last temperature: `anneal_continue` does not enter its loops, its local `i` is not
  assigned, and line 272 raises `UnboundLocalError`. The parameters found are not printed.
* "This function restores the exploration process from the last checkpoint"
  (`anneal_robust.py:238`): once a resumed process has made a step, a death costs the whole
  search, because of divergence 3. `CheckpointIsRecent` says what is in the file, not
  that it can be used.
* The options `probSameEdge` and `probSamePod` (`fat-tree.cc:113-114`) are not passed to
  `getSourceDestPairs`, which always gets 0.2 and 0.3.
* With k = 2 the loops of `getSourceDestPairs` have nothing to draw and do not end.
* `cost` reads an item of the results before it tests for `None`, so that "Running next!"
  (`anneal_robust.py:111`) never happens: the search ends. It passes the option `seed`,
  which `fat-tree.cc` does not declare.
* "OPTIMAL PARAMETERS FOUND" are the ones accepted last, not the best.
* An id is the "Unique experiment ID" (`fat-tree.cc:112`) only while no generator dies
  before it has written `last_exp_id`; `RecordedIdsAreFinal` says what remains.
* `params['dctcpEnable'] == 1` (`experiment_generator.py:140`) compares where the comment
  above it wants an assignment.

## 4. Proofs

Proved by TLAPS for every value of the constants that meets the named assumptions
(`PathsAssumption`, `HashAssumption`, `GarbageAssumption`, `BoundAssumption`;
`KAssumption`, `FabricAssumption` and `LinkAssumption`; `FlowletAssumption`,
`PathAssumption`; `TrafficAssumption`; `BusAssumption`; the ones of `CsmaLink`;
`AnnealAssumption`; `ExperimentsAssumption`):

* **`PathHashingProofs`**: `TypeCorrect`, `HotPathCorrect`, `AssertionsCorrect`, `OffsetBandCorrect`,
  `FlowKeepsPathCorrect`, `MovesOnlyOffOverloadedCorrect`, `CountersBoundLoadCorrect`,
  for any number of paths, any flows and hash values, any uninitialised values.
  `HotPathIsArgmax` is inductive with the types. The sum of the counters that
  `resetWindow` asserts to be `totalPackets` is the number of pairs of a path and a
  number up to its counter (`Counted`): a packet adds one pair, a reset leaves none.
  `OffsetInBand` needs that the
  maximum is within the total (`MaxWithinTotal`), because the offset is 100 divided by
  (maximum div (total div paths)), and a quotient of at most `2*totalPaths-1`.
  `MovesOnlyOffOverloaded` needs to know what an offset below 100 says of the window
  that produced it (`OffsetTellsOverload`). `FlowKeepsPathInWindow` is an action
  property: it follows from the invariant `ActiveFlowsAreSettled`, that the last path of
  a flow active in this window is what `ChoosePath` gives it now; nothing but a reset
  changes what `ChoosePath` reads.
* **`FlowletProofs`**: the invariant `FlowletInv` relates each flow's last packet to
  the entry it used: its entry exists, is no older than the packet and, if no gap has
  passed since the packet, still has the packet's port; the packet is not due after the
  line's last arrival nor after `sentAt + MaxDelay`. With it: `FlowletKeepsPortCorrect`,
  `CollidingFlowsCorrect`, `GapZeroIsStaticCorrect` and `NoReorderingCorrect`, for any
  number of flows, uplinks, hash widths, gaps and delays.
  For two switches, `PathImplementsEdge` shows that the edge switch on a path is
  `Flowlet`, so that its theorems hold there (`EdgeOnPathCorrect`). `PathInv` says of each
  packet when it moves (`OnTime`) and what the entries of both switches know of it
  (`EdgeEntry`, `AggEntry`: as in `FlowletInv`, but for every packet and not only the
  last of a flow), and of each two that links are first-in first-out (`Behind`), that two
  of a flow within the gap go by one aggregation switch (`SameWay`) and that two of a flow
  that went by one are across in order (`InOrder`). `NoReorderingOnPathCorrect` is then
  two cases: one aggregation switch, `InOrder`; two, and the packets were sent more than the
  gap apart, which the delays of two links cannot make up for.
* **`FabricProofs`**: for every even k, every set of flows, hashes and senders, every
  kind of switch, any queue capacity and line. The first lemmas are about the wiring and
  the tables of `fat-tree.cc`: an address that is in a table is below that switch, the
  neighbour that `addRoute` gives for it is the one that leads there, and the uplinks are
  numbered as the path numbers them. The invariant is `TypeInv` and three layers.
  `RouteInv`: where a packet is follows from its flow, its path and the switches it has
  passed, one of the six legs of a route (`FirstLeg` .. `LastLeg`); it holds whatever is
  written to the ToS byte, because a wrong port only changes the core switch, and gives
  `ShortestRouteCorrect`. `PathInv`: the core switch is the one of the path, and the byte
  names it until it is read; it gives `TosCarriesPortCorrect`, `NeverHaltsCorrect` and
  `PathIsFollowedCorrect`. `OrderOK`: of two packets of a flow that have gone the same way,
  the one in front is the older, on one link (`OrderOnLinks`), on two links of which one
  is further on (`OrderBetweenLinks`), between the host and the links (`OrderAtEnd`) and
  at the host (`OrderArrived`); it gives `ReorderedOnlyByRerouteCorrect`. All
  but types and routes are proved under `NoMarking`: the
  threshold is 0, its default, or the switches are ECMP ones, which do not read the
  byte. `fabric_ecn` shows that `TosCarriesPort` is false without it. `PathIsFollowedCorrect`
  also needs that an aggregation switch has at most 256 uplinks or is an ECMP one: the
  port is one octet (`AggPort`).
* **`CsmaBusProofs`**: `BusInv` says of each device what its own assertions need
  (`DeviceOK`: BUSY has a packet, READY or GAP has none, one that waits is in BACKOFF with a
  packet, one not attached has done nothing), of the channel that its arrays are indexed
  within their bounds and set (`WireOK`), and, unless a device was attached while a frame
  was on the channel (`disturbed`), what the assertions on the channel's state need
  (`Undisturbed`: the line of a BUSY device has its packet; in full duplex it is busy only
  for a BUSY device; in half duplex at most one packet propagates, on a channel that is
  `PROPAGATING`). `TypeCorrect`, `AssertionsCorrect`, `OneFrameAtATimeCorrect` and
  `StuckOnlyWhenCutOffCorrect` follow, for any number of devices, packets, retries and faults
  and any queue. In full duplex the second conjunct of `Undisturbed` rules out the busy
  channel that, says the code, "is not supposed to happen" (`BusyInFullDuplex`). Two more
  invariants are about the frames, with the same exception.
  `FramesInv` says of each device (`HandOK`) that what it holds, the packet in the
  transmitter and then the queue, is in the order it was taken and behind all the channel
  carried for it, and that the two together are the frames taken and not lost: a retried
  frame has not been passed by the queue, and one given up is lost once
  (`EveryFrameAccountedCorrect`). `HearInv` says that the receptions scheduled are in the
  order of the transmissions, that what a device has received is in front of what
  it has yet to receive, and that the two are what the channel carried for it less what it
  missed (`EveryoneHearsTheSameCorrect`).
* **`CsmaLinkProofs`**: `CsmaInv` (types; a BUSY device has a packet and the channel, a
  device in GAP or READY has neither, a READY device has an empty queue; the line's
  bound) gives `AssertionsCorrect` and `ReadyMeansEmptyCorrect`, and
  `LinkImplemented`: the initial state and every step of the device map to an initial
  state and a step, or stutter, of `Link`, for any queue capacity, threshold and line.
* **`AnnealProofs`**: `AnnealInv` adds to `TypeOK`,
  `CostIsOfParams` and `StepsMatchTemperature` what holds while a cost is measured
  (`Measuring`: the sum so far is of the parameters measured, and the loops are not at
  their ends), around a save (`Saving`) and of `anneal.chk` (`Saved`: `CheckpointIsRecent`,
  and that what `anneal` saved is of the beginning of a temperature). `TypeCorrect`, `CostIsOfParamsCorrect`,
  `StepsMatchTemperatureCorrect` and `CheckpointIsRecentCorrect` follow, for any
  parameters, limits, results, seeds, and any number of temperatures, steps and deaths.
* **`ExperimentsProofs`**: `ExperimentsInv` says what the
  generator may still open (`Generating`: only ids above `last_exp_id`, one torn file at
  a time), that two files of one id mean an id given out twice (`OneFile`), that what is
  known under any other id is of the experiment in its file (`Reported`), and which
  output and results there are at each step of the runner (`Running`). From it
  `ReportsOwnRunCorrect`, `BatchCompleteCorrect` and, as action properties,
  `RecordedIdsAreFinalCorrect` and `ResultsStandCorrect`, for any number of experiments,
  deaths, failures and batches, in the runner's directory and in another folder.

* **`TrafficProofs`**: `PairInv` says that the branch a pair is drawn in is the one of
  the number drawn, and gives `PairCorrect`. `FlowsInv` (the flows are in the order of
  their times, none after the generator's clock or in the last 5 seconds) and `AgendaInv`
  (the clients scheduled are those of the first flows, and there are flows left while the
  set-up goes on) give `EveryFlowHasItsClientCorrect`; for every even k, distribution, simulation time
  and number of flows. `TypeCorrect` needs, beside the types, that there is no more than
  one client per flow or, in the fixed experiments, per host. `SizesAreQuantilesCorrect`
  has the hypothesis `SizesIncrease`, that the lines of the distribution are in the order of
  their sizes, as those of the files in `distributions/` are: the loop stops at the first
  line that covers the sample, and the first is the smallest then.

Proved and not in a run: `GapZeroIsStatic` and `CollidingFlowsShareAPort` of `Flowlet`,
`AssertionsHold` and `ReadyMeansEmpty` of `CsmaLink`, `EveryFlowHasItsClient` of `Traffic`.

Model-checked only: the liveness properties, which need fairness and are beyond the
prover. They are `EventuallyArrives` of `Fabric`, `EventuallyLeaves` of `CsmaBus`,
`Terminates` of `Anneal`, `SetUpEnds` of `Traffic`, and the fairness of `Link` in
`ImplementsLink` (its initial state and its steps are proved). Every state
invariant and every action property of the passing runs is proved. To that end two
things are said without recursive operators, which the prover cannot unfold: the sum
of the counters as the size of a set, and the orders of `CsmaBus` as `Before` and not by
filtering sequences.

## 5. Not modelled

* Vendored code: NS-3, the Linux stack under DCE, iperf. Hosts send and receive packets.
* The learning-bridge methods the switch devices inherit by copy (`ReceiveFromDevice`,
  `Learn`, `ForwardUnicast`, `ForwardBroadcast`, `SendFrom`): the ports register the
  switch handlers instead, so none of it runs.
* The length of a backoff and of a transmission, addresses and the encapsulation modes in
  CSMA: any order of the events of different devices is allowed, every packet is a
  broadcast.
* Byte mode of the queue, statistics, traces, logging.
* `custom-switch` (empty) and `custom-switches` (log-only callbacks).
* The `traffic-simulation` module, which the program never calls.
* What `fat-tree.cc` does besides wiring and traffic: options, start-up commands of the
  hosts, the statistics file. Parsing of iperf's output, and the statistics in reports.
* Plotting scripts and data.

## 6. Plan

In this order:

1. The flowlet tables of `FlowletPath` in the switches of `Fabric`, where the delay of a
   link is the queue in front of it and no constant bounds it but the queue's limit.
2. `CsmaBus` with a queue of `LinkQueue`, and that it implements a `Link` per pair of
   devices when it is in full duplex.
3. `TrafficSimulation`'s choice of destinations, which no program of this repository uses.
