# TLA+ models of GbbDongle

GbbDongle is an ESPHome component (`components/gbb_dongle/`) that executes Modbus
requests of the GbbOptimizer cloud on an RS485 bus, and keeps "emergency" command
sets that it executes by itself when the cloud goes silent (`docs/protocol.md`).
`tools/busscan/` is a command-line tool that scans the bus through a dongle. These
modules model both, TLC checks them on small instances, and TLAPS proves for every value
of the constants what is claimed of their safety, and both refinements; of the checksum,
which cannot notice every damage, it proves which it always does.

## 1. Inventory

| Component | State | Operations | Interacts with |
|---|---|---|---|
| `EmergencyManager` | lifecycle state, time of the last InvSetup, walk position, retry timer | `setup`, `loop`/`check_trigger_`, `handle_fields`, `start_next_set`, `handle_result` | store (calls), executor (`start`), clock |
| `EmergencyStore` | sets and revisions in RAM, the copy in NVS and its hash | `set_lines`, `clear`, `set_persist_enabled`, `load_from_nvs`, `sync_nvs` | NVS |
| `GbbDongle` | the single pending request, request counters, cloud settings, keepalive time, log level | `setup`, `loop`, `on_cloud_message_`, `publish_response_`, `configure_mqtt_`, `apply_log_level_`, `apply_uart_settings_`, `mark_dirty_` | owns the other parts, arbitrates the bus, MQTT client |
| `ModbusExecutor` | a batch of lines, the current line, the bytes received, timers | `start`, `loop`, `take_result` | UART |
| `LogRingBuffer` | ring of bytes, write and read offset, level gate | `append_` (any task), `read_incremental` | logger, `publish_response_`, preferences |
| GbbProtocol | none | parse a request, build a response, the sets' way to NVS and back, hex, CRC-16 | all of the above |
| busscan `tracker` | locked client, Plant Id, `ready` channel | hooks, `waitReady` | broker goroutines, scan |
| busscan `scanner` | address, attempt, order number | `exchange`, `probe`, `scan` | broker, dongle |
| busscan `autoReconfigure` | saved settings, restore function | `fetchConfig`, `applyConfig`, `post` | the dongle's web server |

Everything in the firmware runs on the main-loop task, except that the logger's
callback may come from any task. What makes it hard is not preemption but order:
cloud messages arrive between any two runs of `loop()` and change the store under a
send cycle that spans many of them; two clocks (SNTP and a wrapping `millis()`) move
independently; NVS and the persist switch survive a power cut separately. busscan has
real goroutines, a bounded channel, and a dongle that comes and goes.

What makes each component correct:

- *EmergencyManager and GbbDongle*: the lifecycle state agrees with the store; a cycle
  owns the bus and covers every set; it never fires early and never retries behind the
  cloud; a run clears only what it ran; requests are served and cycles end.
- *EmergencyStore*: the copy in NVS is what a restart should restore; revisions identify
  what is stored.
- *ModbusExecutor*: every batch ends; replies belong to their commands; gaps are kept.
- *GbbDongle, requests*: every request is answered, once, in order and with a whole
  document, or accounted for as ignored, replaced or dropped.
- *GbbDongle, session*: the session in use is the one that is set, or "Restart Required"
  says it is not; keepalives are in time; the connection comes up in the end.
- *GbbProtocol*: what the cloud sent comes back as it was, from the response and from
  NVS; a damaged reply is never passed on, an intact one never refused.
- *LogRingBuffer*: a response carries the newest unread text, exactly once; the gate in
  use is the one that a restart restores.
- *busscan*: no device is missed or misplaced, no wake-up is lost, the scan ends, and the
  dongle's settings are put back.

### Not modelled

`build_client_info_` and `dump_config` (they change no state) and
the identity fields of a response (constants of the build); the executor's error counter
(shown, never read); `EmergencyStore::clear_all` (no caller); JSON as text and MQTT as a
protocol (libraries, seen through what they accept and deliver); `__init__.py` and the
firmware YAML (build-time wiring; their ranges are the ASSUMEs); in busscan the flags,
`netifaces.go` and the result table; the bench tools (stand-ins for the parts modelled
here), CI and the web page.
The list of hazards this rests on, each at its line, is in `PROJECT.json`.

## 2. Modules

```
CommandSets <- BatchExecutor  \
            <- EmergencyStore  <- EmergencyManager <- GbbDongle <- GbbDongleMC
            <- LastWill                                         <- GbbDongleProofs
                                                                     <- LastWillProofs
LastWill       <~ GbbDongle                              (<~ is implemented by)
BatchExecutor  <~ ModbusExecutor <- ModbusExecutorMC
                                 <- ModbusExecutorProofs
CloudSession, CloudRequests <- CloudMC
                            <- CloudProofs
GbbProtocol, ModbusFrame <- GbbProtocolMC
                         <- GbbProtocolProofs
LogRing <- LogRingMC
        <- LogRingProofs
Tracker <- BusScan <- BusScanMC
                   <- BusScanProofs
ConfigRestore <- ConfigRestoreProofs
```

**LastWill** — what the facility promises (`docs/protocol.md`, "Emergency commands"), in
terms the cloud and the inverter see: sets stored and saved, a cycle and what it still
owes, whose commands are on the bus. It has no walk, revision, hash, NVS call or loop.
`GbbDongle` implements it by `LW`, where the bus is read off the executor's batch.

**CommandSets** — line vectors as opaque values; only the number of lines that carry a
Modbus frame matters.

**BatchExecutor** — what `GbbDongle::loop` may rely on: `IDLE`, `BUSY`, `DONE`; a batch
is answered line by line, or fails, and the result waits. `GbbDongle` is composed with
this abstraction; `ModbusExecutor` is shown to implement it.

**EmergencyStore** — `sets`, `revisions`, `nextRevision`, `persistEnabled`,
`persistedHash` and the blob `nvs`. The methods are operators with primes that the
manager's handlers conjoin, so that a handler is one step with everything it calls.
With `NvsFaults`, opening fails, or an access fails before or after it reached flash.

**EmergencyManager** — one operator per handler. `HandleFields` is both halves of
`handle_fields` in their order; `CheckTrigger` has one disjunct per way out of
`check_trigger_`; `HandleResult` settles the set (`SettleSet`) and then takes one of the
four ways on. Wall-clock time is as fine as the code's comparisons: `pastThreshold`
(minute > threshold) and whether an InvSetup was before the top of the hour.
`retryIn` and `checkDue` count the elapsed `millis()` in check intervals.

**GbbDongle** — `loop()` in its four parts in the order of `phase` (take the result, hand
out the bus, `executor_.loop()`, `emergency_.loop()`); the MQTT callback and the
persist switch act between two loops; a power cut, the two clocks and the preferences'
flush act at any moment. `cloudInvSetup`, `cloudInCycle`, `unserved` and `touched` are
history variables no action reads. `DisarmEmptyStore` and `EndOfWalk` are modelled
because the code has them, and are unreachable: the theorems `LifecycleMatchesStore` and
`WalkNeverEmpty` say so.

**ModbusExecutor** — a line is of one of six kinds, by its gap and by whether its reply's
length is known. Time in units, `millis` modulo `Wrap`; the signed comparison of
`loop()` is `NotBefore`, the unsigned one of `handle_rx_` is `Since`. A reply is up to
two pieces (`head`, `tail`), intact or damaged, or stray bytes (`noise`); it may be in
flight past the timeout, and `current` (history) tells whose it is. `quiet` and `owed`
are the history that states the gap. `ApplyUartSettings` spoils what is on the wire.

**ModbusFrame** — the same reply byte by byte: the framing of `handle_rx_` and the check
of `finish_line_ok_`, with CRC-16 shift by shift (`ShiftedOut`, `WithByte`), and the hex of
the response. The exclusive or of 16 bits is that of its halves, down to one bit. An
inverter's reply is taken to be as the Modbus standard has it (`WellFormed`, in
`FrameAssumption`: as long as it announces, with its checksum). Of it comes the whole, a
beginning, or the whole with a burst of wrong bits in one byte or two neighbouring ones
(`Disturbed`), and behind it anything.

**GbbProtocol** — a JSON value is its type and, where that matters, one of two values;
`parse_header`, `build_response`, `build_emergency_sets` and `parse_emergency_sets` are
operators over them. The actions are a message and a restart.

**CloudSession** — a host, port, Plant Id, token and TLS options that belong together are
one account. A restart brings back the settings, or, after a power cut, what of them had
reached the flash (`saved`). The MQTT client connects by itself once enabled; `network` and the broker
come and go. `now` is `millis()` modulo `Wrap`; `silence` is history.

**CloudRequests** — `loop()` again, reduced to the slot, the executor and the response,
with the requests numbered; the emergency manager is a `will` that takes the bus when it
likes. Sizes stand for documents: with the log or without, at the cap, above it.
`ignored`, `replaced`, `dropped` and `lost` are history.

**LogRing** — the ring byte by byte over three kinds of bytes; `append_` reads the gate,
waits for the mutex and writes in separate steps of each task. The gate is saved to the
preferences, which reach the flash at intervals. `Recorded` is what is left of a message
without its color sequences, `Plain` its bytes in order. `unread` is history.

**Tracker**, **BusScan** — the mutex section of `waitReady` and its `select` are two
steps; a connection's end and its hook are two steps, so a connection may be taken over
by a new one of the same id before `OnDisconnect` of the old one runs. Bound: the new one
does not end in its turn before that. A second client of the same Plant Id, which would
receive the requests too, and a publish or a hex string that fails are left out. `BusScan` is
`exchange`, `probe` and `scan` over it, with the dongle's slot, the responses in
transit and the bounded channel.

**ConfigRestore** — the five POSTs and their retries, on the way in and on the way out,
with `cancelled` (the run's context) and `expired` (the restore's own).

A type invariant stands in every module as the description of its state; each is proved,
that of a part within that of the module composed of it.

## 3. What the runs check

| Run | Instance | Shows |
|---|---|---|
| `bus` | 2 keys; contents of two frames and of none; 3 stores; retry delays 1..2 | `ImplementsLastWill`, and the bus, the cycle, what a result clears, and the retry |
| `persistence` | 1 key; one content over the cap; power cuts, failing NVS, the persist switch, late preferences | `StateMatchesStore`, `NvsMirrorsStore`, and that a restart never makes the check fire early |
| `liveness` | 2 keys, 2 stores; an inverter that answers, fails or is silent for ever | `RequestServed`, `CycleEnds`, `RetriedUntilDelivered` |
| `executor` | 4 vectors with every kind of line; wrap after 12 units | refinement of `BatchExecutor`, replies, gaps, `BatchEnds` |
| `cloud` | 2 accounts, interval 3, wrap after 9; 5 messages, responses below, at and above the cap | `CloudSession` and `CloudRequests` |
| `conversions` | every header field absent, right, empty or of a wrong type; arrays up to one above the limit; 7 replies with every bit flipped, four bursts across every two neighbouring bytes, every end lost, and 3 kinds of stray bytes | `GbbProtocol` and `ModbusFrame` |
| `logring` | 2 tasks, ring of 8 bytes, response of 5, 10 bytes written | `ResponseIsNewestUnread`, `GateIsSaved` |
| `busscan` | 3 addresses, every set of devices, 2 clients, a channel of 2, 1 fault | the scan and the tracker |
| `restore` | 3 attempts per POST | `RestoredOrTold`, `ScansOurDongle`, `InterruptExits` |

`cloud` and `conversions` each hold two modules that share no variable. A constant of
each behaviour, `part`, names the one that moves, so TLC explores the sum of their
states; as neither can see the other, a product would show nothing more.

Why the bounds are enough for the interesting cases: two keys give a walk with a next
set and an end; three stores allow a set to be stored, cleared or replaced during its
run, and stored again; the delays 1..2 reach and stay at the maximum. One key and two
stores are enough for `persistence`, whose properties compare the store with its copy as
a whole; the content over the cap and the other alternate. The wraps at 12 and 9 are
crossed many times and exceed twice timeout plus gap, or interval plus two runs of
`loop()`, as 2^32 does. 10 bytes lap a ring of 8. Five messages fill the slot, replace
what is in it and come back during a run. Three addresses have a first, a middle and a
last; a channel of 2 overflows. `MaxRevision`, `MaxIdle`, `MaxOffset`, `MaxReceived`,
`MaxChannels` and `MaxFaults` are the only bounds on what would be unbounded.

What the properties do not claim. `NvsMirrorsStore` is about steps while NVS works: it
says that the mirror, once there, is not lost, not that a mirror lost to a failing write
is mended. `NoDeviceMissed` does not hold with more than one fault: a garbled answer
followed by a bus timeout *is* recorded as silent (`scan.go:138-143`). `ReadyIsLive`
claims only that a ready tracker has a live subscription: after a takeover
`OnDisconnect` of the old connection makes a live dongle unready until it subscribes
again, and the scan then waits for it and gives up at its deadline. `KeptAlive` allows
two runs of `loop()` beyond the interval, not one: a client that connects just before
the age of the last keepalive passes the wrap waits it out once more. `OnlyTheSentFrame`
allows a reply of unknown length, which ends by silence, to carry stray zero bytes: its
checksum holds with them. `MaxIdle = 4` in `executor` keeps the bus in use at least once
in a third of a wrap; `executor_idle` drops that. `MaxIdle` also bounds the history
`quiet`, so it must not be below the longest gap (`ExecutorAssumption`).

Deadlock is checked except in `busscan`, `restore`, `restore_any_exit` and
`conversions`, where the program, or the reply, ends.

### Disagreements

| Run | What the code does |
|---|---|
| `cloud_back` | `cloud_back_` is left set when an InvSetup in `QUEUED` is followed by the store being emptied; a later cycle then drops its retry although no InvSetup came during it |
| `executor_idle` | the signed difference parks the executor when the last command is more than 2^31 ms ago |
| `restore_any_exit` | a reconfiguration that fails half-way leaves the dongle with settings of the tool, and no restore runs |

Four more have no run of their own. The first three are stated at the end of `GbbDongle`;
TLC finds each violated when it is the only property of `bus.cfg` (with
`Contents = {two, one}`), the third of `persistence.cfg`.

- `FiresOncePastThreshold`: delivering the last set forgets an InvSetup that came during
  its run (`emergency_manager.cpp:215`); a set stored after it is not executed in the
  next silent hour, against `docs/protocol.md:95-97`.
- `NeverHalfApplied`: a set of which only the first line was answered is cleared
  (`emergency_manager.cpp:189`). That is delivery as `docs/protocol.md:110-112` defines
  it, but not what `gbb_dongle.cpp:286-288` says.
- `EmptyStoreErased`: a failed erase is taken for done (`emergency_store.cpp:142`): the
  stale copy stays, and comes back with a restart, against `emergency_store.h:43-45`.
- A line's `Error` that came with the payload makes `handle_result` count it as failed
  (`gbb_protocol.cpp:36`, `emergency_manager.cpp:189`), while `same_execution_content`
  ignores it, against `emergency_store.cpp:36-38`. `EmergencyManager` assumes emergency
  lines without one; `docs/protocol.md` mentions none in them.

## 4. Fairness

`GbbDongle`: weak fairness of the main loop's steps (ESPHome calls `loop()` for ever), of
the tick of `millis()`, and of the wall clock's two marks; strong fairness of
`BatchAdvances`, because `ModbusExecutor` ends every line by its timeout (`BatchEnds`).
All three properties of `liveness` are checked under it (`FairSpec`), with an inverter
that need never answer. `RetriedUntilDelivered` alone has a premise, `AnswersAtLast`: an
inverter sent emergency lines again and again answers one; without it the retry goes on
for ever, as it should. `RequestServed` and `CycleEnds` hold there too: behaviours in which
cycles fail and retry without end are among those the run checks. `ModbusExecutor`: weak
fairness of `loop()`, of bytes on the wire and of time. `BusScan`: of the scan's
goroutine, of its timer, and of the dongle and the broker's callback; nothing is
assumed of Ctrl-C, of connections or of hooks. `ConfigRestore`: HTTP requests have a
timeout of 5 s and the scan ends (`ScanEnds`), so `Run` is weakly fair. `CloudSession`:
weak fairness of `loop()` and of the MQTT client's attempts to connect; nothing of the
network or the broker (`ConnectsAtLast` assumes in its premise that the network stays).

## 5. Proofs

`GbbDongleProofs` proves, for all keys, contents, retry bounds, numbers of stores and
environments (power cuts, persist switch, failing NVS), under the ASSUMEs of
`CommandSets`, `EmergencyStore`, `EmergencyManager` and `GbbDongle`:

- `TypeCorrect`, then `Invariance` of `TypeOK /\ IInv`;
- from it the invariants `LifecycleMatchesStore`, `BusOwned`, `CycleComplete`,
  `CloudCancelsRetry`, `WalkNeverEmpty`, and the action properties `NoInterleaving`,
  `OnlyWhatRanIsCleared`, `TriggerInTime`, `BackoffGrows`;
- `NvsMirrored`: no step taken while NVS works loses the mirror, whatever NVS did before.

`LastWillProofs` proves `KeepsLastWill`, the refinement of `LastWill`: one lemma per
action of `GbbDongle`, each of which shows the step of `LastWill` it is, or that nothing
`LastWill` sees changes. It rests on `Invariance`: that `Send` is allowed needs
`WalkInOrder`, that `Settle` forgets the right set needs `RevisionTellsTouched`.

`CloudProofs` proves `AllAccounted`, `DocumentsAreWhole`, `AnsweredInOrder` and
`RequestsTyped` for any number of messages, sizes and cap. `RequestsInv` adds to the
account that the published, the running and the waiting request follow each other
(`InTurn`), without which the order of answers is not inductive, and that no result is
left on the executor when the bus is handed out. It also proves `SettingsShown`,
`SessionTyped` and `SessionKeptAlive`, for any interval, pace of `loop()` and width of
`millis()`. `KeptAlive` needs `SilenceAccounted`: either no `loop()` has run since the
connection or the last keepalive began, or the last one found it not due, and then the
age of the last keepalive is less than what the connection has been silent for by one
run of `loop()` at most.

Why `IInv` is needed. That a cycle covers every set is not inductive: a step from
`QUEUED` needs to know that the keys not yet run lie ahead of the walk (`WalkInOrder`),
and that between two sets of one cycle the bus is not given away (`phase = "bus"` there).
That a result clears only what ran needs that the noted revision differs from the stored
one exactly if the cloud touched the set (`RevisionTellsTouched`), which rests on
revisions never exceeding `nextRevision` and being 0 just for absent keys
(`RevisionsOfSets`). `NoRetryBehindTheCloud` needs that a cycle knows of every InvSetup
since it was queued (`CycleKnowsCloud`), and `NeverFiresEarly` that an InvSetup of this
hour is on record or waits for the clock (`InvSetupOnRecord`). `NvsMirrored` needs
nothing but `Mirrored` itself, which says of the hash, too, that it is that of the blob.
The proofs have a lemma per action; the types are proved first, by handler.

`ModbusExecutorProofs` is about any line vectors, any timing that
`ExecutorAssumption` allows, and any `Wrap` of more than twice timeout and gap.

- `ResultsAreReplies` by `LinesInv`: a batch in progress has replies up to the current
  line (`AnsweredUpTo`), which has a frame. The same invariant, with the batch being one
  of the known vectors, gives `KeepsPromise`, the refinement of `BatchExecutor`: a line
  that ends is `LineAnswered` or `LineFailed`, everything else a stutter.
- `GapsAreKept` by `GapInv`: as long as the gap lasts, `gap_until_` is exactly what is
  left of it ahead of `millis()`, across the wrap; so the signed comparison cannot call
  it over too early. It needs `2 * (ResponseTimeout + WriteGap) < Wrap` of the assumption.
- `NoGapIsEndless` is the other direction, by `ParkInv`: what has passed since the last
  command stays below half a wrap, so a gap that is over is seen to be. It has a
  hypothesis of its own, `2 * (MaxIdle + LoopWithin) < Wrap`, that the bus is used that
  often: it is what the run `executor_idle` violates.
- `RepliesAreOwn` by `WireInv`, an invariant of the whole wire: while a line waits, only
  its own reply is in flight, in the FIFO or received, with a bound on how long it still
  takes; a reply that outlived its line is over before the gap is. Nothing in the code
  compares address or function, so only this keeps them apart, and it rests on
  `ReplyWithin + PauseWithin < ResponseTimeout + ReadGap`.
- `ExecutorTyped` follows from all of them.

`BusScanProofs` is about any addresses, devices, clients and channel capacity.
`TrackerInv` says that every channel but the last is closed, and that a tracker whose
locked client is not subscribed is not ready or has its `OnDisconnect` still to run:
from it `WakeupsArrive` and `ReadyMeansLive`. `FoundAtItsOwn` holds for any number of
faults: `OrdersInv` says that a request or response of the current order is of the
current address, and a frame from a device. `OneFaultHidesNoDevice` holds for
`MaxFaults <= 1` only (see above), and `ResponseCap > 0`, as `startBroker` makes it:
before the first fault the dongle is connected (`ConnectedInv`) and the answer to what
was sent is on its way (`AnswersInv`); a second attempt is made only after a fault, after
which there is none left (`MissInv`). `ScanTypeCorrect` makes one claim that is not just of
types: an address costs three requests at most (`ScanBounds`), so that the order numbers of
the model do not bound the scan.

`ConfigRestoreProofs` proves `RestoresOrTells` and `OursWhenScanned` for any number of
attempts: `RestoreInv` says which of the settings are ours, and which the saved ones
again, after how many steps, whatever a lost request did to the next one. `RestoreTyped`
is inductive by itself.

`GbbProtocolProofs` proves `SetsSurviveNvs`: `NvsInv` says that the blob is that of the
stored sets, and that these came through the parser, so that a line, a set and the blob
come back as they were (`LineThereAndBack`, `SetThereAndBack`, `BlobThereAndBack`).
`EchoIsTrue` needs no strengthening but the echo of a line (`LineEchoed`);
`ProtocolTyped` follows from `NvsInv` and the types of a response.

It proves of `ModbusFrame`, for any replies that are `WellFormed` and any bytes behind
them, `IntactIsNotRefused`, and `OnlyCheckedIsPassedOn`: the text that the cloud gets
reads as bytes that were received, as many as they announce, with a checksum that holds,
and as the reply itself if that came intact and its length is known. `FrameInv` adds what
makes them inductive: what was received is the beginning of what came, and while the line
waits it is not a frame yet (`ReceivedSoFar`); what is passed on is the text of a frame
that was checked (`PassedOn`). The header of an intact reply announces its length however
little follows (`IntactHeader`), and the hex text is read as the bytes it was written
from (`HexThereAndBack`), and is hex (`FrameTypeCorrect`).

What the checksum is worth is proved for every frame, too. `BurstsAreRefused`: whichever
bits of one byte or of two neighbouring ones are wrong, the cloud gets no reply while the
length is still announced right, and whatever else comes over the bus, never one that
differs so from what was sent. `OnlyZerosComeAlong`: one or two bytes that are passed on
from behind an intact reply are zeros. The argument, in the section "What the checksum
tells apart":

- An exclusive or can be undone (`XorLaws`, from the halves up), and so can a shift: 40961
  has its top bit set, so the top bit of the result tells what was shifted out
  (`ShiftIsOneToOne`). Eight shifts leave the eight bits that went out in the high byte
  (`EightShiftsTell`), so a byte loses nothing (`WithByteTells`), and two bytes fill all of
  the checksum: no other two do the same to it (`TwoBytesTell`).
- `ModbusCrc16` is a recursive function, and induction over it is out of reach. Instead the
  values on the way are a function of their own, a run (`IsRun`); that there is one for
  every sequence (`RunExists`) and that `ModbusCrc16` is where it ends (`CrcIsRun`) need no
  more than a counterexample that is the least (`UpTo`, from the library's `WFMin`).
- A run over a frame and its own checksum ends in zero (`ChecksumIsResidue`). Two frames
  that differ in two neighbouring bytes have the same run before them (`RunsAgree`), the
  same after them, back from that zero, and so the same two bytes (`BurstIsNoticed`).

`LogRingProofs` is about any tasks, messages, capacity and limit. `RingInv` relates the
ring to the history `unread`: that is as long as what was written since the last read and
what the holder of the mutex still has to write (`RestIsLast`), and every byte that was
neither read nor lapped is in its place (`UnreadIsThere`), which rests on bytes less than
the capacity apart having different places. From it `LogIsReadOnce`; `GateSurvives` is
inductive by itself, and `RingTypeCorrect` needs both. That what `append_` records is text
at all (`PlainIsText`) needs that a finite set of numbers has an n-th member (`NthExists`).

Only model-checked: liveness (`RequestServed`, `CycleEnds`, `RetriedUntilDelivered`,
`BatchEnds`, `ConnectsAtLast`, `ScanEnds`, `InterruptExits`: fairness is out of the
prover's reach), and `OnlyTheSentFrame` of `ModbusFrame`. That one holds for the replies,
bursts and stray bytes of the run, not for all: a checksum of 16 bits also holds, now and
then, for what is left of a broken reply and the bytes behind it, or for a reply of another
length, when the wrong bits hit the bytes that announce it. What holds whatever arrives is
`OnlyCheckedIsPassedOn`, `BurstsAreRefused` and `OnlyZerosComeAlong`.

## 6. Plan

Done, in this order: store, manager, dongle with the abstract executor; their proofs;
the timed executor and its refinement; log ring; tracker and scan; restore; `LastWill`
and its refinement by `GbbDongle`, checked and proved; failing NVS in `persistence`;
`CloudSession` and `CloudRequests` with their proofs; `GbbProtocol` and `ModbusFrame`;
the level gate, new UART settings; the proofs of `ModbusExecutor` and its refinement,
of the tracker and the scan, of the restore, of `GbbProtocol`, of `ModbusFrame` and of the
log ring; the type invariant of every module; what the CRC-16 notices.

Nothing else is planned that the prover can reach. Liveness stays with TLC.
