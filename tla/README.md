# RS485 Bricklet: TLA+ models and proofs

This directory models the firmware of the RS485 Bricklet (`src/software/src`),
checks the models with TLC and proves their safety properties and refinements
with TLAPS. The
Bricklet connects an RS485 bus to a host over the SPITFP link. It works in one
of three modes: a raw byte stream, Modbus RTU slave, or Modbus RTU master.

Contents: [Inventory](#inventory), [Plan](#plan),
[Models](#models-and-the-code), [Refinements](#refinements), [Runs](#runs),
[Fairness](#fairness), [Proofs](#proofs), [Findings](#findings), [Limits](#what-is-not-modelled).

## Inventory

The program is one main loop and four interrupt handlers, without locks other
than switching interrupts off.

| Part | Source | State | Operations |
| --- | --- | --- | --- |
| Main loop | `main.c` 36-46 | - | `rs485_tick`, `communication_tick` (one round of callbacks), `bootloader_tick` (host messages), for ever |
| Modbus RTU engine | `modbus.c`, `rs485.h` 86-164 | `state_wire`, `tx_done`, `rx_rb_last_length`, request (`id`, `state`, `length`, `cb_invoke`, `master_request_timed_out`), stream chunking, error counters | `modbus_init`, `modbus_clear_request`, `modbus_init_new_request`, `modbus_start_tx_from_buffer`, `modbus_report_exception`, `modbus_update_rtu_wire_state_machine` |
| Transmit path | `rs485.c` 50-55, 108-125 | TX ring, 32-place FIFO, its event, transceiver direction | `rs485_tx_irq_handler` (fills the FIFO), `rs485_tff_irq_handler` (last byte has left) |
| Receive path | `rs485.c` 64-106, 319-361; `timer.c` | RX FIFO, RX ring, overrun and parity counters, silence timer | `rs485_rx_irq_handler`, `rs485_rxa_irq_handler`, the drain in `rs485_tick` |
| Modbus slave | `communication.c` 73-81, 776-1936, 2078-3300 | the request, the chunks of an answer in the TX ring | 8 request callbacks, 8 answer calls, `modbus_slave_report_exception` |
| Modbus master | `communication.c` 901-1936, 2139-3407 | the request, its frame in the TX ring, the chunks of a response | 8 request calls (2 in chunks), 8 response callbacks |
| Chunk sender | `communication.c` 106-371 | `modbus_stream_chunking` | `send_stream_chunks` |
| Raw streams | `communication.c` 43-71, 427-563, 1938-2030, 3409-3442 | read stream, read callback stream, frame size and `already_sent` flag, a message that waits | `write_low_level`, `read_low_level`, enabling and disabling, `handle_read_low_level_callback`, `handle_frame_readable_callback` |
| Error counts | `communication.c` 733-774, 2032-2075 | counters, the counts last reported (never assigned), a message that waits, debounce time | getters, `handle_error_count_callback` |
| Configuration | `communication.c` 572-630, 703-715; `rs485.c` 221-317 | parameters, mode, ring sizes | setters, `rs485_apply_configuration` |
| LEDs | `communication.c` 639-701, `rs485.c` 371-389 | LED states | setters, flicker |
| Boot, SPITFP, ring buffer | bricklib2 (git submodule, empty here) | - | used by all of the above |

**How the parts interact.** The interrupts and the main loop share the two
rings, `tx_done` and the silence timer. Interrupts preempt the main loop, so a
triggered one runs before the loop's next step. In raw mode the RX ring has two
readers, the getter and the read callback, each with a stream of its own; the
frame readable callback only looks at the ring's fill level. A configuration
call re-initialises the rings, and most of them the request too, without telling
streams or callbacks.
The host sees a request through its callbacks and refers to it by `request_id`,
a `uint8_t` that is increased when a request begins and when it is cleared. A
callback may find the SPITFP link busy (`bootloader_spitfp_is_send_possible`);
it then returns and is called again in a later round. The frame of a request
lies at the start of the RX ring (slave) or the TX ring (master); the handlers
read it through `rx_frame` and `tx_frame`, and `modbus_clear_request`
re-initialises both rings.

**What is hard.** Frames are found in a byte stream by a pause of 4 characters,
seen through a timer that every byte resets, while ticks come at any time.
Bytes are damaged and lost. New bytes arrive while a request is in processing.
The host answers late, in chunks, wrongly or never. Ids wrap around. The end of
a transmission is reported by an interrupt through a flag the main loop takes
back. A master request can end by its response, by a timeout, by a damaged
frame or by the end of a broadcast, and any of these may race the others and a
busy link. Bytes wait in the receive FIFO while the silence timer runs, and the
rings are erased by configuration calls in the middle of requests and streams.

**What makes each part correct.**

* *Engine*: a frame is judged only after silence; bytes on the bus are always
  judged in the end; an id never brings an old answer to a new request.
* *Receive path*: every byte is in the FIFO, in the ring, handed over, erased
  by a configuration call or counted as an overrun, and exactly one of these; a
  frame is not taken apart because some of it still waits in the FIFO.
* *Transmit path*: a transmission is the whole content of the TX ring, it
  ends, and afterwards the transceiver listens; no `tx_done` is left over.
* *Slave*: what it sends is one whole answer or exception to the frame it
  holds; a request is offered to the host once, as a whole; it answers no
  request to another slave and no broadcast.
* *Master*: every accepted request ends with exactly one callback, under its
  own id, with its own reply; packets arrive in order; only checked responses
  are read; what it sends is the whole frame of the accepted request.
* *Raw streams*: a stream that was begun is completed with as many bytes as it
  said; what arrives is handed over or announced; what was accepted is sent.
* *Error counts*: a change of the counts reaches the host.
* *Configuration*: a change ends a request at most once, and later requests are
  not blocked by what it left behind.

The hazards of this code, each at its line and with the properties that would
catch it, are listed in `PROJECT.json`.

## Plan

Written:

1. `ModbusRTU`: engine, transmit and receive path shared by both modes.
2. `ModbusSlave` with bus, host and interrupts.
3. `ModbusMaster` with slaves, host, interrupts, the request timeout and changes
   of the configuration.
4. `SlaveService` and `MasterService`, the abstract specifications that
   `ModbusSlave` and `ModbusMaster` implement.
5. `RawMode`: receive FIFO with both drains, parity interrupt, rings, streams,
   callbacks, writing, configuration.
6. `FrameTiming`: frames, pauses and the main loop in time.
7. Proofs of every safety property the passing runs check, and of both
   refinements: `ModbusRTU_proofs` (lemmas about the engine), `ModbusSlave_proofs`,
   `SlaveOrder_proofs` and `SlaveService_proofs`, `ModbusMaster_proofs` and
   `MasterService_proofs`, `RawMode_proofs`, `FrameTiming_proofs`.

Left, in order of importance:

8. Proofs: the slave in full duplex, for which the model needs a measure of how
   fast the FIFO drains.
9. `ModbusChunks`: answers and requests assembled from chunks against a
   reference, byte counts and their 8-bit fields, hosts that go on after a
   refused chunk.
10. Changes of the configuration in slave mode and from one mode to another.

## Models and the code

`ModbusRTU` has no next-state relation. It declares the state of the engine and
the hardware and defines, under the names of the code, the helpers both modes
call. `ModbusSlave` and `ModbusMaster` extend it; each is a complete system
with its environment. `RawMode` and `FrameTiming` stand alone: the first counts
bytes where the Modbus modules name them, the second measures time where the
others leave it open.

**The main loop** is the variable `pc`. One turn is `Tick` ("tick"), one round
of callbacks ("callbacks": `InvokeCallback` or `SkipCallbacks`) and any number
of host messages (`HandleMessage`, then `EndOfLoop`), in the order of `main`.
Every other action may come between any two steps. A tick is one step: the four
checks of a pass of the state machine exclude each other, and the code returns
after the one that applies. `FrameTiming` splits the tick and shows under which
condition the receive interrupt cannot come into its checks. The interrupt of a
byte with a parity error can; in the slave and master modules it does not.

**Bytes and frames.** A frame received has `FrameLen` units, a unit being
`[frame, part]`. A damaged one is `Noise`, a lost one never arrives. Frames carry what
the handlers tell apart: addressee, function, and a `count` that says how many
packets its data take between Bricklet and host (0: a count or value the
standard forbids). Frames are numbered, so that two equal requests remain
distinct; no guard of the code's model reads the number. The checksum is taken
to be free of collisions: it is good exactly for one whole, undamaged frame.

**Rings.** `rx` is the content of the RX ring since its last re-initialisation.
Nothing is taken out of it in the Modbus modes, so its start is `rx_frame`.
`tx` is what was added to the TX ring and `tx_start` how much of it the TX
interrupt has taken. One place of a ring always stays free.

**Transmission.** `txirq` is "pending" after
`XMC_USIC_CH_TriggerServiceRequest`, "armed" while the FIFO event is on, and
"off". `rs485_tx_irq_handler` loads until FIFO or ring is at its end and, as in
the code, recognises the end of the ring only while the FIFO still has room: a
response that just fills the FIFO takes one more interrupt. The event of an
armed FIFO fires at its limit of 16 and is served long before 16 characters are
out, so the last byte does not leave an armed FIFO.

**Reception.** `rs485_rx_irq_handler` stands for a byte reaching the ring on
either of its two ways and for the `TIMER_RESET` that goes with it. In half
duplex a byte that arrives in transmit direction is lost.

**Slave.** The environment is a bus master that sends frames of `BusFrames`
with or without pauses, and a host that keeps a ticket for each request it was
offered. It answers a ticket chunk by chunk, with the right or a wrong total
length, or reports an exception, at any time or never, but it gives a ticket up
before the id has been advanced `IdMax` times. Without that limit an 8-bit id
can identify nothing; `HostHolds` states it.

**Master.** The environment is a host that begins requests of `Requests`,
those of several clients in any mixture when `Interleaved`, and slaves that
answer a request they heard, in the ways of `Replies`, only until its timeout
unless `LateReplies`. `TimeoutElapses` is the time of
`system_timer_is_time_elapsed_ms`. Late replies are excluded where
`ReplyToThisRequest` is checked: Modbus RTU frames carry no id, so a late reply
to the same function cannot be recognised by any code.

**Configuration (master).** `set_rs485_configuration` and
`set_modbus_configuration` end in `rs485_apply_configuration`: it waits until
the transmission has gone out, empties the rings and calls `modbus_init`, which
drops a running request without a callback. `set_buffer_config` only empties
the rings. The request then has a `tx_frame` that points to zeros or, when the
sizes changed, past the new front of the TX ring (`moved`); `tx_frame` is
`ZeroFrame` in both cases. (Bytes of the RX ring under a pointer that was left
behind are taken for zeros, too.) The heads of frames are at the front of the
ring or they are not read: `FrameAtFront`.

**Raw mode.** `RawMode` counts bytes, since the rings keep their order. The RX
ring has its `start` and `end` with the wrap-around of the code. `DrainRxFifo`
is the loop that the RX interrupt, the parity interrupt and the tick share. A
stream of either reader is `[in_progress, sent, total]`; `TakeChunk` is what the
getter and the callback do alike, including the zeros in place of bytes that
are gone. `write_low_level` is split, because the TX interrupt empties the ring
it fills: `BeginWrite`, one `AddByte` per byte, `EndWrite` with the trigger.
`rs485_apply_configuration` is split where it waits for the UART: the receive
events are off meanwhile. The error count handler keeps what the code does:
`last_error_count_*` are never assigned, and a message that had to wait is wiped
by the `memset` of the next call. Two statements about hardware time are
assumed. The armed FIFO event fires at 16 of 32 bytes and is served before the
FIFO runs dry; and between the last `ringbuffer_add` and the triggered interrupt
lie a few instructions, too few for a FIFO to run dry (`OvertakenTrigger`).
A FIFO that never overflows is assumed only while the receive events are on.

**Timing.** `FrameTiming` is the receive path of the Modbus slave with a clock
that ticks once per character. `Pass` is a character's time in the main loop,
at rest or in the checks of a frame (`JudgeTime`); the drain of the FIFO and the
look of the state machine at the ring take none. The tick is split: `Drain`,
`Look`, `BeginJudgement`, `EndJudgement`, with interrupts in between. The bus
sends frames of any of `FrameSizes` with pauses up to `MaxPause` within and gaps
of at least one of `FrameGaps` between them. `TimingAssumption` says that a
pause is shorter than the silence and that a frame is judged before the FIFO,
filling from empty, exceeds its limit: 16 characters, which is 1.4 ms at
115200 baud.

Any byte may arrive damaged; without parity none is noticed (`Completed`). A
damaged byte requests `rs485_rxa_irq_handler` and, through the alternate event
of the FIFO that `rs485_init_hardware` enables, `rs485_rx_irq_handler`, at any
fill level; only the drain of the tick masks them. Whether the hardware raises
that alternate event as well cannot be told from the repository; the second
handler finds the FIFO empty. `EndJudgement` then counts the bytes that came
meanwhile into the length of the request, or erases them, as the code does.

`PROJECT.json` maps every definition to the lines it stands for, except those
of the abstract specifications, which are statements about the code.

## Refinements

`SlaveService` and `MasterService` say what the two Modbus modes promise without
wire, rings, ids, chunks or turns of the main loop.

* `ModbusSlave!ImplementsSlaveService`: a frame is taken up, offered packet by
  packet, then answered; an exception may take the answer's place; at most one
  response is sent, and it ends the request; a request is given up only while no
  response to it is on the wire. `serving` is the frame at the front of the RX
  ring, `stage` is read off `request.state`, `cb_invoke` and the wire, `told` is
  the number of packets the host has got.
* `ModbusMaster!ImplementsMasterService`: one request at a time is accepted,
  sent whole, its response handed over packet by packet, and its end reported
  once with an outcome that fits it. `asked` becomes true with the step of the
  state machine that sees the end of the transmission.

Both are checked as `PROPERTY` of the safety runs: every step of the tick, of a
handler, of a host's call or of an interrupt is a step of the abstract
specification or leaves it unchanged. They hold where the findings below do not
occur: a client that waits, replies of the right length, broadcasts that do not
time out, no change of the configuration.

## Runs

The Modbus runs use `IdMax = 3`, frames of 2 units, `FrameSizeMax = 3`, an RX ring of
6 places and a FIFO of 2. These are the smallest values at which every
case happens: an id wraps (and skips 0) within two requests; a frame can be
damaged in either half, run into the next one, be one unit longer than allowed
and overrun the ring; an answer in one chunk (3 units) is already longer than
the FIFO, an exception (1 unit) is shorter. The code has 255, 8..256, 256, a
ring of at least 1024 and 32. `MaxFrames` and `MaxRequests` bound the length of
a behaviour to two frames or requests, which is what a race of one with the
next needs, and `MaxCount` bounds how often an exception is counted again while
the link is busy. `MaxConfigs` is 1 where the configuration is changed, and `MaxRequests`
counts the change, too: it comes before, during or after a request, whose end
or whose late reply it then meets.

| Run | States | What it shows |
| --- | --- | --- |
| `slave_safety` | 737,196 | two frames out of eighteen kinds (every addressee and function, valid and invalid, in one packet and in several, not implemented): all slave invariants, a response is never cut off, and the slave implements `SlaveService` |
| `slave_liveness` | 67,814 | under fairness: responses end, requests are offered, bytes are judged |
| `master_safety` | 2,639,007 | two requests of every function by a client that waits, with normal, exceptional, foreign and wrong replies or none: one callback each, with its own reply, in order, timeouts counted once, whole frames on the bus; the master implements `MasterService` |
| `master_clients` | 420,636 | under fairness: clients that do not wait, late replies and replies of the wrong length, unfinished writes, a change of the configuration; every request whose frame can be read ends, and no callback ends one twice |
| `raw_mode` | 101,816 | under fairness, eight scenarios (below): no byte lost in silence, no zeros in undisturbed streams, streams complete, written bytes sent, arriving bytes handed over or announced, errors reported, the receiver back on |
| `frame_timing` | 3,321,907 | three frames in time, any byte of them damaged: no frame split, the ring unchanged while it is judged but by the interrupt of a damaged byte, frames far enough apart found singly and before the deadline |

With `MaxFrames = 3` the slave invariants hold as well (16.6 million states for
the eleven kinds of coil frames, 6.9 million for the others), and with four
frames the stale answers were checked with ids that go round several times;
these take longer than a run kept here should, and `NoStaleAnswer` is proved
for every range of ids.

`raw_mode` takes a chunk of 2 bytes for 60, an RX ring of 6 places (5 bytes:
streams of one, two and three chunks, wrap-around, overrun), a TX ring of 4 and
FIFOs of 3 and 2, so that every FIFO is shorter than its ring and a stream is
longer than a chunk. Each scenario of `MCScenarios` names the operations the host may use, how
often, and how many bytes come in: both readers with a change of the buffer,
reading with the frame readable callback, each with configuration calls, errors
of both kinds, writing against configuration and against reception in half and
full duplex. Scenarios keep operations apart that share no state.

`frame_timing` has a silence of 4 characters (above 19200 baud the code waits
longer, 1750 us), a main loop of 3 characters, a FIFO limit of 3 for 16, and
frames of 1, 2 and 6 bytes: shorter than the limit, and twice as long. Each byte
is damaged or not. The gaps are just above the silence (5: two frames may be
found as one, which the code cannot avoid), in between, and above `Deadline`.
`Deadline` is tight: with one character less TLC finds `JudgedInTime` violated.
With `JudgeTime` above the FIFO limit it finds `JudgedUndisturbed` violated, so
the assumption is needed; and it finds frames during whose checks a damaged byte
brings bytes of the next frame into the ring, so `disturbed` is needed, too.

The other six runs each end in a counterexample; see [Findings](#findings).

The Modbus runs use half duplex. In full duplex the model lets bytes arrive
while a response is stuck in the FIFO for as long as it likes; in the device the
FIFO drains while the next request comes in.
`RawMode` has a full duplex scenario.
`master_safety` holds in full duplex as well. The slave's
`NoCallbackDuringResponse` and `NoLeftoverTxDone` do not: with a FIFO that drains
as slowly as it likes the interrupt of a response may still be armed when the
next request is refused with an exception. See [Proofs](#proofs) for what is
proved of which.

Every property is checked to be worth its name: for each one the module holds a
mutant, an operator that changes one definition as a slip in the code might
(`PROJECT.json` names them), under which TLC finds the property violated.

## Fairness

`FairSpec` of the Modbus modules assumes, beside weak fairness of the main loop:

* `TxInterrupt`, `TffInterrupt`: interrupts are served and the FIFO is clocked
  out by hardware;
* `QuietBus`: a bus participant pauses after a frame. Lines need not finish
  frames and need not send at all;
* `TimeoutElapses`: the system timer runs;
* strong fairness of `InvokeCallback(TRUE)`: `communication_callback_tick` goes
  on where the last round ended and gives each callback its turn, and the link
  drains, so a handler that is due again and again finds its turn and the link
  free. Weak fairness would not do, since the handler is not enabled at the
  other positions of the main loop.

`RawMode` assumes weak fairness of the main loop, of the four interrupts and of
the debounce time, and strong fairness of each callback with a free link, for
the same reason. The error count handler has it twice, with a message kept and
with none: the handler keeps no turn, so a busy link that met only the one case
and a free link that met only the other would need an agreement of the link
with the handler's flag.

Nothing is assumed of the host, of the slaves or of the bus master. `frame_timing`
needs no fairness: its deadline is an invariant.

## Proofs

`tlapm` proves every invariant and every action property that the passing runs
check, and both refinements, for every value of the constants that satisfies the
assumptions: frames of any length and number, any range of ids, any size of ring
and FIFO, any number of packets, any timing. The inductive invariants were
checked with TLC on the runs' constants before they were proved. The theorems
differ in what they assume beside `RTUAssumption`, `SlaveAssumption`,
`NoiseAssumption` (a damaged byte is not a frame), `MasterAssumption`,
`RawAssumption` and `TimingAssumption`, which say that sizes are natural numbers,
that the ring is larger than a frame, that there are at least three ids and that
the bus carries the frames the model knows.

### Slave

| Theorem | States | Under |
| --- | --- | --- |
| `ModbusSlave_proofs!TypeCorrect` | `[]TypeOK` | - |
| `FramesEndWithSilence` | `[]FrameOnlyAfterSilence` | - |
| `NoAnswerToAnotherRequest` | `[]NoStaleAnswer` | - |
| `SlaveOrder_proofs!SlaveInOrder` | `[]SlaveInv` | half duplex |
| `ResponseToRequest` | `[]ResponseMatchesRequest` | half duplex |
| `OfferedOnce` | `[]OfferedOnceAndWhole` | half duplex |
| `ResponseNotRestarted` | `[]NoCallbackDuringResponse` | half duplex |
| `TxDoneBelongsToResponse` | `[]NoLeftoverTxDone` | half duplex |
| `SlaveListensAgain` | `[]NeverDeaf` | half duplex |
| `ResponseSentWhole` | `ResponseNotCutOff` | half duplex |
| `SlaveService_proofs!SlaveImplementsService` | `ImplementsSlaveService` | half duplex |

**`TypeCorrect`** is not inductive alone. Handlers read the frame at the start
of the RX ring, and the ticket a callback gives the host or the units of an
answer have their types only if there is a frame there: a ring could start with
`Noise` or be empty. `Typed == TypeOK /\ FrameHeld` adds that while a request is
in processing or a response is on the wire the ring starts with `FrameLen`
undamaged units of one frame. Bytes are only appended (`BusByteKeepsFrame`),
the ring is only re-initialised together with the request, and a response is
started only for a request in processing or a frame that was just checked.

**`FramesEndWithSilence`** rests on `Silenced`: the length the state machine
remembered is at most that of the ring. A byte that arrives makes the ring
longer than the remembered length, unless it is full, which the property
excepts; and the wire gets from "rx" to "idle" only in silence.

**`NoAnswerToAnotherRequest`** rests on `IdsAdvanced`: how often the id was
advanced since a ticket was taken determines what the id can be now.
`Advanced(id, k, now)` says that `now` lies on the walk from `id` that `k`
steps may take, each of which may or may not skip 0. `AdvanceOnce` shows that
both ways of advancing keep to it and `IdNotBack` that such a walk of fewer than
`IdMax` steps does not return to where it began. `AcceptedIsCurrent` is the
consequence the other proofs use.

**`SlaveInOrder`** proves the invariant `SlaveInv`. The handlers test neither
the wire nor the ring before they store a chunk or start a transmission; that
nothing is sent twice, cut off or mixed rests on facts about several parts at
once, and none is inductive without the others:

* `TransmissionInOrder`: in TX state the ring holds one whole answer or exception
  to the frame of the request; outside it the transmit path is at rest.
* `TicketsInOrder`: the host owes at most one answer to the current request, only
  after its callback is done, and the TX ring holds exactly the chunks before
  the next one. So an answer is started once, from a ring that has its head.
* `OfferInOrder`: the stream of packets and what the host was sent go together.
* `ExceptionBeforeCallbacks`: a handler that reports an exception for a request
  whose callback is still due (an invalid value in a broadcast, a bad read count)
  leaves `cb_invoke` set. The callback does not restart the response, since an
  exception has one unit, shorter than any FIFO: the pending interrupt takes all
  of it before the main loop goes on, and the next tick ends the request.
* `HalfDuplex`: nothing comes in before the last response has left the FIFO.

The last is where half duplex is needed. In full duplex the next request can
come in, be judged and be answered while the FIFO of the last response still
drains. The model has no measure of how slowly, and with a full FIFO the
interrupt of an exception arms the FIFO event instead of finishing at once. In
the device a request and its silence take at least 12 characters, so that a FIFO
of 32 has room for the 5 bytes of an exception.

**`SlaveImplementsService`** maps each operation to the step of `SlaveService`
it is (`TakeStep`, `OfferStep`, ... one lemma each) or to a stutter, under
`SlaveInv`.

### Master

| Theorem | States | Under |
| --- | --- | --- |
| `ModbusMaster_proofs!MasterInvariant` | `[]MasterInv` | - |
| `TypeCorrect` | `[]TypeOK` | - |
| `DueHasResponse` | `[]DueOnlyWithResponse` | - |
| `TxDoneBelongsToRequest` | `[]NoLeftoverTxDone` | - |
| `EachEndReportedOnce` | `CallbackEndsRequest` | - |
| `RequestSentWhole` | `RequestNotCutOff` | - |
| `TimeoutsCountedOnce` | `TimeoutCountedOnce` | C |
| `RepliesMatch` | `ReplyToThisRequest` | R |
| `MasterService_proofs!HostInvariant` | `[]WaitingInv` | C, H |
| `OnlyWholeFrames` | `[]WholeFrameSent` | C, H |
| `PacketsReachHost` | `PacketsInOrder` | C, H |
| `AnsweredInvariant` | `[]AnsweredInv` | C, H, R, L |
| `EndsAreReported` | `EndsWithCallback` | C, H, R, L |
| `MasterImplementsService` | `ImplementsMasterService` | C, H, R, L |
| `IdsDiffer` | `[]RequestIdUsable` | C, H, R, L, `IdMax >= 3` |

C: the configuration is left alone (`MaxConfigs = 0`). H: the host waits for the
end of a request before it begins another (`~Interleaved`). R: slaves reply
before the timeout or not at all (`~LateReplies`). L: no reply has another
length than asked for (`"wrong_count" \notin Replies`). Every theorem holds in
both duplex modes. Where a theorem needs one of these the run without it ends in
a counterexample, and most of those are findings: `master_unfinished_write` is
`OnlyWholeFrames` without H, `master_moved_buffer` an end without C,
`master_wrong_count` is `EndsAreReported` without L. C is needed by
`TimeoutsCountedOnce` because `modbus_init` sets the counters back. R cannot be done
without: the frames of Modbus RTU carry no id. With `IdMax = 2` a clear and an
accept that skips 0 bring back the id of the request before; the code has 255.

**`MasterInv`** holds for clients in any mixture, unfinished writes, late or
wrong replies and changes of the configuration at any time. Its parts say that
the wire in TX state and the TX interrupt go together (`TransmissionInOrder`:
"tx" exactly while `tx_done` is set or the interrupt is on, even if
`set_buffer_config` has replaced the ring), that the request is the one accepted
last, with nothing to report while it is sent (`RequestInOrder`), and that a
handler that is due finds the whole response of the slave that was asked at the
front of the ring (`DueWithFrame`). The last is what makes the types inductive:
a handler reads the frame there without another check.

**`RepliesMatch`** adds `HeadsAnswer`: the head of any frame in the ring is that
of a reply to the request that waits. A slave replies only to what it heard and
has not timed out, the ring is emptied with the request, and of a frame that is
still on the bus (`line`) only the tail can come after that.

**`WaitingInv`** adds what other clients could spoil: the TX ring holds the
accepted request or what was stored of the one that is being written
(`OneRequest`), and what was streamed is what the host has (`StreamInOrder`).
**`AnsweredInv`** adds `IdsFollow`: where the id of the next request stands
relative to the one reported last, before and after it is accepted, across the
skipped 0.

### Raw mode

| Theorem | States |
| --- | --- |
| `RawMode_proofs!RawModeInvariant` | `[]IInv` |
| `TypeCorrect` | `[]TypeOK` |
| `BytesAccounted` | `[]EveryByteAccounted` |
| `NothingInventedEver` | `[]NothingInvented` |
| `ReceiverComesBack` | `[]NeverDeaf` |
| `StreamsEndComplete` | `StreamsComplete` |

The ring is modelled with the positions and the modulus of the code. `LevelValue`,
`RingFilled` and `RingTaken` show once that its fill level is what was put in
less what was taken out, wherever it wraps; the rest of the proof counts.
`NothingInvented` needs `StreamReady`: an undisturbed stream, of the getter or
the callback, never has more to come than the ring holds. That is an invariant
because the two readers disturb each other's streams and nothing else takes
bytes out. `NeverDeaf` needs that an armed FIFO event always has a FIFO to
drain, and that the trigger at the end of a write finds bytes or has just been
overtaken by the interrupt.

### Timing

| Theorem | States |
| --- | --- |
| `FrameTiming_proofs!JudgedUndisturbedTheorem` | `[]JudgedUndisturbed` |
| `FrameNotSplitTheorem` | `[]FrameNotSplit` |
| `TypeCorrect` | `[]TypeOK` |
| `TimingInvariant` | `[]DInv` |
| `JudgedSingly` | `[]FramesJudgedSingly` |
| `FoundInTime` | `[]JudgedInTime` |

**`JudgedUndisturbedTheorem`** rests on `FifoKeepsUp`: the tick has emptied the
FIFO when the state machine looks at the ring, and while a frame is judged the
FIFO holds at most a byte for each character that has passed. Its limit is
therefore not exceeded before the judgement is over. What is left are the two
interrupts of a damaged byte: they come at once, so if one comes during the
judgement and finds anything to move, the byte came during the judgement, too
(`disturbed`). Even then the bytes that are judged stay where they are. Without
parity the theorem says that the ring does not change.

**`FrameNotSplitTheorem`** rests on `SInv`, which adds the history of the bytes:
with an empty FIFO the timer is not ahead of the pause on the bus (`TimerInv`),
no byte in the ring or the FIFO is of a frame that has not begun (`BegunInv`),
and with the wire idle a frame that is still arriving has made the ring longer
than it was at the last look (`GrownInv`). `SilenceEndsFrame` is the point of
it: when the silence is found, just after the FIFO was emptied, the bus has
paused for longer than a frame may.

**`JudgedSingly`** and **`FoundInTime`** rest on `FarInv`. Until a frame is found
(`Expected`) FIFO and ring together hold exactly what there is of it, and
`InTime` bounds the pause on the bus by what the Bricklet still has to do: less
than a turn while the byte waits in the FIFO, then the timer and a turn, and
after the silence one turn for each of the looks that are left
(`TurnsAfterSilence`: the wire goes idle, the ring is found longer, the wire goes
idle again, the ring is found unchanged). Afterwards (`Settled`) nothing is left
of it but a judgement or a request. The bounds add up to `Deadline`
(`DeadlineSum`), so the next frame meets an empty ring: a deadline without
fairness is an invariant, and holds for every silence, turn and judgement.

### What is not proved

Liveness is checked by TLC only, since fairness needs `ENABLED`, which the
provers at hand do not know: `ResponseEnds`, `RequestGetsOffered`, `BytesGetJudged`,
`RequestsEnd`, `AcceptedBytesSent`, `BytesReachHost`, `FramesAnnounced` and
`ErrorsReported`. The slave theorems beyond the first three are not proved for
full duplex, for the reason above. The findings are counterexamples and have no
proofs.

## Findings

Six statements of the code's own comments do not hold of it:

* `slave_superseded`: the bytes of a new request are not moved to the front of
  the RX ring (`modbus.c` 159-169). `modbus_clear_request` resets
  `request.length`, so the loop copies the old frame. A new frame as long as
  the old one makes the slave run the old request again.
* `slave_broadcast`: broadcasts with an invalid value, count or function code
  are answered with an exception (`communication.c` 2478, 2727, 2889;
  `modbus.c` 221).
* `master_wrong_count`: a response of another length than asked for ends the
  request without any callback (`communication.c` 2223).
* `master_broadcast_timeout`: a broadcast that timed out is reported as a
  success (`communication.c` 2532). The timeout has to elapse before the frame
  is out, which takes a short timeout at a low baud rate.
* `master_unfinished_write`: the chunks of a write that was not finished are
  sent in front of the next request (`communication.c` 1378).
* `master_moved_buffer`: after `set_buffer_config` during a request no response
  handler finds its function code in the erased frame, so the timeout flag is
  not observed; the request stays and every further call is refused until
  another configuration call (`communication.c` 703).

A response that passed all checks is reported as a timeout if its callback has
to wait for the link that long (`modbus.c` 240), an error count message that has
to wait is sent as zeros (`communication.c` 2040), the counts last reported are
never stored (`communication.c` 2036), and frames that come in after the rings
were erased are not announced until the host reads (`rs485.c` 221). The
repository does not say otherwise clearly enough for a finding; the models have
this behaviour.

The models keep this behaviour; the passing properties hold in its presence
(or, where stated, on requests that do not meet it).

## What is not modelled

* Chunk offsets and byte-count fields, hosts that go on after a refused chunk,
  changes of the configuration in slave mode and of the mode: see the plan.
* Counters that wrap: the error counters and `stream_sent` have widths no
  behaviour of the models comes near.
* The interrupt of a parity error in the middle of the checks of a frame, in
  `ModbusSlave` and `ModbusMaster`: `FrameTiming` has it and shows what it can do
  to the ring. What becomes of the request then, whose length counts a part of
  the next frame, is left out.
* Data: values of coils and registers, addresses in frames, the CRC.
* Getters, LEDs, the set-up of the UART, baud rates: no state that others read.
* bricklib2 (SPITFP, bootloader, ring buffer): not in the repository; modelled
  by its use, that is by whether a message can be sent, and as a ring.
* Security, flash, production tests, the hardware design files and firmware
  build files.
