-------------------------------- MODULE RawMode ------------------------------
(***************************************************************************)
(* The Bricklet in raw RS485 mode: a byte pipe between the bus and the     *)
(* host.  Bytes from the bus go through the receive FIFO of the USIC into  *)
(* the RX ring, which the RX interrupts and the tick fill and which the    *)
(* getter read_low_level or the read callback empties in streams of chunks.*)
(* Bytes of the host go through the TX ring and the transmit FIFO to the   *)
(* bus.  The frame readable callback announces a filled ring, the error    *)
(* count callback the lost and the damaged bytes.                          *)
(*                                                                         *)
(* Bytes are counted, not named; the rings keep the order of their bytes.  *)
(***************************************************************************)
EXTENDS Integers

CONSTANTS
  ChunkSize,    \* bytes of data in one packet: 60
  RxSize,       \* size of the RX ring: one place always stays free
  TxSize,       \* size of the TX ring: one place always stays free
  RxFifoSize,   \* places in the receive FIFO of the USIC: 32
  RxFifoLimit,  \* above this fill level it requests the RX interrupt: 16
  TxFifoSize,   \* places in the transmit FIFO of the USIC: 32
  Lengths,      \* lengths the host asks for
  FrameSizes,   \* sizes for which the host configures the frame callback
  Scenarios     \* what the host and the bus may do in a behaviour

Operations == {"write", "read", "read_callback", "frame_readable",
               "error_count", "buffer", "configuration"}

\* bytes: bound on the bytes from the bus; calls: bound on the host's calls.
ScenarioType == [ops: SUBSET Operations, calls: Nat, bytes: Nat,
                 damage: BOOLEAN, full_duplex: BOOLEAN]

ASSUME RawAssumption ==
  /\ ChunkSize \in Nat \ {0}
  /\ RxSize \in Nat /\ RxSize >= 2
  /\ TxSize \in Nat /\ TxSize >= 2
  /\ RxFifoLimit \in Nat /\ RxFifoSize \in Nat /\ RxFifoLimit < RxFifoSize
  /\ TxFifoSize \in Nat /\ TxFifoSize >= 2
  /\ Lengths \subseteq Nat /\ FrameSizes \subseteq Nat
  /\ Scenarios \subseteq ScenarioType

VARIABLES
  pc,         \* "tick", "callbacks", "messages"; in the middle of a message
              \* "adding" (write_low_level) or "stopping" (the UART)
  rx_fifo,    \* bytes in the receive FIFO
  rxa,        \* the interrupt for a parity error is pending
  ring,       \* ringbuffer_rx: start and end
  errors,     \* error_count_overrun and error_count_parity
  read,       \* rs485_read_stream_chunking: in_progress, sent, total
  read_cb,    \* rs485_read_cb_stream_chunking: the same
  read_callback_enabled,
  frame,      \* the frame readable callback: size, already_sent, buffered
  error_cb,   \* the error count callback: enabled, buffered, elapsed, last
  tx,         \* bytes in the TX ring
  txirq,      \* the TX interrupt: "off", "pending", or "armed" (FIFO event)
  tx_fifo,    \* bytes in the transmit FIFO and shift register
  direction,  \* transceiver in half duplex: "rx" or "tx"
  adding,     \* bytes write_low_level has yet to add, and has added
  plan,       \* what is left of the scenario of this behaviour
  left,       \* history: bytes of the bus that were handed to the host, or
              \* lost with an erased ring or FIFO or a receiver off
  came,       \* history: bytes that came from the bus
  handed,     \* history: the packet of a stream in this turn of the main loop
  told,       \* history: the fill level was announced since the last reset
              \* of already_sent
  missed,     \* history: the bytes announced were erased instead of read
  reported    \* history: the counts of a callback in this turn

rx_vars == <<rx_fifo, rxa, ring, errors>>
stream_vars == <<read, read_cb, handed>>
frame_vars == <<frame, told, missed>>
error_vars == <<error_cb, reported>>
tx_vars == <<tx, txirq, tx_fifo, direction, adding>>
bus_vars == <<left, came>>
vars == <<pc, plan, rx_vars, stream_vars, read_callback_enabled, frame_vars,
          error_vars, tx_vars, bus_vars>>

Least(m, n) == IF m < n THEN m ELSE n

------------------------------------------------------------------------------
(* The RX ring and the ways into it.                                       *)

\* ringbuffer_get_used
Used == (ring.end - ring.start + RxSize) % RxSize

\* Mutant of Room: the ring is filled up until its end meets its start.
RoomToTheBrim == RxSize - Used

\* new_end must not meet the start.
Room == RxSize - 1 - Used

\* The loop of rs485_rx_irq_handler, and of rs485_tick with the RX interrupts
\* disabled: it empties the FIFO, throwing away and counting what finds no room.
\* parity is 1 in the handler of a parity error.
DrainRxFifo(parity) ==
  LET stored == Least(rx_fifo, Room)
  IN /\ ring' = [ring EXCEPT !.end = (@ + stored) % RxSize]
     /\ errors' = [overrun |-> errors.overrun + rx_fifo - stored,
                   parity |-> errors.parity + parity]
     /\ rx_fifo' = 0

\* NVIC: triggered interrupts run before the main loop goes on.
MainMayRun == txirq # "pending"

Tick ==
  /\ pc = "tick" /\ MainMayRun
  /\ pc' = "callbacks"
  /\ DrainRxFifo(0)
  /\ UNCHANGED <<plan, rxa, stream_vars, read_callback_enabled, frame_vars,
                 error_vars, tx_vars, bus_vars>>

\* The UART's receive events are off while it is stopped.
rs485_rx_irq_handler ==
  /\ rx_fifo > RxFifoLimit /\ pc # "stopping"
  /\ DrainRxFifo(0)
  /\ UNCHANGED <<pc, plan, rxa, stream_vars, read_callback_enabled,
                 frame_vars, error_vars, tx_vars, bus_vars>>

\* Two errors before the interrupt is served are counted as one.
rs485_rxa_irq_handler ==
  /\ rxa /\ pc # "stopping"
  /\ rxa' = FALSE
  /\ DrainRxFifo(1)
  /\ UNCHANGED <<pc, plan, stream_vars, read_callback_enabled, frame_vars,
                 error_vars, tx_vars, bus_vars>>

CanReceive == plan.full_duplex \/ direction = "rx"

\* A byte from the bus reaches the FIFO, perhaps with a parity error.  The
\* interrupts keep the FIFO from filling up except while the UART is stopped;
\* then, or with the receiver off, the byte is lost.
BusByte ==
  /\ plan.bytes > 0
  /\ plan' = [plan EXCEPT !.bytes = @ - 1]
  /\ came' = came + 1
  /\ IF CanReceive /\ rx_fifo < RxFifoSize
     THEN /\ rx_fifo' = rx_fifo + 1
          /\ \/ UNCHANGED rxa
             \/ plan.damage /\ rxa' = TRUE
          /\ UNCHANGED left
     ELSE /\ ~CanReceive \/ pc = "stopping"
          /\ left' = left + 1
          /\ UNCHANGED <<rx_fifo, rxa>>
  /\ UNCHANGED <<pc, ring, errors, stream_vars, read_callback_enabled,
                 frame_vars, error_vars, tx_vars>>

------------------------------------------------------------------------------
(* The two readers of the RX ring.                                         *)

NoStream == [in_progress |-> FALSE, sent |-> 0, total |-> 0, whole |-> TRUE]

\* A stream of another reader, or an erased ring, takes bytes away from s.
\* whole is history: the code does not notice.
Spoilt(s) == IF s.in_progress THEN [s EXCEPT !.whole = FALSE] ELSE s

\* Mutant of Unannounced: reading does not take the flag back.
StillAnnounced == UNCHANGED frame /\ told' = FALSE /\ missed' = FALSE

\* already_sent is reset, and with it what the host was told.
Unannounced ==
  /\ frame' = [frame EXCEPT !.already_sent = FALSE]
  /\ told' = FALSE /\ missed' = FALSE

\* Mutant of NewTotal: the length asked for is not cut to what is there.
NewTotalUncut(wanted) == wanted

\* The length of a new stream: what is there of what was asked for.
NewTotal(wanted) == Least(wanted, Used)

\* The stream a packet belongs to: the one in progress, or a new one.
StreamFor(s, wanted) ==
  IF s.in_progress THEN s
  ELSE [in_progress |-> TRUE, sent |-> 0, total |-> NewTotal(wanted),
        whole |-> TRUE]

\* Mutant of StreamAfter: less than a chunk to go is taken for the end.
StreamAfterEarly(s, n) ==
  IF s.total - s.sent - n < ChunkSize THEN NoStream ELSE [s EXCEPT !.sent = @ + n]

\* The stream after n of its bytes have been put into a packet.
StreamAfter(s, n) ==
  IF s.sent + n = s.total THEN NoStream ELSE [s EXCEPT !.sent = @ + n]

NoPacket == [reader |-> "none", offset |-> 0, total |-> 0, data |-> 0,
             zeros |-> 0, whole |-> TRUE]

\* The next packet of stream s.  ringbuffer_get fails for bytes that are not
\* there; their places in the packet stay 0.
TakeChunk(reader, s) ==
  LET n == Least(ChunkSize, s.total - s.sent)
      taken == Least(n, Used)
  IN /\ ring' = [ring EXCEPT !.start = (@ + taken) % RxSize]
     /\ left' = left + taken
     /\ handed' = [reader |-> reader, offset |-> s.sent, total |-> s.total,
                   data |-> taken, zeros |-> n - taken, whole |-> s.whole]
     /\ IF reader = "getter"
        THEN /\ read' = StreamAfter(s, n)
             /\ read_cb' = IF taken > 0 THEN Spoilt(read_cb) ELSE read_cb
        ELSE /\ read_cb' = StreamAfter(s, n)
             /\ read' = IF taken > 0 THEN Spoilt(read) ELSE read
     /\ IF s.sent + n = s.total \/ (reader = "callback" /\ s.sent = 0)
        THEN Unannounced
        ELSE UNCHANGED frame_vars

\* Only when the read callback is disabled.  With an empty ring the stream in
\* progress is given up.
read_low_level(length) ==
  /\ IF read_callback_enabled
     THEN UNCHANGED <<ring, stream_vars, frame_vars, left>>
     ELSE IF Used = 0
     THEN /\ read' = NoStream
          /\ Unannounced
          /\ UNCHANGED <<ring, read_cb, handed, left>>
     ELSE TakeChunk("getter", StreamFor(read, length))
  /\ UNCHANGED <<read_callback_enabled, error_cb>>

\* Mutant of ReadCallbackDue: it waits until there is data for a whole chunk.
ReadCallbackDueFull ==
  read_callback_enabled /\ (Used >= ChunkSize \/ read_cb.in_progress)

ReadCallbackDue ==
  read_callback_enabled /\ (Used > 0 \/ read_cb.in_progress)

\* sendable says whether bootloader_spitfp_is_send_possible.
handle_read_low_level_callback(sendable) ==
  /\ ReadCallbackDue /\ sendable
  /\ TakeChunk("callback", StreamFor(read_cb, Used))
  /\ UNCHANGED error_vars

enable_read_callback ==
  /\ read_callback_enabled' = TRUE
  /\ frame' = [frame EXCEPT !.size = 0]
  /\ UNCHANGED <<ring, stream_vars, told, missed, error_cb, left>>

disable_read_callback ==
  /\ read_callback_enabled' = FALSE
  /\ UNCHANGED <<ring, stream_vars, frame_vars, error_cb, left>>

------------------------------------------------------------------------------
(* The frame readable callback.                                            *)

set_frame_readable_callback_configuration(size) ==
  /\ read_callback_enabled' = (read_callback_enabled /\ size = 0)
  /\ frame' = [frame EXCEPT !.size = size, !.already_sent = FALSE]
  /\ told' = FALSE /\ missed' = FALSE
  /\ UNCHANGED <<ring, stream_vars, error_cb, left>>

FrameReadable == frame.size # 0 /\ ~frame.already_sent /\ Used >= frame.size

\* Sent, or kept in its buffer until it can be.
handle_frame_readable_callback(sendable) ==
  /\ frame.buffered \/ FrameReadable
  /\ frame' = [frame EXCEPT !.already_sent = IF frame.buffered THEN @ ELSE TRUE,
                            !.buffered = ~sendable]
  /\ told' = (told \/ sendable)
  /\ UNCHANGED <<ring, stream_vars, missed, error_vars, left>>

------------------------------------------------------------------------------
(* The error count callback.                                               *)

NoErrors == [overrun |-> 0, parity |-> 0]

enable_error_count_callback ==
  /\ error_cb' = [error_cb EXCEPT !.enabled = TRUE]
  /\ UNCHANGED <<ring, stream_vars, read_callback_enabled, frame_vars, left>>

disable_error_count_callback ==
  /\ error_cb' = [error_cb EXCEPT !.enabled = FALSE]
  /\ UNCHANGED <<ring, stream_vars, read_callback_enabled, frame_vars, left>>

\* Mutant of LastAfter: the counts are noted when the message is prepared.
LastAfterPreparing == errors

\* last_error_count_* after a message: no assignment ever changes them.
LastAfter == error_cb.last

\* The message is prepared when the debounce time is over and the counts are
\* not the last ones.  A message that had to wait has been wiped by the memset
\* at the start of the next call and goes out with zeros.
handle_error_count_callback(sendable) ==
  /\ error_cb.enabled
  /\ error_cb.buffered \/ (error_cb.elapsed /\ errors # error_cb.last)
  /\ error_cb' = [error_cb EXCEPT
                    !.buffered = ~sendable,
                    !.elapsed = error_cb.buffered /\ @,
                    !.last = IF error_cb.buffered THEN @ ELSE LastAfter]
  /\ reported' = IF ~sendable THEN reported
                 ELSE IF error_cb.buffered THEN NoErrors ELSE errors
  /\ UNCHANGED <<ring, stream_vars, frame_vars, left>>

\* CALLBACK_ERROR_COUNT_DEBOUNCE_MS have passed since the last message.
DebounceElapses ==
  /\ ~error_cb.elapsed
  /\ error_cb' = [error_cb EXCEPT !.elapsed = TRUE]
  /\ UNCHANGED <<pc, plan, rx_vars, stream_vars, read_callback_enabled,
                 frame_vars, reported, tx_vars, bus_vars>>

------------------------------------------------------------------------------
(* A round of callbacks.                                                   *)

Callback(handler) ==
  /\ pc = "callbacks" /\ MainMayRun
  /\ pc' = "messages"
  /\ handler
  /\ UNCHANGED <<plan, rx_fifo, rxa, errors, read_callback_enabled, tx_vars,
                 came>>

ReadCallback(sendable) == Callback(handle_read_low_level_callback(sendable))
FrameCallback(sendable) == Callback(handle_frame_readable_callback(sendable))
ErrorCallback(sendable) == Callback(handle_error_count_callback(sendable))

\* None is due, or the one that is finds the link busy and keeps nothing.
SkipCallbacks ==
  Callback(UNCHANGED <<ring, stream_vars, frame_vars, error_vars, left>>)

------------------------------------------------------------------------------
(* Writing.                                                                *)

\* The handler begins to add n bytes; the TX interrupt may come in between.
BeginWrite(n) ==
  /\ pc' = "adding"
  /\ adding' = [left |-> n, added |-> 0]

\* Mutant of TxRoom: the ring is filled up until its end meets its start.
TxRoomToTheBrim == tx < TxSize

\* ringbuffer_add finds room.
TxRoom == tx < TxSize - 1

\* ringbuffer_add, until the ring is full.
AddByte ==
  /\ pc = "adding" /\ MainMayRun
  /\ adding.left > 0
  /\ IF TxRoom
     THEN /\ tx' = tx + 1
          /\ adding' = [left |-> adding.left - 1, added |-> adding.added + 1]
     ELSE adding' = [adding EXCEPT !.left = 0] /\ UNCHANGED tx
  /\ UNCHANGED <<pc, plan, rx_vars, stream_vars, read_callback_enabled,
                 frame_vars, error_vars, txirq, tx_fifo, direction, bus_vars>>

\* Mutant of TriggerAfter: while bytes still go out, no trigger is needed.
TriggerIfIdle ==
  IF adding.added # 0 /\ tx_fifo = 0 THEN "pending" ELSE txirq

\* The event is enabled and the interrupt triggered if anything was written.
TriggerAfter == IF adding.added # 0 THEN "pending" ELSE txirq

EndWrite ==
  /\ pc = "adding" /\ MainMayRun
  /\ adding.left = 0
  /\ txirq' = TriggerAfter
  /\ adding' = [left |-> 0, added |-> 0]
  /\ pc' = "messages"
  /\ UNCHANGED <<plan, rx_vars, stream_vars, read_callback_enabled,
                 frame_vars, error_vars, tx, tx_fifo, direction, bus_vars>>

Loaded == Least(tx, TxFifoSize - tx_fifo)

\* The handler fills the FIFO from the ring.  Only if it finds the ring empty
\* does it disable its event.
rs485_tx_irq_handler ==
  /\ txirq \in {"pending", "armed"}
  /\ txirq = "armed" => tx_fifo < TxFifoSize
  /\ tx' = tx - Loaded
  /\ tx_fifo' = tx_fifo + Loaded
  /\ txirq' = IF tx_fifo + Loaded < TxFifoSize THEN "off" ELSE "armed"
  /\ direction' = "tx"
  /\ UNCHANGED <<pc, plan, rx_vars, stream_vars, read_callback_enabled,
                 frame_vars, error_vars, adding, bus_vars>>

\* The interrupt, armed by an earlier write, has already taken all that was
\* added.  Between the last ringbuffer_add and the triggered interrupt lie a
\* few instructions, too few for the FIFO it has just filled to run dry.
OvertakenTrigger ==
  /\ tx = 0
  /\ \/ pc = "adding" /\ adding.left = 0 /\ adding.added > 0
     \/ txirq = "pending"

\* Mutant of DirectionAfterByte: the receiver waits for the ring, too.
DirectionAfterRing ==
  IF tx_fifo = 1 /\ tx = 0 /\ pc # "stopping" THEN "rx" ELSE direction

\* FRAME_FINISHED and not TRANSFER_STATUS_BUSY, with the event on.
DirectionAfterByte ==
  IF tx_fifo = 1 /\ pc # "stopping" THEN "rx" ELSE direction

\* The shift register finishes a byte; after the last one the TFF interrupt
\* turns the receiver back on, unless its event is off.  The FIFO event is
\* served before the FIFO has run dry.
rs485_tff_irq_handler ==
  /\ tx_fifo > 0
  /\ txirq = "armed" \/ OvertakenTrigger => tx_fifo > 1
  /\ tx_fifo' = tx_fifo - 1
  /\ direction' = DirectionAfterByte
  /\ UNCHANGED <<pc, plan, rx_vars, stream_vars, read_callback_enabled,
                 frame_vars, error_vars, tx, txirq, adding, bus_vars>>

------------------------------------------------------------------------------
(* Changes of the configuration.                                           *)

\* Both rings are emptied; streams and callbacks are not told.
rs485_init_buffer ==
  /\ ring' = [start |-> 0, end |-> 0]
  /\ tx' = 0
  /\ read' = Spoilt(read) /\ read_cb' = Spoilt(read_cb)
  /\ told' = FALSE
  /\ missed' = (missed \/ (frame.already_sent /\ ~frame.buffered))
  /\ UNCHANGED <<frame, handed>>

set_buffer_config ==
  /\ rs485_init_buffer
  /\ left' = left + Used
  /\ UNCHANGED <<pc, txirq, tx_fifo, direction, adding>>

\* rs485_apply_configuration turns the receive events and TFF off and waits
\* until everything has been sent.
BeginApply ==
  /\ pc' = "stopping"
  /\ UNCHANGED <<ring, stream_vars, frame_vars, tx_vars, left>>

set_rs485_configuration == BeginApply
set_mode == BeginApply

\* Then it initialises rings and hardware.  The receive FIFO is configured
\* anew; whether that empties it is up to the hardware.
rs485_apply_configuration ==
  /\ pc = "stopping" /\ txirq = "off" /\ tx_fifo = 0
  /\ pc' = "messages"
  /\ rs485_init_buffer
  /\ \E kept \in {0, rx_fifo} :
       /\ rx_fifo' = kept
       /\ left' = left + Used + rx_fifo - kept
  /\ direction' = "rx"
  /\ rxa' \in {rxa, FALSE}
  /\ UNCHANGED <<plan, errors, read_callback_enabled, error_vars, txirq,
                 tx_fifo, adding, came>>

------------------------------------------------------------------------------
(* The host's calls.                                                       *)

\* The host makes one of its calls, as the scenario allows.
HostCalls(op) ==
  /\ pc = "messages" /\ MainMayRun
  /\ op \in plan.ops /\ plan.calls > 0
  /\ plan' = [plan EXCEPT !.calls = @ - 1]
  /\ UNCHANGED <<rx_fifo, rxa, errors, reported, came>>

HostReads ==
  /\ \/ /\ HostCalls("read")
        /\ \E length \in Lengths : read_low_level(length)
     \/ /\ HostCalls("read_callback")
        /\ enable_read_callback \/ disable_read_callback
     \/ /\ HostCalls("frame_readable")
        /\ \E size \in FrameSizes :
             set_frame_readable_callback_configuration(size)
     \/ /\ HostCalls("error_count")
        /\ enable_error_count_callback \/ disable_error_count_callback
  /\ UNCHANGED <<pc, tx_vars>>

write_low_level ==
  /\ HostCalls("write")
  /\ \E n \in 1..ChunkSize : BeginWrite(n)
  /\ UNCHANGED <<ring, stream_vars, read_callback_enabled, frame_vars,
                 error_cb, tx, txirq, tx_fifo, direction, left>>

HostConfigures ==
  /\ \/ HostCalls("buffer") /\ set_buffer_config
     \/ HostCalls("configuration") /\ (set_rs485_configuration \/ set_mode)
  /\ UNCHANGED <<read_callback_enabled, error_cb>>

EndOfLoop ==
  /\ pc = "messages" /\ MainMayRun
  /\ pc' = "tick"
  /\ handed' = NoPacket /\ reported' = NoErrors
  /\ UNCHANGED <<plan, rx_vars, read, read_cb, read_callback_enabled,
                 frame_vars, error_cb, tx_vars, bus_vars>>

------------------------------------------------------------------------------
\* The state rs485_init leaves.
Init ==
  /\ pc = "tick"
  /\ plan \in Scenarios
  /\ rx_fifo = 0 /\ rxa = FALSE
  /\ ring = [start |-> 0, end |-> 0]
  /\ errors = NoErrors
  /\ read = NoStream /\ read_cb = NoStream
  /\ read_callback_enabled = FALSE
  /\ frame = [size |-> 0, already_sent |-> FALSE, buffered |-> FALSE]
  /\ error_cb = [enabled |-> FALSE, buffered |-> FALSE, elapsed |-> FALSE,
                 last |-> NoErrors]
  /\ tx = 0 /\ txirq = "off" /\ tx_fifo = 0 /\ direction = "rx"
  /\ adding = [left |-> 0, added |-> 0]
  /\ left = 0 /\ came = 0
  /\ handed = NoPacket
  /\ told = FALSE /\ missed = FALSE
  /\ reported = NoErrors

MainLoop ==
  \/ Tick
  \/ \E sendable \in BOOLEAN :
       ReadCallback(sendable) \/ FrameCallback(sendable) \/ ErrorCallback(sendable)
  \/ SkipCallbacks
  \/ HostReads \/ write_low_level \/ AddByte \/ EndWrite
  \/ HostConfigures \/ rs485_apply_configuration
  \/ EndOfLoop

Interrupts ==
  \/ rs485_rx_irq_handler \/ rs485_rxa_irq_handler
  \/ rs485_tx_irq_handler \/ rs485_tff_irq_handler

Next == MainLoop \/ Interrupts \/ BusByte \/ DebounceElapses

Spec == Init /\ [][Next]_vars

\* The main loop never stops, the interrupts are served, the FIFO is clocked
\* out and time passes.  Each round of callbacks starts where the last one
\* ended and the SPITFP queue drains, so a handler that is due again and again
\* finds its turn and the link free, the error count handler with a message
\* kept as well as with none.
Fairness ==
  /\ WF_vars(MainLoop) /\ WF_vars(DebounceElapses)
  /\ WF_vars(rs485_rx_irq_handler) /\ WF_vars(rs485_rxa_irq_handler)
  /\ WF_vars(rs485_tx_irq_handler) /\ WF_vars(rs485_tff_irq_handler)
  /\ SF_vars(ReadCallback(TRUE)) /\ SF_vars(FrameCallback(TRUE))
  /\ SF_vars(error_cb.buffered /\ ErrorCallback(TRUE))
  /\ SF_vars(~error_cb.buffered /\ ErrorCallback(TRUE))

FairSpec == Spec /\ Fairness

------------------------------------------------------------------------------
(* Properties.                                                             *)

Counts == [overrun: Nat, parity: Nat]
StreamType == [in_progress: BOOLEAN, sent: Nat, total: Nat, whole: BOOLEAN]

\* Every variable has its type.
TypeOK ==
  /\ pc \in {"tick", "callbacks", "messages", "adding", "stopping"}
  /\ plan \in ScenarioType
  /\ rx_fifo \in 0..RxFifoSize /\ rxa \in BOOLEAN
  /\ ring \in [start: 0..(RxSize - 1), end: 0..(RxSize - 1)]
  /\ errors \in Counts
  /\ read \in StreamType /\ read_cb \in StreamType
  /\ read_callback_enabled \in BOOLEAN
  /\ frame \in [size: Nat, already_sent: BOOLEAN, buffered: BOOLEAN]
  /\ error_cb \in [enabled: BOOLEAN, buffered: BOOLEAN, elapsed: BOOLEAN,
                   last: Counts]
  /\ tx \in 0..(TxSize - 1) /\ tx_fifo \in 0..TxFifoSize
  /\ txirq \in {"off", "pending", "armed"} /\ direction \in {"rx", "tx"}
  /\ adding \in [left: 0..ChunkSize, added: 0..ChunkSize]
  /\ left \in Nat /\ came \in Nat
  /\ handed \in [reader: {"none", "getter", "callback"}, offset: Nat,
                 total: Nat, data: Nat, zeros: Nat, whole: BOOLEAN]
  /\ told \in BOOLEAN /\ missed \in BOOLEAN /\ reported \in Counts

\* A byte from the bus is on its way to the host, has left, or is counted as
\* an overrun: nothing is lost in silence and nothing counted twice, whether
\* the tick or an interrupt moves it and wherever the ring wraps.
EveryByteAccounted ==
  came = left + Used + rx_fifo + errors.overrun

\* The host gets no zeros in the place of bytes that were not there, unless
\* the ring was erased, or read by the other reader, during the stream.
NothingInvented == handed.whole => handed.zeros = 0

\* The packet handed over in this step completes its stream.
StreamCompleted ==
  handed'.offset + handed'.data = handed'.total /\ handed'.zeros = 0

\* A stream of chunks that nobody disturbs ends with the packet that completes
\* the length its first packet stated; it is not given up before.
StreamsComplete ==
  [][ /\ read.in_progress /\ read.whole /\ ~read'.in_progress
           => StreamCompleted
      /\ read_cb.in_progress /\ read_cb.whole /\ ~read_cb'.in_progress
           => StreamCompleted ]_vars

\* The receiver is off only while bytes go out or wait to go out.
NeverDeaf ==
  direction = "tx" => tx_fifo > 0 \/ txirq = "pending" \/ pc = "stopping"

\* Bytes that were accepted for writing leave the ring, although the interrupt
\* may empty the ring and turn itself off while the handler still adds some.
AcceptedBytesSent == tx > 0 ~> tx = 0

\* With the read callback enabled, whatever arrives is handed over, also a
\* last piece that fills no chunk.
BytesReachHost ==
  read_callback_enabled /\ Used > 0 ~> Used = 0 \/ ~read_callback_enabled

\* No wake-up is lost: when the ring holds a frame, the host is told, however
\* reading, arriving and the announcement interleave.  The exception is a
\* ring erased after its contents were announced: until the host reads, new
\* contents are not announced.
FramesAnnounced ==
  frame.size # 0 /\ Used >= frame.size
    ~> told \/ missed \/ frame.size = 0 \/ Used < frame.size

\* While the error count callback is enabled, errors are reported to the host
\* with their counts, although a message that had to wait is sent wiped.
ErrorsReported ==
  /\ error_cb.enabled /\ errors.overrun > 0
       ~> reported.overrun > 0 \/ ~error_cb.enabled
  /\ error_cb.enabled /\ errors.parity > 0
       ~> reported.parity > 0 \/ ~error_cb.enabled

==============================================================================
