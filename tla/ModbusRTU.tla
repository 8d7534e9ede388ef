------------------------------ MODULE ModbusRTU ------------------------------
(***************************************************************************)
(* The Modbus RTU engine that slave and master mode share: the helpers of  *)
(* modbus.c, the transmit path from the TX ring through the hardware FIFO  *)
(* to the wire, the receive path into the RX ring, and the 4-character     *)
(* silence that delimits frames.  It has no Next of its own; ModbusSlave   *)
(* and ModbusMaster extend it with the actions of their mode.              *)
(*                                                                         *)
(* A byte on the wire is a record [frame, part]: the part-th unit of a     *)
(* frame.  Every frame received from the bus has FrameLen units.  A byte   *)
(* that was damaged is Noise.  The checksum is taken to be free of         *)
(* collisions: it is good exactly for one whole, undamaged frame.          *)
(***************************************************************************)
EXTENDS Integers, Sequences

CONSTANTS
  IdMax,         \* largest request id: 255 in the code (uint8_t)
  FrameLen,      \* units of a frame received from the bus
  FrameSizeMax,  \* RS485_MODBUS_RTU_FRAME_SIZE_MAX: 256 bytes
  RxSize,        \* size of the RX ring: one place always stays free
  FifoSize,      \* places in the transmit FIFO of the USIC: 32
  FullDuplex,    \* DUPLEX_FULL: the receiver stays on while transmitting
  Noise          \* a damaged byte

ASSUME RTUAssumption ==
  /\ IdMax \in Nat /\ IdMax >= 2
  /\ FrameLen \in Nat /\ FrameLen >= 2
  /\ FrameSizeMax \in Nat /\ FrameSizeMax >= FrameLen
  /\ RxSize \in Nat /\ RxSize > FrameSizeMax + 1
  /\ FifoSize \in Nat /\ FifoSize >= 2
  /\ FullDuplex \in BOOLEAN

VARIABLES
  pc,        \* position of the main loop: "tick", "callbacks" or "messages"
  wire,      \* modbus_rtu.state_wire
  tx_done,   \* modbus_rtu.tx_done, set by the TX interrupt
  rx_rb_last_length, \* modbus_rtu.rx_rb_last_length
  request,   \* modbus_rtu.request: id, state, length, cb_invoke, timed_out
  chunk,     \* modbus_stream_chunking: in_progress, current, total
  counters,  \* modbus_common_error_counters and error_count_overrun
  rx,        \* contents of the RX ring since it was last re-initialised
  tx,        \* bytes added to the TX ring since it was last re-initialised
  tx_start,  \* how many of them the TX interrupt has taken out
  txirq,     \* the TX interrupt: "off", "pending", or "armed" (FIFO event)
  fifo,      \* bytes in the transmit FIFO and shift register
  direction, \* transceiver in half duplex: "rx" or "tx"
  quiet,     \* 4 characters have passed since the last TIMER_RESET
  line,      \* what the talker on the bus has yet to send of its frame
  epoch      \* history: how often request.id was advanced

rtu_vars == <<pc, wire, tx_done, rx_rb_last_length, request, chunk, counters,
              rx, tx, tx_start, txirq, fifo, direction, quiet, line, epoch>>

txpath == <<tx_done, tx, tx_start, txirq, fifo, direction>>

CounterNames == {"timeout", "checksum", "frame_too_big", "illegal_function",
                 "illegal_data_address", "illegal_data_value",
                 "slave_device_failure", "overrun"}

WireStates == {"idle", "rx", "tx"}
RequestStates == {"ready", "slave_processing", "master_waiting"}

------------------------------------------------------------------------------
(* Frames on the bus.                                                      *)

FrameBytes(f) == [i \in 1..FrameLen |-> [frame |-> f, part |-> i]]

\* The frame whose first byte is at the start of the RX buffer: rx_frame.
rx_frame == rx[1].frame

modbus_check_frame_checksum(r) ==
  /\ Len(r) = FrameLen
  /\ \A i \in 1..Len(r) : r[i] # Noise
  /\ \A i \in 1..Len(r) : r[i].frame = r[1].frame /\ r[i].part = i

------------------------------------------------------------------------------
(* The request.                                                            *)

ReadyRequest(id) ==
  [id |-> id, state |-> "ready", length |-> 0,
   cb_invoke |-> FALSE, timed_out |-> FALSE]

NoChunking == [in_progress |-> FALSE, current |-> 0, total |-> 0]

\* request.id++ on a uint8_t.
IncrementId(id) == (id + 1) % (IdMax + 1)

\* Mutant of NextRequestId: the wrap at 255 is forgotten.
NextRequestIdNoWrap(id) == id + 1

\* Mutant of NextRequestId: 0 is not skipped.
NextRequestIdZero(id) == (id + 1) % (IdMax + 1)

\* The id a new request gets.  0 is kept for "no request".
NextRequestId(id) == IF id = IdMax THEN 1 ELSE id + 1

modbus_init ==
  /\ wire = "idle"
  /\ tx_done = FALSE
  /\ rx_rb_last_length = 0
  /\ request = ReadyRequest(1)
  /\ chunk = NoChunking
  /\ counters = [c \in CounterNames |-> 0]

\* Mutant of ClearRequestTo: the RX ring is not re-initialised.
ClearRequestKeepRx(w, r) ==
  /\ request' = ReadyRequest(IncrementId(request.id))
  /\ epoch' = epoch + 1
  /\ rx' = rx
  /\ tx' = <<>>
  /\ tx_start' = 0
  /\ chunk' = NoChunking
  /\ rx_rb_last_length' = 0
  /\ wire' = w

\* Clears the request; the wire goes to w and the RX ring is left with r in
\* it.  modbus_clear_request itself leaves "idle" and an empty ring.
ClearRequestTo(w, r) ==
  /\ request' = ReadyRequest(IncrementId(request.id))
  /\ epoch' = epoch + 1
  /\ rx' = r
  /\ tx' = <<>>
  /\ tx_start' = 0
  /\ chunk' = NoChunking
  /\ rx_rb_last_length' = 0
  /\ wire' = w

modbus_clear_request == ClearRequestTo("idle", <<>>)

modbus_init_new_request(state, length, invoke) ==
  /\ request' = [request EXCEPT !.id = NextRequestId(@),
                                !.state = state,
                                !.length = length,
                                !.cb_invoke = invoke]
  /\ epoch' = epoch + 1

Count(names) ==
  counters' = [c \in CounterNames |->
                 IF c \in names THEN counters[c] + 1 ELSE counters[c]]

------------------------------------------------------------------------------
(* Transmission.                                                           *)

\* Mutant of modbus_start_tx_from_buffer: the interrupt is not triggered.
StartTxWithoutTrigger ==
  /\ wire' = "tx"
  /\ UNCHANGED txirq

modbus_start_tx_from_buffer ==
  /\ wire' = "tx"
  /\ txirq' = "pending"

\* The bytes still in the TX ring, and how many of them fit into the FIFO.
TxUsed == Len(tx) - tx_start
Loaded == IF TxUsed < FifoSize - fifo THEN TxUsed ELSE FifoSize - fifo

\* Mutant of RingFoundEmpty: filling the FIFO is taken for the end.
FifoFilled == Loaded > 0

\* The handler runs out of bytes while the FIFO still has room.
RingFoundEmpty == fifo + Loaded < FifoSize

\* The handler fills the FIFO from the ring.  Only if it finds the ring empty
\* does it disable its event and report the end of the transmission.
rs485_tx_irq_handler ==
  /\ txirq \in {"pending", "armed"}
  /\ txirq = "armed" => fifo < FifoSize
  /\ tx_start' = tx_start + Loaded
  /\ fifo' = fifo + Loaded
  /\ IF RingFoundEmpty
     THEN txirq' = "off" /\ tx_done' = TRUE
     ELSE txirq' = "armed" /\ UNCHANGED tx_done
  /\ direction' = "tx"
  /\ UNCHANGED <<pc, wire, rx_rb_last_length, request, chunk, counters, rx,
                 tx, quiet, line, epoch>>

\* Mutant of DirectionAfterByte: the receiver is not turned back on.
DirectionKept == direction

\* FRAME_FINISHED and not TRANSFER_STATUS_BUSY: the last byte has gone out.
DirectionAfterByte == IF fifo = 1 THEN "rx" ELSE direction

\* The shift register finishes a byte.  After the last one the TFF interrupt
\* turns the receiver back on.  The FIFO event is served before the FIFO has
\* run dry, so an armed interrupt never finds it empty.
rs485_tff_irq_handler ==
  /\ fifo > 0
  /\ txirq = "armed" => fifo > 1
  /\ fifo' = fifo - 1
  /\ direction' = DirectionAfterByte
  /\ UNCHANGED <<pc, wire, tx_done, rx_rb_last_length, request, chunk,
                 counters, rx, tx, tx_start, txirq, quiet, line, epoch>>

\* NVIC: a triggered TX interrupt runs before the main loop goes on.
MainMayRun == txirq # "pending"

------------------------------------------------------------------------------
(* Reception.                                                              *)

CanReceive == FullDuplex \/ direction = "rx"

\* A byte reaches the receiver: it goes into the ring, or is thrown away
\* when the ring is full, and restarts the silence timer either way.
rs485_rx_irq_handler(b) ==
  /\ IF Len(rx) < RxSize - 1
     THEN rx' = Append(rx, b) /\ UNCHANGED counters
     ELSE Count({"overrun"}) /\ UNCHANGED rx
  /\ quiet' = FALSE

\* The talker's next byte arrives, is damaged, or is lost; it is also lost
\* when the receiver is off.
BusByte(bytes) ==
  /\ bytes # <<>>
  /\ line' = Tail(bytes)
  /\ \/ CanReceive /\ \E b \in {Head(bytes), Noise} : rs485_rx_irq_handler(b)
     \/ UNCHANGED <<rx, quiet, counters>>
  /\ UNCHANGED <<pc, wire, rx_rb_last_length, request, chunk, epoch, txpath>>

\* 4 characters pass without a byte (timer_us_elapsed_since_last_timer_reset).
Silence ==
  /\ ~quiet
  /\ quiet' = TRUE
  /\ UNCHANGED <<pc, wire, rx_rb_last_length, request, chunk, counters, rx,
                 line, epoch, txpath>>

------------------------------------------------------------------------------
(* The wire state machine where it is the same in both modes.              *)

\* Mutant of RxGap: the end of RX does not wait for the silence.
RxGapAtOnce ==
  /\ wire = "rx"
  /\ wire' = "idle"
  /\ UNCHANGED <<rx_rb_last_length, request, chunk, counters, rx, epoch,
                 txpath>>

\* RX ends with the silence that ends a frame.
RxGap ==
  /\ wire = "rx" /\ quiet
  /\ wire' = "idle"
  /\ UNCHANGED <<rx_rb_last_length, request, chunk, counters, rx, epoch,
                 txpath>>

\* New bytes have come in since the last look at the ring.
NewData(state) ==
  /\ wire = "idle"
  /\ request.state = state
  /\ Len(rx) > rx_rb_last_length

\* Mutant of StartRx: the length of the ring is not remembered.
StartRxForgetful ==
  /\ wire' = "rx"
  /\ UNCHANGED <<rx_rb_last_length, request, chunk, counters, rx, epoch,
                 txpath>>

StartRx ==
  /\ wire' = "rx"
  /\ rx_rb_last_length' = Len(rx)
  /\ UNCHANGED <<request, chunk, counters, rx, epoch, txpath>>

\* No byte has come in since the last look: the ring holds one frame.
FrameAvailable(state) ==
  /\ wire = "idle"
  /\ request.state = state
  /\ Len(rx) > 0
  /\ Len(rx) = rx_rb_last_length

------------------------------------------------------------------------------
(* The types of the shared variables, and their initial state after        *)
(* rs485_apply_configuration has called modbus_init.                       *)

RequestType ==
  [id: 0..IdMax, state: RequestStates, length: Nat,
   cb_invoke: BOOLEAN, timed_out: BOOLEAN]

ChunkType == [in_progress: BOOLEAN, current: Nat, total: Nat]

\* The state of the engine between main loop, interrupts and host.
EngineTypeOK ==
  /\ pc \in {"tick", "callbacks", "messages"}
  /\ wire \in WireStates
  /\ rx_rb_last_length \in Nat
  /\ request \in RequestType
  /\ chunk \in ChunkType
  /\ counters \in [CounterNames -> Nat]
  /\ epoch \in Nat

\* The transmit path, with a TX ring of units from U.
TxTypeOK(U) ==
  /\ tx_done \in BOOLEAN
  /\ tx \in Seq(U)
  /\ tx_start \in 0..Len(tx)
  /\ txirq \in {"off", "pending", "armed"}
  /\ fifo \in 0..FifoSize
  /\ direction \in {"rx", "tx"}

\* The receive path, with bytes from B.
RxTypeOK(B) ==
  /\ rx \in Seq(B)
  /\ quiet \in BOOLEAN
  /\ line \in Seq(B)

RTUInit ==
  /\ modbus_init
  /\ pc = "tick"
  /\ rx = <<>> /\ tx = <<>> /\ tx_start = 0
  /\ txirq = "off" /\ fifo = 0 /\ direction = "rx"
  /\ quiet = TRUE
  /\ line = <<>>
  /\ epoch = 0
==============================================================================
