----------------------------- MODULE ModbusMaster ----------------------------
(***************************************************************************)
(* The Bricklet in Modbus master mode.  A host call starts a request, its  *)
(* frame goes out on the bus, a slave answers or does not, and a callback  *)
(* tells the host how the request ended: with data, a confirmation, an     *)
(* exception of the slave, or a timeout.  A request that writes many coils *)
(* or registers arrives in several calls, a long response leaves in        *)
(* several callbacks.                                                      *)
(***************************************************************************)
EXTENDS ModbusRTU, FiniteSets

CONSTANTS
  Requests,     \* what the host asks for: [addr, fc, count]
  MaxRequests,  \* bound on how many requests the host begins and how often
                \* it changes the configuration, together
  Replies,      \* how slaves reply: a subset of ReplyKinds
  LateReplies,  \* a slave may also reply after the timeout of its request
  Interleaved,  \* several clients call without waiting for each other, and
                \* may leave a write in chunks unfinished
  MaxCount,     \* bound on an exception counter while the link is blocked
  MaxConfigs    \* bound on how many of these change the configuration

Reads == {"read_coils", "read_holding_registers",
          "read_discrete_inputs", "read_input_registers"}
SingleWrites == {"write_single_coil", "write_single_register"}
MultipleWrites == {"write_multiple_coils", "write_multiple_registers"}
FunctionCodes == Reads \cup SingleWrites \cup MultipleWrites

\* "normal", an exception, data whose length is not what was asked for, or a
\* frame that carries another function code or another slave's address.
ReplyKinds == {"normal", "exception", "wrong_count", "wrong_function", "foreign"}

\* count: how many packets the data take between host and Bricklet.
RequestKind == [addr: {"slave", "broadcast"}, fc: FunctionCodes, count: Nat \ {0}]

ASSUME MasterAssumption ==
  /\ Requests \subseteq RequestKind
  /\ \A r \in Requests : r.fc \in Reads => r.addr # "broadcast"
  /\ MaxRequests \in Nat
  /\ Replies \subseteq ReplyKinds
  /\ LateReplies \in BOOLEAN /\ Interleaved \in BOOLEAN
  /\ MaxCount \in Nat /\ MaxConfigs \in Nat

VARIABLES
  elapsed,    \* the request timeout has passed since the request was sent
  begun,      \* how many requests the host has begun
  streams,    \* writes the host is sending in chunks: [request, next]
  heard,      \* requests that reached their slave and have no reply yet
  moved,      \* the TX ring is not where request.tx_frame points any more
  configs,    \* how often the host has changed the configuration
  accepted,   \* history: the accepted request with the id the host was given
  delivered   \* history: the last callback to the host, and the number of
              \* callbacks that ended a request

host_vars == <<begun, streams, accepted, delivered>>
config_vars == <<moved, configs>>
master_vars == <<elapsed, heard, host_vars, config_vars>>
vars == <<rtu_vars, master_vars>>

------------------------------------------------------------------------------
(* Requests as they stand in the TX ring, and replies.                     *)

Unit(r, i) == [frame |-> r, part |-> i]

\* Stands for the request before the first.
NoRequest == [addr |-> "slave", fc |-> "read_coils", count |-> 1, serial |-> 0]

\* Packets of a request's own frame: only multiple writes carry long data.
RequestChunks(r) == IF r.fc \in MultipleWrites THEN r.count ELSE 1

\* The whole frame of a request: header, data, checksum.
RequestFrame(r) == [i \in 1..(RequestChunks(r) + 2) |-> Unit(r, i - 1)]

\* The k-th chunk of a request as the handler stores it.
RequestChunk(r, k) ==
  (IF k = 1 THEN <<Unit(r, 0)>> ELSE <<>>)
    \o <<Unit(r, k)>>
    \o (IF k = RequestChunks(r) THEN <<Unit(r, k + 1)>> ELSE <<>>)

\* Mutant of FrameAtFront: the pointer is taken to follow the ring.
SomeFrameAtFront == tx # <<>> /\ tx[1].part = 0

\* tx_frame points to the head of a frame.  It does not when the ring was
\* moved or erased, or when the first thing in it is the tail of a write.
FrameAtFront == ~moved /\ tx # <<>> /\ tx[1].part = 0

\* Bytes that are 0: address 0 and no function code.
ZeroFrame == [addr |-> "broadcast", fc |-> "none", count |-> 0, serial |-> 0]

\* The frame tx_frame points to.  Data that are taken for one are zeros.
tx_frame == IF FrameAtFront THEN tx[1].frame ELSE ZeroFrame

Broadcast == tx_frame.addr = "broadcast"

\* The requests that slaves have heard when the first n bytes in the TX ring
\* have been taken: what was sent is to be one whole frame and no broadcast.
HeardAfter(n) ==
  IF /\ tx # <<>> /\ tx = RequestFrame(tx[1].frame) /\ n = Len(tx)
     /\ tx[1].frame.addr # "broadcast"
  THEN heard \cup {tx[1].frame} ELSE heard

Reply(r, kind) ==
  [addr |-> IF kind = "foreign" THEN "other" ELSE r.addr,
   fc |-> IF kind = "wrong_function" THEN "unasked" ELSE r.fc,
   exception |-> kind = "exception",
   count |-> IF kind = "wrong_count" THEN r.count + 1 ELSE r.count,
   serial |-> r.serial]

\* Mutant of modbus_master_check_slave_response: the address is not checked.
CheckOnlyFunction == rx_frame.fc = tx_frame.fc

modbus_master_check_slave_response ==
  /\ rx_frame.addr = tx_frame.addr
  /\ rx_frame.fc = tx_frame.fc

ModbusUnchanged ==
  UNCHANGED <<wire, rx_rb_last_length, request, chunk, counters, rx, epoch,
              txpath>>

------------------------------------------------------------------------------
(* rs485_tick: the wire state machine in master mode.                      *)

\* Mutant of RequestTimedOut: the flag is not looked at.
RequestTimedOutAgain ==
  /\ wire = "idle"
  /\ request.state = "master_waiting"
  /\ elapsed

RequestTimedOut ==
  /\ wire = "idle"
  /\ request.state = "master_waiting"
  /\ elapsed
  /\ ~request.timed_out

\* The request has failed: its callback handler is to report a timeout.
FailRequest(counted) ==
  /\ Count(counted)
  /\ request' = [request EXCEPT !.cb_invoke = TRUE, !.timed_out = TRUE]
  /\ UNCHANGED <<wire, rx_rb_last_length, chunk, rx, epoch, txpath>>

MasterRequestTimeout == RequestTimedOut /\ FailRequest({"timeout"})

MasterNewData ==
  /\ ~RequestTimedOut
  /\ NewData("master_waiting")
  /\ StartRx

MasterFrame ==
  /\ ~RequestTimedOut
  /\ FrameAvailable("master_waiting")
  /\ IF chunk.in_progress THEN ModbusUnchanged
     ELSE IF Len(rx) > FrameSizeMax /\ ~request.timed_out
          THEN FailRequest({"timeout", "frame_too_big"})
     ELSE IF ~request.timed_out
             /\ ~modbus_check_frame_checksum(SubSeq(rx, 1, rx_rb_last_length))
          THEN FailRequest({"timeout", "checksum"})
     ELSE IF ~request.timed_out /\ ~modbus_master_check_slave_response
          THEN FailRequest({"timeout"})
     ELSE /\ request' = [request EXCEPT !.cb_invoke = TRUE]
          /\ UNCHANGED <<wire, rx_rb_last_length, chunk, counters, rx, epoch,
                         txpath>>

\* Mutant of MasterTxDone: tx_done is not taken back.
MasterTxDoneKept ==
  /\ wire = "tx" /\ tx_done
  /\ wire' = "idle"
  /\ request' = IF Broadcast THEN [request EXCEPT !.cb_invoke = TRUE] ELSE request
  /\ UNCHANGED <<rx_rb_last_length, chunk, counters, rx, epoch, txpath>>

\* A broadcast gets no response: its callback is due when it has been sent.
MasterTxDone ==
  /\ wire = "tx" /\ tx_done
  /\ tx_done' = FALSE
  /\ wire' = "idle"
  /\ request' = IF Broadcast THEN [request EXCEPT !.cb_invoke = TRUE] ELSE request
  /\ UNCHANGED <<rx_rb_last_length, chunk, counters, rx, epoch, tx, tx_start,
                 txirq, fifo, direction>>

NothingToDo ==
  /\ ~RequestTimedOut
  /\ ~NewData("master_waiting") /\ ~FrameAvailable("master_waiting")
  /\ ~(wire = "rx" /\ quiet)
  /\ ~(wire = "tx" /\ tx_done)
  /\ ModbusUnchanged

Tick ==
  /\ pc = "tick" /\ MainMayRun
  /\ pc' = "callbacks"
  /\ \/ MasterRequestTimeout \/ MasterNewData \/ MasterFrame
     \/ RxGap \/ MasterTxDone \/ NothingToDo
  /\ UNCHANGED <<quiet, line, master_vars>>

------------------------------------------------------------------------------
(* The callbacks that report the end of a request.  sendable says whether  *)
(* bootloader_spitfp_is_send_possible.                                     *)

CallbackDue(fc) ==
  /\ request.state = "master_waiting"
  /\ request.cb_invoke
  /\ tx_frame.fc = fc

CallbackRefused == ModbusUnchanged /\ UNCHANGED delivered

\* A callback with the id and the outcome goes out.  data is the serial number
\* of the request whose reply it carries, 0 if it carries none.
Deliver(outcome, data, packet) ==
  delivered' = [id |-> request.id, epoch |-> epoch, outcome |-> outcome,
                data |-> data, packet |-> packet,
                ended |-> delivered.ended
                            + (IF outcome = "part" THEN 0 ELSE 1)]

\* Mutant of EndRequest: the request is not cleared.
EndRequestUncleared(outcome, data) ==
  /\ Deliver(outcome, data, chunk.current)
  /\ UNCHANGED <<wire, rx_rb_last_length, request, chunk, rx, epoch, txpath>>

\* Mutant of EndRequest: the callback is not sent.
EndRequestSilently(outcome, data) ==
  /\ modbus_clear_request
  /\ UNCHANGED <<tx_done, txirq, fifo, direction, delivered>>

\* The callback that ends the request, and the end of the request.
EndRequest(outcome, data) ==
  /\ Deliver(outcome, data, chunk.current)
  /\ modbus_clear_request
  /\ UNCHANGED <<tx_done, txirq, fifo, direction>>

\* modbus_common_error_counters know four of the exception codes; the slaves
\* of the model use one of them.
CountException == Count({"illegal_data_address"})

\* The counter is increased on every call of the handler, sent or not.
ReportSlaveException(sendable) ==
  /\ CountException
  /\ IF sendable THEN EndRequest("exception", rx_frame.serial)
     ELSE UNCHANGED <<wire, rx_rb_last_length, request, chunk, rx, epoch,
                      txpath, delivered>>

\* Mutant of StreamOf: the division into packets rounds down.
StreamOfRoundedDown(f) ==
  IF chunk.in_progress THEN chunk
  ELSE [in_progress |-> TRUE, current |-> 0, total |-> f.count - 1]

\* Mutant of StreamOf: every call begins the stream anew.
StreamOfRestarted(f) ==
  [in_progress |-> TRUE, current |-> 0, total |-> f.count]

\* Begins the stream of packets on the first call for a response.
StreamOf(f) ==
  IF chunk.in_progress THEN chunk
  ELSE [in_progress |-> TRUE, current |-> 0, total |-> f.count]

\* send_stream_chunks for the four responses the master streams to the host.
send_stream_chunks(s, sendable) ==
  IF ~sendable
  THEN /\ chunk' = s
       /\ UNCHANGED <<wire, rx_rb_last_length, request, counters, rx, epoch,
                      txpath, delivered>>
  ELSE IF s.current = s.total - 1
  THEN EndRequest("data", rx_frame.serial) /\ UNCHANGED counters
  ELSE /\ Deliver("part", rx_frame.serial, s.current)
       /\ chunk' = [s EXCEPT !.current = @ + 1]
       /\ UNCHANGED <<wire, rx_rb_last_length, request, counters, rx, epoch,
                      txpath>>

\* The response is dropped without a callback.
DropResponse ==
  /\ modbus_clear_request
  /\ Count({"illegal_data_value"})
  /\ UNCHANGED <<tx_done, txirq, fifo, direction, delivered>>

ReadResponse(fc, sendable) ==
  /\ CallbackDue(fc)
  /\ IF request.timed_out
     THEN IF sendable THEN EndRequest("timeout", 0) /\ UNCHANGED counters
          ELSE CallbackRefused
     ELSE IF rx_frame.exception THEN ReportSlaveException(sendable)
     ELSE IF rx_frame.count # tx_frame.count THEN DropResponse
     ELSE IF rx_frame.count > 1
          THEN send_stream_chunks(StreamOf(rx_frame), sendable)
     ELSE IF sendable
          THEN EndRequest("data", rx_frame.serial) /\ UNCHANGED counters
     ELSE CallbackRefused

handle_modbus_master_read_coils_response_low_level_callback(sendable) ==
  ReadResponse("read_coils", sendable)
handle_modbus_master_read_holding_registers_response_low_level_callback(sendable) ==
  ReadResponse("read_holding_registers", sendable)
handle_modbus_master_read_discrete_inputs_response_low_level_callback(sendable) ==
  ReadResponse("read_discrete_inputs", sendable)
handle_modbus_master_read_input_registers_response_low_level_callback(sendable) ==
  ReadResponse("read_input_registers", sendable)

WriteResponse(fc, sendable) ==
  /\ CallbackDue(fc)
  /\ IF ~Broadcast /\ ~request.timed_out /\ rx_frame.exception
     THEN ReportSlaveException(sendable)
     ELSE IF ~sendable THEN CallbackRefused
     ELSE /\ IF Broadcast THEN EndRequest("success", 0)
             ELSE IF request.timed_out THEN EndRequest("timeout", 0)
             ELSE EndRequest("success", rx_frame.serial)
          /\ UNCHANGED counters

handle_modbus_master_write_single_coil_response_callback(sendable) ==
  WriteResponse("write_single_coil", sendable)
handle_modbus_master_write_single_register_response_callback(sendable) ==
  WriteResponse("write_single_register", sendable)
handle_modbus_master_write_multiple_coils_response_callback(sendable) ==
  WriteResponse("write_multiple_coils", sendable)
handle_modbus_master_write_multiple_registers_response_callback(sendable) ==
  WriteResponse("write_multiple_registers", sendable)

MasterCallback(sendable) ==
  \/ handle_modbus_master_read_coils_response_low_level_callback(sendable)
  \/ handle_modbus_master_read_holding_registers_response_low_level_callback(sendable)
  \/ handle_modbus_master_write_single_coil_response_callback(sendable)
  \/ handle_modbus_master_write_single_register_response_callback(sendable)
  \/ handle_modbus_master_write_multiple_coils_response_callback(sendable)
  \/ handle_modbus_master_write_multiple_registers_response_callback(sendable)
  \/ handle_modbus_master_read_discrete_inputs_response_low_level_callback(sendable)
  \/ handle_modbus_master_read_input_registers_response_low_level_callback(sendable)

\* A round of callbacks gets to the Modbus handler, finding the SPITFP link
\* free or not.  MaxCount bounds how often a blocked link is found.
InvokeCallback(sendable) ==
  /\ pc = "callbacks" /\ MainMayRun
  /\ ~sendable => counters["illegal_data_address"] < MaxCount
  /\ pc' = "messages"
  /\ MasterCallback(sendable)
  /\ UNCHANGED <<quiet, line, elapsed, begun, streams, heard, accepted,
                 config_vars>>

\* Another callback had its turn, or none is due.
SkipCallbacks ==
  /\ pc = "callbacks" /\ MainMayRun
  /\ pc' = "messages"
  /\ ModbusUnchanged
  /\ UNCHANGED <<quiet, line, master_vars>>

------------------------------------------------------------------------------
(* The host.                                                               *)

HostMessage == pc = "messages" /\ MainMayRun

\* A host that waits begins a request when the one before has ended.
HostMayBegin ==
  /\ begun + configs < MaxRequests
  /\ Interleaved \/ (streams = {} /\ request.state = "ready")

\* Every call looks at this first, and returns the id 0 if it does not hold.
ReadyForRequest == request.state = "ready" /\ wire = "idle"

Numbered(r) ==
  [addr |-> r.addr, fc |-> r.fc, count |-> r.count, serial |-> begun + 1]

\* The frame of r is complete with the bytes that are added now.
SendRequest(r, bytes) ==
  /\ tx' = tx \o bytes
  /\ modbus_init_new_request("master_waiting", RequestChunks(r) + 2, FALSE)
  /\ modbus_start_tx_from_buffer
  /\ elapsed' = FALSE
  /\ accepted' = [request |-> r, id |-> request'.id, epoch |-> epoch']
  /\ UNCHANGED <<rx_rb_last_length, chunk, counters, rx, tx_done, tx_start,
                 fifo, direction>>

RefuseRequest == ModbusUnchanged /\ UNCHANGED <<elapsed, accepted>>

\* A request that fits into one call.
OneCall(fc) ==
  /\ HostMayBegin
  /\ begun' = begun + 1
  /\ \E r \in Requests :
       /\ r.fc = fc
       /\ IF ReadyForRequest
          THEN SendRequest(Numbered(r), RequestFrame(Numbered(r)))
          ELSE RefuseRequest
  /\ UNCHANGED streams

modbus_master_read_coils == OneCall("read_coils")
modbus_master_read_holding_registers == OneCall("read_holding_registers")
modbus_master_write_single_coil == OneCall("write_single_coil")
modbus_master_write_single_register == OneCall("write_single_register")
modbus_master_read_discrete_inputs == OneCall("read_discrete_inputs")
modbus_master_read_input_registers == OneCall("read_input_registers")

\* Mutant of StoreRequestChunk: the first chunk is taken for the last.
StoreRequestChunkEarly(r, k) ==
  IF ReadyForRequest THEN SendRequest(r, RequestChunk(r, k)) ELSE RefuseRequest

\* The k-th chunk of a write is added to the TX ring; the last one sends it.
StoreRequestChunk(r, k) ==
  IF ~ReadyForRequest THEN RefuseRequest
  ELSE IF k = RequestChunks(r) THEN SendRequest(r, RequestChunk(r, k))
  ELSE /\ tx' = tx \o RequestChunk(r, k)
       /\ UNCHANGED <<wire, rx_rb_last_length, request, chunk, counters, rx,
                      epoch, tx_done, tx_start, txirq, fifo, direction,
                      elapsed, accepted>>

\* What is left for the host to send of a write after chunk k.
StreamAfter(r, k) ==
  IF k = RequestChunks(r) THEN {} ELSE {[request |-> r, next |-> k + 1]}

FirstChunk(fc) ==
  /\ HostMayBegin
  /\ begun' = begun + 1
  /\ \E r \in Requests :
       /\ r.fc = fc
       /\ StoreRequestChunk(Numbered(r), 1)
       /\ streams' = streams \cup StreamAfter(Numbered(r), 1)

NextChunk(fc) ==
  \E s \in streams :
    /\ s.request.fc = fc
    /\ StoreRequestChunk(s.request, s.next)
    /\ streams' = (streams \ {s}) \cup StreamAfter(s.request, s.next)
    /\ UNCHANGED begun

modbus_master_write_multiple_coils_low_level ==
  FirstChunk("write_multiple_coils") \/ NextChunk("write_multiple_coils")
modbus_master_write_multiple_registers_low_level ==
  FirstChunk("write_multiple_registers") \/ NextChunk("write_multiple_registers")

HandleMessage ==
  /\ HostMessage
  /\ \/ modbus_master_read_coils
     \/ modbus_master_read_holding_registers
     \/ modbus_master_write_single_coil
     \/ modbus_master_write_single_register
     \/ modbus_master_write_multiple_coils_low_level
     \/ modbus_master_write_multiple_registers_low_level
     \/ modbus_master_read_discrete_inputs
     \/ modbus_master_read_input_registers
  /\ UNCHANGED <<pc, quiet, line, heard, delivered, config_vars>>

------------------------------------------------------------------------------
(* The host changes the configuration.                                     *)

\* The rings are laid out anew and empty; the request keeps its state and its
\* pointers.  The host sets the sizes of the last modbus_init or others.
set_buffer_config ==
  /\ rx' = <<>> /\ tx' = <<>> /\ tx_start' = 0
  /\ moved' \in BOOLEAN
  /\ heard' = IF txirq = "armed" THEN HeardAfter(tx_start) ELSE heard
  /\ UNCHANGED <<wire, tx_done, rx_rb_last_length, request, chunk, counters,
                 txirq, fifo, direction, epoch>>

\* Mutant of rs485_apply_configuration: the request is not re-initialised.
ApplyWithoutModbusInit ==
  /\ txirq = "off" /\ fifo = 0
  /\ rx' = <<>> /\ tx' = <<>> /\ tx_start' = 0
  /\ direction' = "rx"
  /\ moved' = FALSE
  /\ UNCHANGED <<wire, tx_done, rx_rb_last_length, request, chunk, counters,
                 txirq, fifo, epoch, heard>>

\* Waits until everything in the TX ring has gone out, with the receiver's
\* events off; what comes in meanwhile is lost with the contents of the ring.
\* Then modbus_init.  A request in between ends without a callback.
rs485_apply_configuration ==
  /\ txirq = "off" /\ fifo = 0
  /\ rx' = <<>> /\ tx' = <<>> /\ tx_start' = 0
  /\ direction' = "rx"
  /\ moved' = FALSE
  /\ wire' = "idle"
  /\ tx_done' = FALSE
  /\ rx_rb_last_length' = 0
  /\ request' = ReadyRequest(1)
  /\ chunk' = NoChunking
  /\ counters' = [c \in CounterNames |->
                    IF c = "overrun" THEN counters[c] ELSE 0]
  /\ epoch' = epoch + 1
  /\ UNCHANGED <<txirq, fifo, heard>>

set_rs485_configuration == rs485_apply_configuration
set_modbus_configuration == rs485_apply_configuration

Configure ==
  /\ HostMessage /\ configs < MaxConfigs /\ begun + configs < MaxRequests
  /\ configs' = configs + 1
  /\ \/ set_buffer_config
     \/ set_rs485_configuration
     \/ set_modbus_configuration
  /\ UNCHANGED <<pc, quiet, line, elapsed, host_vars>>

------------------------------------------------------------------------------
(* The end of a turn of the main loop.                                     *)

EndOfLoop ==
  /\ HostMessage
  /\ pc' = "tick"
  /\ ModbusUnchanged
  /\ UNCHANGED <<quiet, line, master_vars>>

------------------------------------------------------------------------------
(* The bus, the interrupts and the time.                                   *)

TxInterrupt ==
  /\ rs485_tx_irq_handler
  /\ heard' = IF txirq' = "off" THEN HeardAfter(tx_start') ELSE heard
  /\ UNCHANGED <<elapsed, host_vars, config_vars>>

TffInterrupt == rs485_tff_irq_handler /\ UNCHANGED master_vars

StillAwaited(r) ==
  /\ request.state = "master_waiting"
  /\ accepted.request = r
  /\ ~elapsed

\* A slave begins to reply once the last byte of the request is on the wire.
SlaveReplies ==
  /\ line = <<>> /\ fifo = 0 /\ txirq = "off"
  /\ \E r \in heard, kind \in Replies :
       /\ LateReplies \/ StillAwaited(r)
       /\ BusByte(FrameBytes(Reply(r, kind)))
       /\ heard' = heard \ {r}
  /\ UNCHANGED <<elapsed, host_vars, config_vars>>

NextByte == BusByte(line) /\ UNCHANGED master_vars

QuietBus == Silence /\ UNCHANGED master_vars

\* system_timer_is_time_elapsed_ms for the request timeout becomes true.
TimeoutElapses ==
  /\ request.state = "master_waiting" /\ ~elapsed
  /\ elapsed' = TRUE
  /\ UNCHANGED <<rtu_vars, heard, host_vars, config_vars>>

------------------------------------------------------------------------------
Init ==
  /\ RTUInit
  /\ elapsed = FALSE
  /\ begun = 0
  /\ streams = {}
  /\ heard = {}
  /\ moved = FALSE
  /\ configs = 0
  /\ accepted = [request |-> NoRequest, id |-> 0, epoch |-> 0]
  /\ delivered = [id |-> 0, epoch |-> 0, outcome |-> "none", data |-> 0,
                  packet |-> 0, ended |-> 0]

MainLoop ==
  \/ Tick
  \/ \E sendable \in BOOLEAN : InvokeCallback(sendable)
  \/ SkipCallbacks
  \/ HandleMessage
  \/ Configure
  \/ EndOfLoop

Next ==
  \/ MainLoop
  \/ TxInterrupt \/ TffInterrupt
  \/ SlaveReplies \/ NextByte \/ QuietBus \/ TimeoutElapses

Spec == Init /\ [][Next]_vars

\* The main loop never stops, the interrupts are served, the FIFO is clocked
\* out, slaves pause after their frames and time passes.  Each round of
\* callbacks starts where the last one ended and the SPITFP queue drains, so a
\* handler that is due again and again finds its turn and the link free.
Fairness ==
  /\ WF_vars(MainLoop)
  /\ WF_vars(QuietBus) /\ WF_vars(TxInterrupt) /\ WF_vars(TffInterrupt)
  /\ WF_vars(TimeoutElapses)
  /\ SF_vars(InvokeCallback(TRUE))

FairSpec == Spec /\ Fairness

------------------------------------------------------------------------------
(* Properties.                                                             *)

NumberedRequest == [addr: {"slave", "broadcast"}, fc: FunctionCodes,
                    count: Nat, serial: Nat]
ReplyFrame == [addr: {"slave", "broadcast", "other"},
               fc: FunctionCodes \cup {"unasked"},
               exception: BOOLEAN, count: Nat, serial: Nat]
Byte == [frame: ReplyFrame, part: 1..FrameLen] \cup {Noise}
RequestUnit == [frame: NumberedRequest, part: Nat]
Outcomes == {"none", "part", "data", "success", "exception", "timeout"}

\* Every variable of the engine and of the master has its type.
TypeOK ==
  /\ EngineTypeOK /\ TxTypeOK(RequestUnit) /\ RxTypeOK(Byte)
  /\ elapsed \in BOOLEAN
  /\ begun \in Nat
  /\ streams \subseteq [request: NumberedRequest, next: Nat]
  /\ heard \subseteq NumberedRequest
  /\ moved \in BOOLEAN /\ configs \in Nat
  /\ accepted \in [request: NumberedRequest, id: 0..IdMax, epoch: Nat]
  /\ delivered \in [id: 0..IdMax, epoch: Nat, outcome: Outcomes, data: Nat,
                    packet: Nat, ended: Nat]

\* A request the host was given an id for does not end behind its back: with
\* the step that ends it goes a callback, under its id.
EndsWithCallback ==
  [][request.state = "master_waiting" /\ request'.state = "ready"
       => /\ delivered'.ended = delivered.ended + 1
          /\ delivered'.id = accepted.id]_vars

\* A callback that ends a request is sent once, for the accepted request that
\* it ends, and not for one that has ended before or that was never accepted.
CallbackEndsRequest ==
  [][delivered'.ended # delivered.ended
       => /\ request.state = "master_waiting" /\ request'.state = "ready"
          /\ delivered'.epoch = accepted.epoch]_vars

\* A callback that carries a slave's reply carries the reply to the very
\* request it reports on.
ReplyToThisRequest ==
  [][delivered' # delivered /\ delivered'.data # 0
       => delivered'.data = accepted.request.serial]_vars

\* When a handler is due for a request that has not timed out and is not a
\* broadcast, the RX buffer starts with a whole, undamaged frame of the slave
\* that was asked, with its function code; the handlers do not check again.
DueOnlyWithResponse ==
  request.state = "master_waiting" /\ request.cb_invoke
    /\ ~request.timed_out /\ ~Broadcast
  => /\ modbus_check_frame_checksum(SubSeq(rx, 1, FrameLen))
     /\ rx_frame.addr = tx_frame.addr
     /\ rx_frame.fc = tx_frame.fc

\* The packets of a response reach the host in order and without a gap, and
\* the one that ends the request is the last of them.
PacketsInOrder ==
  [][ LET before == IF delivered.epoch = epoch THEN delivered.packet + 1 ELSE 0
      IN /\ delivered' # delivered /\ delivered'.outcome \in {"part", "data"}
              => delivered'.packet = before
         /\ delivered' # delivered /\ delivered'.outcome = "data"
              => before + 1 = accepted.request.count ]_vars

\* A request is counted as timed out once, at the latest when the host is told
\* so, and the host is told so of no other (what becomes of a broadcast that
\* timed out is the subject of TimeoutFlagObserved).
TimeoutCountedOnce ==
  [][ /\ counters'["timeout"] - counters["timeout"]
           = (IF request'.timed_out /\ ~request.timed_out THEN 1 ELSE 0)
      /\ delivered'.ended # delivered.ended /\ ~Broadcast
           => (delivered'.outcome = "timeout" <=> request.timed_out) ]_vars

\* What goes out on the wire is the whole frame of the accepted request and
\* nothing else.
WholeFrameSent == wire = "tx" => tx = RequestFrame(accepted.request)

\* The wire is not given back before the TX interrupt has taken the last byte.
RequestNotCutOff ==
  [][wire = "tx" /\ wire' # "tx" => tx_start = Len(tx)]_vars

\* The TX interrupt and its tx_done belong to the request on the wire.
NoLeftoverTxDone == tx_done \/ txirq # "off" => wire = "tx"

\* The id the host gets for a request is not 0, which means that the call was
\* refused, and not that of the request before.
RequestIdUsable ==
  request.state = "master_waiting" =>
    /\ request.id # 0
    /\ request.id = accepted.id
    /\ delivered.epoch # epoch => delivered.id # request.id

\* What the host and the bus can see of the state, as MasterService knows it.
Service == INSTANCE MasterService WITH
  Reads <- Reads,
  Writes <- SingleWrites \cup MultipleWrites,
  NoRequest <- NoRequest,
  pending <- IF request.state = "master_waiting"
             THEN accepted.request ELSE NoRequest,
  asked <- request.state = "master_waiting" /\ wire # "tx",
  received <- IF request.state = "master_waiting" /\ delivered.epoch = epoch
              THEN delivered.packet + 1 ELSE 0,
  report <- [outcome |-> delivered.outcome, data |-> delivered.data,
             packet |-> delivered.packet, ended |-> delivered.ended]

\* The master carries out one request at a time, sends it before it reports
\* on it, hands over responses packet by packet, and reports each end once
\* with an outcome that fits: every step of rs485_tick, of a handler or of an
\* interrupt is a step of the abstract specification or changes nothing of it.
ImplementsMasterService == Service!Spec

\* Every accepted request ends, with the slave's reply or with the timeout,
\* and calls of the host are taken again, as long as the callback handlers
\* can tell the request by the frame in the TX ring.
RequestsEnd ==
  request.state = "master_waiting" ~> request.state = "ready" \/ ~FrameAtFront

\* What the comment in the timeout branch says: the timeout flag is observed
\* by the callback handler.
TimeoutFlagObserved ==
  [][request.timed_out /\ delivered'.ended # delivered.ended
       => delivered'.outcome = "timeout"]_vars

\* What the same comment says of every request that timed out: the callback
\* handler processes it further, so that the request does not stay timed out.
TimedOutRequestsEnd == request.timed_out ~> ~request.timed_out

==============================================================================
