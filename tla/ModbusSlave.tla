----------------------------- MODULE ModbusSlave -----------------------------
(***************************************************************************)
(* The Bricklet in Modbus slave mode.  A bus master sends frames, the wire *)
(* state machine cuts them out of the byte stream and accepts those meant  *)
(* for this slave, a callback offers each accepted request to the host,    *)
(* and the host answers it or reports an exception.                        *)
(*                                                                         *)
(* The main loop runs rs485_tick, one round of callbacks and the messages  *)
(* of the host, in this order, for ever; interrupts and the bus interleave *)
(* with it between any two of these steps.                                 *)
(***************************************************************************)
EXTENDS ModbusRTU, FiniteSets

CONSTANTS
  BusFrames,  \* the frames a bus master sends: [addr, fc, count]
  MaxFrames   \* bound on the number of frames sent

Reads == {"read_coils", "read_holding_registers",
          "read_discrete_inputs", "read_input_registers"}
SingleWrites == {"write_single_coil", "write_single_register"}
MultipleWrites == {"write_multiple_coils", "write_multiple_registers"}
ImplementedFunctions == Reads \cup SingleWrites \cup MultipleWrites
FunctionCodes == ImplementedFunctions \cup {"unimplemented"}

\* count: 0 is a count or coil value the standard forbids; n > 0 is data that
\* takes n packets between Bricklet and host.
FrameKind == [addr: {"me", "other", "broadcast"}, fc: FunctionCodes, count: Nat]

ASSUME SlaveAssumption ==
  /\ BusFrames \subseteq FrameKind
  /\ MaxFrames \in Nat

VARIABLES
  frames,   \* how many frames were sent on the bus
  host,     \* requests the host holds and has not answered to the end
  offered   \* history: the last request offered to the host, and in how
            \* many packets so far

slave_vars == <<frames, host, offered>>
vars == <<rtu_vars, slave_vars>>

------------------------------------------------------------------------------
(* What the slave puts on the wire, and what the host knows.               *)

Unit(kind, f, i) == [kind |-> kind, frame |-> f, part |-> i]

\* A whole answer to f: header, n chunks of data, checksum.
Answer(f, n) == [i \in 1..(n + 2) |-> Unit("answer", f, i - 1)]

\* The k-th of n chunks of an answer as the handler stores it.
AnswerChunk(f, k, n) ==
  (IF k = 1 THEN <<Unit("answer", f, 0)>> ELSE <<>>)
    \o <<Unit("answer", f, k)>>
    \o (IF k = n THEN <<Unit("answer", f, n + 1)>> ELSE <<>>)

\* An exception response is shorter than the FIFO.
Exception(f) == <<Unit("exception", f, 1)>>

Chunks(f) == IF f.fc \in Reads THEN f.count ELSE 1
Packets(f) == IF f.fc \in MultipleWrites THEN f.count ELSE 1

\* What the host keeps of a request; next is the chunk of the answer to send.
Ticket == [id |-> request.id, epoch |-> epoch, frame |-> rx_frame, next |-> 1]

\* How many packets of the current request the host has been sent.
PacketsSent == IF offered.epoch = epoch THEN offered.packets ELSE 0

\* A packet of the callback goes out; with the last one the host knows all.
Offer(last) ==
  /\ offered' = [epoch |-> epoch, packets |-> PacketsSent + 1]
  /\ host' = IF last THEN host \cup {Ticket} ELSE host

ModbusUnchanged ==
  UNCHANGED <<wire, rx_rb_last_length, request, chunk, counters, rx, epoch,
              txpath>>

modbus_report_exception ==
  /\ tx' = Exception(rx_frame)
  /\ tx_start' = 0
  /\ modbus_start_tx_from_buffer
  /\ UNCHANGED <<tx_done, fifo, direction>>

------------------------------------------------------------------------------
(* rs485_tick: the wire state machine in slave mode.                       *)

modbus_slave_check_address(f) == f.addr \in {"me", "broadcast"}

modbus_slave_check_function_code_implemented(f) == f.fc \in ImplementedFunctions

RequestSuperseded ==
  /\ wire = "idle"
  /\ request.state = "slave_processing"
  /\ request.length < Len(rx)

\* What is left in the RX ring after the timeout of a request: the first n
\* bytes of the buffer, n being the number of bytes that came after it.
BytesMoved(n) == IF n <= FrameSizeMax THEN SubSeq(rx, 1, n) ELSE <<>>

\* The bus went on while the host was still busy: the request is given up.
SlaveRequestTimeout ==
  /\ RequestSuperseded
  /\ Count({"timeout"})
  /\ ClearRequestTo("rx", BytesMoved(Len(rx) - request.length))
  /\ UNCHANGED <<tx_done, txirq, fifo, direction>>

SlaveNewData == NewData("ready") /\ StartRx

RejectFrame(counted) ==
  /\ Count(counted)
  /\ modbus_clear_request
  /\ UNCHANGED <<tx_done, txirq, fifo, direction>>

ReportIllegalFunction ==
  /\ Count({"illegal_function"})
  /\ modbus_report_exception
  /\ UNCHANGED <<rx_rb_last_length, request, chunk, rx, epoch>>

AcceptRequest ==
  /\ modbus_init_new_request("slave_processing", Len(rx), TRUE)
  /\ UNCHANGED <<wire, rx_rb_last_length, chunk, counters, rx, txpath>>

SlaveFrame ==
  /\ FrameAvailable("ready")
  /\ IF Len(rx) > FrameSizeMax THEN RejectFrame({"frame_too_big"})
     ELSE IF ~modbus_check_frame_checksum(SubSeq(rx, 1, rx_rb_last_length))
          THEN RejectFrame({"checksum"})
     ELSE IF ~modbus_slave_check_address(rx_frame) THEN RejectFrame({})
     ELSE IF ~modbus_slave_check_function_code_implemented(rx_frame)
          THEN ReportIllegalFunction
     ELSE AcceptRequest

\* Mutant of SlaveTxDone: tx_done is not taken back.
SlaveTxDoneKept ==
  /\ wire = "tx" /\ tx_done
  /\ modbus_clear_request
  /\ UNCHANGED <<counters, tx_done, txirq, fifo, direction>>

\* The end of a transmission is the end of the request.
SlaveTxDone ==
  /\ wire = "tx" /\ tx_done
  /\ tx_done' = FALSE
  /\ modbus_clear_request
  /\ UNCHANGED <<counters, txirq, fifo, direction>>

NothingToDo ==
  /\ ~RequestSuperseded
  /\ ~NewData("ready") /\ ~FrameAvailable("ready")
  /\ ~(wire = "rx" /\ quiet)
  /\ ~(wire = "tx" /\ tx_done)
  /\ ModbusUnchanged

Tick ==
  /\ pc = "tick" /\ MainMayRun
  /\ pc' = "callbacks"
  /\ \/ SlaveRequestTimeout \/ SlaveNewData \/ SlaveFrame
     \/ RxGap \/ SlaveTxDone \/ NothingToDo
  /\ UNCHANGED <<quiet, line, slave_vars>>

------------------------------------------------------------------------------
(* The callbacks that offer a request to the host.  sendable says whether  *)
(* bootloader_spitfp_is_send_possible.                                     *)

CallbackDue(fc) ==
  /\ request.state = "slave_processing"
  /\ rx_frame.fc = fc
  /\ request.cb_invoke

Broadcast == rx_frame.addr = "broadcast"
InvalidData == rx_frame.count = 0

CallbackRefused == ModbusUnchanged /\ UNCHANGED <<host, offered>>

CallbackException(invoke) ==
  /\ Count({"illegal_data_value"})
  /\ modbus_report_exception
  /\ request' = [request EXCEPT !.cb_invoke = invoke]
  /\ UNCHANGED <<rx_rb_last_length, chunk, rx, epoch, host, offered>>

\* Mutant of OfferInOnePacket: the callback stays due.
OfferInOnePacketAgain ==
  /\ Offer(TRUE)
  /\ UNCHANGED <<wire, rx_rb_last_length, request, chunk, counters, rx, epoch,
                 txpath>>

\* The request fits into one packet.
OfferInOnePacket ==
  /\ Offer(TRUE)
  /\ request' = [request EXCEPT !.cb_invoke = FALSE]
  /\ UNCHANGED <<wire, rx_rb_last_length, chunk, counters, rx, epoch, txpath>>

ReadCallback(fc, sendable) ==
  /\ CallbackDue(fc)
  /\ IF Broadcast
     THEN /\ modbus_clear_request
          /\ UNCHANGED <<counters, tx_done, txirq, fifo, direction, host,
                         offered>>
     ELSE IF InvalidData THEN CallbackException(TRUE)
     ELSE IF sendable THEN OfferInOnePacket
     ELSE CallbackRefused

handle_modbus_slave_read_coils_request_callback(sendable) ==
  ReadCallback("read_coils", sendable)
handle_modbus_slave_read_holding_registers_request_callback(sendable) ==
  ReadCallback("read_holding_registers", sendable)
handle_modbus_slave_read_discrete_inputs_request_callback(sendable) ==
  ReadCallback("read_discrete_inputs", sendable)
handle_modbus_slave_read_input_registers_request_callback(sendable) ==
  ReadCallback("read_input_registers", sendable)

handle_modbus_slave_write_single_coil_request_callback(sendable) ==
  /\ CallbackDue("write_single_coil")
  /\ IF InvalidData THEN CallbackException(TRUE)
     ELSE IF sendable THEN OfferInOnePacket
     ELSE CallbackRefused

handle_modbus_slave_write_single_register_request_callback(sendable) ==
  /\ CallbackDue("write_single_register")
  /\ IF sendable THEN OfferInOnePacket ELSE CallbackRefused

\* Mutant of StreamOf: the division into packets rounds down.
StreamOfRoundedDown(f) ==
  IF chunk.in_progress THEN chunk
  ELSE [in_progress |-> TRUE, current |-> 0, total |-> f.count - 1]

\* Begins the stream of packets on the first call for a request.
StreamOf(f) ==
  IF chunk.in_progress THEN chunk
  ELSE [in_progress |-> TRUE, current |-> 0, total |-> f.count]

\* send_stream_chunks for the two requests the slave streams to the host.
send_stream_chunks(s, sendable) ==
  /\ IF ~sendable
     THEN chunk' = s /\ UNCHANGED <<request, wire, host, offered>>
     ELSE IF s.current = s.total - 1
     THEN /\ Offer(TRUE)
          /\ chunk' = NoChunking
          /\ request' = [request EXCEPT !.cb_invoke = FALSE,
                                        !.timed_out = FALSE]
          /\ wire' = "idle"
     ELSE /\ Offer(FALSE)
          /\ chunk' = [s EXCEPT !.current = @ + 1]
          /\ UNCHANGED <<request, wire>>
  /\ UNCHANGED <<rx_rb_last_length, counters, rx, epoch, txpath>>

WriteMultipleCallback(fc, sendable) ==
  /\ CallbackDue(fc)
  /\ IF InvalidData THEN CallbackException(FALSE)
     ELSE IF rx_frame.count > 1
     THEN send_stream_chunks(StreamOf(rx_frame), sendable)
     ELSE IF sendable THEN OfferInOnePacket
     ELSE CallbackRefused

\* Mutant of the next handler: it tests for the wrong function code.
WriteMultipleCoilsWrongFunction(sendable) ==
  WriteMultipleCallback("write_multiple_registers", sendable)

handle_modbus_slave_write_multiple_coils_request_low_level_callback(sendable) ==
  WriteMultipleCallback("write_multiple_coils", sendable)
handle_modbus_slave_write_multiple_registers_request_low_level_callback(sendable) ==
  WriteMultipleCallback("write_multiple_registers", sendable)

SlaveCallback(sendable) ==
  \/ handle_modbus_slave_read_coils_request_callback(sendable)
  \/ handle_modbus_slave_read_holding_registers_request_callback(sendable)
  \/ handle_modbus_slave_write_single_coil_request_callback(sendable)
  \/ handle_modbus_slave_write_single_register_request_callback(sendable)
  \/ handle_modbus_slave_write_multiple_coils_request_low_level_callback(sendable)
  \/ handle_modbus_slave_write_multiple_registers_request_low_level_callback(sendable)
  \/ handle_modbus_slave_read_discrete_inputs_request_callback(sendable)
  \/ handle_modbus_slave_read_input_registers_request_callback(sendable)

\* A round of callbacks gets to the Modbus handler, finding the SPITFP link
\* free or not ...
InvokeCallback(sendable) ==
  /\ pc = "callbacks" /\ MainMayRun
  /\ pc' = "messages"
  /\ SlaveCallback(sendable)
  /\ UNCHANGED <<quiet, line, frames>>

\* ... or does not: another callback had its turn, or none is due.
SkipCallbacks ==
  /\ pc = "callbacks" /\ MainMayRun
  /\ pc' = "messages"
  /\ CallbackRefused
  /\ UNCHANGED <<quiet, line, frames>>

------------------------------------------------------------------------------
(* The host.  It answers a request it was offered, chunk by chunk and once,*)
(* or reports an exception for it, at any time or never; but it gives a    *)
(* request up before the ids have gone round once.                         *)

\* Mutant of modbus_slave_check_current_request: any id will do.
CheckCurrentRequestAnyId(id) == request.state = "slave_processing"

modbus_slave_check_current_request(id) ==
  /\ request.state = "slave_processing"
  /\ request.id = id

HostHolds(t) == t \in host /\ epoch - t.epoch < IdMax

HostMessage == pc = "messages" /\ MainMayRun

StoreAndStartTx(bytes) ==
  /\ tx' = tx \o bytes
  /\ modbus_start_tx_from_buffer
  /\ UNCHANGED <<rx_rb_last_length, request, chunk, counters, rx, epoch,
                 tx_done, tx_start, fifo, direction>>

\* An answer to a broadcast only ends the request.
EndBroadcast ==
  /\ modbus_clear_request
  /\ UNCHANGED <<counters, tx_done, txirq, fifo, direction>>

modbus_slave_report_exception(t) ==
  /\ IF /\ modbus_slave_check_current_request(t.id)
        /\ ~Broadcast
     THEN /\ modbus_report_exception
          /\ UNCHANGED <<rx_rb_last_length, request, chunk, counters, rx, epoch>>
     ELSE ModbusUnchanged
  /\ host' = host \ {t}

\* Mutant of StoreAnswerChunk: the first chunk starts the transmission.
StoreAnswerChunkEarly(f, k, n) ==
  IF k = 1 /\ wire = "idle"
  THEN StoreAndStartTx(AnswerChunk(f, k, n))
  ELSE /\ tx' = tx \o AnswerChunk(f, k, n)
       /\ UNCHANGED <<wire, rx_rb_last_length, request, chunk, counters, rx,
                      epoch, tx_done, tx_start, txirq, fifo, direction>>

\* The chunk that completes the frame adds the checksum and, if the wire is
\* idle, starts the transmission.
StoreAnswerChunk(f, k, n) ==
  IF k = n /\ wire = "idle"
  THEN StoreAndStartTx(AnswerChunk(f, k, n))
  ELSE /\ tx' = tx \o AnswerChunk(f, k, n)
       /\ UNCHANGED <<wire, rx_rb_last_length, request, chunk, counters, rx,
                      epoch, tx_done, tx_start, txirq, fifo, direction>>

\* total is the stream length the host states; if it is not the one the bus
\* master asked for the call fails, and the host still owes the answer.
AnswerRead(fc, t, total) ==
  /\ t.frame.fc = fc
  /\ IF ~(modbus_slave_check_current_request(t.id) /\ rx_frame.fc = fc)
     THEN ModbusUnchanged
     ELSE IF Broadcast THEN EndBroadcast
     ELSE IF total # rx_frame.count THEN ModbusUnchanged
     ELSE StoreAnswerChunk(t.frame, t.next, total)
  /\ host' = IF total # t.frame.count THEN host
             ELSE IF t.next = total THEN host \ {t}
             ELSE (host \ {t}) \cup {[t EXCEPT !.next = @ + 1]}

modbus_slave_answer_read_coils_request_low_level(t, total) ==
  AnswerRead("read_coils", t, total)
modbus_slave_answer_read_holding_registers_request_low_level(t, total) ==
  AnswerRead("read_holding_registers", t, total)
modbus_slave_answer_read_discrete_inputs_request_low_level(t, total) ==
  AnswerRead("read_discrete_inputs", t, total)
modbus_slave_answer_read_input_registers_request_low_level(t, total) ==
  AnswerRead("read_input_registers", t, total)

\* The answer to a write repeats the request, or its head with a checksum.
AnswerWrite(fc, t) ==
  /\ t.frame.fc = fc
  /\ IF ~(modbus_slave_check_current_request(t.id) /\ rx_frame.fc = fc)
     THEN ModbusUnchanged
     ELSE IF Broadcast THEN EndBroadcast
     ELSE StoreAndStartTx(Answer(rx_frame, 1))
  /\ host' = host \ {t}

modbus_slave_answer_write_single_coil_request(t) ==
  AnswerWrite("write_single_coil", t)
modbus_slave_answer_write_single_register_request(t) ==
  AnswerWrite("write_single_register", t)
modbus_slave_answer_write_multiple_coils_request(t) ==
  AnswerWrite("write_multiple_coils", t)
modbus_slave_answer_write_multiple_registers_request(t) ==
  AnswerWrite("write_multiple_registers", t)

HostAnswer(t) ==
  \/ modbus_slave_report_exception(t)
  \/ modbus_slave_answer_write_single_coil_request(t)
  \/ modbus_slave_answer_write_single_register_request(t)
  \/ modbus_slave_answer_write_multiple_coils_request(t)
  \/ modbus_slave_answer_write_multiple_registers_request(t)
  \/ \E total \in {t.frame.count, t.frame.count + 1} :
       \/ modbus_slave_answer_read_coils_request_low_level(t, total)
       \/ modbus_slave_answer_read_holding_registers_request_low_level(t, total)
       \/ modbus_slave_answer_read_discrete_inputs_request_low_level(t, total)
       \/ modbus_slave_answer_read_input_registers_request_low_level(t, total)

HandleMessage ==
  /\ HostMessage
  /\ \E t \in host : HostHolds(t) /\ HostAnswer(t)
  /\ UNCHANGED <<pc, quiet, line, frames, offered>>

EndOfLoop ==
  /\ HostMessage
  /\ pc' = "tick"
  /\ ModbusUnchanged
  /\ UNCHANGED <<quiet, line, slave_vars>>

------------------------------------------------------------------------------
(* The bus and the interrupts.                                             *)

NextFrame ==
  /\ line = <<>> /\ frames < MaxFrames
  /\ frames' = frames + 1
  /\ \E f \in BusFrames :
       BusByte(FrameBytes([addr |-> f.addr, fc |-> f.fc, count |-> f.count,
                           tag |-> frames + 1]))
  /\ UNCHANGED <<host, offered>>

NextByte == BusByte(line) /\ UNCHANGED slave_vars

QuietBus == Silence /\ UNCHANGED slave_vars
TxInterrupt == rs485_tx_irq_handler /\ UNCHANGED slave_vars
TffInterrupt == rs485_tff_irq_handler /\ UNCHANGED slave_vars

------------------------------------------------------------------------------
Init ==
  /\ RTUInit
  /\ frames = 0
  /\ host = {}
  /\ offered = [epoch |-> 0, packets |-> 0]

MainLoop ==
  \/ Tick
  \/ \E sendable \in BOOLEAN : InvokeCallback(sendable)
  \/ SkipCallbacks
  \/ HandleMessage
  \/ EndOfLoop

Next ==
  \/ MainLoop
  \/ NextFrame \/ NextByte \/ QuietBus
  \/ TxInterrupt \/ TffInterrupt

Spec == Init /\ [][Next]_vars

\* The main loop never stops, the interrupts are served, the FIFO is clocked
\* out and the bus master pauses after its frames.  Each round of callbacks
\* starts where the last one ended and the SPITFP queue drains, so a handler
\* that is due again and again finds its turn and the link free.
Fairness ==
  /\ WF_vars(MainLoop)
  /\ WF_vars(QuietBus) /\ WF_vars(TxInterrupt) /\ WF_vars(TffInterrupt)
  /\ SF_vars(InvokeCallback(TRUE))

FairSpec == Spec /\ Fairness

------------------------------------------------------------------------------
(* Properties.                                                             *)

Frame == [addr: {"me", "other", "broadcast"}, fc: FunctionCodes,
          count: Nat, tag: Nat]

\* A damaged byte is not mistaken for a frame.
ASSUME NoiseAssumption == Noise \notin Frame

Byte == [frame: Frame, part: 1..FrameLen] \cup {Noise}
ResponseUnit == [kind: {"answer", "exception"}, frame: Frame, part: Nat]
TicketType == [id: 0..IdMax, epoch: Nat, frame: Frame, next: Nat]

\* Every variable of the engine and of the slave has its type.
TypeOK ==
  /\ EngineTypeOK /\ TxTypeOK(ResponseUnit) /\ RxTypeOK(Byte)
  /\ frames \in Nat
  /\ host \subseteq TicketType
  /\ offered \in [epoch: Nat, packets: Nat]

\* The wire state machine judges the contents of the RX ring only after the
\* 4-character silence that ends a frame, however the bytes, the timer and
\* the ticks interleave (except for a ring that ran full, which it rejects).
FrameOnlyAfterSilence ==
  FrameAvailable("ready") /\ Len(rx) <= FrameSizeMax => quiet

\* While the slave transmits, the TX ring was filled with exactly one whole
\* response, an answer or an exception, to the undamaged frame at the start
\* of the RX buffer, and that frame was not addressed to another slave.
ResponseMatchesRequest ==
  wire = "tx" =>
    /\ modbus_check_frame_checksum(SubSeq(rx, 1, FrameLen))
    /\ rx_frame.addr # "other"
    /\ tx \in {Exception(rx_frame), Answer(rx_frame, Chunks(rx_frame))}

\* A request is not cleared, and the TX ring not re-initialised with it,
\* before the TX interrupt has taken the last byte of its response.
ResponseNotCutOff ==
  [][wire = "tx" /\ wire' # "tx" => tx_start = Len(tx)]_vars

\* An answer the host still owes reaches the current request only if it is
\* the answer to it: the ids of requests that were given up, rejected or
\* superseded meanwhile never make modbus_slave_check_current_request accept
\* an old answer, in spite of their wrap-around at 255.
NoStaleAnswer ==
  \A t \in host :
    HostHolds(t) /\ modbus_slave_check_current_request(t.id)
      => t.epoch = epoch /\ t.frame = rx_frame

\* A request is offered to the host once and as a whole: while its callback
\* is due some packet is missing and the stream is at the packet that comes
\* next; when it is no longer due, all packets of a valid request were sent.
OfferedOnceAndWhole ==
  request.state = "slave_processing" =>
    /\ request.cb_invoke /\ wire = "idle" => PacketsSent < Packets(rx_frame) \/ InvalidData
    /\ chunk.in_progress => chunk.current = PacketsSent
    /\ ~request.cb_invoke /\ ~InvalidData => PacketsSent = Packets(rx_frame)

\* When the callbacks get their turn, none is due for a request whose
\* response is being sent.  The handlers do not look at the wire: a second
\* call would count the error again and restart the response.
NoCallbackDuringResponse ==
  pc = "callbacks" /\ MainMayRun /\ request.state = "slave_processing"
    /\ request.cb_invoke => wire = "idle"

\* The TX interrupt and its tx_done belong to the response on the wire: none
\* is left over for the next transmission to take for its own end.
NoLeftoverTxDone == tx_done \/ txirq # "off" => wire = "tx"

\* The transceiver is not left in transmit direction with nothing to send:
\* the TFF interrupt of the last byte will turn the receiver back on.
NeverDeaf == direction = "tx" => fifo > 0 \/ txirq # "off"

\* What the host and the bus can see of the state, as SlaveService knows it.
Service == INSTANCE SlaveService WITH
  Packets <- Packets,
  NoFrame <- Noise,
  serving <- IF wire = "tx" \/ request.state = "slave_processing"
             THEN rx_frame ELSE Noise,
  stage <- IF wire = "tx" THEN tx[1].kind
           ELSE IF request.state = "ready" THEN "idle"
           ELSE IF request.cb_invoke THEN "offering" ELSE "offered",
  told <- IF request.state = "slave_processing" THEN PacketsSent ELSE 0

\* The slave serves one frame at a time, offers it to the host packet by packet
\* before it sends the host's answer, sends one response at most, and gives a
\* request up only while no response to it is on the wire: every step of
\* rs485_tick, of a callback, of a call of the host or of an interrupt is a
\* step of the abstract specification or changes nothing of it.
ImplementsSlaveService == Service!Spec

\* Every response ends, and the slave goes back to listening.
ResponseEnds == wire = "tx" ~> wire # "tx" /\ direction = "rx"

\* The callback of an accepted request does not stay due for ever: the
\* request is offered, refused by an exception, or superseded.
RequestGetsOffered == request.cb_invoke ~> ~request.cb_invoke

\* Bytes that came in are judged once the bus falls silent.
BytesGetJudged ==
  request.state = "ready" /\ rx # <<>>
    ~> request.state = "slave_processing" \/ wire = "tx" \/ rx = <<>>

\* What the comment in the timeout branch says: the bytes that came in after
\* the request that is given up are moved to the beginning of the RX buffer.
NewBytesMovedToFront ==
  [][counters'["timeout"] > counters["timeout"]
       /\ Len(rx) - request.length <= FrameSizeMax
     => rx' = SubSeq(rx, request.length + 1, Len(rx))]_vars

\* What the comments in the handlers say: a slave does not respond to a
\* broadcast message.
NoResponseToBroadcast == wire = "tx" => ~Broadcast

==============================================================================
