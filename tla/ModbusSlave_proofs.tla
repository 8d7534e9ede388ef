-------------------------- MODULE ModbusSlave_proofs --------------------------
(***************************************************************************)
(* What holds of the Bricklet in slave mode for all frames, ring sizes and *)
(* id widths: its types, that the wire state machine judges the RX ring    *)
(* only after the silence that ends a frame, and that an answer of the     *)
(* host never reaches another request than its own.                        *)
(***************************************************************************)
EXTENDS ModbusSlave, ModbusRTU_proofs

(***************************************************************************)
(* The frame of a request stays at the start of the RX ring while the host *)
(* works on it and while the response is sent, whatever comes in behind.   *)
(* Without this the types are not inductive: the handlers read the frame   *)
(* from the ring every time they run.                                      *)
(***************************************************************************)
FrameHeld ==
  request.state = "slave_processing" \/ wire = "tx" => HoldsFrame

Typed == TypeOK /\ FrameHeld

------------------------------------------------------------------------------
(* Helpers.                                                                *)

\* The frame a request was read from has the type of a frame.
LEMMA HeldFrameTyped ==
  ASSUME rx \in Seq(Byte), HoldsFrame
  PROVE  rx_frame \in Frame /\ rx # <<>>
<1>1. 1 \in 1..FrameLen /\ 1 \in 1..Len(rx)
  BY RTUAssumption DEF HoldsFrame
<1>2. rx[1] \in Byte /\ rx[1] # Noise
  BY <1>1 DEF HoldsFrame
<1>3. QED
  BY <1>1, <1>2 DEF Byte, rx_frame

\* What the slave puts into the TX ring.
LEMMA ResponsesTyped ==
  ASSUME NEW f \in Frame, NEW k \in Nat, NEW n \in Nat
  PROVE  /\ Exception(f) \in Seq(ResponseUnit)
         /\ Answer(f, n) \in Seq(ResponseUnit)
         /\ AnswerChunk(f, k, n) \in Seq(ResponseUnit)
<1>1. \A i \in Nat : /\ Unit("answer", f, i) \in ResponseUnit
                     /\ Unit("exception", f, i) \in ResponseUnit
  BY DEF Unit, ResponseUnit
<1>2. Exception(f) \in Seq(ResponseUnit)
  BY <1>1 DEF Exception
<1>3. Answer(f, n) \in Seq(ResponseUnit)
  BY <1>1 DEF Answer
<1>4. AnswerChunk(f, k, n) \in Seq(ResponseUnit)
  BY <1>1 DEF AnswerChunk
<1>5. QED
  BY <1>2, <1>3, <1>4

\* What a bus master puts on the wire.
LEMMA FrameBytesTyped ==
  ASSUME NEW f \in Frame
  PROVE  FrameBytes(f) \in Seq(Byte)
  BY RTUAssumption DEF FrameBytes, Byte

\* An exception response leaves the transmit path well typed.
LEMMA ReportExceptionTyped ==
  ASSUME TypeOK, HoldsFrame, modbus_report_exception
  PROVE  TxTypeOK(ResponseUnit)' /\ wire' = "tx"
<1>1. rx_frame \in Frame
  BY HeldFrameTyped DEF TypeOK, RxTypeOK
<1>2. Exception(rx_frame) \in Seq(ResponseUnit) /\ 0 \in Nat
  BY <1>1, ResponsesTyped
<1>3. QED
  BY <1>2 DEF modbus_report_exception, modbus_start_tx_from_buffer, TypeOK,
              TxTypeOK

\* The end of a request clears the wire and the ring, and the frame with them.
LEMMA ClearedTyped ==
  ASSUME TypeOK, NEW w \in {"idle", "rx"}, NEW r \in Seq(Byte),
         ClearRequestTo(w, r), counters' \in [CounterNames -> Nat],
         pc' \in {"tick", "callbacks", "messages"},
         tx_done' \in BOOLEAN, UNCHANGED <<txirq, fifo, direction, quiet, line>>
  PROVE  /\ EngineTypeOK' /\ TxTypeOK(ResponseUnit)' /\ RxTypeOK(Byte)'
         /\ FrameHeld'
<1>1. EngineTypeOK'
  BY ClearTyped DEF TypeOK, WireStates
<1>2. TxTypeOK(ResponseUnit)'
  BY ClearTxTyped DEF TypeOK
<1>3. RxTypeOK(Byte)'
  BY DEF ClearRequestTo, TypeOK, RxTypeOK
<1>4. FrameHeld'
  BY DEF ClearRequestTo, ReadyRequest, FrameHeld
<1>5. QED
  BY <1>1, <1>2, <1>3, <1>4

------------------------------------------------------------------------------
(* rs485_tick keeps the types.                                             *)

LEMMA TickTyped ==
  ASSUME Typed, Tick
  PROVE  Typed'
<1> USE DEF Typed
<1>1. /\ pc' \in {"tick", "callbacks", "messages"}
      /\ counters \in [CounterNames -> Nat]
      /\ rx \in Seq(Byte) /\ Len(rx) \in Nat
      /\ tx_done \in BOOLEAN
      /\ UNCHANGED <<quiet, line, frames, host, offered>>
  BY DEF Tick, TypeOK, EngineTypeOK, RxTypeOK, TxTypeOK, slave_vars
<1> SUFFICES /\ EngineTypeOK' /\ TxTypeOK(ResponseUnit)' /\ RxTypeOK(Byte)'
             /\ FrameHeld'
  BY <1>1 DEF TypeOK
<1>2. CASE SlaveRequestTimeout
  <2>1. counters' \in [CounterNames -> Nat]
    BY <1>1, <1>2, CountTyped DEF SlaveRequestTimeout
  <2>2. BytesMoved(Len(rx) - request.length) \in Seq(Byte)
    <3>1. request.length \in Nat /\ request.length < Len(rx)
      BY <1>2 DEF SlaveRequestTimeout, RequestSuperseded, TypeOK, EngineTypeOK,
                  RequestType
    <3>2. Len(rx) - request.length \in 0..Len(rx)
      BY <1>1, <3>1
    <3>3. <<>> \in Seq(Byte)
      OBVIOUS
    <3>4. QED
      BY <1>1, <3>2, <3>3 DEF BytesMoved
  <2>3. QED
    BY <1>1, <1>2, <2>1, <2>2, ClearedTyped DEF SlaveRequestTimeout
<1>3. CASE SlaveNewData
  BY <1>1, <1>3 DEF SlaveNewData, NewData, StartRx, txpath, TypeOK,
     EngineTypeOK, TxTypeOK, RxTypeOK, FrameHeld, WireStates
<1>4. CASE SlaveFrame
  <2>1. FrameAvailable("ready") /\ Len(rx) = rx_rb_last_length
    BY <1>4 DEF SlaveFrame, FrameAvailable
  <2>2. CASE \E names : RejectFrame(names)
    <3>1. counters' \in [CounterNames -> Nat]
      BY <1>1, <2>2, CountTyped DEF RejectFrame
    <3>2. <<>> \in Seq(Byte)
      OBVIOUS
    <3>3. QED
      BY <1>1, <2>2, <3>1, <3>2, ClearedTyped
         DEF RejectFrame, modbus_clear_request
  <2>3. CASE modbus_check_frame_checksum(SubSeq(rx, 1, rx_rb_last_length))
             /\ (ReportIllegalFunction \/ AcceptRequest)
    <3>1. HoldsFrame
      BY <1>1, <2>1, <2>3, CheckedFrame
    <3>2. CASE ReportIllegalFunction
      <4>1. counters' \in [CounterNames -> Nat]
        BY <1>1, <3>2, CountTyped DEF ReportIllegalFunction
      <4>2. TxTypeOK(ResponseUnit)' /\ wire' \in WireStates
        BY <3>1, <3>2, ReportExceptionTyped
           DEF ReportIllegalFunction, WireStates
      <4>3. EngineTypeOK' /\ RxTypeOK(Byte)'
        BY <1>1, <3>2, <4>1, <4>2
           DEF ReportIllegalFunction, TypeOK, EngineTypeOK, RxTypeOK
      <4>4. FrameHeld'
        BY <3>1, <3>2 DEF ReportIllegalFunction, FrameHeld, HoldsFrame
      <4>5. QED
        BY <4>2, <4>3, <4>4
    <3>3. CASE AcceptRequest
      <4>1. request' \in RequestType /\ epoch' \in Nat
        BY <1>1, <3>3, NewRequestTyped DEF AcceptRequest, TypeOK, RequestStates
      <4>2. EngineTypeOK' /\ TxTypeOK(ResponseUnit)' /\ RxTypeOK(Byte)'
        BY <1>1, <3>3, <4>1
           DEF AcceptRequest, txpath, TypeOK, EngineTypeOK, TxTypeOK, RxTypeOK
      <4>3. FrameHeld'
        BY <3>1, <3>3 DEF AcceptRequest, FrameHeld, HoldsFrame
      <4>4. QED
        BY <4>2, <4>3
    <3>4. QED
      BY <2>3, <3>2, <3>3
  <2>4. QED
    BY <1>4, <2>2, <2>3 DEF SlaveFrame
<1>5. CASE RxGap
  BY <1>1, <1>5 DEF RxGap, txpath, TypeOK, EngineTypeOK, TxTypeOK, RxTypeOK,
     FrameHeld, HoldsFrame, WireStates
<1>6. CASE SlaveTxDone
  <2>1. <<>> \in Seq(Byte)
    OBVIOUS
  <2>2. QED
    BY <1>1, <1>6, <2>1, ClearedTyped DEF SlaveTxDone, modbus_clear_request
<1>7. CASE NothingToDo
  BY <1>1, <1>7 DEF NothingToDo, ModbusUnchanged, txpath, TypeOK, EngineTypeOK,
     TxTypeOK, RxTypeOK, FrameHeld, HoldsFrame
<1>8. QED
  BY <1>2, <1>3, <1>4, <1>5, <1>6, <1>7 DEF Tick

------------------------------------------------------------------------------
(* The callbacks keep the types.                                           *)

\* Packets sent and requests held by the host.
HostTypeOK ==
  /\ host \subseteq TicketType
  /\ offered \in [epoch: Nat, packets: Nat]

\* What the host is sent of a request has its type.
LEMMA OfferTyped ==
  ASSUME Typed, HoldsFrame, NEW last \in BOOLEAN, Offer(last)
  PROVE  HostTypeOK'
<1>1. rx_frame \in Frame
  BY HeldFrameTyped DEF Typed, TypeOK, RxTypeOK
<1>2. request.id \in 0..IdMax /\ epoch \in Nat
  BY DEF Typed, TypeOK, EngineTypeOK, RequestType
<1>3. Ticket \in TicketType
  BY <1>1, <1>2 DEF Ticket, TicketType
<1>4. PacketsSent \in Nat
  BY DEF PacketsSent, Typed, TypeOK
<1>5. host \subseteq TicketType
  BY DEF Typed, TypeOK
<1>6. offered' \in [epoch: Nat, packets: Nat]
  BY <1>2, <1>4 DEF Offer
<1>7. host' \subseteq TicketType
  BY <1>3, <1>5 DEF Offer
<1>8. QED
  BY <1>6, <1>7 DEF HostTypeOK

\* A stream of packets has its type.
LEMMA StreamTyped ==
  ASSUME Typed, NEW f \in Frame
  PROVE  StreamOf(f) \in ChunkType
<1>1. f.count \in Nat
  BY DEF Frame
<1>2. QED
  BY <1>1 DEF StreamOf, ChunkType, Typed, TypeOK, EngineTypeOK

\* What the handlers of the callbacks do, taken together.
LEMMA CallbackEffect ==
  ASSUME NEW sendable \in BOOLEAN, SlaveCallback(sendable)
  PROVE  /\ request.state = "slave_processing" /\ request.cb_invoke
         /\ \/ /\ modbus_clear_request
               /\ UNCHANGED <<counters, tx_done, txirq, fifo, direction, host,
                              offered>>
            \/ \E invoke \in BOOLEAN : CallbackException(invoke)
            \/ OfferInOnePacket
            \/ send_stream_chunks(StreamOf(rx_frame), sendable)
            \/ CallbackRefused
<1>1. /\ request.state = "slave_processing" /\ request.cb_invoke
      /\ \/ \E fc : ReadCallback(fc, sendable)
         \/ \E fc : WriteMultipleCallback(fc, sendable)
         \/ CallbackException(TRUE) \/ OfferInOnePacket \/ CallbackRefused
  BY DEF SlaveCallback, CallbackDue, ReadCallback, WriteMultipleCallback,
     handle_modbus_slave_read_coils_request_callback,
     handle_modbus_slave_read_holding_registers_request_callback,
     handle_modbus_slave_read_discrete_inputs_request_callback,
     handle_modbus_slave_read_input_registers_request_callback,
     handle_modbus_slave_write_single_coil_request_callback,
     handle_modbus_slave_write_single_register_request_callback,
     handle_modbus_slave_write_multiple_coils_request_low_level_callback,
     handle_modbus_slave_write_multiple_registers_request_low_level_callback
<1>2. QED
  BY <1>1 DEF ReadCallback, WriteMultipleCallback

\* No handler of a callback breaks a type or moves the frame it reads.
LEMMA CallbackTyped ==
  ASSUME Typed, NEW sendable \in BOOLEAN, SlaveCallback(sendable),
         pc' \in {"tick", "callbacks", "messages"},
         UNCHANGED <<quiet, line, frames>>
  PROVE  Typed'
<1>1. request.state = "slave_processing"
  BY CallbackEffect
<1>2. \/ /\ modbus_clear_request
         /\ UNCHANGED <<counters, tx_done, txirq, fifo, direction, host, offered>>
      \/ \E invoke \in BOOLEAN : CallbackException(invoke)
      \/ OfferInOnePacket
      \/ send_stream_chunks(StreamOf(rx_frame), sendable)
      \/ CallbackRefused
  BY CallbackEffect
<1>3. HoldsFrame /\ rx_frame \in Frame
  BY <1>1, HeldFrameTyped DEF Typed, FrameHeld, TypeOK, RxTypeOK
<1>4. /\ counters \in [CounterNames -> Nat] /\ request \in RequestType
      /\ HostTypeOK /\ tx_done \in BOOLEAN /\ frames' \in Nat
  BY DEF Typed, TypeOK, EngineTypeOK, TxTypeOK, HostTypeOK
<1> SUFFICES /\ EngineTypeOK' /\ TxTypeOK(ResponseUnit)' /\ RxTypeOK(Byte)'
             /\ FrameHeld' /\ HostTypeOK'
  BY <1>4 DEF Typed, TypeOK, HostTypeOK
<1>5. CASE /\ modbus_clear_request
           /\ UNCHANGED <<counters, tx_done, txirq, fifo, direction, host, offered>>
  <2>1. <<>> \in Seq(Byte)
    OBVIOUS
  <2>2. HostTypeOK'
    BY <1>4, <1>5 DEF HostTypeOK
  <2>3. QED
    BY <1>4, <1>5, <2>1, <2>2, ClearedTyped DEF modbus_clear_request, Typed
<1>6. CASE \E invoke \in BOOLEAN : CallbackException(invoke)
  <2>1. PICK invoke \in BOOLEAN : CallbackException(invoke)
    BY <1>6
  <2>2. counters' \in [CounterNames -> Nat]
    BY <1>4, <2>1, CountTyped DEF CallbackException
  <2>3. request' \in RequestType /\ request'.state = request.state
    BY <1>4, <2>1 DEF CallbackException, RequestType
  <2>4. TxTypeOK(ResponseUnit)' /\ wire' \in WireStates
    BY <1>3, <2>1, ReportExceptionTyped DEF CallbackException, WireStates, Typed
  <2>5. EngineTypeOK' /\ RxTypeOK(Byte)' /\ HostTypeOK'
    BY <1>4, <2>1, <2>2, <2>3, <2>4 DEF CallbackException, Typed, TypeOK,
       EngineTypeOK, RxTypeOK, HostTypeOK
  <2>6. FrameHeld'
    BY <1>3, <2>1 DEF CallbackException, FrameHeld, HoldsFrame
  <2>7. QED
    BY <2>4, <2>5, <2>6
<1>7. CASE OfferInOnePacket
  <2>1. HostTypeOK'
    BY <1>3, <1>7, OfferTyped DEF OfferInOnePacket
  <2>2. request' \in RequestType
    BY <1>4, <1>7 DEF OfferInOnePacket, RequestType
  <2>3. EngineTypeOK' /\ TxTypeOK(ResponseUnit)' /\ RxTypeOK(Byte)'
    BY <1>7, <2>2 DEF OfferInOnePacket, txpath, Typed, TypeOK, EngineTypeOK,
       TxTypeOK, RxTypeOK
  <2>4. FrameHeld'
    BY <1>3, <1>7 DEF OfferInOnePacket, FrameHeld, HoldsFrame
  <2>5. QED
    BY <2>1, <2>3, <2>4
<1>8. CASE send_stream_chunks(StreamOf(rx_frame), sendable)
  <2> DEFINE s == StreamOf(rx_frame)
  <2>1. s \in ChunkType
    BY <1>3, StreamTyped
  <2>2. chunk' \in ChunkType
    <3>1. NoChunking \in ChunkType
      BY DEF NoChunking, ChunkType
    <3>2. [s EXCEPT !.current = @ + 1] \in ChunkType
      BY <2>1 DEF ChunkType
    <3>3. QED
      BY <1>8, <2>1, <3>1, <3>2 DEF send_stream_chunks
  <2>3. HostTypeOK'
    <3>1. CASE UNCHANGED <<host, offered>>
      BY <1>4, <3>1 DEF HostTypeOK
    <3>2. CASE \E last \in BOOLEAN : Offer(last)
      BY <1>3, <3>2, OfferTyped
    <3>3. QED
      BY <1>8, <3>1, <3>2 DEF send_stream_chunks
  <2>4. request' \in RequestType
    BY <1>4, <1>8 DEF send_stream_chunks, RequestType
  <2>5. wire' \in WireStates
    BY <1>8 DEF send_stream_chunks, WireStates, Typed, TypeOK, EngineTypeOK
  <2>6. EngineTypeOK' /\ TxTypeOK(ResponseUnit)' /\ RxTypeOK(Byte)'
    BY <1>8, <2>2, <2>4, <2>5 DEF send_stream_chunks, txpath, Typed, TypeOK,
       EngineTypeOK, TxTypeOK, RxTypeOK
  <2>7. FrameHeld'
    BY <1>3, <1>8 DEF send_stream_chunks, FrameHeld, HoldsFrame
  <2>8. QED
    BY <2>3, <2>6, <2>7
<1>9. CASE CallbackRefused
  BY <1>4, <1>9 DEF CallbackRefused, ModbusUnchanged, txpath, Typed, TypeOK,
     EngineTypeOK, TxTypeOK, RxTypeOK, FrameHeld, HoldsFrame, HostTypeOK
<1>10. QED
  BY <1>2, <1>5, <1>6, <1>7, <1>8, <1>9

------------------------------------------------------------------------------
(* The messages of the host keep the types.                                *)

\* What the calls of the host do, taken together.
LEMMA HostAnswerEffect ==
  ASSUME NEW t, t.frame.count \in Nat, HostAnswer(t)
  PROVE  \/ ModbusUnchanged
         \/ EndBroadcast
         \/ /\ request.state = "slave_processing"
            /\ modbus_report_exception
            /\ UNCHANGED <<rx_rb_last_length, request, chunk, counters, rx, epoch>>
         \/ /\ request.state = "slave_processing"
            /\ StoreAndStartTx(Answer(rx_frame, 1))
         \/ /\ request.state = "slave_processing"
            /\ \E total \in Nat : StoreAnswerChunk(t.frame, t.next, total)
<1>1. CASE modbus_slave_report_exception(t)
  BY <1>1 DEF modbus_slave_report_exception, modbus_slave_check_current_request
<1>2. CASE \E fc : AnswerWrite(fc, t)
  BY <1>2 DEF AnswerWrite, modbus_slave_check_current_request
<1>3. CASE \E total \in {t.frame.count, t.frame.count + 1} :
             \E fc : AnswerRead(fc, t, total)
  <2>1. PICK total \in {t.frame.count, t.frame.count + 1} :
          \E fc : AnswerRead(fc, t, total)
    BY <1>3
  <2>2. total \in Nat
    BY <2>1
  <2>3. QED
    BY <2>1, <2>2 DEF AnswerRead, modbus_slave_check_current_request
<1>4. \/ modbus_slave_report_exception(t)
      \/ \E fc : AnswerWrite(fc, t)
      \/ \E total \in {t.frame.count, t.frame.count + 1} :
           \E fc : AnswerRead(fc, t, total)
  <2>1. CASE \E total \in {t.frame.count, t.frame.count + 1} :
          \/ modbus_slave_answer_read_coils_request_low_level(t, total)
          \/ modbus_slave_answer_read_holding_registers_request_low_level(t, total)
          \/ modbus_slave_answer_read_discrete_inputs_request_low_level(t, total)
          \/ modbus_slave_answer_read_input_registers_request_low_level(t, total)
    BY <2>1 DEF
       modbus_slave_answer_read_coils_request_low_level,
       modbus_slave_answer_read_holding_registers_request_low_level,
       modbus_slave_answer_read_discrete_inputs_request_low_level,
       modbus_slave_answer_read_input_registers_request_low_level
  <2>2. CASE \/ modbus_slave_answer_write_single_coil_request(t)
             \/ modbus_slave_answer_write_single_register_request(t)
             \/ modbus_slave_answer_write_multiple_coils_request(t)
             \/ modbus_slave_answer_write_multiple_registers_request(t)
    BY <2>2 DEF
       modbus_slave_answer_write_single_coil_request,
       modbus_slave_answer_write_single_register_request,
       modbus_slave_answer_write_multiple_coils_request,
       modbus_slave_answer_write_multiple_registers_request
  <2>3. QED
    BY <2>1, <2>2 DEF HostAnswer
<1>5. QED
  BY <1>1, <1>2, <1>3, <1>4

\* The host loses the ticket it used, keeps it, or goes on to its next chunk.
LEMMA HostAnswerTicket ==
  ASSUME NEW t, HostAnswer(t)
  PROVE  \/ host' = host \/ host' = host \ {t}
         \/ host' = (host \ {t}) \cup {[t EXCEPT !.next = @ + 1]}
  BY DEF HostAnswer, AnswerRead, AnswerWrite,
     modbus_slave_report_exception,
     modbus_slave_answer_write_single_coil_request,
     modbus_slave_answer_write_single_register_request,
     modbus_slave_answer_write_multiple_coils_request,
     modbus_slave_answer_write_multiple_registers_request,
     modbus_slave_answer_read_coils_request_low_level,
     modbus_slave_answer_read_holding_registers_request_low_level,
     modbus_slave_answer_read_discrete_inputs_request_low_level,
     modbus_slave_answer_read_input_registers_request_low_level

LEMMA HandleMessageTyped ==
  ASSUME Typed, HandleMessage
  PROVE  Typed'
<1>1. PICK t \in host : HostHolds(t) /\ HostAnswer(t)
  BY DEF HandleMessage
<1>2. /\ t \in TicketType /\ t.frame \in Frame /\ t.next \in Nat
      /\ t.frame.count \in Nat
      /\ host \subseteq TicketType
      /\ UNCHANGED <<pc, quiet, line, frames, offered>>
      /\ pc' \in {"tick", "callbacks", "messages"}
      /\ counters \in [CounterNames -> Nat]
      /\ tx_done \in BOOLEAN
  BY <1>1 DEF HandleMessage, Typed, TypeOK, EngineTypeOK, TxTypeOK, TicketType,
     Frame
<1>3. host' \subseteq TicketType
  <2>1. [t EXCEPT !.next = @ + 1] \in TicketType
    BY <1>2 DEF TicketType
  <2>2. \/ host' = host \/ host' = host \ {t}
        \/ host' = (host \ {t}) \cup {[t EXCEPT !.next = @ + 1]}
    BY <1>1, HostAnswerTicket
  <2>3. QED
    BY <1>2, <2>1, <2>2
<1>4. \/ ModbusUnchanged
      \/ EndBroadcast
      \/ /\ request.state = "slave_processing"
         /\ modbus_report_exception
         /\ UNCHANGED <<rx_rb_last_length, request, chunk, counters, rx, epoch>>
      \/ /\ request.state = "slave_processing"
         /\ StoreAndStartTx(Answer(rx_frame, 1))
      \/ /\ request.state = "slave_processing"
         /\ \E total \in Nat : StoreAnswerChunk(t.frame, t.next, total)
  BY <1>1, <1>2, HostAnswerEffect
<1> SUFFICES /\ EngineTypeOK' /\ TxTypeOK(ResponseUnit)' /\ RxTypeOK(Byte)'
             /\ FrameHeld'
  BY <1>2, <1>3 DEF Typed, TypeOK
<1>5. CASE ModbusUnchanged
  BY <1>2, <1>5 DEF ModbusUnchanged, txpath, Typed, TypeOK, EngineTypeOK,
     TxTypeOK, RxTypeOK, FrameHeld, HoldsFrame
<1>6. CASE EndBroadcast
  <2>1. <<>> \in Seq(Byte)
    OBVIOUS
  <2>2. QED
    BY <1>2, <1>6, <2>1, ClearedTyped DEF EndBroadcast, modbus_clear_request,
       Typed
<1>7. CASE /\ request.state = "slave_processing"
           /\ modbus_report_exception
           /\ UNCHANGED <<rx_rb_last_length, request, chunk, counters, rx, epoch>>
  <2>1. HoldsFrame
    BY <1>7 DEF Typed, FrameHeld
  <2>2. TxTypeOK(ResponseUnit)' /\ wire' \in WireStates
    BY <1>7, <2>1, ReportExceptionTyped DEF Typed, WireStates
  <2>3. QED
    BY <1>2, <1>7, <2>1, <2>2
       DEF Typed, TypeOK, EngineTypeOK, RxTypeOK, FrameHeld, HoldsFrame
<1>8. CASE \E bytes \in Seq(ResponseUnit) :
             /\ request.state = "slave_processing"
             /\ tx' = tx \o bytes
             /\ \/ modbus_start_tx_from_buffer \/ UNCHANGED <<wire, txirq>>
             /\ UNCHANGED <<rx_rb_last_length, request, chunk, counters, rx,
                            epoch, tx_done, tx_start, fifo, direction>>
  <2>1. PICK bytes \in Seq(ResponseUnit) : tx' = tx \o bytes
    BY <1>8
  <2>2. tx' \in Seq(ResponseUnit) /\ tx_start' \in 0..Len(tx')
    BY <1>8, <2>1 DEF Typed, TypeOK, TxTypeOK
  <2>3. TxTypeOK(ResponseUnit)' /\ wire' \in WireStates
    BY <1>8, <2>2 DEF modbus_start_tx_from_buffer, WireStates, Typed, TypeOK,
       TxTypeOK, EngineTypeOK
  <2>4. HoldsFrame
    BY <1>8 DEF Typed, FrameHeld
  <2>5. QED
    BY <1>2, <1>8, <2>3, <2>4
       DEF Typed, TypeOK, EngineTypeOK, RxTypeOK, FrameHeld, HoldsFrame
<1>9. CASE /\ request.state = "slave_processing"
           /\ StoreAndStartTx(Answer(rx_frame, 1))
  <2>1. rx_frame \in Frame
    BY <1>9, HeldFrameTyped DEF Typed, FrameHeld, TypeOK, RxTypeOK
  <2>2. Answer(rx_frame, 1) \in Seq(ResponseUnit)
    BY <2>1, ResponsesTyped
  <2>3. QED
    BY <1>8, <1>9, <2>2 DEF StoreAndStartTx
<1>10. CASE /\ request.state = "slave_processing"
            /\ \E total \in Nat : StoreAnswerChunk(t.frame, t.next, total)
  <2>1. PICK total \in Nat : StoreAnswerChunk(t.frame, t.next, total)
    BY <1>10
  <2>2. AnswerChunk(t.frame, t.next, total) \in Seq(ResponseUnit)
    BY <1>2, ResponsesTyped
  <2>3. QED
    BY <1>8, <1>10, <2>1, <2>2 DEF StoreAnswerChunk, StoreAndStartTx
<1>11. QED
  BY <1>4, <1>5, <1>6, <1>7, <1>9, <1>10

------------------------------------------------------------------------------
(* Bytes on the bus and interrupts keep the types.                         *)

\* Bytes on the bus only ever come in behind the frame.
LEMMA BusByteKeepsFrame ==
  ASSUME Typed, NEW bytes \in Seq(Byte), BusByte(bytes),
         frames' \in Nat, UNCHANGED <<host, offered>>
  PROVE  Typed'
<1>1. Noise \in Byte
  BY DEF Byte
<1>2. EngineTypeOK' /\ TxTypeOK(ResponseUnit)' /\ RxTypeOK(Byte)'
  BY <1>1, BusByteTyped DEF Typed, TypeOK
<1>3. bytes # <<>> /\ Head(bytes) \in Byte
  BY DEF BusByte
<1>4. rx' = rx \/ \E b \in Byte : rx' = Append(rx, b)
  BY <1>1, <1>3 DEF BusByte, rs485_rx_irq_handler
<1>5. FrameHeld'
  BY <1>4, HeldFrameStays DEF BusByte, FrameHeld, Typed, TypeOK, RxTypeOK
<1>6. QED
  BY <1>2, <1>5 DEF Typed, TypeOK

\* A bus master's next frame begins with a byte like any other.
LEMMA NextFrameBytes ==
  ASSUME Typed, NextFrame
  PROVE  \E bytes \in Seq(Byte) : BusByte(bytes)
<1>1. PICK f \in BusFrames :
        BusByte(FrameBytes([addr |-> f.addr, fc |-> f.fc, count |-> f.count,
                            tag |-> frames + 1]))
  BY DEF NextFrame
<1>2. frames \in Nat /\ f \in FrameKind
  BY <1>1, SlaveAssumption DEF Typed, TypeOK
<1>3. [addr |-> f.addr, fc |-> f.fc, count |-> f.count, tag |-> frames + 1]
        \in Frame
  BY <1>2 DEF FrameKind, Frame
<1>4. QED
  BY <1>1, <1>3, FrameBytesTyped

LEMMA InterruptTyped ==
  ASSUME Typed, TxInterrupt \/ TffInterrupt
  PROVE  Typed'
<1>1. EngineTypeOK' /\ TxTypeOK(ResponseUnit)' /\ RxTypeOK(Byte)'
  BY TxInterruptTyped, TffInterruptTyped
     DEF TxInterrupt, TffInterrupt, Typed, TypeOK
<1>2. UNCHANGED <<frames, host, offered, request, wire, rx>>
  BY DEF TxInterrupt, TffInterrupt, rs485_tx_irq_handler, rs485_tff_irq_handler,
     slave_vars
<1>3. QED
  BY <1>1, <1>2 DEF Typed, TypeOK, FrameHeld, HoldsFrame

------------------------------------------------------------------------------
(* Type correctness.                                                       *)

LEMMA InitiallyTyped ==
  ASSUME Init
  PROVE  Typed
<1>1. EngineTypeOK /\ TxTypeOK(ResponseUnit) /\ RxTypeOK(Byte)
  BY InitTyped DEF Init
<1>2. FrameHeld
  BY DEF Init, RTUInit, modbus_init, ReadyRequest, FrameHeld
<1>3. QED
  BY <1>1, <1>2 DEF Init, Typed, TypeOK

LEMMA StepTyped ==
  ASSUME Typed, [Next]_vars
  PROVE  Typed'
<1>1. CASE Tick
  BY <1>1, TickTyped
<1>2. CASE \E sendable \in BOOLEAN : InvokeCallback(sendable)
  BY <1>2, CallbackTyped DEF InvokeCallback
<1>3. CASE HandleMessage
  BY <1>3, HandleMessageTyped
<1>4. CASE SkipCallbacks \/ EndOfLoop \/ QuietBus \/ UNCHANGED vars
  BY <1>4 DEF SkipCallbacks, CallbackRefused, EndOfLoop, HostMessage, QuietBus,
     Silence, ModbusUnchanged, txpath, slave_vars, rtu_vars, vars, Typed,
     TypeOK, EngineTypeOK, TxTypeOK, RxTypeOK, FrameHeld, HoldsFrame
<1>5. CASE NextFrame
  BY <1>5, NextFrameBytes, BusByteKeepsFrame DEF NextFrame, Typed, TypeOK
<1>6. CASE NextByte
  BY <1>6, BusByteKeepsFrame DEF NextByte, slave_vars, Typed, TypeOK, RxTypeOK
<1>7. CASE TxInterrupt \/ TffInterrupt
  BY <1>7, InterruptTyped
<1>8. QED
  BY <1>1, <1>2, <1>3, <1>4, <1>5, <1>6, <1>7 DEF Next, MainLoop

\* Every variable has its type, and the frame of a request that is processed
\* or answered stays in the RX ring.
LEMMA TypedAlways == Spec => []Typed
<1>1. Init => Typed
  BY InitiallyTyped
<1>2. Typed /\ [Next]_vars => Typed'
  BY StepTyped
<1>3. QED
  BY <1>1, <1>2, PTL DEF Spec

\* Every variable keeps its type for all frames, id widths and buffer sizes:
\* the handlers never take a damaged byte for the head of a request, and the
\* interrupts never take more from the TX ring than was put in.
THEOREM TypeCorrect == Spec => []TypeOK
<1>1. Typed => TypeOK
  BY DEF Typed
<1>2. QED
  BY <1>1, TypedAlways, PTL

------------------------------------------------------------------------------
(***************************************************************************)
(* Frames end with a silence.  The length of the ring that is remembered   *)
(* never exceeds the ring, so a ring as long as the one remembered has not *)
(* grown since the wire was last in RX, and that ended with the silence.   *)
(***************************************************************************)
Silenced ==
  /\ rx_rb_last_length <= Len(rx)
  /\ FrameOnlyAfterSilence

\* A step after which there is no frame to judge, or the same as before.
LEMMA SilencedByShape ==
  ASSUME Typed, Silenced,
         \/ rx' = <<>> /\ rx_rb_last_length' = 0
         \/ wire' # "idle" /\ rx_rb_last_length' <= Len(rx')
         \/ request'.state # "ready" /\ UNCHANGED <<rx, rx_rb_last_length>>
         \/ /\ UNCHANGED <<wire, rx, rx_rb_last_length>>
            /\ request'.state = request.state
            /\ quiet' = quiet \/ quiet'
         \/ quiet' /\ UNCHANGED <<rx, rx_rb_last_length>>
  PROVE  Silenced'
<1>1. Len(<<>>) = 0
  OBVIOUS
<1>2. QED
  BY <1>1 DEF Silenced, FrameOnlyAfterSilence, FrameAvailable

\* A byte that comes in makes the ring longer than remembered; a ring too full
\* to take it is longer than any frame.
LEMMA BusByteSilenced ==
  ASSUME Typed, Silenced, NEW bytes \in Seq(Byte), BusByte(bytes)
  PROVE  Silenced'
<1>1. rx \in Seq(Byte) /\ rx_rb_last_length \in Nat
  BY DEF Typed, TypeOK, RxTypeOK, EngineTypeOK
<1>2. UNCHANGED <<wire, rx_rb_last_length, request>>
  BY DEF BusByte
<1>3. bytes # <<>> /\ Head(bytes) \in Byte /\ Noise \in Byte
  BY DEF BusByte, Byte
<1>4. CASE UNCHANGED <<rx, quiet, counters>>
  BY <1>2, <1>4, SilencedByShape
<1>5. CASE \E b \in Byte : rx' = Append(rx, b)
  <2>1. Len(rx') = Len(rx) + 1
    BY <1>1, <1>5
  <2>2. QED
    BY <1>1, <1>2, <2>1 DEF Silenced, FrameOnlyAfterSilence, FrameAvailable
<1>6. CASE rx' = rx /\ Len(rx) >= RxSize - 1
  <2>1. Len(rx) > FrameSizeMax
    BY <1>1, <1>6, RTUAssumption
  <2>2. QED
    BY <1>1, <1>2, <1>6, <2>1, RTUAssumption
       DEF Silenced, FrameOnlyAfterSilence, FrameAvailable
<1>7. QED
  <2>1. \/ UNCHANGED <<rx, quiet, counters>>
        \/ \E b \in {Head(bytes), Noise} : rs485_rx_irq_handler(b)
    BY DEF BusByte
  <2>2. ASSUME NEW b \in {Head(bytes), Noise}, rs485_rx_irq_handler(b)
        PROVE  \/ \E c \in Byte : rx' = Append(rx, c)
               \/ rx' = rx /\ Len(rx) >= RxSize - 1
    BY <1>1, <1>3, <2>2, RTUAssumption DEF rs485_rx_irq_handler
  <2>3. QED
    BY <1>4, <1>5, <1>6, <2>1, <2>2

LEMMA TickSilenced ==
  ASSUME Typed, Silenced, Tick
  PROVE  Silenced'
<1>1. rx \in Seq(Byte) /\ Len(rx) \in Nat /\ rx_rb_last_length \in Nat
      /\ UNCHANGED quiet
  BY DEF Tick, Typed, TypeOK, RxTypeOK, EngineTypeOK
<1>2. CASE SlaveRequestTimeout
  <2>1. wire' = "rx" /\ rx_rb_last_length' = 0
        /\ rx' = BytesMoved(Len(rx) - request.length)
    BY <1>2 DEF SlaveRequestTimeout, ClearRequestTo
  <2>2. rx' \in Seq(Byte)
    BY TickTyped DEF Typed, TypeOK, RxTypeOK
  <2>3. 0 <= Len(rx')
    BY <2>2
  <2>4. QED
    BY <2>1, <2>3, SilencedByShape
<1>3. CASE SlaveNewData
  BY <1>1, <1>3, SilencedByShape DEF SlaveNewData, StartRx
<1>4. CASE SlaveFrame
  <2>1. CASE \E names : RejectFrame(names)
    BY <2>1, SilencedByShape
       DEF RejectFrame, modbus_clear_request, ClearRequestTo
  <2>2. CASE ReportIllegalFunction
    BY <2>2, SilencedByShape DEF ReportIllegalFunction, modbus_report_exception,
       modbus_start_tx_from_buffer, Silenced
  <2>3. CASE AcceptRequest
    <3>1. request'.state = "slave_processing"
      BY <1>1, <2>3, NewRequestTyped
         DEF AcceptRequest, Typed, TypeOK, RequestStates
    <3>2. QED
      BY <2>3, <3>1, SilencedByShape DEF AcceptRequest
  <2>4. QED
    BY <1>4, <2>1, <2>2, <2>3 DEF SlaveFrame
<1>5. CASE RxGap
  BY <1>1, <1>5, SilencedByShape DEF RxGap
<1>6. CASE SlaveTxDone
  BY <1>6, SilencedByShape DEF SlaveTxDone, modbus_clear_request, ClearRequestTo
<1>7. CASE NothingToDo
  BY <1>1, <1>7, SilencedByShape DEF NothingToDo, ModbusUnchanged
<1>8. QED
  BY <1>2, <1>3, <1>4, <1>5, <1>6, <1>7 DEF Tick

LEMMA CallbackSilenced ==
  ASSUME Typed, Silenced, NEW sendable \in BOOLEAN, SlaveCallback(sendable),
         UNCHANGED quiet
  PROVE  Silenced'
<1>1. request.state = "slave_processing" /\ request \in RequestType
      /\ rx_rb_last_length <= Len(rx)
  BY CallbackEffect DEF Typed, TypeOK, EngineTypeOK, Silenced
<1>2. CASE modbus_clear_request
  BY <1>2, SilencedByShape DEF modbus_clear_request, ClearRequestTo
<1>3. CASE \E invoke \in BOOLEAN : CallbackException(invoke)
  BY <1>1, <1>3, SilencedByShape DEF CallbackException, modbus_report_exception,
     modbus_start_tx_from_buffer
<1>4. CASE OfferInOnePacket
  BY <1>1, <1>4, SilencedByShape DEF OfferInOnePacket, RequestType
<1>5. CASE send_stream_chunks(StreamOf(rx_frame), sendable)
  <2>1. request'.state = "slave_processing"
    BY <1>1, <1>5 DEF send_stream_chunks, RequestType
  <2>2. QED
    BY <1>5, <2>1, SilencedByShape DEF send_stream_chunks
<1>6. CASE CallbackRefused
  BY <1>6, SilencedByShape DEF CallbackRefused, ModbusUnchanged
<1>7. QED
  BY <1>2, <1>3, <1>4, <1>5, <1>6, CallbackEffect

LEMMA HandleMessageSilenced ==
  ASSUME Typed, Silenced, HandleMessage
  PROVE  Silenced'
<1>1. PICK t \in host : HostHolds(t) /\ HostAnswer(t)
  BY DEF HandleMessage
<1>2. t.frame.count \in Nat /\ UNCHANGED quiet
  BY <1>1 DEF HandleMessage, Typed, TypeOK, TicketType, Frame
<1>3. \/ UNCHANGED <<wire, rx, rx_rb_last_length, request>>
      \/ modbus_clear_request
      \/ wire' = "tx" /\ UNCHANGED <<rx, rx_rb_last_length>>
  BY <1>1, <1>2, HostAnswerEffect
     DEF ModbusUnchanged, EndBroadcast, modbus_report_exception,
         modbus_start_tx_from_buffer, StoreAndStartTx, StoreAnswerChunk
<1>4. QED
  BY <1>2, <1>3, SilencedByShape
     DEF modbus_clear_request, ClearRequestTo, Silenced

LEMMA StepSilenced ==
  ASSUME Typed, Silenced, [Next]_vars
  PROVE  Silenced'
<1>1. CASE Tick
  BY <1>1, TickSilenced
<1>2. CASE \E sendable \in BOOLEAN : InvokeCallback(sendable)
  BY <1>2, CallbackSilenced DEF InvokeCallback
<1>3. CASE HandleMessage
  BY <1>3, HandleMessageSilenced
<1>4. CASE \/ SkipCallbacks \/ EndOfLoop \/ QuietBus
           \/ TxInterrupt \/ TffInterrupt \/ UNCHANGED vars
  <2>1. UNCHANGED <<wire, rx, rx_rb_last_length, request>>
        /\ (quiet' = quiet \/ quiet')
    BY <1>4 DEF SkipCallbacks, CallbackRefused, EndOfLoop, QuietBus, Silence,
       TxInterrupt, rs485_tx_irq_handler, TffInterrupt, rs485_tff_irq_handler,
       ModbusUnchanged, rtu_vars, vars
  <2>2. QED
    BY <2>1, SilencedByShape
<1>5. CASE NextFrame
  BY <1>5, NextFrameBytes, BusByteSilenced DEF NextFrame
<1>6. CASE NextByte
  BY <1>6, BusByteSilenced DEF NextByte, Typed, TypeOK, RxTypeOK
<1>7. QED
  BY <1>1, <1>2, <1>3, <1>4, <1>5, <1>6 DEF Next, MainLoop

\* The wire state machine takes the contents of the RX ring for a frame only
\* after the silence that ends a frame, whatever the order in which bytes,
\* timer interrupt and ticks come.
THEOREM FramesEndWithSilence == Spec => []FrameOnlyAfterSilence
<1>1. Init => Silenced
  <2>1. ASSUME Init PROVE rx = <<>> /\ rx_rb_last_length = 0 /\ quiet = TRUE
    BY <2>1 DEF Init, RTUInit, modbus_init
  <2>2. QED
    BY <2>1 DEF Silenced, FrameOnlyAfterSilence
<1>2. Typed /\ Silenced /\ [Next]_vars => Silenced'
  BY StepSilenced
<1>3. Silenced => FrameOnlyAfterSilence
  BY DEF Silenced
<1>4. QED
  BY <1>1, <1>2, <1>3, TypedAlways, PTL DEF Spec

------------------------------------------------------------------------------
(***************************************************************************)
(* Answers reach their own request.  request.id is advanced with every     *)
(* request that begins and with every one that is cleared, and wraps       *)
(* around; a new request skips 0.  So k advances after an id the id in use *)
(* is k larger or, after the wrap-around, smaller by IdMax + 1 - k or by   *)
(* IdMax - k: within fewer than IdMax advances it never is the old one.    *)
(***************************************************************************)
Advanced(id, k, now) ==
  IF k = 0 THEN now = id
  ELSE now \in {id + k, id + k - IdMax - 1, id + k - IdMax}

IdsAdvanced ==
  /\ request.state = "slave_processing" => request.id # 0
  /\ \A t \in host :
       /\ t.id # 0 /\ t.epoch <= epoch
       /\ epoch - t.epoch < IdMax => Advanced(t.id, epoch - t.epoch, request.id)
       /\ t.epoch = epoch /\ request.state = "slave_processing"
            => t.frame = rx_frame

\* One advance, with or without the skip of 0.
LEMMA AdvanceOnce ==
  ASSUME NEW id \in 1..IdMax, NEW now \in 0..IdMax, NEW k \in Nat,
         Advanced(id, k, now), k + 1 < IdMax,
         NEW next \in {IncrementId(now), NextRequestId(now)}
  PROVE  Advanced(id, k + 1, next)
<1>1. next = (IF now = IdMax THEN 0 ELSE now + 1)
        \/ next = (IF now = IdMax THEN 1 ELSE now + 1)
  BY IncrementIdValue DEF NextRequestId
<1>2. QED
  BY <1>1, RTUAssumption DEF Advanced

\* The id does not come back within fewer than IdMax advances.
LEMMA IdNotBack ==
  ASSUME NEW id \in 1..IdMax, NEW k \in Nat, k < IdMax, Advanced(id, k, id)
  PROVE  k = 0
  BY RTUAssumption DEF Advanced

\* A ticket that was there before, perhaps with another chunk to send next.
OldTickets ==
  \A u \in host' : \E t \in host :
     u.id = t.id /\ u.epoch = t.epoch /\ u.frame = t.frame

\* A step that stays with the request; the host may be offered it.
LEMMA IdsKept ==
  ASSUME Typed, IdsAdvanced, epoch' = epoch, request'.id = request.id,
         request'.state = request.state,
         request.state = "slave_processing" => rx_frame' = rx_frame,
         \/ OldTickets
         \/ request.state = "slave_processing" /\ host' = host \cup {Ticket}
  PROVE  IdsAdvanced'
<1>1. epoch \in Nat
  BY DEF Typed, TypeOK, EngineTypeOK
<1>2. ASSUME NEW u \in host', NEW t \in host,
             u.id = t.id, u.epoch = t.epoch, u.frame = t.frame
      PROVE  /\ u.id # 0 /\ u.epoch <= epoch
             /\ epoch - u.epoch < IdMax
                  => Advanced(u.id, epoch - u.epoch, request.id)
             /\ u.epoch = epoch /\ request.state = "slave_processing"
                  => u.frame = rx_frame
  BY <1>2 DEF IdsAdvanced
<1>3. ASSUME request.state = "slave_processing"
      PROVE  /\ Ticket.id # 0 /\ Ticket.epoch <= epoch
             /\ Advanced(Ticket.id, epoch - Ticket.epoch, request.id)
             /\ Ticket.frame = rx_frame
  BY <1>1, <1>3 DEF IdsAdvanced, Ticket, Advanced
<1>4. \A u \in host' :
        /\ u.id # 0 /\ u.epoch <= epoch
        /\ epoch - u.epoch < IdMax => Advanced(u.id, epoch - u.epoch, request.id)
        /\ u.epoch = epoch /\ request.state = "slave_processing"
             => u.frame = rx_frame
  <2>1. CASE OldTickets
    BY <1>2, <2>1 DEF OldTickets
  <2>2. CASE request.state = "slave_processing" /\ host' = host \cup {Ticket}
    BY <1>3, <2>2 DEF IdsAdvanced
  <2>3. QED
    BY <2>1, <2>2
<1>5. QED
  BY <1>4 DEF IdsAdvanced, Advanced

\* A step that clears the request or begins a new one.
LEMMA IdsAdvance ==
  ASSUME Typed, IdsAdvanced, epoch' = epoch + 1, OldTickets,
         request'.id \in {IncrementId(request.id), NextRequestId(request.id)},
         request'.state = "slave_processing" => request'.id # 0
  PROVE  IdsAdvanced'
<1>1. epoch \in Nat /\ request.id \in 0..IdMax /\ host \subseteq TicketType
  BY DEF Typed, TypeOK, EngineTypeOK, RequestType
<1>2. SUFFICES ASSUME NEW u \in host'
               PROVE  /\ u.id # 0 /\ u.epoch <= epoch'
                      /\ epoch' - u.epoch < IdMax
                           => Advanced(u.id, epoch' - u.epoch, request'.id)
                      /\ u.epoch # epoch'
  BY DEF IdsAdvanced, Advanced
<1>3. PICK t \in host : u.id = t.id /\ u.epoch = t.epoch /\ u.frame = t.frame
  BY DEF OldTickets
<1>4. /\ t.id \in 1..IdMax /\ t.epoch \in Nat /\ t.epoch <= epoch
      /\ epoch - t.epoch < IdMax => Advanced(t.id, epoch - t.epoch, request.id)
  BY <1>1, <1>3 DEF IdsAdvanced, TicketType
<1>5. CASE epoch' - t.epoch < IdMax
  <2>1. /\ epoch - t.epoch \in Nat /\ (epoch - t.epoch) + 1 < IdMax
        /\ epoch' - t.epoch = (epoch - t.epoch) + 1
    BY <1>1, <1>4, <1>5, RTUAssumption
  <2>2. Advanced(t.id, epoch - t.epoch, request.id)
    BY <1>4, <2>1, RTUAssumption
  <2>3. Advanced(t.id, (epoch - t.epoch) + 1, request'.id)
    BY <1>1, <1>4, <2>1, <2>2, AdvanceOnce
  <2>4. QED
    BY <1>1, <1>3, <1>4, <2>1, <2>3
<1>6. CASE ~(epoch' - t.epoch < IdMax)
  BY <1>1, <1>3, <1>4, <1>6
<1>7. QED
  BY <1>5, <1>6

\* Clearing a request is one advance.
LEMMA IdsCleared ==
  ASSUME Typed, IdsAdvanced, NEW w, NEW r, ClearRequestTo(w, r), OldTickets
  PROVE  IdsAdvanced'
  BY IdsAdvance DEF ClearRequestTo, ReadyRequest

LEMMA TickIds ==
  ASSUME Typed, IdsAdvanced, Tick
  PROVE  IdsAdvanced'
<1>1. OldTickets
  BY DEF Tick, slave_vars, OldTickets
<1>2. CASE \E w, r : ClearRequestTo(w, r)
  BY <1>1, <1>2, IdsCleared
<1>3. CASE AcceptRequest
  <2>1. request.id \in 0..IdMax
    BY DEF Typed, TypeOK, EngineTypeOK, RequestType
  <2>2. epoch' = epoch + 1 /\ request'.id = NextRequestId(request.id)
    BY <1>3, NewRequestTyped DEF AcceptRequest, modbus_init_new_request, Typed,
       TypeOK, EngineTypeOK, RequestType
  <2>3. request'.id # 0
    BY <2>1, <2>2, NextRequestIdValue
  <2>4. QED
    BY <1>1, <2>2, <2>3, IdsAdvance
<1>4. CASE UNCHANGED <<request, epoch, rx>>
  BY <1>1, <1>4, IdsKept DEF rx_frame
<1>5. QED
  BY <1>2, <1>3, <1>4 DEF Tick, SlaveRequestTimeout, SlaveNewData, StartRx,
     SlaveFrame, RejectFrame, ReportIllegalFunction, RxGap, SlaveTxDone,
     modbus_clear_request, NothingToDo, ModbusUnchanged

LEMMA CallbackIds ==
  ASSUME Typed, IdsAdvanced, NEW sendable \in BOOLEAN, SlaveCallback(sendable)
  PROVE  IdsAdvanced'
<1>1. request \in RequestType /\ request.state = "slave_processing"
  BY CallbackEffect DEF Typed, TypeOK, EngineTypeOK
<1>2. CASE modbus_clear_request /\ UNCHANGED host
  BY <1>2, IdsCleared DEF modbus_clear_request, OldTickets
<1>3. CASE /\ UNCHANGED <<epoch, rx>>
           /\ request'.id = request.id /\ request'.state = request.state
           /\ \/ UNCHANGED host
              \/ host' = host \cup {Ticket}
  BY <1>1, <1>3, IdsKept DEF rx_frame, OldTickets
<1>4. CASE \E invoke \in BOOLEAN : CallbackException(invoke)
  BY <1>1, <1>3, <1>4 DEF CallbackException, RequestType
<1>5. CASE OfferInOnePacket
  BY <1>1, <1>3, <1>5 DEF OfferInOnePacket, Offer, RequestType
<1>6. CASE send_stream_chunks(StreamOf(rx_frame), sendable)
  BY <1>1, <1>3, <1>6 DEF send_stream_chunks, Offer, RequestType
<1>7. CASE CallbackRefused
  BY <1>3, <1>7 DEF CallbackRefused, ModbusUnchanged
<1>8. QED
  BY <1>2, <1>4, <1>5, <1>6, <1>7, CallbackEffect

LEMMA HandleMessageIds ==
  ASSUME Typed, IdsAdvanced, HandleMessage
  PROVE  IdsAdvanced'
<1>1. PICK t \in host : HostHolds(t) /\ HostAnswer(t)
  BY DEF HandleMessage
<1>2. t \in TicketType /\ t.frame.count \in Nat
  BY <1>1 DEF Typed, TypeOK, TicketType, Frame
<1>3. OldTickets
  <2> DEFINE n == [t EXCEPT !.next = @ + 1]
  <2>1. n.id = t.id /\ n.epoch = t.epoch /\ n.frame = t.frame
    BY <1>2 DEF TicketType
  <2>2. host' \subseteq host \cup {n}
    BY <1>1, HostAnswerTicket
  <2> HIDE DEF n
  <2>3. QED
    BY <1>1, <2>1, <2>2 DEF OldTickets
<1>4. UNCHANGED <<request, epoch, rx>> \/ modbus_clear_request
  BY <1>1, <1>2, HostAnswerEffect
     DEF ModbusUnchanged, EndBroadcast, modbus_report_exception,
         StoreAndStartTx, StoreAnswerChunk
<1>5. QED
  BY <1>3, <1>4, IdsKept, IdsCleared DEF modbus_clear_request, rx_frame

\* A byte on the bus does not change the frame of the request.
LEMMA BusByteIds ==
  ASSUME Typed, IdsAdvanced, NEW bytes \in Seq(Byte), BusByte(bytes),
         UNCHANGED host
  PROVE  IdsAdvanced'
<1>1. bytes # <<>> /\ Head(bytes) \in Byte /\ Noise \in Byte
  BY DEF BusByte, Byte
<1>2. rx' = rx \/ \E b \in Byte : rx' = Append(rx, b)
  BY <1>1 DEF BusByte, rs485_rx_irq_handler
<1>3. request.state = "slave_processing" => rx_frame' = rx_frame
  BY <1>2, HeldFrameStays DEF Typed, FrameHeld, TypeOK, RxTypeOK
<1>4. QED
  BY <1>3, IdsKept DEF BusByte, OldTickets

LEMMA StepIds ==
  ASSUME Typed, IdsAdvanced, [Next]_vars
  PROVE  IdsAdvanced'
<1>1. CASE Tick
  BY <1>1, TickIds
<1>2. CASE \E sendable \in BOOLEAN : InvokeCallback(sendable)
  BY <1>2, CallbackIds DEF InvokeCallback
<1>3. CASE HandleMessage
  BY <1>3, HandleMessageIds
<1>4. CASE \/ SkipCallbacks \/ EndOfLoop \/ QuietBus
           \/ TxInterrupt \/ TffInterrupt \/ UNCHANGED vars
  <2>1. UNCHANGED <<request, epoch, rx, host>>
    BY <1>4 DEF SkipCallbacks, CallbackRefused, EndOfLoop, QuietBus, Silence,
       TxInterrupt, rs485_tx_irq_handler, TffInterrupt, rs485_tff_irq_handler,
       ModbusUnchanged, rtu_vars, slave_vars, vars
  <2>2. QED
    BY <2>1, IdsKept DEF OldTickets, rx_frame
<1>5. CASE NextFrame
  BY <1>5, NextFrameBytes, BusByteIds DEF NextFrame
<1>6. CASE NextByte
  BY <1>6, BusByteIds DEF NextByte, slave_vars, Typed, TypeOK, RxTypeOK
<1>7. QED
  BY <1>1, <1>2, <1>3, <1>4, <1>5, <1>6 DEF Next, MainLoop

\* An id that is accepted is that of a ticket for the current request.
LEMMA AcceptedIsCurrent ==
  ASSUME Typed, IdsAdvanced, NEW t \in host, HostHolds(t),
         modbus_slave_check_current_request(t.id)
  PROVE  t.epoch = epoch /\ t.frame = rx_frame
<1>1. /\ t.id \in 1..IdMax /\ t.epoch \in Nat /\ epoch \in Nat
      /\ t.epoch <= epoch /\ epoch - t.epoch < IdMax
      /\ request.id = t.id /\ request.state = "slave_processing"
      /\ Advanced(t.id, epoch - t.epoch, request.id)
  BY DEF Typed, TypeOK, EngineTypeOK, TicketType, IdsAdvanced, HostHolds,
     modbus_slave_check_current_request
<1>2. epoch - t.epoch \in Nat
  BY <1>1
<1>3. epoch - t.epoch = 0
  BY <1>1, <1>2, IdNotBack
<1>4. QED
  BY <1>1, <1>3 DEF IdsAdvanced

\* An answer of the host that modbus_slave_check_current_request accepts
\* belongs to the request that is being processed, for every width of the id,
\* as long as the host gives a request up before the ids have gone round.
THEOREM NoAnswerToAnotherRequest == Spec => []NoStaleAnswer
<1>1. Init => IdsAdvanced
  BY DEF Init, RTUInit, modbus_init, ReadyRequest, IdsAdvanced
<1>2. Typed /\ IdsAdvanced /\ [Next]_vars => IdsAdvanced'
  BY StepIds
<1>3. Typed /\ IdsAdvanced => NoStaleAnswer
  BY AcceptedIsCurrent DEF NoStaleAnswer
<1>4. QED
  BY <1>1, <1>2, <1>3, TypedAlways, PTL DEF Spec
==============================================================================
