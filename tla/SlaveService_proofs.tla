-------------------------- MODULE SlaveService_proofs -------------------------
(***************************************************************************)
(* In half duplex ModbusSlave implements SlaveService: every step of the   *)
(* wire state machine, of a callback, of a call of the host, of the bus or *)
(* of an interrupt is a step of the service or changes nothing of it.      *)
(***************************************************************************)
EXTENDS SlaveOrder_proofs

\* The refinement mapping, as Service has it.
Serving == IF wire = "tx" \/ Processing THEN rx_frame ELSE Noise
Stage == IF wire = "tx" THEN tx[1].kind
         ELSE IF request.state = "ready" THEN "idle"
         ELSE IF request.cb_invoke THEN "offering" ELSE "offered"
Told == IF Processing THEN PacketsSent ELSE 0

Serves == Service!Next \/ UNCHANGED Service!service

------------------------------------------------------------------------------
(* The steps of the service.                                               *)

LEMMA StutterStep ==
  ASSUME UNCHANGED Serving, UNCHANGED Stage, UNCHANGED Told
  PROVE  Serves
  BY DEF Serves, Service!service, Serving, Stage, Told, Processing

LEMMA TakeStep ==
  ASSUME Stage = "idle", Serving' # Noise, Serving'.addr # "other",
         \/ Stage' = "offering" /\ Serving'.fc # "unimplemented"
         \/ Stage' = "exception" /\ Serving'.fc = "unimplemented",
         Told' = 0
  PROVE  Serves
  BY DEF Serves, Service!Next, Service!Take, Serving, Stage, Told, Processing

LEMMA OfferStep ==
  ASSUME Stage = "offering", Told < Packets(Serving), Told' = Told + 1,
         UNCHANGED Serving,
         Stage' = IF Told' = Packets(Serving) THEN "offered" ELSE "offering"
  PROVE  Serves
  BY DEF Serves, Service!Next, Service!Offer, Service!Become, Serving, Stage,
     Told, Processing

LEMMA AnswerStep ==
  ASSUME Stage = "offered", Serving.addr = "me", Stage' = "answer",
         UNCHANGED Serving, UNCHANGED Told
  PROVE  Serves
  BY DEF Serves, Service!Next, Service!Answer, Service!Become, Serving, Stage,
     Told, Processing

LEMMA ExceptStep ==
  ASSUME \/ Stage = "offered" /\ Serving.addr = "me"
         \/ Stage = "offering" /\ Told = 0,
         Stage' = "exception", UNCHANGED Serving, UNCHANGED Told
  PROVE  Serves
  BY DEF Serves, Service!Next, Service!Except, Service!Become, Serving, Stage,
     Told, Processing

LEMMA EndStep ==
  ASSUME Stage \in {"answer", "exception", "offering", "offered"},
         Serving' = Noise, Stage' = "idle", Told' = 0
  PROVE  Serves
  BY DEF Serves, Service!Next, Service!Finish, Service!GiveUp,
     Service!BackToIdle, Service!Responses, Serving, Stage, Told, Processing

------------------------------------------------------------------------------
(* What the service sees of the slave's steps.                             *)

\* The stage while a response is on the wire is the kind of the response.
LEMMA ResponseStage ==
  ASSUME SlaveInv, wire = "tx"
  PROVE  Stage \in {"answer", "exception"}
<1>1. Chunks(rx_frame) \in Nat
  BY FrameOfRequest DEF SlaveInv
<1>2. QED
  BY <1>1, ResponseHead DEF Stage, SlaveInv, ServiceInv, TransmissionInOrder

\* To clear the request ends the service, if there was any.
LEMMA ClearedServes ==
  ASSUME SlaveInv, NEW w \in {"idle", "rx"}, NEW r, ClearRequestTo(w, r)
  PROVE  Serves
<1>1. Serving' = Noise /\ Stage' = "idle" /\ Told' = 0
  BY DEF ClearRequestTo, ReadyRequest, Serving, Stage, Told, Processing
<1>2. CASE wire = "tx"
  BY <1>1, <1>2, ResponseStage, EndStep
<1>3. CASE wire # "tx" /\ Processing
  BY <1>1, <1>3, EndStep DEF Stage, Processing
<1>4. CASE wire # "tx" /\ ~Processing
  <2>1. request.state = "ready"
    BY <1>4 DEF SlaveInv, ServiceInv, RequestInOrder, Processing
  <2>2. QED
    BY <1>1, <1>4, <2>1, StutterStep DEF Serving, Stage, Told
<1>5. QED
  BY <1>2, <1>3, <1>4

\* Nothing the service sees is changed.
LEMMA KeptServes ==
  ASSUME SlaveInv, UNCHANGED <<request, epoch, offered>>,
         wire = "tx" <=> wire' = "tx", wire = "tx" => tx' = tx,
         Processing \/ wire = "tx" => rx_frame' = rx_frame
  PROVE  Serves
<1>1. UNCHANGED PacketsSent
  BY DEF PacketsSent
<1>2. QED
  BY <1>1, StutterStep DEF Serving, Stage, Told, Processing

\* An exception starts to be sent.
LEMMA ExceptionServes ==
  ASSUME SlaveInv, modbus_report_exception, wire # "tx", HoldsFrame,
         UNCHANGED <<rx, epoch, offered>>, request'.state = request.state,
         \/ /\ request.state = "ready" /\ rx_frame.addr # "other"
            /\ rx_frame.fc = "unimplemented"
         \/ Processing /\ request.cb_invoke /\ ~chunk.in_progress
         \/ Processing /\ ~request.cb_invoke /\ rx_frame.addr = "me"
  PROVE  Serves
<1>1. wire' = "tx" /\ tx' = Exception(rx_frame) /\ UNCHANGED rx_frame
      /\ UNCHANGED PacketsSent
  BY DEF modbus_report_exception, modbus_start_tx_from_buffer, rx_frame,
     PacketsSent
<1>2. tx'[1].kind = "exception"
  BY <1>1, ResponseHead
<1>3. Stage' = "exception" /\ Serving' = rx_frame
      /\ Told' = IF Processing THEN PacketsSent ELSE 0
  BY <1>1, <1>2 DEF Stage, Serving, Told, Processing
<1>4. CASE request.state = "ready" /\ rx_frame.addr # "other"
           /\ rx_frame.fc = "unimplemented"
  <2>1. rx_frame # Noise
    BY HeldFrameTyped, NoiseAssumption DEF SlaveInv, Typed, TypeOK, RxTypeOK
  <2>2. Stage = "idle" /\ Told' = 0
    BY <1>3, <1>4 DEF Stage, Processing
  <2>3. QED
    BY <1>3, <1>4, <2>1, <2>2, TakeStep
<1>5. CASE Processing /\ request.cb_invoke /\ ~chunk.in_progress
  <2>1. PacketsSent = 0
    BY <1>5 DEF SlaveInv, ServiceInv, OfferInOrder
  <2>2. QED
    BY <1>3, <1>5, <2>1, ExceptStep DEF Stage, Serving, Told, Processing
<1>6. CASE Processing /\ ~request.cb_invoke /\ rx_frame.addr = "me"
  BY <1>3, <1>6, ExceptStep DEF Stage, Serving, Told, Processing
<1>7. QED
  BY <1>4, <1>5, <1>6

\* A packet of the request goes to the host, the last one or another.
LEMMA OfferServes ==
  ASSUME SlaveInv, Processing, request.cb_invoke, wire = "idle",
         NEW last \in BOOLEAN, Offer(last),
         IF last THEN PacketsSent + 1 = Packets(rx_frame)
                 ELSE PacketsSent + 1 < Packets(rx_frame),
         request'.state = request.state, request'.cb_invoke = ~last,
         UNCHANGED <<wire, rx, epoch>>
  PROVE  Serves
<1>1. PacketsSent' = PacketsSent + 1 /\ PacketsSent \in Nat
  BY PacketsSentTyped DEF Offer, PacketsSent, SlaveInv
<1>2. /\ Stage = "offering" /\ Serving = rx_frame /\ Told = PacketsSent
      /\ Stage' = IF last THEN "offered" ELSE "offering"
      /\ UNCHANGED Serving /\ Told' = PacketsSent + 1
  BY <1>1 DEF Stage, Serving, Told, Processing, rx_frame
<1>3. Packets(rx_frame) \in Nat
  BY FrameOfRequest DEF SlaveInv, Packets
<1>4. PacketsSent < Packets(rx_frame)
      /\ (last <=> PacketsSent + 1 = Packets(rx_frame))
  BY <1>1, <1>3
<1>5. QED
  BY <1>2, <1>4, OfferStep

\* The answer of the host starts to be sent.
LEMMA AnswerServes ==
  ASSUME SlaveInv, Processing, ~request.cb_invoke, wire = "idle",
         rx_frame.addr = "me", modbus_start_tx_from_buffer,
         tx' = Answer(rx_frame, Chunks(rx_frame)),
         UNCHANGED <<request, rx, epoch, offered>>
  PROVE  Serves
<1>1. wire' = "tx" /\ UNCHANGED rx_frame /\ UNCHANGED PacketsSent
  BY DEF modbus_start_tx_from_buffer, rx_frame, PacketsSent
<1>2. tx'[1].kind = "answer"
  BY FrameOfRequest, ResponseHead DEF SlaveInv
<1>3. QED
  BY <1>1, <1>2, AnswerStep DEF Stage, Serving, Told, Processing

------------------------------------------------------------------------------
(* Step by step.                                                           *)

LEMMA TickServes ==
  ASSUME SlaveInv, Tick
  PROVE  Serves
<1> USE DEF SlaveInv
<1>1. UNCHANGED offered
  BY DEF Tick, slave_vars
<1>2. CASE SlaveRequestTimeout
  BY <1>2, ClearedServes DEF SlaveRequestTimeout
<1>3. CASE SlaveNewData
  BY <1>1, <1>3, KeptServes DEF SlaveNewData, NewData, StartRx, rx_frame
<1>4. CASE SlaveFrame
  <2>1. FrameAvailable("ready") /\ wire = "idle" /\ request.state = "ready"
    BY <1>4 DEF SlaveFrame, FrameAvailable
  <2>2. CASE \E names : RejectFrame(names)
    BY <2>2, ClearedServes DEF RejectFrame, modbus_clear_request
  <2>3. CASE /\ modbus_check_frame_checksum(SubSeq(rx, 1, rx_rb_last_length))
             /\ modbus_slave_check_address(rx_frame)
             /\ \/ /\ ~modbus_slave_check_function_code_implemented(rx_frame)
                   /\ ReportIllegalFunction
                \/ /\ modbus_slave_check_function_code_implemented(rx_frame)
                   /\ AcceptRequest
    <3>1. HoldsFrame /\ rx_frame \in Frame /\ rx_frame.addr # "other"
      BY <2>1, <2>3, JudgedFrame DEF modbus_slave_check_address
    <3>2. CASE ~modbus_slave_check_function_code_implemented(rx_frame)
               /\ ReportIllegalFunction
      <4>1. rx_frame.fc = "unimplemented"
        BY <3>1, <3>2 DEF modbus_slave_check_function_code_implemented, Frame,
           FunctionCodes
      <4>2. QED
        BY <1>1, <2>1, <3>1, <3>2, <4>1, ExceptionServes
           DEF ReportIllegalFunction
    <3>3. CASE modbus_slave_check_function_code_implemented(rx_frame)
               /\ AcceptRequest
      <4>1. rx_frame.fc # "unimplemented" /\ rx_frame # Noise
        BY <3>1, <3>3, NoiseAssumption
           DEF modbus_slave_check_function_code_implemented,
               ImplementedFunctions, Reads, SingleWrites, MultipleWrites
      <4>2. /\ request'.state = "slave_processing" /\ request'.cb_invoke
            /\ epoch' = epoch + 1 /\ UNCHANGED <<wire, rx>>
        BY <3>3 DEF AcceptRequest, modbus_init_new_request, Typed, TypeOK,
           EngineTypeOK, RequestType
      <4>3. PacketsSent' = 0
        BY <1>1, <4>2, PacketsSentTyped
           DEF PacketsSent, ServiceInv, OfferInOrder
      <4>4. /\ Stage = "idle" /\ Stage' = "offering" /\ Serving' = rx_frame
            /\ Told' = 0
        BY <2>1, <4>2, <4>3 DEF Stage, Serving, Told, Processing, rx_frame
      <4>5. QED
        BY <3>1, <4>1, <4>4, TakeStep
    <3>4. QED
      BY <2>3, <3>2, <3>3
  <2>4. QED
    BY <1>4, <2>2, <2>3 DEF SlaveFrame
<1>5. CASE RxGap
  BY <1>1, <1>5, KeptServes DEF RxGap, rx_frame
<1>6. CASE SlaveTxDone
  BY <1>6, ClearedServes DEF SlaveTxDone, modbus_clear_request
<1>7. CASE NothingToDo
  BY <1>1, <1>7, KeptServes DEF NothingToDo, ModbusUnchanged, txpath, rx_frame
<1>8. QED
  BY <1>2, <1>3, <1>4, <1>5, <1>6, <1>7 DEF Tick

LEMMA CallbackServes ==
  ASSUME SlaveInv, NEW sendable \in BOOLEAN, InvokeCallback(sendable)
  PROVE  Serves
<1> USE DEF SlaveInv
<1>1. SlaveCallback(sendable) /\ pc = "callbacks"
  BY DEF InvokeCallback
<1>2. Processing /\ request.cb_invoke
  BY <1>1, CallbackEffect DEF Processing
<1>3. /\ HoldsFrame /\ rx_frame \in Frame /\ rx_frame.count \in Nat
      /\ request \in RequestType /\ PacketsSent \in Nat
  BY <1>2, FrameOfRequest, PacketsSentTyped DEF Typed, TypeOK, EngineTypeOK
<1>4. wire = "idle"
  <2>1. wire # "rx" /\ wire # "tx"
    BY <1>1, <1>2 DEF ServiceInv, RequestInOrder, ExceptionBeforeCallbacks,
       Processing, InvokeCallback
  <2>2. QED
    BY <2>1 DEF Typed, TypeOK, EngineTypeOK, WireStates
<1>5. CASE modbus_clear_request
  BY <1>5, ClearedServes DEF modbus_clear_request
<1>6. CASE InvalidData /\ \E invoke \in BOOLEAN : CallbackException(invoke)
  <2>1. PICK invoke \in BOOLEAN : CallbackException(invoke)
    BY <1>6
  <2>2. request'.state = request.state /\ UNCHANGED <<rx, epoch, offered>>
    BY <1>3, <2>1 DEF CallbackException, RequestType
  <2>3. ~chunk.in_progress
    BY <1>2, <1>6 DEF ServiceInv, OfferInOrder, InvalidData, Typed, TypeOK,
       EngineTypeOK, ChunkType
  <2>4. QED
    BY <1>2, <1>3, <1>4, <2>1, <2>2, <2>3, ExceptionServes DEF CallbackException
<1>7. CASE OfferInOnePacket /\ Packets(rx_frame) = 1
  <2>1. request'.state = request.state /\ request'.cb_invoke = FALSE
    BY <1>3, <1>7 DEF OfferInOnePacket, RequestType
  <2>2. PacketsSent + 1 = Packets(rx_frame)
    BY <1>2, <1>7 DEF ServiceInv, OfferInOrder, Packets
  <2>3. QED
    BY <1>2, <1>4, <1>7, <2>1, <2>2, OfferServes DEF OfferInOnePacket
<1>8. CASE /\ rx_frame.fc \in MultipleWrites /\ rx_frame.count > 1
           /\ send_stream_chunks(StreamOf(rx_frame), sendable)
  <2> DEFINE s == StreamOf(rx_frame)
  <2>1. /\ s \in ChunkType /\ s.total = rx_frame.count
        /\ s.current = PacketsSent /\ s.current < s.total
    BY <1>2, <1>3, <1>8, StreamAtNextPacket
  <2>2. s.current \in Nat /\ s.total \in Nat /\ Packets(rx_frame) = s.total
    BY <1>8, <2>1 DEF ChunkType, Packets
  <2>3. send_stream_chunks(s, sendable)
    BY <1>8
  <2> HIDE DEF s
  <2>4. CASE ~sendable
    BY <2>3, <2>4, KeptServes DEF send_stream_chunks, txpath, rx_frame
  <2>5. CASE sendable /\ s.current = s.total - 1
    <3>1. /\ Offer(TRUE) /\ wire' = "idle" /\ UNCHANGED <<rx, epoch>>
          /\ request'.state = request.state /\ request'.cb_invoke = FALSE
      BY <1>3, <2>3, <2>5 DEF send_stream_chunks, RequestType
    <3>2. PacketsSent + 1 = Packets(rx_frame)
      BY <2>1, <2>2, <2>5
    <3>3. QED
      BY <1>2, <1>4, <3>1, <3>2, OfferServes
  <2>6. CASE sendable /\ s.current # s.total - 1
    <3>1. Offer(FALSE) /\ UNCHANGED <<request, wire, rx, epoch>>
      BY <2>3, <2>6 DEF send_stream_chunks
    <3>2. PacketsSent + 1 < Packets(rx_frame)
      BY <2>1, <2>2, <2>6
    <3>3. request'.cb_invoke = ~FALSE
      BY <1>2, <1>3, <3>1 DEF RequestType
    <3>4. QED
      BY <1>2, <1>4, <3>1, <3>2, <3>3, OfferServes
  <2>7. QED
    BY <2>4, <2>5, <2>6
<1>9. CASE CallbackRefused
  BY <1>9, KeptServes DEF CallbackRefused, ModbusUnchanged, txpath, rx_frame
<1>10. QED
  BY <1>1, <1>3, <1>5, <1>6, <1>7, <1>8, <1>9, CallbackCases

LEMMA MessageServes ==
  ASSUME SlaveInv, HandleMessage
  PROVE  Serves
<1> USE DEF SlaveInv
<1>1. PICK t \in host : HostHolds(t) /\ HostAnswer(t)
  BY DEF HandleMessage
<1>2. UNCHANGED offered
  BY DEF HandleMessage
<1>3. CASE ModbusUnchanged
  BY <1>2, <1>3, KeptServes DEF ModbusUnchanged, txpath, rx_frame
<1>4. CASE EndBroadcast
  BY <1>4, ClearedServes DEF EndBroadcast, modbus_clear_request
<1>5. ASSUME Accepted(t), ~Broadcast
      PROVE  /\ Processing /\ ~request.cb_invoke /\ wire = "idle"
             /\ HoldsFrame /\ rx_frame.addr = "me"
             /\ t.next \in 1..Chunks(rx_frame) /\ Chunks(rx_frame) \in Nat
             /\ tx = AnswerSoFar(rx_frame, t.next - 1)
  <2>1. rx_frame \in Frame
    BY <1>5, AcceptedTicket, HeldFrameTyped DEF Typed, TypeOK, RxTypeOK
  <2>2. rx_frame.addr = "me"
    BY <1>5, <2>1, AcceptedTicket DEF Frame, Broadcast
  <2>3. QED
    BY <1>5, <2>2, AcceptedTicket DEF Accepted
<1>6. CASE /\ Accepted(t) /\ ~Broadcast /\ modbus_report_exception
           /\ UNCHANGED <<rx_rb_last_length, request, chunk, counters, rx, epoch>>
  BY <1>2, <1>5, <1>6, ExceptionServes
<1>7. CASE /\ Accepted(t) /\ ~Broadcast /\ rx_frame.fc \notin Reads
           /\ StoreAndStartTx(Answer(rx_frame, 1))
  <2>1. Chunks(rx_frame) = 1 /\ tx = <<>>
    BY <1>5, <1>7 DEF Chunks, AnswerSoFar
  <2>2. tx' = Answer(rx_frame, Chunks(rx_frame))
    BY <1>7, <2>1 DEF StoreAndStartTx, Answer
  <2>3. QED
    BY <1>2, <1>5, <1>7, <2>2, AnswerServes DEF StoreAndStartTx
<1>8. CASE /\ Accepted(t) /\ ~Broadcast /\ rx_frame.fc \in Reads
           /\ StoreAnswerChunk(rx_frame, t.next, rx_frame.count)
  <2>1. Chunks(rx_frame) = rx_frame.count
    BY <1>8 DEF Chunks
  <2>2. CASE t.next = rx_frame.count
    <3>1. StoreAndStartTx(AnswerChunk(rx_frame, t.next, rx_frame.count))
      BY <1>5, <1>8, <2>2 DEF StoreAnswerChunk
    <3>2. tx' = tx \o AnswerChunk(rx_frame, t.next, rx_frame.count)
      BY <3>1 DEF StoreAndStartTx
    <3>3. rx_frame.count \in Nat /\ t.next \in 1..rx_frame.count
      BY <1>5, <1>8, <2>1
    <3>4. AnswerSoFar(rx_frame, t.next - 1)
             \o AnswerChunk(rx_frame, t.next, rx_frame.count)
            = Answer(rx_frame, rx_frame.count)
      BY <2>2, <3>3, AnswerGrows
    <3>5. tx' = Answer(rx_frame, Chunks(rx_frame))
      BY <1>5, <1>8, <2>1, <3>2, <3>4
    <3>6. QED
      BY <1>2, <1>5, <1>8, <3>1, <3>5, AnswerServes DEF StoreAndStartTx
  <2>3. CASE t.next # rx_frame.count
    BY <1>2, <1>5, <1>8, <2>3, KeptServes DEF StoreAnswerChunk, rx_frame
  <2>4. QED
    BY <2>2, <2>3
<1>9. QED
  BY <1>1, <1>3, <1>4, <1>6, <1>7, <1>8, HostAnswerCases

LEMMA BusByteServes ==
  ASSUME SlaveInv, NEW bytes \in Seq(Byte), BusByte(bytes), UNCHANGED offered
  PROVE  Serves
<1>1. bytes # <<>> /\ Head(bytes) \in Byte /\ Noise \in Byte
  BY DEF BusByte, Byte
<1>2. rx' = rx \/ \E b \in Byte : rx' = Append(rx, b)
  BY <1>1 DEF BusByte, rs485_rx_irq_handler
<1>3. Processing \/ wire = "tx" => rx_frame' = rx_frame
  BY <1>2, HeldFrameStays
     DEF SlaveInv, Typed, FrameHeld, TypeOK, RxTypeOK, Processing
<1>4. QED
  BY <1>3, KeptServes DEF BusByte, txpath

LEMMA StepServes ==
  ASSUME SlaveInv, [Next]_vars
  PROVE  Serves
<1>1. CASE Tick
  BY <1>1, TickServes
<1>2. CASE \E sendable \in BOOLEAN : InvokeCallback(sendable)
  BY <1>2, CallbackServes
<1>3. CASE HandleMessage
  BY <1>3, MessageServes
<1>4. CASE \/ SkipCallbacks \/ EndOfLoop \/ QuietBus
           \/ TxInterrupt \/ TffInterrupt \/ UNCHANGED vars
  <2>1. UNCHANGED <<request, epoch, offered, wire, tx, rx>>
    <3>1. CASE SkipCallbacks \/ EndOfLoop
      BY <3>1 DEF SkipCallbacks, CallbackRefused, EndOfLoop, ModbusUnchanged,
         txpath, slave_vars
    <3>2. CASE QuietBus \/ UNCHANGED vars
      BY <3>2 DEF QuietBus, Silence, txpath, slave_vars, rtu_vars, vars
    <3>3. CASE TxInterrupt \/ TffInterrupt
      BY <3>3 DEF TxInterrupt, rs485_tx_irq_handler, TffInterrupt,
         rs485_tff_irq_handler, slave_vars
    <3>4. QED
      BY <1>4, <3>1, <3>2, <3>3
  <2>2. QED
    BY <2>1, KeptServes DEF rx_frame
<1>5. CASE NextFrame
  BY <1>5, NextFrameBytes, BusByteServes DEF NextFrame, SlaveInv
<1>6. CASE NextByte
  BY <1>6, BusByteServes
     DEF NextByte, slave_vars, SlaveInv, Typed, TypeOK, RxTypeOK
<1>7. QED
  BY <1>1, <1>2, <1>3, <1>4, <1>5, <1>6 DEF Next, MainLoop

\* In half duplex the slave implements its service: it serves one frame at a
\* time, offers it packet by packet before it sends the host's answer, sends
\* one response at most, and gives a request up only while no response to it
\* is on the wire.
THEOREM SlaveImplementsService ==
  ASSUME ~FullDuplex
  PROVE  Spec => ImplementsSlaveService
<1>1. Init => Service!Init
  <2>1. ASSUME Init PROVE request.state = "ready" /\ wire = "idle"
    BY <2>1 DEF Init, RTUInit, modbus_init, ReadyRequest
  <2>2. QED
    BY <2>1 DEF Service!Init
<1>2. SlaveInv /\ [Next]_vars => [Service!Next]_(Service!service)
  BY StepServes DEF Serves
<1>3. QED
  BY <1>1, <1>2, SlaveInOrder, PTL DEF Spec, Service!Spec,
     ImplementsSlaveService

==============================================================================
