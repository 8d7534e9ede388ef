-------------------------- MODULE ModbusMaster_proofs -------------------------
(***************************************************************************)
(* What holds of the Bricklet in master mode for all requests, replies,    *)
(* clients and changes of the configuration, in half and full duplex: its  *)
(* types, that callbacks and interrupts find the request and the frames    *)
(* they take for granted, that every callback ends the request it reports  *)
(* on, and that timeouts are counted once.                                 *)
(***************************************************************************)
EXTENDS ModbusMaster, ModbusRTU_proofs

Waiting == request.state = "master_waiting"

\* Requests carry data, and reads are not broadcast.
ValidRequest ==
  {r \in NumberedRequest :
     r.count # 0 /\ (r.fc \in Reads => r.addr # "broadcast")}

ValidUnit == [frame: ValidRequest, part: Nat]

\* The callback of this request is due, and it will look at the response.
Due == Waiting /\ request.cb_invoke /\ ~request.timed_out /\ ~Broadcast

\* Callbacks to the host.
Report == [id: 0..IdMax, epoch: Nat, outcome: Outcomes, data: Nat,
           packet: Nat, ended: Nat]

(***************************************************************************)
(* The inductive invariant.  The types alone are not inductive: a handler  *)
(* hands over what it finds at the start of the RX ring, and finds its     *)
(* request at the start of the TX ring.                                    *)
(***************************************************************************)

HostTyped ==
  /\ elapsed \in BOOLEAN /\ begun \in Nat
  /\ streams \subseteq [request: ValidRequest, next: Nat]
  /\ heard \subseteq NumberedRequest
  /\ moved \in BOOLEAN /\ configs \in Nat
  /\ accepted \in [request: ValidRequest, id: 0..IdMax, epoch: Nat]
  /\ delivered \in Report

Typed ==
  EngineTypeOK /\ TxTypeOK(ValidUnit) /\ RxTypeOK(Byte) /\ HostTyped

\* The request is the one that was accepted last, and while it is sent
\* nothing is reported about it.
RequestInOrder ==
  /\ request.state \in {"ready", "master_waiting"}
  /\ ~Waiting => wire = "idle" /\ ~request.cb_invoke /\ ~request.timed_out
  /\ Waiting => /\ request.id = accepted.id /\ request.id # 0
                /\ epoch = accepted.epoch
  /\ wire = "tx" => ~request.cb_invoke /\ ~request.timed_out

\* The TX interrupt has the request in hand as long as the wire is in TX.
TransmissionInOrder ==
  /\ wire = "tx" <=> tx_done \/ txirq # "off"
  /\ tx_done => txirq = "off" /\ tx_start = Len(tx)

\* A handler that is due finds the response it is about.
DueWithFrame ==
  Due => /\ HoldsFrame
         /\ rx_frame.addr = tx_frame.addr /\ rx_frame.fc = tx_frame.fc

MasterInv ==
  Typed /\ RequestInOrder /\ TransmissionInOrder /\ DueWithFrame

------------------------------------------------------------------------------
(* Helpers.                                                                *)

\* The frame a response was read from has the type of a reply.
LEMMA HeldReplyTyped ==
  ASSUME rx \in Seq(Byte), HoldsFrame
  PROVE  rx_frame \in ReplyFrame
<1>1. 1 \in 1..FrameLen /\ 1 \in 1..Len(rx)
  BY RTUAssumption DEF HoldsFrame
<1>2. rx[1] \in Byte /\ rx[1] # Noise
  BY <1>1 DEF HoldsFrame
<1>3. QED
  BY <1>1, <1>2 DEF Byte, rx_frame

\* What the host calls for becomes a valid request.
LEMMA NumberedValid ==
  ASSUME NEW r \in Requests, begun \in Nat
  PROVE  /\ Numbered(r) \in ValidRequest /\ Numbered(r).serial = begun + 1
         /\ Numbered(r).fc = r.fc
  BY MasterAssumption DEF RequestKind, Numbered, ValidRequest, NumberedRequest

\* What the handlers put into the TX ring.
LEMMA RequestUnitsTyped ==
  ASSUME NEW r \in ValidRequest, NEW k \in Nat
  PROVE  /\ RequestChunks(r) \in Nat
         /\ RequestFrame(r) \in Seq(ValidUnit)
         /\ RequestChunk(r, k) \in Seq(ValidUnit)
<1>1. \A i \in Nat : Unit(r, i) \in ValidUnit
  BY DEF Unit, ValidUnit
<1>2. RequestChunks(r) \in Nat
  BY DEF RequestChunks, ValidRequest, NumberedRequest
<1>3. RequestFrame(r) \in Seq(ValidUnit)
  BY <1>1, <1>2 DEF RequestFrame
<1>4. RequestChunk(r, k) \in Seq(ValidUnit)
  BY <1>1, <1>2 DEF RequestChunk
<1>5. QED
  BY <1>2, <1>3, <1>4

\* The first thing in the TX ring is of a valid request.
LEMMA FirstUnitValid ==
  ASSUME tx \in Seq(ValidUnit), tx # <<>>
  PROVE  tx[1] \in ValidUnit /\ tx[1].frame \in ValidRequest
<1>1. 1 \in 1..Len(tx)
  OBVIOUS
<1>2. tx[1] \in ValidUnit
  BY <1>1
<1>3. QED
  BY <1>2 DEF ValidUnit

\* A handler that is due for a function code has a valid request before it.
LEMMA FrameBeforeHandler ==
  ASSUME Typed, tx_frame.fc \in FunctionCodes
  PROVE  /\ FrameAtFront /\ tx_frame = tx[1].frame /\ tx_frame \in ValidRequest
         /\ tx_frame.fc \in Reads => ~Broadcast
<1>1. FrameAtFront
  BY DEF tx_frame, ZeroFrame, FunctionCodes, Reads, SingleWrites, MultipleWrites
<1>2. tx_frame = tx[1].frame /\ tx_frame \in ValidRequest
  BY <1>1, FirstUnitValid DEF tx_frame, FrameAtFront, Typed, TxTypeOK
<1>3. QED
  BY <1>1, <1>2 DEF ValidRequest, Broadcast

\* Slaves have heard valid requests.
LEMMA HeardTyped ==
  ASSUME Typed, NEW n
  PROVE  HeardAfter(n) \subseteq NumberedRequest
  BY FirstUnitValid DEF HeardAfter, ValidRequest, Typed, TxTypeOK, HostTyped

\* What a slave puts on the wire.
LEMMA ReplyBytesTyped ==
  ASSUME NEW r \in NumberedRequest, NEW kind \in Replies
  PROVE  /\ Reply(r, kind) \in ReplyFrame
         /\ FrameBytes(Reply(r, kind)) \in Seq(Byte)
<1>1. Reply(r, kind) \in ReplyFrame
  BY DEF Reply, ReplyFrame, NumberedRequest
<1>2. QED
  BY <1>1, RTUAssumption DEF FrameBytes, Byte

------------------------------------------------------------------------------
(* Steps that end a request, or leave it.                                  *)

\* The request is cleared when nothing of it is being sent.
LEMMA ClearedInOrder ==
  ASSUME MasterInv, wire # "tx", modbus_clear_request,
         UNCHANGED <<tx_done, txirq, fifo, direction, quiet, line>>,
         pc' \in {"tick", "callbacks", "messages"},
         counters' \in [CounterNames -> Nat], HostTyped'
  PROVE  MasterInv'
<1>1. /\ request' = ReadyRequest(IncrementId(request.id)) /\ wire' = "idle"
      /\ rx' = <<>> /\ tx' = <<>> /\ tx_start' = 0
      /\ ClearRequestTo("idle", <<>>)
  BY DEF modbus_clear_request, ClearRequestTo
<1>2. EngineTypeOK'
  BY <1>1, ClearTyped DEF MasterInv, Typed, WireStates
<1>3. TxTypeOK(ValidUnit)'
  BY <1>1, ClearTxTyped DEF MasterInv, Typed, TxTypeOK
<1>4. RxTypeOK(Byte)'
  BY <1>1 DEF MasterInv, Typed, RxTypeOK
<1>5. RequestInOrder' /\ DueWithFrame'
  BY <1>1 DEF ReadyRequest, RequestInOrder, DueWithFrame, Due, Waiting
<1>6. TransmissionInOrder'
  BY <1>1 DEF MasterInv, TransmissionInOrder
<1>7. QED
  BY <1>2, <1>3, <1>4, <1>5, <1>6 DEF MasterInv, Typed

\* The request, its frame and its transmission stay as they are; bytes may
\* come in, and what is known of the request may not be reported yet.
LEMMA KeptInOrder ==
  ASSUME MasterInv, Typed', UNCHANGED <<request, epoch, accepted>>,
         wire' = wire \/ (Waiting /\ wire # "tx" /\ wire' \in {"idle", "rx"}),
         UNCHANGED <<tx, tx_start, moved, tx_done, txirq>>,
         Due => HoldsFrame' /\ rx_frame' = rx_frame
  PROVE  MasterInv'
<1>1. UNCHANGED tx_frame /\ UNCHANGED Broadcast
  BY DEF tx_frame, FrameAtFront, Broadcast
<1>2. RequestInOrder'
  BY DEF MasterInv, RequestInOrder, Waiting
<1>3. TransmissionInOrder'
  BY DEF MasterInv, TransmissionInOrder
<1>4. DueWithFrame'
  BY <1>1 DEF MasterInv, DueWithFrame, Due, Waiting
<1>5. QED
  BY <1>2, <1>3, <1>4 DEF MasterInv

------------------------------------------------------------------------------
(* The callback handlers.                                                  *)

\* The response is to be handed over as data, and fits the request.
DataDue ==
  /\ Due /\ tx_frame.fc \in Reads
  /\ ~rx_frame.exception /\ rx_frame.count = tx_frame.count

\* A handler ends the request with a callback.
Ends(outcome, data) == EndRequest(outcome, data) /\ UNCHANGED counters

\* What a handler may do for the request that is waiting.
Reports ==
  \/ CallbackRefused
  \/ request.timed_out /\ ~Broadcast /\ Ends("timeout", 0)
  \/ Broadcast /\ Ends("success", 0)
  \/ Due /\ tx_frame.fc \notin Reads /\ ~rx_frame.exception
       /\ Ends("success", rx_frame.serial)
  \/ Due /\ rx_frame.exception
       /\ \E sendable \in BOOLEAN : ReportSlaveException(sendable)
  \/ Due /\ tx_frame.fc \in Reads /\ ~rx_frame.exception
       /\ rx_frame.count # tx_frame.count /\ DropResponse
  \/ DataDue /\ rx_frame.count > 1
       /\ \E sendable \in BOOLEAN :
            send_stream_chunks(StreamOf(rx_frame), sendable)
  \/ DataDue /\ ~(rx_frame.count > 1) /\ Ends("data", rx_frame.serial)

\* The eight handlers do nothing else, and only while a callback is due.
LEMMA CallbackCases ==
  ASSUME Typed, NEW sendable \in BOOLEAN, MasterCallback(sendable)
  PROVE  Waiting /\ request.cb_invoke /\ Reports
<1>1. CASE \E fc \in Reads : ReadResponse(fc, sendable)
  <2>1. PICK fc \in Reads : ReadResponse(fc, sendable)
    BY <1>1
  <2>2. /\ request.state = "master_waiting" /\ request.cb_invoke
        /\ tx_frame.fc \in Reads
    BY <2>1 DEF ReadResponse, CallbackDue
  <2>3. ~Broadcast
    BY <2>2, FrameBeforeHandler DEF FunctionCodes
  <2>4. CASE request.timed_out
    BY <2>1, <2>2, <2>3, <2>4 DEF ReadResponse, Reports, Ends, Waiting
  <2>5. CASE ~request.timed_out
    <3>1. Due
      BY <2>2, <2>3, <2>5 DEF Due, Waiting
    <3>2. QED
      BY <2>1, <2>2, <2>5, <3>1
         DEF ReadResponse, Reports, DataDue, Ends, Waiting
  <2>6. QED
    BY <2>4, <2>5
<1>2. CASE \E fc \in SingleWrites \cup MultipleWrites :
             WriteResponse(fc, sendable)
  <2>1. PICK fc \in SingleWrites \cup MultipleWrites :
          WriteResponse(fc, sendable)
    BY <1>2
  <2>2. /\ request.state = "master_waiting" /\ request.cb_invoke
        /\ tx_frame.fc \notin Reads
    BY <2>1 DEF WriteResponse, CallbackDue, Reads, SingleWrites, MultipleWrites
  <2>3. CASE Broadcast \/ request.timed_out
    BY <2>1, <2>2, <2>3 DEF WriteResponse, Reports, Ends, Waiting
  <2>4. CASE ~(Broadcast \/ request.timed_out)
    BY <2>1, <2>2, <2>4 DEF WriteResponse, Reports, Ends, Waiting, Due
  <2>5. QED
    BY <2>3, <2>4
<1>3. QED
  BY <1>1, <1>2 DEF MasterCallback,
     handle_modbus_master_read_coils_response_low_level_callback,
     handle_modbus_master_read_holding_registers_response_low_level_callback,
     handle_modbus_master_read_discrete_inputs_response_low_level_callback,
     handle_modbus_master_read_input_registers_response_low_level_callback,
     handle_modbus_master_write_single_coil_response_callback,
     handle_modbus_master_write_single_register_response_callback,
     handle_modbus_master_write_multiple_coils_response_callback,
     handle_modbus_master_write_multiple_registers_response_callback,
     Reads, SingleWrites, MultipleWrites

\* A handler that is due has the reply of a slave before it.
LEMMA ReplyBeforeHandler ==
  ASSUME MasterInv, Due
  PROVE  rx_frame \in ReplyFrame /\ rx_frame.serial \in Nat
         /\ rx_frame.count \in Nat
<1>1. rx_frame \in ReplyFrame
  BY HeldReplyTyped DEF MasterInv, Typed, RxTypeOK, DueWithFrame
<1>2. QED
  BY <1>1 DEF ReplyFrame

\* A callback to the host has its type.
LEMMA DeliverTyped ==
  ASSUME Typed, NEW outcome \in Outcomes, NEW data \in Nat, NEW packet \in Nat,
         Deliver(outcome, data, packet),
         UNCHANGED <<elapsed, begun, streams, heard, accepted, config_vars>>
  PROVE  HostTyped'
<1>1. request.id \in 0..IdMax /\ epoch \in Nat /\ delivered.ended \in Nat
  BY DEF Typed, EngineTypeOK, RequestType, HostTyped, Report
<1>2. delivered.ended + (IF outcome = "part" THEN 0 ELSE 1) \in Nat
  BY <1>1
<1>3. delivered' \in Report
  BY <1>1, <1>2 DEF Deliver, Report
<1>4. QED
  BY <1>3 DEF Typed, HostTyped, config_vars

\* The end of a request that is not being sent.
LEMMA EndKeeps ==
  ASSUME MasterInv, NEW outcome \in Outcomes, NEW data \in Nat,
         wire # "tx", EndRequest(outcome, data), pc' = "messages",
         counters' \in [CounterNames -> Nat],
         UNCHANGED <<quiet, line, elapsed, begun, streams, heard, accepted,
                     config_vars>>
  PROVE  MasterInv'
<1>1. chunk.current \in Nat
  BY DEF MasterInv, Typed, EngineTypeOK, ChunkType
<1>2. HostTyped'
  BY <1>1, DeliverTyped DEF MasterInv, EndRequest
<1>3. QED
  BY <1>2, ClearedInOrder DEF EndRequest

\* A handler that leaves the request waiting changes the stream, a counter or
\* what the host knows.
LEMMA ReportOnlyKeeps ==
  ASSUME MasterInv, pc' = "messages", HostTyped',
         chunk' \in ChunkType, counters' \in [CounterNames -> Nat],
         UNCHANGED <<wire, rx_rb_last_length, request, rx, epoch, txpath,
                     quiet, line, accepted, config_vars>>
  PROVE  MasterInv'
<1>1. EngineTypeOK'
  BY DEF MasterInv, Typed, EngineTypeOK
<1>2. TxTypeOK(ValidUnit)' /\ RxTypeOK(Byte)'
  BY DEF MasterInv, Typed, TxTypeOK, RxTypeOK, txpath
<1>3. Due => HoldsFrame' /\ rx_frame' = rx_frame
  BY DEF MasterInv, DueWithFrame, HoldsFrame, rx_frame
<1>4. QED
  BY <1>1, <1>2, <1>3, KeptInOrder DEF Typed, txpath, config_vars

\* A packet of a long response.
LEMMA StreamKeeps ==
  ASSUME MasterInv, Due, NEW sendable \in BOOLEAN, pc' = "messages",
         send_stream_chunks(StreamOf(rx_frame), sendable), wire # "tx",
         UNCHANGED <<quiet, line, elapsed, begun, streams, heard, accepted,
                     config_vars>>
  PROVE  MasterInv'
<1> DEFINE s == StreamOf(rx_frame)
<1>1. s \in ChunkType /\ s.current \in Nat
  BY ReplyBeforeHandler
     DEF StreamOf, ChunkType, MasterInv, Typed, EngineTypeOK
<1>2. counters \in [CounterNames -> Nat]
  BY DEF MasterInv, Typed, EngineTypeOK
<1> HIDE DEF s
<1>3. CASE ~sendable
  <2>1. HostTyped'
    BY <1>3 DEF send_stream_chunks, MasterInv, Typed, HostTyped, config_vars
  <2>2. QED
    BY <1>1, <1>2, <1>3, <2>1, ReportOnlyKeeps DEF send_stream_chunks, s
<1>4. CASE sendable /\ s.current = s.total - 1
  <2>1. EndRequest("data", rx_frame.serial) /\ UNCHANGED counters
    BY <1>4 DEF send_stream_chunks, s
  <2>2. QED
    BY <1>2, <2>1, EndKeeps, ReplyBeforeHandler DEF Outcomes
<1>5. CASE sendable /\ s.current # s.total - 1
  <2>1. /\ Deliver("part", rx_frame.serial, s.current)
        /\ chunk' = [s EXCEPT !.current = s.current + 1]
        /\ UNCHANGED <<wire, rx_rb_last_length, request, counters, rx, epoch,
                       txpath>>
    BY <1>5 DEF send_stream_chunks, s
  <2>2. chunk' \in ChunkType
    BY <1>1, <2>1 DEF ChunkType
  <2>3. HostTyped'
    BY <1>1, <2>1, DeliverTyped, ReplyBeforeHandler DEF Outcomes, MasterInv
  <2>4. QED
    BY <1>2, <2>1, <2>2, <2>3, ReportOnlyKeeps
<1>6. QED
  BY <1>3, <1>4, <1>5

\* A round of callbacks keeps the invariant.
LEMMA CallbackKeeps ==
  ASSUME MasterInv, NEW sendable \in BOOLEAN, InvokeCallback(sendable)
  PROVE  MasterInv'
<1>1. /\ pc' = "messages"
      /\ UNCHANGED <<quiet, line, elapsed, begun, streams, heard, accepted,
                     config_vars>>
      /\ MasterCallback(sendable)
  BY DEF InvokeCallback
<1>2. Waiting /\ request.cb_invoke /\ Reports
  BY <1>1, CallbackCases DEF MasterInv
<1>3. wire # "tx" /\ counters \in [CounterNames -> Nat]
  BY <1>2 DEF MasterInv, RequestInOrder, Typed, EngineTypeOK
<1>4. UNCHANGED delivered => HostTyped'
  BY <1>1 DEF MasterInv, Typed, HostTyped, config_vars
<1>5. CASE CallbackRefused
  <2>1. UNCHANGED <<wire, rx_rb_last_length, request, chunk, counters, rx,
                    epoch, txpath>>
    BY <1>5 DEF CallbackRefused, ModbusUnchanged
  <2>2. chunk' \in ChunkType
    BY <2>1 DEF MasterInv, Typed, EngineTypeOK
  <2>3. HostTyped'
    BY <1>4, <1>5 DEF CallbackRefused
  <2>4. QED
    BY <1>1, <1>3, <2>1, <2>2, <2>3, ReportOnlyKeeps
<1>6. ASSUME NEW outcome \in Outcomes, NEW data \in Nat, Ends(outcome, data)
      PROVE  MasterInv'
  BY <1>1, <1>3, <1>6, EndKeeps DEF Ends
<1>7. CASE Due /\ \E ok \in BOOLEAN : ReportSlaveException(ok)
  <2>1. PICK ok \in BOOLEAN : ReportSlaveException(ok)
    BY <1>7
  <2>2. counters' \in [CounterNames -> Nat]
    BY <1>3, <2>1, CountTyped DEF ReportSlaveException, CountException
  <2>3. CASE ok
    BY <1>1, <1>3, <1>7, <2>1, <2>2, <2>3, EndKeeps, ReplyBeforeHandler
       DEF ReportSlaveException, Outcomes
  <2>4. CASE ~ok
    <3>1. UNCHANGED <<wire, rx_rb_last_length, request, chunk, rx, epoch,
                      txpath, delivered>>
      BY <2>1, <2>4 DEF ReportSlaveException
    <3>2. chunk' \in ChunkType
      BY <3>1 DEF MasterInv, Typed, EngineTypeOK
    <3>3. QED
      BY <1>1, <1>4, <2>2, <3>1, <3>2, ReportOnlyKeeps
  <2>5. QED
    BY <2>3, <2>4
<1>8. CASE DropResponse
  <2>1. counters' \in [CounterNames -> Nat]
    BY <1>3, <1>8, CountTyped DEF DropResponse
  <2>2. QED
    BY <1>1, <1>3, <1>4, <1>8, <2>1, ClearedInOrder DEF DropResponse
<1>9. CASE Due /\ \E ok \in BOOLEAN :
                    send_stream_chunks(StreamOf(rx_frame), ok)
  BY <1>1, <1>3, <1>9, StreamKeeps
<1>10. QED
  BY <1>2, <1>5, <1>6, <1>7, <1>8, <1>9, ReplyBeforeHandler
     DEF Reports, DataDue, Outcomes

------------------------------------------------------------------------------
(* The calls of the host.                                                  *)

\* A chunk is stored and nothing else happens.
StoreOnly(bytes) ==
  /\ tx' = tx \o bytes
  /\ UNCHANGED <<wire, rx_rb_last_length, request, chunk, counters, rx, epoch,
                 tx_done, tx_start, txirq, fifo, direction, elapsed, accepted>>

\* What a handler may do for a call with these bytes of r.
Handles(r, bytes) ==
  \/ RefuseRequest
  \/ ReadyForRequest /\ SendRequest(r, bytes)
  \/ ReadyForRequest /\ StoreOnly(bytes)

\* The eight handlers are of three kinds.
LEMMA MessageCases ==
  ASSUME HandleMessage
  PROVE  \/ \E fc \in FunctionCodes : OneCall(fc)
         \/ \E fc \in MultipleWrites : FirstChunk(fc)
         \/ \E fc \in MultipleWrites : NextChunk(fc)
  BY DEF HandleMessage, FunctionCodes, Reads, SingleWrites, MultipleWrites,
     modbus_master_read_coils, modbus_master_read_holding_registers,
     modbus_master_write_single_coil, modbus_master_write_single_register,
     modbus_master_read_discrete_inputs, modbus_master_read_input_registers,
     modbus_master_write_multiple_coils_low_level,
     modbus_master_write_multiple_registers_low_level

\* Whichever it is, the call is for a valid request.
LEMMA MessageHandled ==
  ASSUME Typed, HandleMessage
  PROVE  /\ \E r \in ValidRequest : \E bytes \in Seq(ValidUnit) :
              Handles(r, bytes)
         /\ begun' \in Nat
         /\ streams' \subseteq [request: ValidRequest, next: Nat]
<1>1. begun \in Nat /\ streams \subseteq [request: ValidRequest, next: Nat]
  BY DEF Typed, HostTyped
<1>2. ASSUME NEW r \in ValidRequest, NEW k \in Nat, StoreRequestChunk(r, k)
      PROVE  \E bytes \in Seq(ValidUnit) : Handles(r, bytes)
  <2>1. RequestChunk(r, k) \in Seq(ValidUnit)
    BY RequestUnitsTyped
  <2>2. Handles(r, RequestChunk(r, k))
    BY <1>2 DEF StoreRequestChunk, Handles, StoreOnly
  <2>3. QED
    BY <2>1, <2>2
<1>3. ASSUME NEW r \in ValidRequest, NEW k \in Nat
      PROVE  StreamAfter(r, k) \subseteq [request: ValidRequest, next: Nat]
  BY DEF StreamAfter
<1>4. CASE \E fc \in FunctionCodes : OneCall(fc)
  <2>1. PICK r \in Requests :
          IF ReadyForRequest
          THEN SendRequest(Numbered(r), RequestFrame(Numbered(r)))
          ELSE RefuseRequest
    BY <1>4 DEF OneCall
  <2>2. Numbered(r) \in ValidRequest
    BY <1>1, NumberedValid
  <2>3. RequestFrame(Numbered(r)) \in Seq(ValidUnit)
    BY <2>2, RequestUnitsTyped
  <2>4. Handles(Numbered(r), RequestFrame(Numbered(r)))
    BY <2>1 DEF Handles
  <2>5. begun' \in Nat /\ UNCHANGED streams
    BY <1>1, <1>4 DEF OneCall
  <2>6. QED
    BY <1>1, <2>2, <2>3, <2>4, <2>5
<1>5. CASE \E fc \in MultipleWrites : FirstChunk(fc)
  <2>1. PICK r \in Requests :
          /\ StoreRequestChunk(Numbered(r), 1)
          /\ streams' = streams \cup StreamAfter(Numbered(r), 1)
    BY <1>5 DEF FirstChunk
  <2>2. Numbered(r) \in ValidRequest
    BY <1>1, NumberedValid
  <2>3. begun' \in Nat
    BY <1>1, <1>5 DEF FirstChunk
  <2>4. StreamAfter(Numbered(r), 1) \subseteq [request: ValidRequest, next: Nat]
    BY <1>3, <2>2
  <2>5. \E bytes \in Seq(ValidUnit) : Handles(Numbered(r), bytes)
    BY <1>2, <2>1, <2>2
  <2>6. QED
    BY <1>1, <2>1, <2>2, <2>3, <2>4, <2>5
<1>6. CASE \E fc \in MultipleWrites : NextChunk(fc)
  <2>1. PICK s \in streams :
          /\ StoreRequestChunk(s.request, s.next)
          /\ streams' = (streams \ {s}) \cup StreamAfter(s.request, s.next)
          /\ UNCHANGED begun
    BY <1>6 DEF NextChunk
  <2>2. s.request \in ValidRequest /\ s.next \in Nat
    BY <1>1
  <2>3. StreamAfter(s.request, s.next) \subseteq [request: ValidRequest, next: Nat]
    BY <1>3, <2>2
  <2>4. \E bytes \in Seq(ValidUnit) : Handles(s.request, bytes)
    BY <1>2, <2>1, <2>2
  <2>5. QED
    BY <1>1, <2>1, <2>2, <2>3, <2>4
<1>7. QED
  BY <1>4, <1>5, <1>6, MessageCases

\* A request that is taken up is typed and gets an id other than 0.
LEMMA SendTyped ==
  ASSUME Typed, NEW r \in ValidRequest, NEW bytes \in Seq(ValidUnit),
         SendRequest(r, bytes), UNCHANGED pc
  PROVE  /\ EngineTypeOK' /\ request'.id \in 1..IdMax
         /\ request'.state = "master_waiting" /\ ~request'.cb_invoke
         /\ request'.timed_out = request.timed_out
         /\ accepted' = [request |-> r, id |-> request'.id, epoch |-> epoch']
         /\ epoch' = epoch + 1
<1>1. RequestChunks(r) + 2 \in Nat
  BY RequestUnitsTyped
<1>2. modbus_init_new_request("master_waiting", RequestChunks(r) + 2, FALSE)
  BY DEF SendRequest
<1>3. /\ request' \in RequestType /\ epoch' \in Nat
      /\ request'.id = NextRequestId(request.id)
      /\ request'.state = "master_waiting"
  BY <1>1, <1>2, NewRequestTyped DEF Typed, RequestStates
<1>4. request \in RequestType
  BY DEF Typed, EngineTypeOK
<1>5. ~request'.cb_invoke /\ request'.timed_out = request.timed_out
      /\ epoch' = epoch + 1
  BY <1>2, <1>4 DEF modbus_init_new_request, RequestType
<1>6. NextRequestId(request.id) \in 1..IdMax
  BY <1>4, NextRequestIdValue DEF RequestType
<1>7. EngineTypeOK'
  BY <1>3 DEF SendRequest, modbus_start_tx_from_buffer, Typed, EngineTypeOK,
     WireStates
<1>8. QED
  BY <1>3, <1>5, <1>6, <1>7 DEF SendRequest

\* Accepting a request, or a chunk of one, keeps the invariant.
LEMMA MessageKeeps ==
  ASSUME MasterInv, HandleMessage
  PROVE  MasterInv'
<1>1. UNCHANGED <<pc, quiet, line, heard, delivered, config_vars>>
  BY DEF HandleMessage
<1>2. PICK r \in ValidRequest, bytes \in Seq(ValidUnit) : Handles(r, bytes)
  BY MessageHandled DEF MasterInv
<1>3. begun' \in Nat /\ streams' \subseteq [request: ValidRequest, next: Nat]
  BY MessageHandled DEF MasterInv
<1>4. UNCHANGED <<elapsed, accepted>> => HostTyped'
  BY <1>1, <1>3 DEF MasterInv, Typed, HostTyped, config_vars
<1>5. CASE RefuseRequest
  <2>1. UNCHANGED <<wire, rx_rb_last_length, request, chunk, counters, rx,
                    epoch, tx_done, tx, tx_start, txirq, fifo, direction,
                    elapsed, accepted>>
    BY <1>5 DEF RefuseRequest, ModbusUnchanged, txpath
  <2>2. Typed'
    BY <1>1, <1>4, <2>1
       DEF MasterInv, Typed, EngineTypeOK, TxTypeOK, RxTypeOK
  <2>3. Due => HoldsFrame' /\ rx_frame' = rx_frame
    BY <2>1 DEF MasterInv, DueWithFrame, HoldsFrame, rx_frame
  <2>4. QED
    BY <1>1, <2>1, <2>2, <2>3, KeptInOrder DEF config_vars
<1>6. CASE ReadyForRequest /\ StoreOnly(bytes)
  <2>1. ~Waiting /\ wire = "idle"
    BY <1>6 DEF ReadyForRequest, Waiting
  <2>2. tx \o bytes \in Seq(ValidUnit) /\ Len(tx \o bytes) = Len(tx) + Len(bytes)
    BY DEF MasterInv, Typed, TxTypeOK
  <2>3. TxTypeOK(ValidUnit)'
    BY <1>6, <2>2 DEF StoreOnly, MasterInv, Typed, TxTypeOK
  <2>4. EngineTypeOK' /\ RxTypeOK(Byte)' /\ HostTyped'
    BY <1>1, <1>4, <1>6
       DEF StoreOnly, MasterInv, Typed, EngineTypeOK, RxTypeOK
  <2>5. ~Waiting' /\ wire' = "idle"
    BY <1>6, <2>1 DEF StoreOnly, Waiting
  <2>6. RequestInOrder' /\ DueWithFrame'
    BY <1>6, <2>1, <2>5
       DEF StoreOnly, MasterInv, RequestInOrder, DueWithFrame, Due, Waiting
  <2>7. TransmissionInOrder'
    BY <1>6, <2>1 DEF StoreOnly, MasterInv, TransmissionInOrder
  <2>8. QED
    BY <2>3, <2>4, <2>6, <2>7 DEF MasterInv, Typed
<1>7. CASE ReadyForRequest /\ SendRequest(r, bytes)
  <2>1. /\ EngineTypeOK' /\ request'.id \in 1..IdMax
        /\ request'.state = "master_waiting" /\ ~request'.cb_invoke
        /\ request'.timed_out = request.timed_out
        /\ accepted' = [request |-> r, id |-> request'.id, epoch |-> epoch']
    BY <1>1, <1>7, SendTyped DEF MasterInv
  <2>2. ~Waiting /\ wire = "idle"
    BY <1>7 DEF ReadyForRequest, Waiting
  <2>3. ~request'.timed_out
    BY <2>1, <2>2 DEF MasterInv, RequestInOrder
  <2>4. /\ tx' = tx \o bytes /\ wire' = "tx" /\ txirq' = "pending"
        /\ elapsed' = FALSE
        /\ UNCHANGED <<rx, tx_done, tx_start, fifo, direction>>
    BY <1>7 DEF SendRequest, modbus_start_tx_from_buffer
  <2>5. tx \o bytes \in Seq(ValidUnit) /\ Len(tx \o bytes) = Len(tx) + Len(bytes)
    BY DEF MasterInv, Typed, TxTypeOK
  <2>6. TxTypeOK(ValidUnit)'
    BY <2>4, <2>5 DEF MasterInv, Typed, TxTypeOK
  <2>7. RxTypeOK(Byte)'
    BY <1>1, <2>4 DEF MasterInv, Typed, RxTypeOK
  <2>8. HostTyped'
    <3>1. request'.id \in 0..IdMax /\ epoch' \in Nat
      BY <2>1 DEF EngineTypeOK
    <3>2. accepted' \in [request: ValidRequest, id: 0..IdMax, epoch: Nat]
      BY <2>1, <3>1
    <3>3. QED
      BY <1>1, <1>3, <2>4, <3>2 DEF MasterInv, Typed, HostTyped, config_vars
  <2>9. RequestInOrder' /\ DueWithFrame'
    BY <2>1, <2>3, <2>4 DEF RequestInOrder, DueWithFrame, Due, Waiting
  <2>10. TransmissionInOrder'
    BY <2>2, <2>4 DEF MasterInv, TransmissionInOrder
  <2>11. QED
    BY <2>1, <2>6, <2>7, <2>8, <2>9, <2>10 DEF MasterInv, Typed
<1>8. QED
  BY <1>2, <1>5, <1>6, <1>7 DEF Handles

------------------------------------------------------------------------------
(* rs485_tick and the configuration.                                       *)

\* The request fails, and is counted as timed out.
Fails ==
  /\ wire = "idle" /\ Waiting /\ ~request.timed_out
  /\ \E names \in SUBSET CounterNames :
       "timeout" \in names /\ FailRequest(names)

\* A frame is taken for the response; it passed the checks unless the request
\* has timed out, when it does not matter any more.
ResponseTaken ==
  /\ wire = "idle" /\ Waiting /\ ~chunk.in_progress
  /\ Len(rx) = rx_rb_last_length
  /\ ~request.timed_out =>
       /\ modbus_check_frame_checksum(SubSeq(rx, 1, rx_rb_last_length))
       /\ modbus_master_check_slave_response
  /\ request' = [request EXCEPT !.cb_invoke = TRUE]
  /\ UNCHANGED <<wire, rx_rb_last_length, chunk, counters, rx, epoch, txpath>>

\* What one look of the wire state machine does to the request.
LEMMA TickCases ==
  ASSUME Tick
  PROVE  Fails \/ ResponseTaken \/ MasterNewData \/ RxGap \/ MasterTxDone
           \/ ModbusUnchanged
<1>1. CASE MasterFrame
  BY <1>1 DEF MasterFrame, FrameAvailable, Waiting, CounterNames, Fails,
     ResponseTaken
<1>2. CASE MasterRequestTimeout
  BY <1>2 DEF MasterRequestTimeout, RequestTimedOut, CounterNames, Fails,
     Waiting
<1>3. QED
  BY <1>1, <1>2 DEF Tick, NothingToDo

\* A tick keeps the invariant.
LEMMA TickKeeps ==
  ASSUME MasterInv, Tick
  PROVE  MasterInv'
<1>1. UNCHANGED <<quiet, line, master_vars>>
      /\ pc' \in {"tick", "callbacks", "messages"}
  BY DEF Tick
<1>2. HostTyped' /\ UNCHANGED <<accepted, moved>>
  BY <1>1 DEF MasterInv, Typed, HostTyped, master_vars, host_vars, config_vars
<1>3. counters \in [CounterNames -> Nat] /\ EngineTypeOK
  BY DEF MasterInv, Typed, EngineTypeOK
<1>4. UNCHANGED <<tx, tx_start, moved>> => UNCHANGED tx_frame /\ UNCHANGED Broadcast
  BY DEF tx_frame, FrameAtFront, Broadcast
<1>5. UNCHANGED rx => RxTypeOK(Byte)'
  BY <1>1 DEF MasterInv, Typed, RxTypeOK
<1>6. UNCHANGED txpath => TxTypeOK(ValidUnit)'
  BY DEF MasterInv, Typed, TxTypeOK, txpath
<1>7. CASE Fails
  <2>1. PICK names \in SUBSET CounterNames : FailRequest(names)
    BY <1>7 DEF Fails
  <2>2. /\ request' = [request EXCEPT !.cb_invoke = TRUE, !.timed_out = TRUE]
        /\ UNCHANGED <<wire, rx_rb_last_length, chunk, rx, epoch, txpath>>
    BY <2>1 DEF FailRequest
  <2>3. counters' \in [CounterNames -> Nat]
    BY <1>3, <2>1, CountTyped DEF FailRequest
  <2>4. /\ request' \in RequestType /\ request'.state = "master_waiting"
        /\ request'.timed_out /\ request'.id = request.id
    <3>1. request \in RequestType /\ request.state = "master_waiting"
      BY <1>3, <1>7 DEF EngineTypeOK, Fails, Waiting
    <3>2. QED
      BY <2>2, <3>1 DEF RequestType
  <2>5. EngineTypeOK'
    BY <1>1, <1>3, <2>2, <2>3, <2>4 DEF EngineTypeOK
  <2>6. RequestInOrder' /\ DueWithFrame'
    BY <1>2, <1>7, <2>2, <2>4 DEF MasterInv, RequestInOrder, DueWithFrame, Due,
       Waiting, Fails
  <2>7. TransmissionInOrder'
    BY <2>2 DEF MasterInv, TransmissionInOrder, txpath
  <2>8. QED
    BY <1>2, <1>5, <1>6, <2>2, <2>5, <2>6, <2>7 DEF MasterInv, Typed
<1>8. CASE ResponseTaken
  <2>1. /\ request' \in RequestType /\ request'.state = "master_waiting"
        /\ request'.id = request.id /\ request'.timed_out = request.timed_out
    <3>1. request \in RequestType /\ request.state = "master_waiting"
      BY <1>3, <1>8 DEF EngineTypeOK, ResponseTaken, Waiting
    <3>2. QED
      BY <1>8, <3>1 DEF RequestType, ResponseTaken
  <2>2. UNCHANGED <<wire, rx_rb_last_length, chunk, counters, rx, epoch, txpath>>
    BY <1>8 DEF ResponseTaken
  <2>3. EngineTypeOK'
    BY <1>1, <1>3, <2>1, <2>2 DEF EngineTypeOK
  <2>4. RequestInOrder'
    BY <1>2, <1>8, <2>1, <2>2 DEF MasterInv, RequestInOrder, Waiting, ResponseTaken
  <2>5. DueWithFrame'
    <3>1. UNCHANGED <<rx_frame, tx_frame, HoldsFrame>>
      BY <1>2, <1>4, <2>2 DEF rx_frame, HoldsFrame, txpath
    <3>2. CASE ~request.timed_out
      <4>1. HoldsFrame
        BY <1>8, <3>2, CheckedFrame DEF ResponseTaken, MasterInv, Typed, RxTypeOK
      <4>2. QED
        BY <1>8, <3>1, <3>2, <4>1
           DEF DueWithFrame, ResponseTaken, modbus_master_check_slave_response
    <3>3. CASE request.timed_out
      BY <2>1, <3>3 DEF DueWithFrame, Due
    <3>4. QED
      BY <3>2, <3>3
  <2>6. TransmissionInOrder'
    BY <2>2 DEF MasterInv, TransmissionInOrder, txpath
  <2>7. QED
    BY <1>2, <1>5, <1>6, <2>2, <2>3, <2>4, <2>5, <2>6 DEF MasterInv, Typed
<1>9. CASE MasterNewData \/ RxGap \/ ModbusUnchanged
  <2>1. /\ UNCHANGED <<request, chunk, counters, rx, epoch, txpath>>
        /\ rx_rb_last_length' \in {rx_rb_last_length, Len(rx)}
        /\ \/ wire' = wire
           \/ wire # "tx" /\ wire' \in {"idle", "rx"} /\ Waiting
    BY <1>9 DEF MasterNewData, NewData, StartRx, RxGap, ModbusUnchanged,
       MasterInv, RequestInOrder, Waiting
  <2>2. EngineTypeOK'
    <3>1. rx_rb_last_length' \in Nat
      BY <2>1 DEF MasterInv, Typed, EngineTypeOK, RxTypeOK
    <3>2. wire' \in WireStates
      BY <1>3, <2>1 DEF EngineTypeOK, WireStates
    <3>3. QED
      BY <1>1, <1>3, <2>1, <3>1, <3>2 DEF EngineTypeOK
  <2>3. Due => HoldsFrame' /\ rx_frame' = rx_frame
    BY <2>1 DEF MasterInv, DueWithFrame, HoldsFrame, rx_frame
  <2>4. QED
    BY <1>2, <1>5, <1>6, <2>1, <2>2, <2>3, KeptInOrder DEF Typed, txpath
<1>10. CASE MasterTxDone
  <2>1. /\ wire = "tx" /\ tx_done /\ tx_done' = FALSE /\ wire' = "idle"
        /\ request' = (IF Broadcast THEN [request EXCEPT !.cb_invoke = TRUE]
                       ELSE request)
        /\ UNCHANGED <<rx_rb_last_length, chunk, counters, rx, epoch, tx,
                       tx_start, txirq, fifo, direction>>
    BY <1>10 DEF MasterTxDone
  <2>2. Waiting /\ ~request.cb_invoke /\ ~request.timed_out /\ txirq = "off"
    BY <2>1 DEF MasterInv, RequestInOrder, TransmissionInOrder
  <2>3. /\ request' \in RequestType /\ request'.state = "master_waiting"
        /\ request'.id = request.id
        /\ request'.cb_invoke => Broadcast
    BY <1>3, <2>1, <2>2 DEF EngineTypeOK, RequestType, Waiting
  <2>4. EngineTypeOK'
    BY <1>1, <1>3, <2>1, <2>3 DEF EngineTypeOK, WireStates
  <2>5. TxTypeOK(ValidUnit)'
    BY <2>1 DEF MasterInv, Typed, TxTypeOK
  <2>6. RequestInOrder'
    BY <1>2, <2>1, <2>2, <2>3 DEF MasterInv, RequestInOrder, Waiting
  <2>7. DueWithFrame'
    BY <1>2, <1>4, <2>1, <2>3 DEF DueWithFrame, Due
  <2>8. TransmissionInOrder'
    BY <2>1, <2>2 DEF TransmissionInOrder
  <2>9. QED
    BY <1>2, <1>5, <2>1, <2>4, <2>5, <2>6, <2>7, <2>8 DEF MasterInv, Typed
<1>11. QED
  BY <1>7, <1>8, <1>9, <1>10, TickCases

\* A change of the buffer sizes moves the request away from under the
\* handlers: its frame is not found any more, so that no response is due.
LEMMA MovedBufferKeeps ==
  ASSUME MasterInv, set_buffer_config, HostTyped',
         UNCHANGED <<pc, quiet, line, accepted>>
  PROVE  MasterInv'
<1>1. /\ rx' = <<>> /\ tx' = <<>> /\ tx_start' = 0
      /\ UNCHANGED <<wire, tx_done, rx_rb_last_length, request, chunk,
                     counters, txirq, fifo, direction, epoch>>
  BY DEF set_buffer_config
<1>2. Broadcast'
  BY <1>1 DEF Broadcast, tx_frame, FrameAtFront, ZeroFrame
<1>3. EngineTypeOK' /\ TxTypeOK(ValidUnit)' /\ RxTypeOK(Byte)'
  BY <1>1 DEF MasterInv, Typed, EngineTypeOK, TxTypeOK, RxTypeOK
<1>4. RequestInOrder' /\ TransmissionInOrder' /\ DueWithFrame'
  BY <1>1, <1>2 DEF MasterInv, RequestInOrder, TransmissionInOrder,
     DueWithFrame, Due, Waiting
<1>5. QED
  BY <1>3, <1>4 DEF MasterInv, Typed

\* After modbus_init no request is left.
LEMMA ReconfiguredKeeps ==
  ASSUME MasterInv, rs485_apply_configuration, HostTyped',
         UNCHANGED <<pc, quiet, line>>
  PROVE  MasterInv'
<1>1. /\ rx' = <<>> /\ tx' = <<>> /\ tx_start' = 0 /\ direction' = "rx"
      /\ wire' = "idle" /\ ~tx_done' /\ txirq = "off"
      /\ rx_rb_last_length' = 0 /\ request' = ReadyRequest(1)
      /\ chunk' = NoChunking /\ epoch' = epoch + 1
      /\ tx_done' \in BOOLEAN
      /\ UNCHANGED <<txirq, fifo>>
  BY DEF rs485_apply_configuration
<1>2. counters' \in [CounterNames -> Nat]
  BY DEF rs485_apply_configuration, MasterInv, Typed, EngineTypeOK
<1>3. ReadyRequest(1) \in RequestType /\ NoChunking \in ChunkType
  BY RTUAssumption
     DEF ReadyRequest, RequestType, RequestStates, NoChunking, ChunkType
<1>4. EngineTypeOK'
  BY <1>1, <1>2, <1>3 DEF MasterInv, Typed, EngineTypeOK, WireStates
<1>5. TxTypeOK(ValidUnit)' /\ RxTypeOK(Byte)'
  BY <1>1 DEF MasterInv, Typed, TxTypeOK, RxTypeOK
<1>6. RequestInOrder' /\ TransmissionInOrder' /\ DueWithFrame'
  BY <1>1 DEF ReadyRequest, RequestInOrder, TransmissionInOrder, DueWithFrame,
     Due, Waiting
<1>7. QED
  BY <1>4, <1>5, <1>6 DEF MasterInv, Typed

\* A change of the configuration keeps the invariant.
LEMMA ConfigureKeeps ==
  ASSUME MasterInv, Configure
  PROVE  MasterInv'
<1>1. /\ UNCHANGED <<pc, quiet, line, elapsed, begun, streams, accepted,
                     delivered>>
      /\ configs' = configs + 1
  BY DEF Configure, host_vars
<1>2. set_buffer_config \/ rs485_apply_configuration
  BY DEF Configure, set_rs485_configuration, set_modbus_configuration
<1>3. heard' \subseteq NumberedRequest /\ moved' \in BOOLEAN
  BY <1>2, HeardTyped DEF set_buffer_config, rs485_apply_configuration,
     MasterInv, Typed, HostTyped
<1>4. HostTyped'
  BY <1>1, <1>3 DEF MasterInv, Typed, HostTyped
<1>5. QED
  BY <1>1, <1>2, <1>4, MovedBufferKeeps, ReconfiguredKeeps

------------------------------------------------------------------------------
(* The bus, the interrupts and the time.                                   *)

\* A byte on the bus does not touch a response that is due.
LEMMA ByteKeeps ==
  ASSUME MasterInv, NEW bytes \in Seq(Byte), BusByte(bytes),
         heard' \subseteq heard, UNCHANGED <<elapsed, host_vars, config_vars>>
  PROVE  MasterInv'
<1>1. EngineTypeOK' /\ TxTypeOK(ValidUnit)' /\ RxTypeOK(Byte)'
  BY BusByteTyped DEF MasterInv, Typed, Byte
<1>2. HostTyped'
  BY DEF MasterInv, Typed, HostTyped, host_vars, config_vars
<1>3. rx' = rx \/ \E b \in Byte : rx' = Append(rx, b)
  <2>1. Head(bytes) \in Byte /\ Noise \in Byte
    BY DEF BusByte, Byte
  <2>2. QED
    BY <2>1 DEF BusByte, rs485_rx_irq_handler
<1>4. Due => HoldsFrame' /\ rx_frame' = rx_frame
  BY <1>3, HeldFrameStays DEF MasterInv, Typed, RxTypeOK, DueWithFrame
<1>5. UNCHANGED <<request, epoch, accepted, wire, tx, tx_start, moved, tx_done,
                  txirq>>
  BY DEF BusByte, txpath, host_vars, config_vars
<1>6. QED
  BY <1>1, <1>2, <1>4, <1>5, KeptInOrder DEF Typed

\* The TX interrupt reports the end of a transmission when it is at its end.
LEMMA TxInterruptKeeps ==
  ASSUME MasterInv, TxInterrupt
  PROVE  MasterInv'
<1>1. rs485_tx_irq_handler /\ UNCHANGED <<elapsed, host_vars, config_vars>>
  BY DEF TxInterrupt
<1>2. EngineTypeOK' /\ TxTypeOK(ValidUnit)' /\ RxTypeOK(Byte)'
  BY <1>1, TxInterruptTyped DEF MasterInv, Typed
<1>3. HostTyped'
  BY <1>1, HeardTyped DEF TxInterrupt, MasterInv, Typed, HostTyped, host_vars,
     config_vars
<1>4. UNCHANGED <<wire, request, rx, tx, epoch, accepted, moved>>
  BY <1>1 DEF rs485_tx_irq_handler, host_vars, config_vars
<1>5. wire = "tx"
  BY <1>1 DEF rs485_tx_irq_handler, MasterInv, TransmissionInOrder
<1>6. \/ txirq' = "off" /\ tx_done' /\ tx_start' = Len(tx)
      \/ txirq' = "armed" /\ ~tx_done'
  <2>1. ~tx_done
    BY <1>1 DEF rs485_tx_irq_handler, MasterInv, TransmissionInOrder
  <2>2. RingFoundEmpty => tx_start' = Len(tx)
    BY <1>1, RingEmptyAtEnd DEF MasterInv, Typed
  <2>3. QED
    BY <1>1, <2>1, <2>2 DEF rs485_tx_irq_handler
<1>7. RequestInOrder'
  BY <1>4 DEF MasterInv, RequestInOrder, Waiting
<1>8. TransmissionInOrder'
  BY <1>4, <1>5, <1>6 DEF TransmissionInOrder
<1>9. DueWithFrame'
  BY <1>4, <1>5 DEF MasterInv, RequestInOrder, DueWithFrame, Due, Waiting
<1>10. QED
  BY <1>2, <1>3, <1>7, <1>8, <1>9 DEF MasterInv, Typed

\* So do all other steps that only move the FIFO, the silence or the time.
LEMMA RestKeeps ==
  ASSUME MasterInv, \/ SkipCallbacks \/ EndOfLoop \/ TffInterrupt \/ QuietBus
                    \/ TimeoutElapses
  PROVE  MasterInv'
<1>1. /\ UNCHANGED <<wire, request, rx, tx, tx_start, tx_done, txirq, epoch,
                     accepted, moved>>
      /\ UNCHANGED <<begun, streams, heard, delivered, configs>>
      /\ elapsed' \in {elapsed, TRUE}
  <2>1. CASE SkipCallbacks \/ EndOfLoop
    BY <2>1 DEF SkipCallbacks, EndOfLoop, ModbusUnchanged, txpath, master_vars,
       host_vars, config_vars
  <2>2. CASE TffInterrupt
    BY <2>2 DEF TffInterrupt, rs485_tff_irq_handler, master_vars, host_vars,
       config_vars
  <2>3. CASE QuietBus
    BY <2>3 DEF QuietBus, Silence, txpath, master_vars, host_vars, config_vars
  <2>4. CASE TimeoutElapses
    BY <2>4 DEF TimeoutElapses, rtu_vars, host_vars, config_vars
  <2>5. QED
    BY <2>1, <2>2, <2>3, <2>4
<1>2. EngineTypeOK' /\ TxTypeOK(ValidUnit)' /\ RxTypeOK(Byte)'
  <2>1. CASE SkipCallbacks \/ EndOfLoop
    BY <2>1 DEF SkipCallbacks, EndOfLoop, ModbusUnchanged, txpath, MasterInv,
       Typed, EngineTypeOK, TxTypeOK, RxTypeOK
  <2>2. CASE TffInterrupt
    BY <2>2, TffInterruptTyped DEF TffInterrupt, MasterInv, Typed
  <2>3. CASE QuietBus
    BY <2>3 DEF QuietBus, Silence, txpath, MasterInv, Typed, EngineTypeOK,
       TxTypeOK, RxTypeOK
  <2>4. CASE TimeoutElapses
    BY <2>4 DEF TimeoutElapses, rtu_vars, MasterInv, Typed, EngineTypeOK,
       TxTypeOK, RxTypeOK
  <2>5. QED
    BY <2>1, <2>2, <2>3, <2>4
<1>3. HostTyped'
  BY <1>1 DEF MasterInv, Typed, HostTyped
<1>4. Due => HoldsFrame' /\ rx_frame' = rx_frame
  BY <1>1 DEF MasterInv, DueWithFrame, HoldsFrame, rx_frame
<1>5. QED
  BY <1>1, <1>2, <1>3, <1>4, KeptInOrder DEF Typed

------------------------------------------------------------------------------
(* The invariant.                                                          *)

\* A slave replies, and what a talker has begun goes on.
LEMMA BusKeeps ==
  ASSUME MasterInv, SlaveReplies \/ NextByte
  PROVE  MasterInv'
<1>1. CASE SlaveReplies
  <2>1. PICK r \in heard, kind \in Replies :
          BusByte(FrameBytes(Reply(r, kind))) /\ heard' = heard \ {r}
    BY <1>1 DEF SlaveReplies
  <2>2. r \in NumberedRequest
    BY DEF MasterInv, Typed, HostTyped
  <2>3. FrameBytes(Reply(r, kind)) \in Seq(Byte)
    BY <2>2, ReplyBytesTyped
  <2>4. UNCHANGED <<elapsed, host_vars, config_vars>>
    BY <1>1 DEF SlaveReplies
  <2>5. heard' \subseteq heard
    BY <2>1
  <2>6. QED
    BY <2>1, <2>3, <2>4, <2>5, ByteKeeps
<1>2. CASE NextByte
  <2>1. BusByte(line) /\ line \in Seq(Byte)
    BY <1>2 DEF NextByte, MasterInv, Typed, RxTypeOK
  <2>2. heard' \subseteq heard /\ UNCHANGED <<elapsed, host_vars, config_vars>>
    BY <1>2 DEF NextByte, master_vars
  <2>3. QED
    BY <2>1, <2>2, ByteKeeps
<1>3. QED
  BY <1>1, <1>2

\* It holds at the start.
LEMMA MasterInitially ==
  ASSUME Init
  PROVE  MasterInv
<1>1. EngineTypeOK /\ TxTypeOK(ValidUnit) /\ RxTypeOK(Byte)
  BY InitTyped DEF Init
<1>2. NoRequest \in ValidRequest
  BY DEF NoRequest, ValidRequest, NumberedRequest, FunctionCodes, Reads
<1>3. HostTyped
  <2>1. 0 \in 0..IdMax /\ 0 \in Nat
    BY RTUAssumption
  <2>2. accepted \in [request: ValidRequest, id: 0..IdMax, epoch: Nat]
    BY <1>2, <2>1 DEF Init
  <2>3. delivered \in Report
    BY <2>1 DEF Init, Report, Outcomes
  <2>4. QED
    BY <2>2, <2>3 DEF Init, HostTyped
<1>4. RequestInOrder /\ TransmissionInOrder /\ DueWithFrame
  BY DEF Init, RTUInit, modbus_init, ReadyRequest, RequestInOrder,
     TransmissionInOrder, DueWithFrame, Due, Waiting
<1>5. QED
  BY <1>1, <1>3, <1>4 DEF MasterInv, Typed

\* Every step of the main loop, the interrupts, the bus and the host keeps it.
LEMMA StepKeeps ==
  ASSUME MasterInv, [Next]_vars
  PROVE  MasterInv'
<1>1. CASE UNCHANGED vars
  BY <1>1 DEF vars, rtu_vars, master_vars, host_vars, config_vars,
     MasterInv, Typed, EngineTypeOK, TxTypeOK, RxTypeOK, HostTyped,
     RequestInOrder, TransmissionInOrder, DueWithFrame, Due, Waiting,
     Broadcast, tx_frame, FrameAtFront, rx_frame, HoldsFrame
<1>2. CASE Next
  BY <1>2, TickKeeps, CallbackKeeps, MessageKeeps, ConfigureKeeps, ByteKeeps,
     TxInterruptKeeps, RestKeeps, BusKeeps DEF Next, MainLoop
<1>3. QED
  BY <1>1, <1>2

\* The invariant holds for all requests, replies, clients and configurations.
THEOREM MasterInvariant == Spec => []MasterInv
<1>1. Init => MasterInv
  BY MasterInitially
<1>2. MasterInv /\ [Next]_vars => MasterInv'
  BY StepKeeps
<1>3. QED
  BY <1>1, <1>2, PTL DEF Spec

------------------------------------------------------------------------------
(* What follows from it.                                                   *)

\* Every variable of the engine and of the master has its type, whatever the
\* host calls for and whatever slaves reply.
THEOREM TypeCorrect == Spec => []TypeOK
<1>1. ValidRequest \subseteq NumberedRequest /\ ValidUnit \subseteq RequestUnit
  BY DEF ValidRequest, ValidUnit, RequestUnit
<1>2. ASSUME MasterInv PROVE TypeOK
  <2>1. TxTypeOK(RequestUnit)
    <3>1. tx \in Seq(ValidUnit)
      BY <1>2 DEF MasterInv, Typed, TxTypeOK
    <3>2. tx \in Seq(RequestUnit)
      BY <1>1, <3>1
    <3>3. QED
      BY <1>2, <3>2 DEF MasterInv, Typed, TxTypeOK
  <2>2. streams \subseteq [request: NumberedRequest, next: Nat]
    BY <1>1, <1>2 DEF MasterInv, Typed, HostTyped
  <2>3. accepted \in [request: NumberedRequest, id: 0..IdMax, epoch: Nat]
    BY <1>1, <1>2 DEF MasterInv, Typed, HostTyped
  <2>4. QED
    BY <1>2, <2>1, <2>2, <2>3 DEF TypeOK, MasterInv, Typed, HostTyped, Report
<1>3. QED
  BY <1>2, MasterInvariant, PTL

\* When a handler is due for a request that was not broadcast and has not
\* timed out, the RX buffer starts with a whole frame of the slave that was
\* asked, with its function code: bytes that come in behind it, changes of the
\* buffer sizes and other clients do not take it away.
THEOREM DueHasResponse == Spec => []DueOnlyWithResponse
<1>1. ASSUME MasterInv PROVE DueOnlyWithResponse
  <2>1. CASE Due
    <3>1. HoldsFrame /\ rx \in Seq(Byte)
      BY <1>1, <2>1 DEF MasterInv, Typed, RxTypeOK, DueWithFrame
    <3>2. modbus_check_frame_checksum(SubSeq(rx, 1, FrameLen))
      BY <3>1, ChecksumOfHeldFrame
    <3>3. QED
      BY <1>1, <2>1, <3>2 DEF DueOnlyWithResponse, MasterInv, DueWithFrame
  <2>2. CASE ~Due
    BY <2>2 DEF Due, Waiting, DueOnlyWithResponse
  <2>3. QED
    BY <2>1, <2>2
<1>2. QED
  BY <1>1, MasterInvariant, PTL

\* The TX interrupt and its tx_done belong to the request on the wire, also
\* after a change of the buffer sizes in the middle of a transmission.
THEOREM TxDoneBelongsToRequest == Spec => []NoLeftoverTxDone
<1>1. MasterInv => NoLeftoverTxDone
  BY DEF MasterInv, TransmissionInOrder, NoLeftoverTxDone
<1>2. QED
  BY <1>1, MasterInvariant, PTL

\* Only the handlers report to the host.
LEMMA OnlyHandlersReport ==
  ASSUME [Next]_vars, delivered' # delivered
  PROVE  \E sendable \in BOOLEAN : InvokeCallback(sendable)
<1>1. Tick => UNCHANGED delivered
  BY DEF Tick, master_vars, host_vars
<1>2. SkipCallbacks \/ EndOfLoop => UNCHANGED delivered
  BY DEF SkipCallbacks, EndOfLoop, master_vars, host_vars
<1>3. HandleMessage => UNCHANGED delivered
  BY DEF HandleMessage
<1>4. Configure => UNCHANGED delivered
  BY DEF Configure, host_vars
<1>5. TxInterrupt \/ TffInterrupt => UNCHANGED delivered
  BY DEF TxInterrupt, TffInterrupt, master_vars, host_vars
<1>6. SlaveReplies \/ NextByte => UNCHANGED delivered
  BY DEF SlaveReplies, NextByte, master_vars, host_vars
<1>7. QuietBus \/ TimeoutElapses => UNCHANGED delivered
  BY DEF QuietBus, TimeoutElapses, master_vars, host_vars
<1>8. UNCHANGED vars => UNCHANGED delivered
  BY DEF vars, master_vars, host_vars
<1>9. QED
  BY <1>1, <1>2, <1>3, <1>4, <1>5, <1>6, <1>7, <1>8 DEF Next, MainLoop

\* What a callback to the host says, and what becomes of the request with it.
LEMMA ReportCases ==
  ASSUME MasterInv, [Next]_vars, delivered' # delivered
  PROVE  /\ Waiting /\ request.cb_invoke
         /\ delivered'.id = request.id /\ delivered'.epoch = epoch
         /\ \/ /\ request'.state = "ready" /\ ~request'.timed_out
               /\ delivered'.ended = delivered.ended + 1
               /\ \/ request.timed_out /\ ~Broadcast
                       /\ delivered'.outcome = "timeout" /\ delivered'.data = 0
                  \/ Broadcast /\ delivered'.outcome = "success"
                       /\ delivered'.data = 0
                  \/ Due /\ delivered'.outcome \in {"success", "exception", "data"}
                       /\ delivered'.data = rx_frame.serial
            \/ /\ UNCHANGED request /\ Due
               /\ delivered'.outcome = "part"
               /\ delivered'.ended = delivered.ended
               /\ delivered'.data = rx_frame.serial
<1>1. PICK sendable \in BOOLEAN : InvokeCallback(sendable)
  BY OnlyHandlersReport
<1>2. Waiting /\ request.cb_invoke /\ Reports
  BY <1>1, CallbackCases DEF InvokeCallback, MasterInv
<1>3. delivered.ended \in Nat
  BY DEF MasterInv, Typed, HostTyped, Report
<1>4. ASSUME NEW outcome, NEW data, outcome # "part", EndRequest(outcome, data)
      PROVE  /\ delivered'.id = request.id /\ delivered'.epoch = epoch
             /\ delivered'.outcome = outcome /\ delivered'.data = data
             /\ delivered'.ended = delivered.ended + 1
             /\ request'.state = "ready" /\ ~request'.timed_out
  BY <1>4 DEF EndRequest, Deliver, modbus_clear_request, ClearRequestTo,
     ReadyRequest
<1>5. CASE Due /\ \E ok \in BOOLEAN : ReportSlaveException(ok)
  <2>1. EndRequest("exception", rx_frame.serial)
    BY <1>5 DEF ReportSlaveException
  <2>2. QED
    BY <1>2, <1>4, <1>5, <2>1
<1>6. CASE Due /\ \E ok \in BOOLEAN :
                    send_stream_chunks(StreamOf(rx_frame), ok)
  <2>1. CASE EndRequest("data", rx_frame.serial)
    BY <1>2, <1>4, <1>6, <2>1
  <2>2. CASE /\ \E packet : Deliver("part", rx_frame.serial, packet)
             /\ UNCHANGED request
    BY <1>2, <1>3, <1>6, <2>2 DEF Deliver
  <2>3. QED
    BY <1>6, <2>1, <2>2 DEF send_stream_chunks
<1>7. CASE CallbackRefused \/ DropResponse
  BY <1>7 DEF CallbackRefused, DropResponse
<1>8. CASE request.timed_out /\ ~Broadcast /\ Ends("timeout", 0)
  BY <1>2, <1>4, <1>8 DEF Ends
<1>9. CASE Broadcast /\ Ends("success", 0)
  BY <1>2, <1>4, <1>9 DEF Ends
<1>10. CASE Due /\ Ends("success", rx_frame.serial)
  BY <1>2, <1>4, <1>10 DEF Ends
<1>11. CASE Due /\ Ends("data", rx_frame.serial)
  BY <1>2, <1>4, <1>11 DEF Ends
<1>12. QED
  BY <1>2, <1>5, <1>6, <1>7, <1>8, <1>9, <1>10, <1>11 DEF Reports, DataDue

\* A callback that ends a request is sent once, for the accepted request that
\* it ends, whatever other clients call for meanwhile.
THEOREM EachEndReportedOnce == Spec => CallbackEndsRequest
<1>1. ASSUME MasterInv, [Next]_vars, delivered'.ended # delivered.ended
      PROVE  /\ request.state = "master_waiting" /\ request'.state = "ready"
             /\ delivered'.epoch = accepted.epoch
  <2>1. Waiting /\ delivered'.epoch = epoch /\ request'.state = "ready"
    BY <1>1, ReportCases
  <2>2. QED
    BY <1>1, <2>1 DEF MasterInv, RequestInOrder, Waiting
<1>2. MasterInv /\ [Next]_vars
        => [delivered'.ended # delivered.ended
              => /\ request.state = "master_waiting" /\ request'.state = "ready"
                 /\ delivered'.epoch = accepted.epoch]_vars
  BY <1>1
<1>3. QED
  BY <1>2, MasterInvariant, PTL DEF Spec, CallbackEndsRequest

\* The wire leaves TX when the interrupt has reported the end.
LEMMA WireGivenBack ==
  ASSUME MasterInv, [Next]_vars, wire = "tx", wire' # "tx"
  PROVE  tx_done
<1>1. CASE Tick
  <2>1. Fails \/ ResponseTaken \/ MasterNewData \/ RxGap \/ MasterTxDone
          \/ ModbusUnchanged
    BY <1>1, TickCases
  <2>2. QED
    BY <2>1 DEF Fails, FailRequest, ResponseTaken, MasterNewData, NewData,
       RxGap, MasterTxDone, ModbusUnchanged
<1>2. CASE \E sendable \in BOOLEAN : InvokeCallback(sendable)
  <2>1. request.cb_invoke
    BY <1>2, CallbackCases DEF InvokeCallback, MasterInv
  <2>2. QED
    BY <2>1 DEF MasterInv, RequestInOrder
<1>3. CASE HandleMessage
  <2>1. PICK r \in ValidRequest, bytes \in Seq(ValidUnit) : Handles(r, bytes)
    BY <1>3, MessageHandled DEF MasterInv
  <2>2. QED
    BY <2>1 DEF Handles, RefuseRequest, ModbusUnchanged, ReadyForRequest,
       StoreOnly
<1>4. CASE Configure
  <2>1. set_buffer_config \/ rs485_apply_configuration
    BY <1>4 DEF Configure, set_rs485_configuration, set_modbus_configuration
  <2>2. txirq = "off"
    BY <2>1 DEF set_buffer_config, rs485_apply_configuration
  <2>3. QED
    BY <2>2 DEF MasterInv, TransmissionInOrder
<1>5. CASE SkipCallbacks \/ EndOfLoop
  BY <1>5 DEF SkipCallbacks, EndOfLoop, ModbusUnchanged
<1>6. CASE TxInterrupt \/ TffInterrupt
  BY <1>6 DEF TxInterrupt, TffInterrupt, rs485_tx_irq_handler,
     rs485_tff_irq_handler
<1>7. CASE SlaveReplies \/ NextByte
  BY <1>7 DEF SlaveReplies, NextByte, BusByte
<1>8. CASE QuietBus \/ TimeoutElapses
  BY <1>8 DEF QuietBus, Silence, TimeoutElapses, rtu_vars
<1>9. CASE UNCHANGED vars
  BY <1>9 DEF vars, rtu_vars
<1>10. QED
  BY <1>1, <1>2, <1>3, <1>4, <1>5, <1>6, <1>7, <1>8, <1>9 DEF Next, MainLoop

\* The wire is not given back before the TX interrupt has taken the last byte
\* out of the ring, not even for a change of the configuration.
THEOREM RequestSentWhole == Spec => RequestNotCutOff
<1>1. MasterInv /\ [Next]_vars
        => [wire = "tx" /\ wire' # "tx" => tx_start = Len(tx)]_vars
  BY WireGivenBack DEF MasterInv, TransmissionInOrder
<1>2. QED
  BY <1>1, MasterInvariant, PTL DEF Spec, RequestNotCutOff

------------------------------------------------------------------------------
(* Timeouts.                                                               *)

\* A timeout is counted with the step that sets the flag, and with no other.
TimeoutStep ==
  counters'["timeout"] - counters["timeout"]
    = (IF request'.timed_out /\ ~request.timed_out THEN 1 ELSE 0)

\* A counter goes up by one if it is among those that are counted.
LEMMA CountValue ==
  ASSUME EngineTypeOK, NEW names, Count(names)
  PROVE  counters'["timeout"] - counters["timeout"]
           = (IF "timeout" \in names THEN 1 ELSE 0)
<1>1. counters["timeout"] \in Nat
  BY DEF EngineTypeOK, CounterNames
<1>2. counters'["timeout"] = (IF "timeout" \in names THEN counters["timeout"] + 1
                              ELSE counters["timeout"])
  BY DEF Count, CounterNames
<1>3. QED
  BY <1>1, <1>2

\* Steps that leave the counter alone and do not set the flag.
LEMMA NotTimedOut ==
  ASSUME EngineTypeOK,
         \/ UNCHANGED counters
         \/ \E names \in SUBSET CounterNames : "timeout" \notin names /\ Count(names),
         request'.timed_out => request.timed_out
  PROVE  TimeoutStep
<1>1. counters["timeout"] \in Nat
  BY DEF EngineTypeOK, CounterNames
<1>2. counters'["timeout"] - counters["timeout"] = 0
  BY <1>1, CountValue
<1>3. QED
  BY <1>2 DEF TimeoutStep

\* The tick counts a timeout when it fails the request.
LEMMA TickCountsTimeout ==
  ASSUME MasterInv, Tick
  PROVE  TimeoutStep
<1>1. EngineTypeOK /\ request \in RequestType
  BY DEF MasterInv, Typed, EngineTypeOK
<1>2. CASE Fails
  <2>1. PICK names \in SUBSET CounterNames :
          "timeout" \in names /\ FailRequest(names)
    BY <1>2 DEF Fails
  <2>2. ~request.timed_out /\ request'.timed_out
    BY <1>1, <1>2, <2>1 DEF Fails, FailRequest, RequestType
  <2>3. counters'["timeout"] - counters["timeout"] = 1
    BY <1>1, <2>1, CountValue DEF FailRequest
  <2>4. QED
    BY <2>2, <2>3 DEF TimeoutStep
<1>3. CASE ResponseTaken \/ MasterTxDone
  <2>1. UNCHANGED counters
    BY <1>3 DEF ResponseTaken, MasterTxDone
  <2>2. request'.timed_out = request.timed_out
    BY <1>1, <1>3 DEF ResponseTaken, MasterTxDone, RequestType
  <2>3. QED
    BY <1>1, <2>1, <2>2, NotTimedOut
<1>4. CASE MasterNewData \/ RxGap \/ ModbusUnchanged
  BY <1>1, <1>4, NotTimedOut DEF MasterNewData, StartRx, RxGap, ModbusUnchanged
<1>5. QED
  BY <1>2, <1>3, <1>4, TickCases

\* The handlers count other things.
LEMMA CallbackCountsNoTimeout ==
  ASSUME MasterInv, NEW sendable \in BOOLEAN, InvokeCallback(sendable)
  PROVE  TimeoutStep
<1>1. EngineTypeOK /\ Reports
  BY CallbackCases DEF MasterInv, Typed, InvokeCallback
<1>2. ASSUME NEW outcome, NEW data, EndRequest(outcome, data)
      PROVE  ~request'.timed_out
  BY <1>2 DEF EndRequest, modbus_clear_request, ClearRequestTo, ReadyRequest
<1>3. CASE \E ok \in BOOLEAN : ReportSlaveException(ok)
  <2>1. Count({"illegal_data_address"})
    BY <1>3 DEF ReportSlaveException, CountException
  <2>2. request'.timed_out => request.timed_out
    BY <1>2, <1>3 DEF ReportSlaveException
  <2>3. QED
    BY <1>1, <2>1, <2>2, NotTimedOut DEF CounterNames
<1>4. CASE DropResponse
  BY <1>1, <1>4, NotTimedOut DEF DropResponse, modbus_clear_request,
     ClearRequestTo, ReadyRequest, CounterNames
<1>5. CASE \E ok \in BOOLEAN : send_stream_chunks(StreamOf(rx_frame), ok)
  <2>1. UNCHANGED counters /\ (request'.timed_out => request.timed_out)
    BY <1>2, <1>5 DEF send_stream_chunks
  <2>2. QED
    BY <1>1, <2>1, NotTimedOut
<1>6. CASE CallbackRefused
  BY <1>1, <1>6, NotTimedOut DEF CallbackRefused, ModbusUnchanged
<1>7. CASE \E outcome, data : Ends(outcome, data)
  BY <1>1, <1>2, <1>7, NotTimedOut DEF Ends
<1>8. QED
  BY <1>1, <1>3, <1>4, <1>5, <1>6, <1>7 DEF Reports

\* Nor do the handlers of messages, the interrupts and the bus count timeouts.
LEMMA OthersCountNoTimeout ==
  ASSUME MasterInv,
         \/ HandleMessage \/ SkipCallbacks \/ EndOfLoop
         \/ TxInterrupt \/ TffInterrupt \/ SlaveReplies \/ NextByte
         \/ QuietBus \/ TimeoutElapses \/ UNCHANGED vars
  PROVE  TimeoutStep
<1>1. EngineTypeOK /\ request \in RequestType
  BY DEF MasterInv, Typed, EngineTypeOK
<1>2. CASE HandleMessage
  <2>1. PICK r \in ValidRequest, bytes \in Seq(ValidUnit) : Handles(r, bytes)
    BY <1>2, MessageHandled DEF MasterInv
  <2>2. UNCHANGED counters
    BY <2>1 DEF Handles, RefuseRequest, ModbusUnchanged, SendRequest, StoreOnly
  <2>3. request'.timed_out = request.timed_out
    <3>1. CASE SendRequest(r, bytes)
      BY <1>1, <1>2, <3>1, SendTyped DEF HandleMessage, MasterInv
    <3>2. CASE RefuseRequest \/ StoreOnly(bytes)
      BY <3>2 DEF RefuseRequest, ModbusUnchanged, StoreOnly
    <3>3. QED
      BY <2>1, <3>1, <3>2 DEF Handles
  <2>4. QED
    BY <1>1, <2>2, <2>3, NotTimedOut
<1>3. CASE SkipCallbacks \/ EndOfLoop
  BY <1>1, <1>3, NotTimedOut DEF SkipCallbacks, EndOfLoop, ModbusUnchanged
<1>4. CASE TxInterrupt \/ TffInterrupt
  BY <1>1, <1>4, NotTimedOut DEF TxInterrupt, TffInterrupt,
     rs485_tx_irq_handler, rs485_tff_irq_handler
<1>5. CASE SlaveReplies \/ NextByte
  <2>1. UNCHANGED request /\ (UNCHANGED counters \/ Count({"overrun"}))
    BY <1>5 DEF SlaveReplies, NextByte, BusByte, rs485_rx_irq_handler
  <2>2. QED
    BY <1>1, <2>1, NotTimedOut DEF CounterNames
<1>6. CASE QuietBus \/ TimeoutElapses
  BY <1>1, <1>6, NotTimedOut DEF QuietBus, Silence, TimeoutElapses, rtu_vars
<1>7. CASE UNCHANGED vars
  BY <1>1, <1>7, NotTimedOut DEF vars, rtu_vars
<1>8. QED
  BY <1>2, <1>3, <1>4, <1>5, <1>6, <1>7

\* As long as the configuration is left alone (modbus_init sets the counters
\* back) every request that times out is counted once, and the host is told
\* of a timeout exactly for these requests, unless the request was broadcast.
THEOREM TimeoutsCountedOnce ==
  ASSUME MaxConfigs = 0
  PROVE  Spec => TimeoutCountedOnce
<1>1. ASSUME MasterInv, [Next]_vars
      PROVE  TimeoutStep
  <2>1. ~Configure
    BY <1>1 DEF Configure, MasterInv, Typed, HostTyped
  <2>2. QED
    BY <1>1, <2>1, TickCountsTimeout, CallbackCountsNoTimeout,
       OthersCountNoTimeout DEF Next, MainLoop
<1>2. ASSUME MasterInv, [Next]_vars, delivered'.ended # delivered.ended,
             ~Broadcast
      PROVE  delivered'.outcome = "timeout" <=> request.timed_out
  BY <1>2, ReportCases DEF Due
<1>3. MasterInv /\ [Next]_vars
        => [/\ TimeoutStep
            /\ delivered'.ended # delivered.ended /\ ~Broadcast
                 => (delivered'.outcome = "timeout" <=> request.timed_out)]_vars
  BY <1>1, <1>2
<1>4. QED
  BY <1>3, MasterInvariant, PTL DEF Spec, TimeoutCountedOnce, TimeoutStep

------------------------------------------------------------------------------
(* Replies.                                                                *)

\* The first byte of a frame in the RX ring belongs to a reply to the request
\* that is waiting; the talker on the bus is past its first byte.
HeadsAnswer ==
  /\ \A i \in 1..Len(line) : line[i].part > 1
  /\ \A i \in 1..Len(rx) : rx[i] # Noise /\ rx[i].part = 1
       => Waiting /\ \E kind \in Replies :
                       rx[i].frame = Reply(accepted.request, kind)

\* It goes on when nothing is received and the request stays, when the ring is
\* emptied, and when a request is accepted.
LEMMA HeadsKept ==
  ASSUME HeadsAnswer, UNCHANGED line,
         \/ rx' = <<>>
         \/ UNCHANGED rx /\ (Waiting => Waiting' /\ UNCHANGED accepted)
  PROVE  HeadsAnswer'
  BY DEF HeadsAnswer

\* A byte on the bus continues a frame or begins the reply that is awaited.
LEMMA ByteAnswers ==
  ASSUME MasterInv, HeadsAnswer, NEW bytes \in Seq(Byte), BusByte(bytes),
         \A i \in 2..Len(bytes) : bytes[i].part > 1,
         bytes[1].part = 1 =>
           Waiting /\ \E kind \in Replies :
                        bytes[1].frame = Reply(accepted.request, kind),
         UNCHANGED accepted
  PROVE  HeadsAnswer'
<1>1. /\ bytes # <<>> /\ line' = Tail(bytes) /\ UNCHANGED request
      /\ rx' = rx \/ rx' = Append(rx, bytes[1]) \/ rx' = Append(rx, Noise)
  BY DEF BusByte, rs485_rx_irq_handler
<1>2. \A i \in 1..Len(line') : line'[i].part > 1
  <2>1. ASSUME NEW i \in 1..Len(line') PROVE line'[i].part > 1
    <3>1. line'[i] = bytes[i + 1] /\ i + 1 \in 2..Len(bytes)
      BY <1>1
    <3>2. QED
      BY <3>1
  <2>2. QED
    BY <2>1
<1>3. rx \in Seq(Byte)
  BY DEF MasterInv, Typed, RxTypeOK
<1>4. ASSUME NEW i \in 1..Len(rx'), rx'[i] # Noise, rx'[i].part = 1
      PROVE  Waiting /\ \E kind \in Replies :
                          rx'[i].frame = Reply(accepted.request, kind)
  <2>1. CASE i \in 1..Len(rx) /\ rx'[i] = rx[i]
    BY <1>4, <2>1 DEF HeadsAnswer
  <2>2. CASE rx'[i] = bytes[1]
    BY <1>4, <2>2
  <2>3. rx'[i] = Noise \/ rx'[i] = bytes[1]
          \/ (i \in 1..Len(rx) /\ rx'[i] = rx[i])
    <3>1. CASE rx' = rx
      BY <1>4, <3>1
    <3>2. ASSUME NEW b, rx' = Append(rx, b)
          PROVE  rx'[i] = b \/ (i \in 1..Len(rx) /\ rx'[i] = rx[i])
      <4>1. Len(rx') = Len(rx) + 1 /\ Len(rx) \in Nat
        BY <1>3, <3>2
      <4>2. i \in 1..Len(rx) \/ i = Len(rx) + 1
        BY <4>1
      <4>3. QED
        BY <1>3, <3>2, <4>2
    <3>3. QED
      BY <1>1, <3>1, <3>2
  <2>4. QED
    BY <1>4, <2>1, <2>2, <2>3
<1>5. QED
  BY <1>1, <1>2, <1>4 DEF HeadsAnswer, Waiting

\* The bus keeps it: slaves only reply while their request is waiting.
LEMMA BusAnswers ==
  ASSUME ~LateReplies, MasterInv, HeadsAnswer, SlaveReplies \/ NextByte
  PROVE  HeadsAnswer'
<1>1. CASE SlaveReplies
  <2>1. PICK r \in heard, kind \in Replies :
          StillAwaited(r) /\ BusByte(FrameBytes(Reply(r, kind)))
    BY <1>1 DEF SlaveReplies
  <2>2. r \in NumberedRequest
    BY DEF MasterInv, Typed, HostTyped
  <2>3. FrameBytes(Reply(r, kind)) \in Seq(Byte)
    BY <2>2, ReplyBytesTyped
  <2>4. /\ \A i \in 2..Len(FrameBytes(Reply(r, kind))) :
             FrameBytes(Reply(r, kind))[i].part > 1
        /\ FrameBytes(Reply(r, kind))[1].frame = Reply(r, kind)
    BY RTUAssumption DEF FrameBytes
  <2>5. Waiting /\ accepted.request = r
    BY <2>1 DEF StillAwaited, Waiting
  <2>6. UNCHANGED accepted
    BY <1>1 DEF SlaveReplies, host_vars
  <2>7. QED
    BY <2>1, <2>3, <2>4, <2>5, <2>6, ByteAnswers
<1>2. CASE NextByte
  <2>1. BusByte(line) /\ UNCHANGED accepted /\ line \in Seq(Byte)
    BY <1>2 DEF NextByte, master_vars, host_vars, MasterInv, Typed, RxTypeOK
  <2>2. line # <<>>
    BY <2>1 DEF BusByte
  <2>3. 1 \in 1..Len(line)
    BY <2>1, <2>2
  <2>4. line[1].part # 1
    BY <2>3 DEF HeadsAnswer
  <2>5. \A i \in 2..Len(line) : line[i].part > 1
    BY DEF HeadsAnswer
  <2>6. QED
    BY <2>1, <2>4, <2>5, ByteAnswers
<1>3. QED
  BY <1>1, <1>2

\* Every step keeps it.
LEMMA StepAnswers ==
  ASSUME ~LateReplies, MasterInv, HeadsAnswer, [Next]_vars
  PROVE  HeadsAnswer'
<1>1. CASE Tick
  <2>1. UNCHANGED <<line, accepted>>
    BY <1>1 DEF Tick, master_vars, host_vars
  <2>2. UNCHANGED rx /\ (Waiting => Waiting')
    <3>1. request \in RequestType
      BY DEF MasterInv, Typed, EngineTypeOK
    <3>2. CASE Fails
      BY <3>1, <3>2 DEF Fails, FailRequest, Waiting, RequestType
    <3>3. CASE ResponseTaken
      BY <3>1, <3>3 DEF ResponseTaken, Waiting, RequestType
    <3>4. CASE MasterTxDone
      BY <3>1, <3>4 DEF MasterTxDone, Waiting, RequestType
    <3>5. CASE MasterNewData \/ RxGap \/ ModbusUnchanged
      BY <3>5 DEF MasterNewData, StartRx, RxGap, ModbusUnchanged, Waiting
    <3>6. QED
      BY <1>1, <3>2, <3>3, <3>4, <3>5, TickCases
  <2>3. QED
    BY <2>1, <2>2, HeadsKept
<1>2. CASE \E sendable \in BOOLEAN : InvokeCallback(sendable)
  <2>1. Reports /\ UNCHANGED <<line, accepted>>
    BY <1>2, CallbackCases DEF InvokeCallback, MasterInv
  <2>2. rx' = <<>> \/ UNCHANGED <<rx, request>>
    BY <2>1 DEF Reports, Ends, EndRequest, ReportSlaveException, DropResponse,
       send_stream_chunks, CallbackRefused, ModbusUnchanged,
       modbus_clear_request, ClearRequestTo
  <2>3. QED
    BY <2>1, <2>2, HeadsKept DEF Waiting
<1>3. CASE HandleMessage
  <2>1. PICK r \in ValidRequest, bytes \in Seq(ValidUnit) : Handles(r, bytes)
    BY <1>3, MessageHandled DEF MasterInv
  <2>2. UNCHANGED <<rx, line>>
    BY <1>3, <2>1 DEF HandleMessage, Handles, RefuseRequest, ModbusUnchanged,
       SendRequest, StoreOnly
  <2>3. Waiting => Waiting' /\ UNCHANGED accepted
    BY <2>1 DEF Handles, RefuseRequest, ModbusUnchanged, ReadyForRequest,
       Waiting
  <2>4. QED
    BY <2>2, <2>3, HeadsKept
<1>4. CASE Configure
  BY <1>4, HeadsKept DEF Configure, set_rs485_configuration,
     set_modbus_configuration, set_buffer_config, rs485_apply_configuration
<1>5. CASE SkipCallbacks \/ EndOfLoop
  BY <1>5, HeadsKept DEF SkipCallbacks, EndOfLoop, ModbusUnchanged, Waiting,
     master_vars, host_vars
<1>6. CASE TxInterrupt \/ TffInterrupt
  BY <1>6, HeadsKept DEF TxInterrupt, TffInterrupt, rs485_tx_irq_handler,
     rs485_tff_irq_handler, Waiting, master_vars, host_vars
<1>7. CASE SlaveReplies \/ NextByte
  BY <1>7, BusAnswers
<1>8. CASE QuietBus \/ TimeoutElapses
  BY <1>8, HeadsKept DEF QuietBus, Silence, TimeoutElapses, rtu_vars, Waiting,
     master_vars, host_vars
<1>9. CASE UNCHANGED vars
  BY <1>9, HeadsKept DEF vars, rtu_vars, Waiting, master_vars, host_vars
<1>10. QED
  BY <1>1, <1>2, <1>3, <1>4, <1>5, <1>6, <1>7, <1>8, <1>9 DEF Next, MainLoop

\* If slaves keep to the timeout, a callback that carries a reply carries the
\* reply to the request it reports on, however bytes are lost or damaged and
\* whatever the host calls for meanwhile.
THEOREM RepliesMatch ==
  ASSUME ~LateReplies
  PROVE  Spec => ReplyToThisRequest
<1>1. Init => HeadsAnswer
  BY DEF Init, RTUInit, HeadsAnswer
<1>2. MasterInv /\ HeadsAnswer /\ [Next]_vars => HeadsAnswer'
  BY StepAnswers
<1>3. ASSUME MasterInv, HeadsAnswer, [Next]_vars,
             delivered' # delivered, delivered'.data # 0
      PROVE  delivered'.data = accepted.request.serial
  <2>1. Due /\ delivered'.data = rx_frame.serial
    BY <1>3, ReportCases
  <2>2. HoldsFrame
    BY <1>3, <2>1 DEF MasterInv, DueWithFrame
  <2>3. 1 \in 1..Len(rx) /\ rx[1] # Noise /\ rx[1].part = 1
    BY <2>2, RTUAssumption DEF HoldsFrame
  <2>4. PICK kind \in Replies : rx_frame = Reply(accepted.request, kind)
    BY <1>3, <2>3 DEF HeadsAnswer, rx_frame
  <2>5. QED
    BY <2>1, <2>4 DEF Reply
<1>4. MasterInv /\ HeadsAnswer /\ [Next]_vars
        => [delivered' # delivered /\ delivered'.data # 0
              => delivered'.data = accepted.request.serial]_vars
  BY <1>3
<1>5. QED
  BY <1>1, <1>2, <1>4, MasterInvariant, PTL DEF Spec, ReplyToThisRequest

==============================================================================
