-------------------------- MODULE MasterService_proofs ------------------------
(***************************************************************************)
(* What a host that waits for the end of each request can rely on in       *)
(* master mode, as long as it leaves the configuration alone: only whole   *)
(* frames go out and packets come in order; and if slaves keep to the      *)
(* timeout and send as much data as they were asked for, every end is      *)
(* reported, ids do not repeat, and ModbusMaster implements MasterService. *)
(***************************************************************************)
EXTENDS ModbusMaster_proofs

\* The header and the first k chunks of a request.
RequestSoFar(r, k) ==
  IF k = 0 THEN <<>> ELSE [i \in 1..(k + 1) |-> Unit(r, i - 1)]

\* How many packets of the response the host has been sent.
Received == IF delivered.epoch = epoch THEN delivered.packet + 1 ELSE 0

(***************************************************************************)
(* What MasterInv does not say, because other clients could spoil it: the  *)
(* TX ring holds the accepted request, or what was stored of the only one  *)
(* that is being written, and the host has what was streamed.              *)
(***************************************************************************)

OneRequest ==
  /\ ~moved /\ configs = 0
  /\ Waiting => /\ streams = {} /\ tx = RequestFrame(accepted.request)
                /\ accepted.request.serial # 0
  /\ ~Waiting => \/ streams = {} /\ tx = <<>>
                 \/ \E r \in ValidRequest : \E k \in 1..(RequestChunks(r) - 1) :
                      /\ streams = {[request |-> r, next |-> k + 1]}
                      /\ tx = RequestSoFar(r, k) /\ r.serial # 0

StreamInOrder ==
  /\ delivered.epoch <= epoch
  /\ ~chunk.in_progress => chunk.current = 0
  /\ ~Waiting => ~chunk.in_progress
  /\ Waiting => chunk.current = Received
  /\ chunk.in_progress =>
       /\ request.cb_invoke /\ accepted.request.fc \in Reads
       /\ chunk.total = accepted.request.count /\ chunk.total > 1
       /\ chunk.current < chunk.total
       /\ HoldsFrame /\ ~rx_frame.exception

\* All of it for a host that waits.
WaitingInv == MasterInv /\ OneRequest /\ StreamInOrder

------------------------------------------------------------------------------
(* Helpers.                                                                *)

\* The handlers find the accepted request in the TX ring.
LEMMA AcceptedAtFront ==
  ASSUME MasterInv, OneRequest, Waiting
  PROVE  /\ tx_frame = accepted.request /\ accepted.request \in ValidRequest
         /\ Broadcast <=> accepted.request.addr = "broadcast"
<1> DEFINE r == accepted.request
<1>1. r \in ValidRequest
  BY DEF MasterInv, Typed, HostTyped
<1>2. RequestChunks(r) \in Nat
  BY <1>1, RequestUnitsTyped
<1>3. tx = RequestFrame(r) /\ ~moved
  BY DEF OneRequest
<1> HIDE DEF r
<1>4. Len(tx) = RequestChunks(r) + 2 /\ tx[1] = Unit(r, 0)
  BY <1>2, <1>3 DEF RequestFrame
<1>5. tx # <<>>
  BY <1>2, <1>4
<1>6. tx[1].part = 0 /\ tx[1].frame = r
  BY <1>4 DEF Unit
<1>7. tx_frame = r
  BY <1>3, <1>5, <1>6 DEF tx_frame, FrameAtFront
<1>8. QED
  BY <1>1, <1>7 DEF Broadcast, r

\* Chunk by chunk a request becomes whole.
LEMMA RequestGrows ==
  ASSUME NEW r, RequestChunks(r) \in Nat, NEW k \in 1..RequestChunks(r)
  PROVE  RequestSoFar(r, k - 1) \o RequestChunk(r, k)
           = IF k = RequestChunks(r) THEN RequestFrame(r) ELSE RequestSoFar(r, k)
<1> DEFINE n == RequestChunks(r)
           U(i) == Unit(r, i)
           C == (IF k = 1 THEN <<U(0)>> ELSE <<>>) \o <<U(k)>>
                  \o (IF k = n THEN <<U(k + 1)>> ELSE <<>>)
           F == [i \in 1..(n + 2) |-> U(i - 1)]
           S(j) == IF j = 0 THEN <<>> ELSE [i \in 1..(j + 1) |-> U(i - 1)]
<1>1. /\ RequestChunk(r, k) = C /\ RequestFrame(r) = F
      /\ RequestSoFar(r, k - 1) = S(k - 1) /\ RequestSoFar(r, k) = S(k)
  BY DEF RequestChunk, RequestSoFar, RequestFrame
<1>2. n \in Nat /\ k \in 1..n
  OBVIOUS
<1> HIDE DEF U, n
<1>3. ASSUME k = 1 /\ k = n
      PROVE  S(k - 1) \o C = IF k = n THEN F ELSE S(k)
  BY <1>2, <1>3
<1>4. ASSUME k = 1 /\ k # n
      PROVE  S(k - 1) \o C = IF k = n THEN F ELSE S(k)
  BY <1>2, <1>4
<1>5. ASSUME k # 1 /\ k = n
      PROVE  S(k - 1) \o C = IF k = n THEN F ELSE S(k)
  BY <1>2, <1>5
<1>6. ASSUME k # 1 /\ k # n
      PROVE  S(k - 1) \o C = IF k = n THEN F ELSE S(k)
  BY <1>2, <1>6
<1>7. S(k - 1) \o C = IF k = n THEN F ELSE S(k)
  BY <1>3, <1>4, <1>5, <1>6
<1>8. QED
  BY <1>1, <1>7 DEF n

------------------------------------------------------------------------------
(* Steps that are no call of the host and no callback.                     *)

\* The request, what is stored of it and what the host knows stay.
Undisturbed ==
  /\ UNCHANGED <<chunk, epoch, accepted, delivered, streams, tx, moved,
                 configs>>
  /\ request'.state = request.state /\ request'.id = request.id
  /\ request.cb_invoke => request'.cb_invoke
  /\ HoldsFrame => HoldsFrame' /\ rx_frame' = rx_frame
  /\ wire # "tx" => wire' # "tx"

LEMMA TickUndisturbed ==
  ASSUME MasterInv, Tick
  PROVE  Undisturbed
<1>1. UNCHANGED <<accepted, delivered, streams, moved, configs>>
  BY DEF Tick, master_vars, host_vars, config_vars
<1>2. request \in RequestType
  BY DEF MasterInv, Typed, EngineTypeOK
<1>3. CASE Fails
  <2>1. /\ UNCHANGED <<wire, chunk, rx, epoch, tx>>
        /\ request' = [request EXCEPT !.cb_invoke = TRUE, !.timed_out = TRUE]
    BY <1>3 DEF Fails, FailRequest, txpath
  <2>2. QED
    BY <1>1, <1>2, <2>1 DEF Undisturbed, HoldsFrame, rx_frame, RequestType
<1>4. CASE ResponseTaken
  <2>1. /\ UNCHANGED <<wire, chunk, rx, epoch, tx>>
        /\ request' = [request EXCEPT !.cb_invoke = TRUE]
    BY <1>4 DEF ResponseTaken, txpath
  <2>2. QED
    BY <1>1, <1>2, <2>1 DEF Undisturbed, HoldsFrame, rx_frame, RequestType
<1>5. CASE MasterTxDone
  <2>1. /\ UNCHANGED <<chunk, rx, epoch, tx>> /\ wire' = "idle"
        /\ request' \in {request, [request EXCEPT !.cb_invoke = TRUE]}
    BY <1>5 DEF MasterTxDone
  <2>2. QED
    BY <1>1, <1>2, <2>1 DEF Undisturbed, HoldsFrame, rx_frame, RequestType
<1>6. CASE MasterNewData \/ RxGap \/ ModbusUnchanged
  <2>1. UNCHANGED <<chunk, rx, epoch, tx, request>>
        /\ (wire # "tx" => wire' # "tx")
    BY <1>6 DEF MasterNewData, StartRx, RxGap, ModbusUnchanged, txpath
  <2>2. QED
    BY <1>1, <2>1 DEF Undisturbed, HoldsFrame, rx_frame
<1>7. QED
  BY <1>3, <1>4, <1>5, <1>6, TickCases

\* The interrupts, the bus and the time.
LEMMA RestUndisturbed ==
  ASSUME MasterInv,
         \/ SkipCallbacks \/ EndOfLoop
         \/ TxInterrupt \/ TffInterrupt \/ SlaveReplies \/ NextByte
         \/ QuietBus \/ TimeoutElapses \/ UNCHANGED vars
  PROVE  Undisturbed /\ UNCHANGED wire
<1> USE DEF Undisturbed, master_vars, host_vars, config_vars
<1>1. CASE SkipCallbacks \/ EndOfLoop
  BY <1>1 DEF SkipCallbacks, EndOfLoop, ModbusUnchanged, txpath, HoldsFrame,
     rx_frame
<1>2. CASE TxInterrupt \/ TffInterrupt
  BY <1>2 DEF TxInterrupt, TffInterrupt, rs485_tx_irq_handler,
     rs485_tff_irq_handler, HoldsFrame, rx_frame
<1>3. CASE SlaveReplies \/ NextByte
  <2>1. \E bytes \in Seq(Byte) : BusByte(bytes)
    <3>1. CASE NextByte
      BY <3>1 DEF NextByte, MasterInv, Typed, RxTypeOK
    <3>2. CASE SlaveReplies
      <4>1. PICK r \in heard, kind \in Replies :
              BusByte(FrameBytes(Reply(r, kind)))
        BY <3>2 DEF SlaveReplies
      <4>2. r \in NumberedRequest
        BY DEF MasterInv, Typed, HostTyped
      <4>3. QED
        BY <4>1, <4>2, ReplyBytesTyped
    <3>3. QED
      BY <1>3, <3>1, <3>2
  <2>2. PICK bytes \in Seq(Byte) : BusByte(bytes)
    BY <2>1
  <2>3. bytes # <<>> /\ Head(bytes) \in Byte /\ Noise \in Byte
    BY <2>2 DEF BusByte, Byte
  <2>4. rx' = rx \/ \E b \in Byte : rx' = Append(rx, b)
    BY <2>2, <2>3 DEF BusByte, rs485_rx_irq_handler
  <2>5. HoldsFrame => HoldsFrame' /\ rx_frame' = rx_frame
    BY <2>4, HeldFrameStays DEF MasterInv, Typed, RxTypeOK
  <2>6. UNCHANGED <<accepted, delivered, streams, moved, configs>>
    BY <1>3 DEF SlaveReplies, NextByte
  <2>7. QED
    BY <2>2, <2>5, <2>6 DEF BusByte, txpath
<1>4. CASE QuietBus \/ TimeoutElapses
  BY <1>4 DEF QuietBus, Silence, TimeoutElapses, rtu_vars, txpath, HoldsFrame,
     rx_frame
<1>5. CASE UNCHANGED vars
  BY <1>5 DEF vars, rtu_vars, HoldsFrame, rx_frame
<1>6. QED
  BY <1>1, <1>2, <1>3, <1>4, <1>5

\* None of them touches the invariant.
LEMMA UndisturbedKeeps ==
  ASSUME OneRequest, StreamInOrder, Undisturbed
  PROVE  OneRequest' /\ StreamInOrder'
<1>1. OneRequest'
  BY DEF OneRequest, Undisturbed, Waiting
<1>2. StreamInOrder'
  BY DEF StreamInOrder, Undisturbed, Waiting, Received
<1>3. QED
  BY <1>1, <1>2

------------------------------------------------------------------------------
(* Calls of a host that waits.                                             *)

\* A call adds to what is stored of its request or is the whole of it; the
\* last one sends the frame.
LEMMA MessageOneRequest ==
  ASSUME ~Interleaved, MasterInv, OneRequest, HandleMessage
  PROVE  /\ OneRequest' /\ ~Waiting
         /\ \/ UNCHANGED <<wire, request, chunk, rx, epoch, accepted, delivered>>
            \/ \E r \in ValidRequest : \E bytes \in Seq(ValidUnit) :
                 ReadyForRequest /\ SendRequest(r, bytes)
<1>1. UNCHANGED <<pc, moved, configs, delivered>> /\ begun \in Nat
  BY DEF HandleMessage, config_vars, MasterInv, Typed, HostTyped
<1>2. ASSUME NEW r \in ValidRequest, NEW bytes \in Seq(ValidUnit),
             SendRequest(r, bytes), tx \o bytes = RequestFrame(r),
             streams' = {}, r.serial # 0
      PROVE  OneRequest'
  <2>1. Waiting' /\ accepted'.request = r /\ tx' = RequestFrame(r)
    BY <1>1, <1>2, SendTyped DEF MasterInv, Waiting, SendRequest
  <2>2. QED
    BY <1>1, <1>2, <2>1 DEF OneRequest
<1>3. ASSUME NEW r \in ValidRequest, NEW k \in 1..RequestChunks(r),
             StoreRequestChunk(r, k), ReadyForRequest, r.fc \in MultipleWrites,
             tx = RequestSoFar(r, k - 1), streams' = StreamAfter(r, k),
             r.serial # 0
      PROVE  /\ OneRequest'
             /\ \/ UNCHANGED <<wire, request, chunk, rx, epoch, accepted,
                               delivered>>
                \/ \E bytes \in Seq(ValidUnit) : SendRequest(r, bytes)
  <2>1. RequestChunks(r) \in Nat /\ RequestChunk(r, k) \in Seq(ValidUnit)
    BY RequestUnitsTyped
  <2>2. CASE k = RequestChunks(r)
    <3>1. SendRequest(r, RequestChunk(r, k)) /\ streams' = {}
      BY <1>3, <2>2 DEF StoreRequestChunk, StreamAfter
    <3>2. tx \o RequestChunk(r, k) = RequestFrame(r)
      BY <1>3, <2>1, <2>2, RequestGrows
    <3>3. QED
      BY <1>2, <1>3, <2>1, <3>1, <3>2
  <2>3. CASE k # RequestChunks(r)
    <3>1. StoreOnly(RequestChunk(r, k))
      BY <1>3, <2>3 DEF StoreRequestChunk, StoreOnly
    <3>2. tx' = RequestSoFar(r, k)
      BY <1>3, <2>1, <2>3, <3>1, RequestGrows DEF StoreOnly
    <3>3. streams' = {[request |-> r, next |-> k + 1]}
            /\ k \in 1..(RequestChunks(r) - 1)
      BY <1>3, <2>1, <2>3 DEF StreamAfter
    <3>4. ~Waiting'
      BY <1>3, <3>1 DEF StoreOnly, ReadyForRequest, Waiting
    <3>5. OneRequest'
      BY <1>1, <1>3, <3>2, <3>3, <3>4 DEF OneRequest
    <3>6. QED
      BY <1>1, <3>1, <3>5 DEF StoreOnly
  <2>4. QED
    BY <2>2, <2>3
<1>4. ASSUME NEW r \in Requests
      PROVE  /\ Numbered(r) \in ValidRequest /\ Numbered(r).serial # 0
             /\ Numbered(r).fc = r.fc
  <2>1. Numbered(r) \in ValidRequest /\ Numbered(r).serial = begun + 1
        /\ Numbered(r).fc = r.fc
    BY <1>1, NumberedValid
  <2>2. QED
    BY <1>1, <2>1
<1>5. HostMayBegin => ReadyForRequest /\ ~Waiting /\ streams = {} /\ tx = <<>>
  BY DEF HostMayBegin, ReadyForRequest, MasterInv, RequestInOrder, OneRequest,
     Waiting
<1>6. CASE \E fc \in FunctionCodes : OneCall(fc)
  <2>1. PICK r \in Requests :
          SendRequest(Numbered(r), RequestFrame(Numbered(r)))
    BY <1>5, <1>6 DEF OneCall
  <2>2. HostMayBegin /\ UNCHANGED streams
    BY <1>6 DEF OneCall
  <2>3. RequestFrame(Numbered(r)) \in Seq(ValidUnit)
    BY <1>4, RequestUnitsTyped
  <2>4. tx \o RequestFrame(Numbered(r)) = RequestFrame(Numbered(r))
    BY <1>5, <2>2, <2>3
  <2>5. QED
    BY <1>2, <1>4, <1>5, <2>1, <2>2, <2>3, <2>4
<1>7. CASE \E fc \in MultipleWrites : FirstChunk(fc)
  <2>1. PICK r \in Requests :
          /\ r.fc \in MultipleWrites
          /\ StoreRequestChunk(Numbered(r), 1)
          /\ streams' = streams \cup StreamAfter(Numbered(r), 1)
    BY <1>7 DEF FirstChunk
  <2>2. HostMayBegin
    BY <1>7 DEF FirstChunk
  <2>3. 1 \in 1..RequestChunks(Numbered(r))
    BY <1>4 DEF RequestChunks, ValidRequest, NumberedRequest
  <2>4. tx = RequestSoFar(Numbered(r), 1 - 1)
    BY <1>5, <2>2 DEF RequestSoFar
  <2>5. streams' = StreamAfter(Numbered(r), 1)
    BY <1>5, <2>1, <2>2
  <2>6. QED
    BY <1>3, <1>4, <1>5, <2>1, <2>2, <2>3, <2>4, <2>5
<1>8. CASE \E fc \in MultipleWrites : NextChunk(fc)
  <2>1. PICK s \in streams :
          /\ s.request.fc \in MultipleWrites
          /\ StoreRequestChunk(s.request, s.next)
          /\ streams' = (streams \ {s}) \cup StreamAfter(s.request, s.next)
    BY <1>8 DEF NextChunk
  <2>2. ~Waiting /\ ReadyForRequest
    BY <2>1 DEF OneRequest, MasterInv, RequestInOrder, ReadyForRequest, Waiting
  <2>3. PICK r \in ValidRequest :
          \E k \in 1..(RequestChunks(r) - 1) :
            /\ streams = {[request |-> r, next |-> k + 1]}
            /\ tx = RequestSoFar(r, k) /\ r.serial # 0
    BY <2>1, <2>2 DEF OneRequest
  <2> PICK k \in 1..(RequestChunks(r) - 1) :
            /\ streams = {[request |-> r, next |-> k + 1]}
            /\ tx = RequestSoFar(r, k) /\ r.serial # 0
    BY <2>3
  <2>4. s.request = r /\ s.next = k + 1 /\ streams' = StreamAfter(r, k + 1)
    BY <2>1, <2>3
  <2>5. k + 1 \in 1..RequestChunks(r) /\ (k + 1) - 1 = k
    BY RequestUnitsTyped
  <2>6. QED
    BY <1>3, <2>1, <2>2, <2>3, <2>4, <2>5
<1>9. QED
  BY <1>6, <1>7, <1>8, MessageCases

\* A new request starts with no packet of its response.
LEMMA MessageStream ==
  ASSUME ~Interleaved, MasterInv, OneRequest, StreamInOrder, HandleMessage
  PROVE  StreamInOrder'
<1>1. UNCHANGED delivered /\ UNCHANGED pc /\ delivered.epoch \in Nat
      /\ epoch \in Nat
  BY DEF HandleMessage, MasterInv, Typed, EngineTypeOK, HostTyped, Report
<1>2. ~Waiting
  BY MessageOneRequest
<1>3. CASE UNCHANGED <<wire, request, chunk, rx, epoch, accepted, delivered>>
  BY <1>3 DEF StreamInOrder, Waiting, Received, HoldsFrame, rx_frame
<1>4. ASSUME NEW r \in ValidRequest, NEW bytes \in Seq(ValidUnit),
             SendRequest(r, bytes)
      PROVE  StreamInOrder'
  <2>1. epoch' = epoch + 1 /\ UNCHANGED chunk
    BY <1>1, <1>4, SendTyped DEF MasterInv, SendRequest
  <2>2. ~chunk.in_progress /\ chunk.current = 0 /\ delivered.epoch <= epoch
    BY <1>2 DEF StreamInOrder
  <2>3. Received' = 0 /\ delivered'.epoch <= epoch'
    BY <1>1, <2>1, <2>2 DEF Received
  <2>4. QED
    BY <2>1, <2>2, <2>3 DEF StreamInOrder
<1>5. QED
  BY <1>3, <1>4, MessageOneRequest

------------------------------------------------------------------------------
(* The callback handlers.                                                  *)

\* Where the stream stands when a packet of it is due.
LEMMA StreamStands ==
  ASSUME WaitingInv, DataDue, rx_frame.count > 1,
         NEW s, s = StreamOf(rx_frame)
  PROVE  /\ s \in ChunkType /\ s.in_progress /\ s.current = Received
         /\ s.total = accepted.request.count /\ s.total > 1
         /\ s.current < s.total
<1>1. Waiting /\ Due /\ rx_frame.count \in Nat
  BY ReplyBeforeHandler DEF DataDue, Due, WaitingInv
<1>2. rx_frame.count = accepted.request.count
  BY <1>1, AcceptedAtFront DEF WaitingInv, DataDue
<1>3. chunk \in ChunkType /\ chunk.current = Received
  BY <1>1 DEF WaitingInv, MasterInv, Typed, EngineTypeOK, StreamInOrder
<1>4. CASE chunk.in_progress
  <2>1. s = chunk
    BY <1>4 DEF StreamOf
  <2>2. QED
    BY <1>3, <1>4, <2>1 DEF WaitingInv, StreamInOrder
<1>5. CASE ~chunk.in_progress
  <2>1. Received = 0
    BY <1>3, <1>5 DEF WaitingInv, StreamInOrder
  <2>2. s = [in_progress |-> TRUE, current |-> 0, total |-> rx_frame.count]
    BY <1>5 DEF StreamOf
  <2>3. s \in ChunkType
    BY <1>1, <2>2 DEF ChunkType
  <2>4. s.in_progress
    BY <2>2
  <2>5. s.current = 0 /\ s.total = rx_frame.count
    BY <2>2
  <2>6. QED
    BY <1>1, <1>2, <2>1, <2>3, <2>4, <2>5
<1>6. QED
  BY <1>4, <1>5

\* With the end of a request nothing is left of it.
LEMMA ClearedKeeps ==
  ASSUME WaitingInv, Waiting, modbus_clear_request,
         UNCHANGED <<streams, moved, configs>>,
         delivered'.epoch \in {delivered.epoch, epoch}
  PROVE  OneRequest' /\ StreamInOrder'
<1>1. /\ ~Waiting' /\ tx' = <<>> /\ streams' = {}
      /\ ~chunk'.in_progress /\ chunk'.current = 0 /\ epoch' = epoch + 1
  BY DEF modbus_clear_request, ClearRequestTo, ReadyRequest, NoChunking,
     Waiting, WaitingInv, OneRequest
<1>2. delivered'.epoch <= epoch'
  <2>1. delivered.epoch \in Nat /\ epoch \in Nat /\ delivered.epoch <= epoch
    BY DEF WaitingInv, MasterInv, Typed, EngineTypeOK, HostTyped, Report,
       StreamInOrder
  <2>2. QED
    BY <1>1, <2>1
<1>3. QED
  BY <1>1, <1>2 DEF WaitingInv, OneRequest, StreamInOrder

\* A handler that leaves the request waiting: the stream is where it says.
LEMMA StreamGoesOn ==
  ASSUME WaitingInv, Waiting,
         UNCHANGED <<wire, request, rx, epoch, tx, streams, moved, configs,
                     accepted>>,
         \/ UNCHANGED <<chunk, delivered>>
         \/ /\ DataDue /\ request.cb_invoke
            /\ chunk'.in_progress /\ chunk'.total = accepted.request.count
            /\ chunk'.total > 1 /\ chunk'.current < chunk'.total
            /\ chunk'.current = Received' /\ delivered'.epoch <= epoch
  PROVE  OneRequest' /\ StreamInOrder'
<1>1. OneRequest'
  BY DEF WaitingInv, OneRequest, Waiting
<1>2. UNCHANGED HoldsFrame /\ UNCHANGED rx_frame /\ Waiting'
  BY DEF HoldsFrame, rx_frame, Waiting
<1>3. CASE UNCHANGED <<chunk, delivered>>
  BY <1>1, <1>2, <1>3 DEF WaitingInv, StreamInOrder, Received
<1>4. CASE /\ DataDue /\ request.cb_invoke
           /\ chunk'.in_progress /\ chunk'.total = accepted.request.count
           /\ chunk'.total > 1 /\ chunk'.current < chunk'.total
           /\ chunk'.current = Received' /\ delivered'.epoch <= epoch
  <2>1. HoldsFrame /\ ~rx_frame.exception
    BY <1>4 DEF DataDue, WaitingInv, MasterInv, DueWithFrame
  <2>2. accepted.request.fc \in Reads
    BY <1>4, AcceptedAtFront DEF DataDue, WaitingInv
  <2>3. StreamInOrder'
    BY <1>2, <1>4, <2>1, <2>2 DEF StreamInOrder
  <2>4. QED
    BY <1>1, <2>3
<1>5. QED
  BY <1>3, <1>4

\* What a call of send_stream_chunks comes to.
LEMMA StreamCases ==
  ASSUME WaitingInv, DataDue, rx_frame.count > 1, NEW ok \in BOOLEAN,
         send_stream_chunks(StreamOf(rx_frame), ok)
  PROVE  \/ /\ Received + 1 = accepted.request.count
            /\ Ends("data", rx_frame.serial)
         \/ /\ chunk'.in_progress /\ chunk'.total = accepted.request.count
            /\ chunk'.total > 1 /\ chunk'.current < chunk'.total
            /\ UNCHANGED <<wire, request, rx, epoch, txpath>>
            /\ \/ UNCHANGED delivered /\ chunk'.current = Received
               \/ /\ Received + 1 < accepted.request.count
                  /\ Deliver("part", rx_frame.serial, Received)
                  /\ chunk'.current = Received + 1
<1> DEFINE s == StreamOf(rx_frame)
<1>1. /\ s \in ChunkType /\ s.in_progress /\ s.current = Received
      /\ s.total = accepted.request.count /\ s.total > 1
      /\ s.current < s.total
  BY StreamStands
<1>2. s.current \in Nat /\ s.total \in Nat
  BY <1>1 DEF ChunkType
<1>3. send_stream_chunks(s, ok)
  OBVIOUS
<1> HIDE DEF s
<1>4. CASE ~ok
  BY <1>1, <1>3, <1>4 DEF send_stream_chunks
<1>5. CASE ok /\ s.current = s.total - 1
  BY <1>1, <1>2, <1>3, <1>5 DEF send_stream_chunks, Ends
<1>6. CASE ok /\ s.current # s.total - 1
  <2>1. /\ Deliver("part", rx_frame.serial, s.current)
        /\ chunk' = [s EXCEPT !.current = s.current + 1]
        /\ UNCHANGED <<wire, rx_rb_last_length, request, counters, rx, epoch,
                       txpath>>
    BY <1>3, <1>6 DEF send_stream_chunks
  <2>2. /\ chunk'.in_progress /\ chunk'.total = s.total
        /\ chunk'.current = s.current + 1
    BY <1>1, <2>1 DEF ChunkType
  <2>3. s.current + 1 < s.total
    BY <1>1, <1>2, <1>6
  <2>4. QED
    BY <1>1, <2>1, <2>2, <2>3
<1>7. QED
  BY <1>4, <1>5, <1>6

\* A packet that was sent is counted as received.
LEMMA PartReceived ==
  ASSUME WaitingInv, NEW data, NEW packet, Deliver("part", data, packet),
         UNCHANGED epoch
  PROVE  Received' = packet + 1 /\ delivered'.epoch <= epoch
<1>1. delivered'.epoch = epoch /\ delivered'.packet = packet /\ epoch \in Nat
  BY DEF Deliver, WaitingInv, MasterInv, Typed, EngineTypeOK
<1>2. QED
  BY <1>1 DEF Received

\* A round of callbacks keeps the stream in order.
LEMMA CallbackStream ==
  ASSUME WaitingInv, NEW sendable \in BOOLEAN, InvokeCallback(sendable)
  PROVE  OneRequest' /\ StreamInOrder'
<1>1. /\ Waiting /\ request.cb_invoke /\ Reports
      /\ UNCHANGED <<streams, accepted, moved, configs>>
  BY CallbackCases DEF InvokeCallback, WaitingInv, MasterInv, config_vars
<1>2. ASSUME NEW outcome, NEW data, EndRequest(outcome, data)
      PROVE  OneRequest' /\ StreamInOrder'
  BY <1>1, <1>2, ClearedKeeps DEF EndRequest, Deliver
<1>3. CASE Due /\ \E ok \in BOOLEAN : ReportSlaveException(ok)
  <2>1. \/ EndRequest("exception", rx_frame.serial)
        \/ UNCHANGED <<wire, request, chunk, rx, epoch, tx, delivered>>
    BY <1>3 DEF ReportSlaveException, txpath
  <2>2. QED
    BY <1>1, <1>2, <2>1, StreamGoesOn
<1>4. CASE DropResponse
  BY <1>1, <1>4, ClearedKeeps DEF DropResponse
<1>5. CASE CallbackRefused
  BY <1>1, <1>5, StreamGoesOn DEF CallbackRefused, ModbusUnchanged, txpath
<1>6. CASE DataDue /\ rx_frame.count > 1
             /\ \E ok \in BOOLEAN : send_stream_chunks(StreamOf(rx_frame), ok)
  <2>1. CASE Ends("data", rx_frame.serial)
    BY <1>2, <2>1 DEF Ends
  <2>2. CASE /\ chunk'.in_progress /\ chunk'.total = accepted.request.count
             /\ chunk'.total > 1 /\ chunk'.current < chunk'.total
             /\ UNCHANGED <<wire, request, rx, epoch, txpath>>
             /\ \/ UNCHANGED delivered /\ chunk'.current = Received
                \/ /\ Deliver("part", rx_frame.serial, Received)
                   /\ chunk'.current = Received + 1
    <3>1. Received' = chunk'.current /\ delivered'.epoch <= epoch
      <4>1. CASE UNCHANGED delivered /\ chunk'.current = Received
        BY <2>2, <4>1 DEF Received, WaitingInv, StreamInOrder
      <4>2. CASE Deliver("part", rx_frame.serial, Received)
                   /\ chunk'.current = Received + 1
        BY <2>2, <4>2, PartReceived
      <4>3. QED
        BY <2>2, <4>1, <4>2
    <3>2. QED
      BY <1>1, <1>6, <2>2, <3>1, StreamGoesOn DEF txpath
  <2>3. QED
    BY <1>6, <2>1, <2>2, StreamCases
<1>7. QED
  BY <1>1, <1>2, <1>3, <1>4, <1>5, <1>6 DEF Reports, Ends

------------------------------------------------------------------------------
(* The invariant for a host that waits.                                    *)

\* With the configuration left alone every other step is undisturbed.
LEMMA StepKinds ==
  ASSUME MaxConfigs = 0, WaitingInv, [Next]_vars
  PROVE  \/ \E sendable \in BOOLEAN : InvokeCallback(sendable)
         \/ HandleMessage
         \/ Undisturbed /\ (UNCHANGED wire \/ Tick)
<1>1. ~Configure
  BY DEF Configure, WaitingInv, MasterInv, Typed, HostTyped
<1>2. QED
  BY <1>1, TickUndisturbed, RestUndisturbed DEF WaitingInv, Next, MainLoop

\* The invariant holds as long as the host waits for the end of each request
\* and leaves the configuration alone.
THEOREM HostInvariant ==
  ASSUME ~Interleaved, MaxConfigs = 0
  PROVE  Spec => []WaitingInv
<1>1. ASSUME Init PROVE OneRequest /\ StreamInOrder
  <2>1. /\ ~Waiting /\ streams = {} /\ tx = <<>> /\ ~moved /\ configs = 0
        /\ ~chunk.in_progress /\ chunk.current = 0
        /\ delivered.epoch = 0 /\ epoch = 0
    BY <1>1 DEF Init, RTUInit, modbus_init, ReadyRequest, NoChunking, Waiting
  <2>2. QED
    BY <2>1 DEF OneRequest, StreamInOrder
<1>2. ASSUME WaitingInv, [Next]_vars PROVE OneRequest' /\ StreamInOrder'
  <2>1. CASE \E sendable \in BOOLEAN : InvokeCallback(sendable)
    BY <1>2, <2>1, CallbackStream
  <2>2. CASE HandleMessage
    BY <1>2, <2>2, MessageOneRequest, MessageStream DEF WaitingInv
  <2>3. CASE Undisturbed
    BY <1>2, <2>3, UndisturbedKeeps DEF WaitingInv
  <2>4. QED
    BY <1>2, <2>1, <2>2, <2>3, StepKinds
<1>3. Init => WaitingInv
  BY <1>1, MasterInitially DEF WaitingInv
<1>4. WaitingInv /\ [Next]_vars => WaitingInv'
  BY <1>2, StepKeeps DEF WaitingInv
<1>5. QED
  BY <1>3, <1>4, PTL DEF Spec

\* What goes out on the wire is the whole frame of the accepted request and
\* nothing else, whatever is left in the TX ring of requests before it.
THEOREM OnlyWholeFrames ==
  ASSUME ~Interleaved, MaxConfigs = 0
  PROVE  Spec => []WholeFrameSent
<1>1. WaitingInv => WholeFrameSent
  BY DEF WaitingInv, OneRequest, WholeFrameSent, MasterInv, RequestInOrder
<1>2. QED
  BY <1>1, HostInvariant, PTL

------------------------------------------------------------------------------
(* What the handlers tell a host that waits.                               *)

\* How a request may end, and with what.
EndFits(outcome, data) ==
  \/ /\ outcome = "data" /\ Due /\ data = rx_frame.serial
     /\ accepted.request.fc \in Reads
     /\ Received + 1 = accepted.request.count
  \/ /\ outcome = "success" /\ accepted.request.fc \notin Reads
     /\ \/ Broadcast /\ data = 0
        \/ Due /\ data = rx_frame.serial
  \/ outcome = "exception" /\ Due /\ Received = 0 /\ data = rx_frame.serial
  \/ outcome = "timeout" /\ ~Broadcast /\ data = 0

\* A packet that is not the last of its response.
PartFits ==
  /\ Due /\ accepted.request.fc \in Reads
  /\ Received + 1 < accepted.request.count
  /\ Deliver("part", rx_frame.serial, Received)
  /\ UNCHANGED <<wire, request, epoch>>

\* A handler says nothing, drops a response of the wrong length, hands over a
\* packet or ends the request.
LEMMA HandlerSteps ==
  ASSUME WaitingInv, NEW sendable \in BOOLEAN, InvokeCallback(sendable)
  PROVE  /\ Waiting /\ request.cb_invoke /\ wire # "tx" /\ UNCHANGED accepted
         /\ chunk.current = Received
         /\ \/ UNCHANGED <<wire, request, epoch, delivered>>
            \/ Due /\ rx_frame.count # tx_frame.count /\ DropResponse
            \/ PartFits
            \/ \E outcome \in Outcomes \ {"none", "part"}, data \in Nat :
                 EndFits(outcome, data) /\ EndRequest(outcome, data)
<1>1. Waiting /\ request.cb_invoke /\ Reports /\ UNCHANGED accepted
  BY CallbackCases DEF InvokeCallback, WaitingInv, MasterInv
<1>2. wire # "tx" /\ chunk.current = Received
  BY <1>1 DEF WaitingInv, MasterInv, RequestInOrder, StreamInOrder
<1>3. tx_frame = accepted.request /\ accepted.request \in ValidRequest
  BY <1>1, AcceptedAtFront DEF WaitingInv
<1>4. Due => rx_frame.serial \in Nat /\ rx_frame.count \in Nat
  BY ReplyBeforeHandler DEF WaitingInv
<1>5. ASSUME NEW outcome \in Outcomes \ {"none", "part"}, NEW data \in Nat,
             EndFits(outcome, data), EndRequest(outcome, data)
      PROVE  \E o \in Outcomes \ {"none", "part"}, d \in Nat :
               EndFits(o, d) /\ EndRequest(o, d)
  BY <1>5
<1>6. CASE CallbackRefused
  BY <1>1, <1>2, <1>6 DEF CallbackRefused, ModbusUnchanged
<1>7. CASE request.timed_out /\ ~Broadcast /\ Ends("timeout", 0)
  BY <1>1, <1>2, <1>5, <1>7 DEF Ends, EndFits, Outcomes
<1>8. CASE Broadcast /\ Ends("success", 0)
  <2>1. accepted.request.fc \notin Reads
    BY <1>3, <1>8 DEF Broadcast, ValidRequest
  <2>2. EndFits("success", 0)
    BY <1>8, <2>1 DEF EndFits
  <2>3. QED
    BY <1>1, <1>2, <1>5, <1>8, <2>2 DEF Ends, Outcomes
<1>9. CASE Due /\ tx_frame.fc \notin Reads /\ Ends("success", rx_frame.serial)
  BY <1>1, <1>2, <1>3, <1>4, <1>5, <1>9 DEF Ends, EndFits, Outcomes
<1>10. CASE Due /\ rx_frame.exception
              /\ \E ok \in BOOLEAN : ReportSlaveException(ok)
  <2>1. Received = 0
    BY <1>2, <1>10 DEF WaitingInv, StreamInOrder
  <2>2. EndFits("exception", rx_frame.serial)
    BY <1>10, <2>1 DEF EndFits
  <2>3. \/ EndRequest("exception", rx_frame.serial)
        \/ UNCHANGED <<wire, request, epoch, delivered>>
    BY <1>10 DEF ReportSlaveException
  <2>4. QED
    BY <1>1, <1>2, <1>4, <1>5, <1>10, <2>2, <2>3 DEF Outcomes
<1>11. CASE Due /\ rx_frame.count # tx_frame.count /\ DropResponse
  BY <1>1, <1>2, <1>11
<1>12. CASE DataDue /\ rx_frame.count > 1
              /\ \E ok \in BOOLEAN : send_stream_chunks(StreamOf(rx_frame), ok)
  <2>1. Due /\ accepted.request.fc \in Reads
    BY <1>3, <1>12 DEF DataDue
  <2>2. CASE /\ Received + 1 = accepted.request.count
             /\ Ends("data", rx_frame.serial)
    <3>1. EndFits("data", rx_frame.serial)
      BY <2>1, <2>2 DEF EndFits
    <3>2. QED
      BY <1>1, <1>2, <1>4, <1>5, <2>1, <2>2, <3>1 DEF Ends, Outcomes
  <2>3. CASE /\ UNCHANGED <<wire, request, rx, epoch, txpath>>
             /\ UNCHANGED delivered
    BY <1>1, <1>2, <2>3
  <2>4. CASE /\ UNCHANGED <<wire, request, rx, epoch, txpath>>
             /\ Received + 1 < accepted.request.count
             /\ Deliver("part", rx_frame.serial, Received)
    BY <1>1, <1>2, <2>1, <2>4 DEF PartFits
  <2>5. QED
    BY <1>12, <2>2, <2>3, <2>4, StreamCases
<1>13. CASE DataDue /\ ~(rx_frame.count > 1) /\ Ends("data", rx_frame.serial)
  <2>1. Due /\ accepted.request.fc \in Reads
          /\ rx_frame.count = accepted.request.count
    BY <1>3, <1>13 DEF DataDue
  <2>2. accepted.request.count = 1
    BY <1>3, <1>4, <1>13, <2>1 DEF ValidRequest
  <2>3. Received = 0
    BY <1>2, <2>2 DEF WaitingInv, StreamInOrder
  <2>4. EndFits("data", rx_frame.serial)
    BY <2>1, <2>2, <2>3 DEF EndFits
  <2>5. QED
    BY <1>1, <1>2, <1>4, <1>5, <1>13, <2>1, <2>4 DEF Ends, Outcomes
<1>14. QED
  BY <1>1, <1>6, <1>7, <1>8, <1>9, <1>10, <1>11, <1>12, <1>13 DEF Reports

\* The packets of a response reach the host in order and without a gap, and
\* the one that ends the request is the last of them, however often the link
\* is blocked in between and whatever reply the packets are of.
THEOREM PacketsReachHost ==
  ASSUME ~Interleaved, MaxConfigs = 0
  PROVE  Spec => PacketsInOrder
<1> DEFINE InOrder ==
      /\ delivered' # delivered /\ delivered'.outcome \in {"part", "data"}
           => delivered'.packet = Received
      /\ delivered' # delivered /\ delivered'.outcome = "data"
           => Received + 1 = accepted.request.count
<1>1. ASSUME WaitingInv, [Next]_vars PROVE InOrder
  <2>1. CASE delivered' = delivered
    BY <2>1
  <2>2. CASE delivered' # delivered
    <3>1. PICK sendable \in BOOLEAN : InvokeCallback(sendable)
      BY <1>1, <2>2, OnlyHandlersReport
    <3>2. chunk.current = Received
            /\ \/ PartFits
               \/ \E outcome \in Outcomes \ {"none", "part"}, data \in Nat :
                    EndFits(outcome, data) /\ EndRequest(outcome, data)
      BY <1>1, <2>2, <3>1, HandlerSteps DEF DropResponse
    <3>3. CASE PartFits
      BY <3>3 DEF PartFits, Deliver
    <3>4. CASE \E outcome \in Outcomes \ {"none", "part"}, data \in Nat :
                 EndFits(outcome, data) /\ EndRequest(outcome, data)
      <4>1. PICK outcome \in Outcomes \ {"none", "part"}, data \in Nat :
              EndFits(outcome, data) /\ EndRequest(outcome, data)
        BY <3>4
      <4>2. delivered'.outcome = outcome /\ delivered'.packet = Received
        BY <3>2, <4>1 DEF EndRequest, Deliver
      <4>3. outcome = "data" => Received + 1 = accepted.request.count
        BY <4>1 DEF EndFits
      <4>4. QED
        BY <4>2, <4>3
    <3>5. QED
      BY <3>2, <3>3, <3>4
  <2>3. QED
    BY <2>1, <2>2
<1>2. WaitingInv /\ [Next]_vars => [InOrder]_vars
  BY <1>1
<1>3. QED
  BY <1>2, HostInvariant, PTL DEF Spec, PacketsInOrder, Received

------------------------------------------------------------------------------
(* Slaves that keep to the timeout and send what they were asked for.      *)

\* Every request gets the id after next, as modbus_clear_request counts, too.
IdsFollow ==
  /\ ~Waiting => request.id = IncrementId(delivered.id)
  /\ Waiting => request.id = IF delivered.epoch = epoch THEN delivered.id
                             ELSE NextRequestId(IncrementId(delivered.id))

AnsweredInv == WaitingInv /\ HeadsAnswer /\ IdsFollow

\* The response that is due is the reply to the accepted request.
LEMMA ResponseIsReply ==
  ASSUME "wrong_count" \notin Replies, WaitingInv, HeadsAnswer, Due
  PROVE  /\ rx_frame.count = tx_frame.count
         /\ rx_frame.serial = accepted.request.serial
<1>1. HoldsFrame /\ tx_frame = accepted.request
  BY AcceptedAtFront DEF WaitingInv, MasterInv, DueWithFrame, Due
<1>2. 1 \in 1..Len(rx) /\ rx[1] # Noise /\ rx[1].part = 1
  BY <1>1, RTUAssumption DEF HoldsFrame
<1>3. PICK kind \in Replies : rx_frame = Reply(accepted.request, kind)
  BY <1>2 DEF HeadsAnswer, rx_frame
<1>4. kind # "wrong_count"
  OBVIOUS
<1>5. rx_frame.count = accepted.request.count
        /\ rx_frame.serial = accepted.request.serial
  BY <1>3, <1>4 DEF Reply
<1>6. QED
  BY <1>1, <1>5

\* So no response is dropped, and what ends a request is a callback.
LEMMA NothingDropped ==
  ASSUME "wrong_count" \notin Replies, WaitingInv, HeadsAnswer,
         NEW sendable \in BOOLEAN, InvokeCallback(sendable)
  PROVE  \/ UNCHANGED <<wire, request, epoch, delivered>>
         \/ PartFits
         \/ \E outcome \in Outcomes \ {"none", "part"}, data \in Nat :
              EndFits(outcome, data) /\ EndRequest(outcome, data)
  BY HandlerSteps, ResponseIsReply

\* A callback moves the ids as the host expects.
LEMMA CallbackIds ==
  ASSUME "wrong_count" \notin Replies, AnsweredInv,
         NEW sendable \in BOOLEAN, InvokeCallback(sendable)
  PROVE  IdsFollow'
<1>1. Waiting
  BY HandlerSteps DEF AnsweredInv
<1>2. CASE UNCHANGED <<wire, request, epoch, delivered>>
  BY <1>2 DEF AnsweredInv, IdsFollow, Waiting
<1>3. CASE PartFits
  BY <1>1, <1>3 DEF PartFits, Deliver, IdsFollow, Waiting
<1>4. ASSUME NEW outcome, NEW data, EndRequest(outcome, data)
      PROVE  IdsFollow'
  BY <1>4 DEF EndRequest, Deliver, modbus_clear_request, ClearRequestTo,
     ReadyRequest, IdsFollow, Waiting
<1>5. QED
  BY <1>2, <1>3, <1>4, NothingDropped DEF AnsweredInv

\* A new request gets the next id.
LEMMA MessageIds ==
  ASSUME ~Interleaved, AnsweredInv, HandleMessage
  PROVE  IdsFollow'
<1>1. ~Waiting /\ UNCHANGED <<delivered, pc>>
  BY MessageOneRequest DEF AnsweredInv, WaitingInv, HandleMessage
<1>2. CASE UNCHANGED <<wire, request, chunk, rx, epoch, accepted, delivered>>
  BY <1>2 DEF AnsweredInv, IdsFollow, Waiting
<1>3. ASSUME NEW r \in ValidRequest, NEW bytes \in Seq(ValidUnit),
             SendRequest(r, bytes)
      PROVE  IdsFollow'
  <2>1. request'.state = "master_waiting" /\ epoch' = epoch + 1
    BY <1>1, <1>3, SendTyped DEF AnsweredInv, WaitingInv, MasterInv
  <2>2. request'.id = NextRequestId(request.id)
    BY <1>3 DEF SendRequest, modbus_init_new_request, AnsweredInv, WaitingInv,
       MasterInv, Typed, EngineTypeOK, RequestType
  <2>3. delivered.epoch <= epoch /\ delivered.epoch \in Nat /\ epoch \in Nat
    BY DEF AnsweredInv, WaitingInv, StreamInOrder, MasterInv, Typed,
       EngineTypeOK, HostTyped, Report
  <2>4. delivered'.epoch # epoch'
    BY <1>1, <2>1, <2>3
  <2>5. request.id = IncrementId(delivered.id)
    BY <1>1 DEF AnsweredInv, IdsFollow
  <2>6. QED
    BY <1>1, <2>1, <2>2, <2>4, <2>5 DEF IdsFollow, Waiting
<1>4. QED
  BY <1>2, <1>3, MessageOneRequest DEF AnsweredInv, WaitingInv

\* The invariant for a host that waits and slaves that answer properly.
THEOREM AnsweredInvariant ==
  ASSUME ~Interleaved, MaxConfigs = 0, ~LateReplies,
         "wrong_count" \notin Replies
  PROVE  Spec => []AnsweredInv
<1>1. ASSUME Init PROVE HeadsAnswer /\ IdsFollow
  <2>1. rx = <<>> /\ line = <<>>
    BY <1>1 DEF Init, RTUInit
  <2>2. ~Waiting /\ request.id = 1 /\ delivered.id = 0
    BY <1>1 DEF Init, RTUInit, modbus_init, ReadyRequest, Waiting
  <2>3. IncrementId(0) = 1
    BY IncrementIdValue, RTUAssumption
  <2>4. QED
    BY <2>1, <2>2, <2>3 DEF HeadsAnswer, IdsFollow
<1>2. ASSUME AnsweredInv, WaitingInv', [Next]_vars
      PROVE  AnsweredInv'
  <2>1. HeadsAnswer'
    BY <1>2, StepAnswers DEF AnsweredInv, WaitingInv
  <2>2. CASE \E sendable \in BOOLEAN : InvokeCallback(sendable)
    BY <1>2, <2>1, <2>2, CallbackIds DEF AnsweredInv
  <2>3. CASE HandleMessage
    BY <1>2, <2>1, <2>3, MessageIds DEF AnsweredInv
  <2>4. CASE Undisturbed
    BY <1>2, <2>1, <2>4 DEF AnsweredInv, IdsFollow, Undisturbed, Waiting
  <2>5. QED
    BY <1>2, <2>2, <2>3, <2>4, StepKinds DEF AnsweredInv
<1>3. Init /\ WaitingInv => AnsweredInv
  BY <1>1 DEF AnsweredInv
<1>4. AnsweredInv /\ WaitingInv' /\ [Next]_vars => AnsweredInv'
  BY <1>2
<1>5. QED
  BY <1>3, <1>4, HostInvariant, PTL DEF Spec

\* The id the host gets for a request is not 0 and not that of the request it
\* was told about last.  With an id of 8 bits that takes care of the wrap and
\* of the id 0, which modbus_clear_request may leave behind.
THEOREM IdsDiffer ==
  ASSUME ~Interleaved, MaxConfigs = 0, ~LateReplies,
         "wrong_count" \notin Replies, IdMax >= 3
  PROVE  Spec => []RequestIdUsable
<1>1. ASSUME NEW id \in 0..IdMax PROVE NextRequestId(IncrementId(id)) # id
  BY IncrementIdValue, RTUAssumption DEF NextRequestId
<1>2. ASSUME AnsweredInv PROVE RequestIdUsable
  <2>1. delivered.id \in 0..IdMax
    BY <1>2 DEF AnsweredInv, WaitingInv, MasterInv, Typed, HostTyped, Report
  <2>2. Waiting => request.id # 0 /\ request.id = accepted.id
    BY <1>2 DEF AnsweredInv, WaitingInv, MasterInv, RequestInOrder
  <2>3. Waiting /\ delivered.epoch # epoch => delivered.id # request.id
    BY <1>1, <1>2, <2>1 DEF AnsweredInv, IdsFollow
  <2>4. QED
    BY <2>2, <2>3 DEF RequestIdUsable, Waiting
<1>3. QED
  BY <1>2, AnsweredInvariant, PTL

\* A request the host was given an id for ends with a callback under its id.
THEOREM EndsAreReported ==
  ASSUME ~Interleaved, MaxConfigs = 0, ~LateReplies,
         "wrong_count" \notin Replies
  PROVE  Spec => EndsWithCallback
<1>1. ASSUME AnsweredInv, [Next]_vars,
             request.state = "master_waiting", request'.state = "ready"
      PROVE  /\ delivered'.ended = delivered.ended + 1
             /\ delivered'.id = accepted.id
  <2>1. Waiting /\ request.id = accepted.id /\ WaitingInv
    BY <1>1 DEF Waiting, AnsweredInv, WaitingInv, MasterInv, RequestInOrder
  <2>2. ~HandleMessage /\ ~Undisturbed
    BY <1>1, <2>1, MessageOneRequest DEF WaitingInv, Undisturbed
  <2>3. PICK sendable \in BOOLEAN : InvokeCallback(sendable)
    BY <1>1, <2>1, <2>2, StepKinds
  <2>4. ~UNCHANGED request /\ ~PartFits
    BY <1>1 DEF PartFits
  <2>5. PICK outcome \in Outcomes \ {"none", "part"}, data \in Nat :
          EndRequest(outcome, data)
    BY <1>1, <2>3, <2>4, NothingDropped DEF AnsweredInv
  <2>6. QED
    BY <2>1, <2>5 DEF EndRequest, Deliver
<1>2. AnsweredInv /\ [Next]_vars
        => [request.state = "master_waiting" /\ request'.state = "ready"
              => /\ delivered'.ended = delivered.ended + 1
                 /\ delivered'.id = accepted.id]_vars
  BY <1>1
<1>3. QED
  BY <1>2, AnsweredInvariant, PTL DEF Spec, EndsWithCallback

------------------------------------------------------------------------------
(* The refinement.                                                         *)

\* The refinement mapping, as Service has it.
Pending == IF Waiting THEN accepted.request ELSE NoRequest
Asked == Waiting /\ wire # "tx"
Had == IF Waiting /\ delivered.epoch = epoch THEN delivered.packet + 1 ELSE 0
Told == [outcome |-> delivered.outcome, data |-> delivered.data,
         packet |-> delivered.packet, ended |-> delivered.ended]

Serves == Service!Next \/ UNCHANGED Service!service

LEMMA StutterStep ==
  ASSUME UNCHANGED Pending, UNCHANGED Asked, UNCHANGED Had, UNCHANGED Told
  PROVE  Serves
  BY DEF Serves, Service!service, Pending, Asked, Had, Told, Waiting

LEMMA AcceptStep ==
  ASSUME Pending = NoRequest, Pending' # NoRequest,
         Pending'.fc \in Reads \cup SingleWrites \cup MultipleWrites,
         ~Asked', Had' = 0, UNCHANGED Told
  PROVE  Serves
<1>1. Asked' = FALSE
  BY DEF Asked
<1>2. QED
  BY <1>1 DEF Serves, Service!Next, Service!Accept, Service!Idle, Pending,
     Asked, Had, Told, Waiting

LEMMA SendStep ==
  ASSUME Pending # NoRequest, ~Asked, Asked',
         UNCHANGED Pending, UNCHANGED Had, UNCHANGED Told
  PROVE  Serves
<1>1. Asked' = TRUE
  BY DEF Asked
<1>2. QED
  BY <1>1 DEF Serves, Service!Next, Service!Send, Service!Idle, Pending,
     Asked, Had, Told, Waiting

LEMMA PartStep ==
  ASSUME Asked, Pending.fc \in Reads, Had + 1 < Pending.count,
         Told' = [outcome |-> "part", data |-> Pending.serial, packet |-> Had,
                  ended |-> Told.ended],
         Had' = Had + 1, UNCHANGED Pending, UNCHANGED Asked
  PROVE  Serves
  BY DEF Serves, Service!Next, Service!Part, Service!IsRead, Service!Tell,
     Pending, Asked, Had, Told, Waiting

LEMMA EndStep ==
  ASSUME Asked, NEW outcome, NEW data,
         Told' = [outcome |-> outcome, data |-> data, packet |-> Had,
                  ended |-> Told.ended + 1],
         Pending' = NoRequest, ~Asked', Had' = 0,
         \/ /\ outcome = "data" /\ data = Pending.serial
            /\ Pending.fc \in Reads /\ Had + 1 = Pending.count
         \/ /\ outcome = "success"
            /\ Pending.fc \in SingleWrites \cup MultipleWrites
            /\ data = IF Pending.addr = "broadcast" THEN 0 ELSE Pending.serial
         \/ /\ outcome = "exception" /\ data = Pending.serial
            /\ Pending.addr # "broadcast" /\ Had = 0
         \/ /\ outcome = "timeout" /\ data = 0 /\ Pending.addr # "broadcast"
  PROVE  Serves
<1>1. Service!End(outcome, data)
  <2>1. Asked' = FALSE
    BY DEF Asked
  <2>2. QED
    BY <2>1 DEF Service!End, Service!Tell, Pending, Asked, Had, Told, Waiting
<1>2. Service!Data \/ Service!Confirm \/ Service!Refuse \/ Service!TimeOut
  BY <1>1 DEF Service!Data, Service!Confirm, Service!Refuse, Service!TimeOut,
     Service!IsRead, Service!IsBroadcast, Pending, Had, Waiting
<1>3. QED
  BY <1>2 DEF Serves, Service!Next

\* A request that is waiting is none but the accepted one.
LEMMA PendingRequest ==
  ASSUME WaitingInv, Waiting
  PROVE  /\ Pending = accepted.request /\ Pending # NoRequest
         /\ Pending \in ValidRequest
         /\ Broadcast <=> Pending.addr = "broadcast"
         /\ Had = Received
<1>1. accepted.request.serial # 0 /\ NoRequest.serial = 0
  BY DEF WaitingInv, OneRequest, NoRequest
<1>2. QED
  BY <1>1, AcceptedAtFront DEF WaitingInv, Pending, Had, Received

\* What neither is a call nor a callback sends the request at most.
LEMMA UndisturbedServes ==
  ASSUME WaitingInv, Undisturbed
  PROVE  Serves
<1>1. UNCHANGED Pending /\ UNCHANGED Had /\ UNCHANGED Told /\ Waiting' = Waiting
  BY DEF Undisturbed, Pending, Had, Told, Waiting
<1>2. CASE Asked' = Asked
  BY <1>1, <1>2, StutterStep
<1>3. CASE Asked' # Asked
  <2>1. Waiting /\ ~Asked /\ Asked'
    BY <1>1, <1>3 DEF Asked, Undisturbed
  <2>2. Pending # NoRequest
    BY <2>1, PendingRequest
  <2>3. QED
    BY <1>1, <2>1, <2>2, SendStep
<1>4. QED
  BY <1>2, <1>3

\* A call is a step of the service when it completes the request.
LEMMA MessageServes ==
  ASSUME ~Interleaved, WaitingInv, WaitingInv', HandleMessage
  PROVE  Serves
<1>1. ~Waiting /\ UNCHANGED <<pc, delivered>>
  BY MessageOneRequest DEF WaitingInv, HandleMessage
<1>2. CASE UNCHANGED <<wire, request, chunk, rx, epoch, accepted, delivered>>
  BY <1>2, StutterStep DEF Pending, Asked, Had, Told, Waiting
<1>3. ASSUME NEW r \in ValidRequest, NEW bytes \in Seq(ValidUnit),
             SendRequest(r, bytes)
      PROVE  Serves
  <2>1. /\ request'.state = "master_waiting" /\ epoch' = epoch + 1
        /\ accepted'.request = r /\ wire' = "tx"
    BY <1>1, <1>3, SendTyped DEF WaitingInv, MasterInv, SendRequest,
       modbus_start_tx_from_buffer
  <2>2. Pending' = r /\ r.serial # 0 /\ ~Asked'
    BY <2>1 DEF Pending, Asked, Waiting, WaitingInv, OneRequest
  <2>3. Pending = NoRequest /\ Pending' # NoRequest
    BY <1>1, <2>2 DEF Pending, NoRequest
  <2>4. Pending'.fc \in Reads \cup SingleWrites \cup MultipleWrites
    BY <2>2 DEF ValidRequest, NumberedRequest, FunctionCodes
  <2>5. delivered'.epoch # epoch'
    <3>1. delivered.epoch <= epoch /\ delivered.epoch \in Nat /\ epoch \in Nat
      BY DEF WaitingInv, StreamInOrder, MasterInv, Typed, EngineTypeOK,
         HostTyped, Report
    <3>2. QED
      BY <1>1, <2>1, <3>1
  <2>6. Had' = 0 /\ UNCHANGED Told
    BY <1>1, <2>5 DEF Had, Told
  <2>7. QED
    BY <2>2, <2>3, <2>4, <2>6, AcceptStep
<1>4. QED
  BY <1>2, <1>3, MessageOneRequest DEF WaitingInv

\* Every callback is a step of the service.
LEMMA CallbackServes ==
  ASSUME "wrong_count" \notin Replies, AnsweredInv,
         NEW sendable \in BOOLEAN, InvokeCallback(sendable)
  PROVE  Serves
<1>1. /\ Waiting /\ wire # "tx" /\ UNCHANGED accepted
      /\ chunk.current = Received /\ WaitingInv /\ HeadsAnswer
  BY HandlerSteps DEF AnsweredInv
<1>2. /\ Pending = accepted.request /\ Pending \in ValidRequest
      /\ Broadcast <=> Pending.addr = "broadcast"
      /\ Had = Received /\ Asked
  BY <1>1, PendingRequest DEF Asked
<1>3. Due => rx_frame.serial = Pending.serial /\ ~Broadcast
  BY <1>1, <1>2, ResponseIsReply DEF Due
<1>4. CASE UNCHANGED <<wire, request, epoch, delivered>>
  BY <1>1, <1>4, StutterStep DEF Pending, Asked, Had, Told, Waiting
<1>5. CASE PartFits
  <2>1. /\ delivered'.epoch = epoch /\ delivered'.packet = Received
        /\ delivered'.outcome = "part" /\ delivered'.data = rx_frame.serial
        /\ delivered'.ended = delivered.ended + 0
    BY <1>5 DEF PartFits, Deliver
  <2>2. delivered.ended \in Nat
    BY <1>1 DEF WaitingInv, MasterInv, Typed, HostTyped, Report
  <2>3. Told' = [outcome |-> "part", data |-> Pending.serial, packet |-> Had,
                 ended |-> Told.ended]
    BY <1>2, <1>3, <1>5, <2>1, <2>2 DEF Told, PartFits
  <2>4. UNCHANGED Pending /\ UNCHANGED Asked /\ Had' = Had + 1
    BY <1>1, <1>2, <1>5, <2>1 DEF PartFits, Pending, Asked, Had, Waiting
  <2>5. QED
    BY <1>2, <1>5, <2>3, <2>4, PartStep DEF PartFits
<1>6. ASSUME NEW outcome \in Outcomes \ {"none", "part"}, NEW data \in Nat,
             EndFits(outcome, data), EndRequest(outcome, data)
      PROVE  Serves
  <2>1. Told' = [outcome |-> outcome, data |-> data, packet |-> Had,
                 ended |-> Told.ended + 1]
    BY <1>1, <1>2, <1>6 DEF EndRequest, Deliver, Told
  <2>2. ~Waiting'
    BY <1>6 DEF EndRequest, modbus_clear_request, ClearRequestTo,
       ReadyRequest, Waiting
  <2>3. Pending' = NoRequest /\ ~Asked' /\ Had' = 0
    BY <2>2 DEF Pending, Asked, Had
  <2>4. CASE outcome = "data"
    BY <1>2, <1>3, <1>6, <2>1, <2>3, <2>4, EndStep DEF EndFits
  <2>5. CASE outcome = "success"
    <3>1. Pending.fc \in SingleWrites \cup MultipleWrites
      BY <1>2, <1>6, <2>5
         DEF EndFits, ValidRequest, NumberedRequest, FunctionCodes
    <3>2. data = IF Pending.addr = "broadcast" THEN 0 ELSE Pending.serial
      BY <1>2, <1>3, <1>6, <2>5 DEF EndFits
    <3>3. QED
      BY <1>2, <2>1, <2>3, <2>5, <3>1, <3>2, EndStep
  <2>6. CASE outcome = "exception"
    BY <1>2, <1>3, <1>6, <2>1, <2>3, <2>6, EndStep DEF EndFits
  <2>7. CASE outcome = "timeout"
    BY <1>2, <1>3, <1>6, <2>1, <2>3, <2>7, EndStep DEF EndFits
  <2>8. QED
    BY <1>6, <2>4, <2>5, <2>6, <2>7 DEF EndFits
<1>7. QED
  BY <1>1, <1>4, <1>5, <1>6, NothingDropped

\* For a host that waits and slaves that answer properly the master implements
\* its service: it carries out one request at a time, sends it before it
\* reports on it, hands over responses packet by packet, and reports each end
\* once with an outcome that fits.
THEOREM MasterImplementsService ==
  ASSUME ~Interleaved, MaxConfigs = 0, ~LateReplies,
         "wrong_count" \notin Replies
  PROVE  Spec => ImplementsMasterService
<1>1. Init => Service!Init
  <2>1. ASSUME Init PROVE Service!Init
    <3>1. /\ request.state = "ready"
          /\ delivered = [id |-> 0, epoch |-> 0, outcome |-> "none",
                          data |-> 0, packet |-> 0, ended |-> 0]
      BY <2>1 DEF Init, RTUInit, modbus_init, ReadyRequest
    <3>2. QED
      BY <3>1 DEF Service!Init, Service!Idle
  <2>2. QED
    BY <2>1
<1>2. ASSUME AnsweredInv, AnsweredInv', [Next]_vars PROVE Serves
  <2>1. WaitingInv /\ WaitingInv'
    BY <1>2 DEF AnsweredInv
  <2>2. QED
    BY <1>2, <2>1, StepKinds, CallbackServes, MessageServes, UndisturbedServes
<1>3. AnsweredInv /\ AnsweredInv' /\ [Next]_vars
        => [Service!Next]_(Service!service)
  BY <1>2 DEF Serves
<1>4. QED
  BY <1>1, <1>3, AnsweredInvariant, PTL DEF Spec, Service!Spec,
     ImplementsMasterService

==============================================================================
