--------------------------- MODULE ModbusRTU_proofs ---------------------------
(***************************************************************************)
(* Lemmas about the engine of ModbusRTU that the proofs for slave and      *)
(* master rest on: what its helpers return and that its steps keep the     *)
(* types of the variables they change.                                     *)
(***************************************************************************)
EXTENDS ModbusRTU, TLAPS

\* The 8 bit increment of an id stays in range and is one more, or 0 at 255.
LEMMA IncrementIdValue ==
  ASSUME NEW id \in 0..IdMax
  PROVE  /\ IncrementId(id) = IF id = IdMax THEN 0 ELSE id + 1
         /\ IncrementId(id) \in 0..IdMax
  BY RTUAssumption DEF IncrementId

\* A request never gets the id 0.
LEMMA NextRequestIdValue ==
  ASSUME NEW id \in 0..IdMax
  PROVE  NextRequestId(id) \in 1..IdMax
  BY RTUAssumption DEF NextRequestId

\* Counting keeps the counters natural numbers.
LEMMA CountTyped ==
  ASSUME counters \in [CounterNames -> Nat], NEW names, Count(names)
  PROVE  counters' \in [CounterNames -> Nat]
  BY DEF Count

\* A cleared request, the wire and the ring lengths have their types.
LEMMA ClearTyped ==
  ASSUME EngineTypeOK, NEW w \in WireStates, NEW r, ClearRequestTo(w, r),
         pc' \in {"tick", "callbacks", "messages"},
         counters' \in [CounterNames -> Nat]
  PROVE  EngineTypeOK'
<1>1. ReadyRequest(IncrementId(request.id)) \in RequestType
  BY IncrementIdValue DEF EngineTypeOK, ReadyRequest, RequestType, RequestStates
<1>2. NoChunking \in ChunkType
  BY DEF NoChunking, ChunkType
<1>3. QED
  BY <1>1, <1>2 DEF EngineTypeOK, ClearRequestTo

\* So has a new request.
LEMMA NewRequestTyped ==
  ASSUME EngineTypeOK, NEW state \in RequestStates, NEW length \in Nat,
         NEW invoke \in BOOLEAN,
         modbus_init_new_request(state, length, invoke)
  PROVE  /\ request' \in RequestType /\ epoch' \in Nat
         /\ request'.id = NextRequestId(request.id)
         /\ request'.state = state /\ request'.length = length
<1>1. request \in RequestType /\ epoch \in Nat
  BY DEF EngineTypeOK
<1>2. NextRequestId(request.id) \in 0..IdMax
  BY <1>1, NextRequestIdValue DEF RequestType
<1>3. request' = [request EXCEPT !.id = NextRequestId(request.id),
                                 !.state = state, !.length = length,
                                 !.cb_invoke = invoke]
  BY DEF modbus_init_new_request
<1>4. epoch' \in Nat
  BY <1>1 DEF modbus_init_new_request
<1>5. QED
  BY <1>1, <1>2, <1>3, <1>4 DEF RequestType

\* The re-initialised TX ring is empty.
LEMMA ClearTxTyped ==
  ASSUME NEW U, TxTypeOK(U), NEW w, NEW r, ClearRequestTo(w, r),
         tx_done' \in BOOLEAN, UNCHANGED <<txirq, fifo, direction>>
  PROVE  TxTypeOK(U)'
  BY DEF TxTypeOK, ClearRequestTo

\* The TX interrupt does not overfill the FIFO, and takes no more out of the
\* TX ring than there is.
LEMMA TxInterruptTyped ==
  ASSUME NEW U, EngineTypeOK, TxTypeOK(U), NEW B, RxTypeOK(B),
         rs485_tx_irq_handler
  PROVE  EngineTypeOK' /\ TxTypeOK(U)' /\ RxTypeOK(B)'
<1> USE DEF rs485_tx_irq_handler
<1>1. Loaded \in Nat /\ Loaded <= TxUsed /\ fifo + Loaded <= FifoSize
  BY RTUAssumption DEF Loaded, TxUsed, TxTypeOK
<1>2. tx_start' \in 0..Len(tx) /\ fifo' \in 0..FifoSize
  BY <1>1, RTUAssumption DEF TxTypeOK, TxUsed
<1>3. TxTypeOK(U)'
  BY <1>2 DEF TxTypeOK
<1>4. EngineTypeOK' /\ RxTypeOK(B)'
  BY DEF EngineTypeOK, RxTypeOK
<1>5. QED
  BY <1>3, <1>4

\* The shift register only takes bytes that are there.
LEMMA TffInterruptTyped ==
  ASSUME NEW U, EngineTypeOK, TxTypeOK(U), NEW B, RxTypeOK(B),
         rs485_tff_irq_handler
  PROVE  EngineTypeOK' /\ TxTypeOK(U)' /\ RxTypeOK(B)'
<1> USE DEF rs485_tff_irq_handler
<1>1. TxTypeOK(U)'
  BY RTUAssumption DEF TxTypeOK, DirectionAfterByte
<1>2. EngineTypeOK' /\ RxTypeOK(B)'
  BY DEF EngineTypeOK, RxTypeOK
<1>3. QED
  BY <1>1, <1>2

\* The ring grows by at most one byte with a byte on the bus, and never when
\* it is full; nothing but reception is touched.
LEMMA BusByteTyped ==
  ASSUME NEW U, EngineTypeOK, TxTypeOK(U), NEW B, RxTypeOK(B), Noise \in B,
         NEW bytes \in Seq(B), BusByte(bytes)
  PROVE  EngineTypeOK' /\ TxTypeOK(U)' /\ RxTypeOK(B)'
<1>1. bytes # <<>> /\ Head(bytes) \in B /\ Tail(bytes) \in Seq(B)
  BY DEF BusByte
<1>2. RxTypeOK(B)'
  <2>1. CASE UNCHANGED <<rx, quiet, counters>>
    BY <1>1, <2>1 DEF BusByte, RxTypeOK
  <2>2. CASE \E b \in {Head(bytes), Noise} : rs485_rx_irq_handler(b)
    <3>1. PICK b \in {Head(bytes), Noise} : rs485_rx_irq_handler(b)
      BY <2>2
    <3>2. b \in B /\ (rx' = Append(rx, b) \/ rx' = rx) /\ quiet' = FALSE
      BY <1>1, <3>1 DEF rs485_rx_irq_handler
    <3>3. rx' \in Seq(B)
      BY <3>2 DEF RxTypeOK
    <3>4. line' = Tail(bytes)
      BY DEF BusByte
    <3>5. QED
      BY <1>1, <3>2, <3>3, <3>4 DEF RxTypeOK
  <2>3. QED
    BY <2>1, <2>2 DEF BusByte
<1>3. counters' \in [CounterNames -> Nat]
  <2>1. counters \in [CounterNames -> Nat]
    BY DEF EngineTypeOK
  <2>2. counters' = counters \/ Count({"overrun"})
    BY DEF BusByte, rs485_rx_irq_handler
  <2>3. QED
    BY <2>1, <2>2, CountTyped
<1>4. EngineTypeOK' /\ TxTypeOK(U)'
  BY <1>3 DEF BusByte, EngineTypeOK, TxTypeOK, txpath
<1>5. QED
  BY <1>2, <1>4

\* The engine starts with its types.
LEMMA InitTyped ==
  ASSUME NEW U, NEW B, RTUInit
  PROVE  EngineTypeOK /\ TxTypeOK(U) /\ RxTypeOK(B)
<1> USE RTUAssumption DEF RTUInit, modbus_init
<1>1. request \in RequestType /\ chunk \in ChunkType
  BY DEF ReadyRequest, RequestType, RequestStates, NoChunking, ChunkType
<1>2. EngineTypeOK
  BY <1>1 DEF EngineTypeOK, WireStates
<1>3. <<>> \in Seq(U) /\ <<>> \in Seq(B) /\ Len(<<>>) = 0
  OBVIOUS
<1>4. TxTypeOK(U)
  <2>1. tx \in Seq(U) /\ Len(tx) = 0
    BY <1>3
  <2>2. tx_start \in 0..Len(tx) /\ fifo \in 0..FifoSize
    BY <2>1
  <2>3. QED
    BY <2>1, <2>2 DEF TxTypeOK
<1>5. RxTypeOK(B)
  BY <1>3 DEF RxTypeOK
<1>6. QED
  BY <1>2, <1>4, <1>5

\* The ring is found empty only when its last byte has been taken.
LEMMA RingEmptyAtEnd ==
  ASSUME NEW U, TxTypeOK(U), rs485_tx_irq_handler
  PROVE  /\ Loaded \in Nat /\ fifo' = fifo + Loaded
         /\ RingFoundEmpty => tx_start' = Len(tx)
         /\ ~RingFoundEmpty => fifo' >= FifoSize
  BY RTUAssumption DEF rs485_tx_irq_handler, RingFoundEmpty, Loaded, TxUsed,
     TxTypeOK

------------------------------------------------------------------------------
(* A whole frame at the start of the RX ring.                              *)

\* The ring starts with an undamaged frame.
HoldsFrame ==
  /\ Len(rx) >= FrameLen
  /\ \A i \in 1..FrameLen :
       rx[i] # Noise /\ rx[i].frame = rx[1].frame /\ rx[i].part = i

\* The start of the ring passes the checksum exactly if it holds a frame.
LEMMA ChecksumOfHeldFrame ==
  ASSUME NEW B, rx \in Seq(B)
  PROVE  HoldsFrame <=> /\ Len(rx) >= FrameLen
                        /\ modbus_check_frame_checksum(SubSeq(rx, 1, FrameLen))
<1>1. CASE Len(rx) >= FrameLen
  <2>1. /\ Len(SubSeq(rx, 1, FrameLen)) = FrameLen
        /\ \A i \in 1..FrameLen : SubSeq(rx, 1, FrameLen)[i] = rx[i]
    BY <1>1, RTUAssumption
  <2>2. SubSeq(rx, 1, FrameLen)[1] = rx[1]
    BY <2>1, RTUAssumption
  <2>3. QED
    BY <1>1, <2>1, <2>2 DEF HoldsFrame, modbus_check_frame_checksum
<1>2. CASE ~(Len(rx) >= FrameLen)
  BY <1>2 DEF HoldsFrame
<1>3. QED
  BY <1>1, <1>2

\* A ring that passes the checksum as far as it was last seen, and has not
\* grown since, holds a frame.
LEMMA CheckedFrame ==
  ASSUME NEW B, rx \in Seq(B), Len(rx) = rx_rb_last_length,
         modbus_check_frame_checksum(SubSeq(rx, 1, rx_rb_last_length))
  PROVE  HoldsFrame
<1>1. SubSeq(rx, 1, rx_rb_last_length) = rx
  OBVIOUS
<1>2. modbus_check_frame_checksum(rx)
  BY <1>1
<1>3. QED
  BY <1>2, RTUAssumption DEF modbus_check_frame_checksum, HoldsFrame

\* A byte behind the frame does not touch it.
LEMMA HeldFrameStays ==
  ASSUME NEW B, rx \in Seq(B), HoldsFrame,
         rx' = rx \/ \E b \in B : rx' = Append(rx, b)
  PROVE  HoldsFrame' /\ rx_frame' = rx_frame
<1>1. /\ Len(rx') >= FrameLen
      /\ \A i \in 1..FrameLen : rx'[i] = rx[i]
  BY RTUAssumption DEF HoldsFrame
<1>2. rx'[1] = rx[1]
  BY <1>1, RTUAssumption
<1>3. QED
  BY <1>1, <1>2 DEF HoldsFrame, rx_frame
===============================================================================
