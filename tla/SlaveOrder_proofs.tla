-------------------------- MODULE SlaveOrder_proofs --------------------------
(***************************************************************************)
(* What the Bricklet in slave mode does for a request, for all frames,     *)
(* packet counts, id widths and buffer sizes, in half duplex: it offers    *)
(* the request once and whole, sends exactly one whole response to it,     *)
(* ends the transmission before it goes on, and turns the receiver back    *)
(* on.  In full duplex the next request may come in while the last         *)
(* response is still in the FIFO, and the model, which has no measure of   *)
(* how fast the FIFO drains, cannot tell that it has room again in time.   *)
(***************************************************************************)
EXTENDS ModbusSlave_proofs

Processing == request.state = "slave_processing"

(***************************************************************************)
(* The inductive invariant.  None of its parts is inductive alone: the     *)
(* handlers test neither the wire nor the ring before they start a         *)
(* transmission or store a chunk, so that nothing is sent twice, cut off   *)
(* or mixed rests on who still holds a ticket, on the callback being due   *)
(* or not, and on the interrupt running before the main loop goes on.      *)
(***************************************************************************)

\* The request and the wire state go together.
RequestInOrder ==
  /\ request.state \in {"ready", "slave_processing"}
  /\ request.state = "ready" => ~request.cb_invoke /\ ~chunk.in_progress
  /\ wire = "rx" => request.state = "ready"
  /\ Processing \/ wire = "tx" => rx_frame.addr # "other"
  /\ Processing => rx_frame.fc \in ImplementedFunctions

\* The transmit path is at rest unless the wire is in TX; then the TX ring
\* holds one response and the interrupt has it in hand.
TransmissionInOrder ==
  /\ wire # "tx" => ~tx_done /\ txirq = "off" /\ tx_start = 0
  /\ wire # "tx" /\ request.state = "ready" => tx = <<>>
  /\ wire = "tx"
       => tx \in {Exception(rx_frame), Answer(rx_frame, Chunks(rx_frame))}
  /\ tx_done => txirq = "off" /\ tx_start = Len(tx)
  /\ txirq = "pending" => tx_start = 0
  /\ txirq = "armed" => fifo > 0
  /\ NeverDeaf

\* In half duplex nothing comes in before the last response has gone out.
HalfDuplex ==
  /\ direction = "rx" => fifo = 0
  /\ wire # "tx" /\ rx # <<>> => direction = "rx"

\* An exception for a request whose callback stays due is sent, and the
\* request ended by the tick, before the callbacks get their next turn.
ExceptionBeforeCallbacks ==
  Processing /\ request.cb_invoke /\ wire = "tx" =>
    /\ Len(tx) = 1
    /\ \/ txirq = "pending" /\ fifo = 0 /\ pc = "messages"
       \/ tx_done /\ pc # "callbacks"

\* The stream of packets and the packets the host was sent go together.
OfferInOrder ==
  /\ offered.epoch <= epoch
  /\ Processing /\ chunk.in_progress =>
       /\ request.cb_invoke /\ wire = "idle"
       /\ rx_frame.fc \in MultipleWrites
       /\ chunk.total = rx_frame.count /\ chunk.total > 1
       /\ chunk.current < chunk.total
       /\ chunk.current = PacketsSent
  /\ Processing /\ request.cb_invoke /\ ~chunk.in_progress => PacketsSent = 0
  /\ Processing /\ ~request.cb_invoke /\ ~InvalidData
       => PacketsSent = Packets(rx_frame)
  /\ Processing /\ request.cb_invoke /\ wire = "idle" => tx = <<>>

\* The header and the first k chunks of an answer to f.
AnswerSoFar(f, k) ==
  IF k = 0 THEN <<>> ELSE [i \in 1..(k + 1) |-> Unit("answer", f, i - 1)]

\* The host owes the answer to the current request at most once, only when
\* all of the request was offered and nothing is being sent, and the TX ring
\* holds the chunks before the one that comes next.
TicketsInOrder ==
  /\ \A t, u \in host : t.epoch = epoch /\ u.epoch = epoch => t = u
  /\ \A t \in host : t.epoch = epoch =>
       /\ Processing /\ ~request.cb_invoke /\ wire = "idle"
       /\ t.next \in 1..Chunks(t.frame)
       /\ tx = AnswerSoFar(t.frame, t.next - 1)

ServiceInv ==
  /\ RequestInOrder /\ TransmissionInOrder /\ HalfDuplex
  /\ ExceptionBeforeCallbacks /\ OfferInOrder /\ TicketsInOrder

\* With the types and the ids, which are kept by every step on their own.
SlaveInv == Typed /\ IdsAdvanced /\ ServiceInv

------------------------------------------------------------------------------
(* Helpers.                                                                *)

\* The frame of a request is a frame, and the ring is not empty.
LEMMA FrameOfRequest ==
  ASSUME Typed, Processing \/ wire = "tx"
  PROVE  /\ HoldsFrame /\ rx_frame \in Frame /\ rx # <<>>
         /\ rx_frame.count \in Nat /\ Chunks(rx_frame) \in Nat
<1>1. HoldsFrame
  BY DEF Typed, FrameHeld, Processing
<1>2. rx_frame \in Frame /\ rx # <<>>
  BY <1>1, HeldFrameTyped DEF Typed, TypeOK, RxTypeOK
<1>3. QED
  BY <1>1, <1>2 DEF Frame, Chunks

\* The first packet or any other that was sent of the current request.
LEMMA PacketsSentTyped ==
  ASSUME Typed
  PROVE  PacketsSent \in Nat /\ epoch \in Nat /\ offered.epoch \in Nat
  BY DEF Typed, TypeOK, EngineTypeOK, PacketsSent

\* Chunk by chunk the answer becomes whole.
LEMMA AnswerGrows ==
  ASSUME NEW f, NEW n \in Nat, NEW k \in 1..n
  PROVE  AnswerSoFar(f, k - 1) \o AnswerChunk(f, k, n)
           = IF k = n THEN Answer(f, n) ELSE AnswerSoFar(f, k)
<1> DEFINE U(i) == Unit("answer", f, i)
<1> USE DEF AnswerChunk, AnswerSoFar, Answer
<1> HIDE DEF U
<1>1. CASE k = 1 /\ k = n
  BY <1>1
<1>2. CASE k = 1 /\ k # n
  BY <1>2
<1>3. CASE k # 1 /\ k = n
  BY <1>3
<1>4. CASE k # 1 /\ k # n
  BY <1>4
<1>5. QED
  BY <1>1, <1>2, <1>3, <1>4

\* How a response begins, and how long it is.
LEMMA ResponseHead ==
  ASSUME NEW f, NEW n \in Nat
  PROVE  /\ Answer(f, n) # <<>> /\ Len(Answer(f, n)) = n + 2
         /\ Answer(f, n)[1].kind = "answer"
         /\ Exception(f) # <<>> /\ Len(Exception(f)) = 1
         /\ Exception(f)[1].kind = "exception"
<1>1. Len(Answer(f, n)) = n + 2 /\ Answer(f, n)[1] = Unit("answer", f, 0)
  BY DEF Answer
<1>2. Answer(f, n) # <<>>
  BY <1>1
<1>3. Len(Exception(f)) = 1 /\ Exception(f)[1] = Unit("exception", f, 1)
  BY DEF Exception
<1>4. Exception(f) # <<>>
  BY <1>3
<1>5. Unit("answer", f, 0).kind = "answer"
      /\ Unit("exception", f, 1).kind = "exception"
  BY DEF Unit
<1>6. QED
  BY <1>1, <1>2, <1>3, <1>4, <1>5

\* What is in the RX ring in half duplex came in after the FIFO had run empty.
LEMMA FifoEmpty ==
  ASSUME HalfDuplex, wire # "tx", rx # <<>>
  PROVE  fifo = 0 /\ direction = "rx"
  BY DEF HalfDuplex

------------------------------------------------------------------------------
(* A request ends.                                                         *)

\* The request is cleared, with nothing left of its transmission.
LEMMA ClearedInOrder ==
  ASSUME Typed, IdsAdvanced, ServiceInv,
         NEW w \in {"idle", "rx"}, NEW r, ClearRequestTo(w, r),
         wire = "tx" => tx_done, tx_done' = FALSE,
         r # <<>> => direction = "rx",
         UNCHANGED <<txirq, fifo, direction, offered>>, OldTickets
  PROVE  ServiceInv'
<1>1. /\ request' = ReadyRequest(IncrementId(request.id))
      /\ epoch' = epoch + 1 /\ rx' = r /\ tx' = <<>> /\ tx_start' = 0
      /\ chunk' = NoChunking /\ wire' \in {"idle", "rx"}
  BY DEF ClearRequestTo
<1>2. request'.state = "ready" /\ ~request'.cb_invoke /\ ~chunk'.in_progress
  BY <1>1 DEF ReadyRequest, NoChunking
<1>3. txirq' = "off"
  BY DEF ServiceInv, TransmissionInOrder
<1>4. RequestInOrder'
  BY <1>1, <1>2 DEF RequestInOrder, Processing
<1>5. TransmissionInOrder'
  BY <1>1, <1>2, <1>3 DEF ServiceInv, TransmissionInOrder, NeverDeaf
<1>6. HalfDuplex'
  BY <1>1 DEF ServiceInv, HalfDuplex
<1>7. ExceptionBeforeCallbacks'
  BY <1>2 DEF ExceptionBeforeCallbacks, Processing
<1>8. OfferInOrder'
  <2>1. offered'.epoch <= epoch'
    BY <1>1, PacketsSentTyped DEF ServiceInv, OfferInOrder
  <2>2. QED
    BY <1>2, <2>1 DEF OfferInOrder, Processing
<1>9. TicketsInOrder'
  <2>1. ASSUME NEW u \in host' PROVE u.epoch # epoch'
    <3>1. PICK t \in host : u.epoch = t.epoch
      BY DEF OldTickets
    <3>2. t.epoch \in Nat /\ t.epoch <= epoch
      BY DEF IdsAdvanced, Typed, TypeOK, TicketType
    <3>3. QED
      BY <1>1, <3>1, <3>2, PacketsSentTyped
  <2>2. QED
    BY <2>1 DEF TicketsInOrder
<1>10. QED
  BY <1>4, <1>5, <1>6, <1>7, <1>8, <1>9 DEF ServiceInv

------------------------------------------------------------------------------
(* A request begins.                                                       *)

\* The wire state machine finds the frame of an implemented function that is
\* not meant for another slave.
LEMMA AcceptedInOrder ==
  ASSUME Typed, IdsAdvanced, ServiceInv, AcceptRequest,
         FrameAvailable("ready"),
         rx_frame.addr # "other", rx_frame.fc \in ImplementedFunctions,
         UNCHANGED <<host, offered>>
  PROVE  ServiceInv'
<1>1. /\ UNCHANGED <<wire, chunk, rx, tx_done, tx, tx_start, txirq, fifo,
                     direction, rx_frame>>
      /\ wire = "idle" /\ request.state = "ready"
  BY DEF AcceptRequest, FrameAvailable, txpath, rx_frame
<1>2. /\ request'.state = "slave_processing" /\ request'.cb_invoke
      /\ epoch' = epoch + 1
  BY DEF AcceptRequest, modbus_init_new_request, Typed, TypeOK, EngineTypeOK,
     RequestType
<1>3. ~chunk.in_progress /\ tx = <<>> /\ epoch \in Nat
      /\ offered.epoch \in Nat /\ offered.epoch <= epoch
  BY <1>1, PacketsSentTyped
     DEF ServiceInv, RequestInOrder, TransmissionInOrder, OfferInOrder
<1>4. RequestInOrder'
  BY <1>1, <1>2 DEF RequestInOrder
<1>5. TransmissionInOrder'
  BY <1>1, <1>2 DEF ServiceInv, TransmissionInOrder, NeverDeaf
<1>6. HalfDuplex' /\ ExceptionBeforeCallbacks'
  BY <1>1 DEF ServiceInv, HalfDuplex, ExceptionBeforeCallbacks
<1>7. OfferInOrder'
  <2>1. PacketsSent' = 0 /\ offered'.epoch <= epoch'
    BY <1>2, <1>3 DEF PacketsSent
  <2>2. QED
    BY <1>1, <1>2, <1>3, <2>1 DEF OfferInOrder
<1>8. TicketsInOrder'
  <2>1. ASSUME NEW u \in host' PROVE u.epoch # epoch'
    <3>1. u \in host /\ u.epoch \in Nat /\ u.epoch <= epoch
      BY DEF IdsAdvanced, Typed, TypeOK, TicketType
    <3>2. QED
      BY <1>2, <1>3, <3>1
  <2>2. QED
    BY <2>1 DEF TicketsInOrder
<1>9. QED
  BY <1>4, <1>5, <1>6, <1>7, <1>8 DEF ServiceInv

------------------------------------------------------------------------------
(* The response to a request is started.                                   *)

\* An exception takes the place of the answer: no packet stream is going on,
\* and nobody owes an answer any more.
LEMMA ExceptionInOrder ==
  ASSUME Typed, IdsAdvanced, ServiceInv, modbus_report_exception,
         wire # "tx", rx # <<>>, rx_frame.addr # "other",
         UNCHANGED <<chunk, rx, epoch, offered>>,
         request'.state = request.state,
         request'.cb_invoke => request.cb_invoke /\ pc' = "messages",
         Processing => ~chunk.in_progress,
         Processing /\ ~request'.cb_invoke /\ ~InvalidData
           => ~request.cb_invoke,
         \A t \in host' : t.epoch # epoch
  PROVE  ServiceInv'
<1>1. /\ wire' = "tx" /\ tx' = Exception(rx_frame) /\ tx_start' = 0
      /\ txirq' = "pending"
      /\ UNCHANGED <<tx_done, fifo, direction, rx_frame, PacketsSent>>
  BY DEF modbus_report_exception, modbus_start_tx_from_buffer, rx_frame,
     PacketsSent
<1>2. ~tx_done /\ fifo = 0
  BY FifoEmpty DEF ServiceInv, TransmissionInOrder
<1>3. Len(tx') = 1
  BY <1>1, ResponseHead
<1>4. RequestInOrder'
  BY <1>1 DEF ServiceInv, RequestInOrder, Processing
<1>5. TransmissionInOrder'
  BY <1>1, <1>2 DEF TransmissionInOrder, NeverDeaf
<1>6. HalfDuplex'
  BY <1>1, <1>2 DEF HalfDuplex
<1>7. ExceptionBeforeCallbacks'
  BY <1>1, <1>2, <1>3 DEF ExceptionBeforeCallbacks
<1>8. OfferInOrder'
  BY <1>1 DEF ServiceInv, OfferInOrder, Processing, InvalidData
<1>9. TicketsInOrder'
  BY DEF TicketsInOrder
<1>10. QED
  BY <1>4, <1>5, <1>6, <1>7, <1>8, <1>9 DEF ServiceInv

\* The whole answer is in the TX ring and the transmission starts.
LEMMA AnswerInOrder ==
  ASSUME Typed, IdsAdvanced, ServiceInv,
         Processing, ~request.cb_invoke, wire = "idle",
         tx' = Answer(rx_frame, Chunks(rx_frame)), modbus_start_tx_from_buffer,
         UNCHANGED <<request, chunk, rx, epoch, tx_done, tx_start, fifo,
                     direction, offered>>,
         \A t \in host' : t.epoch # epoch
  PROVE  ServiceInv'
<1>1. /\ wire' = "tx" /\ txirq' = "pending"
      /\ UNCHANGED <<rx_frame, PacketsSent>>
  BY DEF modbus_start_tx_from_buffer, rx_frame, PacketsSent
<1>2. ~tx_done /\ tx_start = 0 /\ fifo = 0
  BY FrameOfRequest, FifoEmpty DEF ServiceInv, TransmissionInOrder
<1>3. RequestInOrder'
  BY <1>1 DEF ServiceInv, RequestInOrder, Processing
<1>4. TransmissionInOrder'
  BY <1>1, <1>2 DEF TransmissionInOrder, NeverDeaf
<1>5. HalfDuplex' /\ ExceptionBeforeCallbacks'
  BY <1>1, <1>2 DEF HalfDuplex, ExceptionBeforeCallbacks
<1>6. OfferInOrder'
  BY <1>1 DEF ServiceInv, OfferInOrder, Processing, InvalidData
<1>7. TicketsInOrder'
  BY DEF TicketsInOrder
<1>8. QED
  BY <1>3, <1>4, <1>5, <1>6, <1>7 DEF ServiceInv

\* Another chunk is stored behind those before it.
LEMMA ChunkInOrder ==
  ASSUME Typed, IdsAdvanced, ServiceInv,
         Processing, ~request.cb_invoke, wire = "idle",
         NEW k \in 1..Chunks(rx_frame), k < Chunks(rx_frame),
         tx' = AnswerSoFar(rx_frame, k),
         UNCHANGED <<wire, request, chunk, rx, epoch, tx_done, tx_start, txirq,
                     fifo, direction, offered>>,
         NEW t, t.next = k + 1, t.frame = rx_frame,
         \A u \in host' : u.epoch = epoch => u = t
  PROVE  ServiceInv'
<1>1. UNCHANGED <<rx_frame, PacketsSent>>
  BY DEF rx_frame, PacketsSent
<1>2. RequestInOrder'
  BY <1>1 DEF ServiceInv, RequestInOrder, Processing
<1>3. TransmissionInOrder'
  BY DEF ServiceInv, TransmissionInOrder, NeverDeaf, Processing
<1>4. HalfDuplex' /\ ExceptionBeforeCallbacks'
  BY DEF ServiceInv, HalfDuplex, ExceptionBeforeCallbacks
<1>5. OfferInOrder'
  BY <1>1 DEF ServiceInv, OfferInOrder, Processing, InvalidData
<1>6. TicketsInOrder'
  <2>1. k \in Nat /\ Chunks(rx_frame) \in Nat /\ t.next - 1 = k
    BY FrameOfRequest
  <2>2. t.next \in 1..Chunks(rx_frame) /\ tx' = AnswerSoFar(rx_frame, t.next - 1)
    BY <2>1
  <2>3. \A u \in host' : u.epoch = epoch =>
          u.next \in 1..Chunks(u.frame) /\ tx' = AnswerSoFar(u.frame, u.next - 1)
    BY <2>2
  <2>4. QED
    BY <2>3 DEF TicketsInOrder, Processing
<1>7. QED
  BY <1>2, <1>3, <1>4, <1>5, <1>6 DEF ServiceInv

------------------------------------------------------------------------------
(* A request is offered to the host.                                       *)

\* With the last packet the host knows the request, and owes the answer.
LEMMA LastPacketInOrder ==
  ASSUME Typed, IdsAdvanced, ServiceInv,
         Processing, request.cb_invoke, wire = "idle", Offer(TRUE),
         PacketsSent + 1 = Packets(rx_frame),
         rx_frame.fc \in Reads => rx_frame.count # 0,
         request'.state = request.state, ~request'.cb_invoke,
         ~chunk'.in_progress, UNCHANGED <<wire, rx, epoch, txpath>>
  PROVE  ServiceInv'
<1>1. /\ UNCHANGED <<tx_done, tx, tx_start, txirq, fifo, direction, rx_frame>>
      /\ offered' = [epoch |-> epoch, packets |-> PacketsSent + 1]
      /\ host' = host \cup {Ticket}
  BY DEF Offer, txpath, rx_frame
<1>2. RequestInOrder'
  BY <1>1 DEF ServiceInv, RequestInOrder, Processing
<1>3. TransmissionInOrder'
  BY <1>1 DEF ServiceInv, TransmissionInOrder, NeverDeaf, Processing
<1>4. HalfDuplex' /\ ExceptionBeforeCallbacks'
  BY <1>1 DEF ServiceInv, HalfDuplex, ExceptionBeforeCallbacks
<1>5. OfferInOrder'
  <2>1. PacketsSent' = PacketsSent + 1 /\ offered'.epoch = epoch
    BY <1>1 DEF PacketsSent
  <2>2. QED
    BY <1>1, <2>1, PacketsSentTyped DEF OfferInOrder, Packets, InvalidData
<1>6. TicketsInOrder'
  <2>1. \A u \in host' : u.epoch = epoch => u = Ticket
    BY <1>1 DEF ServiceInv, TicketsInOrder
  <2>2. Ticket.next = 1 /\ Ticket.frame = rx_frame
    BY DEF Ticket
  <2>3. 1 \in 1..Chunks(rx_frame)
    BY FrameOfRequest DEF Chunks
  <2>4. tx' = AnswerSoFar(rx_frame, 1 - 1)
    BY <1>1 DEF ServiceInv, OfferInOrder, AnswerSoFar
  <2>5. \A u \in host' : u.epoch = epoch =>
          u.next \in 1..Chunks(u.frame) /\ tx' = AnswerSoFar(u.frame, u.next - 1)
    BY <2>1, <2>2, <2>3, <2>4
  <2>6. QED
    BY <2>1, <2>5 DEF TicketsInOrder, Processing
<1>7. QED
  BY <1>2, <1>3, <1>4, <1>5, <1>6 DEF ServiceInv

\* The stream of packets begins or goes on, and is not at its end.
LEMMA StreamInOrder ==
  ASSUME Typed, IdsAdvanced, ServiceInv,
         Processing, request.cb_invoke, wire = "idle",
         chunk'.in_progress, rx_frame.fc \in MultipleWrites,
         chunk'.total = rx_frame.count, chunk'.total > 1,
         chunk'.current < chunk'.total, chunk'.current = PacketsSent',
         offered'.epoch <= epoch,
         UNCHANGED <<wire, request, rx, epoch, txpath, host>>
  PROVE  ServiceInv'
<1>1. UNCHANGED <<tx_done, tx, tx_start, txirq, fifo, direction, rx_frame>>
  BY DEF txpath, rx_frame
<1>2. RequestInOrder'
  BY <1>1 DEF ServiceInv, RequestInOrder, Processing
<1>3. TransmissionInOrder'
  BY <1>1 DEF ServiceInv, TransmissionInOrder, NeverDeaf, Processing
<1>4. HalfDuplex' /\ ExceptionBeforeCallbacks'
  BY <1>1 DEF ServiceInv, HalfDuplex, ExceptionBeforeCallbacks
<1>5. OfferInOrder'
  BY <1>1 DEF ServiceInv, OfferInOrder, Processing
<1>6. TicketsInOrder'
  BY <1>1 DEF ServiceInv, TicketsInOrder, Processing
<1>7. QED
  BY <1>2, <1>3, <1>4, <1>5, <1>6 DEF ServiceInv

------------------------------------------------------------------------------
(* Steps that leave the request as it is.                                  *)

\* The main loop goes on; while an exception is sent for a request whose
\* callback is due, it gets no further than to the end of the transmission.
LEMMA KeptInOrder ==
  ASSUME Typed, IdsAdvanced, ServiceInv,
         UNCHANGED <<request, chunk, rx, epoch, txpath, offered>>,
         \/ wire' = wire
         \/ request.state = "ready" /\ wire # "tx" /\ wire' \in {"idle", "rx"},
         \A u \in host' : u.epoch = epoch => u \in host,
         \/ pc' = pc
         \/ MainMayRun /\ (pc' = "callbacks" => ~(wire = "tx" /\ tx_done))
  PROVE  ServiceInv'
<1>1. UNCHANGED <<tx_done, tx, tx_start, txirq, fifo, direction, rx_frame,
                  PacketsSent>>
  BY DEF txpath, rx_frame, PacketsSent
<1>2. RequestInOrder'
  BY <1>1 DEF ServiceInv, RequestInOrder, Processing
<1>3. TransmissionInOrder'
  BY <1>1 DEF ServiceInv, TransmissionInOrder, NeverDeaf, Processing
<1>4. HalfDuplex' /\ ExceptionBeforeCallbacks'
  BY <1>1 DEF ServiceInv, HalfDuplex, ExceptionBeforeCallbacks, MainMayRun,
     Processing
<1>5. OfferInOrder'
  BY <1>1 DEF ServiceInv, OfferInOrder, Processing, InvalidData
<1>6. TicketsInOrder'
  BY <1>1 DEF ServiceInv, TicketsInOrder, Processing
<1>7. QED
  BY <1>2, <1>3, <1>4, <1>5, <1>6 DEF ServiceInv

\* A byte that comes in proves that the last response has gone out.
LEMMA BusByteInOrder ==
  ASSUME Typed, IdsAdvanced, ServiceInv, ~FullDuplex,
         NEW bytes \in Seq(Byte), BusByte(bytes), UNCHANGED <<host, offered>>
  PROVE  ServiceInv'
<1>1. /\ UNCHANGED <<pc, wire, request, chunk, epoch, tx_done, tx, tx_start,
                     txirq, fifo, direction, PacketsSent>>
      /\ rx' = rx \/ direction = "rx"
  BY DEF BusByte, txpath, PacketsSent, CanReceive
<1>2. bytes # <<>> /\ Head(bytes) \in Byte /\ Noise \in Byte
  BY DEF BusByte, Byte
<1>3. rx' = rx \/ \E b \in Byte : rx' = Append(rx, b)
  BY <1>2 DEF BusByte, rs485_rx_irq_handler
<1>4. Processing \/ wire = "tx" => rx_frame' = rx_frame
  BY <1>3, HeldFrameStays
     DEF Typed, FrameHeld, TypeOK, RxTypeOK, Processing
<1>5. RequestInOrder'
  BY <1>1, <1>4 DEF ServiceInv, RequestInOrder, Processing
<1>6. TransmissionInOrder'
  BY <1>1, <1>4 DEF ServiceInv, TransmissionInOrder, NeverDeaf
<1>7. HalfDuplex' /\ ExceptionBeforeCallbacks'
  BY <1>1 DEF ServiceInv, HalfDuplex, ExceptionBeforeCallbacks, Processing
<1>8. OfferInOrder'
  BY <1>1, <1>4 DEF ServiceInv, OfferInOrder, Processing, InvalidData
<1>9. TicketsInOrder'
  BY <1>1 DEF ServiceInv, TicketsInOrder, Processing
<1>10. QED
  BY <1>5, <1>6, <1>7, <1>8, <1>9 DEF ServiceInv

------------------------------------------------------------------------------
(* The interrupts.                                                         *)

LEMMA TxInterruptInOrder ==
  ASSUME Typed, IdsAdvanced, ServiceInv, TxInterrupt
  PROVE  ServiceInv'
<1> USE RTUAssumption
<1>1. /\ UNCHANGED <<pc, wire, request, chunk, rx, tx, epoch, host, offered,
                     rx_frame, PacketsSent>>
      /\ txirq \in {"pending", "armed"} /\ direction' = "tx"
      /\ tx_start' = tx_start + Loaded
      /\ \/ RingFoundEmpty /\ txirq' = "off" /\ tx_done' = TRUE
         \/ ~RingFoundEmpty /\ txirq' = "armed" /\ UNCHANGED tx_done
  BY DEF TxInterrupt, rs485_tx_irq_handler, slave_vars, rx_frame, PacketsSent
<1>2. wire = "tx" /\ ~tx_done
  BY <1>1 DEF ServiceInv, TransmissionInOrder
<1>3. /\ Loaded \in Nat /\ fifo' = fifo + Loaded /\ fifo \in Nat
      /\ RingFoundEmpty => tx_start' = Len(tx)
      /\ ~RingFoundEmpty => fifo' >= FifoSize
  BY RingEmptyAtEnd DEF TxInterrupt, Typed, TypeOK, TxTypeOK
<1>4. Len(tx) > 0
  <2>1. Chunks(rx_frame) \in Nat
    BY <1>2, FrameOfRequest
  <2>2. QED
    BY <1>2, <2>1, ResponseHead DEF ServiceInv, TransmissionInOrder
<1>5. fifo' > 0
  <2>1. CASE txirq = "pending"
    BY <1>1, <1>3, <1>4, <2>1 DEF ServiceInv, TransmissionInOrder
  <2>2. CASE txirq = "armed"
    BY <1>3, <2>2 DEF ServiceInv, TransmissionInOrder
  <2>3. QED
    BY <1>1, <2>1, <2>2
<1>6. TransmissionInOrder'
  BY <1>1, <1>2, <1>3, <1>5 DEF ServiceInv, TransmissionInOrder, NeverDeaf
<1>7. ExceptionBeforeCallbacks'
  <2>1. ASSUME Processing, request.cb_invoke
        PROVE  pc # "callbacks" /\ Len(tx) = 1 /\ RingFoundEmpty
    <3>1. Len(tx) = 1 /\ txirq = "pending" /\ fifo = 0 /\ pc = "messages"
          /\ tx_start = 0
      BY <1>2, <2>1
         DEF ServiceInv, ExceptionBeforeCallbacks, TransmissionInOrder
    <3>2. QED
      BY <3>1 DEF RingFoundEmpty, Loaded, TxUsed
  <2>2. QED
    BY <1>1, <2>1 DEF ExceptionBeforeCallbacks, Processing
<1>8. RequestInOrder' /\ HalfDuplex' /\ OfferInOrder' /\ TicketsInOrder'
  BY <1>1, <1>2 DEF ServiceInv, RequestInOrder, HalfDuplex, OfferInOrder,
     TicketsInOrder, Processing, InvalidData
<1>9. QED
  BY <1>6, <1>7, <1>8 DEF ServiceInv

LEMMA TffInterruptInOrder ==
  ASSUME Typed, IdsAdvanced, ServiceInv, TffInterrupt
  PROVE  ServiceInv'
<1>1. /\ UNCHANGED <<pc, wire, request, chunk, rx, tx, tx_done, tx_start, txirq,
                     epoch, host, offered, rx_frame, PacketsSent>>
      /\ fifo > 0 /\ (txirq = "armed" => fifo > 1) /\ fifo' = fifo - 1
      /\ direction' = IF fifo = 1 THEN "rx" ELSE direction
      /\ fifo \in Nat
  BY DEF TffInterrupt, rs485_tff_irq_handler, DirectionAfterByte, slave_vars,
     rx_frame, PacketsSent, Typed, TypeOK, TxTypeOK
<1>2. TransmissionInOrder'
  BY <1>1 DEF ServiceInv, TransmissionInOrder, NeverDeaf
<1>3. HalfDuplex'
  BY <1>1 DEF ServiceInv, HalfDuplex
<1>4. ExceptionBeforeCallbacks'
  BY <1>1 DEF ServiceInv, ExceptionBeforeCallbacks, Processing
<1>5. RequestInOrder' /\ OfferInOrder' /\ TicketsInOrder'
  BY <1>1 DEF ServiceInv, RequestInOrder, OfferInOrder, TicketsInOrder,
     Processing, InvalidData
<1>6. QED
  BY <1>2, <1>3, <1>4, <1>5 DEF ServiceInv

------------------------------------------------------------------------------
(* rs485_tick.                                                             *)

\* A frame that is judged is a whole one when its checksum is good.
LEMMA JudgedFrame ==
  ASSUME Typed, FrameAvailable("ready"),
         modbus_check_frame_checksum(SubSeq(rx, 1, rx_rb_last_length))
  PROVE  HoldsFrame /\ rx_frame \in Frame /\ rx # <<>>
<1>1. rx \in Seq(Byte) /\ Len(rx) = rx_rb_last_length
  BY DEF Typed, TypeOK, RxTypeOK, FrameAvailable
<1>2. HoldsFrame
  BY <1>1, CheckedFrame
<1>3. QED
  BY <1>1, <1>2, HeldFrameTyped

LEMMA TickInOrder ==
  ASSUME Typed, IdsAdvanced, ServiceInv, Tick
  PROVE  ServiceInv'
<1>1. /\ UNCHANGED <<host, offered>> /\ OldTickets
      /\ pc = "tick" /\ pc' = "callbacks" /\ MainMayRun
  BY DEF Tick, slave_vars, OldTickets
<1>2. CASE SlaveRequestTimeout
  <2>1. /\ wire = "idle" /\ request.state = "slave_processing"
        /\ ClearRequestTo("rx", BytesMoved(Len(rx) - request.length))
        /\ UNCHANGED <<tx_done, txirq, fifo, direction>>
    BY <1>2 DEF SlaveRequestTimeout, RequestSuperseded
  <2>2. ~tx_done /\ direction = "rx"
    BY <2>1, FrameOfRequest, FifoEmpty
       DEF ServiceInv, TransmissionInOrder, Processing
  <2>3. QED
    BY <1>1, <2>1, <2>2, ClearedInOrder DEF Typed, TypeOK, TxTypeOK
<1>3. CASE SlaveNewData
  BY <1>1, <1>3, KeptInOrder DEF SlaveNewData, NewData, StartRx
<1>4. CASE SlaveFrame
  <2>1. FrameAvailable("ready") /\ wire = "idle" /\ request.state = "ready"
    BY <1>4 DEF SlaveFrame, FrameAvailable
  <2>2. ~tx_done
    BY <2>1 DEF ServiceInv, TransmissionInOrder
  <2>3. CASE \E names : RejectFrame(names)
    BY <1>1, <2>1, <2>2, <2>3, ClearedInOrder
       DEF RejectFrame, modbus_clear_request, Typed, TypeOK, TxTypeOK
  <2>4. CASE /\ modbus_check_frame_checksum(SubSeq(rx, 1, rx_rb_last_length))
             /\ modbus_slave_check_address(rx_frame)
             /\ \/ ReportIllegalFunction
                \/ /\ modbus_slave_check_function_code_implemented(rx_frame)
                   /\ AcceptRequest
    <3>1. rx # <<>> /\ rx_frame.addr # "other"
      BY <2>1, <2>4, JudgedFrame DEF modbus_slave_check_address
    <3>2. CASE ReportIllegalFunction
      <4>1. ~request.cb_invoke /\ ~Processing
        BY <2>1 DEF ServiceInv, RequestInOrder, Processing
      <4>2. \A t \in host' : t.epoch # epoch
        BY <1>1, <4>1 DEF ServiceInv, TicketsInOrder
      <4>3. QED
        BY <1>1, <2>1, <3>1, <3>2, <4>1, <4>2, ExceptionInOrder
           DEF ReportIllegalFunction
    <3>3. CASE modbus_slave_check_function_code_implemented(rx_frame)
               /\ AcceptRequest
      BY <1>1, <2>1, <3>1, <3>3, AcceptedInOrder
         DEF modbus_slave_check_function_code_implemented
    <3>4. QED
      BY <2>4, <3>2, <3>3
  <2>5. QED
    BY <1>4, <2>3, <2>4 DEF SlaveFrame
<1>5. CASE RxGap
  <2>1. wire = "rx" /\ wire' = "idle" /\ request.state = "ready"
    BY <1>5 DEF RxGap, ServiceInv, RequestInOrder
  <2>2. QED
    BY <1>1, <1>5, <2>1, KeptInOrder DEF RxGap
<1>6. CASE SlaveTxDone
  BY <1>1, <1>6, ClearedInOrder DEF SlaveTxDone, modbus_clear_request
<1>7. CASE NothingToDo
  BY <1>1, <1>7, KeptInOrder DEF NothingToDo, ModbusUnchanged
<1>8. QED
  BY <1>2, <1>3, <1>4, <1>5, <1>6, <1>7 DEF Tick

------------------------------------------------------------------------------
(* The callbacks.                                                          *)

\* What the handlers do, and for which requests.
LEMMA CallbackCases ==
  ASSUME NEW sendable \in BOOLEAN, SlaveCallback(sendable),
         rx_frame.count \in Nat
  PROVE  /\ Processing /\ request.cb_invoke
         /\ \/ /\ Broadcast /\ modbus_clear_request
               /\ UNCHANGED <<counters, tx_done, txirq, fifo, direction, host,
                              offered>>
            \/ InvalidData /\ \E invoke \in BOOLEAN : CallbackException(invoke)
            \/ /\ OfferInOnePacket /\ Packets(rx_frame) = 1
               /\ rx_frame.fc \in Reads \cup MultipleWrites => ~InvalidData
            \/ /\ rx_frame.fc \in MultipleWrites /\ rx_frame.count > 1
               /\ send_stream_chunks(StreamOf(rx_frame), sendable)
            \/ CallbackRefused
<1> USE DEF CallbackDue, Processing
<1>1. CASE \E fc \in Reads : ReadCallback(fc, sendable)
  <2>1. PICK fc \in Reads : ReadCallback(fc, sendable)
    BY <1>1
  <2>2. rx_frame.fc \in Reads /\ Packets(rx_frame) = 1
    BY <2>1 DEF ReadCallback, Packets, Reads, MultipleWrites
  <2>3. QED
    BY <2>1, <2>2 DEF ReadCallback
<1>2. CASE \E fc \in MultipleWrites : WriteMultipleCallback(fc, sendable)
  <2>1. PICK fc \in MultipleWrites : WriteMultipleCallback(fc, sendable)
    BY <1>2
  <2>2. rx_frame.fc \in MultipleWrites /\ Packets(rx_frame) = rx_frame.count
    BY <2>1 DEF WriteMultipleCallback, Packets
  <2>3. ~InvalidData /\ ~(rx_frame.count > 1) => Packets(rx_frame) = 1
    BY <2>2 DEF InvalidData
  <2>4. QED
    BY <2>1, <2>2, <2>3 DEF WriteMultipleCallback
<1>3. CASE \/ handle_modbus_slave_write_single_coil_request_callback(sendable)
           \/ handle_modbus_slave_write_single_register_request_callback(sendable)
  <2>1. rx_frame.fc \in SingleWrites /\ Packets(rx_frame) = 1
        /\ rx_frame.fc \notin Reads \cup MultipleWrites
    BY <1>3 DEF handle_modbus_slave_write_single_coil_request_callback,
       handle_modbus_slave_write_single_register_request_callback,
       Packets, SingleWrites, MultipleWrites, Reads
  <2>2. QED
    BY <1>3, <2>1 DEF handle_modbus_slave_write_single_coil_request_callback,
       handle_modbus_slave_write_single_register_request_callback
<1>4. \/ \E fc \in Reads : ReadCallback(fc, sendable)
      \/ \E fc \in MultipleWrites : WriteMultipleCallback(fc, sendable)
      \/ handle_modbus_slave_write_single_coil_request_callback(sendable)
      \/ handle_modbus_slave_write_single_register_request_callback(sendable)
  BY DEF SlaveCallback, Reads, MultipleWrites,
     handle_modbus_slave_read_coils_request_callback,
     handle_modbus_slave_read_holding_registers_request_callback,
     handle_modbus_slave_read_discrete_inputs_request_callback,
     handle_modbus_slave_read_input_registers_request_callback,
     handle_modbus_slave_write_multiple_coils_request_low_level_callback,
     handle_modbus_slave_write_multiple_registers_request_low_level_callback
<1>5. QED
  BY <1>1, <1>2, <1>3, <1>4

\* The stream that is in progress, or a new one, is at the next packet.
LEMMA StreamAtNextPacket ==
  ASSUME Typed, ServiceInv, Processing, request.cb_invoke,
         rx_frame.fc \in MultipleWrites, rx_frame.count \in Nat,
         rx_frame.count > 1
  PROVE  LET s == StreamOf(rx_frame)
         IN  /\ s \in ChunkType /\ s.in_progress
             /\ s.total = rx_frame.count /\ s.current = PacketsSent
             /\ s.current < s.total
<1>1. chunk \in ChunkType
  BY DEF Typed, TypeOK, EngineTypeOK
<1>2. QED
  BY <1>1 DEF StreamOf, ChunkType, ServiceInv, OfferInOrder

LEMMA CallbackInOrder ==
  ASSUME Typed, IdsAdvanced, ServiceInv,
         NEW sendable \in BOOLEAN, InvokeCallback(sendable)
  PROVE  ServiceInv'
<1>1. /\ SlaveCallback(sendable)
      /\ pc = "callbacks" /\ pc' = "messages" /\ MainMayRun
  BY DEF InvokeCallback
<1>2. Processing /\ request.cb_invoke
  BY <1>1, CallbackEffect DEF Processing
<1>3. /\ HoldsFrame /\ rx_frame \in Frame /\ rx # <<>>
      /\ rx_frame.count \in Nat /\ request \in RequestType
  BY <1>2, FrameOfRequest DEF Typed, TypeOK, EngineTypeOK
<1>4. wire = "idle" /\ ~tx_done /\ rx_frame.addr # "other"
  <2>1. wire # "rx" /\ rx_frame.addr # "other"
    BY <1>2 DEF ServiceInv, RequestInOrder, Processing
  <2>2. wire # "tx"
    BY <1>1, <1>2 DEF ServiceInv, ExceptionBeforeCallbacks
  <2>3. QED
    BY <2>1, <2>2
       DEF ServiceInv, TransmissionInOrder, Typed, TypeOK, EngineTypeOK,
           WireStates
<1>5. CASE /\ modbus_clear_request
           /\ UNCHANGED <<counters, tx_done, txirq, fifo, direction, host, offered>>
  BY <1>4, <1>5, ClearedInOrder
     DEF modbus_clear_request, OldTickets, Typed, TypeOK, TxTypeOK
<1>6. CASE InvalidData /\ \E invoke \in BOOLEAN : CallbackException(invoke)
  <2>1. PICK invoke \in BOOLEAN : CallbackException(invoke)
    BY <1>6
  <2>2. request'.state = request.state /\ request'.cb_invoke = invoke
        /\ UNCHANGED <<chunk, rx, epoch, offered, host>>
    BY <1>3, <2>1 DEF CallbackException, RequestType
  <2>3. ~chunk.in_progress
    BY <1>2, <1>6 DEF ServiceInv, OfferInOrder, InvalidData, Typed, TypeOK,
       EngineTypeOK, ChunkType
  <2>4. \A t \in host' : t.epoch # epoch
    BY <1>2, <2>2 DEF ServiceInv, TicketsInOrder
  <2>5. QED
    BY <1>1, <1>2, <1>3, <1>4, <1>6, <2>1, <2>2, <2>3, <2>4, ExceptionInOrder
       DEF CallbackException
<1>7. CASE /\ OfferInOnePacket /\ Packets(rx_frame) = 1
           /\ rx_frame.fc \in Reads \cup MultipleWrites => ~InvalidData
  <2>1. request'.state = request.state /\ ~request'.cb_invoke
    BY <1>3, <1>7 DEF OfferInOnePacket, RequestType
  <2>2. ~chunk.in_progress
    BY <1>2, <1>7 DEF ServiceInv, OfferInOrder, Packets
  <2>3. PacketsSent + 1 = Packets(rx_frame)
    BY <1>2, <1>7, <2>2 DEF ServiceInv, OfferInOrder
  <2>4. QED
    BY <1>2, <1>4, <1>7, <2>1, <2>2, <2>3, LastPacketInOrder
       DEF OfferInOnePacket, InvalidData
<1>8. CASE /\ rx_frame.fc \in MultipleWrites /\ rx_frame.count > 1
           /\ send_stream_chunks(StreamOf(rx_frame), sendable)
  <2> DEFINE s == StreamOf(rx_frame)
  <2>1. /\ s \in ChunkType /\ s.in_progress /\ s.total = rx_frame.count
        /\ s.current = PacketsSent /\ s.current < s.total
    BY <1>2, <1>3, <1>8, StreamAtNextPacket
  <2>2. s.current \in Nat /\ s.total \in Nat
    BY <2>1 DEF ChunkType
  <2>3. send_stream_chunks(s, sendable)
    BY <1>8
  <2>4. PacketsSent \in Nat /\ epoch \in Nat /\ offered.epoch <= epoch
    BY PacketsSentTyped DEF ServiceInv, OfferInOrder
  <2> HIDE DEF s
  <2>5. CASE ~sendable
    <3>1. chunk' = s /\ UNCHANGED <<request, wire, host, offered, epoch, rx,
                                    txpath, PacketsSent>>
      BY <2>3, <2>5 DEF send_stream_chunks, PacketsSent
    <3>2. QED
      BY <1>2, <1>4, <1>8, <2>1, <2>4, <3>1, StreamInOrder
  <2>6. CASE sendable /\ s.current = s.total - 1
    <3>1. /\ Offer(TRUE) /\ chunk' = NoChunking /\ wire' = "idle"
          /\ request'.state = request.state /\ ~request'.cb_invoke
          /\ UNCHANGED <<epoch, rx, txpath>>
      BY <1>3, <2>3, <2>6 DEF send_stream_chunks, RequestType
    <3>2. PacketsSent + 1 = Packets(rx_frame)
      BY <1>8, <2>1, <2>2, <2>6 DEF Packets
    <3>3. ~chunk'.in_progress
      BY <3>1 DEF NoChunking
    <3>4. rx_frame.count # 0
      BY <1>8
    <3>5. UNCHANGED wire
      BY <1>4, <3>1
    <3>6. QED
      BY <1>2, <1>4, <3>1, <3>2, <3>3, <3>4, <3>5, LastPacketInOrder
  <2>7. CASE sendable /\ s.current # s.total - 1
    <3>1. /\ Offer(FALSE) /\ chunk' = [s EXCEPT !.current = @ + 1]
          /\ UNCHANGED <<request, wire, epoch, rx, txpath>>
      BY <2>3, <2>7 DEF send_stream_chunks
    <3>2. /\ offered' = [epoch |-> epoch, packets |-> PacketsSent + 1]
          /\ UNCHANGED host
      BY <3>1 DEF Offer
    <3>3. PacketsSent' = PacketsSent + 1 /\ offered'.epoch = epoch
      BY <3>1, <3>2 DEF PacketsSent
    <3>4. /\ chunk'.current = s.current + 1 /\ chunk'.total = s.total
          /\ chunk'.in_progress = s.in_progress
      BY <2>1, <3>1 DEF ChunkType
    <3>5. chunk'.current < chunk'.total /\ offered'.epoch <= epoch
      BY <2>1, <2>2, <2>4, <2>7, <3>3, <3>4
    <3>6. QED
      BY <1>2, <1>4, <1>8, <2>1, <3>1, <3>2, <3>3, <3>4, <3>5, StreamInOrder
  <2>8. QED
    BY <2>5, <2>6, <2>7
<1>9. CASE CallbackRefused
  BY <1>1, <1>4, <1>9, KeptInOrder DEF CallbackRefused, ModbusUnchanged
<1>10. QED
  BY <1>1, <1>3, <1>5, <1>6, <1>7, <1>8, <1>9, CallbackCases

------------------------------------------------------------------------------
(* The calls of the host.                                                  *)

\* An answer that is owed to the current request is accepted.
LEMMA CurrentIsAccepted ==
  ASSUME Typed, IdsAdvanced, ServiceInv, NEW t \in host, t.epoch = epoch
  PROVE  /\ modbus_slave_check_current_request(t.id) /\ t.frame = rx_frame
         /\ Processing /\ ~request.cb_invoke /\ wire = "idle"
<1>1. Processing /\ ~request.cb_invoke /\ wire = "idle"
  BY DEF ServiceInv, TicketsInOrder
<1>2. epoch - t.epoch = 0 /\ 0 < IdMax
  BY PacketsSentTyped, RTUAssumption
<1>3. Advanced(t.id, 0, request.id)
  BY <1>2 DEF IdsAdvanced
<1>4. QED
  BY <1>1, <1>3
     DEF IdsAdvanced, Advanced, modbus_slave_check_current_request, Processing

\* Called for the current request.
Accepted(t) ==
  /\ t.epoch = epoch /\ t.frame = rx_frame
  /\ Processing /\ ~request.cb_invoke /\ wire = "idle"

\* What a call of the host does, and to which request: it reaches the current
\* one only with the answer that is owed to it.
LEMMA HostAnswerCases ==
  ASSUME Typed, IdsAdvanced, ServiceInv, NEW t \in host, HostHolds(t),
         HostAnswer(t)
  PROVE  \/ ModbusUnchanged /\ \A u \in host' : u.epoch = epoch => u \in host
         \/ /\ Accepted(t) /\ EndBroadcast
         \/ /\ Accepted(t) /\ ~Broadcast /\ modbus_report_exception
            /\ UNCHANGED <<rx_rb_last_length, request, chunk, counters, rx, epoch>>
            /\ host' = host \ {t}
         \/ /\ Accepted(t) /\ ~Broadcast /\ rx_frame.fc \notin Reads
            /\ StoreAndStartTx(Answer(rx_frame, 1))
            /\ host' = host \ {t}
         \/ /\ Accepted(t) /\ ~Broadcast /\ rx_frame.fc \in Reads
            /\ StoreAnswerChunk(rx_frame, t.next, rx_frame.count)
            /\ host' = IF t.next = rx_frame.count THEN host \ {t}
                       ELSE (host \ {t}) \cup {[t EXCEPT !.next = @ + 1]}
<1>1. t \in TicketType
  BY DEF Typed, TypeOK
<1>2. modbus_slave_check_current_request(t.id) => Accepted(t)
  BY AcceptedIsCurrent, CurrentIsAccepted DEF Accepted
<1>3. ~modbus_slave_check_current_request(t.id) \/ rx_frame.fc # t.frame.fc
        => t.epoch # epoch
  BY CurrentIsAccepted
<1>4. CASE modbus_slave_report_exception(t)
  BY <1>2, <1>4 DEF modbus_slave_report_exception
<1>5. CASE \E fc \in SingleWrites \cup MultipleWrites : AnswerWrite(fc, t)
  <2>1. PICK fc \in SingleWrites \cup MultipleWrites : AnswerWrite(fc, t)
    BY <1>5
  <2>2. fc \notin Reads
    BY <2>1 DEF Reads, SingleWrites, MultipleWrites
  <2>3. QED
    BY <1>2, <2>1, <2>2 DEF AnswerWrite
<1>6. CASE \E total, fc : fc \in Reads /\ AnswerRead(fc, t, total)
  <2>1. PICK total, fc : fc \in Reads /\ AnswerRead(fc, t, total)
    BY <1>6
  <2> DEFINE n == [t EXCEPT !.next = @ + 1]
  <2>2. n.epoch = t.epoch
    BY <1>1 DEF TicketType
  <2> HIDE DEF n
  <2>3. host' = IF total # t.frame.count THEN host
                ELSE IF t.next = total THEN host \ {t}
                ELSE (host \ {t}) \cup {n}
    BY <2>1 DEF AnswerRead, n
  <2>4. CASE ~(modbus_slave_check_current_request(t.id) /\ rx_frame.fc = fc)
    BY <1>3, <2>1, <2>2, <2>3, <2>4 DEF AnswerRead
  <2>5. CASE modbus_slave_check_current_request(t.id) /\ rx_frame.fc = fc
    <3>1. Accepted(t) /\ t.frame = rx_frame /\ rx_frame.fc \in Reads
      BY <1>2, <2>1, <2>5 DEF Accepted
    <3>2. \/ EndBroadcast
          \/ total # rx_frame.count /\ ModbusUnchanged
          \/ ~Broadcast /\ total = rx_frame.count
             /\ StoreAnswerChunk(rx_frame, t.next, total)
      BY <2>1, <2>5, <3>1 DEF AnswerRead
    <3>3. QED
      BY <2>3, <3>1, <3>2 DEF n
  <2>6. QED
    BY <2>4, <2>5
<1>7. \/ modbus_slave_report_exception(t)
      \/ \E fc \in SingleWrites \cup MultipleWrites : AnswerWrite(fc, t)
      \/ \E total, fc : fc \in Reads /\ AnswerRead(fc, t, total)
  BY DEF HostAnswer, Reads, SingleWrites, MultipleWrites,
     modbus_slave_answer_write_single_coil_request,
     modbus_slave_answer_write_single_register_request,
     modbus_slave_answer_write_multiple_coils_request,
     modbus_slave_answer_write_multiple_registers_request,
     modbus_slave_answer_read_coils_request_low_level,
     modbus_slave_answer_read_holding_registers_request_low_level,
     modbus_slave_answer_read_discrete_inputs_request_low_level,
     modbus_slave_answer_read_input_registers_request_low_level
<1>8. QED
  BY <1>4, <1>5, <1>6, <1>7

\* Where the answer to the current request stands.
LEMMA AcceptedTicket ==
  ASSUME Typed, IdsAdvanced, ServiceInv, NEW t \in host, Accepted(t)
  PROVE  /\ HoldsFrame /\ rx # <<>> /\ rx_frame.addr # "other"
         /\ rx_frame.count \in Nat /\ Chunks(rx_frame) \in Nat
         /\ ~tx_done /\ ~chunk.in_progress
         /\ t.next \in 1..Chunks(rx_frame)
         /\ tx = AnswerSoFar(rx_frame, t.next - 1)
         /\ \A u \in host : u.epoch = epoch => u = t
<1>1. Processing /\ ~request.cb_invoke /\ wire = "idle" /\ t.epoch = epoch
      /\ t.frame = rx_frame
  BY DEF Accepted
<1>2. ~tx_done /\ ~chunk.in_progress /\ rx_frame.addr # "other"
  BY <1>1 DEF ServiceInv, TransmissionInOrder, OfferInOrder, RequestInOrder,
     Typed, TypeOK, TxTypeOK, EngineTypeOK, ChunkType
<1>3. QED
  BY <1>1, <1>2, FrameOfRequest DEF ServiceInv, TicketsInOrder

LEMMA HandleMessageInOrder ==
  ASSUME Typed, IdsAdvanced, ServiceInv, HandleMessage
  PROVE  ServiceInv'
<1>1. /\ pc = "messages" /\ UNCHANGED <<pc, offered>>
  BY DEF HandleMessage, HostMessage
<1>2. PICK t \in host : HostHolds(t) /\ HostAnswer(t)
  BY DEF HandleMessage
<1>3. t \in TicketType
  BY DEF Typed, TypeOK
<1>4. OldTickets
  <2> DEFINE n == [t EXCEPT !.next = @ + 1]
  <2>1. n.id = t.id /\ n.epoch = t.epoch /\ n.frame = t.frame
    BY <1>3 DEF TicketType
  <2>2. host' \subseteq host \cup {n}
    BY <1>2, HostAnswerTicket
  <2> HIDE DEF n
  <2>3. QED
    BY <1>2, <2>1, <2>2 DEF OldTickets
<1>5. CASE ModbusUnchanged /\ \A u \in host' : u.epoch = epoch => u \in host
  BY <1>1, <1>5, KeptInOrder DEF ModbusUnchanged
<1>6. CASE Accepted(t) /\ EndBroadcast
  <2>1. ~tx_done' /\ wire # "tx"
    BY <1>6, AcceptedTicket DEF EndBroadcast, Accepted
  <2>2. tx_done' = FALSE
    BY <1>6, <2>1 DEF EndBroadcast, Typed, TypeOK, TxTypeOK
  <2>3. QED
    BY <1>1, <1>4, <1>6, <2>1, <2>2, ClearedInOrder
       DEF EndBroadcast, modbus_clear_request
<1>7. CASE /\ Accepted(t) /\ ~Broadcast /\ modbus_report_exception
           /\ UNCHANGED <<rx_rb_last_length, request, chunk, counters, rx, epoch>>
           /\ host' = host \ {t}
  <2>1. \A u \in host' : u.epoch # epoch
    BY <1>7, AcceptedTicket
  <2>2. QED
    BY <1>1, <1>7, <2>1, AcceptedTicket, ExceptionInOrder DEF Accepted
<1>8. CASE /\ Accepted(t) /\ host' = host \ {t}
           /\ StoreAndStartTx(Answer(rx_frame, Chunks(rx_frame)))
           /\ t.next = 1
  <2>1. \A u \in host' : u.epoch # epoch
    BY <1>8, AcceptedTicket
  <2>2. tx = <<>>
    BY <1>8, AcceptedTicket DEF AnswerSoFar
  <2>3. tx' = Answer(rx_frame, Chunks(rx_frame))
    BY <1>8, <2>2, AcceptedTicket DEF StoreAndStartTx, Answer
  <2>4. QED
    BY <1>1, <1>8, <2>1, <2>3, AnswerInOrder DEF StoreAndStartTx, Accepted
<1>9. CASE /\ Accepted(t) /\ ~Broadcast /\ rx_frame.fc \notin Reads
           /\ StoreAndStartTx(Answer(rx_frame, 1))
           /\ host' = host \ {t}
  <2>1. Chunks(rx_frame) = 1 /\ t.next = 1
    BY <1>9, AcceptedTicket DEF Chunks
  <2>2. QED
    BY <1>8, <1>9, <2>1
<1>10. CASE /\ Accepted(t) /\ ~Broadcast /\ rx_frame.fc \in Reads
            /\ StoreAnswerChunk(rx_frame, t.next, rx_frame.count)
            /\ host' = IF t.next = rx_frame.count THEN host \ {t}
                       ELSE (host \ {t}) \cup {[t EXCEPT !.next = @ + 1]}
  <2>1. /\ Chunks(rx_frame) = rx_frame.count /\ rx_frame.count \in Nat
        /\ t.next \in 1..rx_frame.count
        /\ tx = AnswerSoFar(rx_frame, t.next - 1)
        /\ wire = "idle"
    BY <1>10, AcceptedTicket DEF Chunks, Accepted
  <2>2. tx' = tx \o AnswerChunk(rx_frame, t.next, rx_frame.count)
    BY <1>10 DEF StoreAnswerChunk, StoreAndStartTx
  <2>3. tx' = IF t.next = rx_frame.count THEN Answer(rx_frame, rx_frame.count)
              ELSE AnswerSoFar(rx_frame, t.next)
    BY <2>1, <2>2, AnswerGrows
  <2>4. CASE t.next = rx_frame.count
    <3>1. \A u \in host' : u.epoch # epoch
      BY <1>10, <2>4, AcceptedTicket
    <3>2. /\ modbus_start_tx_from_buffer
          /\ UNCHANGED <<request, chunk, rx, epoch, tx_done, tx_start, fifo,
                         direction>>
      BY <1>10, <2>1, <2>4 DEF StoreAnswerChunk, StoreAndStartTx
    <3>3. tx' = Answer(rx_frame, Chunks(rx_frame))
      BY <2>1, <2>3, <2>4
    <3>4. QED
      BY <1>1, <1>10, <3>1, <3>2, <3>3, AnswerInOrder DEF Accepted
  <2>5. CASE t.next # rx_frame.count
    <3> DEFINE n == [t EXCEPT !.next = @ + 1]
    <3>1. n.next = t.next + 1 /\ n.frame = rx_frame
      BY <1>3, <1>10 DEF TicketType, Accepted
    <3>2. host' = (host \ {t}) \cup {n}
      BY <1>10, <2>5
    <3> HIDE DEF n
    <3>3. \A u \in host' : u.epoch = epoch => u = n
      BY <1>10, <3>2, AcceptedTicket
    <3>4. UNCHANGED <<wire, request, chunk, rx, epoch, tx_done, tx_start, txirq,
                      fifo, direction>>
      BY <1>10, <2>5 DEF StoreAnswerChunk
    <3>5. tx' = AnswerSoFar(rx_frame, t.next) /\ t.next < Chunks(rx_frame)
          /\ t.next \in 1..Chunks(rx_frame)
      BY <2>1, <2>3, <2>5
    <3>6. QED
      BY <1>1, <1>10, <3>1, <3>3, <3>4, <3>5, ChunkInOrder DEF Accepted
  <2>6. QED
    BY <2>4, <2>5
<1>11. QED
  BY <1>2, <1>5, <1>6, <1>7, <1>9, <1>10, HostAnswerCases

------------------------------------------------------------------------------
(* The invariant, and what follows from it.                                *)

LEMMA InitiallyInOrder ==
  ASSUME Init
  PROVE  IdsAdvanced /\ ServiceInv
<1>1. /\ wire = "idle" /\ tx_done = FALSE /\ tx_start = 0 /\ txirq = "off"
      /\ tx = <<>> /\ rx = <<>> /\ fifo = 0 /\ direction = "rx" /\ epoch = 0
      /\ request.state = "ready" /\ ~request.cb_invoke /\ ~chunk.in_progress
      /\ host = {} /\ offered.epoch = 0
  BY DEF Init, RTUInit, modbus_init, ReadyRequest, NoChunking
<1>2. QED
  BY <1>1 DEF IdsAdvanced, ServiceInv, RequestInOrder, TransmissionInOrder,
     HalfDuplex, ExceptionBeforeCallbacks, OfferInOrder, TicketsInOrder,
     Processing, NeverDeaf

LEMMA StepInOrder ==
  ASSUME ~FullDuplex, Typed, IdsAdvanced, ServiceInv, [Next]_vars
  PROVE  ServiceInv'
<1>1. CASE Tick
  BY <1>1, TickInOrder
<1>2. CASE \E sendable \in BOOLEAN : InvokeCallback(sendable)
  BY <1>2, CallbackInOrder
<1>3. CASE HandleMessage
  BY <1>3, HandleMessageInOrder
<1>4. CASE SkipCallbacks \/ EndOfLoop \/ QuietBus \/ UNCHANGED vars
  <2>1. /\ UNCHANGED <<wire, request, chunk, rx, epoch, txpath, offered>>
        /\ UNCHANGED host
        /\ pc' = pc \/ (MainMayRun /\ pc' # "callbacks")
    <3>1. CASE SkipCallbacks
      BY <3>1 DEF SkipCallbacks, CallbackRefused, ModbusUnchanged
    <3>2. CASE EndOfLoop
      BY <3>2 DEF EndOfLoop, HostMessage, ModbusUnchanged, slave_vars
    <3>3. CASE QuietBus
      BY <3>3 DEF QuietBus, Silence, slave_vars
    <3>4. CASE UNCHANGED vars
      BY <3>4 DEF vars, rtu_vars, txpath, slave_vars
    <3>5. QED
      BY <1>4, <3>1, <3>2, <3>3, <3>4
  <2>2. QED
    BY <2>1, KeptInOrder
<1>5. CASE NextFrame
  BY <1>5, NextFrameBytes, BusByteInOrder DEF NextFrame
<1>6. CASE NextByte
  BY <1>6, BusByteInOrder DEF NextByte, slave_vars, Typed, TypeOK, RxTypeOK
<1>7. CASE TxInterrupt
  BY <1>7, TxInterruptInOrder
<1>8. CASE TffInterrupt
  BY <1>8, TffInterruptInOrder
<1>9. QED
  BY <1>1, <1>2, <1>3, <1>4, <1>5, <1>6, <1>7, <1>8 DEF Next, MainLoop

\* In half duplex every step keeps the request, its packets, the tickets of
\* the host and the transmit path in order.
THEOREM SlaveInOrder ==
  ASSUME ~FullDuplex
  PROVE  Spec => []SlaveInv
<1>1. Init => SlaveInv
  BY InitiallyTyped, InitiallyInOrder DEF SlaveInv
<1>2. SlaveInv /\ [Next]_vars => SlaveInv'
  BY StepTyped, StepIds, StepInOrder DEF SlaveInv
<1>3. QED
  BY <1>1, <1>2, PTL DEF Spec

\* In half duplex the slave has in its TX ring, while it transmits, exactly
\* one whole response to the undamaged frame at the start of the RX buffer.
THEOREM ResponseToRequest ==
  ASSUME ~FullDuplex
  PROVE  Spec => []ResponseMatchesRequest
<1>1. SlaveInv => ResponseMatchesRequest
  <2>1. SUFFICES ASSUME SlaveInv, wire = "tx"
                 PROVE  ResponseMatchesRequest
    BY DEF ResponseMatchesRequest
  <2>2. HoldsFrame /\ rx \in Seq(Byte)
    BY <2>1 DEF SlaveInv, Typed, FrameHeld, TypeOK, RxTypeOK
  <2>3. QED
    BY <2>1, <2>2, ChecksumOfHeldFrame DEF ResponseMatchesRequest, SlaveInv,
       ServiceInv, RequestInOrder, TransmissionInOrder
<1>2. QED
  BY <1>1, SlaveInOrder, PTL

\* In half duplex the host is offered a request once and as a whole.
THEOREM OfferedOnce ==
  ASSUME ~FullDuplex
  PROVE  Spec => []OfferedOnceAndWhole
<1>1. SlaveInv => OfferedOnceAndWhole
  <2>1. SUFFICES ASSUME SlaveInv, Processing
                 PROVE  OfferedOnceAndWhole
    BY DEF OfferedOnceAndWhole, Processing
  <2>2. /\ rx_frame.count \in Nat /\ PacketsSent \in Nat
        /\ chunk.current \in Nat /\ OfferInOrder
    BY <2>1, FrameOfRequest, PacketsSentTyped DEF SlaveInv, ServiceInv, Typed,
       TypeOK, EngineTypeOK, ChunkType
  <2>3. ASSUME request.cb_invoke, ~InvalidData
        PROVE  PacketsSent < Packets(rx_frame)
    <3>1. CASE chunk.in_progress
      BY <2>1, <2>2, <2>3, <3>1 DEF OfferInOrder, Packets
    <3>2. CASE ~chunk.in_progress
      BY <2>1, <2>2, <2>3, <3>2 DEF OfferInOrder, Packets, InvalidData
    <3>3. QED
      BY <3>1, <3>2
  <2>4. QED
    BY <2>1, <2>2, <2>3 DEF OfferedOnceAndWhole, OfferInOrder
<1>2. QED
  BY <1>1, SlaveInOrder, PTL

\* In half duplex no callback is due for a request that is being responded to
\* when the callbacks get their turn, so that none restarts the response.
THEOREM ResponseNotRestarted ==
  ASSUME ~FullDuplex
  PROVE  Spec => []NoCallbackDuringResponse
<1>1. SlaveInv => NoCallbackDuringResponse
  BY DEF NoCallbackDuringResponse, MainMayRun, SlaveInv, ServiceInv,
     RequestInOrder, ExceptionBeforeCallbacks, Processing, Typed, TypeOK,
     EngineTypeOK, WireStates
<1>2. QED
  BY <1>1, SlaveInOrder, PTL

\* In half duplex the end of one transmission is not taken for that of another.
THEOREM TxDoneBelongsToResponse ==
  ASSUME ~FullDuplex
  PROVE  Spec => []NoLeftoverTxDone
<1>1. SlaveInv => NoLeftoverTxDone
  BY DEF NoLeftoverTxDone, SlaveInv, ServiceInv, TransmissionInOrder
<1>2. QED
  BY <1>1, SlaveInOrder, PTL

\* In half duplex the slave never stays in transmit direction.
THEOREM SlaveListensAgain ==
  ASSUME ~FullDuplex
  PROVE  Spec => []NeverDeaf
<1>1. SlaveInv => NeverDeaf
  BY DEF SlaveInv, ServiceInv, TransmissionInOrder
<1>2. QED
  BY <1>1, SlaveInOrder, PTL

\* In half duplex a request is not cleared, and the TX ring with it, before
\* the TX interrupt has taken the last byte of its response.
THEOREM ResponseSentWhole ==
  ASSUME ~FullDuplex
  PROVE  Spec => ResponseNotCutOff
<1>1. ASSUME SlaveInv, [Next]_vars, wire = "tx", wire' # "tx"
      PROVE  tx_start = Len(tx)
  <2>1. CASE Tick
    BY <1>1, <2>1 DEF Tick, SlaveRequestTimeout, RequestSuperseded,
       SlaveNewData, NewData, SlaveFrame, FrameAvailable, RxGap, SlaveTxDone,
       NothingToDo, ModbusUnchanged, SlaveInv, ServiceInv, TransmissionInOrder
  <2>2. ASSUME NEW sendable \in BOOLEAN, InvokeCallback(sendable)
        PROVE  FALSE
    <3>1. Processing /\ request.cb_invoke /\ pc = "callbacks"
      BY <2>2, CallbackEffect DEF InvokeCallback, Processing
    <3>2. QED
      BY <1>1, <2>2, <3>1
         DEF InvokeCallback, SlaveInv, ServiceInv, ExceptionBeforeCallbacks
  <2>3. CASE HandleMessage
    <3>1. PICK t \in host : HostHolds(t) /\ HostAnswer(t)
      BY <2>3 DEF HandleMessage
    <3>2. ModbusUnchanged \/ Accepted(t)
      BY <1>1, <3>1, HostAnswerCases DEF SlaveInv
    <3>3. QED
      BY <1>1, <3>2 DEF ModbusUnchanged, Accepted
  <2>4. CASE \/ SkipCallbacks \/ EndOfLoop \/ NextFrame \/ NextByte
             \/ QuietBus \/ TxInterrupt \/ TffInterrupt \/ UNCHANGED vars
    BY <1>1, <2>4 DEF SkipCallbacks, CallbackRefused, ModbusUnchanged,
       EndOfLoop, NextFrame, NextByte, BusByte, QuietBus, Silence, TxInterrupt,
       rs485_tx_irq_handler, TffInterrupt, rs485_tff_irq_handler, rtu_vars, vars
  <2>5. QED
    BY <1>1, <2>1, <2>2, <2>3, <2>4 DEF Next, MainLoop
<1>2. SlaveInv /\ [Next]_vars
        => [wire = "tx" /\ wire' # "tx" => tx_start = Len(tx)]_vars
  BY <1>1
<1>3. QED
  BY <1>2, SlaveInOrder, PTL DEF Spec, ResponseNotCutOff

==============================================================================
