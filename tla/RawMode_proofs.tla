---------------------------- MODULE RawMode_proofs ----------------------------
(***************************************************************************)
(* Proofs about RawMode: every variable has its type, no byte is lost in   *)
(* silence, no packet holds bytes that were not there, streams run to      *)
(* their end and the receiver comes back on.                               *)
(***************************************************************************)
EXTENDS RawMode, TLAPS

------------------------------------------------------------------------------
(* The ring.                                                               *)

RingType == [start: 0..(RxSize - 1), end: 0..(RxSize - 1)]

\* The fill level of a ring, as Used has it for the RX ring.
Level(r) == (r.end - r.start + RxSize) % RxSize

\* Positions in a ring of N places that went once past its end wrap around.
LEMMA WrapAround ==
  ASSUME NEW N \in Nat \ {0}, NEW i \in 0..(N - 1)
  PROVE  i % N = i /\ (i + N) % N = i
  BY SMT

\* The fill level of a ring without the modulus; one place stays free.
LEMMA LevelValue ==
  ASSUME NEW r \in RingType
  PROVE  /\ Level(r) = IF r.start <= r.end THEN r.end - r.start
                       ELSE r.end - r.start + RxSize
         /\ Level(r) \in 0..(RxSize - 1)
<1>1. RxSize \in Nat \ {0} /\ r.start \in 0..(RxSize - 1)
      /\ r.end \in 0..(RxSize - 1)
  BY RawAssumption DEF RingType
<1>2. CASE r.start <= r.end
  <2>1. r.end - r.start \in 0..(RxSize - 1)
    BY <1>1, <1>2
  <2>2. Level(r) = r.end - r.start
    BY <1>1, <2>1, WrapAround DEF Level
  <2>3. QED
    BY <1>2, <2>1, <2>2
<1>3. CASE ~(r.start <= r.end)
  <2>1. r.end - r.start + RxSize \in 0..(RxSize - 1)
    BY <1>1, <1>3
  <2>2. Level(r) = r.end - r.start + RxSize
    BY <1>1, <2>1, WrapAround DEF Level
  <2>3. QED
    BY <1>3, <2>1, <2>2
<1>4. QED
  BY <1>2, <1>3

\* Moving a position of the ring on by less than its size.
LEMMA Advanced ==
  ASSUME NEW i \in 0..(RxSize - 1), NEW n \in 0..(RxSize - 1)
  PROVE  (i + n) % RxSize = IF i + n < RxSize THEN i + n ELSE i + n - RxSize
<1>1. RxSize \in Nat \ {0}
  BY RawAssumption
<1>2. CASE i + n < RxSize
  BY <1>1, <1>2, WrapAround
<1>3. CASE ~(i + n < RxSize)
  <2>1. i + n - RxSize \in 0..(RxSize - 1)
    BY <1>1, <1>3
  <2>2. ((i + n - RxSize) + RxSize) % RxSize = i + n - RxSize
    BY <1>1, <2>1, WrapAround
  <2>3. (i + n - RxSize) + RxSize = i + n
    BY <1>1
  <2>4. QED
    BY <1>3, <2>2, <2>3
<1>4. QED
  BY <1>2, <1>3

\* Adding n bytes that find room makes the fill level n larger.
LEMMA RingFilled ==
  ASSUME NEW r \in RingType, NEW n \in Nat, n <= RxSize - 1 - Level(r)
  PROVE  LET filled == [r EXCEPT !.end = (@ + n) % RxSize]
         IN  filled \in RingType /\ Level(filled) = Level(r) + n
<1> DEFINE filled == [r EXCEPT !.end = (@ + n) % RxSize]
<1>1. /\ RxSize \in Nat \ {0} /\ Level(r) \in 0..(RxSize - 1)
      /\ n \in 0..(RxSize - 1)
  BY LevelValue, RawAssumption
<1>2. r.end \in 0..(RxSize - 1) /\ r.start \in 0..(RxSize - 1)
  BY DEF RingType
<1>3. /\ filled.start = r.start
      /\ filled.end = (r.end + n) % RxSize
      /\ filled = [start |-> r.start, end |-> (r.end + n) % RxSize]
  BY DEF RingType
<1>4. filled.end = IF r.end + n < RxSize THEN r.end + n ELSE r.end + n - RxSize
  BY <1>1, <1>2, <1>3, Advanced
<1>5. filled.end \in 0..(RxSize - 1)
  BY <1>1, <1>2, <1>4
<1>6. filled \in RingType
  BY <1>2, <1>3, <1>5 DEF RingType
<1>7. Level(filled) = Level(r) + n
  <2>1. Level(r) = IF r.start <= r.end THEN r.end - r.start
                   ELSE r.end - r.start + RxSize
    BY LevelValue
  <2>2. Level(filled) = IF filled.start <= filled.end THEN filled.end - filled.start
                        ELSE filled.end - filled.start + RxSize
    BY <1>6, LevelValue
  <2> DEFINE s == r.start
             e == r.end
             f == filled.end
  <2>3. /\ RxSize \in Nat /\ s \in 0..(RxSize - 1) /\ e \in 0..(RxSize - 1)
        /\ f = (IF e + n < RxSize THEN e + n ELSE e + n - RxSize)
        /\ n <= RxSize - 1 - Level(r)
        /\ Level(r) = (IF s <= e THEN e - s ELSE e - s + RxSize)
        /\ Level(filled) = (IF s <= f THEN f - s ELSE f - s + RxSize)
    BY <2>1, <2>2, <1>1, <1>2, <1>3, <1>4
  <2> HIDE DEF filled, s, e, f
  <2>4. QED
    BY <2>3
<1>8. QED
  BY <1>6, <1>7

\* Taking n bytes that are there makes it n smaller.
LEMMA RingTaken ==
  ASSUME NEW r \in RingType, NEW n \in Nat, n <= Level(r)
  PROVE  LET taken == [r EXCEPT !.start = (@ + n) % RxSize]
         IN  taken \in RingType /\ Level(taken) = Level(r) - n
<1> DEFINE taken == [r EXCEPT !.start = (@ + n) % RxSize]
<1>1. /\ RxSize \in Nat \ {0} /\ Level(r) \in 0..(RxSize - 1)
      /\ n \in 0..(RxSize - 1)
  BY LevelValue, RawAssumption
<1>2. r.end \in 0..(RxSize - 1) /\ r.start \in 0..(RxSize - 1)
  BY DEF RingType
<1>3. /\ taken.end = r.end
      /\ taken.start = (r.start + n) % RxSize
      /\ taken = [start |-> (r.start + n) % RxSize, end |-> r.end]
  BY DEF RingType
<1>4. taken.start = IF r.start + n < RxSize THEN r.start + n
                    ELSE r.start + n - RxSize
  BY <1>1, <1>2, <1>3, Advanced
<1>5. taken.start \in 0..(RxSize - 1)
  BY <1>1, <1>2, <1>4
<1>6. taken \in RingType
  BY <1>2, <1>3, <1>5 DEF RingType
<1>7. Level(taken) = Level(r) - n
  <2>1. Level(r) = IF r.start <= r.end THEN r.end - r.start
                   ELSE r.end - r.start + RxSize
    BY LevelValue
  <2>2. Level(taken) = IF taken.start <= taken.end THEN taken.end - taken.start
                        ELSE taken.end - taken.start + RxSize
    BY <1>6, LevelValue
  <2> HIDE DEF taken
  <2>3. QED
    BY <2>1, <2>2, <1>1, <1>2, <1>3, <1>4, <1>5
<1>8. QED
  BY <1>6, <1>7

\* An erased ring is empty.
LEMMA RingErased ==
  LET erased == [start |-> 0, end |-> 0]
  IN  erased \in RingType /\ Level(erased) = 0
<1> DEFINE erased == [start |-> 0, end |-> 0]
<1>1. erased \in RingType
  BY RawAssumption DEF RingType
<1>2. QED
  BY <1>1, LevelValue

------------------------------------------------------------------------------
(* The inductive invariant, in three parts: what comes in and is read, what *)
(* is written and goes out, and what the host has configured.              *)

PacketType == [reader: {"none", "getter", "callback"}, offset: Nat,
               total: Nat, data: Nat, zeros: Nat, whole: BOOLEAN]

\* A stream in progress has bytes to go, and unless it was disturbed they are
\* all there when the ring holds that many.
StreamReady(s, level) ==
  s.in_progress => s.sent < s.total /\ (s.whole => s.total - s.sent <= level)

ReceiveInv ==
  /\ rx_fifo \in 0..RxFifoSize /\ rxa \in BOOLEAN
  /\ ring \in RingType /\ errors \in Counts
  /\ read \in StreamType /\ read_cb \in StreamType
  /\ handed \in PacketType
  /\ left \in Nat /\ came \in Nat
  /\ EveryByteAccounted
  /\ StreamReady(read, Used) /\ StreamReady(read_cb, Used)
  /\ NothingInvented

\* The TX interrupt that was triggered, or will be by the handler that has
\* added bytes, finds some in the ring or has just put some into the FIFO.
TransmitInv ==
  /\ pc \in {"tick", "callbacks", "messages", "adding", "stopping"}
  /\ tx \in 0..(TxSize - 1) /\ tx_fifo \in 0..TxFifoSize
  /\ txirq \in {"off", "pending", "armed"} /\ direction \in {"rx", "tx"}
  /\ adding \in [left: 0..ChunkSize, added: 0..ChunkSize]
  /\ adding.left + adding.added <= ChunkSize
  /\ txirq = "pending" => pc \notin {"adding", "stopping"}
  /\ txirq = "armed" \/ OvertakenTrigger => tx_fifo > 0
  /\ NeverDeaf

ConfigurationInv ==
  /\ plan \in ScenarioType
  /\ read_callback_enabled \in BOOLEAN
  /\ frame \in [size: Nat, already_sent: BOOLEAN, buffered: BOOLEAN]
  /\ error_cb \in [enabled: BOOLEAN, buffered: BOOLEAN, elapsed: BOOLEAN,
                   last: Counts]
  /\ told \in BOOLEAN /\ missed \in BOOLEAN /\ reported \in Counts

IInv == ReceiveInv /\ TransmitInv /\ ConfigurationInv

------------------------------------------------------------------------------
(* What comes in and is read.                                              *)

\* The RX FIFO is emptied into the ring, or counted, byte by byte.
LEMMA DrainKeeps ==
  ASSUME ReceiveInv, NEW parity \in {0, 1}, DrainRxFifo(parity),
         rxa' \in BOOLEAN, UNCHANGED <<stream_vars, bus_vars>>
  PROVE  ReceiveInv'
<1> DEFINE stored == Least(rx_fifo, Room)
<1>1. Used = Level(ring) /\ Used' = Level(ring')
  BY DEF Used, Level
<1>2. /\ Used \in 0..(RxSize - 1) /\ rx_fifo \in Nat /\ RxSize \in Nat
      /\ ring \in RingType
  BY <1>1, LevelValue, RawAssumption DEF ReceiveInv
<1>3. stored \in Nat /\ stored <= RxSize - 1 - Level(ring) /\ stored <= rx_fifo
  BY <1>1, <1>2 DEF Room, Least
<1>4. ring' \in RingType /\ Used' = Used + stored
  <2>1. ring' = [ring EXCEPT !.end = (@ + stored) % RxSize]
    BY DEF DrainRxFifo
  <2> HIDE DEF stored
  <2>2. QED
    BY <2>1, <1>1, <1>2, <1>3, RingFilled
<1>5. /\ errors' = [overrun |-> errors.overrun + rx_fifo - stored,
                    parity |-> errors.parity + parity]
      /\ rx_fifo' = 0
  BY DEF DrainRxFifo
<1> HIDE DEF stored
<1>6. rx_fifo' \in 0..RxFifoSize /\ errors' \in Counts
  BY <1>2, <1>3, <1>5, RawAssumption DEF ReceiveInv, Counts
<1>7. EveryByteAccounted'
  BY <1>2, <1>3, <1>4, <1>5
     DEF ReceiveInv, EveryByteAccounted, Counts, bus_vars
<1>8. ASSUME NEW s \in StreamType, StreamReady(s, Used)
      PROVE  StreamReady(s, Used')
  BY <1>2, <1>3, <1>4, <1>8 DEF StreamReady, StreamType
<1>9. QED
  BY <1>4, <1>6, <1>7, <1>8
     DEF ReceiveInv, stream_vars, bus_vars, NothingInvented

\* Nothing of the receive path changes but perhaps the pending error.
LEMMA ReceiveUnchanged ==
  ASSUME ReceiveInv, rxa' \in BOOLEAN,
         UNCHANGED <<rx_fifo, ring, errors, stream_vars, bus_vars>>
  PROVE  ReceiveInv'
<1>1. Used' = Used
  BY DEF Used
<1>2. QED
  BY <1>1 DEF ReceiveInv, stream_vars, bus_vars, EveryByteAccounted,
              NothingInvented

\* A byte from the bus is in the FIFO or lost with the receiver off.
LEMMA BusByteKeeps ==
  ASSUME ReceiveInv, BusByte
  PROVE  ReceiveInv'
<1>1. Used' = Used /\ UNCHANGED <<ring, errors, read, read_cb, handed>>
  BY DEF Used, BusByte, stream_vars
<1>2. Used \in Nat /\ RxFifoSize \in Nat
  BY LevelValue, RawAssumption DEF ReceiveInv, Used, Level
<1>3. CASE CanReceive /\ rx_fifo < RxFifoSize
  <2>1. /\ rx_fifo' = rx_fifo + 1 /\ left' = left /\ came' = came + 1
        /\ rxa' \in {rxa, TRUE}
    BY <1>3 DEF BusByte
  <2>2. rx_fifo' \in 0..RxFifoSize /\ came' \in Nat
    BY <1>2, <1>3, <2>1 DEF ReceiveInv
  <2>3. rxa' \in BOOLEAN
    BY <2>1, Zenon DEF ReceiveInv
  <2>4. EveryByteAccounted'
    BY <1>1, <1>2, <2>1 DEF ReceiveInv, EveryByteAccounted, Counts
  <2>5. QED
    BY <1>1, <2>1, <2>2, <2>3, <2>4 DEF ReceiveInv, NothingInvented
<1>4. CASE ~(CanReceive /\ rx_fifo < RxFifoSize)
  <2>1. /\ rx_fifo' = rx_fifo /\ left' = left + 1 /\ came' = came + 1
        /\ rxa' = rxa
    BY <1>4 DEF BusByte
  <2>2. QED
    BY <1>1, <1>2, <2>1
       DEF ReceiveInv, EveryByteAccounted, Counts, NothingInvented
<1>5. QED
  BY <1>3, <1>4

\* A disturbed stream keeps its place and is no longer whole.
LEMMA SpoiltStream ==
  ASSUME NEW s \in StreamType, NEW level \in Nat, NEW l \in Nat,
         StreamReady(s, level)
  PROVE  /\ Spoilt(s) \in StreamType /\ StreamReady(Spoilt(s), l)
         /\ Spoilt(s).in_progress = s.in_progress
         /\ Spoilt(s).in_progress => ~Spoilt(s).whole
<1>1. CASE s.in_progress
  BY <1>1 DEF Spoilt, StreamType, StreamReady
<1>2. CASE ~s.in_progress
  BY <1>2 DEF Spoilt, StreamType, StreamReady
<1>3. QED
  BY <1>1, <1>2

\* A packet takes its bytes out of the ring, and either more of its stream is
\* to come or, if nobody disturbed the stream, it has been completed.
LEMMA TakeChunkKeeps ==
  ASSUME ReceiveInv, NEW reader \in {"getter", "callback"},
         NEW s \in StreamType, s.in_progress, s.sent <= s.total,
         s.whole => s.total - s.sent <= Used,
         TakeChunk(reader, s), UNCHANGED <<rx_fifo, rxa, errors, came>>
  PROVE  /\ ReceiveInv'
         /\ s.whole => LET mine == IF reader = "getter" THEN read' ELSE read_cb'
                       IN  mine.in_progress \/ StreamCompleted
         /\ LET other == IF reader = "getter" THEN read_cb ELSE read
            IN  other.in_progress
                  => IF reader = "getter" THEN read_cb'.in_progress
                                          ELSE read'.in_progress
<1> DEFINE n == Least(ChunkSize, s.total - s.sent)
           taken == Least(n, Used)
<1>1. Used = Level(ring) /\ Used' = Level(ring')
  BY DEF Used, Level
<1>2. /\ Used \in Nat /\ ring \in RingType
      /\ ChunkSize \in Nat \ {0} /\ RxSize \in Nat
      /\ s.total \in Nat /\ s.sent \in Nat /\ s.whole \in BOOLEAN
  BY <1>1, LevelValue, RawAssumption DEF ReceiveInv, StreamType
<1>3. /\ n \in Nat /\ n <= s.total - s.sent
      /\ n = s.total - s.sent \/ n = ChunkSize
  BY <1>2 DEF Least
<1>4. /\ taken \in Nat /\ taken <= Used /\ taken <= n
      /\ n <= Used => taken = n
  BY <1>2, <1>3 DEF Least
<1>5. /\ ring' = [ring EXCEPT !.start = (@ + taken) % RxSize]
      /\ left' = left + taken
      /\ handed' = [reader |-> reader, offset |-> s.sent, total |-> s.total,
                    data |-> taken, zeros |-> n - taken, whole |-> s.whole]
      /\ IF reader = "getter"
         THEN /\ read' = StreamAfter(s, n)
              /\ read_cb' = IF taken > 0 THEN Spoilt(read_cb) ELSE read_cb
         ELSE /\ read_cb' = StreamAfter(s, n)
              /\ read' = IF taken > 0 THEN Spoilt(read) ELSE read
  BY DEF TakeChunk
<1> HIDE DEF n, taken
<1>6. ring' \in RingType /\ Used' = Used - taken
  BY <1>1, <1>2, <1>4, <1>5, RingTaken
<1>7. Used' \in Nat
  BY <1>2, <1>4, <1>6
<1>8. StreamAfter(s, n) \in StreamType /\ StreamReady(StreamAfter(s, n), Used')
  <2>1. CASE s.sent + n = s.total
    BY <2>1 DEF StreamAfter, NoStream, StreamType, StreamReady
  <2>2. CASE s.sent + n # s.total
    <3>1. StreamAfter(s, n) = [s EXCEPT !.sent = @ + n]
      BY <2>2 DEF StreamAfter
    <3>2. s.sent + n < s.total
      BY <1>2, <1>3, <2>2
    <3>3. s.whole => s.total - (s.sent + n) <= Used'
      BY <1>2, <1>3, <1>4, <1>6
    <3>4. QED
      BY <1>2, <1>3, <3>1, <3>2, <3>3 DEF StreamType, StreamReady
  <2>3. QED
    BY <2>1, <2>2
<1>9. ASSUME NEW o \in StreamType, StreamReady(o, Used)
      PROVE  LET o2 == IF taken > 0 THEN Spoilt(o) ELSE o
             IN  /\ o2 \in StreamType /\ StreamReady(o2, Used')
                 /\ o.in_progress => o2.in_progress
  <2>1. CASE taken > 0
    BY <1>2, <1>7, <1>9, <2>1, SpoiltStream
  <2>2. CASE ~(taken > 0)
    <3>1. Used' = Used
      BY <1>2, <1>4, <1>6, <2>2
    <3>2. QED
      BY <1>9, <2>2, <3>1
  <2>3. QED
    BY <2>1, <2>2
<1>10. /\ read' \in StreamType /\ read_cb' \in StreamType
       /\ StreamReady(read', Used') /\ StreamReady(read_cb', Used')
  BY <1>5, <1>8, <1>9 DEF ReceiveInv
<1>11. handed' \in PacketType /\ NothingInvented'
  <2>1. n - taken \in Nat /\ (s.whole => n - taken = 0)
    BY <1>2, <1>3, <1>4
  <2>2. QED
    BY <1>2, <1>4, <1>5, <2>1 DEF PacketType, NothingInvented
<1>12. EveryByteAccounted' /\ left' \in Nat
  BY <1>2, <1>4, <1>5, <1>6 DEF ReceiveInv, EveryByteAccounted, Counts
<1>13. ReceiveInv'
  BY <1>6, <1>10, <1>11, <1>12 DEF ReceiveInv
<1>14. s.whole => StreamAfter(s, n).in_progress \/ StreamCompleted
  <2>1. CASE s.sent + n = s.total
    BY <1>2, <1>3, <1>4, <1>5, <2>1 DEF StreamCompleted
  <2>2. CASE s.sent + n # s.total
    BY <2>2 DEF StreamAfter, StreamType
  <2>3. QED
    BY <2>1, <2>2
<1>15. QED
  BY <1>5, <1>9, <1>13, <1>14 DEF ReceiveInv

\* A stream that goes on, or a new one that is cut to what is there, is ready.
LEMMA StreamForReady ==
  ASSUME ReceiveInv, NEW s \in StreamType, StreamReady(s, Used),
         NEW wanted \in Nat
  PROVE  LET f == StreamFor(s, wanted)
         IN  /\ f \in StreamType /\ f.in_progress /\ f.sent <= f.total
             /\ f.whole => f.total - f.sent <= Used
             /\ s.in_progress => f = s
<1>1. Used \in Nat
  BY LevelValue, RawAssumption DEF ReceiveInv, Used, Level
<1>2. CASE s.in_progress
  BY <1>1, <1>2 DEF StreamFor, StreamReady, StreamType
<1>3. CASE ~s.in_progress
  <2>1. /\ NewTotal(wanted) \in Nat /\ NewTotal(wanted) <= Used
    BY <1>1 DEF NewTotal, Least
  <2>2. StreamFor(s, wanted) = [in_progress |-> TRUE, sent |-> 0,
                                total |-> NewTotal(wanted), whole |-> TRUE]
    BY <1>3 DEF StreamFor
  <2>3. QED
    BY <1>1, <1>3, <2>1, <2>2 DEF StreamType
<1>4. QED
  BY <1>2, <1>3

\* The handler of a packet, whether it is sent, fails or gives the stream up.
LEMMA ReadLowLevelKeeps ==
  ASSUME ReceiveInv, NEW length \in Nat, read_low_level(length),
         UNCHANGED <<rx_fifo, rxa, errors, came>>
  PROVE  /\ ReceiveInv'
         /\ read.in_progress /\ read.whole /\ ~read'.in_progress
              => StreamCompleted
         /\ read_cb.in_progress => read_cb'.in_progress
<1> DEFINE s == StreamFor(read, length)
<1>1. CASE read_callback_enabled
  <2>1. UNCHANGED <<rx_fifo, ring, errors, stream_vars, bus_vars>> /\ rxa' = rxa
    BY <1>1 DEF read_low_level, bus_vars
  <2>2. QED
    BY <2>1, ReceiveUnchanged DEF ReceiveInv, stream_vars
<1>2. CASE ~read_callback_enabled /\ Used = 0
  <2>1. /\ read' = NoStream
        /\ UNCHANGED <<ring, read_cb, handed, left>>
    BY <1>2 DEF read_low_level
  <2>2. Used' = Used
    BY <2>1 DEF Used
  <2>3. ~(read.in_progress /\ read.whole)
    BY <1>2 DEF ReceiveInv, StreamReady, StreamType
  <2>4. ReceiveInv'
    BY <2>1, <2>2 DEF ReceiveInv, EveryByteAccounted, NothingInvented,
                      NoStream, StreamType, StreamReady
  <2>5. QED
    BY <2>1, <2>3, <2>4
<1>3. CASE ~read_callback_enabled /\ Used # 0
  <2>1. TakeChunk("getter", s)
    BY <1>3 DEF read_low_level
  <2>2. /\ s \in StreamType /\ s.in_progress /\ s.sent <= s.total
        /\ s.whole => s.total - s.sent <= Used
        /\ read.in_progress => s = read
    BY StreamForReady DEF ReceiveInv
  <2> HIDE DEF s
  <2>3. /\ ReceiveInv'
        /\ s.whole => read'.in_progress \/ StreamCompleted
        /\ read_cb.in_progress => read_cb'.in_progress
    BY <2>1, <2>2, TakeChunkKeeps
  <2>4. QED
    BY <2>2, <2>3
<1>4. QED
  BY <1>1, <1>2, <1>3

LEMMA ReadCallbackKeeps ==
  ASSUME ReceiveInv, NEW sendable, handle_read_low_level_callback(sendable),
         UNCHANGED <<rx_fifo, rxa, errors, came>>
  PROVE  /\ ReceiveInv'
         /\ read_cb.in_progress /\ read_cb.whole /\ ~read_cb'.in_progress
              => StreamCompleted
         /\ read.in_progress => read'.in_progress
<1> DEFINE s == StreamFor(read_cb, Used)
<1>1. TakeChunk("callback", s)
  BY DEF handle_read_low_level_callback
<1>2. Used \in Nat
  BY LevelValue, RawAssumption DEF ReceiveInv, Used, Level
<1>3. /\ s \in StreamType /\ s.in_progress /\ s.sent <= s.total
      /\ s.whole => s.total - s.sent <= Used
      /\ read_cb.in_progress => s = read_cb
  BY <1>2, StreamForReady DEF ReceiveInv
<1> HIDE DEF s
<1>4. /\ ReceiveInv'
      /\ s.whole => read_cb'.in_progress \/ StreamCompleted
      /\ read.in_progress => read'.in_progress
  BY <1>1, <1>3, TakeChunkKeeps
<1>5. QED
  BY <1>3, <1>4

\* Erasing the rings spoils the streams; what was in the ring has left, and
\* with it what the FIFO loses.
LEMMA EraseKeeps ==
  ASSUME ReceiveInv, rs485_init_buffer, rxa' \in BOOLEAN,
         rx_fifo' \in 0..RxFifoSize, rx_fifo' <= rx_fifo,
         left' = left + Used + rx_fifo - rx_fifo', UNCHANGED <<errors, came>>
  PROVE  /\ ReceiveInv'
         /\ read.in_progress => read'.in_progress
         /\ read_cb.in_progress => read_cb'.in_progress
<1>1. /\ ring' = [start |-> 0, end |-> 0]
      /\ read' = Spoilt(read) /\ read_cb' = Spoilt(read_cb)
      /\ handed' = handed
  BY DEF rs485_init_buffer
<1>2. Used = Level(ring) /\ Used' = Level(ring')
  BY DEF Used, Level
<1>3. ring' \in RingType /\ Used' = 0
  BY <1>1, <1>2, RingErased
<1>4. Used \in Nat
  BY <1>2, LevelValue, RawAssumption DEF ReceiveInv
<1>5. /\ read' \in StreamType /\ StreamReady(read', Used')
      /\ read_cb' \in StreamType /\ StreamReady(read_cb', Used')
      /\ read.in_progress => read'.in_progress
      /\ read_cb.in_progress => read_cb'.in_progress
  BY <1>1, <1>3, <1>4, SpoiltStream DEF ReceiveInv
<1>6. EveryByteAccounted' /\ left' \in Nat
  <2>1. /\ left \in Nat /\ rx_fifo \in Nat /\ rx_fifo' \in Nat
        /\ errors.overrun \in Nat
        /\ came = left + Used + rx_fifo + errors.overrun
    BY DEF ReceiveInv, EveryByteAccounted, Counts
  <2>2. left' \in Nat
    <3>1. \A l, u, f, g \in Nat : g <= f => l + u + f - g \in Nat
      OBVIOUS
    <3>2. QED
      BY <1>4, <2>1, <3>1
  <2>3. came' = left' + Used' + rx_fifo' + errors'.overrun
    BY <1>3, <1>4, <2>1
  <2>4. QED
    BY <2>2, <2>3 DEF EveryByteAccounted
<1>7. QED
  BY <1>1, <1>3, <1>5, <1>6 DEF ReceiveInv, NothingInvented

\* Every step of the Bricklet, the host and the bus keeps the receive path in
\* order, and a stream that was not disturbed ends only when it is complete.
LEMMA StepKeepsReceive ==
  ASSUME IInv, [Next]_vars
  PROVE  /\ ReceiveInv'
         /\ read.in_progress /\ read.whole /\ ~read'.in_progress
              => StreamCompleted
         /\ read_cb.in_progress /\ read_cb.whole /\ ~read_cb'.in_progress
              => StreamCompleted
<1> DEFINE Kept == /\ ReceiveInv'
                   /\ read.in_progress => read'.in_progress
                   /\ read_cb.in_progress => read_cb'.in_progress
<1>1. ReceiveInv /\ rxa \in BOOLEAN
  BY DEF IInv, ReceiveInv
<1>2. CASE Tick \/ rs485_rx_irq_handler \/ rs485_rxa_irq_handler
  <2>1. /\ \E parity \in {0, 1} : DrainRxFifo(parity)
        /\ rxa' \in {rxa, FALSE}
        /\ UNCHANGED <<stream_vars, bus_vars>>
    BY <1>2 DEF Tick, rs485_rx_irq_handler, rs485_rxa_irq_handler
  <2>2. rxa' \in BOOLEAN
    BY <1>1, <2>1, Zenon
  <2>3. Kept
    BY <1>1, <2>1, <2>2, DrainKeeps DEF stream_vars
  <2>4. QED
    BY <2>3
<1>3. CASE BusByte
  BY <1>1, <1>3, BusByteKeeps DEF BusByte, stream_vars
<1>4. ASSUME NEW sendable \in BOOLEAN, ReadCallback(sendable)
      PROVE  /\ ReceiveInv'
             /\ read_cb.in_progress /\ read_cb.whole /\ ~read_cb'.in_progress
                  => StreamCompleted
             /\ read.in_progress => read'.in_progress
  BY <1>1, <1>4, ReadCallbackKeeps DEF ReadCallback, Callback
<1>5. CASE HostReads
  <2>1. UNCHANGED <<rx_fifo, rxa, errors, came>>
    BY <1>5 DEF HostReads, HostCalls
  <2>2. ASSUME NEW length \in Lengths, read_low_level(length)
        PROVE  /\ ReceiveInv'
               /\ read.in_progress /\ read.whole /\ ~read'.in_progress
                    => StreamCompleted
               /\ read_cb.in_progress => read_cb'.in_progress
    BY <1>1, <2>1, <2>2, RawAssumption, ReadLowLevelKeeps
  <2>3. CASE UNCHANGED <<ring, stream_vars, left>>
    BY <1>1, <2>1, <2>3, ReceiveUnchanged DEF stream_vars, bus_vars
  <2>4. QED
    BY <1>5, <2>2, <2>3
       DEF HostReads, enable_read_callback, disable_read_callback,
           set_frame_readable_callback_configuration,
           enable_error_count_callback, disable_error_count_callback
<1>6. CASE HostConfigures \/ rs485_apply_configuration
  <2>1. CASE UNCHANGED <<rx_fifo, rxa, ring, errors, stream_vars, left, came>>
    BY <1>1, <2>1, ReceiveUnchanged DEF stream_vars, bus_vars
  <2>2. CASE HostConfigures /\ set_buffer_config
    <3>1. /\ rs485_init_buffer /\ left' = left + Used
          /\ UNCHANGED <<rx_fifo, rxa, errors, came>>
      BY <2>2 DEF set_buffer_config, HostConfigures, HostCalls
    <3>2. Used \in Nat /\ left \in Nat /\ rx_fifo \in Nat
      BY <1>1, LevelValue, RawAssumption DEF ReceiveInv, Used, Level
    <3>3. left' = left + Used + rx_fifo - rx_fifo' /\ rx_fifo' <= rx_fifo
      BY <3>1, <3>2
    <3>4. Kept
      BY <1>1, <3>1, <3>3, EraseKeeps DEF ReceiveInv
    <3>5. QED
      BY <3>4
  <2>3. CASE rs485_apply_configuration
    <3>1. /\ rs485_init_buffer /\ rxa' \in {rxa, FALSE}
          /\ UNCHANGED <<errors, came>>
      BY <2>3 DEF rs485_apply_configuration
    <3>2. PICK kept \in {0, rx_fifo} :
            rx_fifo' = kept /\ left' = left + Used + rx_fifo - kept
      BY <2>3 DEF rs485_apply_configuration
    <3>3. rx_fifo' \in 0..RxFifoSize /\ rx_fifo' <= rx_fifo
      BY <1>1, <3>2, RawAssumption DEF ReceiveInv
    <3>4. rxa' \in BOOLEAN
      BY <1>1, <3>1, Zenon
    <3>5. Kept
      BY <1>1, <3>1, <3>2, <3>3, <3>4, EraseKeeps
    <3>6. QED
      BY <3>5
  <2>4. QED
    BY <1>6, <2>1, <2>2, <2>3
       DEF HostConfigures, HostCalls, set_rs485_configuration, set_mode,
           BeginApply, stream_vars
<1>7. CASE EndOfLoop
  <2>1. /\ handed' = NoPacket
        /\ UNCHANGED <<rx_vars, read, read_cb, bus_vars>>
    BY <1>7 DEF EndOfLoop
  <2>2. Used' = Used
    BY <2>1 DEF Used, rx_vars
  <2>3. NoPacket \in PacketType /\ NoPacket.zeros = 0
    BY DEF NoPacket, PacketType
  <2>4. QED
    BY <1>1, <2>1, <2>2, <2>3
       DEF ReceiveInv, EveryByteAccounted, NothingInvented, rx_vars, bus_vars
<1>8. CASE UNCHANGED <<rx_fifo, rxa, ring, errors, stream_vars, left, came>>
  BY <1>1, <1>8, ReceiveUnchanged DEF stream_vars, bus_vars
<1>9. CASE write_low_level \/ SkipCallbacks
           \/ \E sendable \in BOOLEAN : FrameCallback(sendable)
                                       \/ ErrorCallback(sendable)
  BY <1>8, <1>9
     DEF write_low_level, HostCalls, SkipCallbacks, FrameCallback,
         ErrorCallback, Callback, handle_frame_readable_callback,
         handle_error_count_callback, stream_vars
<1>10. CASE AddByte \/ EndWrite \/ rs485_tx_irq_handler
            \/ rs485_tff_irq_handler \/ DebounceElapses
  BY <1>8, <1>10
     DEF AddByte, EndWrite, rs485_tx_irq_handler, rs485_tff_irq_handler,
         DebounceElapses, rx_vars, bus_vars
<1>11. CASE UNCHANGED vars
  BY <1>8, <1>11 DEF vars, rx_vars, bus_vars
<1>12. QED
  BY <1>2, <1>3, <1>4, <1>5, <1>6, <1>7, <1>9, <1>10, <1>11
     DEF Next, MainLoop, Interrupts

------------------------------------------------------------------------------
(* What is written and goes out.                                           *)

\* A step of the main loop that leaves the transmit path alone, and neither
\* begins nor ends the work of a message or stop of the UART.
LEMMA TransmitUnchanged ==
  ASSUME TransmitInv, UNCHANGED tx_vars,
         \/ pc' = pc
         \/ /\ pc \in {"tick", "callbacks", "messages"} /\ MainMayRun
            /\ pc' \in {"tick", "callbacks", "messages", "stopping"}
  PROVE  TransmitInv'
  BY DEF TransmitInv, tx_vars, OvertakenTrigger, NeverDeaf, MainMayRun

\* The interrupt puts bytes into the FIFO or finds some there.
LEMMA TxInterruptKeeps ==
  ASSUME TransmitInv, rs485_tx_irq_handler
  PROVE  TransmitInv'
<1>1. /\ tx \in Nat /\ tx <= TxSize - 1 /\ tx_fifo \in Nat
      /\ tx_fifo <= TxFifoSize /\ TxSize \in Nat /\ TxFifoSize \in Nat
      /\ TxFifoSize >= 2
  BY RawAssumption DEF TransmitInv
<1>2. /\ Loaded \in Nat /\ Loaded <= tx /\ Loaded <= TxFifoSize - tx_fifo
      /\ Loaded = tx \/ Loaded = TxFifoSize - tx_fifo
  BY <1>1 DEF Loaded, Least
<1>3. /\ tx' = tx - Loaded /\ tx_fifo' = tx_fifo + Loaded
      /\ txirq' = IF tx_fifo + Loaded < TxFifoSize THEN "off" ELSE "armed"
      /\ direction' = "tx" /\ UNCHANGED <<pc, adding>>
      /\ txirq \in {"pending", "armed"}
  BY DEF rs485_tx_irq_handler
<1>4. tx' \in 0..(TxSize - 1) /\ tx_fifo' \in 0..TxFifoSize
  BY <1>1, <1>2, <1>3
<1>5. tx_fifo' > 0
  <2>1. CASE tx > 0
    BY <1>1, <1>2, <1>3, <2>1
  <2>2. CASE tx = 0
    <3>1. tx_fifo > 0
      BY <1>3, <2>2 DEF TransmitInv, OvertakenTrigger
    <3>2. QED
      BY <1>1, <1>2, <1>3, <3>1
  <2>3. QED
    BY <1>1, <2>1, <2>2
<1>6. txirq' \in {"off", "armed"}
  BY <1>3
<1>7. QED
  BY <1>3, <1>4, <1>5, <1>6 DEF TransmitInv, NeverDeaf

\* A byte has gone out; the last one turns the receiver back on.
LEMMA TffInterruptKeeps ==
  ASSUME TransmitInv, rs485_tff_irq_handler
  PROVE  TransmitInv'
<1>1. /\ tx_fifo > 0 /\ tx_fifo' = tx_fifo - 1
      /\ txirq = "armed" \/ OvertakenTrigger => tx_fifo > 1
      /\ direction' = DirectionAfterByte
      /\ UNCHANGED <<pc, tx, txirq, adding>>
  BY DEF rs485_tff_irq_handler
<1>2. tx_fifo \in Nat /\ tx_fifo <= TxFifoSize /\ TxFifoSize \in Nat
  BY RawAssumption DEF TransmitInv
<1>3. tx_fifo' \in 0..TxFifoSize /\ (tx_fifo' > 0 \/ tx_fifo = 1)
  BY <1>1, <1>2
<1>4. txirq' = "armed" \/ OvertakenTrigger' => tx_fifo' > 0
  BY <1>1, <1>2 DEF OvertakenTrigger
<1>5. NeverDeaf' /\ direction' \in {"rx", "tx"}
  BY <1>1, <1>3 DEF TransmitInv, NeverDeaf, DirectionAfterByte
<1>6. QED
  BY <1>1, <1>3, <1>4, <1>5 DEF TransmitInv

\* write_low_level adds its bytes one by one and triggers the interrupt.
LEMMA WriteKeeps ==
  ASSUME TransmitInv, write_low_level \/ AddByte \/ EndWrite
  PROVE  TransmitInv'
<1>1. /\ tx \in Nat /\ tx <= TxSize - 1 /\ TxSize \in Nat /\ TxSize >= 2
      /\ tx_fifo \in Nat /\ ChunkSize \in Nat
      /\ adding.left \in Nat /\ adding.added \in Nat
      /\ adding.left + adding.added <= ChunkSize
  BY RawAssumption DEF TransmitInv
<1>2. CASE write_low_level
  <2>1. PICK n \in 1..ChunkSize : BeginWrite(n)
    BY <1>2 DEF write_low_level
  <2>2. /\ pc = "messages" /\ MainMayRun
        /\ UNCHANGED <<tx, txirq, tx_fifo, direction>>
    BY <1>2 DEF write_low_level, HostCalls
  <2>3. /\ pc' = "adding" /\ adding' = [left |-> n, added |-> 0]
    BY <2>1 DEF BeginWrite
  <2>4. /\ adding' \in [left: 0..ChunkSize, added: 0..ChunkSize]
        /\ adding'.left + adding'.added <= ChunkSize
        /\ ~(adding'.added > 0)
    BY <1>1, <2>3
  <2>5. QED
    BY <2>2, <2>3, <2>4
       DEF TransmitInv, OvertakenTrigger, NeverDeaf, MainMayRun
<1>3. CASE AddByte
  <2>1. /\ pc = "adding" /\ MainMayRun /\ adding.left > 0
        /\ UNCHANGED <<pc, txirq, tx_fifo, direction>>
    BY <1>3 DEF AddByte
  <2>2. /\ tx' \in 0..(TxSize - 1) /\ tx' # 0
        /\ adding' \in [left: 0..ChunkSize, added: 0..ChunkSize]
        /\ adding'.left + adding'.added <= ChunkSize
    <3>1. CASE TxRoom
      <4>1. /\ tx' = tx + 1
            /\ adding' = [left |-> adding.left - 1, added |-> adding.added + 1]
        BY <1>3, <3>1 DEF AddByte
      <4>2. tx < TxSize - 1
        BY <3>1 DEF TxRoom
      <4>3. QED
        BY <1>1, <2>1, <4>1, <4>2
    <3>2. CASE ~TxRoom
      <4>1. tx' = tx /\ adding' = [adding EXCEPT !.left = 0]
        BY <1>3, <3>2 DEF AddByte
      <4>2. adding' = [left |-> 0, added |-> adding.added]
        BY <4>1 DEF TransmitInv
      <4>3. ~(tx < TxSize - 1)
        BY <3>2 DEF TxRoom
      <4>4. tx' \in 0..(TxSize - 1) /\ tx' # 0
        BY <1>1, <4>1, <4>3
      <4>5. adding.added <= ChunkSize
        BY <1>1
      <4>6. QED
        BY <1>1, <4>2, <4>4, <4>5
    <3>3. QED
      BY <3>1, <3>2
  <2>3. QED
    BY <2>1, <2>2 DEF TransmitInv, OvertakenTrigger, NeverDeaf, MainMayRun
<1>4. CASE EndWrite
  <2>1. /\ pc = "adding" /\ MainMayRun /\ adding.left = 0
        /\ txirq' = TriggerAfter /\ adding' = [left |-> 0, added |-> 0]
        /\ pc' = "messages" /\ UNCHANGED <<tx, tx_fifo, direction>>
    BY <1>4 DEF EndWrite
  <2>2. /\ adding' \in [left: 0..ChunkSize, added: 0..ChunkSize]
        /\ adding'.left + adding'.added <= ChunkSize
    BY <1>1, <2>1
  <2>3. CASE adding.added = 0
    BY <2>1, <2>2, <2>3
       DEF TransmitInv, OvertakenTrigger, NeverDeaf, MainMayRun, TriggerAfter
  <2>4. CASE adding.added # 0
    <3>1. txirq' = "pending" /\ (tx = 0 => tx_fifo > 0)
      BY <1>1, <2>1, <2>4 DEF TransmitInv, OvertakenTrigger, TriggerAfter
    <3>2. QED
      BY <2>1, <2>2, <3>1 DEF TransmitInv, OvertakenTrigger, NeverDeaf
  <2>5. QED
    BY <2>3, <2>4
<1>5. QED
  BY <1>2, <1>3, <1>4

\* Every step keeps the transmit path in order.
LEMMA StepKeepsTransmit ==
  ASSUME IInv, [Next]_vars
  PROVE  TransmitInv'
<1>1. TransmitInv
  BY DEF IInv
<1>2. CASE write_low_level \/ AddByte \/ EndWrite
  BY <1>1, <1>2, WriteKeeps
<1>3. CASE rs485_tx_irq_handler
  BY <1>1, <1>3, TxInterruptKeeps
<1>4. CASE rs485_tff_irq_handler
  BY <1>1, <1>4, TffInterruptKeeps
<1>5. CASE HostConfigures
  <2>1. pc = "messages" /\ MainMayRun
    BY <1>5 DEF HostConfigures, HostCalls
  <2>2. CASE set_buffer_config
    <3>1. tx' = 0 /\ UNCHANGED <<pc, txirq, tx_fifo, direction, adding>>
      BY <2>2 DEF set_buffer_config, rs485_init_buffer
    <3>2. tx' \in 0..(TxSize - 1)
      BY <3>1, RawAssumption
    <3>3. QED
      BY <1>1, <2>1, <3>1, <3>2
         DEF TransmitInv, OvertakenTrigger, NeverDeaf, MainMayRun
  <2>3. CASE set_rs485_configuration \/ set_mode
    <3>1. pc' = "stopping" /\ UNCHANGED tx_vars
      BY <2>3 DEF set_rs485_configuration, set_mode, BeginApply
    <3>2. QED
      BY <1>1, <2>1, <3>1, TransmitUnchanged
  <2>4. QED
    BY <1>5, <2>2, <2>3 DEF HostConfigures
<1>6. CASE rs485_apply_configuration
  <2>1. /\ tx' = 0 /\ direction' = "rx" /\ pc' = "messages" /\ txirq = "off"
        /\ UNCHANGED <<txirq, tx_fifo, adding>>
    BY <1>6 DEF rs485_apply_configuration, rs485_init_buffer
  <2>2. tx' \in 0..(TxSize - 1)
    BY <2>1, RawAssumption
  <2>3. QED
    BY <1>1, <2>1, <2>2 DEF TransmitInv, OvertakenTrigger, NeverDeaf
<1>7. CASE /\ UNCHANGED tx_vars
           /\ \/ pc' = pc
              \/ /\ pc \in {"tick", "callbacks", "messages"} /\ MainMayRun
                 /\ pc' \in {"tick", "callbacks", "messages", "stopping"}
  BY <1>1, <1>7, TransmitUnchanged
<1>8. CASE \/ SkipCallbacks
           \/ \E sendable \in BOOLEAN :
                ReadCallback(sendable) \/ FrameCallback(sendable)
                  \/ ErrorCallback(sendable)
  BY <1>7, <1>8
     DEF SkipCallbacks, ReadCallback, FrameCallback, ErrorCallback, Callback
<1>9. CASE Tick \/ EndOfLoop \/ HostReads
  BY <1>7, <1>9 DEF Tick, EndOfLoop, HostReads
<1>10. CASE \/ rs485_rx_irq_handler \/ rs485_rxa_irq_handler
            \/ BusByte \/ DebounceElapses
  BY <1>7, <1>10
     DEF rs485_rx_irq_handler, rs485_rxa_irq_handler, BusByte, DebounceElapses
<1>11. CASE UNCHANGED vars
  BY <1>7, <1>11 DEF vars
<1>12. QED
  BY <1>2, <1>3, <1>4, <1>5, <1>6, <1>8, <1>9, <1>10, <1>11
     DEF Next, MainLoop, Interrupts

------------------------------------------------------------------------------
(* What the host has configured, and what it has been told.                *)

\* Every step keeps the types of the configuration and of the callbacks.
LEMMA StepKeepsConfiguration ==
  ASSUME IInv, [Next]_vars
  PROVE  ConfigurationInv'
<1> DEFINE FrameType == [size: Nat, already_sent: BOOLEAN, buffered: BOOLEAN]
           ErrorCallbackType == [enabled: BOOLEAN, buffered: BOOLEAN,
                                 elapsed: BOOLEAN, last: Counts]
           FrameTyped == frame' \in FrameType
           HistoryTyped == told' \in BOOLEAN /\ missed' \in BOOLEAN
           PlanTyped == plan' \in ScenarioType
           EnabledTyped == read_callback_enabled' \in BOOLEAN
           ErrorsTyped == error_cb' \in ErrorCallbackType /\ reported' \in Counts
<1>1. /\ plan \in ScenarioType /\ read_callback_enabled \in BOOLEAN
      /\ frame \in FrameType
      /\ error_cb \in ErrorCallbackType
      /\ told \in BOOLEAN /\ missed \in BOOLEAN /\ reported \in Counts
      /\ errors \in Counts
  BY DEF IInv, ConfigurationInv, ReceiveInv
<1>2. PlanTyped
  <2>1. CASE UNCHANGED plan
    BY <1>1, <2>1
  <2>2. CASE plan.calls > 0 /\ plan' = [plan EXCEPT !.calls = @ - 1]
    BY <1>1, <2>2 DEF ScenarioType
  <2>3. CASE plan.bytes > 0 /\ plan' = [plan EXCEPT !.bytes = @ - 1]
    BY <1>1, <2>3 DEF ScenarioType
  <2>4. QED
    BY <2>1, <2>2, <2>3
       DEF Next, MainLoop, Interrupts, Tick, ReadCallback, FrameCallback,
           ErrorCallback, SkipCallbacks, Callback, HostReads, HostCalls,
           write_low_level, AddByte, EndWrite, HostConfigures,
           rs485_apply_configuration, EndOfLoop, rs485_rx_irq_handler,
           rs485_rxa_irq_handler, rs485_tx_irq_handler, rs485_tff_irq_handler,
           BusByte, DebounceElapses, vars
<1>3. EnabledTyped
  <2>1. CASE UNCHANGED read_callback_enabled
    BY <1>1, <2>1
  <2>2. CASE HostReads
    BY <1>1, <2>2
       DEF HostReads, read_low_level, enable_read_callback,
           disable_read_callback, set_frame_readable_callback_configuration,
           enable_error_count_callback, disable_error_count_callback
  <2>3. QED
    BY <2>1, <2>2
       DEF Next, MainLoop, Interrupts, Tick, ReadCallback, FrameCallback,
           ErrorCallback, SkipCallbacks, Callback,
           write_low_level, AddByte, EndWrite, HostConfigures,
           rs485_apply_configuration, EndOfLoop, rs485_rx_irq_handler,
           rs485_rxa_irq_handler, rs485_tx_irq_handler, rs485_tff_irq_handler,
           BusByte, DebounceElapses, vars
<1>4. FrameTyped /\ HistoryTyped
  <2>1. CASE UNCHANGED frame_vars \/ Unannounced
    BY <1>1, <2>1 DEF frame_vars, Unannounced
  <2>2. CASE UNCHANGED frame
             /\ told' \in {told, FALSE} /\ missed' \in BOOLEAN
    BY <1>1, <2>2
  <2>3. ASSUME NEW sendable \in BOOLEAN,
               handle_frame_readable_callback(sendable)
        PROVE  FrameTyped /\ HistoryTyped
    BY <1>1, <2>3 DEF handle_frame_readable_callback
  <2>4. ASSUME NEW sendable \in BOOLEAN, ReadCallback(sendable)
        PROVE  FrameTyped /\ HistoryTyped
    BY <2>1, <2>4
       DEF ReadCallback, Callback, handle_read_low_level_callback, TakeChunk
  <2>5. CASE HostReads
    <3>1. ASSUME NEW length \in Lengths, read_low_level(length)
          PROVE  FrameTyped /\ HistoryTyped
      BY <2>1, <3>1 DEF read_low_level, TakeChunk
    <3>2. ASSUME NEW size \in FrameSizes,
                 set_frame_readable_callback_configuration(size)
          PROVE  FrameTyped /\ HistoryTyped
      <4>1. size \in Nat
        BY RawAssumption
      <4>2. QED
        BY <1>1, <3>2, <4>1 DEF set_frame_readable_callback_configuration
    <3>3. CASE enable_read_callback
      BY <1>1, <3>3 DEF enable_read_callback
    <3>4. CASE UNCHANGED frame_vars
      BY <2>1, <3>4
    <3>5. QED
      BY <2>5, <3>1, <3>2, <3>3, <3>4
         DEF HostReads, disable_read_callback, enable_error_count_callback,
             disable_error_count_callback
  <2>6. CASE HostConfigures \/ rs485_apply_configuration
    <3>1. CASE rs485_init_buffer
      BY <1>1, <2>2, <3>1 DEF rs485_init_buffer
    <3>2. CASE UNCHANGED frame_vars
      BY <2>1, <3>2
    <3>3. QED
      BY <2>6, <3>1, <3>2
         DEF HostConfigures, rs485_apply_configuration, set_buffer_config,
             set_rs485_configuration, set_mode, BeginApply
  <2>7. QED
    BY <2>1, <2>3, <2>4, <2>5, <2>6
       DEF Next, MainLoop, Interrupts, Tick, FrameCallback,
           ErrorCallback, SkipCallbacks, Callback,
           handle_error_count_callback,
           write_low_level, AddByte, EndWrite, EndOfLoop, rs485_rx_irq_handler,
           rs485_rxa_irq_handler, rs485_tx_irq_handler, rs485_tff_irq_handler,
           BusByte, DebounceElapses, vars
<1>5. ErrorsTyped
  <2>1. NoErrors \in Counts
    BY DEF NoErrors, Counts
  <2>2. CASE error_cb' = error_cb /\ reported' \in {reported, NoErrors}
    BY <1>1, <2>1, <2>2
  <2>3. CASE /\ reported' = reported
             /\ \E b \in BOOLEAN : \/ error_cb' = [error_cb EXCEPT !.enabled = b]
                                   \/ error_cb' = [error_cb EXCEPT !.elapsed = b]
    BY <1>1, <2>3
  <2>4. ASSUME NEW sendable \in BOOLEAN, handle_error_count_callback(sendable)
        PROVE  ErrorsTyped
    BY <1>1, <2>1, <2>4 DEF handle_error_count_callback, LastAfter
  <2>5. CASE HostReads
    <3>1. reported' = reported
      BY <2>5 DEF HostReads, HostCalls
    <3>2. QED
      BY <2>2, <2>3, <2>5, <3>1
         DEF HostReads, read_low_level, enable_read_callback,
             disable_read_callback, set_frame_readable_callback_configuration,
             enable_error_count_callback, disable_error_count_callback
  <2>6. CASE HostConfigures \/ write_low_level
    BY <2>2, <2>6 DEF HostConfigures, write_low_level, HostCalls
  <2>7. CASE EndOfLoop
    BY <2>2, <2>7 DEF EndOfLoop
  <2>8. CASE DebounceElapses
    BY <2>3, <2>8 DEF DebounceElapses
  <2>9. CASE UNCHANGED error_vars
    BY <2>2, <2>9 DEF error_vars
  <2>10. QED
    BY <2>4, <2>5, <2>6, <2>7, <2>8, <2>9
       DEF Next, MainLoop, Interrupts, Tick, ReadCallback, FrameCallback,
           ErrorCallback, SkipCallbacks, Callback,
           handle_frame_readable_callback, handle_read_low_level_callback,
           AddByte, EndWrite, rs485_apply_configuration, rs485_rx_irq_handler,
           rs485_rxa_irq_handler, rs485_tx_irq_handler, rs485_tff_irq_handler,
           BusByte, vars
<1>6. QED
  BY <1>2, <1>3, <1>4, <1>5 DEF ConfigurationInv

------------------------------------------------------------------------------
(* The theorems.                                                           *)

\* The three parts of the invariant hold in the beginning and are kept.
THEOREM RawModeInvariant == Spec => []IInv
<1>1. Init => IInv
  <2> SUFFICES ASSUME Init PROVE IInv
    OBVIOUS
  <2>1. ring \in RingType /\ Used = 0
    <3>1. Used = Level(ring)
      BY DEF Used, Level
    <3>2. QED
      BY <3>1, RingErased DEF Init
  <2>2. ReceiveInv
    <3>1. /\ NoStream \in StreamType /\ StreamReady(NoStream, Used)
          /\ NoPacket \in PacketType /\ NoPacket.zeros = 0
      BY DEF NoStream, StreamType, StreamReady, NoPacket, PacketType
    <3>2. NoErrors \in Counts /\ NoErrors.overrun = 0
      BY DEF NoErrors, Counts
    <3>3. EveryByteAccounted
      BY <2>1, <3>2 DEF Init, EveryByteAccounted
    <3>4. 0 \in 0..RxFifoSize
      BY RawAssumption
    <3>5. QED
      BY <2>1, <3>1, <3>2, <3>3, <3>4 DEF Init, ReceiveInv, NothingInvented
  <2>3. TransmitInv
    BY RawAssumption DEF Init, TransmitInv, OvertakenTrigger, NeverDeaf
  <2>4. ConfigurationInv
    BY RawAssumption DEF Init, ConfigurationInv, NoErrors, Counts
  <2>5. QED
    BY <2>2, <2>3, <2>4 DEF IInv
<1>2. IInv /\ [Next]_vars => IInv'
  BY StepKeepsReceive, StepKeepsTransmit, StepKeepsConfiguration DEF IInv
<1>3. QED
  BY <1>1, <1>2, PTL DEF Spec

\* Every variable has its type, for every size of rings, FIFOs and packets.
THEOREM TypeCorrect == Spec => []TypeOK
<1>1. IInv => TypeOK
  BY DEF IInv, ReceiveInv, TransmitInv, ConfigurationInv, RingType, PacketType,
         TypeOK
<1>2. QED
  BY <1>1, RawModeInvariant, PTL

\* Every byte that came from the bus is in the FIFO, in the ring, has left to
\* the host or with an erased ring, or is counted as an overrun, for every
\* size of the ring and wherever in it the bytes wrap around.
THEOREM BytesAccounted == Spec => []EveryByteAccounted
<1>1. IInv => EveryByteAccounted
  BY DEF IInv, ReceiveInv
<1>2. QED
  BY <1>1, RawModeInvariant, PTL

\* No packet of a stream that was not disturbed has zeros in the place of
\* bytes, for every length the host asks for and every size of a packet.
THEOREM NothingInventedEver == Spec => []NothingInvented
<1>1. IInv => NothingInvented
  BY DEF IInv, ReceiveInv
<1>2. QED
  BY <1>1, RawModeInvariant, PTL

\* The receiver is off only while bytes go out or wait to go out, for every
\* size of the TX ring and FIFO.
THEOREM ReceiverComesBack == Spec => []NeverDeaf
<1>1. IInv => NeverDeaf
  BY DEF IInv, TransmitInv
<1>2. QED
  BY <1>1, RawModeInvariant, PTL

\* A stream that was not disturbed is not given up: it ends with the packet
\* that completes the length its first packet stated.
THEOREM StreamsEndComplete == Spec => StreamsComplete
<1>1. IInv /\ [Next]_vars
        => [ /\ read.in_progress /\ read.whole /\ ~read'.in_progress
                  => StreamCompleted
             /\ read_cb.in_progress /\ read_cb.whole /\ ~read_cb'.in_progress
                  => StreamCompleted ]_vars
  BY StepKeepsReceive
<1>2. QED
  BY <1>1, RawModeInvariant, PTL DEF Spec, StreamsComplete
==============================================================================
