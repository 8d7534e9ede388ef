-------------------------- MODULE FrameTiming_proofs --------------------------
(***************************************************************************)
(* For every timing the assumption allows, for frames of every size and    *)
(* every number of them, damaged or not: nothing but a damaged byte brings *)
(* anything into the ring while a frame in it is judged, and no frame is   *)
(* judged before its last byte has come.  Frames that are far enough apart *)
(* are judged one by one, each by the deadline.                            *)
(***************************************************************************)
EXTENDS FrameTiming, SequenceTheorems, TLAPS

\* What the proof needs of the types.
TypeInv ==
  /\ pc \in {"drain", "look", "judge", "rest"}
  /\ lag \in Nat
  /\ fifo \in Seq(Nat) /\ rx \in Seq(Nat) /\ judged \in Seq(Nat)
  /\ request.state = "processing" => request.length \in Nat
  /\ talker.frame \in Nat
  /\ DOMAIN talker = {"frame", "size", "left", "gap", "least"}

\* The tick has emptied the FIFO; since then at most one byte has come in for
\* each character of time, too few for the limit of the FIFO.  An interrupt that
\* was requested by a damaged byte before the tick finds nothing to move.
FifoKeepsUp ==
  /\ pc = "look" => fifo = <<>>
  /\ pc = "judge" => Len(fifo) <= lag /\ lag <= JudgeTime
  /\ pc = "judge" /\ alternate # {} => disturbed \/ fifo = <<>>

IInv == TypeInv /\ FifoKeepsUp /\ JudgedUndisturbed

LEMMA InitIInv == Init => IInv
  BY TimingAssumption
     DEF Init, Ready, IInv, TypeInv, FifoKeepsUp, JudgedUndisturbed

\* The first n elements of a sequence.
LEMMA SubSeqOfStart ==
  ASSUME NEW S, NEW s \in Seq(S), NEW n \in 0..Len(s)
  PROVE  /\ SubSeq(s, 1, n) \in Seq(S) /\ Len(SubSeq(s, 1, n)) = n
         /\ \A i \in 1..n : SubSeq(s, 1, n)[i] = s[i]
  OBVIOUS

\* A character passes in every step of the bus.
LEMMA PassKeepsUp ==
  ASSUME IInv, Pass,
         \/ fifo' = fifo /\ UNCHANGED <<alternate, disturbed>>
         \/ \E b \in Nat : Completed(b)
  PROVE  /\ FifoKeepsUp' /\ JudgedUndisturbed' /\ lag' \in Nat
         /\ UNCHANGED <<pc, rx, judged, request>> /\ fifo' \in Seq(Nat)
<1>1. Len(fifo') <= Len(fifo) + 1 /\ fifo' \in Seq(Nat)
  <2>1. fifo' = fifo \/ \E b \in Nat : fifo' = Append(fifo, b)
    BY DEF Completed
  <2>2. fifo \in Seq(Nat)
    BY DEF IInv, TypeInv
  <2> QED
    BY <2>1, <2>2, AppendProperties
<1>2. /\ UNCHANGED <<pc, rx, judged, request>>
      /\ lag' = lag + 1 /\ pc # "look" /\ alternate = {}
  BY DEF Pass, rtu_vars
<1>3. pc = "judge" => lag + 1 <= JudgeTime
  BY TimingAssumption DEF Pass, IInv, TypeInv
<1>4. Len(fifo) \in Nat /\ Len(fifo') \in Nat
  BY <1>1 DEF IInv, TypeInv
<1>5. pc = "judge" => /\ disturbed => disturbed'
                      /\ alternate' # {} => disturbed'
  BY <1>2, Zenon DEF Completed
<1>6. FifoKeepsUp'
  BY <1>1, <1>2, <1>3, <1>4, <1>5 DEF IInv, TypeInv, FifoKeepsUp
<1>7. JudgedUndisturbed'
  BY <1>2, <1>5 DEF IInv, JudgedUndisturbed
<1> QED
  BY <1>1, <1>2, <1>6, <1>7 DEF IInv, TypeInv

LEMMA BusStep ==
  ASSUME IInv, BusPauses \/ BusByte \/ BusFrame
  PROVE  IInv'
<1>1. CASE BusPauses
  <2>1. Pass /\ fifo' = fifo /\ UNCHANGED <<alternate, disturbed>>
    BY <1>1 DEF BusPauses
  <2>2. talker'.frame = talker.frame /\ DOMAIN talker' = DOMAIN talker
    BY <1>1 DEF BusPauses, IInv, TypeInv
  <2> QED
    BY <2>1, <2>2, PassKeepsUp DEF IInv, TypeInv
<1>2. CASE BusByte
  <2>1. Pass /\ Completed(talker.frame) /\ talker.frame \in Nat
    BY <1>2 DEF BusByte, IInv, TypeInv
  <2>2. talker'.frame = talker.frame /\ DOMAIN talker' = DOMAIN talker
    BY <1>2 DEF BusByte, IInv, TypeInv
  <2> QED
    BY <2>1, <2>2, PassKeepsUp DEF IInv, TypeInv
<1>3. CASE BusFrame
  <2>1. Pass /\ Completed(talker'.frame)
    BY <1>3 DEF BusFrame
  <2>2. talker'.frame = talker.frame + 1 /\ DOMAIN talker' = DOMAIN talker
    BY <1>3 DEF BusFrame, IInv, TypeInv
  <2>3. talker'.frame \in Nat
    BY <2>2 DEF IInv, TypeInv
  <2> QED
    BY <2>1, <2>2, <2>3, PassKeepsUp DEF IInv, TypeInv
<1> QED
  BY <1>1, <1>2, <1>3

\* What s holds stays where it is when t comes behind it.
LEMMA StartStays ==
  ASSUME NEW s \in Seq(Nat), NEW t \in Seq(Nat)
  PROVE  /\ s \o t \in Seq(Nat) /\ Len(s \o t) = Len(s) + Len(t)
         /\ \A i \in 1..Len(s) : (s \o t)[i] = s[i]
         /\ t = <<>> => s \o t = s
  OBVIOUS

\* The limit of the FIFO is not exceeded while a frame is judged, so only a
\* damaged byte moves anything to the ring.
LEMMA InterruptStep ==
  ASSUME IInv, RxInterrupt \/ rs485_rxa_irq_handler
  PROVE  IInv'
<1>1. /\ rx' = rx \o fifo /\ fifo' = <<>> /\ alternate' \subseteq alternate
      /\ UNCHANGED <<pc, lag, request, talker, judged, disturbed>>
      /\ Len(fifo) > RxFifoLimit \/ alternate # {}
  BY DEF RxInterrupt, RxInterruptRequested, rs485_rxa_irq_handler,
     rs485_rx_irq_handler, rtu_vars
<1>2. /\ rx' \in Seq(Nat) /\ Len(rx') = Len(rx) + Len(fifo)
      /\ \A i \in 1..Len(rx) : rx'[i] = rx[i]
      /\ fifo = <<>> => rx' = rx
  BY <1>1, StartStays DEF IInv, TypeInv
<1>3. TypeInv' /\ FifoKeepsUp'
  BY <1>1, <1>2 DEF IInv, TypeInv, FifoKeepsUp
<1>4. Len(rx) \in Nat /\ Len(fifo) \in Nat /\ Len(judged) \in Nat
  BY DEF IInv, TypeInv
<1>5. pc = "judge" => disturbed \/ fifo = <<>>
  BY <1>1, <1>4, TimingAssumption DEF IInv, TypeInv, FifoKeepsUp
<1>6. JudgedUndisturbed'
  BY <1>1, <1>2, <1>4, <1>5 DEF IInv, JudgedUndisturbed
<1> QED
  BY <1>3, <1>6 DEF IInv

LEMMA DrainStep ==
  ASSUME IInv, Drain
  PROVE  IInv'
<1>1. /\ pc' = "look" /\ rx' = rx \o fifo /\ fifo' = <<>>
      /\ UNCHANGED <<lag, request, talker, judged>>
  BY DEF Drain, DrainRxFifo, rtu_vars
<1>2. rx' \in Seq(Nat)
  BY <1>1, StartStays DEF IInv, TypeInv
<1> QED
  BY <1>1, <1>2 DEF IInv, TypeInv, FifoKeepsUp, JudgedUndisturbed

LEMMA LookStep ==
  ASSUME IInv, Look
  PROVE  IInv'
<1>1. /\ fifo = <<>> /\ lag' = 0
      /\ UNCHANGED <<fifo, alternate, talker, disturbed>>
  BY DEF Look, BeginJudgement, IInv, FifoKeepsUp
<1>2. CASE BeginJudgement
  BY <1>1, <1>2, TimingAssumption
     DEF BeginJudgement, rtu_vars, IInv, TypeInv, FifoKeepsUp, JudgedUndisturbed
<1>3. CASE pc' = "rest" /\ (EndRx \/ StartRx \/ NothingToDo)
  BY <1>1, <1>3 DEF EndRx, StartRx, NothingToDo, rtu_vars, IInv, TypeInv,
     FifoKeepsUp, JudgedUndisturbed
<1>4. CASE pc' = "rest" /\ Supersede
  <2>1. /\ rx' = SubSeq(rx, 1, Len(rx) - request.length) /\ judged' = judged
        /\ request' = [state |-> "ready", length |-> 0]
        /\ Len(rx) - request.length \in 0..Len(rx)
    BY <1>4 DEF Supersede, Ready, IInv, TypeInv
  <2>2. rx' \in Seq(Nat)
    BY <2>1, SubSeqOfStart DEF IInv, TypeInv
  <2> QED
    BY <1>1, <1>4, <2>1, <2>2
       DEF IInv, TypeInv, FifoKeepsUp, JudgedUndisturbed
<1> QED
  BY <1>2, <1>3, <1>4 DEF Look

LEMMA RestStep ==
  ASSUME IInv, EndJudgement \/ EndRequest \/ EndOfLoop
  PROVE  IInv'
<1>1. /\ pc' \in {"rest", "drain"} /\ lag' \in Nat
      /\ UNCHANGED <<fifo, talker, judged>>
  BY DEF EndJudgement, EndRequest, EndOfLoop, IInv, TypeInv
<1>2. rx' \in Seq(Nat) /\ (request'.state = "processing" => request'.length \in Nat)
  <2>1. CASE modbus_clear_request
    BY <2>1 DEF modbus_clear_request, Ready
  <2>2. CASE /\ request' = [state |-> "processing", length |-> Len(rx)]
             /\ rx' = rx
    BY <2>2 DEF IInv, TypeInv
  <2>3. CASE UNCHANGED <<rx, request>>
    BY <2>3 DEF IInv, TypeInv
  <2> QED
    BY <2>1, <2>2, <2>3 DEF EndJudgement, EndRequest, EndOfLoop, rtu_vars
<1> QED
  BY <1>1, <1>2 DEF IInv, TypeInv, FifoKeepsUp, JudgedUndisturbed

LEMMA IInvInductive == IInv /\ [Next]_vars => IInv'
<1> SUFFICES ASSUME IInv, [Next]_vars PROVE IInv'
  OBVIOUS
<1>1. CASE Next
  BY <1>1, BusStep, InterruptStep, DrainStep, LookStep, RestStep DEF Next
<1>2. CASE UNCHANGED vars
  BY <1>2 DEF vars, rtu_vars, IInv, TypeInv, FifoKeepsUp, JudgedUndisturbed
<1> QED
  BY <1>1, <1>2

\* While a frame is judged its bytes stay where they are, and none comes behind
\* them but by the interrupt of a damaged byte, however long frames and turns of
\* the main loop are, as long as the judgement takes no longer than the receive
\* FIFO needs to reach its limit.  Without parity no byte is found damaged, and
\* the ring does not change.
THEOREM JudgedUndisturbedTheorem == Spec => []JudgedUndisturbed
<1>1. IInv => JudgedUndisturbed
  BY DEF IInv
<1> QED
  BY <1>1, InitIInv, IInvInductive, PTL DEF Spec

------------------------------------------------------------------------------
(* No frame is split.                                                      *)

\* The frames of the bytes in s have begun.
Begun(s) == \A i \in 1..Len(s) : s[i] <= talker.frame

\* Part of the talker's frame is in the ring, and more is to come.
Arriving ==
  talker.left > 0 /\ \E i \in 1..Len(rx) : rx[i] = talker.frame

SplitTypeInv ==
  /\ rx_rb_last_length \in Nat /\ rx_rb_last_length <= Len(rx)
  /\ timer \in Nat /\ talker.gap \in Nat /\ talker.left \in Nat

\* The timer runs from when the last byte left the FIFO: not longer than the
\* bus has paused.  The interrupts of a damaged byte come at once.
TimerInv ==
  /\ fifo = <<>> => timer <= talker.gap
  /\ alternate # {} => talker.gap = 0
  /\ talker.left > 0 => talker.gap < MaxPause

BegunInv == Begun(rx) /\ Begun(fifo) /\ Begun(judged)

\* With the wire idle, a frame that is still arriving has made the ring longer
\* than it was at the last look.
GrownInv ==
  wire = "idle" /\ request.state = "ready" /\ Arriving
    => Len(rx) > rx_rb_last_length

SInv == IInv /\ SplitTypeInv /\ TimerInv /\ BegunInv /\ GrownInv
          /\ FrameNotSplit

LEMMA InitSInv == Init => SInv
<1> SUFFICES ASSUME Init PROVE SInv
  OBVIOUS
<1>1. rx = <<>> /\ fifo = <<>> /\ judged = <<>> /\ alternate = {}
  BY DEF Init
<1>2. /\ talker.left = 0 /\ talker.gap = Deadline + 1
      /\ timer = Silence /\ rx_rb_last_length = 0
      /\ request = [state |-> "ready", length |-> 0]
  BY DEF Init, Ready
<1>3. Deadline + 1 \in Nat /\ Silence <= Deadline + 1
  BY TimingAssumption DEF Deadline
<1>4. SplitTypeInv /\ TimerInv
  BY <1>1, <1>2, <1>3, TimingAssumption DEF SplitTypeInv, TimerInv
<1>5. BegunInv /\ GrownInv /\ FrameNotSplit
  BY <1>1, <1>2 DEF BegunInv, Begun, GrownInv, Arriving, FrameNotSplit
<1> QED
  BY <1>4, <1>5, InitIInv DEF SInv

\* The timer and the pause of the bus run together.
LEMMA PauseRuns ==
  ASSUME SInv, BusPauses
  PROVE  SplitTypeInv' /\ TimerInv'
<1>1. /\ talker'.gap = Least(talker.gap + 1, Deadline + 1)
      /\ talker'.left = talker.left /\ talker'.frame = talker.frame
      /\ talker.left > 0 => talker.gap + 1 < MaxPause
  BY DEF BusPauses, SInv, IInv, TypeInv
<1>2. /\ timer' = Least(timer + 1, Silence)
      /\ UNCHANGED <<fifo, alternate, rx, rx_rb_last_length, request, judged>>
      /\ alternate = {}
  BY DEF BusPauses, Pass, rtu_vars
<1>3. Deadline + 1 \in Nat /\ Silence \in Nat /\ Silence <= Deadline + 1
      /\ MaxPause < Silence /\ MaxPause \in Nat
  BY TimingAssumption DEF Deadline
<1>4. timer \in Nat /\ talker.gap \in Nat /\ talker.left \in Nat
  BY DEF SInv, SplitTypeInv
<1>5. talker'.gap \in Nat /\ timer' \in Nat
  BY <1>1, <1>2, <1>3, <1>4 DEF Least
<1>6. timer <= talker.gap => timer' <= talker'.gap
  BY <1>1, <1>2, <1>3, <1>4 DEF Least
<1>7. talker'.left > 0 => talker'.gap < MaxPause
  BY <1>1, <1>3, <1>4 DEF Least
<1> QED
  BY <1>1, <1>2, <1>4, <1>5, <1>6, <1>7 DEF SInv, SplitTypeInv, TimerInv

\* A byte of the talker: its frame has begun, and its pause begins anew.
LEMMA ByteRuns ==
  ASSUME SInv, Pass, talker'.gap = 0, talker'.left \in Nat,
         talker'.frame \in Nat, fifo' = Append(fifo, talker'.frame)
  PROVE  SplitTypeInv' /\ TimerInv'
<1>1. timer' \in Nat
  BY TimingAssumption DEF Pass, Least, SInv, SplitTypeInv
<1>2. UNCHANGED <<rx, rx_rb_last_length, request, judged>>
  BY DEF Pass, rtu_vars
<1>3. fifo' # <<>>
  <2>1. fifo \in Seq(Nat)
    BY DEF SInv, IInv, TypeInv
  <2> QED
    BY <2>1, AppendProperties
<1> QED
  BY <1>1, <1>2, <1>3, TimingAssumption DEF SInv, SplitTypeInv, TimerInv

\* Numbers that are not above a bound are not above a greater one.
LEMMA NotAbove ==
  ASSUME NEW s \in Seq(Nat), NEW m \in Nat, NEW n \in Nat, m <= n,
         \A i \in 1..Len(s) : s[i] <= m
  PROVE  \A i \in 1..Len(s) : s[i] <= n
  OBVIOUS

LEMMA NotAboveAppended ==
  ASSUME NEW s \in Seq(Nat), NEW n \in Nat, \A i \in 1..Len(s) : s[i] <= n
  PROVE  \A i \in 1..Len(Append(s, n)) : Append(s, n)[i] <= n
  OBVIOUS

LEMMA BusSplitStep ==
  ASSUME SInv, BusPauses \/ BusByte \/ BusFrame
  PROVE  SInv'
<1>0. IInv' /\ IInv
  BY BusStep DEF SInv
<1>1. UNCHANGED <<pc, rx, wire, rx_rb_last_length, request, judged>>
  BY DEF BusPauses, BusByte, BusFrame, Pass, rtu_vars
<1>2. CASE BusPauses
  <2>1. talker'.left = talker.left /\ talker'.frame = talker.frame
        /\ fifo' = fifo
    BY <1>2 DEF BusPauses, SInv, IInv, TypeInv
  <2>2. BegunInv' /\ GrownInv' /\ FrameNotSplit'
    BY <1>1, <2>1
       DEF SInv, BegunInv, Begun, GrownInv, Arriving, FrameNotSplit
  <2> QED
    BY <1>0, <1>2, <2>2, PauseRuns DEF SInv
<1>3. CASE BusByte
  <2>1. /\ talker'.left = talker.left - 1 /\ talker.left > 0
        /\ talker'.frame = talker.frame /\ talker'.gap = 0
    BY <1>3 DEF BusByte, SInv, IInv, TypeInv
  <2>2. Pass /\ fifo' = Append(fifo, talker.frame)
    BY <1>3 DEF BusByte, Completed
  <2>3. talker.left \in Nat /\ talker'.left \in Nat /\ talker'.frame \in Nat
    BY <2>1 DEF SInv, SplitTypeInv, IInv, TypeInv
  <2>4. Begun(fifo)'
    BY <1>0, <2>1, <2>2 DEF SInv, TypeInv, IInv, BegunInv, Begun
  <2>5. BegunInv' /\ GrownInv' /\ FrameNotSplit'
    BY <1>1, <2>1, <2>3, <2>4
       DEF SInv, BegunInv, Begun, GrownInv, Arriving, FrameNotSplit
  <2> QED
    BY <1>0, <2>1, <2>2, <2>3, <2>5, ByteRuns DEF SInv
<1>4. CASE BusFrame
  <2>1. PICK n \in FrameSizes :
          talker' = [talker EXCEPT !.frame = @ + 1, !.size = n, !.left = n - 1,
                                   !.gap = 0]
    BY <1>4 DEF BusFrame
  <2>2. /\ talker'.left = n - 1 /\ talker'.frame = talker.frame + 1
        /\ talker'.gap = 0
    BY <2>1 DEF SInv, IInv, TypeInv
  <2>3. Pass /\ fifo' = Append(fifo, talker'.frame)
    BY <1>4 DEF BusFrame, Completed
  <2>4. talker'.left \in Nat /\ talker.frame \in Nat /\ talker'.frame \in Nat
    BY <2>2, TimingAssumption DEF SInv, IInv, TypeInv
  <2>5. rx \in Seq(Nat) /\ judged \in Seq(Nat) /\ fifo \in Seq(Nat)
    BY DEF SInv, IInv, TypeInv
  <2>6. Begun(fifo)' /\ Begun(rx)' /\ Begun(judged)'
    <3>1. talker.frame <= talker'.frame /\ talker'.frame \in Nat
      BY <2>2, <2>4
    <3>2. Begun(rx)' /\ Begun(judged)'
      BY <1>1, <2>4, <2>5, <3>1, NotAbove DEF SInv, BegunInv, Begun
    <3>3. \A i \in 1..Len(fifo) : fifo[i] <= talker'.frame
      BY <2>4, <2>5, <3>1, NotAbove DEF SInv, BegunInv, Begun
    <3>4. Begun(fifo)'
      BY <2>3, <2>5, <3>1, <3>3, NotAboveAppended DEF Begun
    <3> QED
      BY <3>2, <3>4
  <2>7. ~Arriving' /\ FrameNotSplit'
    BY <1>1, <2>2, <2>4, <2>5
       DEF SInv, BegunInv, Begun, Arriving, FrameNotSplit
  <2> QED
    BY <1>0, <2>2, <2>3, <2>4, <2>6, <2>7, ByteRuns
       DEF SInv, BegunInv, GrownInv
<1> QED
  BY <1>2, <1>3, <1>4

\* What the FIFO adds to the ring makes it longer than the last look.
LEMMA MovedToRing ==
  ASSUME SInv, rx' = rx \o fifo, fifo' = <<>>,
         timer' = 0 \/ (timer' = timer /\ fifo = <<>>),
         alternate' \subseteq alternate,
         UNCHANGED <<rtu_vars, talker, judged>>
  PROVE  SplitTypeInv' /\ TimerInv' /\ BegunInv' /\ GrownInv'
<1>1. rx \in Seq(Nat) /\ fifo \in Seq(Nat)
  BY DEF SInv, IInv, TypeInv
<1>2. /\ rx' \in Seq(Nat) /\ Len(rx') = Len(rx) + Len(fifo)
      /\ \A i \in 1..Len(rx') :
           rx'[i] = IF i <= Len(rx) THEN rx[i] ELSE fifo[i - Len(rx)]
  BY <1>1
<1>3. UNCHANGED <<wire, rx_rb_last_length, request, talker, judged>>
  BY DEF rtu_vars
<1>4. Len(rx) \in Nat /\ Len(fifo) \in Nat
  BY <1>1
<1>5. SplitTypeInv' /\ TimerInv'
  BY <1>2, <1>3, <1>4 DEF SInv, SplitTypeInv, TimerInv
<1>6. BegunInv'
  BY <1>1, <1>2, <1>3, <1>4 DEF SInv, BegunInv, Begun
<1>7. GrownInv'
  <2>1. CASE fifo = <<>>
    <3>1. rx' = rx
      BY <1>1, <2>1
    <3> QED
      BY <3>1, <1>3 DEF SInv, GrownInv, Arriving
  <2>2. CASE fifo # <<>>
    <3>1. Len(rx') > rx_rb_last_length
      BY <1>1, <1>2, <1>4, <2>2 DEF SInv, SplitTypeInv
    <3> QED
      BY <3>1, <1>3 DEF GrownInv
  <2> QED
    BY <2>1, <2>2
<1> QED
  BY <1>5, <1>6, <1>7

LEMMA DrainSplitStep ==
  ASSUME SInv, Drain \/ RxInterrupt \/ rs485_rxa_irq_handler
  PROVE  SInv'
<1>1. IInv'
  BY DrainStep, InterruptStep DEF SInv
<1>2. /\ rx' = rx \o fifo /\ fifo' = <<>>
      /\ timer' = 0 \/ (timer' = timer /\ fifo = <<>>)
      /\ alternate' \subseteq alternate
      /\ UNCHANGED <<rtu_vars, talker, judged>>
  BY DEF Drain, DrainRxFifo, RxInterrupt, rs485_rxa_irq_handler,
     rs485_rx_irq_handler
<1>3. pc' = "judge" => pc = "judge"
  BY DEF Drain, RxInterrupt, rs485_rxa_irq_handler, rs485_rx_irq_handler
<1> QED
  BY <1>1, <1>2, <1>3, MovedToRing DEF SInv, FrameNotSplit

\* The silence has passed only after the end of a frame.
LEMMA SilenceEndsFrame ==
  ASSUME SInv, fifo = <<>>, timer >= Silence
  PROVE  talker.left = 0
  BY TimingAssumption DEF SInv, SplitTypeInv, TimerInv

LEMMA LookSplitStep ==
  ASSUME SInv, Look
  PROVE  SInv'
<1>1. IInv'
  BY LookStep DEF SInv
<1>2. fifo = <<>> /\ UNCHANGED <<timer, fifo, alternate, talker>>
  BY DEF Look, SInv, IInv, FifoKeepsUp
<1>3. rx \in Seq(Nat) /\ Len(rx) \in Nat
  BY DEF SInv, IInv, TypeInv
<1>4. CASE BeginJudgement
  <2>1. UNCHANGED <<rx, wire, rx_rb_last_length, request>> /\ judged' = rx
    BY <1>4 DEF BeginJudgement, rtu_vars
  <2>2. ~Arriving
    BY <1>3, <1>4 DEF BeginJudgement, FrameAvailable, SInv, GrownInv
  <2>3. FrameNotSplit'
    BY <1>2, <2>1, <2>2 DEF Arriving, FrameNotSplit
  <2>4. SplitTypeInv' /\ TimerInv' /\ BegunInv' /\ GrownInv'
    BY <1>2, <2>1
       DEF SInv, SplitTypeInv, TimerInv, BegunInv, Begun, GrownInv, Arriving
  <2> QED
    BY <1>1, <2>3, <2>4 DEF SInv
<1>5. CASE pc' = "rest" /\ EndRx
  <2>1. talker.left = 0
    BY <1>2, <1>5, SilenceEndsFrame DEF EndRx
  <2>2. UNCHANGED <<rx, rx_rb_last_length, request, judged>>
    BY <1>5 DEF EndRx
  <2> QED
    BY <1>1, <1>2, <1>5, <2>1, <2>2
       DEF SInv, SplitTypeInv, TimerInv, BegunInv, Begun, GrownInv, Arriving,
           FrameNotSplit
<1>6. CASE pc' = "rest" /\ StartRx
  BY <1>1, <1>2, <1>3, <1>6
     DEF StartRx, SInv, SplitTypeInv, TimerInv, BegunInv, Begun, GrownInv,
         FrameNotSplit
<1>7. CASE pc' = "rest" /\ Supersede
  <2>1. /\ rx' = SubSeq(rx, 1, Len(rx) - request.length)
        /\ wire' = "rx" /\ rx_rb_last_length' = 0
        /\ request' = [state |-> "ready", length |-> 0] /\ judged' = judged
        /\ request.length < Len(rx) /\ request.length \in Nat
    BY <1>7 DEF Supersede, Ready, SInv, IInv, TypeInv
  <2>2. /\ rx' \in Seq(Nat) /\ Len(rx') = Len(rx) - request.length
        /\ \A i \in 1..Len(rx') : rx'[i] = rx[i]
    <3>1. rx \in Seq(Nat) /\ Len(rx) - request.length \in 0..Len(rx)
      BY <1>3, <2>1 DEF SInv, SplitTypeInv
    <3> QED
      BY <2>1, <3>1, SubSeqOfStart
  <2>3. SplitTypeInv' /\ TimerInv'
    BY <1>2, <1>3, <2>1, <2>2 DEF SInv, SplitTypeInv, TimerInv
  <2>4. BegunInv' /\ GrownInv' /\ FrameNotSplit'
    BY <1>2, <1>3, <1>7, <2>1, <2>2
       DEF SInv, BegunInv, Begun, GrownInv, FrameNotSplit
  <2> QED
    BY <1>1, <2>3, <2>4 DEF SInv
<1>8. CASE pc' = "rest" /\ NothingToDo
  BY <1>1, <1>2, <1>8
     DEF NothingToDo, rtu_vars, SInv, SplitTypeInv, TimerInv, BegunInv, Begun,
         GrownInv, Arriving, FrameNotSplit
<1> QED
  BY <1>4, <1>5, <1>6, <1>7, <1>8 DEF Look

LEMMA RestSplitStep ==
  ASSUME SInv, EndJudgement \/ EndRequest \/ EndOfLoop
  PROVE  SInv'
<1>1. IInv'
  BY RestStep DEF SInv
<1>2. UNCHANGED <<timer, fifo, alternate, talker, judged>> /\ pc' # "judge"
  BY DEF EndJudgement, EndRequest, EndOfLoop
<1>3. CASE modbus_clear_request
  <2>1. /\ rx' = <<>> /\ rx_rb_last_length' = 0
        /\ request' = [state |-> "ready", length |-> 0]
    BY <1>3 DEF modbus_clear_request, Ready
  <2> QED
    BY <1>1, <1>2, <2>1
       DEF SInv, SplitTypeInv, TimerInv, BegunInv, Begun, GrownInv, Arriving,
           FrameNotSplit
<1>4. CASE /\ request' = [state |-> "processing", length |-> Len(rx)]
           /\ UNCHANGED <<rx, wire, rx_rb_last_length>>
  BY <1>1, <1>2, <1>4
     DEF SInv, SplitTypeInv, TimerInv, BegunInv, Begun, GrownInv, FrameNotSplit
<1>5. CASE UNCHANGED <<rx, rtu_vars>>
  BY <1>1, <1>2, <1>5
     DEF rtu_vars, SInv, SplitTypeInv, TimerInv, BegunInv, Begun, GrownInv,
         Arriving, FrameNotSplit
<1> QED
  BY <1>3, <1>4, <1>5 DEF EndJudgement, EndRequest, EndOfLoop

LEMMA SInvInductive == SInv /\ [Next]_vars => SInv'
<1> SUFFICES ASSUME SInv, [Next]_vars PROVE SInv'
  OBVIOUS
<1>1. CASE Next
  BY <1>1, BusSplitStep, DrainSplitStep, LookSplitStep, RestSplitStep DEF Next
<1>2. CASE UNCHANGED vars
  BY <1>2, IInvInductive
     DEF vars, rtu_vars, SInv, SplitTypeInv, TimerInv, BegunInv, Begun,
         GrownInv, Arriving, FrameNotSplit
<1> QED
  BY <1>1, <1>2

\* A frame is never judged before its last byte has come, if its pauses are
\* shorter than the silence: two looks that find the ring unchanged, with the
\* silence between them, are enough.
THEOREM FrameNotSplitTheorem == Spec => []FrameNotSplit
<1>1. SInv => FrameNotSplit
  BY DEF SInv
<1> QED
  BY <1>1, InitSInv, SInvInductive, PTL DEF Spec

------------------------------------------------------------------------------
(* Types.                                                                  *)

\* A frame whose bytes are on their way has a number.
FrameTypeInv == TypeOK /\ (talker.left > 0 => talker.frame # 0)

\* The time spent in one turn of the main loop is bounded.
LagInv == pc # "judge" => lag <= LoopTime

TInv == SInv /\ FrameTypeInv /\ LagInv

LEMMA InitTypes == Init => FrameTypeInv /\ LagInv
<1> SUFFICES ASSUME Init PROVE FrameTypeInv /\ LagInv
  OBVIOUS
<1>1. PICK g \in FrameGaps :
        talker = [frame |-> 0, size |-> 0, left |-> 0, gap |-> Deadline + 1,
                  least |-> g]
  BY DEF Init
<1>2. Deadline + 1 \in Nat /\ MaxFrames \in Nat
  BY TimingAssumption DEF Deadline
<1>3. talker \in [frame: 0..MaxFrames, size: Nat, left: Nat, gap: Nat,
                  least: FrameGaps]
  BY <1>1, <1>2
<1>4. /\ rx = <<>> /\ Len(rx) = 0 /\ rx_rb_last_length = 0
      /\ request = [state |-> "ready", length |-> 0]
  BY DEF Init, Ready
<1>5. /\ rx_rb_last_length \in 0..Len(rx)
      /\ request \in [state: {"ready", "processing"}, length: 0..Len(rx)]
  BY <1>4
<1>6. /\ pc = "drain" /\ lag = 0 /\ timer = Silence /\ wire = "idle"
      /\ fifo = <<>> /\ alternate = {} /\ judged = <<>>
      /\ seen = TRUE /\ disturbed = FALSE
  BY DEF Init
<1>7. TypeOK
  <2>1. fifo \in Seq(Byte) /\ rx \in Seq(Byte) /\ judged \in Seq(Byte)
    BY <1>4, <1>6
  <2>2. timer \in 0..Silence /\ alternate \subseteq {"rx", "rxa"}
    BY <1>6, TimingAssumption
  <2>3. QED
    BY <1>3, <1>5, <1>6, <2>1, <2>2 DEF TypeOK
<1>8. talker.left = 0
  BY <1>1
<1>9. QED
  BY <1>6, <1>7, <1>8, TimingAssumption DEF FrameTypeInv, LagInv

LEMMA CompletedTypes ==
  ASSUME TInv, NEW b \in Byte, Completed(b)
  PROVE  /\ fifo' \in Seq(Byte) /\ alternate' \subseteq {"rx", "rxa"}
         /\ disturbed' \in BOOLEAN
<1>1. /\ fifo \in Seq(Byte) /\ alternate \subseteq {"rx", "rxa"}
      /\ disturbed \in BOOLEAN
  BY DEF TInv, FrameTypeInv, TypeOK
<1>2. fifo' \in Seq(Byte)
  BY <1>1 DEF Completed
<1>3. CASE UNCHANGED <<alternate, disturbed>>
  BY <1>1, <1>2, <1>3
<1>4. CASE alternate' = {"rx", "rxa"} /\ disturbed' = (pc = "judge")
  BY <1>2, <1>4
<1> QED
  BY <1>3, <1>4 DEF Completed

LEMMA BusTypes ==
  ASSUME TInv, BusPauses \/ BusByte \/ BusFrame
  PROVE  FrameTypeInv' /\ LagInv'
<1> DEFINE Talkers == [frame: 0..MaxFrames, size: Nat, left: Nat, gap: Nat,
                       least: FrameGaps]
<1>1. /\ Pass /\ lag \in Nat /\ timer \in 0..Silence /\ talker \in Talkers
      /\ fifo \in Seq(Byte) /\ Silence \in Nat /\ MaxFrames \in Nat
      /\ Deadline + 1 \in Nat
  <2>1. Pass
    BY DEF BusPauses, BusByte, BusFrame
  <2>2. Deadline + 1 \in Nat /\ Silence \in Nat /\ MaxFrames \in Nat
    BY TimingAssumption DEF Deadline
  <2>3. QED
    BY <2>1, <2>2 DEF TInv, FrameTypeInv, TypeOK
<1>2. timer' \in 0..Silence /\ lag' \in Nat /\ LagInv'
  <2>1. timer' \in 0..Silence
    BY <1>1 DEF Pass, Least
  <2>2. lag' = lag + 1 /\ pc' = pc /\ (pc # "judge" => lag < LoopTime)
    BY <1>1 DEF Pass
  <2>3. QED
    BY <1>1, <2>1, <2>2, TimingAssumption DEF LagInv
<1>3. CASE BusPauses
  <2>1. Least(talker.gap + 1, Deadline + 1) \in Nat
    BY <1>1 DEF Least
  <2>2. talker' \in Talkers /\ talker'.left = talker.left
        /\ talker'.frame = talker.frame
    BY <1>1, <1>3, <2>1 DEF BusPauses
  <2>3. QED
    BY <1>1, <1>2, <1>3, <2>2
       DEF BusPauses, Pass, rtu_vars, TInv, FrameTypeInv, TypeOK
<1>4. CASE BusByte
  <2>1. talker.left \in Nat /\ talker.left > 0 /\ talker.left - 1 \in Nat
    BY <1>1, <1>4 DEF BusByte
  <2>2. talker' = [talker EXCEPT !.left = talker.left - 1, !.gap = 0]
    BY <1>4 DEF BusByte
  <2>3. talker' \in Talkers /\ talker'.frame = talker.frame
    BY <1>1, <2>1, <2>2
  <2>4. talker.frame \in Byte
    BY <1>1, <2>1 DEF TInv, FrameTypeInv, Byte
  <2>5. fifo' \in Seq(Byte) /\ alternate' \subseteq {"rx", "rxa"}
        /\ disturbed' \in BOOLEAN
    BY <1>1, <1>4, <2>4, CompletedTypes DEF BusByte
  <2>6. talker'.frame # 0
    BY <1>1, <2>3, <2>4 DEF Byte
  <2>7. QED
    BY <1>1, <1>2, <1>4, <2>3, <2>5, <2>6
       DEF BusByte, Pass, rtu_vars, TInv, FrameTypeInv, TypeOK
<1>5. CASE BusFrame
  <2>1. PICK n \in FrameSizes :
          talker' = [talker EXCEPT !.frame = @ + 1, !.size = n, !.left = n - 1,
                                   !.gap = 0]
    BY <1>5 DEF BusFrame
  <2>2. n \in Nat /\ n - 1 \in Nat
    BY TimingAssumption
  <2>3. talker.frame + 1 \in Byte /\ talker.frame + 1 \in 0..MaxFrames
    <3>1. talker.frame \in 0..MaxFrames /\ talker.frame < MaxFrames
      BY <1>1, <1>5 DEF BusFrame
    <3>2. QED
      BY <1>1, <3>1 DEF Byte
  <2>4. talker' \in Talkers /\ talker'.frame = talker.frame + 1
    BY <1>1, <2>1, <2>2, <2>3
  <2>5. fifo' \in Seq(Byte) /\ alternate' \subseteq {"rx", "rxa"}
        /\ disturbed' \in BOOLEAN
    <3>1. Completed(talker.frame + 1)
      BY <1>5, <2>4 DEF BusFrame
    <3>2. QED
      BY <2>3, <3>1, CompletedTypes
  <2>6. talker'.frame # 0
    BY <1>1, <2>3, <2>4 DEF Byte
  <2>7. QED
    BY <1>1, <1>2, <1>5, <2>4, <2>5, <2>6
       DEF BusFrame, Pass, rtu_vars, TInv, FrameTypeInv, TypeOK
<1>6. QED
  BY <1>3, <1>4, <1>5

LEMMA ReceptionTypes ==
  ASSUME TInv, Drain \/ RxInterrupt \/ rs485_rxa_irq_handler
  PROVE  FrameTypeInv' /\ LagInv'
<1>1. /\ rx \in Seq(Byte) /\ fifo \in Seq(Byte) /\ timer \in 0..Silence
      /\ 0 \in 0..Silence
  BY TimingAssumption DEF TInv, FrameTypeInv, TypeOK
<1>2. /\ rx' = rx \o fifo /\ fifo' = <<>> /\ timer' \in {timer, 0}
      /\ alternate' \subseteq alternate /\ pc' \in {pc, "look"}
      /\ UNCHANGED <<lag, wire, rx_rb_last_length, request, talker, judged, seen,
                     disturbed>>
      /\ pc' = "judge" <=> pc = "judge"
  BY DEF Drain, DrainRxFifo, RxInterrupt, rs485_rxa_irq_handler,
     rs485_rx_irq_handler, rtu_vars
<1>3. /\ rx' \in Seq(Byte) /\ fifo' \in Seq(Byte) /\ timer' \in 0..Silence
      /\ 0..Len(rx) \subseteq 0..Len(rx')
  BY <1>1, <1>2
<1>4. /\ rx_rb_last_length' \in 0..Len(rx')
      /\ request' \in [state: {"ready", "processing"}, length: 0..Len(rx')]
  BY <1>2, <1>3 DEF TInv, FrameTypeInv, TypeOK
<1>5. QED
  BY <1>2, <1>3, <1>4 DEF TInv, FrameTypeInv, TypeOK, LagInv

LEMMA LookTypes ==
  ASSUME TInv, Look
  PROVE  FrameTypeInv' /\ LagInv'
<1>1. lag' = 0 /\ LagInv' /\ UNCHANGED <<timer, fifo, alternate, talker, disturbed>>
  BY TimingAssumption DEF Look, BeginJudgement, LagInv
<1>2. CASE BeginJudgement \/ (pc' = "rest" /\ (EndRx \/ NothingToDo))
  BY <1>1, <1>2 DEF BeginJudgement, EndRx, NothingToDo, rtu_vars, TInv,
     FrameTypeInv, TypeOK
<1>3. CASE pc' = "rest" /\ StartRx
  <2>1. Len(rx) \in 0..Len(rx)
    BY DEF TInv, FrameTypeInv, TypeOK
  <2>2. QED
    BY <1>1, <1>3, <2>1 DEF StartRx, TInv, FrameTypeInv, TypeOK
<1>4. CASE pc' = "rest" /\ Supersede
  <2>1. rx \in Seq(Byte) /\ Len(rx) - request.length \in 0..Len(rx)
    BY <1>4 DEF Supersede, TInv, FrameTypeInv, TypeOK
  <2>2. rx' \in Seq(Byte)
    BY <1>4, <2>1, SubSeqOfStart DEF Supersede
  <2>3. /\ request' \in [state: {"ready", "processing"}, length: 0..Len(rx')]
        /\ wire' = "rx" /\ rx_rb_last_length' \in 0..Len(rx')
    BY <1>4, <2>2 DEF Supersede, Ready
  <2>4. QED
    BY <1>1, <1>4, <2>2, <2>3 DEF Supersede, TInv, FrameTypeInv, TypeOK
<1>5. QED
  BY <1>2, <1>3, <1>4 DEF Look

LEMMA RestTypes ==
  ASSUME TInv, EndJudgement \/ EndRequest \/ EndOfLoop
  PROVE  FrameTypeInv' /\ LagInv'
<1>1. LagInv'
  BY TimingAssumption DEF TInv, LagInv, EndJudgement, EndRequest, EndOfLoop
<1>2. /\ UNCHANGED <<timer, fifo, alternate, talker, judged, seen>>
      /\ lag' \in {lag, 0} /\ pc' \in {"rest", "drain"}
      /\ disturbed' = disturbed \/ disturbed' = FALSE
  BY DEF EndJudgement, EndRequest, EndOfLoop
<1>3. /\ rx' \in Seq(Byte) /\ wire' \in {"idle", "rx"}
      /\ rx_rb_last_length' \in 0..Len(rx')
      /\ request' \in [state: {"ready", "processing"}, length: 0..Len(rx')]
  <2>1. CASE modbus_clear_request
    BY <2>1 DEF modbus_clear_request, Ready
  <2>2. CASE UNCHANGED <<rx, wire, rx_rb_last_length>>
             /\ request' \in {request, [state |-> "processing", length |-> Len(rx)]}
    BY <2>2 DEF TInv, FrameTypeInv, TypeOK
  <2>3. QED
    BY <2>1, <2>2 DEF EndJudgement, EndRequest, EndOfLoop, rtu_vars
<1>4. disturbed' \in BOOLEAN
  BY <1>2 DEF TInv, FrameTypeInv, TypeOK
<1>5. QED
  BY <1>1, <1>2, <1>3, <1>4 DEF TInv, FrameTypeInv, TypeOK

LEMMA TInvInductive == TInv /\ [Next]_vars => TInv'
<1> SUFFICES ASSUME TInv, [Next]_vars PROVE TInv'
  OBVIOUS
<1>1. SInv'
  BY SInvInductive DEF TInv
<1>2. CASE Next
  BY <1>1, <1>2, BusTypes, ReceptionTypes, LookTypes, RestTypes DEF Next, TInv
<1>3. CASE UNCHANGED vars
  BY <1>1, <1>3 DEF vars, rtu_vars, TInv, FrameTypeInv, TypeOK, LagInv
<1>4. QED
  BY <1>2, <1>3

\* Every variable has its type, for all timings and sizes.
THEOREM TypeCorrect == Spec => []TypeOK
<1>1. Init => TInv
  BY InitSInv, InitTypes DEF TInv
<1>2. TInv => TypeOK
  BY DEF TInv, FrameTypeInv
<1>3. QED
  BY <1>1, <1>2, TInvInductive, PTL DEF Spec

------------------------------------------------------------------------------
(* Frames that are far apart.                                              *)

Far == talker.least > Deadline

\* The longest time from the last byte of a frame to its judgement.
FoundBy == Silence + LoopTime - 2 + 4 * LoopTime

\* How long after the end of the silence the look that comes now can be: the
\* wire goes idle, the ring is found longer, the wire goes idle again, and the
\* ring is found unchanged.
TurnsAfterSilence ==
  IF Len(rx) > rx_rb_last_length
  THEN IF wire = "rx" THEN 0 ELSE LoopTime
  ELSE IF wire = "rx" THEN 2 * LoopTime ELSE 3 * LoopTime

\* The bus has not paused for longer than the Bricklet took to get this far.
InTime ==
  /\ fifo # <<>> => talker.gap < lag
  /\ fifo = <<>> /\ timer < Silence => talker.gap <= timer + LoopTime - 1
  /\ fifo = <<>> /\ timer = Silence =>
       talker.gap <= Silence + LoopTime - 2 + TurnsAfterSilence + lag

\* Until the frame is found, FIFO and ring hold what there is of it.
Expected ==
  /\ pc # "judge" /\ request.state = "ready"
  /\ rx \o fifo = TalkersFrame
  /\ talker.left < talker.size
  /\ talker.left = 0 => InTime

\* Then it is judged, may be processed, and nothing is left of it.
Settled ==
  /\ talker.left = 0 /\ fifo = <<>> /\ wire = "idle"
  /\ \/ /\ pc = "judge" /\ request.state = "ready"
        /\ judged = TalkersFrame /\ talker.gap <= FoundBy + lag
     \/ /\ pc # "judge" /\ request.state = "processing"
        /\ request.length = Len(rx)
     \/ /\ pc # "judge" /\ request.state = "ready"
        /\ rx = <<>> /\ rx_rb_last_length = 0

FarInv == Far => IF seen THEN Settled ELSE Expected

DInv == TInv /\ FarInv

\* The deadline leaves time to judge a frame that was found last.
LEMMA DeadlineSum ==
  /\ Deadline = FoundBy + JudgeTime
  /\ Deadline \in Nat /\ FoundBy \in Nat /\ JudgeTime \in Nat
  /\ LoopTime \in Nat \ {0} /\ Silence \in Nat \ {0}
  BY TimingAssumption DEF Deadline, FoundBy

\* The types the steps below need.
LEMMA Numbers ==
  ASSUME TInv
  PROVE  /\ talker.gap \in Nat /\ talker.left \in Nat /\ talker.size \in Nat
         /\ talker.frame \in Nat /\ talker.least \in Nat
         /\ lag \in Nat /\ timer \in 0..Silence
<1>1. FrameGaps \subseteq Nat
  BY DeadlineSum, TimingAssumption
<1>2. /\ talker.gap \in Nat /\ talker.left \in Nat /\ talker.size \in Nat
      /\ talker.frame \in 0..MaxFrames /\ talker.least \in FrameGaps
  BY DEF TInv, FrameTypeInv, TypeOK
<1>3. lag \in Nat /\ timer \in 0..Silence
  BY DEF TInv, FrameTypeInv, TypeOK
<1>4. MaxFrames \in Nat
  BY TimingAssumption
<1>5. talker.frame \in Nat
  BY <1>2, <1>4
<1>6. talker.least \in Nat
  BY <1>1, <1>2
<1>7. QED
  BY <1>2, <1>3, <1>5, <1>6

LEMMA RingTyped ==
  ASSUME TInv
  PROVE  /\ rx \in Seq(Nat) /\ fifo \in Seq(Nat)
         /\ Len(rx) \in Nat /\ rx_rb_last_length \in Nat
         /\ request.state \in {"ready", "processing"}
         /\ wire \in {"idle", "rx"}
         /\ DOMAIN talker = {"frame", "size", "left", "gap", "least"}
<1>1. rx \in Seq(Nat) /\ fifo \in Seq(Nat)
  BY DEF TInv, SInv, SplitTypeInv, IInv, TypeInv
<1>2. QED
  BY <1>1 DEF TInv, FrameTypeInv, TypeOK

LEMMA LeastBounds ==
  ASSUME NEW m \in Nat, NEW n \in Nat
  PROVE  /\ Least(m, n) \in Nat /\ Least(m, n) <= m
         /\ m <= n => Least(m, n) = m
         /\ n <= m => Least(m, n) = n
  BY DEF Least

LEMMA InitFar == Init => FarInv
  BY DEF Init, Ready, FarInv, Settled

\* Time passes: every bound on the pause grows as the pause does.
LEMMA PauseInTime ==
  ASSUME TInv, Expected, talker.left = 0, BusPauses
  PROVE  InTime'
<1>1. /\ UNCHANGED <<fifo, rx, wire, rx_rb_last_length>>
      /\ lag' = lag + 1 /\ timer' = Least(timer + 1, Silence)
      /\ talker'.gap = Least(talker.gap + 1, Deadline + 1)
  BY RingTyped DEF BusPauses, Pass, rtu_vars
<1>2. talker'.gap \in Nat /\ talker'.gap <= talker.gap + 1
  <2>1. talker.gap + 1 \in Nat /\ Deadline + 1 \in Nat
    BY Numbers, DeadlineSum
  <2>2. QED
    BY <1>1, <2>1, LeastBounds
<1>3. /\ timer < Silence => timer' = timer + 1
      /\ timer = Silence => timer' = Silence
  <2>1. timer \in Nat /\ timer + 1 \in Nat /\ Silence \in Nat
    BY Numbers, DeadlineSum
  <2>2. timer < Silence => timer + 1 <= Silence
    BY <2>1
  <2>3. timer = Silence => Silence <= timer + 1
    BY <2>1
  <2>4. QED
    BY <1>1, <2>1, <2>2, <2>3, LeastBounds
<1> DEFINE turns == TurnsAfterSilence
           gap   == talker.gap
<1>4. turns \in Nat /\ TurnsAfterSilence' = turns
  BY <1>1, DeadlineSum DEF TurnsAfterSilence
<1>5. /\ fifo # <<>> => gap < lag
      /\ fifo = <<>> /\ timer < Silence => gap <= timer + LoopTime - 1
      /\ fifo = <<>> /\ timer = Silence =>
           gap <= Silence + LoopTime - 2 + turns + lag
  BY DEF Expected, InTime
<1>6. /\ gap \in Nat /\ talker'.gap \in Nat /\ talker'.gap <= gap + 1
      /\ lag \in Nat /\ timer \in 0..Silence
      /\ Silence \in Nat \ {0} /\ LoopTime \in Nat \ {0}
  BY <1>2, Numbers, DeadlineSum
<1> HIDE DEF turns, gap
<1>7. fifo # <<>> => talker'.gap < lag'
  BY <1>1, <1>5, <1>6
<1>8. fifo = <<>> /\ timer' < Silence => talker'.gap <= timer' + LoopTime - 1
  BY <1>3, <1>5, <1>6
<1>9. fifo = <<>> /\ timer' = Silence =>
        talker'.gap <= Silence + LoopTime - 2 + turns + lag'
  BY <1>1, <1>3, <1>4, <1>5, <1>6
<1>10. QED
  BY <1>1, <1>4, <1>7, <1>8, <1>9 DEF InTime

LEMMA PauseKeepsFar ==
  ASSUME DInv, BusPauses
  PROVE  FarInv'
<1> USE DEF DInv
<1>1. /\ UNCHANGED <<fifo, rx, wire, rx_rb_last_length, request, judged, pc,
                     seen>>
      /\ talker'.left = talker.left /\ talker'.size = talker.size
      /\ talker'.frame = talker.frame /\ talker'.least = talker.least
      /\ talker'.gap = Least(talker.gap + 1, Deadline + 1)
      /\ lag' = lag + 1
  BY RingTyped DEF BusPauses, Pass, rtu_vars
<1>2. TalkersFrame' = TalkersFrame /\ Far' = Far
  BY <1>1 DEF TalkersFrame, Far
<1>3. CASE Far /\ seen
  <2>1. Settled
    BY <1>3 DEF FarInv
  <2>2. talker'.gap \in Nat /\ talker'.gap <= talker.gap + 1
    <3>1. talker.gap + 1 \in Nat /\ Deadline + 1 \in Nat
      BY Numbers, DeadlineSum
    <3>2. QED
      BY <1>1, <3>1, LeastBounds
  <2>3. talker.gap <= FoundBy + lag => talker'.gap <= FoundBy + (lag + 1)
    BY <2>2, Numbers, DeadlineSum
  <2>4. QED
    BY <1>1, <1>2, <1>3, <2>1, <2>3 DEF Settled, FarInv
<1>4. CASE Far /\ ~seen
  <2>1. Expected
    BY <1>4 DEF FarInv
  <2>2. talker.left = 0 => InTime'
    BY <2>1, PauseInTime
  <2>3. QED
    BY <1>1, <1>2, <1>4, <2>1, <2>2 DEF Expected, FarInv
<1>5. QED
  BY <1>2, <1>3, <1>4 DEF FarInv

\* A sequence of equal elements grows by one.
LEMMA EqualGrows ==
  ASSUME NEW S, NEW b \in S, NEW n \in Nat
  PROVE  [i \in 1..(n + 1) |-> b] = Append([i \in 1..n |-> b], b)
  OBVIOUS

\* An element appended to the second of two sequences is the last of both.
LEMMA AppendedLast ==
  \A r, t \in Seq(Nat), b \in Nat : r \o Append(t, b) = Append(r \o t, b)
<1> SUFFICES ASSUME NEW r \in Seq(Nat), NEW t \in Seq(Nat), NEW b \in Nat
             PROVE  r \o Append(t, b) = Append(r \o t, b)
  OBVIOUS
<1>1. Append(t, b) = t \o <<b>> /\ <<b>> \in Seq(Nat)
  BY AppendIsConcat
<1>2. Append(r \o t, b) = (r \o t) \o <<b>>
  BY AppendIsConcat, ConcatProperties
<1>3. QED
  BY <1>1, <1>2, ConcatAssociative

LEMMA ByteKeepsFar ==
  ASSUME DInv, BusByte
  PROVE  FarInv'
<1> USE DEF DInv
<1>1. /\ UNCHANGED <<rx, wire, rx_rb_last_length, request, pc, seen>>
      /\ talker'.left = talker.left - 1 /\ talker'.size = talker.size
      /\ talker'.frame = talker.frame /\ talker'.least = talker.least
      /\ talker'.gap = 0 /\ talker.left > 0
      /\ lag' = lag + 1 /\ fifo' = Append(fifo, talker.frame)
  BY RingTyped DEF BusByte, Completed, Pass, rtu_vars
<1>2. SUFFICES ASSUME Far PROVE FarInv'
  BY <1>1 DEF Far, FarInv
<1>3. Expected /\ ~seen
  BY <1>1, <1>2, Numbers DEF FarInv, Settled
<1>4. talker'.left < talker'.size
  BY <1>1, <1>3, Numbers DEF Expected
<1>5. TalkersFrame' = Append(TalkersFrame, talker.frame)
  <2>1. talker'.size - talker'.left = (talker.size - talker.left) + 1
        /\ talker.size - talker.left \in Nat
    BY <1>1, <1>3, Numbers DEF Expected
  <2> DEFINE n == talker.size - talker.left
  <2>2. [i \in 1..(n + 1) |-> talker.frame]
           = Append([i \in 1..n |-> talker.frame], talker.frame)
    BY <2>1, Numbers, EqualGrows
  <2>3. TalkersFrame' = [i \in 1..(n + 1) |-> talker.frame]
    BY <1>1, <2>1 DEF TalkersFrame
  <2>4. QED
    BY <2>2, <2>3 DEF TalkersFrame
<1>6. rx' \o fifo' = TalkersFrame'
  <2>1. rx \in Seq(Nat) /\ fifo \in Seq(Nat) /\ talker.frame \in Nat
    BY RingTyped, Numbers
  <2>2. rx \o Append(fifo, talker.frame) = Append(rx \o fifo, talker.frame)
    BY <2>1, AppendedLast, Zenon
  <2>3. QED
    BY <1>1, <1>3, <1>5, <2>2 DEF Expected
<1>7. InTime'
  <2>1. fifo' # <<>>
    BY <1>1, RingTyped
  <2>2. talker'.gap < lag'
    BY <1>1, Numbers
  <2>3. QED
    BY <2>1, <2>2 DEF InTime
<1>8. QED
  BY <1>1, <1>3, <1>4, <1>6, <1>7 DEF Expected, FarInv

\* Another frame does not begin before the one before it is dealt with.
LEMMA FrameKeepsFar ==
  ASSUME DInv, BusFrame
  PROVE  FarInv'
<1> USE DEF DInv
<1>1. PICK n \in FrameSizes :
        talker' = [talker EXCEPT !.frame = @ + 1, !.size = n, !.left = n - 1,
                                 !.gap = 0]
  BY DEF BusFrame
<1>2. /\ UNCHANGED <<rx, wire, rx_rb_last_length, request, pc>>
      /\ talker'.left = n - 1 /\ talker'.size = n
      /\ talker'.frame = talker.frame + 1 /\ talker'.least = talker.least
      /\ talker'.gap = 0 /\ lag' = lag + 1 /\ seen' = FALSE
      /\ fifo' = Append(fifo, talker'.frame)
  BY <1>1, RingTyped DEF BusFrame, Completed, Pass, rtu_vars
<1>3. SUFFICES ASSUME Far PROVE FarInv'
  BY <1>2 DEF Far, FarInv
<1>4. talker.left = 0 /\ request.state = "ready" /\ talker.gap >= Deadline
  <2>1. talker.gap + 1 >= talker.least /\ talker.least > Deadline
    BY <1>3 DEF BusFrame, Far
  <2>2. talker.gap >= Deadline
    BY <2>1, Numbers, DeadlineSum
  <2>3. QED
    BY <2>2 DEF BusFrame
<1>5. \/ pc = "judge" /\ lag < JudgeTime
      \/ pc # "judge" /\ lag < LoopTime
  BY DEF BusFrame, Pass
<1>6. seen
  <2>1. SUFFICES ASSUME ~seen PROVE FALSE
    OBVIOUS
  <2>2. Expected /\ InTime
    BY <1>3, <1>4, <2>1 DEF FarInv, Expected
  <2>3. lag < LoopTime
    BY <1>5, <2>2 DEF Expected
  <2>4. TurnsAfterSilence \in Nat /\ TurnsAfterSilence <= 3 * LoopTime
    BY DeadlineSum DEF TurnsAfterSilence
  <2> DEFINE turns == TurnsAfterSilence
             gap   == talker.gap
  <2>5. /\ lag \in Nat /\ gap \in Nat /\ timer \in 0..Silence
        /\ LoopTime \in Nat \ {0} /\ Silence \in Nat \ {0}
        /\ gap >= Silence + LoopTime - 2 + 4 * LoopTime
    BY <1>4, Numbers, DeadlineSum DEF FoundBy
  <2>6. \/ gap < lag
        \/ timer < Silence /\ gap <= timer + LoopTime - 1
        \/ gap <= Silence + LoopTime - 2 + turns + lag
    BY <2>2, <2>5 DEF InTime
  <2> HIDE DEF turns, gap
  <2>7. QED
    BY <2>3, <2>4, <2>5, <2>6 DEF turns
<1>7. Settled /\ pc # "judge"
  <2>1. Settled
    BY <1>3, <1>6 DEF FarInv
  <2>2. SUFFICES ASSUME pc = "judge" PROVE FALSE
    BY <2>1
  <2>3. talker.gap <= FoundBy + lag /\ lag < JudgeTime
    BY <1>5, <2>1, <2>2 DEF Settled
  <2>4. QED
    BY <1>4, <2>3, Numbers, DeadlineSum
<1>8. rx = <<>> /\ fifo = <<>>
  BY <1>4, <1>7 DEF Settled
<1>9. n \in Nat \ {0} /\ talker'.size - talker'.left = 1
      /\ talker'.left < talker'.size
  BY <1>2, TimingAssumption
<1>10. rx' \o fifo' = TalkersFrame'
  <2>1. rx' \o fifo' = <<talker'.frame>>
    BY <1>2, <1>8
  <2>2. TalkersFrame' = [i \in 1..1 |-> talker'.frame]
    BY <1>9 DEF TalkersFrame
  <2>3. QED
    BY <2>1, <2>2
<1>11. InTime'
  <2>1. fifo' # <<>>
    BY <1>2, RingTyped
  <2>2. talker'.gap < lag'
    BY <1>2, Numbers
  <2>3. QED
    BY <2>1, <2>2 DEF InTime
<1>12. QED
  BY <1>2, <1>4, <1>7, <1>9, <1>10, <1>11 DEF Expected, FarInv

\* What the FIFO held is in the ring, and the silence begins anew.
LEMMA ReceptionKeepsFar ==
  ASSUME DInv, Drain \/ RxInterrupt \/ rs485_rxa_irq_handler
  PROVE  FarInv'
<1> USE DEF DInv
<1>1. /\ rx' = rx \o fifo /\ fifo' = <<>>
      /\ UNCHANGED <<lag, wire, rx_rb_last_length, request, talker, judged,
                     seen>>
      /\ pc' = "judge" <=> pc = "judge"
      /\ fifo = <<>> => timer' = timer \/ (timer' = 0 /\ talker.gap = 0)
      /\ fifo # <<>> => timer' = 0
  <2>1. CASE Drain
    BY <2>1 DEF Drain, DrainRxFifo, rtu_vars
  <2>2. CASE RxInterrupt \/ rs485_rxa_irq_handler
    <3>1. fifo = <<>> => talker.gap = 0
      <4>1. Len(fifo) > RxFifoLimit \/ alternate # {}
        BY <2>2 DEF RxInterrupt, RxInterruptRequested, rs485_rxa_irq_handler
      <4>2. fifo = <<>> => alternate # {}
        BY <4>1, TimingAssumption
      <4>3. QED
        BY <4>2 DEF TInv, SInv, TimerInv
    <3>2. QED
      BY <2>2, <3>1 DEF RxInterrupt, rs485_rxa_irq_handler,
         rs485_rx_irq_handler, rtu_vars
  <2>3. QED
    BY <2>1, <2>2
<1>2. TalkersFrame' = TalkersFrame /\ Far' = Far
  BY <1>1 DEF TalkersFrame, Far
<1>3. fifo = <<>> => rx' = rx
  BY <1>1, RingTyped
<1>4. CASE Far /\ seen
  <2>1. Settled
    BY <1>4 DEF FarInv
  <2>2. rx' = rx /\ fifo' = fifo
    BY <1>1, <1>3, <2>1 DEF Settled
  <2>3. QED
    BY <1>1, <1>2, <1>4, <2>1, <2>2 DEF Settled, FarInv
<1>5. CASE Far /\ ~seen
  <2>1. Expected
    BY <1>5 DEF FarInv
  <2>2. rx' \o fifo' = rx \o fifo
    BY <1>1, RingTyped
  <2>3. talker.left = 0 => InTime'
    <3>1. SUFFICES ASSUME talker.left = 0 PROVE InTime'
      OBVIOUS
    <3>2. InTime
      BY <2>1, <3>1 DEF Expected
    <3>3. CASE fifo = <<>>
      <4>1. CASE timer' = timer
        BY <1>1, <1>3, <3>2, <3>3, <4>1 DEF InTime, TurnsAfterSilence
      <4>2. CASE timer' = 0 /\ talker.gap = 0
        <5>1. 0 <= 0 + LoopTime - 1 /\ 0 # Silence
          BY DeadlineSum
        <5>2. QED
          BY <1>1, <4>2, <5>1 DEF InTime
      <4>3. QED
        BY <1>1, <3>3, <4>1, <4>2
    <3>4. CASE fifo # <<>>
      <4>1. talker.gap < lag /\ lag <= LoopTime
        BY <2>1, <3>2, <3>4 DEF InTime, Expected, TInv, LagInv
      <4>2. talker.gap <= 0 + LoopTime - 1 /\ 0 # Silence
        BY <4>1, Numbers, DeadlineSum
      <4>3. QED
        BY <1>1, <3>4, <4>2 DEF InTime
    <3>5. QED
      BY <3>3, <3>4
  <2>4. QED
    BY <1>1, <1>2, <1>5, <2>1, <2>2, <2>3 DEF Expected, FarInv
<1>6. QED
  BY <1>2, <1>4, <1>5 DEF FarInv

\* The silence is over, so the wire goes idle.
LEMMA EndRxKeepsFar ==
  ASSUME DInv, Look, pc' = "rest", lag' = 0, EndRx, Far
  PROVE  ~seen /\ Expected'
<1> USE DEF DInv
<1>1. /\ fifo = <<>> /\ wire = "rx" /\ timer = Silence /\ wire' = "idle"
      /\ UNCHANGED <<timer, fifo, talker, rx, rx_rb_last_length, request, seen>>
  BY Numbers, DeadlineSum
     DEF Look, EndRx, TInv, SInv, IInv, FifoKeepsUp
<1>2. ~seen /\ Expected
  BY <1>1 DEF FarInv, Settled
<1>3. ASSUME talker.left = 0
      PROVE  InTime'
  <2>1. talker.gap <= Silence + LoopTime - 2 + TurnsAfterSilence + lag
    BY <1>1, <1>2, <1>3 DEF Expected, InTime
  <2>2. lag <= LoopTime
    BY <1>2 DEF Expected, TInv, LagInv
  <2>3. TurnsAfterSilence' = TurnsAfterSilence + LoopTime
        /\ TurnsAfterSilence \in Nat
    BY <1>1, DeadlineSum DEF TurnsAfterSilence
  <2> DEFINE turns == TurnsAfterSilence
             gap   == talker.gap
  <2>4. /\ gap \in Nat /\ turns \in Nat /\ lag \in Nat
        /\ LoopTime \in Nat /\ Silence \in Nat
        /\ gap <= Silence + LoopTime - 2 + turns + lag /\ lag <= LoopTime
    BY <2>1, <2>2, <2>3, Numbers, DeadlineSum
  <2> HIDE DEF turns, gap
  <2>5. gap <= Silence + LoopTime - 2 + (turns + LoopTime) + 0
    BY <2>4
  <2>6. QED
    BY <1>1, <2>3, <2>5, DeadlineSum DEF InTime, turns, gap
<1>4. TalkersFrame' = TalkersFrame
  BY <1>1 DEF TalkersFrame
<1>5. QED
  BY <1>1, <1>2, <1>3, <1>4 DEF Expected

\* The ring is longer than at the last look.
LEMMA StartRxKeepsFar ==
  ASSUME DInv, Look, pc' = "rest", lag' = 0, StartRx, Far
  PROVE  ~seen /\ Expected'
<1> USE DEF DInv
<1>1. /\ fifo = <<>> /\ wire = "idle" /\ wire' = "rx"
      /\ request.state = "ready" /\ pc = "look"
      /\ Len(rx) > rx_rb_last_length /\ rx_rb_last_length' = Len(rx)
      /\ UNCHANGED <<timer, fifo, talker, rx, request, seen>>
  BY DEF Look, StartRx, TInv, SInv, IInv, FifoKeepsUp
<1>2. ~seen /\ Expected
  <2>1. ~(rx = <<>> /\ rx_rb_last_length = 0)
    BY <1>1
  <2>2. ~Settled
    BY <1>1, <2>1 DEF Settled
  <2>3. QED
    BY <2>2 DEF FarInv
<1>3. ASSUME talker.left = 0
      PROVE  InTime'
  <2>1. CASE timer < Silence
    BY <1>1, <1>2, <1>3, <2>1, Numbers, DeadlineSum DEF Expected, InTime
  <2>2. CASE timer = Silence
    <3>1. TurnsAfterSilence = LoopTime /\ TurnsAfterSilence' = 2 * LoopTime
      BY <1>1, RingTyped DEF TurnsAfterSilence
    <3>2. talker.gap <= Silence + LoopTime - 2 + LoopTime + lag
      BY <1>1, <1>2, <1>3, <2>2, <3>1 DEF Expected, InTime
    <3>3. lag <= LoopTime
      BY <1>2 DEF Expected, TInv, LagInv
    <3>4. talker.gap <= Silence + LoopTime - 2 + 2 * LoopTime + 0
      BY <3>2, <3>3, Numbers, DeadlineSum
    <3>5. QED
      BY <1>1, <2>2, <3>1, <3>4, DeadlineSum DEF InTime
  <2>3. QED
    BY <2>1, <2>2, Numbers, DeadlineSum
<1>4. TalkersFrame' = TalkersFrame
  BY <1>1 DEF TalkersFrame
<1>5. QED
  BY <1>1, <1>2, <1>3, <1>4 DEF Expected

\* The frame is found: it is complete and alone in the ring.
LEMMA FoundKeepsFar ==
  ASSUME DInv, Look, BeginJudgement, Far
  PROVE  seen' /\ Settled'
<1> USE DEF DInv
<1>1. /\ fifo = <<>> /\ wire = "idle" /\ request.state = "ready"
      /\ pc = "look" /\ pc' = "judge" /\ lag' = 0 /\ judged' = rx
      /\ Len(rx) > 0 /\ Len(rx) = rx_rb_last_length
      /\ seen' = (seen \/ (talker.left = 0 /\ rx = TalkersFrame))
      /\ UNCHANGED <<timer, fifo, talker, rx, wire, rx_rb_last_length, request>>
  BY DEF Look, BeginJudgement, FrameAvailable, TInv, SInv, IInv, FifoKeepsUp,
     rtu_vars
<1>2. ~seen /\ Expected
  <2>1. rx # <<>>
    BY <1>1
  <2>2. ~Settled
    BY <1>1, <2>1 DEF Settled
  <2>3. QED
    BY <2>2 DEF FarInv
<1>3. rx = TalkersFrame
  BY <1>1, <1>2, RingTyped DEF Expected
<1>4. talker.left = 0
  <2>1. FrameNotSplit'
    BY LookSplitStep DEF TInv, SInv
  <2>2. Len(rx) \in Nat /\ 1 \in 1..Len(rx)
    BY <1>1, RingTyped
  <2>3. talker.size - talker.left >= 1 => rx[1] = talker.frame
    BY <1>3, Numbers DEF TalkersFrame
  <2>4. talker.size - talker.left >= 1
    BY <1>2, Numbers DEF Expected
  <2>5. QED
    BY <1>1, <2>1, <2>2, <2>3, <2>4, Numbers DEF FrameNotSplit
<1>5. talker.gap <= FoundBy + 0
  <2>1. lag <= LoopTime /\ InTime
    BY <1>2, <1>4 DEF Expected, TInv, LagInv
  <2>2. CASE timer < Silence
    <3>1. talker.gap <= timer + LoopTime - 1
      BY <1>1, <2>1, <2>2 DEF InTime
    <3>2. QED
      BY <2>2, <3>1, Numbers, DeadlineSum DEF FoundBy
  <2>3. CASE timer = Silence
    <3>1. TurnsAfterSilence = 3 * LoopTime
      BY <1>1, RingTyped DEF TurnsAfterSilence
    <3>2. talker.gap <= Silence + LoopTime - 2 + 3 * LoopTime + lag
      BY <1>1, <2>1, <2>3, <3>1 DEF InTime
    <3>3. QED
      BY <2>1, <3>2, Numbers, DeadlineSum DEF FoundBy
  <2>4. QED
    BY <2>2, <2>3, Numbers, DeadlineSum
<1>6. TalkersFrame' = TalkersFrame
  BY <1>1 DEF TalkersFrame
<1>7. QED
  BY <1>1, <1>3, <1>4, <1>5, <1>6 DEF Settled

\* A look that does nothing comes before the end of the silence, or when
\* nothing is left of the frame.
LEMMA NothingKeepsFar ==
  ASSUME DInv, Look, pc' = "rest", lag' = 0, NothingToDo, Far
  PROVE  IF seen THEN Settled' ELSE Expected'
<1> USE DEF DInv
<1>1. /\ fifo = <<>> /\ pc = "look"
      /\ ~(wire = "rx" /\ timer >= Silence)
      /\ wire = "idle" /\ request.state = "ready" => Len(rx) = 0
      /\ UNCHANGED <<timer, fifo, talker, rx, wire, rx_rb_last_length, request,
                     judged>>
  BY DEF Look, NothingToDo, TInv, SInv, IInv, FifoKeepsUp, rtu_vars
<1>2. TalkersFrame' = TalkersFrame
  BY <1>1 DEF TalkersFrame
<1>3. CASE seen
  <2>1. Settled
    BY <1>3 DEF FarInv
  <2>2. QED
    BY <1>1, <1>3, <2>1 DEF Settled
<1>4. CASE ~seen
  <2>1. Expected
    BY <1>4 DEF FarInv
  <2>2. ASSUME talker.left = 0
        PROVE  InTime'
    <3>1. rx = TalkersFrame
      BY <1>1, <2>1, RingTyped DEF Expected
    <3>2. Len(rx) = talker.size - talker.left
      BY <2>1, <3>1, Numbers DEF TalkersFrame, Expected
    <3>3. Len(rx) # 0
      BY <2>1, <3>2, Numbers DEF Expected
    <3>4. wire # "idle"
      BY <1>1, <2>1, <3>3 DEF Expected
    <3>5. timer < Silence
      BY <1>1, <3>4, RingTyped, Numbers, DeadlineSum
    <3>6. QED
      BY <1>1, <2>1, <2>2, <3>5, Numbers, DeadlineSum DEF Expected, InTime
  <2>3. QED
    BY <1>1, <1>2, <1>4, <2>1, <2>2 DEF Expected
<1>5. QED
  BY <1>3, <1>4

LEMMA LookKeepsFar ==
  ASSUME DInv, Look
  PROVE  FarInv'
<1>1. talker' = talker
  BY DEF Look
<1>2. SUFFICES ASSUME Far PROVE FarInv'
  BY <1>1 DEF Far, FarInv
<1>3. CASE BeginJudgement
  BY <1>2, <1>3, FoundKeepsFar DEF FarInv
<1>4. CASE pc' = "rest" /\ lag' = 0 /\ EndRx
  BY <1>2, <1>4, EndRxKeepsFar DEF FarInv, EndRx
<1>5. CASE pc' = "rest" /\ lag' = 0 /\ StartRx
  BY <1>2, <1>5, StartRxKeepsFar DEF FarInv, StartRx
<1>6. CASE pc' = "rest" /\ lag' = 0 /\ NothingToDo
  <2>1. seen' = seen
    BY <1>6 DEF NothingToDo
  <2>2. QED
    BY <1>2, <1>6, <2>1, NothingKeepsFar DEF FarInv
<1>7. CASE Supersede
  <2>1. request.state = "processing" /\ request.length < Len(rx)
        /\ pc = "look"
    BY <1>7 DEF Supersede, Look
  <2>2. ~Settled /\ ~Expected
    BY <2>1, RingTyped DEF Settled, Expected, DInv
  <2>3. QED
    BY <1>2, <2>2 DEF DInv, FarInv
<1>8. QED
  BY <1>3, <1>4, <1>5, <1>6, <1>7 DEF Look

LEMMA RestKeepsFar ==
  ASSUME DInv, EndJudgement \/ EndRequest \/ EndOfLoop
  PROVE  FarInv'
<1>1. /\ UNCHANGED <<timer, fifo, talker, judged, seen>>
      /\ pc' \in {"rest", "drain"}
  BY DEF EndJudgement, EndRequest, EndOfLoop
<1>2. SUFFICES ASSUME Far PROVE FarInv'
  BY <1>1 DEF Far, FarInv
<1>3. CASE EndJudgement
  <2>1. seen /\ Settled
    BY <1>2, <1>3 DEF EndJudgement, DInv, FarInv, Expected
  <2>2. CASE modbus_clear_request
    BY <1>1, <2>1, <2>2 DEF modbus_clear_request, Ready, Settled, FarInv
  <2>3. CASE /\ request' = [state |-> "processing", length |-> Len(rx)]
             /\ UNCHANGED <<rx, wire, rx_rb_last_length>>
    BY <1>1, <2>1, <2>3 DEF Settled, FarInv
  <2>4. QED
    BY <1>3, <2>2, <2>3 DEF EndJudgement
<1>4. CASE EndRequest
  <2>1. seen /\ Settled
    BY <1>2, <1>4 DEF EndRequest, DInv, FarInv, Expected
  <2>2. QED
    BY <1>1, <1>4, <2>1
       DEF EndRequest, modbus_clear_request, Ready, Settled, FarInv
<1>5. CASE EndOfLoop
  <2>1. /\ pc = "rest" /\ pc' = "drain"
        /\ UNCHANGED <<lag, timer, fifo, rx, wire, rx_rb_last_length, request,
                       talker, judged, seen>>
    BY <1>5 DEF EndOfLoop, rtu_vars
  <2>2. TalkersFrame' = TalkersFrame /\ InTime' = InTime
    BY <2>1 DEF TalkersFrame, InTime, TurnsAfterSilence
  <2>3. QED
    BY <1>2, <2>1, <2>2 DEF DInv, FarInv, Settled, Expected
<1>6. QED
  BY <1>3, <1>4, <1>5

LEMMA DInvInductive == DInv /\ [Next]_vars => DInv'
<1> SUFFICES ASSUME DInv, [Next]_vars PROVE DInv'
  OBVIOUS
<1>1. TInv'
  BY TInvInductive DEF DInv
<1>2. CASE Next
  BY <1>1, <1>2, PauseKeepsFar, ByteKeepsFar, FrameKeepsFar, ReceptionKeepsFar,
     LookKeepsFar, RestKeepsFar DEF Next, DInv
<1>3. CASE UNCHANGED vars
  <2>1. UNCHANGED <<pc, lag, timer, fifo, rx, wire, rx_rb_last_length, request,
                    talker, judged, seen>>
    BY <1>3 DEF vars, rtu_vars
  <2>2. TalkersFrame' = TalkersFrame /\ InTime' = InTime
    BY <2>1 DEF TalkersFrame, InTime, TurnsAfterSilence
  <2>3. QED
    BY <1>1, <2>1, <2>2 DEF DInv, FarInv, Far, Settled, Expected
<1>4. QED
  BY <1>2, <1>3

THEOREM TimingInvariant == Spec => []DInv
<1>1. Init => DInv
  BY InitSInv, InitTypes, InitFar DEF DInv, TInv
<1>2. QED
  BY <1>1, DInvInductive, PTL DEF Spec

\* When frames are far enough apart the ring holds, whenever its contents are
\* judged, one whole frame: the one that was sent last.
THEOREM JudgedSingly == Spec => []FramesJudgedSingly
<1>1. DInv => FramesJudgedSingly
  BY DEF DInv, FarInv, Far, Settled, Expected, FramesJudgedSingly
<1>2. QED
  BY <1>1, TimingInvariant, PTL

\* When frames are far enough apart, each has been found by the deadline, for
\* every silence, every length of a turn and every duration of a judgement.
THEOREM FoundInTime == Spec => []JudgedInTime
<1>1. DInv => JudgedInTime
  <2>1. SUFFICES ASSUME DInv, Far, talker.left = 0, talker.gap > Deadline, ~seen
                 PROVE  FALSE
    BY DEF JudgedInTime, Far
  <2>2. Expected /\ InTime /\ lag <= LoopTime
    BY <2>1 DEF DInv, FarInv, Expected, TInv, LagInv
  <2>3. TurnsAfterSilence \in Nat /\ TurnsAfterSilence <= 3 * LoopTime
    BY DeadlineSum DEF TurnsAfterSilence
  <2> DEFINE turns == TurnsAfterSilence
             gap   == talker.gap
  <2>4. /\ lag \in Nat /\ gap \in Nat /\ timer \in 0..Silence
        /\ LoopTime \in Nat \ {0} /\ Silence \in Nat \ {0}
        /\ gap > Silence + LoopTime - 2 + 4 * LoopTime
    BY <2>1, Numbers, DeadlineSum DEF FoundBy, DInv
  <2>5. \/ gap < lag
        \/ timer < Silence /\ gap <= timer + LoopTime - 1
        \/ gap <= Silence + LoopTime - 2 + turns + lag
    BY <2>2, <2>4 DEF InTime
  <2> HIDE DEF turns, gap
  <2>6. QED
    BY <2>2, <2>3, <2>4, <2>5 DEF turns
<1>2. QED
  BY <1>1, TimingInvariant, PTL
==============================================================================
