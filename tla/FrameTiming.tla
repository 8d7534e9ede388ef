----------------------------- MODULE FrameTiming ------------------------------
(***************************************************************************)
(* How the Bricklet finds the frames of Modbus RTU in the stream of bytes: *)
(* by the silence between them.  The other modules let a silence happen at *)
(* any time; here time passes in characters.  Bytes wait in the receive    *)
(* FIFO until an interrupt or the tick moves them to the ring; only then   *)
(* is the silence timer reset.  The main loop looks at the ring now and    *)
(* then, and needs time to judge a frame.  With parity configured, a       *)
(* damaged byte requests its interrupts at any fill level of the FIFO.     *)
(*                                                                         *)
(* A byte is the number of the frame it belongs to.                        *)
(***************************************************************************)
EXTENDS Integers, Sequences

CONSTANTS
  Silence,      \* time_4_chars_us, in characters
  MaxPause,     \* within a frame: from one byte to the next at most
  FrameGaps,    \* from one frame to the next at least: one is chosen
  LoopTime,     \* from one tick to the next at most
  JudgeTime,    \* to check a frame at most: checksum, address, function code
  RxFifoLimit,  \* above this fill level the FIFO requests the RX interrupt
  FrameSizes,   \* sizes of the frames on the bus
  MaxFrames     \* bound on their number

\* The longest time from the last byte of a frame until it is found.  The byte
\* waits for what is left of a judgement and of a turn of the main loop to be
\* moved to the ring.  The silence ends just after a tick, and a turn later the
\* wire goes idle; it takes three more to notice that the ring has grown since
\* the last look, to go idle again and to find the ring unchanged.
Deadline == (JudgeTime - 1) + LoopTime + Silence + (LoopTime - 1) + 3 * LoopTime

\* The silence is longer than a pause, and a FIFO that fills up from empty
\* does not exceed its limit while a frame is judged.
ASSUME TimingAssumption ==
  /\ Silence \in Nat /\ MaxPause \in Nat \ {0} /\ MaxPause < Silence
  /\ FrameGaps \subseteq (Silence + 1)..(Deadline + 1)
  /\ LoopTime \in Nat \ {0}
  /\ RxFifoLimit \in Nat \ {0} /\ JudgeTime \in 0..RxFifoLimit
  /\ FrameSizes \subseteq Nat \ {0} /\ MaxFrames \in Nat

VARIABLES
  pc,       \* the main loop: "drain", "look", "judge" in rs485_tick, or "rest"
  lag,      \* how long it has been in "rest" or "judge"
  timer,    \* time since the last TIMER_RESET, up to Silence
  fifo,     \* bytes in the receive FIFO
  alternate,\* interrupts a damaged byte has requested: "rxa" from the UART,
            \* "rx" from the alternate event of the FIFO
  rx,       \* bytes in the RX ring
  wire,     \* modbus_rtu.state_wire: "idle" or "rx"
  rx_rb_last_length,
  request,  \* modbus_rtu.request: state and length
  talker,   \* the bus: number and size of the frame, bytes left of it, time
            \* since the last byte, and the least gap between frames
  judged,   \* history: what the ring held when a frame was found in it
  seen,     \* history: the frame of the talker has been found, whole and alone
  disturbed \* history: a damaged byte has come in since the judgement began

rtu_vars == <<wire, rx_rb_last_length, request>>
vars == <<pc, lag, timer, fifo, alternate, rx, rtu_vars, talker, judged, seen,
          disturbed>>

Least(m, n) == IF m < n THEN m ELSE n

------------------------------------------------------------------------------
(* Time and the bus.                                                       *)

\* Mutant of RxInterruptRequested: the FIFO is left at its smallest limit.
RxInterruptPerByte == Len(fifo) > 0 \/ "rx" \in alternate

\* As the receive FIFO and its two events are set up in rs485_init_hardware.
RxInterruptRequested == Len(fifo) > RxFifoLimit \/ "rx" \in alternate

\* One character of time passes, in the checks of a frame or in the rest of
\* the main loop.  Waiting interrupts are served before.  Beyond the silence
\* the time since the last TIMER_RESET makes no difference.
Pass ==
  /\ \/ pc = "rest" /\ lag < LoopTime
     \/ pc = "judge" /\ lag < JudgeTime
  /\ ~RxInterruptRequested /\ alternate = {}
  /\ lag' = lag + 1
  /\ timer' = Least(timer + 1, Silence)
  /\ UNCHANGED <<pc, rx, rtu_vars, judged>>

\* A byte is in the FIFO.  The UART compares its parity, if it has one.
Completed(b) ==
  /\ fifo' = Append(fifo, b)
  /\ \/ UNCHANGED <<alternate, disturbed>>
     \/ alternate' = {"rx", "rxa"} /\ disturbed' = (pc = "judge")

\* No byte is completed.
BusPauses ==
  /\ Pass
  /\ talker.left > 0 => talker.gap + 1 < MaxPause
  /\ talker' = [talker EXCEPT !.gap = Least(@ + 1, Deadline + 1)]
  /\ UNCHANGED <<fifo, alternate, seen, disturbed>>

\* The next byte of the frame is completed.
BusByte ==
  /\ Pass
  /\ talker.left > 0
  /\ talker' = [talker EXCEPT !.left = @ - 1, !.gap = 0]
  /\ Completed(talker.frame)
  /\ UNCHANGED seen

\* The first byte of another frame is completed.  While a request is being
\* processed its master waits for the response.
BusFrame ==
  /\ Pass
  /\ talker.left = 0 /\ talker.gap + 1 >= talker.least
  /\ talker.frame < MaxFrames /\ request.state = "ready"
  /\ \E n \in FrameSizes :
       talker' = [talker EXCEPT !.frame = @ + 1, !.size = n, !.left = n - 1,
                                !.gap = 0]
  /\ Completed(talker'.frame)
  /\ seen' = FALSE

------------------------------------------------------------------------------
(* Reception: the FIFO is emptied into the ring.                           *)

rs485_rx_irq_handler ==
  /\ rx' = rx \o fifo
  /\ fifo' = <<>>
  /\ timer' = 0
  /\ UNCHANGED <<pc, lag, rtu_vars, talker, judged, seen, disturbed>>

\* It is called by two interrupts.
RxInterrupt ==
  /\ RxInterruptRequested
  /\ alternate' = alternate \ {"rx"}
  /\ rs485_rx_irq_handler

rs485_rxa_irq_handler ==
  /\ "rxa" \in alternate
  /\ alternate' = alternate \ {"rxa"}
  /\ rs485_rx_irq_handler

\* Mutant of DrainRxFifo: the tick does not reset the timer.
DrainKeepsTimer ==
  /\ rx' = rx \o fifo
  /\ fifo' = <<>>
  /\ UNCHANGED timer

\* In rs485_tick, with the RX interrupts disabled.
DrainRxFifo ==
  /\ rx' = rx \o fifo
  /\ fifo' = <<>>
  /\ timer' = IF fifo = <<>> THEN timer ELSE 0

Drain ==
  /\ pc = "drain"
  /\ pc' = "look"
  /\ DrainRxFifo
  /\ UNCHANGED <<lag, alternate, rtu_vars, talker, judged, seen, disturbed>>

------------------------------------------------------------------------------
(* modbus_update_rtu_wire_state_machine in slave mode.                     *)

Ready == [state |-> "ready", length |-> 0]

\* Mutant of modbus_clear_request: the ring is not re-initialised.
ClearRequestKeepRing ==
  /\ UNCHANGED rx
  /\ wire' = "idle" /\ rx_rb_last_length' = 0 /\ request' = Ready

\* Mutant of modbus_clear_request: the length of the last look is kept.
ClearRequestKeepLength ==
  /\ rx' = <<>>
  /\ UNCHANGED rx_rb_last_length
  /\ wire' = "idle" /\ request' = Ready

modbus_clear_request ==
  /\ rx' = <<>>
  /\ wire' = "idle" /\ rx_rb_last_length' = 0 /\ request' = Ready

\* timer_us_elapsed_since_last_timer_reset
EndRx ==
  /\ wire = "rx" /\ timer >= Silence
  /\ wire' = "idle"
  /\ UNCHANGED <<rx, rx_rb_last_length, request, judged, seen>>

\* Mutant of StartRx: the length of the ring is not remembered.
StartRxForgetful ==
  /\ wire = "idle" /\ request.state = "ready"
  /\ Len(rx) > rx_rb_last_length
  /\ wire' = "rx"
  /\ UNCHANGED <<rx, rx_rb_last_length, request, judged, seen>>

StartRx ==
  /\ wire = "idle" /\ request.state = "ready"
  /\ Len(rx) > rx_rb_last_length
  /\ wire' = "rx"
  /\ rx_rb_last_length' = Len(rx)
  /\ UNCHANGED <<rx, request, judged, seen>>

FrameAvailable ==
  /\ wire = "idle" /\ request.state = "ready"
  /\ Len(rx) > 0 /\ Len(rx) = rx_rb_last_length

\* What the talker has sent of its frame.
TalkersFrame == [i \in 1..(talker.size - talker.left) |-> talker.frame]

BeginJudgement ==
  /\ FrameAvailable
  /\ pc' = "judge" /\ lag' = 0
  /\ judged' = rx
  /\ seen' = (seen \/ (talker.left = 0 /\ rx = TalkersFrame))
  /\ UNCHANGED <<rx, rtu_vars>>

\* New bytes give up a request that is being processed.  What is moved to the
\* front of the ring is what stands there (see the run slave_superseded).
Supersede ==
  /\ wire = "idle" /\ request.state = "processing"
  /\ request.length < Len(rx)
  /\ rx' = SubSeq(rx, 1, Len(rx) - request.length)
  /\ wire' = "rx" /\ rx_rb_last_length' = 0 /\ request' = Ready
  /\ UNCHANGED <<judged, seen>>

NothingToDo ==
  /\ ~(wire = "rx" /\ timer >= Silence)
  /\ wire = "idle" /\ request.state = "ready" => Len(rx) = 0
  /\ wire = "idle" /\ request.state = "processing" => request.length >= Len(rx)
  /\ UNCHANGED <<rx, rtu_vars, judged, seen>>

Look ==
  /\ pc = "look"
  /\ \/ BeginJudgement
     \/ /\ pc' = "rest" /\ lag' = 0
        /\ EndRx \/ StartRx \/ Supersede \/ NothingToDo
  /\ UNCHANGED <<timer, fifo, alternate, talker, disturbed>>

\* The frame is damaged or for another slave, or it becomes a request whose
\* length is read from the ring once more: what a damaged byte has brought there
\* meanwhile is erased, or counted into the request.
EndJudgement ==
  /\ pc = "judge"
  /\ pc' = "rest" /\ lag' = 0
  /\ \/ modbus_clear_request
     \/ /\ request' = [state |-> "processing", length |-> Len(rx)]
        /\ UNCHANGED <<rx, wire, rx_rb_last_length>>
  /\ disturbed' = FALSE
  /\ UNCHANGED <<timer, fifo, alternate, talker, judged, seen>>

\* The response has been sent.
EndRequest ==
  /\ pc = "rest" /\ request.state = "processing"
  /\ modbus_clear_request
  /\ UNCHANGED <<pc, lag, timer, fifo, alternate, talker, judged, seen, disturbed>>

EndOfLoop ==
  /\ pc = "rest"
  /\ pc' = "drain"
  /\ UNCHANGED <<lag, timer, fifo, alternate, rx, rtu_vars, talker, judged, seen,
                 disturbed>>

------------------------------------------------------------------------------
Init ==
  /\ pc = "drain" /\ lag = 0
  /\ timer = Silence
  /\ fifo = <<>> /\ alternate = {} /\ rx = <<>>
  /\ wire = "idle" /\ rx_rb_last_length = 0 /\ request = Ready
  /\ \E g \in FrameGaps :
       talker = [frame |-> 0, size |-> 0, left |-> 0, gap |-> Deadline + 1,
                 least |-> g]
  /\ judged = <<>> /\ seen = TRUE /\ disturbed = FALSE

Next ==
  \/ BusPauses \/ BusByte \/ BusFrame
  \/ RxInterrupt \/ rs485_rxa_irq_handler
  \/ Drain \/ Look \/ EndJudgement \/ EndRequest \/ EndOfLoop

Spec == Init /\ [][Next]_vars

------------------------------------------------------------------------------
(* Properties.                                                             *)

Byte == 1..MaxFrames

\* Every variable has its type; no length that was remembered is above what is
\* in the ring.
TypeOK ==
  /\ pc \in {"drain", "look", "judge", "rest"}
  /\ lag \in Nat /\ timer \in 0..Silence
  /\ fifo \in Seq(Byte) /\ rx \in Seq(Byte) /\ judged \in Seq(Byte)
  /\ alternate \subseteq {"rx", "rxa"}
  /\ wire \in {"idle", "rx"} /\ rx_rb_last_length \in 0..Len(rx)
  /\ request \in [state: {"ready", "processing"}, length: 0..Len(rx)]
  /\ talker \in [frame: 0..MaxFrames, size: Nat, left: Nat, gap: Nat,
                 least: FrameGaps]
  /\ seen \in BOOLEAN /\ disturbed \in BOOLEAN

\* A frame is never taken for complete while bytes of it are still to come,
\* wherever its bytes wait and whenever the main loop looks at the ring.
FrameNotSplit ==
  pc = "judge" /\ talker.left > 0 =>
    \A i \in 1..Len(judged) : judged[i] # talker.frame

\* While a frame is judged its bytes stay where they are, and none comes behind
\* them unless one comes in damaged: the checks, the length that is read again
\* for the request, and the clearing of the ring are about the same bytes.
JudgedUndisturbed ==
  pc = "judge" =>
    /\ Len(judged) <= Len(rx) /\ \A i \in 1..Len(judged) : rx[i] = judged[i]
    /\ disturbed \/ rx = judged

\* When frames are far enough apart they are judged one by one.
FramesJudgedSingly ==
  pc = "judge" /\ talker.least > Deadline => judged = TalkersFrame

\* When frames are far enough apart each is judged in time: before the
\* deadline it has been found in the ring, whole and alone.
JudgedInTime ==
  talker.least > Deadline /\ talker.left = 0 /\ talker.gap > Deadline => seen

==============================================================================
