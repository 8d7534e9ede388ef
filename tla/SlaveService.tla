----------------------------- MODULE SlaveService ----------------------------
(***************************************************************************)
(* What the Bricklet promises in Modbus slave mode, without the wire state *)
(* machine, the rings, ids and chunks: it serves one frame at a time.  The *)
(* host is offered a request packet by packet, and answers it when it has  *)
(* been offered all of it; an exception may take the place of the answer.  *)
(* At most one response is sent for a request, and it ends the request; so *)
(* does giving up, for new traffic on the bus or because a broadcast needs *)
(* no response.  ModbusSlave implements it                                 *)
(* (ModbusSlave!ImplementsSlaveService).                                   *)
(***************************************************************************)
EXTENDS Naturals

CONSTANTS
  Packets(_),  \* how many packets the host needs to know a frame
  NoFrame      \* stands for no frame

VARIABLES
  serving,     \* the frame that is served
  stage,       \* "idle", "offering", "offered", or the response on the wire:
               \* "answer" or "exception"
  told         \* how many packets of the frame the host has been sent

service == <<serving, stage, told>>

Responses == {"answer", "exception"}

Become(s) == stage' = s /\ UNCHANGED serving

------------------------------------------------------------------------------
Init ==
  /\ serving = NoFrame
  /\ stage = "idle"
  /\ told = 0

\* A frame is taken up, or refused at once with an exception: the function is
\* not one the slave has.  No frame of another slave is served.
Take ==
  /\ stage = "idle"
  /\ serving' # NoFrame /\ serving'.addr # "other"
  /\ stage' \in {"offering", "exception"}
  /\ stage' = "exception" <=> serving'.fc = "unimplemented"
  /\ told' = 0

\* The next packet goes to the host; with the last one it has been offered.
Offer ==
  /\ stage = "offering"
  /\ told < Packets(serving)
  /\ told' = told + 1
  /\ Become(IF told' = Packets(serving) THEN "offered" ELSE "offering")

\* The host answers.  Nobody is answered for a broadcast.
Answer ==
  /\ stage = "offered"
  /\ serving.addr = "me"
  /\ Become("answer")
  /\ UNCHANGED told

\* The host reports an exception, or the request is found to be invalid
\* before the host was told any of it.
Except ==
  /\ \/ stage = "offered" /\ serving.addr = "me"
     \/ stage = "offering" /\ told = 0
  /\ Become("exception")
  /\ UNCHANGED told

BackToIdle ==
  /\ stage' = "idle"
  /\ serving' = NoFrame
  /\ told' = 0

\* The response has gone out.
Finish == stage \in Responses /\ BackToIdle

\* The request is dropped without a response.
GiveUp == stage \in {"offering", "offered"} /\ BackToIdle

Next == Take \/ Offer \/ Answer \/ Except \/ Finish \/ GiveUp

Spec == Init /\ [][Next]_service
==============================================================================
