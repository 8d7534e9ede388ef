---------------------------- MODULE MasterService ----------------------------
(***************************************************************************)
(* What the Bricklet promises its host in Modbus master mode, without the  *)
(* wire, the rings, the timer or the callbacks' turns: it carries out one  *)
(* request at a time, puts it on the bus before it reports anything about  *)
(* it, hands over a long response packet by packet, and reports the end of *)
(* every request exactly once, with an outcome that fits the request.      *)
(* ModbusMaster implements it (ModbusMaster!ImplementsMasterService).      *)
(***************************************************************************)
EXTENDS Naturals

CONSTANTS
  Reads,      \* function codes whose response carries data
  Writes,     \* function codes whose response is a confirmation
  NoRequest   \* stands for no request

VARIABLES
  pending,    \* the request that is carried out: [addr, fc, count, serial]
  asked,      \* the whole request has gone out on the bus
  received,   \* packets of its response the host has been sent
  report      \* the last message to the host, and how many requests ended:
              \* [outcome, data, packet, ended]

service == <<pending, asked, received, report>>

Idle == pending = NoRequest
IsRead == pending.fc \in Reads
IsBroadcast == pending.addr = "broadcast"

Tell(outcome, data, packet, ended) ==
  report' = [outcome |-> outcome, data |-> data, packet |-> packet,
             ended |-> ended]

------------------------------------------------------------------------------
Init ==
  /\ Idle
  /\ asked = FALSE
  /\ received = 0
  /\ report = [outcome |-> "none", data |-> 0, packet |-> 0, ended |-> 0]

\* The host gets an id for a request.
Accept ==
  /\ Idle
  /\ pending' # NoRequest /\ pending'.fc \in Reads \cup Writes
  /\ asked' = FALSE
  /\ received' = 0
  /\ UNCHANGED report

\* The last byte of the request has gone out.
Send ==
  /\ ~Idle /\ ~asked
  /\ asked' = TRUE
  /\ UNCHANGED <<pending, received, report>>

\* A packet of the response to a read that is not its last.
Part ==
  /\ asked /\ IsRead /\ received + 1 < pending.count
  /\ Tell("part", pending.serial, received, report.ended)
  /\ received' = received + 1
  /\ UNCHANGED <<pending, asked>>

End(outcome, data) ==
  /\ asked
  /\ Tell(outcome, data, received, report.ended + 1)
  /\ pending' = NoRequest
  /\ asked' = FALSE
  /\ received' = 0

\* The last packet of the data, all others having been handed over.
Data == IsRead /\ received + 1 = pending.count /\ End("data", pending.serial)

\* A write is confirmed by the slave; a broadcast by having been sent.
Confirm ==
  /\ pending.fc \in Writes
  /\ End("success", IF IsBroadcast THEN 0 ELSE pending.serial)

\* A slave refused.  No data have been handed over in this case.
Refuse == ~IsBroadcast /\ received = 0 /\ End("exception", pending.serial)

\* No usable reply came in time.
TimeOut == ~IsBroadcast /\ End("timeout", 0)

Next ==
  \/ Accept \/ Send \/ Part
  \/ Data \/ Confirm \/ Refuse \/ TimeOut

Spec == Init /\ [][Next]_service
==============================================================================
