---------------------------- MODULE MCModbusMaster ---------------------------
(* Requests of the host in the model-checking runs of ModbusMaster.        *)
EXTENDS ModbusMaster

Kind(addr, fc, count) == [addr |-> addr, fc |-> fc, count |-> count]

\* Every function: reads that are answered in one, two and three packets,
\* writes of one value to a slave and to all, and writes in one and two chunks.
AllRequests ==
  { Kind("slave", "read_coils", 1),
    Kind("slave", "read_holding_registers", 3),
    Kind("slave", "read_discrete_inputs", 1),
    Kind("slave", "read_input_registers", 2),
    Kind("slave", "write_single_coil", 1),
    Kind("broadcast", "write_single_coil", 1),
    Kind("slave", "write_single_register", 1),
    Kind("slave", "write_multiple_coils", 2),
    Kind("slave", "write_multiple_registers", 1) }

\* A read, a broadcast and a write in chunks.
MixedRequests ==
  { Kind("slave", "read_coils", 2),
    Kind("broadcast", "write_single_coil", 1),
    Kind("slave", "write_multiple_coils", 2) }
==============================================================================
