---------------------------- MODULE MCModbusSlave ----------------------------
(* Frames a bus master sends in the model-checking runs of ModbusSlave.    *)
EXTENDS ModbusSlave

Kind(addr, fc, count) == [addr |-> addr, fc |-> fc, count |-> count]

\* Coils: a read answered in 1 and one answered in 2 chunks, an invalid count,
\* a write in one and one in several packets, an invalid value, a foreign and
\* an unimplemented request, and broadcasts.
CoilFrames ==
  { Kind("me", "read_coils", 0), Kind("me", "read_coils", 2),
    Kind("me", "write_single_coil", 1), Kind("me", "write_single_coil", 0),
    Kind("me", "write_multiple_coils", 2), Kind("me", "write_multiple_coils", 0),
    Kind("me", "unimplemented", 1),
    Kind("other", "write_single_coil", 1),
    Kind("broadcast", "read_coils", 1),
    Kind("broadcast", "write_single_coil", 1),
    Kind("broadcast", "write_single_coil", 0) }

\* Registers and inputs: the other five functions.
RegisterFrames ==
  { Kind("me", "read_holding_registers", 2),
    Kind("me", "read_discrete_inputs", 1),
    Kind("me", "read_input_registers", 0),
    Kind("me", "write_single_register", 1),
    Kind("me", "write_multiple_registers", 1),
    Kind("me", "write_multiple_registers", 3),
    Kind("broadcast", "write_multiple_registers", 2) }

AllFrames == CoilFrames \cup RegisterFrames

\* One request of each way to be handled.
MixedFrames ==
  { Kind("me", "read_coils", 2), Kind("me", "read_coils", 0),
    Kind("me", "write_multiple_coils", 2), Kind("me", "unimplemented", 1),
    Kind("broadcast", "read_coils", 1) }
==============================================================================
