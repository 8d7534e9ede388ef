------------------------------- MODULE MCRawMode ------------------------------
(* Scenarios of the model-checking run of RawMode: each pairs operations    *)
(* that share state.                                                        *)
EXTENDS RawMode

Scenario(ops, calls, bytes, damage, full_duplex) ==
  [ops |-> ops, calls |-> calls, bytes |-> bytes, damage |-> damage,
   full_duplex |-> full_duplex]

MCScenarios ==
  { Scenario({"read"}, 5, 7, FALSE, FALSE),
    Scenario({"read", "read_callback", "buffer"}, 4, 5, FALSE, FALSE),
    Scenario({"read", "frame_readable", "buffer"}, 3, 4, FALSE, FALSE),
    Scenario({"read_callback", "frame_readable", "configuration"}, 3, 4, TRUE, FALSE),
    Scenario({"error_count"}, 2, 6, TRUE, FALSE),
    Scenario({"write", "configuration", "buffer"}, 3, 0, FALSE, FALSE),
    Scenario({"write", "configuration"}, 2, 4, FALSE, TRUE),
    Scenario({"write", "read_callback"}, 2, 2, FALSE, FALSE) }
==============================================================================
