---- MODULE MCTcpChannel ----
(* Small instances of TcpChannel: a frame of two segments, capacities below and *)
(* above what the RX buffer holds, and a status reading that is no status.      *)
EXTENDS TcpChannel

MCCapacities == {2, 4}
MCSmallCapacities == {2}
MCGlitches == {"GARBAGE"}
====
