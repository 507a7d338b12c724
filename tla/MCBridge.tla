---- MODULE MCBridge ----
(* Small instances of Bridge: one simulation after another over each wire.  *)
EXTENDS Bridge

MCWires == {"tcp", "udp", "serial"}
MCFaultSets == {{}, AllFaults}
====
