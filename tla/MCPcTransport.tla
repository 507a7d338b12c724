---- MODULE MCPcTransport ----
(* Small instances of PcTransport: clocks whose ticks and milliseconds are no    *)
(* multiples of one another, headers that announce none, an odd, a fitting and   *)
(* too long a payload, and datagrams that are short, exact and long.             *)
EXTENDS PcTransport

MCKinds == {"serial", "tcp", "udp"}
MCTimeouts == {1, 2}
MCLengths == {0, 1, 2, 4}
MCSizes == {1, 2, 3, 4, 5, 6}
====
