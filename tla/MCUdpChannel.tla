---- MODULE MCUdpChannel ----
(* Small instances of UdpChannel: datagrams that carry a frame without payload,   *)
(* one with an even and one with an odd payload, one whose length field lies, and *)
(* one that is too short and one too long for a frame.                            *)
EXTENDS UdpChannel

CONSTANTS p1, p2

MCPeers == {p1, p2}
MCDatagrams ==
    {[size |-> 4, length |-> 0], [size |-> 6, length |-> 2], [size |-> 7, length |-> 3],
     [size |-> 6, length |-> 4], [size |-> 2, length |-> 0], [size |-> 9, length |-> 5]}
MCLiveDatagrams == {[size |-> 4, length |-> 0], [size |-> 7, length |-> 3]}
MCGlitches == {"GARBAGE"}
====
