---- MODULE MCBlockCore ----
(* Small configurations for BlockCore: one that Init accepts, with frames of a  *)
(* few octets, and ones it must refuse.                                         *)
EXTENDS BlockCore

MCValid ==
    [bound |-> TRUE, rx_capacity |-> 10, tx_capacity |-> 8, input_octets |-> 4,
     output_octets |-> 4, max_payload |-> 6,
     interaction_timeout |-> 3, transfer_timeout |-> 2]

\* The tx buffer holds a RESPONSE but not an OUTPUT_DATA; a timeout of half the
\* clock range; an rx buffer that holds INPUT_DATA but not SIM_START.
MCRefused ==
    {[MCValid EXCEPT !.tx_capacity = 6],
     [MCValid EXCEPT !.interaction_timeout = 4],
     [MCValid EXCEPT !.rx_capacity = 8],
     [MCValid EXCEPT !.bound = FALSE]}

MCConfigs == {MCValid} \union MCRefused
MCDeviceResults == {-1, 0, 2, 3, 4, 6, 8}
MCWireLengths == {0, 4, 5, 6, 8}
====
