---- MODULE MCSciChannel ----
(* Small instances of SciChannel: FIFOs shorter than a frame, so that a frame  *)
(* takes several calls, and headers that announce no payload or one.            *)
EXTENDS SciChannel

MCPayloads == {0, 2}
MCControls == {"NONE", "HIGH", "LOW"}
====
