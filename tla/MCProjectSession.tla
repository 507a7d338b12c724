---- MODULE MCProjectSession ----
(* Two project files of every form, and projects with a right and a stale hash. *)
EXTENDS ProjectSession

MCConfigs == {1, 2}
MCHashes == BOOLEAN
MCDecisions == {"Don't Save", "Cancel"}
MCAllDecisions == {"Save", "Don't Save", "Cancel"}
====
