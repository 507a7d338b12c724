---- MODULE MCPreviewCommit ----
(* A generated file, a copy of the user's source and a second generated file, in *)
(* two directories of which none, one or both exist at the start.                *)
EXTENDS PreviewCommit

MCUserTargets == {2}
MCDirs == {"dsp_root", "sfun_root"}
MCDirOf == [t \in 1..3 |-> IF t = 3 THEN "sfun_root" ELSE "dsp_root"]
====
