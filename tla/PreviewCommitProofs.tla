---- MODULE PreviewCommitProofs ----
(***************************************************************************)
(* Theorems about PreviewCommit for any number of files, directories and     *)
(* changes by others: TypeOK, PreviewCurrent, ReportTrue and                 *)
(* OverwritesPreviewed.  IInv adds what holds in the middle of a preview and *)
(* of a commit; each operation is shown to keep it.                          *)
(***************************************************************************)
EXTENDS PreviewCommit, TLAPS

Taking == job.at \in {"sources", "look", "relook"}
InFile == job.at \in {"temporary", "recheck", "publish", "verify"}
Running == job.at \in {"directories", "file"} \/ InFile
Published == {"created", "replaced"}

\* A file the provider rendered for project p, from any version of the source.
OfProject(cand, p) ==
    \A t \in Targets : \E s \in Sources : cand[t] = Candidate(t, p, s)

\* A snapshot being taken is of the project on the screen.
TakenFor ==
    Taking => job.snap \in Snapshot /\ job.snap.project = project /\ OfProject(job.snap.cand, project)

\* So is one that can be committed; its actions keep the policy, and it replaces no
\* file of the user's unasked.
Committable ==
    preview.status = "valid" /\ ~Taking =>
        /\ preview.snap \in Snapshot
        /\ preview.snap.project = project /\ OfProject(preview.snap.cand, project)
        /\ \A t \in Targets :
             /\ Allowed(t, preview.snap.act[t], preview.snap.cand, preview.snap.base)
             /\ t \in UserTargets /\ preview.snap.act[t] = "replace" => t \in hist.asked

\* Where a commit is: the file in hand is one to write, and the target is as it was
\* previewed, or another program came after the last look.
Position ==
    Running =>
        /\ preview.status = "valid" /\ result.status = "running"
        /\ result.temps = {} /\ hist.temps = {}
        /\ job.i >= 1
        /\ job.at = "directories" => job.i = 1
        /\ InFile => job.i \in Writes(preview.snap)
        /\ job.at = "publish" => disk[job.i] = preview.snap.base[job.i] \/ job.i \in hist.late

\* What a commit has done: the files before the one in hand are finished, the ones
\* behind it untouched, and a published one holds its candidate unless another program
\* has touched it since.
Done ==
    Running =>
        /\ \A t \in Targets :
             /\ t >= job.i => result.outcome[t] = "not_attempted"
             /\ t < job.i => result.outcome[t] \in Published \union {"skipped", "kept"}
             /\ result.outcome[t] \in Published => t \in hist.pub
             /\ t < job.i /\ t \in hist.pub => result.outcome[t] \in Published
        /\ \A t \in hist.pub :
             /\ t < job.i \/ (t = job.i /\ job.at = "verify")
             /\ t \in Writes(preview.snap)
             /\ t \in hist.touched \/ disk[t] = preview.snap.cand[t]
        /\ job.at = "verify" => job.i \in hist.pub

\* What a result says, also while the next preview is taken.
Report(r) ==
    r.status # "none" =>
        /\ r.status # "running"
        /\ r.temps = hist.temps
        /\ \A t \in Targets :
             /\ r.outcome[t] \in Published => t \in hist.pub
             /\ t \in hist.pub => r.outcome[t] \in Published \union {"failed"}
             /\ r.outcome[t] = "failed" =>
                  \A u \in Targets : u > t => r.outcome[u] = "not_attempted"
        /\ r.status = "completed" =>
             \A t \in Targets : r.outcome[t] \notin {"failed", "not_attempted"}
        /\ r.status = "blocked" => hist.pub = {}
        /\ r.status = "failed" =>
             hist.pub \subseteq hist.touched /\ hist.temps = {} /\ ~r.made
Reported == ~Running => Report(result)

IInv == Types /\ TakenFor /\ Committable /\ Position /\ Done /\ Reported
-----------------------------------------------------------------------------
Histories == [pub : SUBSET Targets, touched : SUBSET Targets, late : SUBSET Targets,
              asked : SUBSET Targets, temps : SUBSET Targets]

LEMMA IdleApart == Idle => ~Taking /\ ~Running
BY DEF Idle, Taking, Running, InFile

\* What a candidate differs from the target it is written over.
LEMMA WritesDiffer ==
    ASSUME Committable, preview.status = "valid", ~Taking, NEW t \in Writes(preview.snap)
    PROVE  /\ preview.snap.cand[t] # preview.snap.base[t]
           /\ preview.snap.act[t] = "create" => preview.snap.base[t] = Missing
           /\ preview.snap.act[t] \in {"create", "replace"}
           /\ t \in UserTargets /\ preview.snap.base[t] # Missing => t \in hist.asked
<1> DEFINE snap == preview.snap
<1>1. t \in Targets /\ snap.act[t] \in {"create", "replace"}  BY DEF Writes
<1>2. Allowed(t, snap.act[t], snap.cand, snap.base)
      BY <1>1 DEF Committable
<1>3. snap.cand[t] # Missing
  <2>1. PICK s \in Sources : snap.cand[t] = Candidate(t, project, s)
        BY <1>1 DEF Committable, OfProject
  <2>2. QED  BY <2>1 DEF Candidate, Missing
<1>4. t \in UserTargets /\ snap.act[t] = "replace" => t \in hist.asked
      BY <1>1 DEF Committable
<1> HIDE DEF snap
<1>5. snap.cand[t] # snap.base[t] /\ (snap.act[t] = "create" => snap.base[t] = Missing)
      BY <1>1, <1>2, <1>3 DEF Allowed, DefaultAction
<1>6. QED  BY <1>1, <1>4, <1>5 DEF snap

LEMMA InitHolds == Init => IInv
<1> SUFFICES ASSUME Init PROVE IInv  OBVIOUS
<1>1. Idle /\ ~Taking /\ ~Running  BY IdleApart DEF Init, NoJob, Idle
<1>2. Types
  <2>1. disk \in [Targets -> Content]
    <3>1. Missing \in Content  BY DEF Missing, Content
    <3>2. \A n \in Foreign : [from |-> "other", of |-> n] \in Content
          BY ContentAssumption DEF Content
    <3>3. QED  BY <3>1, <3>2 DEF Init
  <2>2. result \in Results  BY DEF Init, NoResult, Results
  <2>3. hist \in Histories  BY DEF Init, Histories
  <2>4. others \in 0..MaxOthers  BY ContentAssumption DEF Init
  <2>5. QED  BY <2>1, <2>2, <2>3, <2>4 DEF Init, Types, NoJob, Histories
<1>3. preview.status = "none" /\ result.status = "none"  BY DEF Init, NoResult
<1>4. QED
      BY <1>1, <1>2, <1>3 DEF IInv, TakenFor, Committable, Position, Done, Reported, Report
-----------------------------------------------------------------------------
(* What the user does between two operations.                                *)

LEMMA EditStep ==
    ASSUME IInv, EditProject \/ RefuseDraft
    PROVE  IInv'
<1>1. /\ Idle /\ preview' = Invalidated /\ hist' = [hist EXCEPT !.asked = {}]
      /\ job' = job /\ result' = result /\ project' \in Projects
      /\ UNCHANGED <<source, disk, dirs, others>>
      BY DEF EditProject, RefuseDraft, disks, IInv, Types
<1>2. ~Taking' /\ ~Running' /\ ~Running
      BY <1>1, IdleApart DEF Taking, Running, InFile
<1>3. preview'.status # "valid"  BY <1>1 DEF Invalidated
<1>4. hist' \in Histories /\ hist'.pub = hist.pub /\ hist'.touched = hist.touched
      /\ hist'.temps = hist.temps
      BY <1>1 DEF IInv, Types, Histories
<1>5. Types'
  <2>1. preview' \in [status : {"none", "blocked", "valid", "stale", "committed"},
                      snap : Snapshot \union {NoSnapshot}]
        BY <1>1 DEF Invalidated
  <2>2. QED  BY <1>1, <1>4, <2>1 DEF IInv, Types, Histories
<1>6. Report(result)'  BY <1>1, <1>2, <1>4 DEF IInv, Reported, Report
<1>7. QED
      BY <1>2, <1>3, <1>5, <1>6 DEF IInv, TakenFor, Committable, Position, Done, Reported

LEMMA OpenStep ==
    ASSUME IInv, OpenProject
    PROVE  IInv'
<1>1. ~Taking' /\ ~Running'  BY IdleApart DEF OpenProject, Taking, Running, InFile
<1>2. preview'.status # "valid" /\ result'.status = "none"
      BY DEF OpenProject, Invalidated, NoResult
<1>3. hist' \in Histories  BY DEF OpenProject, IInv, Types, Histories
<1>4. result' \in Results  BY DEF OpenProject, NoResult, Results
<1>5. Types'
  <2>1. preview' \in [status : {"none", "blocked", "valid", "stale", "committed"},
                      snap : Snapshot \union {NoSnapshot}]
        BY DEF OpenProject, Invalidated
  <2>2. QED  BY <1>3, <1>4, <2>1 DEF OpenProject, disks, IInv, Types, Histories
<1>6. QED
      BY <1>1, <1>2, <1>5 DEF IInv, TakenFor, Committable, Position, Done, Reported, Report

LEMMA SetActionStep ==
    ASSUME IInv, SetAction
    PROVE  IInv'
<1> DEFINE snap == preview.snap
<1>1. Idle /\ preview.status = "valid" /\ ~Taking /\ ~Running
      /\ UNCHANGED <<project, source, disk, dirs, others, job, result>>
      BY IdleApart DEF SetAction, disks
<1>2. PICK t \in Targets, a \in Actions :
        /\ Allowed(t, a, snap.cand, snap.base)
        /\ preview' = [preview EXCEPT !.snap.act[t] = a]
        /\ hist' = [hist EXCEPT !.asked = IF a = "replace" THEN @ \union {t} ELSE @ \ {t}]
      BY DEF SetAction
<1>3. ~Taking' /\ ~Running'  BY <1>1 DEF Taking, Running, InFile
<1>4. snap \in Snapshot  BY <1>1 DEF IInv, Committable
<1>5. snap.act \in [Targets -> Actions]  BY <1>4 DEF Snapshot
<1>6. preview' = [preview EXCEPT !.snap = [snap EXCEPT !.act = [snap.act EXCEPT ![t] = a]]]
      BY <1>2
<1>7. preview \in [status : {"none", "blocked", "valid", "stale", "committed"},
                   snap : Snapshot \union {NoSnapshot}]
      BY DEF IInv, Types
<1>8. preview'.snap = [snap EXCEPT !.act = [snap.act EXCEPT ![t] = a]]
      /\ preview'.status = preview.status
      BY <1>6, <1>7
<1>9. preview'.snap \in Snapshot /\ preview'.snap.act = [snap.act EXCEPT ![t] = a]
      /\ preview'.snap.cand = snap.cand /\ preview'.snap.base = snap.base
      /\ preview'.snap.project = snap.project
      BY <1>4, <1>5, <1>8 DEF Snapshot
<1>10. hist' \in Histories /\ hist'.pub = hist.pub /\ hist'.touched = hist.touched
       /\ hist'.temps = hist.temps
       /\ hist'.asked = IF a = "replace" THEN hist.asked \union {t} ELSE hist.asked \ {t}
       BY <1>2 DEF IInv, Types, Histories
<1>11. Types'
  <2>1. preview' \in [status : {"none", "blocked", "valid", "stale", "committed"},
                      snap : Snapshot \union {NoSnapshot}]
        BY <1>6, <1>7, <1>8, <1>9
  <2>2. QED  BY <1>1, <1>10, <2>1 DEF IInv, Types, Histories
<1>12. Committable'
  <2>1. ASSUME NEW u \in Targets
        PROVE  /\ Allowed(u, preview'.snap.act[u], snap.cand, snap.base)
               /\ u \in UserTargets /\ preview'.snap.act[u] = "replace" => u \in hist'.asked
    <3>1. CASE u = t  BY <1>2, <1>5, <1>9, <1>10, <3>1
    <3>2. CASE u # t  BY <1>1, <1>5, <1>9, <1>10, <3>2 DEF IInv, Committable
    <3>3. QED  BY <3>1, <3>2
  <2>2. QED  BY <1>1, <1>9, <2>1 DEF IInv, Committable, OfProject, Candidate, Allowed,
                                    DefaultAction
<1>13. Report(result)'  BY <1>1, <1>10 DEF IInv, Reported, Report
<1>14. QED  BY <1>3, <1>11, <1>12, <1>13 DEF IInv, TakenFor, Position, Done, Reported
-----------------------------------------------------------------------------
(* The steps of a preview.                                                   *)

LEMMA BeginPreviewStep ==
    ASSUME IInv, BeginPreview
    PROVE  IInv'
<1> DEFINE cand == [t \in Targets |-> Candidate(t, project, source)]
           snap == [project |-> project, source |-> source, cand |-> cand,
                    base |-> [t \in Targets |-> Missing], act |-> [t \in Targets |-> "skip"]]
<1>1. /\ Idle /\ ~Taking /\ ~Running
      /\ preview' = [preview EXCEPT !.snap = NoSnapshot]
      /\ job' = [at |-> "sources", i |-> 1, snap |-> snap]
      /\ hist' = [hist EXCEPT !.asked = {}]
      /\ UNCHANGED <<project, source, disk, dirs, others, result>>
      BY IdleApart DEF BeginPreview, NoJob, disks
<1>2. snap \in Snapshot /\ snap.project = project /\ snap.cand = cand
  <2>1. Missing \in Content  BY DEF Missing, Content
  <2>2. \A t \in Targets : Candidate(t, project, source) \in Content
        BY ContentAssumption DEF IInv, Types, Candidate, Content
  <2>3. QED  BY <2>1, <2>2 DEF IInv, Types, Snapshot, Actions
<1>3. OfProject(cand, project)  BY DEF OfProject, IInv, Types
<1> HIDE DEF snap, cand
<1>4. Taking' /\ ~Running' /\ job'.snap = snap  BY <1>1 DEF Taking, Running, InFile
<1>5. TakenFor'  BY <1>1, <1>2, <1>3, <1>4 DEF TakenFor, OfProject, Candidate
<1>6. hist' \in Histories /\ hist'.pub = hist.pub /\ hist'.touched = hist.touched
      /\ hist'.temps = hist.temps
      BY <1>1 DEF IInv, Types, Histories
<1>7. Types'
  <2>1. preview' \in [status : {"none", "blocked", "valid", "stale", "committed"},
                      snap : Snapshot \union {NoSnapshot}]
        BY <1>1 DEF IInv, Types
  <2>2. QED  BY <1>1, <1>2, <1>6, <2>1 DEF IInv, Types, Histories
<1>8. Report(result)'  BY <1>1, <1>6 DEF IInv, Reported, Report
<1>9. QED  BY <1>4, <1>5, <1>7, <1>8 DEF IInv, Committable, Position, Done, Reported

\* A step inside a preview: only the snapshot in hand changes, and not its candidates.
LEMMA TakingStep ==
    ASSUME IInv, CaptureSources \/ CompareTargets
    PROVE  IInv'
<1>1. /\ Taking /\ ~Running /\ job'.at \in {"look", "relook"} /\ job'.i = job.i
      /\ job'.snap \in {[job.snap EXCEPT !.source = source], [job.snap EXCEPT !.base = disk]}
      /\ UNCHANGED <<project, source, disk, dirs, others, preview, result, hist>>
      BY DEF CaptureSources, CompareTargets, disks, Taking, Running, InFile, IInv, Types
<1>2. job.snap \in Snapshot /\ job.snap.project = project /\ OfProject(job.snap.cand, project)
      BY <1>1 DEF IInv, TakenFor
<1>3. job'.snap \in Snapshot /\ job'.snap.project = project /\ job'.snap.cand = job.snap.cand
      BY <1>1, <1>2 DEF Snapshot, IInv, Types
<1>4. Taking' /\ ~Running'  BY <1>1 DEF Taking, Running, InFile
<1>5. job' = [at |-> job'.at, i |-> job.i, snap |-> job'.snap]
      BY DEF CaptureSources, CompareTargets, IInv, Types
<1>6. Types'
  <2>1. job' \in [at : {"idle", "sources", "look", "relook", "directories", "file",
                        "temporary", "recheck", "publish", "verify"},
                  i : Nat, snap : Snapshot \union {NoSnapshot}]
        BY <1>1, <1>3, <1>5 DEF IInv, Types
  <2>2. QED  BY <1>1, <2>1 DEF IInv, Types
<1>7. TakenFor'  BY <1>1, <1>2, <1>3 DEF TakenFor, OfProject, Candidate
<1>8. Report(result)'  BY <1>1 DEF IInv, Reported, Report
<1>9. QED  BY <1>4, <1>6, <1>7, <1>8 DEF IInv, Committable, Position, Done, Reported

LEMMA BlockStep ==
    ASSUME IInv, BlockPreview
    PROVE  IInv'
<1>1. ~Running /\ ~Running' /\ ~Taking' /\ preview'.status = "blocked"
      BY DEF BlockPreview, NoJob, Running, InFile, Taking
<1>2. Types'  BY DEF BlockPreview, NoJob, disks, IInv, Types
<1>3. Report(result)'  BY <1>1 DEF BlockPreview, IInv, Reported, Report
<1>4. QED  BY <1>1, <1>2, <1>3 DEF IInv, TakenFor, Committable, Position, Done, Reported

LEMMA TakeSnapshotStep ==
    ASSUME IInv, TakeSnapshot
    PROVE  IInv'
<1> DEFINE act == [t \in Targets |-> DefaultAction(t, job.snap.cand, disk)]
           snap == [job.snap EXCEPT !.act = act]
<1>1. /\ Taking /\ ~Running /\ disk = job.snap.base
      /\ preview' = [status |-> "valid", snap |-> snap] /\ job' = NoJob
      /\ UNCHANGED <<project, source, disk, dirs, others, result, hist>>
      BY DEF TakeSnapshot, disks, Taking, Running, InFile
<1>2. job.snap \in Snapshot /\ job.snap.project = project /\ OfProject(job.snap.cand, project)
      BY <1>1 DEF IInv, TakenFor
<1>3. act \in [Targets -> Actions]  BY DEF DefaultAction, Actions
<1>4. snap \in Snapshot /\ snap.act = act /\ snap.cand = job.snap.cand
      /\ snap.base = disk /\ snap.project = project
      BY <1>1, <1>2, <1>3 DEF Snapshot
<1>5. ~Taking' /\ ~Running'  BY <1>1 DEF NoJob, Taking, Running, InFile
<1>6. \A t \in Targets : /\ Allowed(t, act[t], job.snap.cand, disk)
                         /\ t \in UserTargets => act[t] # "replace"
      BY DEF Allowed, DefaultAction
<1> HIDE DEF act, snap
<1>7. preview'.snap = snap  BY <1>1
<1>8. Committable'
  <2>1. \A t \in Targets : Allowed(t, preview'.snap.act[t], preview'.snap.cand, preview'.snap.base)
        BY <1>4, <1>6, <1>7
  <2>2. QED  BY <1>1, <1>2, <1>4, <1>6, <1>7, <2>1 DEF Committable, OfProject, Candidate,
                Allowed, DefaultAction
<1>9. Types'  BY <1>1, <1>4 DEF IInv, Types, NoJob
<1>10. Report(result)'  BY <1>1 DEF IInv, Reported, Report
<1>11. QED  BY <1>5, <1>8, <1>9, <1>10 DEF IInv, TakenFor, Position, Done, Reported
-----------------------------------------------------------------------------
(* How a commit begins and ends.                                             *)

\* Whatever ends a commit with a true report.
LEMMA EndStep ==
    ASSUME IInv, NEW status \in {"stale", "committed"}, NEW r \in Results,
           EndCommit(status, r), hist' \in Histories, Report(result)',
           UNCHANGED <<project, source, disk, dirs, others>>
    PROVE  IInv'
<1>1. ~Taking' /\ ~Running' /\ preview'.status # "valid"
      BY DEF EndCommit, Ended, NoJob, Taking, Running, InFile
<1>2. preview' \in [status : {"none", "blocked", "valid", "stale", "committed"},
                    snap : Snapshot \union {NoSnapshot}]
      BY DEF EndCommit, Ended, IInv, Types
<1>3. Types'  BY <1>2 DEF EndCommit, NoJob, IInv, Types, Histories
<1>4. QED  BY <1>1, <1>3 DEF IInv, TakenFor, Committable, Position, Done, Reported

LEMMA FailedFields ==
    ASSUME NEW r \in Results
    PROVE  /\ Failed(r) \in Results
           /\ Failed(r).outcome = r.outcome /\ Failed(r).temps = r.temps /\ Failed(r).made = r.made
           /\ Failed(r).status \in {"failed", "partial_failure"}
           /\ Failed(r).status = "failed" => ~r.made /\ r.temps = {} /\ disk = preview.snap.base
BY DEF Failed, SideEffects, Results

LEMMA BeginCommitStep ==
    ASSUME IInv, BeginCommit
    PROVE  IInv'
<1>1. /\ Idle /\ preview.status = "valid" /\ ~Taking /\ ~Running
      /\ UNCHANGED <<project, source, disk, dirs, others>>
      /\ hist' = [hist EXCEPT !.pub = {}, !.touched = {}, !.temps = {}]
      BY IdleApart DEF BeginCommit, disks
<1>2. hist' \in Histories /\ hist'.pub = {} /\ hist'.temps = {} /\ hist'.asked = hist.asked
      BY <1>1 DEF IInv, Types, Histories
<1>3. NoResult \in Results /\ \A t \in Targets : NoResult.outcome[t] = "not_attempted"
      BY DEF NoResult, Results
<1>4. CASE EndCommit("stale", [NoResult EXCEPT !.status = "blocked"])
  <2> DEFINE r == [NoResult EXCEPT !.status = "blocked"]
  <2>1. r \in Results /\ r.outcome = NoResult.outcome /\ r.status = "blocked" /\ r.temps = {}
        BY <1>3 DEF NoResult, Results
  <2>2. result' = r  BY <1>4 DEF EndCommit
  <2>3. Report(result)'  BY <1>2, <1>3, <2>1, <2>2 DEF Report, Published
  <2>4. QED  BY <1>1, <1>2, <1>4, <2>1, <2>3, EndStep
<1>5. CASE /\ job' = [NoJob EXCEPT !.at = "directories"]
           /\ result' = [NoResult EXCEPT !.status = "running"] /\ UNCHANGED preview
  <2>1. job' = [at |-> "directories", i |-> 1, snap |-> NoSnapshot]  BY <1>5 DEF NoJob
  <2>2. ~Taking' /\ Running' /\ ~InFile'  BY <2>1 DEF Taking, Running, InFile
  <2>3. result' \in Results /\ result'.outcome = NoResult.outcome
        /\ result'.status = "running" /\ result'.temps = {}
        BY <1>3, <1>5 DEF NoResult, Results
  <2>4. Types'
    <3>1. job' \in [at : {"idle", "sources", "look", "relook", "directories", "file",
                          "temporary", "recheck", "publish", "verify"},
                    i : Nat, snap : Snapshot \union {NoSnapshot}]
          BY <2>1
    <3>2. UNCHANGED <<project, source, disk, dirs, others, preview>>  BY <1>1, <1>5
    <3>3. QED  BY <1>2, <2>3, <3>1, <3>2 DEF IInv, Types, Histories
  <2>5. Committable'
    <3>1. preview.snap \in Snapshot /\ preview' = preview /\ project' = project
          BY <1>1, <1>5 DEF IInv, Committable
    <3>2. QED  BY <1>1, <1>2, <3>1 DEF IInv, Committable, OfProject, Candidate, Allowed,
                  DefaultAction
  <2>6. Position'  BY <1>1, <1>2, <1>5, <2>1, <2>2, <2>3 DEF Position
  <2>7. Done'
    <3>1. \A t \in Targets : result'.outcome[t] = "not_attempted" /\ t >= 1
          BY <1>3, <2>3 DEF Targets
    <3>2. QED  BY <1>2, <2>1, <2>2, <3>1, TargetsAssumption DEF Done, Published, Targets
  <2>8. QED  BY <2>2, <2>4, <2>5, <2>6, <2>7 DEF IInv, TakenFor, Reported
<1>6. QED  BY <1>4, <1>5 DEF BeginCommit

\* A commit that stops before its first file has touched none.
LEMMA EarlyEndStep ==
    ASSUME IInv, job.at = "directories", NEW made \in BOOLEAN,
           EndCommit("stale", Failed([result EXCEPT !.made = made])),
           UNCHANGED <<project, source, disk, dirs, others, hist>>
    PROVE  IInv'
<1> DEFINE r == [result EXCEPT !.made = made]
<1>1. Running /\ job.i = 1 /\ result \in Results
      BY DEF Running, IInv, Position, Types
<1>2. r \in Results /\ r.outcome = result.outcome /\ r.temps = result.temps
      BY <1>1 DEF Results
<1> HIDE DEF r
<1>3. \A t \in Targets : result.outcome[t] = "not_attempted"
      BY <1>1 DEF IInv, Done, Targets
<1>4. hist.pub = {} /\ hist.temps = {} /\ result.temps = {}
  <2>1. hist.temps = {} /\ result.temps = {}  BY <1>1 DEF IInv, Position
  <2>2. \A t \in hist.pub : t \in Targets /\ t < 1  BY <1>1 DEF IInv, Done, Types
  <2>3. QED  BY <2>1, <2>2 DEF Targets
<1>5. result' = Failed(r)  BY DEF EndCommit, r
<1>6. Report(result)'
      BY <1>2, <1>3, <1>4, <1>5, FailedFields DEF Report, Published
<1>7. hist' \in Histories  BY DEF IInv, Types, Histories
<1>8. EndCommit("stale", Failed(r)) /\ Failed(r) \in Results  BY <1>2, FailedFields DEF r
<1>9. QED  BY <1>6, <1>7, <1>8, EndStep

\* A commit that stops at a file: the ones before it are finished, the ones behind it
\* untouched, and nothing is called untouched that was published.
LEMMA FileFailsStep ==
    ASSUME IInv, Running, job.i \in Writes(preview.snap), NEW left \in BOOLEAN,
           FileFails(left), UNCHANGED <<project, source, disk, dirs, others>>
    PROVE  IInv'
<1> DEFINE temps == IF left THEN {job.i} ELSE {}
           outcome == [result.outcome EXCEPT ![job.i] = "failed"]
           r == [result EXCEPT !.outcome = outcome, !.temps = temps]
<1>1. /\ result \in Results /\ hist \in Histories /\ preview.status = "valid" /\ ~Taking
      /\ result.temps = {} /\ hist.temps = {} /\ job.i \in Targets
      BY DEF IInv, Types, Position, Histories, Writes, Running, InFile, Taking
<1>2. r = [result EXCEPT !.outcome[job.i] = "failed",
                         !.temps = IF left THEN @ \union {job.i} ELSE @]
      BY <1>1 DEF Results
<1>3. temps \in SUBSET Targets /\ outcome \in [Targets ->
          {"not_attempted", "skipped", "kept", "failed", "created", "replaced"}]
      BY <1>1 DEF Results
<1> HIDE DEF temps, outcome
<1>4. r \in Results /\ r.outcome = outcome /\ r.temps = temps  BY <1>1, <1>3 DEF Results
<1>5. hist' \in Histories /\ hist'.pub = hist.pub /\ hist'.touched = hist.touched
      /\ hist'.temps = temps
  <2>1. hist' = [hist EXCEPT !.temps = IF left THEN @ \union {job.i} ELSE @, !.late = {}]
        BY DEF FileFails
  <2>2. (IF left THEN hist.temps \union {job.i} ELSE hist.temps) = temps  BY <1>1 DEF temps
  <2>3. QED  BY <1>1, <1>3, <2>1, <2>2 DEF Histories
<1>6. EndCommit("stale", Failed(r)) /\ result' = Failed(r)
      BY <1>2 DEF FileFails, EndCommit
<1> HIDE DEF r
<1>7. Failed(r) \in Results /\ result'.outcome = outcome /\ result'.temps = temps
      /\ result'.made = r.made
      /\ result'.status \in {"failed", "partial_failure"}
      /\ (result'.status = "failed" =>
            ~r.made /\ temps = {} /\ disk = preview.snap.base)
      BY <1>4, <1>6, FailedFields
<1>8. ASSUME NEW t \in Targets
      PROVE  /\ outcome[t] \in Published => t \in hist.pub
             /\ t \in hist.pub => outcome[t] \in Published \union {"failed"}
             /\ outcome[t] = "failed" => \A u \in Targets : u > t => outcome[u] = "not_attempted"
  <2>1. outcome[t] = IF t = job.i THEN "failed" ELSE result.outcome[t]
        BY <1>1 DEF outcome, Results
  <2>2. t \in Nat /\ job.i \in Nat  BY <1>1, TargetsAssumption DEF Targets
  <2>3. CASE t = job.i
    <3>1. ASSUME NEW u \in Targets, u > t PROVE outcome[u] = "not_attempted"
      <4>1. u \in Nat  BY TargetsAssumption DEF Targets
      <4>2. u >= job.i /\ u # job.i  BY <2>2, <2>3, <3>1, <4>1
      <4>3. QED  BY <1>1, <4>2 DEF IInv, Done, outcome, Results
    <3>2. QED  BY <2>1, <2>3, <3>1 DEF Published
  <2>4. CASE t < job.i
    <3>1. t # job.i  BY <2>2, <2>4
    <3>2. QED  BY <2>1, <2>4, <3>1 DEF IInv, Done, Published
  <2>5. CASE t > job.i
    <3>1. t # job.i /\ t >= job.i /\ ~(t < job.i)  BY <2>2, <2>5
    <3>2. QED  BY <2>1, <3>1 DEF IInv, Done, Published
  <2>6. QED  BY <2>2, <2>3, <2>4, <2>5
<1>9. ASSUME disk = preview.snap.base PROVE hist.pub \subseteq hist.touched
  <2>1. SUFFICES ASSUME NEW t \in hist.pub, t \notin hist.touched PROVE FALSE  OBVIOUS
  <2>2. t \in Writes(preview.snap) /\ disk[t] = preview.snap.cand[t]
        BY <2>1 DEF IInv, Done
  <2>3. QED  BY <1>1, <1>9, <2>2, WritesDiffer DEF IInv
<1>10. Report(result)'  BY <1>5, <1>7, <1>8, <1>9 DEF Report
<1>11. QED  BY <1>5, <1>6, <1>7, <1>10, EndStep

LEMMA CompleteStep ==
    ASSUME IInv, Complete
    PROVE  IInv'
<1> DEFINE r == [result EXCEPT !.status = "completed"]
<1>1. /\ job.at = "file" /\ job.i \notin Targets /\ EndCommit("committed", r)
      /\ UNCHANGED <<project, source, disk, dirs, others, hist>>
      BY DEF Complete, disks
<1>2. Running /\ job.i >= 1 /\ job.i \in Nat /\ result.temps = hist.temps /\ result \in Results
      BY <1>1 DEF Running, IInv, Position, Types
<1>3. r \in Results /\ r.outcome = result.outcome /\ r.temps = hist.temps
      /\ r.status = "completed"
      BY <1>2 DEF Results
<1>4. \A t \in Targets : t < job.i  BY <1>1, <1>2, TargetsAssumption DEF Targets
<1>5. \A t \in Targets : /\ result.outcome[t] \in Published \union {"skipped", "kept"}
                         /\ (result.outcome[t] \in Published) = (t \in hist.pub)
      BY <1>2, <1>4 DEF IInv, Done
<1> HIDE DEF r
<1>6. result' = r /\ hist' = hist  BY <1>1 DEF EndCommit
<1>7. Report(result)'  BY <1>3, <1>5, <1>6 DEF Report, Published
<1>8. hist' \in Histories  BY <1>6 DEF IInv, Types, Histories
<1>9. QED  BY <1>1, <1>3, <1>7, <1>8, EndStep
-----------------------------------------------------------------------------
(* The steps of a commit that go on.                                         *)

\* What a step keeps that leaves the project, the preview and the user's wishes alone.
LEMMA KeepsCommittable ==
    ASSUME IInv, UNCHANGED <<project, preview>>, hist' \in Histories, hist'.asked = hist.asked,
           ~Taking, ~Taking'
    PROVE  Committable' /\ TakenFor'
BY DEF IInv, Committable, TakenFor, OfProject, Candidate, Allowed, DefaultAction

LEMMA MakeDirectoryStep ==
    ASSUME IInv, MakeDirectory
    PROVE  IInv'
<1>1. job.at = "directories" /\ UNCHANGED <<project, source, disk, others, hist>>
      BY DEF MakeDirectory
<1>2. PICK t \in Needed :
        \/ /\ dirs' = dirs \union {DirOf[t]} /\ result' = [result EXCEPT !.made = TRUE]
           /\ UNCHANGED <<preview, job>>
        \/ /\ \E made \in {result.made, TRUE} :
                EndCommit("stale", Failed([result EXCEPT !.made = made]))
           /\ UNCHANGED dirs
      BY DEF MakeDirectory
<1>3. t \in Targets /\ result \in Results /\ hist \in Histories /\ Running /\ ~Taking
      BY <1>1 DEF Needed, Writes, IInv, Types, Histories, Running, Taking
<1>4. CASE /\ dirs' = dirs \union {DirOf[t]} /\ result' = [result EXCEPT !.made = TRUE]
           /\ UNCHANGED <<preview, job>>
  <2>1. result' \in Results /\ result'.outcome = result.outcome
        /\ result'.status = result.status /\ result'.temps = result.temps
        BY <1>3, <1>4 DEF Results
  <2>2. Running' /\ ~Taking' /\ (InFile)' = InFile
        BY <1>3, <1>4 DEF Running, InFile, Taking
  <2>3. dirs' \subseteq Dirs  BY <1>3, <1>4, TargetsAssumption DEF IInv, Types
  <2>4. Types'  BY <1>1, <1>4, <2>1, <2>3 DEF IInv, Types
  <2>5. Committable' /\ TakenFor'  BY <1>1, <1>3, <1>4, <2>2, KeepsCommittable
  <2>6. Position'  BY <1>1, <1>3, <1>4, <2>1, <2>2 DEF IInv, Position, Writes
  <2>7. Done'  BY <1>1, <1>3, <1>4, <2>1, <2>2 DEF IInv, Done, Writes
  <2>8. QED  BY <2>2, <2>4, <2>5, <2>6, <2>7 DEF IInv, Reported
<1>5. CASE /\ \E made \in {result.made, TRUE} :
                EndCommit("stale", Failed([result EXCEPT !.made = made]))
           /\ UNCHANGED dirs
  <2>1. PICK made \in BOOLEAN : EndCommit("stale", Failed([result EXCEPT !.made = made]))
        BY <1>3, <1>5 DEF Results
  <2>2. QED  BY <1>1, <1>5, <2>1, EarlyEndStep
<1>6. QED  BY <1>2, <1>4, <1>5

\* A step within a commit that moves on, reporting nothing and writing nothing.
LEMMA WithinStep ==
    ASSUME IInv, Running, Running', ~Taking', job'.i = job.i,
           job' \in [at : {"directories", "file", "temporary", "recheck", "publish", "verify"},
                     i : Nat, snap : Snapshot \union {NoSnapshot}],
           UNCHANGED <<project, source, disk, dirs, others, preview, result>>,
           hist' \in Histories, hist'.asked = hist.asked, hist'.temps = hist.temps,
           hist'.pub = hist.pub, hist'.touched = hist.touched,
           job.at # "verify", job'.at # "verify", job'.at # "directories",
           InFile' => job.i \in Writes(preview.snap),
           job'.at = "publish" => disk[job.i] = preview.snap.base[job.i]
    PROVE  IInv'
<1>1. ~Taking  BY DEF Running, InFile, Taking
<1>2. Types'  BY DEF IInv, Types, Histories
<1>3. Committable' /\ TakenFor'  BY <1>1, KeepsCommittable
<1>4. Position'  BY DEF IInv, Position, Writes
<1>5. Done'  BY DEF IInv, Done, Writes
<1>6. QED  BY <1>2, <1>3, <1>4, <1>5 DEF IInv, Reported

LEMMA RecheckStep ==
    ASSUME IInv, Recheck
    PROVE  IInv'
<1>1. job.at = "directories" /\ UNCHANGED <<project, source, disk, dirs, others, hist>>
      BY DEF Recheck, disks
<1>2. hist' \in Histories /\ Running /\ result \in Results
      BY <1>1 DEF IInv, Types, Histories, Running
<1>3. CASE job' = [job EXCEPT !.at = "file"] /\ UNCHANGED <<preview, result>>
  <2>1. job' \in [at : {"directories", "file", "temporary", "recheck", "publish", "verify"},
                  i : Nat, snap : Snapshot \union {NoSnapshot}]
        /\ job'.i = job.i /\ job'.at = "file"
        BY <1>3 DEF IInv, Types
  <2>2. Running' /\ ~Taking' /\ ~InFile'  BY <2>1 DEF Running, Taking, InFile
  <2>3. QED  BY <1>1, <1>2, <1>3, <2>1, <2>2, WithinStep
<1>4. CASE EndCommit("stale", Failed(result))
  <2>1. result = [result EXCEPT !.made = result.made] /\ result.made \in BOOLEAN
        BY <1>2 DEF Results
  <2>2. QED  BY <1>1, <1>4, <2>1, EarlyEndStep
<1>5. QED  BY <1>3, <1>4 DEF Recheck

\* A file that is finished, written or passed over.
LEMMA PassedStep ==
    ASSUME IInv, job.at \in {"file", "verify"}, job.i \in Targets, job' = Passed,
           NEW o \in Published \union {"skipped", "kept"},
           (o \in Published) = (job.i \in hist.pub),
           result' = [result EXCEPT !.outcome[job.i] = o],
           UNCHANGED <<project, source, disk, dirs, others, preview, hist>>
    PROVE  IInv'
<1>1. Running /\ ~Taking /\ result \in Results /\ hist' \in Histories
      BY DEF Running, InFile, Taking, IInv, Types, Histories
<1>2. job.i \in Nat /\ job.i >= 1  BY <1>1 DEF IInv, Types, Position
<1>3. job' \in [at : {"idle", "sources", "look", "relook", "directories", "file",
                      "temporary", "recheck", "publish", "verify"},
                i : Nat, snap : Snapshot \union {NoSnapshot}]
      /\ job'.at = "file" /\ job'.i = job.i + 1
  <2>1. job.i + 1 \in Nat  BY <1>2
  <2>2. QED  BY <2>1 DEF Passed, IInv, Types
<1>4. Running' /\ ~Taking' /\ ~InFile'  BY <1>3 DEF Running, InFile, Taking
<1>5. result' = [result EXCEPT !.outcome = [result.outcome EXCEPT ![job.i] = o]]
      OBVIOUS
<1>6. [result.outcome EXCEPT ![job.i] = o] \in
          [Targets -> {"not_attempted", "skipped", "kept", "failed", "created", "replaced"}]
      BY <1>1 DEF Results, Published
<1>7. result' \in Results /\ result'.outcome = [result.outcome EXCEPT ![job.i] = o]
      /\ result'.status = result.status /\ result'.temps = result.temps
      BY <1>1, <1>5, <1>6 DEF Results
<1>8. Types'  BY <1>3, <1>7 DEF IInv, Types
<1>9. Committable' /\ TakenFor'  BY <1>1, <1>4, KeepsCommittable
<1>10. Position'  BY <1>1, <1>2, <1>3, <1>4, <1>7 DEF IInv, Position
<1>11. ASSUME NEW t \in Targets
       PROVE  /\ t >= job.i + 1 => result'.outcome[t] = "not_attempted"
              /\ t < job.i + 1 => result'.outcome[t] \in Published \union {"skipped", "kept"}
              /\ result'.outcome[t] \in Published => t \in hist.pub
              /\ t < job.i + 1 /\ t \in hist.pub => result'.outcome[t] \in Published
  <2>1. t \in Nat  BY TargetsAssumption DEF Targets
  <2>2. result'.outcome[t] = IF t = job.i THEN o ELSE result.outcome[t]
        BY <1>1, <1>7 DEF Results
  <2>3. CASE t = job.i  BY <1>2, <2>2, <2>3
  <2>4. CASE t # job.i
    <3>1. (t >= job.i + 1 => t >= job.i) /\ (t < job.i + 1 => t < job.i)  BY <1>2, <2>1, <2>4
    <3>2. result'.outcome[t] = result.outcome[t]  BY <2>2, <2>4
    <3>3. QED  BY <1>1, <3>1, <3>2 DEF IInv, Done
  <2>5. QED  BY <2>3, <2>4
<1>12. ASSUME NEW t \in hist.pub
       PROVE  /\ t < job.i + 1 /\ t \in Writes(preview.snap)
              /\ t \in hist.touched \/ disk[t] = preview.snap.cand[t]
  <2>1. t \in Targets  BY DEF IInv, Types
  <2>2. t \in Nat  BY <2>1, TargetsAssumption DEF Targets
  <2>3. t < job.i \/ t = job.i  BY <1>1 DEF IInv, Done
  <2>4. QED  BY <1>1, <1>2, <2>2, <2>3 DEF IInv, Done
<1>13. Done'  BY <1>3, <1>4, <1>11, <1>12 DEF Done, Writes
<1>14. QED  BY <1>4, <1>8, <1>9, <1>10, <1>13 DEF IInv, Reported

LEMMA PassOverStep ==
    ASSUME IInv, PassOver
    PROVE  IInv'
<1> DEFINE o == IF preview.snap.act[job.i] = "skip" THEN "skipped" ELSE "kept"
<1>1. /\ job.at = "file" /\ job.i \in Targets \ Writes(preview.snap) /\ job' = Passed
      /\ result' = [result EXCEPT !.outcome[job.i] = o]
      /\ UNCHANGED <<project, source, disk, dirs, others, preview, hist>>
      BY DEF PassOver, disks
<1>2. o \in {"skipped", "kept"} /\ o \notin Published  BY DEF Published
<1>3. job.i \notin hist.pub
  <2>1. Running  BY <1>1 DEF Running
  <2>2. QED  BY <1>1, <2>1 DEF IInv, Done
<1> HIDE DEF o
<1>4. (o \in Published) = (job.i \in hist.pub)  BY <1>2, <1>3
<1>5. QED  BY <1>1, <1>2, <1>4, PassedStep

\* The steps of a file up to the move: it goes on, or the file fails.
LEMMA BeforeMoveStep ==
    ASSUME IInv, CheckTarget \/ WriteTemporary \/ RecheckTarget
    PROVE  IInv'
<1>1. /\ job.at \in {"file", "temporary", "recheck"} /\ Running /\ job.at # "verify"
      /\ UNCHANGED <<project, source, disk, dirs, others>>
      BY DEF CheckTarget, WriteTemporary, RecheckTarget, disks, Running, InFile
<1>2. job.i \in Writes(preview.snap)
      BY <1>1 DEF IInv, Position, CheckTarget, WriteTemporary, RecheckTarget, InFile
<1>3. CASE \E left \in BOOLEAN : FileFails(left)  BY <1>1, <1>2, <1>3, FileFailsStep
<1>4. ASSUME NEW at \in {"temporary", "recheck", "publish"}, job' = [job EXCEPT !.at = at],
             UNCHANGED <<preview, result>>, hist' = hist \/ hist' = [hist EXCEPT !.late = {}],
             at = "publish" => Matches(job.i)
      PROVE  IInv'
  <2>1. job' \in [at : {"directories", "file", "temporary", "recheck", "publish", "verify"},
                  i : Nat, snap : Snapshot \union {NoSnapshot}]
        /\ job'.i = job.i /\ job'.at = at
        BY <1>4 DEF IInv, Types
  <2>2. Running' /\ ~Taking' /\ job'.at # "verify" /\ job'.at # "directories"
        BY <1>4, <2>1 DEF Running, InFile, Taking
  <2>3. hist' \in Histories /\ hist'.asked = hist.asked /\ hist'.temps = hist.temps
        /\ hist'.pub = hist.pub /\ hist'.touched = hist.touched
        BY <1>4 DEF IInv, Types, Histories
  <2>4. job'.at = "publish" => disk[job.i] = preview.snap.base[job.i]
        BY <1>4, <2>1 DEF Matches
  <2>5. QED  BY <1>1, <1>2, <1>4, <2>1, <2>2, <2>3, <2>4, WithinStep
<1>5. QED  BY <1>3, <1>4 DEF CheckTarget, WriteTemporary, RecheckTarget, Trusted

LEMMA PublishStep ==
    ASSUME IInv, Publish
    PROVE  IInv'
<1> DEFINE i == job.i
           cand == preview.snap.cand
<1>1. /\ job.at = "publish" /\ Running /\ InFile /\ ~Taking
      /\ UNCHANGED <<project, source, dirs, others>>
      BY DEF Publish, Running, InFile, Taking
<1>2. i \in Writes(preview.snap) /\ i \in Targets /\ preview.status = "valid"
      BY <1>1 DEF IInv, Position, Writes
<1>3. CASE (\E left \in BOOLEAN : FileFails(left)) /\ UNCHANGED disk
      BY <1>1, <1>2, <1>3, FileFailsStep
<1>4. CASE /\ disk' = [disk EXCEPT ![i] = cand[i]]
           /\ job' = [job EXCEPT !.at = "verify"]
           /\ hist' = [hist EXCEPT !.pub = @ \union {i}, !.touched = @ \ {i}, !.late = {}]
           /\ UNCHANGED <<preview, result>>
  <2>1. hist' \in Histories /\ hist'.asked = hist.asked /\ hist'.temps = hist.temps
        /\ hist'.pub = hist.pub \union {i} /\ hist'.touched = hist.touched \ {i}
    <3>1. hist \in Histories  BY DEF IInv, Types, Histories
    <3>2. hist.pub \union {i} \in SUBSET Targets /\ hist.touched \ {i} \in SUBSET Targets
          BY <1>2, <3>1 DEF Histories
    <3>3. QED  BY <1>4, <3>1, <3>2 DEF Histories
  <2>2. job' \in [at : {"idle", "sources", "look", "relook", "directories", "file",
                        "temporary", "recheck", "publish", "verify"},
                  i : Nat, snap : Snapshot \union {NoSnapshot}]
        /\ job'.at = "verify" /\ job'.i = i
        BY <1>4 DEF IInv, Types
  <2>3. Running' /\ ~Taking' /\ InFile'  BY <2>2 DEF Running, InFile, Taking
  <2>4. cand \in [Targets -> Content]  BY <1>1, <1>2 DEF IInv, Committable, Snapshot
  <2>5. disk \in [Targets -> Content]  BY DEF IInv, Types
  <2>6. disk' \in [Targets -> Content] /\ disk'[i] = cand[i]
        /\ \A t \in Targets \ {i} : disk'[t] = disk[t]
        BY <1>2, <1>4, <2>4, <2>5
  <2>7. Types'  BY <1>1, <1>4, <2>1, <2>2, <2>6 DEF IInv, Types, Histories
  <2>8. Committable' /\ TakenFor'  BY <1>1, <1>4, <2>1, <2>3, KeepsCommittable
  <2>9. Position'  BY <1>1, <1>2, <1>4, <2>1, <2>2, <2>3 DEF IInv, Position
  <2>10. ASSUME NEW t \in Targets
         PROVE  /\ t >= i => result.outcome[t] = "not_attempted"
                /\ t < i => result.outcome[t] \in Published \union {"skipped", "kept"}
                /\ result.outcome[t] \in Published => t \in hist'.pub
                /\ t < i /\ t \in hist'.pub => result.outcome[t] \in Published
    <3>1. t \in Nat /\ i \in Nat  BY <1>2, TargetsAssumption DEF Targets
    <3>2. t < i => t # i  BY <3>1
    <3>3. QED  BY <1>1, <2>1, <3>2 DEF IInv, Done
  <2>11. ASSUME NEW t \in hist'.pub
         PROVE  /\ t < i \/ t = i
                /\ t \in Writes(preview.snap)
                /\ t \in hist'.touched \/ disk'[t] = cand[t]
    <3>1. CASE t = i  BY <1>2, <2>6, <3>1
    <3>2. CASE t # i
      <4>1. t \in hist.pub /\ t \in Targets  BY <2>1, <3>2 DEF IInv, Types
      <4>2. QED  BY <1>1, <2>1, <2>6, <3>2, <4>1 DEF IInv, Done
    <3>3. QED  BY <3>1, <3>2
  <2>12. Done'  BY <1>4, <2>1, <2>2, <2>3, <2>10, <2>11 DEF Done, Writes
  <2>13. QED  BY <2>3, <2>7, <2>8, <2>9, <2>12 DEF IInv, Reported
<1>5. QED  BY <1>3, <1>4 DEF Publish

LEMMA VerifyStep ==
    ASSUME IInv, VerifyTarget
    PROVE  IInv'
<1> DEFINE o == IF preview.snap.act[job.i] = "create" THEN "created" ELSE "replaced"
<1>1. /\ job.at = "verify" /\ Running /\ InFile /\ UNCHANGED <<project, source, disk, dirs, others>>
      BY DEF VerifyTarget, disks, Running, InFile
<1>2. job.i \in Writes(preview.snap) /\ job.i \in Targets /\ job.i \in hist.pub
      BY <1>1 DEF IInv, Position, Done, Writes
<1>3. CASE FileFails(FALSE)  BY <1>1, <1>2, <1>3, FileFailsStep
<1>4. CASE job' = Passed /\ result' = [result EXCEPT !.outcome[job.i] = o] /\ UNCHANGED <<preview, hist>>
  <2>1. o \in Published  BY DEF Published
  <2> HIDE DEF o
  <2>2. (o \in Published) = (job.i \in hist.pub)  BY <1>2, <2>1
  <2>3. QED  BY <1>1, <1>2, <1>4, <2>1, <2>2, PassedStep
<1>5. QED  BY <1>3, <1>4 DEF VerifyTarget
-----------------------------------------------------------------------------
(* Other programs.                                                           *)

LEMMA OthersWriteStep ==
    ASSUME IInv, OthersWrite
    PROVE  IInv'
<1>1. PICK t \in Targets :
        /\ \E c \in {Missing} \union {[from |-> "other", of |-> n] : n \in Foreign} :
             disk' = [disk EXCEPT ![t] = c]
        /\ hist' = [hist EXCEPT
                       !.touched = IF t \in hist.pub THEN @ \union {t} ELSE @,
                       !.late = IF job.at = "publish" THEN @ \union {t} ELSE @]
      BY DEF OthersWrite
<1>2. UNCHANGED <<project, source, dirs, preview, job, result>>  BY DEF OthersWrite
<1>3. others' \in 0..MaxOthers  BY ContentAssumption DEF OthersWrite, IInv, Types
<1>4. hist \in Histories /\ disk \in [Targets -> Content]  BY DEF IInv, Types, Histories
<1>5. disk' \in [Targets -> Content] /\ \A u \in Targets \ {t} : disk'[u] = disk[u]
  <2>1. PICK c \in {Missing} \union {[from |-> "other", of |-> n] : n \in Foreign} :
          disk' = [disk EXCEPT ![t] = c]
        BY <1>1
  <2>2. c \in Content  BY ContentAssumption DEF Content, Missing
  <2>3. QED  BY <1>4, <2>1, <2>2
<1>6. hist' \in Histories /\ hist'.pub = hist.pub /\ hist'.asked = hist.asked
      /\ hist'.temps = hist.temps
      /\ hist'.touched = (IF t \in hist.pub THEN hist.touched \union {t} ELSE hist.touched)
      /\ hist'.late = (IF job.at = "publish" THEN hist.late \union {t} ELSE hist.late)
  <2>1. (IF t \in hist.pub THEN hist.touched \union {t} ELSE hist.touched) \in SUBSET Targets
        BY <1>4 DEF Histories
  <2>2. (IF job.at = "publish" THEN hist.late \union {t} ELSE hist.late) \in SUBSET Targets
        BY <1>4 DEF Histories
  <2>3. QED  BY <1>1, <1>4, <2>1, <2>2 DEF Histories
<1>7. Types'  BY <1>2, <1>3, <1>5, <1>6 DEF IInv, Types, Histories
<1>8. Taking' = Taking /\ Running' = Running /\ InFile' = InFile
      BY <1>2 DEF Taking, Running, InFile
<1>9. TakenFor'  BY <1>2, <1>8 DEF IInv, TakenFor, OfProject, Candidate
<1>10. Committable'
       BY <1>2, <1>6, <1>8 DEF IInv, Committable, OfProject, Candidate, Allowed, DefaultAction
<1>11. Position'
  <2>1. SUFFICES ASSUME Running, job.at = "publish"
                 PROVE  disk'[job.i] = preview.snap.base[job.i] \/ job.i \in hist'.late
        BY <1>2, <1>6, <1>8 DEF IInv, Position, Writes
  <2>2. job.i \in Targets  BY <2>1 DEF IInv, Position, InFile, Writes
  <2>3. CASE job.i = t  BY <1>6, <2>1, <2>3
  <2>4. CASE job.i # t  BY <1>5, <1>6, <2>1, <2>2, <2>4 DEF IInv, Position
  <2>5. QED  BY <2>3, <2>4
<1>12. Done'
  <2>1. SUFFICES ASSUME Running, NEW u \in hist.pub
                 PROVE  u \in hist'.touched \/ disk'[u] = preview.snap.cand[u]
        BY <1>2, <1>6, <1>8 DEF IInv, Done, Writes
  <2>2. u \in Targets  BY <1>4 DEF Histories
  <2>3. CASE u = t  BY <1>6, <2>1, <2>3
  <2>4. CASE u # t  BY <1>5, <1>6, <2>1, <2>2, <2>4 DEF IInv, Done
  <2>5. QED  BY <2>3, <2>4
<1>13. Reported'
  <2>1. hist.touched \subseteq hist'.touched  BY <1>6
  <2>2. QED  BY <1>2, <1>6, <1>8, <2>1 DEF IInv, Reported, Report
<1>14. QED  BY <1>7, <1>9, <1>10, <1>11, <1>12, <1>13 DEF IInv

LEMMA OthersEditStep ==
    ASSUME IInv, OthersEditSource
    PROVE  IInv'
<1>1. UNCHANGED <<project, disk, dirs, preview, job, result, hist>> /\ source' \in Sources
      BY DEF OthersEditSource
<1>2. others' \in 0..MaxOthers  BY ContentAssumption DEF OthersEditSource, IInv, Types
<1>3. Types'  BY <1>1, <1>2 DEF IInv, Types
<1>4. Taking' = Taking /\ Running' = Running /\ InFile' = InFile
      BY <1>1 DEF Taking, Running, InFile
<1>5. QED  BY <1>1, <1>3, <1>4 DEF IInv, TakenFor, Committable, Position, Done, Reported,
               Report, OfProject, Candidate, Allowed, DefaultAction, Writes

LEMMA StutterStep ==
    ASSUME IInv, UNCHANGED vars
    PROVE  IInv'
BY DEF vars, IInv, Types, TakenFor, Committable, Position, Done, Reported, Report, OfProject,
       Candidate, Allowed, DefaultAction, Writes, Taking, Running, InFile

LEMMA StepKeepsIInv == IInv /\ [Next]_vars => IInv'
<1> SUFFICES ASSUME IInv, [Next]_vars PROVE IInv'  OBVIOUS
<1>1. CASE User
      BY <1>1, EditStep, OpenStep, SetActionStep DEF User
<1>2. CASE Previewing
      BY <1>2, BeginPreviewStep, TakingStep, BlockStep, TakeSnapshotStep DEF Previewing
<1>3. CASE Committing
      BY <1>3, BeginCommitStep, MakeDirectoryStep, RecheckStep, PassOverStep, BeforeMoveStep,
         PublishStep, VerifyStep, CompleteStep DEF Committing
<1>4. CASE Others  BY <1>4, OthersWriteStep, OthersEditStep DEF Others
<1>5. CASE UNCHANGED vars  BY <1>5, StutterStep
<1>6. QED  BY <1>1, <1>2, <1>3, <1>4, <1>5 DEF Next

LEMMA Invariance == Spec => []IInv
BY InitHolds, StepKeepsIInv, PTL DEF Spec
-----------------------------------------------------------------------------
\* Everything keeps its type and the actions of a preview stay within the policy of the
\* categories, through setCandidateAction, previews and commits that stop anywhere.
THEOREM CommitTypeCorrect == Spec => []TypeOK
<1>1. ASSUME IInv, Idle, preview.status = "valid", NEW t \in Targets
      PROVE  /\ preview.snap.act[t] = "create" <=> preview.snap.base[t] = Missing
             /\ preview.snap.act[t] = "skip" <=> preview.snap.base[t] = preview.snap.cand[t]
             /\ preview.snap.act[t] = "keep" => t \in UserTargets
  <2> DEFINE a == preview.snap.act[t]
             b == preview.snap.base[t]
             c == preview.snap.cand[t]
  <2>1. ~Taking  BY <1>1, IdleApart
  <2>2. \/ a = DefaultAction(t, preview.snap.cand, preview.snap.base)
        \/ a = "replace" /\ DefaultAction(t, preview.snap.cand, preview.snap.base) = "keep"
        BY <1>1, <2>1 DEF IInv, Committable, Allowed
  <2>3. c # Missing
    <3>1. PICK s \in Sources : c = Candidate(t, project, s)
          BY <1>1, <2>1 DEF IInv, Committable, OfProject
    <3>2. QED  BY <3>1 DEF Candidate, Missing
  <2>4. DefaultAction(t, preview.snap.cand, preview.snap.base) =
          IF b = Missing THEN "create" ELSE IF b = c THEN "skip"
          ELSE IF t \in UserTargets THEN "keep" ELSE "replace"
        BY DEF DefaultAction
  <2> HIDE DEF a, b, c
  <2>5. (a = "create" <=> b = Missing) /\ (a = "skip" <=> b = c) /\ (a = "keep" => t \in UserTargets)
        BY <2>2, <2>3, <2>4
  <2>6. QED  BY <2>5 DEF a, b, c
<1>2. IInv => TypeOK  BY <1>1 DEF TypeOK, IInv
<1>3. QED  BY <1>2, Invariance, PTL

\* A preview that can be committed is of the project on the screen, for every sequence
\* of edits, refused drafts, loads, previews and commits.
THEOREM PreviewCurrentCorrect == Spec => []PreviewCurrent
<1>1. IInv => PreviewCurrent
  <2>1. SUFFICES ASSUME IInv, Idle, preview.status = "valid"
                 PROVE  /\ preview.snap.project = project
                        /\ \A t \in Targets \ UserTargets :
                             preview.snap.cand[t] = Candidate(t, project, source)
        BY DEF PreviewCurrent
  <2>2. preview.snap.project = project /\ OfProject(preview.snap.cand, project)
        BY <2>1, IdleApart DEF IInv, Committable
  <2>3. QED  BY <2>2 DEF OfProject, Candidate
<1>2. QED  BY <1>1, Invariance, PTL

\* The result of a commit is true wherever it stopped, for any number of files and
\* whatever other programs did meanwhile.
THEOREM ReportCorrect == Spec => []ReportTrue
<1>1. IInv => ReportTrue
  <2>1. SUFFICES ASSUME IInv, Idle PROVE Report(result) => ReportTrue
        BY IdleApart DEF IInv, Reported, ReportTrue
  <2>2. QED  BY DEF Report, ReportTrue, Published
<1>2. QED  BY <1>1, Invariance, PTL

\* What is overwritten is what the preview showed, or what came after the last look at
\* the target; a file of the user's only when asked.
THEOREM OverwritesCorrect == Spec => OverwritesPreviewed
<1> DEFINE Overwrites ==
       \A t \in Targets : disk'[t] # disk[t] /\ others' = others =>
         /\ disk[t] = preview.snap.base[t] \/ (t \in hist.late /\ preview.snap.act[t] = "replace")
         /\ t \in UserTargets /\ preview.snap.base[t] # Missing => t \in hist.asked
<1>1. ASSUME IInv, [Next]_vars PROVE [Overwrites]_vars
  <2>1. SUFFICES ASSUME NEW t \in Targets, disk'[t] # disk[t], others' = others
                 PROVE  /\ \/ disk[t] = preview.snap.base[t]
                           \/ t \in hist.late /\ preview.snap.act[t] = "replace"
                        /\ t \in UserTargets /\ preview.snap.base[t] # Missing => t \in hist.asked
        OBVIOUS
  <2>2. Publish
    <3>1. others \in Nat  BY <1>1, ContentAssumption DEF IInv, Types
    <3>2. ~Others
      <4>1. Others => others' = others + 1  BY DEF Others, OthersWrite, OthersEditSource
      <4>2. QED  BY <2>1, <3>1, <4>1
    <3>3. ~User /\ ~Previewing
          BY <2>1 DEF User, EditProject, RefuseDraft, OpenProject, SetAction, Previewing,
             BeginPreview, BlockPreview, CaptureSources, CompareTargets, TakeSnapshot, disks
    <3>4. Committing  BY <1>1, <2>1, <3>2, <3>3 DEF Next, vars
    <3>5. QED
          BY <2>1, <3>4 DEF Committing, BeginCommit, MakeDirectory, Recheck, PassOver, CheckTarget,
             WriteTemporary, RecheckTarget, VerifyTarget, Complete, disks
  <2>3. Running /\ InFile /\ ~Taking /\ job.at = "publish"
        BY <2>2 DEF Publish, Running, InFile, Taking
  <2>4. /\ disk' = [disk EXCEPT ![job.i] = preview.snap.cand[job.i]]
        /\ preview.snap.act[job.i] = "create" => disk[job.i] = Missing
        BY <2>1, <2>2 DEF Publish
  <2>5. t = job.i  BY <1>1, <2>1, <2>4 DEF IInv, Types
  <2>6. t \in Writes(preview.snap) /\ preview.status = "valid"
        /\ (disk[t] = preview.snap.base[t] \/ t \in hist.late)
        BY <1>1, <2>3, <2>5 DEF IInv, Position
  <2>7. /\ preview.snap.act[t] = "create" => preview.snap.base[t] = Missing
        /\ preview.snap.act[t] \in {"create", "replace"}
        /\ t \in UserTargets /\ preview.snap.base[t] # Missing => t \in hist.asked
        BY <1>1, <2>3, <2>6, WritesDiffer DEF IInv
  <2>8. QED  BY <2>4, <2>5, <2>6, <2>7
<1>2. QED  BY <1>1, Invariance, PTL DEF Spec, OverwritesPreviewed
====
