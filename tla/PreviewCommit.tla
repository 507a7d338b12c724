---- MODULE PreviewCommit ----
(***************************************************************************)
(* Preview and commit of the generated files: the coordinator                *)
(* (app/c2837x_block_app_coordinator.m), the snapshot it takes of project,   *)
(* sources and targets (create_ and validate_preview_snapshot.m), and the    *)
(* commit that writes the files one by one (commit_preview_snapshot.m,       *)
(* commit_file_bytes.m), on a file system that other programs change.        *)
(*                                                                         *)
(* MATLAB runs one callback at a time, so the user edits and loads the       *)
(* project (module ProjectSession) only between two of them; editors and     *)
(* build tools do not wait, and may act between any two steps of a preview   *)
(* or a commit.                                                              *)
(***************************************************************************)
EXTENDS Naturals

CONSTANTS
    Projects,     \* configurations of the project, as numbers
    Candidates,   \* how many files the project has
    UserTargets,  \* those of category user: copies of the external source
    Dirs,         \* output directories
    DirOf,        \* the directory of each target
    Sources,      \* contents of the external algorithm source
    Foreign,      \* contents other programs write to a target
    MaxOthers     \* bound: changes other programs make

\* The candidate files, in the order they are committed.
Targets == 1..Candidates

ASSUME TargetsAssumption ==
    /\ Candidates \in Nat
    /\ UserTargets \subseteq Targets /\ DirOf \in [Targets -> Dirs]
ASSUME ContentAssumption ==
    Projects \subseteq Nat /\ Sources \subseteq Nat /\ Foreign \subseteq Nat /\ MaxOthers \in Nat

VARIABLES
    project,  \* Session.Project
    source,   \* the external algorithm source
    disk,     \* the target files
    dirs,     \* the output directories that exist
    preview,  \* PreviewStatus and PreviewSnapshot of the coordinator
    job,      \* the preview or commit that runs
    result,   \* LastCommitResult
    others,   \* how many changes other programs made
    hist      \* history: what this commit published, what others touched, what the user asked

vars == <<project, source, disk, dirs, preview, job, result, others, hist>>

Content == [from : {"project", "source", "other", "missing"}, of : Nat]
Missing == [from |-> "missing", of |-> 0]
Actions == {"create", "skip", "replace", "keep"}
Snapshot == [project : Projects, source : Sources, cand : [Targets -> Content],
             base : [Targets -> Content], act : [Targets -> Actions]]
NoSnapshot == [none |-> TRUE]

\* The file the provider renders for a target.
Candidate(t, p, s) ==
    IF t \in UserTargets THEN [from |-> "source", of |-> s]
    ELSE [from |-> "project", of |-> p]

\* compare_candidate_files: state of a target and the action chosen for it.
DefaultAction(t, cand, base) ==
    IF base[t] = Missing THEN "create"
    ELSE IF base[t] = cand[t] THEN "skip"
    ELSE IF t \in UserTargets THEN "keep" ELSE "replace"

\* matrix_issue: the default is mandatory but for a user file that differs.
MutantAllowed(t, a, cand, base) == TRUE
Allowed(t, a, cand, base) ==
    \/ a = DefaultAction(t, cand, base)
    \/ a = "replace" /\ DefaultAction(t, cand, base) = "keep"

\* validate_preview_snapshot and verify_targets: nothing differs from the snapshot.
Valid(snap) ==
    /\ project = snap.project /\ source = snap.source
    /\ disk = snap.base

Idle == job.at = "idle"
NoJob == [at |-> "idle", i |-> 1, snap |-> NoSnapshot]
NoResult == [status |-> "none", outcome |-> [t \in Targets |-> "not_attempted"],
             made |-> FALSE, temps |-> {}]
Writes(snap) == {t \in Targets : snap.act[t] \in {"create", "replace"}}
-----------------------------------------------------------------------------
\* What every edit and every load ends with; a draft that is refused does so too.
MutantInvalidated == preview
Invalidated ==
    [status |-> IF preview.status = "none" THEN "none" ELSE "stale", snap |-> NoSnapshot]

disks == <<source, disk, dirs, others>>

EditProject ==
    /\ Idle /\ project' \in Projects
    /\ preview' = Invalidated /\ hist' = [hist EXCEPT !.asked = {}]
    /\ UNCHANGED <<disks, job, result>>

RefuseDraft ==
    /\ Idle /\ preview' = Invalidated /\ hist' = [hist EXCEPT !.asked = {}]
    /\ UNCHANGED <<project, disks, job, result>>

\* loadProject, when the session did load (ProjectSession says when it does); a load
\* that is refused, and a save, touch neither project nor preview.
OpenProject ==
    /\ Idle /\ project' \in Projects
    /\ preview' = Invalidated /\ result' = NoResult
    /\ hist' = [hist EXCEPT !.asked = {}, !.pub = {}, !.touched = {}, !.temps = {}]
    /\ UNCHANGED <<disks, job>>

\* setCandidateAction.
SetAction ==
    /\ Idle /\ preview.status = "valid"
    /\ \E t \in Targets, a \in Actions :
         /\ Allowed(t, a, preview.snap.cand, preview.snap.base)
         /\ preview' = [preview EXCEPT !.snap.act[t] = a]
         /\ hist' = [hist EXCEPT !.asked =
                        IF a = "replace" THEN @ \union {t} ELSE @ \ {t}]
    /\ UNCHANGED <<project, disks, job, result>>
-----------------------------------------------------------------------------
\* createPreview: the old data goes first; then validation, and the provider, which
\* reads the source the first time.
BeginPreview ==
    /\ Idle
    /\ preview' = [preview EXCEPT !.snap = NoSnapshot]
    /\ job' = [NoJob EXCEPT !.at = "sources", !.snap =
                 [project |-> project, source |-> source,
                  cand |-> [t \in Targets |-> Candidate(t, project, source)],
                  base |-> [t \in Targets |-> Missing], act |-> [t \in Targets |-> "skip"]]]
    /\ hist' = [hist EXCEPT !.asked = {}]
    /\ UNCHANGED <<project, disks, result>>

\* blockPreview, from any step: an issue of validation or provider, something that
\* cannot be read, or a target that changed during the capture.
BlockPreview ==
    /\ job.at \in {"sources", "look", "relook"}
    /\ preview' = [status |-> "blocked", snap |-> NoSnapshot] /\ job' = NoJob
    /\ UNCHANGED <<project, disks, result, hist>>

\* capture_external_sources: the source is read a second time.
CaptureSources ==
    /\ job.at = "sources"
    /\ job' = [job EXCEPT !.at = "look", !.snap.source = source]
    /\ UNCHANGED <<project, disks, preview, result, hist>>

CompareTargets ==
    /\ job.at = "look"
    /\ job' = [job EXCEPT !.at = "relook", !.snap.base = disk]
    /\ UNCHANGED <<project, disks, preview, result, hist>>

TakeSnapshot ==
    /\ job.at = "relook" /\ disk = job.snap.base
    /\ preview' = [status |-> "valid", snap |-> [job.snap EXCEPT !.act =
                     [t \in Targets |-> DefaultAction(t, job.snap.cand, disk)]]]
    /\ job' = NoJob
    /\ UNCHANGED <<project, disks, result, hist>>
-----------------------------------------------------------------------------
Ended(status) == [status |-> status, snap |-> preview.snap]
EndCommit(status, r) == preview' = Ended(status) /\ job' = NoJob /\ result' = r

\* has_side_effects: what was left behind, and a look at every target.
MutantSideEffects(r) == r.made \/ r.temps # {}
SideEffects(r) == r.made \/ r.temps # {} \/ disk # preview.snap.base

\* failed_result.
Failed(r) == [r EXCEPT !.status = IF SideEffects(r) THEN "partial_failure" ELSE "failed"]

\* record_failure for the file in hand; its temporary file may be beyond deletion.
FileFails(left) ==
    /\ EndCommit("stale", Failed([result EXCEPT !.outcome[job.i] = "failed",
                                      !.temps = IF left THEN @ \union {job.i} ELSE @]))
    /\ hist' = [hist EXCEPT !.temps = IF left THEN @ \union {job.i} ELSE @, !.late = {}]

\* commitPreview: status, snapshot, actions and targets are checked before anything.
BeginCommit ==
    /\ Idle /\ preview.status = "valid"
    /\ hist' = [hist EXCEPT !.pub = {}, !.touched = {}, !.temps = {}]
    /\ \/ /\ EndCommit("stale", [NoResult EXCEPT !.status = "blocked"])
       \/ /\ Valid(preview.snap)
          /\ \A t \in Targets :
               Allowed(t, preview.snap.act[t], preview.snap.cand, preview.snap.base)
          /\ job' = [NoJob EXCEPT !.at = "directories"] /\ result' = [NoResult EXCEPT !.status = "running"]
          /\ UNCHANGED preview
    /\ UNCHANGED <<project, disks>>

Needed == {t \in Writes(preview.snap) : DirOf[t] \notin dirs}

\* mkdir, in the order of the candidates; it may fail after it made some directory above.
MakeDirectory ==
    /\ job.at = "directories"
    /\ \E t \in Needed :
         /\ \A u \in Needed : t <= u
         /\ \/ /\ dirs' = dirs \union {DirOf[t]} /\ result' = [result EXCEPT !.made = TRUE]
               /\ UNCHANGED <<preview, job>>
            \/ /\ \E made \in {result.made, TRUE} :
                    EndCommit("stale", Failed([result EXCEPT !.made = made]))
               /\ UNCHANGED dirs
    /\ UNCHANGED <<project, source, disk, others, hist>>

\* The snapshot is validated again before the first file, and the phase turns.
Recheck ==
    /\ job.at = "directories" /\ Needed = {}
    /\ \/ /\ Valid(preview.snap)
          /\ job' = [job EXCEPT !.at = "file"]
          /\ UNCHANGED <<preview, result>>
       \/ EndCommit("stale", Failed(result))
    /\ UNCHANGED <<project, disks, hist>>

Passed == [job EXCEPT !.at = "file", !.i = @ + 1]
Matches(t) == disk[t] = preview.snap.base[t]

\* The loop over the candidates: a file that is skipped or kept is only recorded.
PassOver ==
    /\ job.at = "file" /\ job.i \in Targets \ Writes(preview.snap)
    /\ job' = Passed
    /\ result' = [result EXCEPT !.outcome[job.i] =
                    IF preview.snap.act[job.i] = "skip" THEN "skipped" ELSE "kept"]
    /\ UNCHANGED <<project, disks, preview, hist>>

\* commit_file_bytes, to the first look at its target.
CheckTarget ==
    /\ job.at = "file" /\ job.i \in Writes(preview.snap)
    /\ \/ /\ Matches(job.i) /\ job' = [job EXCEPT !.at = "temporary"]
          /\ UNCHANGED <<preview, result, hist>>
       \/ FileFails(FALSE)
    /\ UNCHANGED <<project, disks>>

\* The octets go to a temporary file beside the target, which is read back.
WriteTemporary ==
    /\ job.at = "temporary"
    /\ \/ job' = [job EXCEPT !.at = "recheck"] /\ UNCHANGED <<preview, result, hist>>
       \/ \E left \in BOOLEAN : FileFails(left)
    /\ UNCHANGED <<project, disks>>

\* The last look at the target before the move.
MutantTrusted(t) == TRUE
Trusted(t) == Matches(t)
RecheckTarget ==
    /\ job.at = "recheck"
    /\ \/ /\ Trusted(job.i) /\ job' = [job EXCEPT !.at = "publish"]
          /\ hist' = [hist EXCEPT !.late = {}]
          /\ UNCHANGED <<preview, result>>
       \/ \E left \in BOOLEAN : FileFails(left)
    /\ UNCHANGED <<project, disks>>

\* publish_create moves only to a path that is free; movefile replaces what it finds.
Publish ==
    /\ job.at = "publish"
    /\ \/ /\ preview.snap.act[job.i] = "create" => disk[job.i] = Missing
          /\ disk' = [disk EXCEPT ![job.i] = preview.snap.cand[job.i]]
          /\ job' = [job EXCEPT !.at = "verify"]
          /\ hist' = [hist EXCEPT !.pub = @ \union {job.i}, !.touched = @ \ {job.i},
                                !.late = {}]
          /\ UNCHANGED <<preview, result>>
       \/ /\ \E left \in BOOLEAN : FileFails(left)
          /\ UNCHANGED disk
    /\ UNCHANGED <<project, source, dirs, others>>

\* The target is read back; a mismatch fails the file although it was published.
VerifyTarget ==
    /\ job.at = "verify"
    /\ \/ /\ disk[job.i] = preview.snap.cand[job.i]
          /\ job' = Passed
          /\ result' = [result EXCEPT !.outcome[job.i] =
                 IF preview.snap.act[job.i] = "create" THEN "created" ELSE "replaced"]
          /\ UNCHANGED <<preview, hist>>
       \/ FileFails(FALSE)
    /\ UNCHANGED <<project, disks>>

Complete ==
    /\ job.at = "file" /\ job.i \notin Targets
    /\ EndCommit("committed", [result EXCEPT !.status = "completed"])
    /\ UNCHANGED <<project, disks, hist>>
-----------------------------------------------------------------------------
\* An editor, a build or a version control tool writes or removes a target.
OthersWrite ==
    /\ others < MaxOthers /\ others' = others + 1
    /\ \E t \in Targets :
         /\ DirOf[t] \in dirs
         /\ \E c \in {Missing} \union {[from |-> "other", of |-> n] : n \in Foreign} :
              disk' = [disk EXCEPT ![t] = c]
         /\ hist' = [hist EXCEPT
                        !.touched = IF t \in hist.pub THEN @ \union {t} ELSE @,
                        !.late = IF job.at = "publish" THEN @ \union {t} ELSE @]
    /\ UNCHANGED <<project, source, dirs, preview, job, result>>

\* The user edits the external algorithm source.
OthersEditSource ==
    /\ others < MaxOthers /\ others' = others + 1
    /\ source' \in Sources
    /\ UNCHANGED <<project, disk, dirs, preview, job, result, hist>>
-----------------------------------------------------------------------------
Init ==
    /\ project \in Projects /\ source \in Sources /\ dirs \in SUBSET Dirs
    /\ disk \in [Targets -> {Missing} \union {[from |-> "other", of |-> n] : n \in Foreign}]
    /\ \A t \in Targets : disk[t] # Missing => DirOf[t] \in dirs
    /\ preview = [status |-> "none", snap |-> NoSnapshot]
    /\ job = NoJob /\ result = NoResult /\ others = 0
    /\ hist = [pub |-> {}, touched |-> {}, late |-> {}, asked |-> {}, temps |-> {}]

User == EditProject \/ RefuseDraft \/ OpenProject \/ SetAction
Previewing == BeginPreview \/ BlockPreview \/ CaptureSources \/ CompareTargets \/ TakeSnapshot
Committing ==
    \/ BeginCommit \/ MakeDirectory \/ Recheck \/ PassOver \/ CheckTarget \/ WriteTemporary
    \/ RecheckTarget \/ Publish \/ VerifyTarget \/ Complete
Others == OthersWrite \/ OthersEditSource

Next == User \/ Previewing \/ Committing \/ Others
Spec == Init /\ [][Next]_vars
-----------------------------------------------------------------------------
Results ==
    [status : {"none", "running", "blocked", "failed", "partial_failure", "completed"},
     outcome : [Targets -> {"not_attempted", "skipped", "kept", "failed", "created", "replaced"}],
     made : BOOLEAN, temps : SUBSET Targets]
Types ==
    /\ project \in Projects /\ source \in Sources /\ disk \in [Targets -> Content]
    /\ dirs \subseteq Dirs /\ others \in 0..MaxOthers /\ result \in Results
    /\ preview \in [status : {"none", "blocked", "valid", "stale", "committed"},
                    snap : Snapshot \union {NoSnapshot}]
    /\ job \in [at : {"idle", "sources", "look", "relook", "directories", "file",
                      "temporary", "recheck", "publish", "verify"},
                i : Nat, snap : Snapshot \union {NoSnapshot}]
    /\ hist \in [pub : SUBSET Targets, touched : SUBSET Targets, late : SUBSET Targets,
                 asked : SUBSET Targets, temps : SUBSET Targets]

\* Every variable keeps its range, and the actions of a valid preview are ones the
\* policy of the categories allows.
TypeOK ==
    /\ Types
    /\ Idle /\ preview.status = "valid" =>
         \A t \in Targets :
            /\ preview.snap.act[t] = "create" <=> preview.snap.base[t] = Missing
            /\ preview.snap.act[t] = "skip" <=> preview.snap.base[t] = preview.snap.cand[t]
            /\ preview.snap.act[t] = "keep" => t \in UserTargets

\* A preview that can be committed is one of the project on the screen: whatever was
\* edited, refused, saved or loaded since it was taken.
PreviewCurrent ==
    Idle /\ preview.status = "valid" =>
        /\ preview.snap.project = project
        /\ \A t \in Targets \ UserTargets :
             preview.snap.cand[t] = Candidate(t, project, source)

\* What the program overwrites is what the user saw in the preview: the content of
\* the snapshot, or one that appeared after the last look and before the move, and
\* nothing at all where the preview said create.  A file of the user that differs is
\* overwritten only when the user asked for it in this very preview.
OverwritesPreviewed ==
    [][\A t \in Targets : disk'[t] # disk[t] /\ others' = others =>
         /\ disk[t] = preview.snap.base[t] \/ (t \in hist.late /\ preview.snap.act[t] = "replace")
         /\ t \in UserTargets /\ preview.snap.base[t] # Missing => t \in hist.asked]_vars

\* The result tells the truth about a commit that stopped anywhere: each file it
\* lists as written was, each it lists as untouched was not, only one failed and none
\* after it was tried; "blocked" and "failed" leave nothing behind, unless another
\* program has since removed it; and every temporary file left is listed.
ReportTrue ==
    Idle /\ result.status # "none" =>
        /\ result.temps = hist.temps
        /\ \A t \in Targets :
             /\ result.outcome[t] \in {"created", "replaced"} => t \in hist.pub
             /\ t \in hist.pub => result.outcome[t] \in {"created", "replaced", "failed"}
             /\ result.outcome[t] = "failed" =>
                  \A u \in Targets : u > t => result.outcome[u] = "not_attempted"
        /\ result.status = "completed" =>
             \A t \in Targets : result.outcome[t] \notin {"failed", "not_attempted"}
        /\ result.status = "blocked" => hist.pub = {}
        /\ result.status = "failed" =>
             hist.pub \subseteq hist.touched /\ hist.temps = {} /\ ~result.made

\* The candidates of a valid preview are the ones the sources of its snapshot give.
\* The requirements bind the candidates to the snapshot; the provider has read the
\* external source before the snapshot does, and the two may differ.
FreshCandidates ==
    preview.status = "valid" /\ Idle =>
        \A t \in Targets :
            preview.snap.cand[t] = Candidate(t, preview.snap.project, preview.snap.source)
====
