---- MODULE ProjectSession ----
(***************************************************************************)
(* The project an App session edits and the MAT files it is saved to         *)
(* (app/c2837x_block_project_session.m), with the callbacks of the           *)
(* configurator that save, load and close (C2837xBlockConfigurator.m).       *)
(*                                                                         *)
(* Every operation is a MATLAB callback that runs to its end.  Those that    *)
(* can fail half way are written as the set of their outcomes, so that a     *)
(* caller composes them in the order of the code.                            *)
(***************************************************************************)
EXTENDS Naturals

CONSTANTS
    Configs,    \* what a project says, its stored interface hash aside
    Hashes,     \* whether that hash may be right, and whether it may be stale
    Paths,      \* project files
    NoPath,     \* an empty FilePath
    Decisions   \* decisions a caller hands to loadProject of the session

ASSUME ProjectAssumption == Configs \subseteq Nat /\ Configs # {} /\ Hashes \subseteq BOOLEAN
ASSUME PathAssumption == NoPath \notin Paths
ASSUME DecisionAssumption == Decisions \subseteq {"Save", "Don't Save", "Cancel"}

VARIABLES
    session,    \* Project, FilePath and Dirty
    files       \* what the project files hold

sessionVars == <<session, files>>

\* hashed: the interface_hash stored with each instance is the one of the interface.
Project == [config : Configs, hashed : BOOLEAN]
File == [form : {"V4", "older", "unreadable"}, project : Project]
Session == [project : Project, path : Paths \union {NoPath}, dirty : BOOLEAN]

NewSession(c) ==
    [project |-> [config |-> c, hashed |-> TRUE], path |-> NoPath, dirty |-> FALSE]
-----------------------------------------------------------------------------
Outcome(ok, s, f) == [ok |-> ok, session |-> s, files |-> f]
Written(s, f, p) == [f EXCEPT ![p] = [form |-> "V4", project |-> s.project]]
Damaged(f, p) == [f EXCEPT ![p].form = "unreadable"]

\* saveProject: the MATLAB save may fail before or after it touched the file.
MutantSaves(s, f, p) ==
    LET saved == [s EXCEPT !.path = p, !.dirty = FALSE]
    IN {Outcome(TRUE, saved, Written(s, f, p)), Outcome(FALSE, saved, f)}
Saves(s, f, p) ==
    {Outcome(TRUE, [s EXCEPT !.path = p, !.dirty = FALSE], Written(s, f, p)),
     Outcome(FALSE, s, f), Outcome(FALSE, s, Damaged(f, p))}

\* canDiscardChanges: an exception of the save leaves loadProject as a refusal does.
CanDiscard(s, f, choice, to) ==
    LET target == IF to = NoPath THEN s.path ELSE to
    IN IF ~s.dirty \/ choice = "Don't Save" THEN {Outcome(TRUE, s, f)}
       ELSE IF choice = "Save" /\ target # NoPath THEN Saves(s, f, target)
       ELSE {Outcome(FALSE, s, f)}

\* The session after a file was read, migrated when it is of an older format, and
\* given the interface hashes of today.
Opened(file, p) ==
    [project |-> [config |-> file.project.config, hashed |-> TRUE],
     path |-> IF file.form = "older" THEN NoPath ELSE p,
     dirty |-> file.form = "older" \/ ~file.project.hashed]

\* loadProject: the file is read before canDiscardChanges saves the project in hand.
Loads(s, f, p, choice, to) ==
    IF f[p].form = "unreadable" \/ (s.dirty /\ choice = "Cancel")
    THEN {Outcome(FALSE, s, f)}
    ELSE {IF r.ok THEN [r EXCEPT !.session = Opened(f[p], p)] ELSE r :
            r \in CanDiscard(s, f, choice, to)}

\* saveCurrentProject of the configurator: the user may cancel, at the file dialog
\* or at the validation issues.
SavesCurrent(s, f) ==
    {Outcome(FALSE, s, f)} \union
    UNION {Saves(s, f, p) : p \in IF s.path = NoPath THEN Paths ELSE {s.path}}

\* discardDecision: nothing is asked of a clean session.
Discards(s, f) ==
    IF s.dirty THEN {Outcome(TRUE, s, f), Outcome(FALSE, s, f)} \union SavesCurrent(s, f)
    ELSE {Outcome(TRUE, s, f)}

\* loadRequested, down to loadProject of the coordinator, which always says Don't Save.
LoadOutcomes(s, f) ==
    UNION {IF r.ok THEN UNION {Loads(r.session, r.files, p, "Don't Save", NoPath) : p \in Paths}
           ELSE {r} : r \in Discards(s, f)}

Become(r) == session' = r.session /\ files' = r.files
-----------------------------------------------------------------------------
\* updateProject, and every operation on an instance that ends in it.
Edit ==
    /\ \E c \in Configs, h \in Hashes :
         session' = [session EXCEPT !.project = [config |-> c, hashed |-> h], !.dirty = TRUE]
    /\ UNCHANGED files

SaveAs == \E p \in Paths : \E r \in Saves(session, files, p) : Become(r)

SaveCurrent == \E r \in SavesCurrent(session, files) : Become(r)

\* loadProject by a caller of the session itself.
LoadProject ==
    \E p \in Paths, choice \in Decisions, to \in Paths \union {NoPath} :
        \E r \in Loads(session, files, p, choice, to) : Become(r)

LoadRequested == \E r \in LoadOutcomes(session, files) : Become(r)

\* closeRequested, and the App started again.
CloseRequested ==
    \E r \in Discards(session, files), c \in Configs :
        IF r.ok THEN session' = NewSession(c) /\ files' = r.files ELSE Become(r)

SessionInit == session \in {NewSession(c) : c \in Configs} /\ files \in [Paths -> File]
SessionNext ==
    Edit \/ SaveAs \/ SaveCurrent \/ LoadProject \/ LoadRequested \/ CloseRequested
SessionSpec == SessionInit /\ [][SessionNext]_sessionVars
-----------------------------------------------------------------------------
SessionTypeOK == session \in Session /\ files \in [Paths -> File]

\* A session that says saved and clean tells the truth: the file at its FilePath is
\* the project on the screen, octet for octet, or it can no longer be read because a
\* later save of this session failed on it.  It is never another project that would
\* be opened in its place: over saves that fail half way, files of older formats,
\* stale hashes and the decisions of the user.
DirtyTrue ==
    ~session.dirty /\ session.path # NoPath =>
        \/ files[session.path] = [form |-> "V4", project |-> session.project]
        \/ files[session.path].form = "unreadable"
====
