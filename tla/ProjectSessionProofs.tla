---- MODULE ProjectSessionProofs ----
(***************************************************************************)
(* That a session which says saved and clean tells the truth, for every set  *)
(* of projects and paths, as long as no caller hands the decision Save to    *)
(* loadProject: the order in which it reads and saves breaks it (module      *)
(* ProjectSession, run session_save).  DirtyTrue with the types is inductive; *)
(* every operation is shown to keep it for each of its outcomes.             *)
(***************************************************************************)
EXTENDS ProjectSession, TLAPS

\* The state of a session s over files f is one the theorem allows.
Sound(s, f) ==
    /\ s \in Session /\ f \in [Paths -> File]
    /\ ~s.dirty /\ s.path # NoPath =>
         \/ f[s.path] = [form |-> "V4", project |-> s.project]
         \/ f[s.path].form = "unreadable"
SoundAll(R) == \A r \in R : Sound(r.session, r.files)

\* Every outcome of a save, also one that fails on the file, leaves a sound state.
LEMMA SavesSound ==
    ASSUME NEW s, NEW f, Sound(s, f), NEW p \in Paths
    PROVE  SoundAll(Saves(s, f, p))
<1> DEFINE saved == [s EXCEPT !.path = p, !.dirty = FALSE]
           written == Written(s, f, p)
           damaged == Damaged(f, p)
<1>1. s \in Session /\ f \in [Paths -> File] /\ p # NoPath
      BY PathAssumption DEF Sound
<1>2. saved \in Session /\ saved.path = p /\ saved.project = s.project /\ ~saved.dirty
      BY <1>1 DEF Session
<1>3. written \in [Paths -> File] /\ written[p] = [form |-> "V4", project |-> s.project]
  <2>1. [form |-> "V4", project |-> s.project] \in File  BY <1>1 DEF Session, File
  <2>2. QED  BY <1>1, <2>1 DEF Written
<1>4. damaged \in [Paths -> File] /\ damaged[p].form = "unreadable"
      /\ \A q \in Paths \ {p} : damaged[q] = f[q]
      BY <1>1 DEF Damaged, File
<1>5. Sound(saved, written)  BY <1>2, <1>3 DEF Sound
<1>6. Sound(s, damaged)
  <2>1. SUFFICES ASSUME ~s.dirty, s.path # NoPath
                 PROVE  \/ damaged[s.path] = [form |-> "V4", project |-> s.project]
                        \/ damaged[s.path].form = "unreadable"
        BY <1>1, <1>4 DEF Sound
  <2>2. s.path \in Paths  BY <1>1, <2>1 DEF Session
  <2>3. CASE s.path = p   BY <1>4, <2>3
  <2>4. CASE s.path # p   BY <1>4, <2>1, <2>2, <2>4 DEF Sound
  <2>5. QED  BY <2>3, <2>4
<1>7. SUFFICES ASSUME NEW r \in Saves(s, f, p)
               PROVE  Sound(r.session, r.files)
      BY DEF SoundAll
<1> HIDE DEF saved, written, damaged
<1>8. r \in {Outcome(TRUE, saved, written), Outcome(FALSE, s, f), Outcome(FALSE, s, damaged)}
      BY <1>7 DEF Saves, saved, written, damaged
<1>9. CASE r = Outcome(TRUE, saved, written)
      BY <1>5, <1>9 DEF Outcome
<1>10. CASE r = Outcome(FALSE, s, f)  BY <1>10 DEF Outcome
<1>11. CASE r = Outcome(FALSE, s, damaged)
       BY <1>6, <1>11 DEF Outcome
<1>12. QED  BY <1>8, <1>9, <1>10, <1>11

\* A session just opened from a file that can be read is sound.
LEMMA OpenedSound ==
    ASSUME NEW f \in [Paths -> File], NEW p \in Paths, f[p].form # "unreadable"
    PROVE  Sound(Opened(f[p], p), f)
<1> DEFINE s == Opened(f[p], p)
<1>1. f[p] \in File  OBVIOUS
<1>2. s \in Session  BY <1>1 DEF Opened, Session, File, Project
<1>3. ASSUME ~s.dirty, s.path # NoPath
      PROVE  s.path = p /\ f[p] = [form |-> "V4", project |-> s.project]
  <2>1. f[p].form = "V4" /\ f[p].project.hashed
        BY <1>1, <1>3 DEF Opened, File
  <2>2. f[p].project \in [config : Configs, hashed : BOOLEAN]  BY <1>1 DEF File, Project
  <2>3. f[p].project = [config |-> f[p].project.config, hashed |-> TRUE]
        BY <2>1, <2>2
  <2>4. s.project = f[p].project /\ s.path = p  BY <2>1, <2>3 DEF Opened
  <2>5. f[p] = [form |-> f[p].form, project |-> f[p].project]  BY <1>1 DEF File
  <2>6. QED  BY <2>1, <2>4, <2>5
<1>4. QED  BY <1>2, <1>3 DEF Sound

\* A load never saves unless it is told to, and leaves a sound state.
LEMMA LoadsSound ==
    ASSUME NEW s, NEW f, Sound(s, f), NEW p \in Paths,
           NEW choice, choice # "Save", NEW to
    PROVE  SoundAll(Loads(s, f, p, choice, to))
<1>1. f \in [Paths -> File]  BY DEF Sound
<1>2. SUFFICES ASSUME NEW r \in Loads(s, f, p, choice, to)
               PROVE  Sound(r.session, r.files)
      BY DEF SoundAll
<1>3. CanDiscard(s, f, choice, to) \in {{Outcome(TRUE, s, f)}, {Outcome(FALSE, s, f)}}
      BY DEF CanDiscard
<1>4. \/ r = Outcome(FALSE, s, f)
      \/ /\ f[p].form # "unreadable"
         /\ \E q \in CanDiscard(s, f, choice, to) :
              r = IF q.ok THEN [q EXCEPT !.session = Opened(f[p], p)] ELSE q
      BY <1>2 DEF Loads
<1>5. CASE r = Outcome(FALSE, s, f)  BY <1>5 DEF Outcome
<1>6. CASE f[p].form # "unreadable"
            /\ r = [Outcome(TRUE, s, f) EXCEPT !.session = Opened(f[p], p)]
  <2>1. r = Outcome(TRUE, Opened(f[p], p), f)  BY <1>6 DEF Outcome
  <2>2. Sound(Opened(f[p], p), f)  BY <1>1, <1>6, OpenedSound
  <2>3. QED  BY <2>1, <2>2 DEF Outcome
<1>7. ASSUME f[p].form # "unreadable", NEW q \in CanDiscard(s, f, choice, to),
             r = IF q.ok THEN [q EXCEPT !.session = Opened(f[p], p)] ELSE q
      PROVE  Sound(r.session, r.files)
  <2>1. q = Outcome(TRUE, s, f) \/ q = Outcome(FALSE, s, f)  BY <1>3, <1>7
  <2>2. CASE q = Outcome(TRUE, s, f)
    <3>1. q.ok = TRUE  BY <2>2 DEF Outcome
    <3>2. r = [Outcome(TRUE, s, f) EXCEPT !.session = Opened(f[p], p)]  BY <1>7, <2>2, <3>1
    <3>3. QED  BY <1>6, <1>7, <3>2
  <2>3. CASE q = Outcome(FALSE, s, f)
    <3>1. q.ok = FALSE  BY <2>3 DEF Outcome
    <3>2. r = q  BY <1>7, <3>1
    <3>3. QED  BY <1>5, <2>3, <3>2
  <2>4. QED  BY <2>1, <2>2, <2>3
<1>8. QED  BY <1>4, <1>5, <1>7

\* Save of the configurator, cancelled or not, leaves a sound state.
LEMMA SavesCurrentSound ==
    ASSUME NEW s, NEW f, Sound(s, f)
    PROVE  SoundAll(SavesCurrent(s, f))
<1>1. s \in Session  BY DEF Sound
<1>2. SoundAll({Outcome(FALSE, s, f)})  BY DEF SoundAll, Outcome
<1>3. \A p \in IF s.path = NoPath THEN Paths ELSE {s.path} : p \in Paths
      BY <1>1 DEF Session
<1>4. \A p \in Paths : SoundAll(Saves(s, f, p))  BY SavesSound
<1>5. QED  BY <1>2, <1>3, <1>4 DEF SavesCurrent, SoundAll

LEMMA DiscardsSound ==
    ASSUME NEW s, NEW f, Sound(s, f)
    PROVE  SoundAll(Discards(s, f))
<1>1. SoundAll({Outcome(TRUE, s, f)})  BY DEF SoundAll, Outcome
<1>2. SoundAll({Outcome(FALSE, s, f)})  BY DEF SoundAll, Outcome
<1>3. SoundAll(SavesCurrent(s, f))  BY SavesCurrentSound
<1>4. QED  BY <1>1, <1>2, <1>3 DEF Discards, SoundAll

\* The load of the configurator: what the user decides first, then loadProject.
LEMMA LoadOutcomesSound ==
    ASSUME NEW s, NEW f, Sound(s, f)
    PROVE  SoundAll(LoadOutcomes(s, f))
<1>1. SoundAll(Discards(s, f))  BY DiscardsSound
<1>2. SUFFICES ASSUME NEW q \in LoadOutcomes(s, f)
               PROVE  Sound(q.session, q.files)
      BY DEF SoundAll
<1>3. PICK r \in Discards(s, f) :
        \/ q = r
        \/ \E p \in Paths : q \in Loads(r.session, r.files, p, "Don't Save", NoPath)
  <2> DEFINE loaded(r) == {Loads(r.session, r.files, p, "Don't Save", NoPath) : p \in Paths}
  <2>1. PICK r \in Discards(s, f) : q \in IF r.ok THEN UNION loaded(r) ELSE {r}
        BY <1>2 DEF LoadOutcomes
  <2>2. QED  BY <2>1
<1>4. Sound(r.session, r.files)  BY <1>1 DEF SoundAll
<1>5. CASE q = r  BY <1>4, <1>5
<1>6. CASE \E p \in Paths : q \in Loads(r.session, r.files, p, "Don't Save", NoPath)
  <2>1. PICK p \in Paths : q \in Loads(r.session, r.files, p, "Don't Save", NoPath)  BY <1>6
  <2>2. SoundAll(Loads(r.session, r.files, p, "Don't Save", NoPath))  BY <1>4, LoadsSound
  <2>3. QED  BY <2>1, <2>2 DEF SoundAll
<1>7. QED  BY <1>3, <1>5, <1>6

\* Becoming a sound outcome is a sound step.
LEMMA BecomeSound ==
    ASSUME NEW R, SoundAll(R), NEW r \in R, Become(r)
    PROVE  Sound(session, files)'
BY DEF SoundAll, Become, Sound

LEMMA SessionStep ==
    ASSUME "Save" \notin Decisions, Sound(session, files), [SessionNext]_sessionVars
    PROVE  Sound(session, files)'
<1>1. session \in Session /\ files \in [Paths -> File]  BY DEF Sound
<1>2. CASE Edit
  <2>1. PICK c \in Configs, h \in Hashes :
          session' = [session EXCEPT !.project = [config |-> c, hashed |-> h], !.dirty = TRUE]
        BY <1>2 DEF Edit
  <2>2. [config |-> c, hashed |-> h] \in Project  BY ProjectAssumption DEF Project
  <2>3. session' \in Session /\ session'.dirty  BY <1>1, <2>1, <2>2 DEF Session
  <2>4. files' = files  BY <1>2 DEF Edit
  <2>5. QED  BY <1>1, <2>3, <2>4 DEF Sound
<1>3. CASE SaveAs
  <2>1. PICK p \in Paths : \E r \in Saves(session, files, p) : Become(r)  BY <1>3 DEF SaveAs
  <2>2. SoundAll(Saves(session, files, p))  BY SavesSound
  <2>3. QED  BY <2>1, <2>2, BecomeSound
<1>4. CASE SaveCurrent
  <2>1. SoundAll(SavesCurrent(session, files))  BY SavesCurrentSound
  <2>2. QED  BY <1>4, <2>1, BecomeSound DEF SaveCurrent
<1>5. CASE LoadProject
  <2>1. PICK p \in Paths, choice \in Decisions, to \in Paths \union {NoPath} :
          \E r \in Loads(session, files, p, choice, to) : Become(r)
        BY <1>5 DEF LoadProject
  <2>2. choice # "Save"  OBVIOUS
  <2>3. SoundAll(Loads(session, files, p, choice, to))  BY <2>2, LoadsSound
  <2>4. QED  BY <2>1, <2>3, BecomeSound
<1>6. CASE LoadRequested
  <2>1. SoundAll(LoadOutcomes(session, files))  BY LoadOutcomesSound
  <2>2. QED  BY <1>6, <2>1, BecomeSound DEF LoadRequested
<1>7. CASE CloseRequested
  <2>1. PICK r \in Discards(session, files), c \in Configs :
          IF r.ok THEN session' = NewSession(c) /\ files' = r.files ELSE Become(r)
        BY <1>7 DEF CloseRequested
  <2>2. SoundAll(Discards(session, files))  BY DiscardsSound
  <2>3. r.files \in [Paths -> File]  BY <2>2 DEF SoundAll, Sound
  <2>4. NewSession(c) \in Session /\ NewSession(c).path = NoPath
        BY DEF NewSession, Session, Project
  <2>5. CASE r.ok /\ session' = NewSession(c) /\ files' = r.files
        BY <2>3, <2>4, <2>5 DEF Sound
  <2>6. CASE Become(r)  BY <2>2, <2>6, BecomeSound
  <2>7. QED  BY <2>1, <2>5, <2>6
<1>8. CASE UNCHANGED sessionVars  BY <1>8 DEF sessionVars, Sound
<1>9. QED  BY <1>2, <1>3, <1>4, <1>5, <1>6, <1>7, <1>8 DEF SessionNext

\* Session and files keep their types and DirtyTrue holds.
LEMMA AlwaysSound ==
    ASSUME "Save" \notin Decisions
    PROVE  SessionSpec => []Sound(session, files)
<1>1. SessionInit => Sound(session, files)
  <2>1. \A c \in Configs : NewSession(c) \in Session /\ NewSession(c).path = NoPath
        BY DEF NewSession, Session, Project
  <2>2. QED  BY <2>1 DEF SessionInit, Sound
<1>2. Sound(session, files) /\ [SessionNext]_sessionVars => Sound(session, files)'
      BY SessionStep
<1>3. QED  BY <1>1, <1>2, PTL DEF SessionSpec

\* The session stays one of the App and every project file one of a known form,
\* whatever is edited, saved, loaded or migrated.
THEOREM SessionTypeCorrect ==
    ASSUME "Save" \notin Decisions
    PROVE  SessionSpec => []SessionTypeOK
<1>1. Sound(session, files) => SessionTypeOK  BY DEF Sound, SessionTypeOK
<1>2. QED  BY <1>1, AlwaysSound, PTL

\* A session that says saved and clean holds what its file holds, for every set of
\* projects and files: through the configurator, and through loadProject by any
\* caller that does not ask it to save.
THEOREM DirtyCorrect ==
    ASSUME "Save" \notin Decisions
    PROVE  SessionSpec => []DirtyTrue
<1>1. Sound(session, files) => DirtyTrue  BY DEF Sound, DirtyTrue
<1>2. QED  BY <1>1, AlwaysSound, PTL
====
