--------------------------- MODULE GenerateProofs ---------------------------
(***************************************************************************)
(* Proofs about Generate, for any paths, models and lists of files: a run  *)
(* leaves hand-written files alone, and a run that completes, after        *)
(* whatever attempts that failed, makes of the directory what a single     *)
(* undisturbed run makes of it.                                            *)
(***************************************************************************)
EXTENDS Generate, TLAPS

LEMMA SpecialContents ==
  /\ Absent \notin Contents /\ Empty \notin Contents /\ Absent # Empty
  /\ \A c \in Contents : c.text \in Texts /\ c.marked \in BOOLEAN
  /\ ~Empty.marked
<1>1. Absent.text = "absent" /\ Empty.text = "empty" /\ ~Empty.marked
  BY DEF Absent, Empty
<1>2. \A c \in Contents : c.text \in Texts /\ c.marked \in BOOLEAN
  BY DEF Contents
<1> QED BY <1>1, <1>2, TextsAssumption

\* What there is at `at', while there is something to write.
LEMMA FileType ==
  ASSUME TypeOK, Writing
  PROVE  /\ at \in 1 .. Len(files) /\ Len(files) \in Nat
         /\ File \in RenderedFile
         /\ File.path \in Paths /\ File.once \in BOOLEAN /\ File.content \in Contents
<1>1. at \in 1 .. Len(files) /\ Len(files) \in Nat
  BY DEF TypeOK, Writing
<1>2. File \in RenderedFile
  BY <1>1 DEF File, TypeOK
<1> QED BY <1>1, <1>2 DEF RenderedFile

-----------------------------------------------------------------------------
(***************************************************************************)
(* Type correctness.                                                       *)
(***************************************************************************)
LEMMA InitType == Init => TypeOK
<1> SUFFICES ASSUME Init PROVE TypeOK
  OBVIOUS
<1>1. <<>> \in Seq(RenderedFile)
  OBVIOUS
<1>2. files \in Seq(RenderedFile)
  BY <1>1 DEF Init
<1>3. tree \in [Paths -> Contents \cup {Absent, Empty}] /\ before = tree
  BY DEF Init
<1>4. model \in Models /\ phase = "idle" /\ at = 1 /\ torn = FALSE /\ walk = {} /\ result = "none"
  BY DEF Init
<1>5. before \in [Paths -> Contents \cup {Absent, Empty}]
  BY <1>3
<1>6. walk \subseteq Paths
  BY <1>4
<1>7. torn \in BOOLEAN
  BY <1>4
<1>8. phase \in {"idle", "prune"} \cup Stage
  BY <1>4
<1>9. at \in Nat \ {0}
  BY <1>4
<1>10. result \in {"none", "failed", "ok"}
  BY <1>4
<1> QED BY <1>2, <1>3, <1>4, <1>5, <1>6, <1>7, <1>8, <1>9, <1>10 DEF TypeOK

LEMMA NextType ==
  ASSUME TypeOK, [Next]_vars
  PROVE  TypeOK'
<1>0. <<>> \in Seq(RenderedFile)
  OBVIOUS
<1>1. ASSUME NEW m \in Models, EditModel(m)
      PROVE  TypeOK'
  BY <1>1 DEF EditModel, runVars, TypeOK
<1>2. ASSUME NEW p \in Paths, DeleteFile(p)
      PROVE  TypeOK'
  BY <1>2 DEF DeleteFile, runVars, TypeOK
<1>3. ASSUME NEW p \in Paths, NEW marked \in BOOLEAN, EditFile(p, marked)
      PROVE  TypeOK'
  <2>1. [text |-> UserText, marked |-> marked] \in Contents
    BY TextsAssumption DEF Contents
  <2>2. tree' \in [Paths -> Contents \cup {Absent, Empty}]
    BY <1>3, <2>1 DEF EditFile, TypeOK
  <2> QED BY <1>3, <2>2 DEF EditFile, runVars, TypeOK
<1>4. CASE Start
  <2>1. "load" \in Stage
    BY DEF Stage, Stages
  <2> QED BY <1>4, <2>1 DEF Start, TypeOK
<1>5. CASE Advance
  <2>1. phase' \in Stage
    BY <1>5 DEF Advance, Stage, Stages
  <2>2. UNCHANGED <<tree, model, at, torn, walk, result, before>>
    BY <1>5 DEF Advance
  <2>3. files' = files \/ files' = Files(model)
    BY <1>5 DEF Advance
  <2>4. files' \in Seq(RenderedFile)
    BY <2>3, FilesAssumption DEF TypeOK
  <2>5. phase' \in {"idle", "prune"} \cup Stage
    BY <2>1
  <2> QED BY <2>2, <2>4, <2>5 DEF TypeOK
<1>6. CASE Stop \/ Finish
  <2>1. /\ phase' = "idle" /\ at' = 1 /\ torn' = FALSE /\ walk' = {}
        /\ files' \in Seq(RenderedFile) /\ UNCHANGED <<tree, model, before>>
    BY <1>0, <1>6 DEF Stop, Finish, Exit
  <2>2. result' \in {"none", "failed", "ok"}
    BY <1>6 DEF Stop, Finish, Exit
  <2>3. phase' \in {"idle", "prune"} \cup Stage
    BY <2>1
  <2>4. at' \in Nat \ {0}
    BY <2>1
  <2>5. torn' \in BOOLEAN /\ walk' \subseteq Paths
    BY <2>1
  <2> QED BY <2>1, <2>2, <2>3, <2>4, <2>5 DEF TypeOK
<1>7. CASE Skip
  <2>1. at' \in Nat \ {0}
    BY <1>7, FileType DEF Skip
  <2> QED BY <1>7, <2>1 DEF Skip, TypeOK
<1>8. CASE Truncate
  BY <1>8 DEF Truncate, TypeOK
<1>9. CASE Fill
  <2>1. at' \in Nat \ {0} /\ File.content \in Contents
    BY <1>9, FileType DEF Fill
  <2>2. tree' \in [Paths -> Contents \cup {Absent, Empty}]
    BY <1>9, <2>1 DEF Fill, TypeOK
  <2> QED BY <1>9, <2>1, <2>2 DEF Fill, TypeOK
<1>10. CASE StartPrune
  BY <1>10 DEF StartPrune, TypeOK
<1>11. ASSUME NEW p \in Paths, Prune(p)
       PROVE  TypeOK'
  BY <1>11 DEF Prune, TypeOK
<1>12. CASE UNCHANGED vars
  BY <1>12 DEF vars, runVars, TypeOK
<1> QED
  BY <1>1, <1>2, <1>3, <1>4, <1>5, <1>6, <1>7, <1>8, <1>9, <1>10, <1>11, <1>12
  DEF Next, User, Run

THEOREM TypeCorrect == Spec => []TypeOK
BY InitType, NextType, PTL DEF Spec

-----------------------------------------------------------------------------
(***************************************************************************)
(* The inductive invariant behind RunsConverge.  While an attempt is under *)
(* way, or after one that failed, the directory is between the one that    *)
(* the user left and the one that a run makes of it, path by path.         *)
(***************************************************************************)
RunInv ==
  /\ IF phase \in {"write", "prune"} THEN files = Files(model) ELSE at = 1 /\ ~torn
  /\ phase = "prune" => at > Len(files) /\ (SkipPrune(model) => walk = {})
  /\ torn => Writing /\ tree[File.path] = Empty

Own(p) == {i \in 1 .. Len(Files(model)) : Files(model)[i].path = p}
AllOnce(p) == \A i \in Own(p) : Files(model)[i].once

\* A path that no file is rendered for keeps what it has, or is pruned.
Doomed(p) ==
  ~SkipPrune(model) /\ p \in GoPaths /\ before[p] # Absent /\ before[p].marked

ForeignInv(p) ==
  Own(p) = {} =>
    /\ tree[p] = before[p] \/ (Doomed(p) /\ tree[p] = Absent)
    /\ phase = "prune" /\ Doomed(p) => p \in walk \/ tree[p] = Absent

\* A path with scaffold-once files only keeps what it has, or gets the first.
ScaffoldInv(p) ==
  AllOnce(p) /\ Own(p) # {} /\ ~BeingWritten(p) =>
    IF before[p] = Absent
      THEN \/ tree[p] = Absent
           \/ \E i \in Own(p) : FirstOf(Files(model), p, i) /\ tree[p] = Files(model)[i].content
      ELSE tree[p] = before[p]

\* A scaffold-once file is being written only where there was nothing.
WritingInv(p) ==
  BeingWritten(p) /\ File.once =>
    /\ FirstOf(Files(model), p, at)
    /\ AllOnce(p) => before[p] = Absent

\* What the run has passed is there, and the last generated file has won.
LatestBefore(p, i) ==
  /\ i < at /\ ~Files(model)[i].once
  /\ \A j \in Own(p) : i < j /\ j < at => Files(model)[j].once

PassedInv(p) ==
  /\ \A i \in Own(p) : i < at => tree[p] # Absent
  /\ ~BeingWritten(p) /\ (\E i \in Own(p) : i < at /\ ~Files(model)[i].once) =>
       \E i \in Own(p) : LatestBefore(p, i) /\ tree[p] = Files(model)[i].content

Attempt == phase # "idle" \/ result = "failed"

PathInv(p) == ForeignInv(p) /\ ScaffoldInv(p) /\ WritingInv(p) /\ PassedInv(p)

IInv ==
  /\ TypeOK /\ RunInv
  /\ Attempt => \A p \in Paths : PathInv(p)
  /\ RunsConverge
-----------------------------------------------------------------------------
LEMMA InitInv == Init => IInv
<1> SUFFICES ASSUME Init PROVE IInv
  OBVIOUS
<1>1. TypeOK
  BY InitType
<1>2. RunInv
  BY DEF Init, RunInv
<1>3. ~Attempt /\ RunsConverge
  BY DEF Init, Attempt, RunsConverge, Completed
<1> QED BY <1>1, <1>2, <1>3 DEF IInv

LEMMA OwnFacts ==
  ASSUME TypeOK, NEW p \in Paths
  PROVE  /\ Files(model) \in Seq(RenderedFile) /\ Len(Files(model)) \in Nat
         /\ \A i \in Own(p) :
              /\ i \in 1 .. Len(Files(model)) /\ i \in Nat /\ Files(model)[i].path = p
              /\ Files(model)[i].content \in Contents
<1>1. Files(model) \in Seq(RenderedFile) /\ Len(Files(model)) \in Nat
  BY FilesAssumption DEF TypeOK
<1> SUFFICES ASSUME NEW i \in Own(p)
             PROVE  /\ i \in 1 .. Len(Files(model)) /\ i \in Nat /\ Files(model)[i].path = p
                    /\ Files(model)[i].content \in Contents
  BY <1>1
<1>2. i \in 1 .. Len(Files(model)) /\ Files(model)[i].path = p
  BY DEF Own
<1>3. Files(model)[i] \in RenderedFile
  BY <1>1, <1>2
<1> QED BY <1>1, <1>2, <1>3 DEF RenderedFile

\* What a step does not reach.
LEMMA ElsewhereStep ==
  ASSUME TypeOK, NEW p \in Paths, PathInv(p),
         tree'[p] = tree[p], UNCHANGED <<model, before, phase, walk>>,
         ~BeingWritten(p), ~BeingWritten(p)',
         at' = at \/ (at' = at + 1 /\ at \notin Own(p))
  PROVE  PathInv(p)'
<1>1. Own(p)' = Own(p) /\ AllOnce(p)' = AllOnce(p) /\ Doomed(p)' = Doomed(p)
  BY DEF Own, AllOnce, Doomed
<1>2. \A i \in Own(p) : i < at' <=> i < at
  BY OwnFacts DEF TypeOK
<1>3. ForeignInv(p)'
  BY <1>1 DEF PathInv, ForeignInv
<1>4. ScaffoldInv(p)'
  BY <1>1 DEF PathInv, ScaffoldInv
<1>5. WritingInv(p)'
  BY DEF WritingInv
<1>6. \A i \in Own(p) : LatestBefore(p, i) => LatestBefore(p, i)'
  BY <1>1, <1>2 DEF LatestBefore
<1>7. PassedInv(p)'
  <2>1. \A i \in Own(p) : i < at' => tree'[p] # Absent
    BY <1>2 DEF PathInv, PassedInv
  <2>2. ASSUME NEW k \in Own(p), k < at', ~Files(model)[k].once
        PROVE  \E i \in Own(p) : LatestBefore(p, i)' /\ tree'[p] = Files(model)[i].content
    <3>1. PICK i \in Own(p) : LatestBefore(p, i) /\ tree[p] = Files(model)[i].content
      BY <1>2, <2>2 DEF PathInv, PassedInv
    <3> QED BY <1>6, <3>1
  <2> QED BY <1>1, <2>1, <2>2 DEF PassedInv
<1> QED BY <1>3, <1>4, <1>5, <1>7 DEF PathInv

LEMMA SkipStep ==
  ASSUME IInv, Skip
  PROVE  RunInv' /\ \A p \in Paths : PathInv(p)'
<1> USE DEF IInv
<1>1. /\ Writing /\ ~torn /\ File.once /\ tree[File.path] # Absent /\ at' = at + 1
      /\ UNCHANGED <<tree, model, phase, files, torn, walk, before>>
  BY DEF Skip, Exists
<1>2. phase = "write" /\ files = Files(model)
  BY <1>1 DEF Writing, RunInv
<1>3. RunInv'
  BY <1>1, <1>2 DEF RunInv
<1> SUFFICES ASSUME NEW p \in Paths PROVE PathInv(p)'
  BY <1>3
<1>4. PathInv(p) /\ ~BeingWritten(p) /\ ~BeingWritten(p)'
  BY <1>1, <1>2 DEF Attempt, BeingWritten
<1>5. CASE at \notin Own(p)
  BY <1>1, <1>4, <1>5, ElsewhereStep
<1>6. CASE at \in Own(p)
  <2>1. Own(p)' = Own(p) /\ AllOnce(p)' = AllOnce(p) /\ Doomed(p)' = Doomed(p)
    BY <1>1 DEF Own, AllOnce, Doomed
  <2>2. tree[p] # Absent /\ Files(model)[at].once
    BY <1>1, <1>2, <1>6, OwnFacts DEF File
  <2>3. \A i \in Own(p) : i < at' => i < at \/ i = at
    BY <1>1, OwnFacts DEF TypeOK
  <2>4. ForeignInv(p)' /\ ScaffoldInv(p)' /\ WritingInv(p)'
    BY <1>1, <1>4, <2>1 DEF PathInv, ForeignInv, ScaffoldInv, WritingInv
  <2>5. \A i \in Own(p) : LatestBefore(p, i) => LatestBefore(p, i)'
    <3>1. \A i \in Own(p) : i < at => i < at'
      BY <1>1, OwnFacts DEF TypeOK
    <3> QED BY <1>1, <2>1, <2>2, <2>3, <3>1 DEF LatestBefore
  <2>6. PassedInv(p)'
    <3>1. ASSUME NEW k \in Own(p), k < at', ~Files(model)[k].once
          PROVE  \E i \in Own(p) : LatestBefore(p, i)' /\ tree'[p] = Files(model)[i].content
      <4>1. k < at
        BY <2>2, <2>3, <3>1
      <4>2. PICK i \in Own(p) : LatestBefore(p, i) /\ tree[p] = Files(model)[i].content
        BY <1>4, <3>1, <4>1 DEF PathInv, PassedInv
      <4> QED BY <1>1, <2>5, <4>2
    <3> QED BY <1>1, <2>1, <2>2, <3>1 DEF PassedInv
  <2> QED BY <2>4, <2>6 DEF PathInv
<1> QED BY <1>5, <1>6

LEMMA TruncateStep ==
  ASSUME IInv, Truncate
  PROVE  RunInv' /\ \A p \in Paths : PathInv(p)'
<1> USE DEF IInv
<1>1. /\ Writing /\ ~torn /\ torn' /\ (File.once => tree[File.path] = Absent)
      /\ tree' = [tree EXCEPT ![File.path] = Empty]
      /\ UNCHANGED <<model, phase, files, at, walk, before>>
  BY DEF Truncate, Exists
<1>2. /\ phase = "write" /\ files = Files(model) /\ at \in 1 .. Len(files)
      /\ File.path \in Paths /\ File' = File /\ Writing'
  BY <1>1, FileType DEF Writing, RunInv, File
<1>3. tree'[File.path] = Empty /\ \A p \in Paths : p # File.path => tree'[p] = tree[p]
  BY <1>1, <1>2 DEF TypeOK
<1>4. RunInv'
  BY <1>1, <1>2, <1>3 DEF RunInv
<1> SUFFICES ASSUME NEW p \in Paths PROVE PathInv(p)'
  BY <1>4
<1>5. PathInv(p) /\ ~BeingWritten(p)
  BY <1>1, <1>2 DEF Attempt, BeingWritten
<1>6. CASE p # File.path
  BY <1>1, <1>2, <1>3, <1>5, <1>6, ElsewhereStep DEF BeingWritten
<1>7. CASE p = File.path
  <2>1. Own(p)' = Own(p) /\ AllOnce(p)' = AllOnce(p) /\ at \in Own(p)
    BY <1>1, <1>2, <1>7 DEF Own, AllOnce, File
  <2>2. BeingWritten(p)'
    BY <1>1, <1>2, <1>7 DEF BeingWritten
  <2>3. ForeignInv(p)' /\ ScaffoldInv(p)'
    BY <2>1, <2>2 DEF ForeignInv, ScaffoldInv
  <2>4. WritingInv(p)'
    <3> SUFFICES ASSUME File.once
                 PROVE  /\ FirstOf(Files(model), p, at)
                        /\ AllOnce(p) => before[p] = Absent
      BY <1>1, <1>2, <2>1 DEF WritingInv
    <3>1. tree[p] = Absent
      BY <1>1, <1>7
    <3>2. FirstOf(Files(model), p, at)
      <4>1. \A i \in Own(p) : ~(i < at)
        BY <1>5, <3>1 DEF PathInv, PassedInv
      <4>2. \A j \in 1 .. at - 1 : j \in 1 .. Len(Files(model)) /\ j < at
        BY <1>2
      <4> QED BY <1>2, <1>7, <4>1, <4>2 DEF FirstOf, Own, File
    <3> QED BY <1>5, <2>1, <3>1, <3>2 DEF PathInv, ScaffoldInv
  <2>5. PassedInv(p)'
    BY <1>3, <1>7, <2>2, SpecialContents DEF PassedInv
  <2> QED BY <2>3, <2>4, <2>5 DEF PathInv
<1> QED BY <1>6, <1>7

LEMMA FillStep ==
  ASSUME IInv, Fill
  PROVE  RunInv' /\ \A p \in Paths : PathInv(p)'
<1> USE DEF IInv
<1>1. /\ Writing /\ torn /\ ~torn' /\ at' = at + 1
      /\ tree' = [tree EXCEPT ![File.path] = File.content]
      /\ UNCHANGED <<model, phase, files, walk, before>>
  BY DEF Fill
<1>2. /\ phase = "write" /\ files = Files(model) /\ at \in 1 .. Len(files)
      /\ File.path \in Paths /\ File.content \in Contents
  BY <1>1, FileType DEF Writing, RunInv
<1>3. tree'[File.path] = File.content /\ \A p \in Paths : p # File.path => tree'[p] = tree[p]
  BY <1>1, <1>2 DEF TypeOK
<1>4. RunInv'
  BY <1>1, <1>2 DEF RunInv
<1> SUFFICES ASSUME NEW p \in Paths PROVE PathInv(p)'
  BY <1>4
<1>5. PathInv(p) /\ ~BeingWritten(p)'
  BY <1>1, <1>2 DEF Attempt, BeingWritten
<1>6. CASE p # File.path
  <2>1. at \notin Own(p) /\ ~BeingWritten(p)
    BY <1>2, <1>6 DEF Own, File, BeingWritten
  <2> QED BY <1>1, <1>3, <1>5, <1>6, <2>1, ElsewhereStep
<1>7. CASE p = File.path
  <2>1. Own(p)' = Own(p) /\ AllOnce(p)' = AllOnce(p) /\ at \in Own(p)
    BY <1>1, <1>2, <1>7 DEF Own, AllOnce, File
  <2>2. BeingWritten(p) /\ tree'[p] = Files(model)[at].content /\ tree'[p] # Absent
    BY <1>1, <1>2, <1>3, <1>7, SpecialContents DEF BeingWritten, File
  <2>3. Files(model)[at].once = File.once
    BY <1>2 DEF File
  <2>4. ForeignInv(p)' /\ WritingInv(p)'
    BY <1>5, <2>1 DEF ForeignInv, WritingInv
  <2>5. ScaffoldInv(p)'
    <3> SUFFICES ASSUME AllOnce(p)
                 PROVE  /\ before[p] = Absent
                        /\ FirstOf(Files(model), p, at)
      BY <1>1, <2>1, <2>2 DEF ScaffoldInv
    <3>1. File.once
      BY <2>1, <2>3 DEF AllOnce
    <3> QED BY <1>5, <2>2, <3>1 DEF PathInv, WritingInv
  <2>6. PassedInv(p)'
    <3> PICK n \in Own(p) : n = at
      BY <2>1
    <3> SUFFICES ASSUME NEW k \in Own(p), k < at', ~Files(model)[k].once
                 PROVE  LatestBefore(p, n)'
      BY <1>1, <2>1, <2>2 DEF PassedInv
    <3>1. ~Files(model)[at].once
      <4> SUFFICES ASSUME File.once PROVE FALSE
        BY <2>3
      <4>1. FirstOf(Files(model), p, at)
        BY <1>5, <2>2 DEF PathInv, WritingInv
      <4>2. k \in 1 .. at - 1 \/ k = at
        BY <1>1, <1>2, OwnFacts
      <4> QED BY <2>3, <4>1, <4>2, OwnFacts DEF FirstOf
    <3>2. \A j \in Own(p) : ~(at < j /\ j < at + 1)
      BY <1>2, OwnFacts
    <3>3. at < at'
      BY <1>1, <1>2
    <3> QED BY <1>1, <2>1, <3>1, <3>2, <3>3 DEF LatestBefore
  <2> QED BY <2>4, <2>5, <2>6 DEF PathInv
<1> QED BY <1>6, <1>7

\* After the last file nothing is being written.
LEMMA StartPruneStep ==
  ASSUME IInv, StartPrune
  PROVE  RunInv' /\ \A p \in Paths : PathInv(p)'
<1> USE DEF IInv
<1>1. /\ phase = "write" /\ at > Len(files) /\ phase' = "prune"
      /\ walk' = IF SkipPrune(model) THEN {} ELSE {p \in Paths : tree[p] # Absent}
      /\ UNCHANGED <<tree, model, files, at, torn, before>>
  BY DEF StartPrune
<1>2. /\ files = Files(model) /\ ~Writing /\ ~torn /\ ~Writing'
  BY <1>1, FilesAssumption DEF RunInv, Writing, TypeOK
<1>3. RunInv'
  BY <1>1, <1>2 DEF RunInv
<1> SUFFICES ASSUME NEW p \in Paths PROVE PathInv(p)'
  BY <1>3
<1>4. PathInv(p) /\ ~BeingWritten(p) /\ ~BeingWritten(p)'
  BY <1>1, <1>2 DEF Attempt, BeingWritten
<1>5. Own(p)' = Own(p) /\ AllOnce(p)' = AllOnce(p) /\ Doomed(p)' = Doomed(p)
  BY <1>1 DEF Own, AllOnce, Doomed
<1>6. ForeignInv(p)'
  <2>1. Doomed(p) => p \in walk' \/ tree[p] = Absent
    BY <1>1 DEF Doomed
  <2> QED BY <1>1, <1>4, <1>5, <2>1 DEF PathInv, ForeignInv
<1>7. ScaffoldInv(p)' /\ WritingInv(p)'
  BY <1>1, <1>4, <1>5 DEF PathInv, ScaffoldInv, WritingInv
<1>8. \A i : LatestBefore(p, i)' = LatestBefore(p, i)
  BY <1>1, <1>5 DEF LatestBefore
<1>9. PassedInv(p)'
  BY <1>1, <1>4, <1>5, <1>8 DEF PathInv, PassedInv
<1> QED BY <1>6, <1>7, <1>9 DEF PathInv

LEMMA PruneStep ==
  ASSUME IInv, NEW r \in Paths, Prune(r)
  PROVE  RunInv' /\ \A p \in Paths : PathInv(p)'
<1> USE DEF IInv
<1>1. /\ phase = "prune" /\ r \in walk /\ walk' = walk \ {r}
      /\ tree' = IF Stale(r) THEN [tree EXCEPT ![r] = Absent] ELSE tree
      /\ UNCHANGED <<model, phase, files, at, torn, before>>
  BY DEF Prune
<1>2. files = Files(model) /\ ~Writing /\ ~Writing' /\ ~torn /\ ~SkipPrune(model)
  BY <1>1 DEF RunInv, Writing
<1>3. RunInv'
  BY <1>1, <1>2 DEF RunInv
<1>4. /\ \A p \in Paths : p # r => tree'[p] = tree[p]
      /\ tree'[r] = IF Stale(r) THEN Absent ELSE tree[r]
  BY <1>1 DEF TypeOK
<1>5. Own(r) = {} <=> r \notin Listed
  BY <1>2 DEF Own, Listed
<1> SUFFICES ASSUME NEW p \in Paths PROVE PathInv(p)'
  BY <1>3
<1>6. PathInv(p) /\ ~BeingWritten(p) /\ ~BeingWritten(p)'
  BY <1>1, <1>2 DEF Attempt, BeingWritten
<1>7. Own(p)' = Own(p) /\ AllOnce(p)' = AllOnce(p) /\ Doomed(p)' = Doomed(p)
  BY <1>1 DEF Own, AllOnce, Doomed
<1>8. Own(p) # {} => tree'[p] = tree[p]
  BY <1>4, <1>5 DEF Stale
<1>9. ForeignInv(p)'
  <2>1. CASE p # r
    BY <1>1, <1>4, <1>6, <1>7, <2>1 DEF PathInv, ForeignInv
  <2>2. CASE p = r
    <3> SUFFICES ASSUME Own(r) = {}
                 PROVE  /\ tree'[r] = before[r] \/ (Doomed(r) /\ tree'[r] = Absent)
                        /\ Doomed(r) => tree'[r] = Absent
      BY <1>1, <1>7, <2>2 DEF ForeignInv
    <3>1. tree[r] = before[r] \/ (Doomed(r) /\ tree[r] = Absent)
      BY <1>6, <2>2 DEF PathInv, ForeignInv
    <3>2. CASE tree[r] = Absent
      BY <1>4, <3>1, <3>2 DEF Doomed
    <3>3. CASE tree[r] # Absent
      <4>1. tree[r] = before[r] /\ Stale(r) = Doomed(r)
        BY <1>2, <1>5, <3>1, <3>3 DEF Stale, Doomed
      <4> QED BY <1>4, <4>1
    <3> QED BY <3>2, <3>3
  <2> QED BY <2>1, <2>2
<1>10. ScaffoldInv(p)' /\ WritingInv(p)'
  BY <1>1, <1>6, <1>7, <1>8 DEF PathInv, ScaffoldInv, WritingInv
<1>11. \A i : LatestBefore(p, i)' = LatestBefore(p, i)
  BY <1>1, <1>7 DEF LatestBefore
<1>12. PassedInv(p)'
  BY <1>1, <1>6, <1>7, <1>8, <1>11 DEF PathInv, PassedInv
<1> QED BY <1>9, <1>10, <1>12 DEF PathInv

\* The run is over: every path is as the list says.
LEMMA FinishStep ==
  ASSUME IInv, Finish
  PROVE  RunsConverge'
<1> USE DEF IInv
<1>1. /\ phase = "prune" /\ walk = {} /\ at > Len(Files(model)) /\ files = Files(model)
      /\ ~Writing /\ UNCHANGED <<tree, model, before>>
  BY DEF Finish, RunInv, Writing
<1> SUFFICES ASSUME NEW p \in Paths PROVE Synced(before[p], model, p, tree[p])
  BY <1>1 DEF RunsConverge
<1>2. PathInv(p) /\ ~BeingWritten(p)
  BY <1>1 DEF Attempt, BeingWritten
<1>3. \A i \in Own(p) : i < at
  BY <1>1, OwnFacts DEF TypeOK
<1>4. CASE Own(p) = {}
  <2>1. IF Doomed(p) THEN tree[p] = Absent ELSE tree[p] = before[p]
    BY <1>1, <1>2, <1>4 DEF PathInv, ForeignInv
  <2> QED BY <1>4, <2>1 DEF Synced, Own, Doomed
<1>5. CASE Own(p) # {} /\ AllOnce(p)
  <2>1. tree[p] # Absent
    BY <1>2, <1>3, <1>5 DEF PathInv, PassedInv
  <2>2. IF before[p] = Absent
          THEN \E i \in Own(p) : FirstOf(Files(model), p, i) /\ tree[p] = Files(model)[i].content
          ELSE tree[p] = before[p]
    BY <1>2, <1>5, <2>1 DEF PathInv, ScaffoldInv
  <2> QED BY <1>5, <2>2 DEF Synced, Own, AllOnce
<1>6. CASE ~AllOnce(p)
  <2>1. PICK i \in Own(p) : LatestBefore(p, i) /\ tree[p] = Files(model)[i].content
    BY <1>2, <1>3, <1>6 DEF PathInv, PassedInv, AllOnce
  <2>2. LastGenerated(Files(model), p, i)
    <3>1. i \in 1 .. Len(Files(model)) /\ Len(Files(model)) \in Nat /\ Files(model)[i].path = p
      BY OwnFacts
    <3>2. ASSUME NEW j \in i + 1 .. Len(Files(model)), Files(model)[j].path = p
          PROVE  Files(model)[j].once
      <4>1. j \in 1 .. Len(Files(model)) /\ i < j
        BY <3>1
      <4>2. j \in Own(p)
        BY <3>2, <4>1 DEF Own
      <4> QED BY <1>3, <2>1, <4>1, <4>2 DEF LatestBefore
    <3> QED BY <2>1, <3>1, <3>2 DEF LastGenerated, LatestBefore
  <2> QED BY <2>1, <2>2 DEF Synced, Own
<1> QED BY <1>4, <1>5, <1>6

\* An attempt that begins, and the stages before it writes.
LEMMA EarlyStep ==
  ASSUME IInv, NEW p \in Paths, ForeignInv(p), ScaffoldInv(p), ~torn, ~torn',
         phase' \notin {"prune"}, at' = 1, UNCHANGED <<tree, model, before>>
  PROVE  PathInv(p)'
<1>1. Own(p)' = Own(p) /\ AllOnce(p)' = AllOnce(p) /\ Doomed(p)' = Doomed(p)
  BY DEF Own, AllOnce, Doomed
<1>2. \A i \in Own(p) : ~(i < at')
  BY OwnFacts DEF IInv
<1>3. ~BeingWritten(p) /\ ~BeingWritten(p)'
  BY DEF BeingWritten
<1> QED BY <1>1, <1>2, <1>3 DEF PathInv, ForeignInv, ScaffoldInv, WritingInv, PassedInv

LEMMA NextInv ==
  ASSUME TornWrites = FALSE, IInv, [Next]_vars
  PROVE  IInv'
<1> USE DEF IInv
<1>0. TypeOK'
  BY NextType
<1>1. CASE User
  <2>1. /\ phase = "idle" /\ phase' = "idle" /\ result' = "none"
        /\ UNCHANGED <<files, at, torn, walk>>
    BY <1>1 DEF User, EditModel, EditFile, DeleteFile, runVars
  <2>2. RunInv'
    BY <2>1 DEF RunInv
  <2>3. ~Attempt' /\ RunsConverge'
    BY <2>1 DEF Attempt, RunsConverge, Completed
  <2> QED BY <1>0, <2>2, <2>3
<1>2. CASE Start
  <2>1. /\ phase = "idle" /\ phase' = "load" /\ ~torn /\ at = 1
        /\ before' = IF result = "failed" THEN before ELSE tree
        /\ UNCHANGED <<tree, model, files, at, torn, walk, result>>
    BY <1>2 DEF Start, RunInv
  <2>2. RunInv' /\ RunsConverge'
    BY <2>1 DEF RunInv, RunsConverge, Completed
  <2>3. ASSUME NEW p \in Paths
        PROVE  PathInv(p)'
    <3>1. CASE result = "failed"
      BY <2>1, <3>1, EarlyStep DEF PathInv, Attempt
    <3>2. CASE result # "failed"
      <4>1. before' = tree
        BY <2>1, <3>2
      <4>2. ForeignInv(p)' /\ ScaffoldInv(p)' /\ WritingInv(p)'
        BY <2>1, <4>1 DEF ForeignInv, ScaffoldInv, WritingInv, BeingWritten
      <4>3. \A i \in Own(p)' : ~(i < at')
        BY <2>1, OwnFacts DEF Own
      <4>4. PassedInv(p)'
        BY <4>3 DEF PassedInv
      <4> QED BY <4>2, <4>4 DEF PathInv
    <3> QED BY <3>1, <3>2
  <2> QED BY <1>0, <2>2, <2>3
<1>3. CASE Advance
  <2>1. /\ phase \notin {"idle", "write", "prune"} /\ phase' \notin {"idle", "prune"}
        /\ phase' = "write" => files' = Files(model)
        /\ UNCHANGED <<tree, model, at, torn, walk, result, before>>
    BY <1>3 DEF Advance, Stages
  <2>2. at = 1 /\ ~torn
    BY <2>1 DEF RunInv
  <2>3. RunInv' /\ RunsConverge'
    BY <2>1, <2>2 DEF RunInv, RunsConverge, Completed
  <2>4. \A p \in Paths : PathInv(p)'
    BY <2>1, <2>2, EarlyStep DEF PathInv, Attempt
  <2> QED BY <1>0, <2>3, <2>4
<1>4. CASE Stop
  <2>1. /\ phase # "idle" /\ ~torn /\ phase' = "idle" /\ at' = 1 /\ ~torn' /\ result' = "failed"
        /\ UNCHANGED <<tree, model, before>>
    BY <1>4 DEF Stop, Exit
  <2>2. RunInv' /\ RunsConverge'
    BY <2>1 DEF RunInv, RunsConverge, Completed
  <2>3. \A p \in Paths : PathInv(p)'
    BY <2>1, EarlyStep DEF PathInv, Attempt
  <2> QED BY <1>0, <2>2, <2>3
<1>5. CASE Skip
  BY <1>0, <1>5, SkipStep DEF Skip, Writing, RunsConverge, Completed
<1>6. CASE Truncate
  BY <1>0, <1>6, TruncateStep DEF Truncate, Writing, RunsConverge, Completed
<1>7. CASE Fill
  BY <1>0, <1>7, FillStep DEF Fill, Writing, RunsConverge, Completed
<1>8. CASE StartPrune
  BY <1>0, <1>8, StartPruneStep DEF StartPrune, RunsConverge, Completed
<1>9. ASSUME NEW p \in Paths, Prune(p)
      PROVE  IInv'
  BY <1>0, <1>9, PruneStep DEF Prune, RunsConverge, Completed
<1>10. CASE Finish
  <2>1. RunInv' /\ ~Attempt'
    BY <1>10 DEF Finish, Exit, RunInv, Attempt
  <2> QED BY <1>0, <1>10, <2>1, FinishStep
<1>11. CASE UNCHANGED vars
  <2>1. UNCHANGED <<tree, model, phase, files, at, torn, walk, result, before>>
    BY <1>11 DEF vars, runVars
  <2>2. RunInv' = RunInv /\ Attempt' = Attempt /\ RunsConverge' = RunsConverge
    BY <2>1 DEF RunInv, Writing, File, Attempt, RunsConverge, Completed
  <2>3. \A p \in Paths : BeingWritten(p)' = BeingWritten(p)
    BY <2>1 DEF BeingWritten, Writing, File
  <2>4. ASSUME NEW p \in Paths, PathInv(p)
        PROVE  PathInv(p)'
    <3>1. Own(p)' = Own(p) /\ AllOnce(p)' = AllOnce(p) /\ Doomed(p)' = Doomed(p)
      BY <2>1 DEF Own, AllOnce, Doomed
    <3>2. \A i : LatestBefore(p, i)' = LatestBefore(p, i)
      BY <2>1, <3>1 DEF LatestBefore
    <3>3. ForeignInv(p)' /\ ScaffoldInv(p)' /\ PassedInv(p)'
      BY <2>1, <2>3, <2>4, <3>1, <3>2 DEF PathInv, ForeignInv, ScaffoldInv, PassedInv
    <3>4. WritingInv(p)'
      BY <2>1, <2>3, <2>4, <3>1 DEF PathInv, WritingInv, File
    <3> QED BY <3>3, <3>4 DEF PathInv
  <2> QED BY <1>0, <2>2, <2>4
<1> QED
  BY <1>1, <1>2, <1>3, <1>4, <1>5, <1>6, <1>7, <1>8, <1>9, <1>10, <1>11 DEF Next, Run

(***************************************************************************)
(* If a run never stops inside os.WriteFile, then a run that completes     *)
(* makes of the directory what a single undisturbed run makes of it:       *)
(* failed attempts before it leave no trace.                               *)
(***************************************************************************)
THEOREM Convergence ==
  ASSUME TornWrites = FALSE
  PROVE  Spec => []RunsConverge
<1>1. IInv /\ [Next]_vars => IInv'
  BY NextInv
<1>2. IInv => RunsConverge
  BY DEF IInv
<1> QED BY <1>1, <1>2, InitInv, PTL DEF Spec

(***************************************************************************)
(* A run that has brought the directory up to date finds nothing to do.    *)
(***************************************************************************)
LEMMA SyncedIsStable ==
  ASSUME NEW old, NEW m \in Models, NEW p, NEW new, Synced(old, m, p, new)
  PROVE  Synced(new, m, p, new)
<1> DEFINE fs == Files(m)
           own == {i \in 1 .. Len(fs) : fs[i].path = p}
<1>1. CASE own = {}
  BY <1>1 DEF Synced
<1>2. CASE own # {} /\ \E i \in own : LastGenerated(fs, p, i) /\ new = fs[i].content
  BY <1>2 DEF Synced
<1>3. CASE own # {} /\ \A i \in own : fs[i].once
  <2>1. new # Absent
    <3>1. \A i \in own : fs[i].content \in Contents
      <4>1. fs \in Seq(RenderedFile)
        BY FilesAssumption
      <4>2. \A i \in own : fs[i] \in RenderedFile
        BY <4>1
      <4> QED BY <4>2 DEF RenderedFile
    <3>2. \A i \in own : ~LastGenerated(fs, p, i)
      BY <1>3 DEF LastGenerated
    <3>3. IF old = Absent THEN \E i \in own : new = fs[i].content ELSE new = old
      BY <1>3, <3>2 DEF Synced
    <3> QED BY <3>1, <3>3, SpecialContents
  <2> QED BY <1>3, <2>1 DEF Synced
<1> QED BY <1>1, <1>2, <1>3 DEF Synced

THEOREM Idempotence ==
  ASSUME TornWrites = FALSE
  PROVE  Spec => []RerunsChangeNothing
<1>1. IInv /\ [Next]_vars => IInv'
  BY NextInv
<1>2. IInv => RerunsChangeNothing
  BY SyncedIsStable DEF IInv, TypeOK, RunsConverge, RerunsChangeNothing
<1> QED BY <1>1, <1>2, InitInv, PTL DEF Spec

(***************************************************************************)
(* Whatever happens, even inside os.WriteFile, a run leaves a file without *)
(* the marker alone, unless it generates a file at that path.              *)
(***************************************************************************)
THEOREM HandWritten == Spec => HandWrittenSurvives
<1>1. ASSUME TypeOK, [Next]_vars, phase # "idle", NEW p \in Paths,
             tree[p] \in Contents, ~tree[p].marked, ~BeingWritten(p), ~Generated(p)
      PROVE  tree'[p] = tree[p]
  <2>1. CASE Truncate
    <3>1. p # File.path
      <4> SUFFICES ASSUME p = File.path PROVE FALSE
        OBVIOUS
      <4>1. at \in 1 .. Len(files) /\ ~(File.once /\ tree[File.path] # Absent)
        BY <1>1, <2>1, FileType DEF Truncate, Exists
      <4>2. ~File.once
        BY <1>1, <4>1, SpecialContents
      <4> QED BY <1>1, <4>1, <4>2 DEF Generated, File
    <3> QED BY <1>1, <2>1, <3>1 DEF Truncate, TypeOK
  <2>2. CASE Fill
    <3>1. p # File.path
      BY <1>1, <2>2 DEF Fill, BeingWritten
    <3> QED BY <1>1, <2>2, <3>1 DEF Fill, TypeOK
  <2>3. ASSUME NEW r \in Paths, Prune(r)
        PROVE  tree'[p] = tree[p]
    BY <1>1, <2>3 DEF Prune, Stale, TypeOK
  <2>4. CASE UNCHANGED tree
    BY <2>4
  <2>5. CASE Start \/ Advance \/ Stop \/ Skip \/ StartPrune \/ Finish
    BY <2>4, <2>5 DEF Start, Advance, Stop, Skip, StartPrune, Finish
  <2>6. CASE User
    BY <1>1, <2>6 DEF User, EditModel, EditFile, DeleteFile
  <2>7. CASE UNCHANGED vars
    BY <2>7 DEF vars
  <2> QED BY <1>1, <2>1, <2>2, <2>3, <2>5, <2>6, <2>7 DEF Next, Run
<1>2. TypeOK /\ [Next]_vars =>
        [phase # "idle" =>
           \A p \in Paths :
             tree[p] \in Contents /\ ~tree[p].marked /\ ~BeingWritten(p) =>
               tree'[p] = tree[p] \/ Generated(p)]_vars
  BY <1>1
<1> QED BY <1>2, TypeCorrect, PTL DEF Spec, HandWrittenSurvives
=============================================================================
