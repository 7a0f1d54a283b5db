------------------------------ MODULE Generate ------------------------------
(***************************************************************************)
(* One project directory under `sysgo generate': the pipeline of           *)
(* internal/app/pipeline.go, whose last stage is the Writer of             *)
(* internal/adapter/osfs/writer.go, the user who edits the files and the   *)
(* model between the runs, and the runs that are cut short.                *)
(*                                                                         *)
(* A file of the rendered list is scaffold-once (written only if absent)   *)
(* or not (always overwritten).  A file in the directory is known by its   *)
(* text and by whether its first lines hold the generated-code marker.     *)
(***************************************************************************)
EXTENDS Naturals, Sequences

CONSTANTS Paths, GoPaths,  \* the paths, and those that end in .go
          Models,          \* versions of the model and configuration
          Files(_),        \* the list of files rendered and emitted for one
          Texts,           \* what a file can say
          UserText,        \* the text of a file that the user has edited
          SkipPrune(_),    \* output-options.skip-prune of one
          TornWrites       \* whether a run can stop inside os.WriteFile

Contents == [text : Texts, marked : BOOLEAN]
Absent == [text |-> "absent"]
Empty == [text |-> "empty", marked |-> FALSE]

\* `valid': format.Source accepts the rendered source.
RenderedFile == [path : Paths, once : BOOLEAN, content : Contents, valid : BOOLEAN]

ASSUME PathsAssumption == GoPaths \subseteq Paths
ASSUME FilesAssumption == \A m \in Models : Files(m) \in Seq(RenderedFile)
ASSUME TextsAssumption == UserText \in Texts /\ {"absent", "empty"} \cap Texts = {}
ASSUME OptionsAssumption == TornWrites \in BOOLEAN /\ \A m \in Models : SkipPrune(m) \in BOOLEAN

VARIABLES tree,    \* the directory
          model,   \* the model as it is on disk
          phase,   \* where the run is
          files,   \* the list it writes
          at,      \* the file it has come to
          torn,    \* that file has been truncated, and not written yet
          walk,    \* the paths that prune has still to visit
          result,  \* of the last run: "none" once the user has done something
          before   \* history: the directory as the user left it

runVars == <<phase, files, at, torn, walk>>
vars == <<tree, model, runVars, result, before>>

Stages == <<"load", "overlay", "graph", "ir", "render", "contracts", "write">>
Stage == {Stages[i] : i \in 1 .. Len(Stages)}

Init ==
  /\ tree = [p \in Paths |-> Absent]
  /\ model \in Models
  /\ phase = "idle" /\ files = <<>> /\ at = 1 /\ torn = FALSE /\ walk = {}
  /\ result = "none"
  /\ before = tree
-----------------------------------------------------------------------------
(***************************************************************************)
(* The user, between the runs.                                             *)
(***************************************************************************)
EditModel(m) ==
  /\ phase = "idle" /\ m # model
  /\ model' = m /\ result' = "none" /\ before' = tree
  /\ UNCHANGED <<tree, runVars>>

\* An edit leaves the marker where it is, or takes it out.
EditFile(p, marked) ==
  /\ phase = "idle"
  /\ marked => tree[p] # Absent /\ tree[p].marked
  /\ tree' = [tree EXCEPT ![p] = [text |-> UserText, marked |-> marked]]
  /\ result' = "none" /\ before' = tree'
  /\ UNCHANGED <<model, runVars>>

DeleteFile(p) ==
  /\ phase = "idle" /\ tree[p] # Absent
  /\ tree' = [tree EXCEPT ![p] = Absent]
  /\ result' = "none" /\ before' = tree'
  /\ UNCHANGED <<model, runVars>>

(***************************************************************************)
(* The run.  An attempt after a failed one still answers for the directory *)
(* that the first one found.                                               *)
(***************************************************************************)
Start ==
  /\ phase = "idle"
  /\ phase' = "load"
  /\ before' = IF result = "failed" THEN before ELSE tree
  /\ UNCHANGED <<tree, model, files, at, torn, walk, result>>

\* The next stage of the pipeline.  The files are known after `contracts'.
Advance ==
  \E i \in 1 .. Len(Stages) - 1 :
    /\ phase = Stages[i]
    /\ phase' = Stages[i + 1]
    /\ files' = IF Stages[i + 1] = "write" THEN Files(model) ELSE files
    /\ UNCHANGED <<tree, model, at, torn, walk, result, before>>

Exit(r) ==
  /\ phase' = "idle" /\ files' = <<>> /\ at' = 1 /\ torn' = FALSE /\ walk' = {}
  /\ result' = r

\* An error of a stage or of the file system, or the process is killed.
Stop ==
  /\ phase # "idle"
  /\ torn => TornWrites
  /\ Exit("failed")
  /\ UNCHANGED <<tree, model, before>>

File == files[at]
Writing == phase = "write" /\ at <= Len(files)
Exists == tree[File.path] # Absent

Skip ==
  /\ Writing /\ ~torn /\ File.once /\ Exists
  /\ at' = at + 1
  /\ UNCHANGED <<tree, model, phase, files, torn, walk, result, before>>

\* os.WriteFile truncates the file or creates it empty, and then writes.
\* Sources that gofmt rejects are not written: the run can only Stop.
Truncate ==
  /\ Writing /\ ~torn /\ ~(File.once /\ Exists) /\ File.valid
  /\ tree' = [tree EXCEPT ![File.path] = Empty]
  /\ torn' = TRUE
  /\ UNCHANGED <<model, phase, files, at, walk, result, before>>

Fill ==
  /\ Writing /\ torn
  /\ tree' = [tree EXCEPT ![File.path] = File.content]
  /\ torn' = FALSE /\ at' = at + 1
  /\ UNCHANGED <<model, phase, files, walk, result, before>>

Listed == {files[i].path : i \in 1 .. Len(files)}

StartPrune ==
  /\ phase = "write" /\ at > Len(files)
  /\ phase' = "prune"
  /\ walk' = IF SkipPrune(model) THEN {} ELSE {p \in Paths : tree[p] # Absent}
  /\ UNCHANGED <<tree, model, files, at, torn, result, before>>

\* Seeded faults: prune forgets what it has to keep; does not read the file.
StaleUnkept(p) == p \in GoPaths /\ tree[p].marked
StaleUnread(p) == p \notin Listed /\ p \in GoPaths

\* The walk comes to p.  Only Go files with the marker are removed.
Stale(p) == p \notin Listed /\ p \in GoPaths /\ tree[p].marked

Prune(p) ==
  /\ phase = "prune" /\ p \in walk
  /\ walk' = walk \ {p}
  /\ tree' = IF Stale(p) THEN [tree EXCEPT ![p] = Absent] ELSE tree
  /\ UNCHANGED <<model, phase, files, at, torn, result, before>>

Finish ==
  /\ phase = "prune" /\ walk = {}
  /\ Exit("ok")
  /\ UNCHANGED <<tree, model, before>>

User ==
  \/ \E m \in Models : EditModel(m)
  \/ \E p \in Paths : DeleteFile(p) \/ \E marked \in BOOLEAN : EditFile(p, marked)

Run ==
  \/ Start \/ Advance \/ Stop
  \/ Skip \/ Truncate \/ Fill
  \/ StartPrune \/ (\E p \in Paths : Prune(p)) \/ Finish

Next == User \/ Run

Spec == Init /\ [][Next]_vars
-----------------------------------------------------------------------------
TypeOK ==
  /\ tree \in [Paths -> Contents \cup {Absent, Empty}]
  /\ model \in Models
  /\ phase \in {"idle", "prune"} \cup Stage
  /\ files \in Seq(RenderedFile)
  /\ at \in Nat \ {0}
  /\ torn \in BOOLEAN
  /\ walk \subseteq Paths
  /\ result \in {"none", "failed", "ok"}
  /\ before \in [Paths -> Contents \cup {Absent, Empty}]

(***************************************************************************)
(* README.md: scaffold-once files "are written only if absent and never    *)
(* overwritten"; writer.go: "Scaffold-once and hand-written files (without *)
(* the marker) are never touched" by prune.  So a run changes a file       *)
(* without the marker only where it generates one (or has just emptied the *)
(* file itself).                                                           *)
(***************************************************************************)
Generated(p) == \E i \in 1 .. Len(files) : files[i].path = p /\ ~files[i].once
BeingWritten(p) == Writing /\ torn /\ File.path = p

HandWrittenSurvives ==
  [][phase # "idle" =>
       \A p \in Paths :
         tree[p] \in Contents /\ ~tree[p].marked /\ ~BeingWritten(p) =>
           tree'[p] = tree[p] \/ Generated(p)]_vars

(***************************************************************************)
(* What a run makes of the directory `old': the last generated file of     *)
(* each path; else what was there; else the first scaffold.  Go files with *)
(* the marker that are not in the list are gone.                           *)
(***************************************************************************)
LastGenerated(fs, p, i) ==
  /\ fs[i].path = p /\ ~fs[i].once
  /\ \A j \in i + 1 .. Len(fs) : fs[j].path = p => fs[j].once
FirstOf(fs, p, i) ==
  /\ fs[i].path = p
  /\ \A j \in 1 .. i - 1 : fs[j].path # p

Synced(old, m, p, new) ==
  LET fs == Files(m)
      own == {i \in 1 .. Len(fs) : fs[i].path = p}
  IN  IF own = {}
        THEN new = IF ~SkipPrune(m) /\ p \in GoPaths /\ old # Absent /\ old.marked
                     THEN Absent ELSE old
        ELSE \/ \E i \in own : LastGenerated(fs, p, i) /\ new = fs[i].content
             \/ /\ \A i \in own : fs[i].once
                /\ IF old = Absent
                     THEN \E i \in own : FirstOf(fs, p, i) /\ new = fs[i].content
                     ELSE new = old

(***************************************************************************)
(* A run that ends has made of the directory what an undisturbed run makes *)
(* of it in one go, even if any number of attempts failed half way before. *)
(***************************************************************************)
Completed == phase = "idle" /\ result = "ok"

RunsConverge ==
  Completed => \A p \in Paths : Synced(before[p], model, p, tree[p])

(***************************************************************************)
(* specs/ARCHIVE.md, "CI freshness: sysgo generate && git diff             *)
(* --exit-code": a run right after a completed one changes nothing.        *)
(***************************************************************************)
RerunsChangeNothing ==
  Completed => \A p \in Paths : Synced(tree[p], model, p, tree[p])
=============================================================================
