---------------------------- MODULE InternTable ----------------------------
(***************************************************************************)
(* The concurrent string tables of engine/text: Interner (intern.go) and   *)
(* FileSet (file.go).  Both keep a map `ids' from string to handle and a   *)
(* slice `strs' from handle to string behind one RWMutex, and both assign  *)
(* a handle with the same double-checked locking: look under the read      *)
(* lock, drop it, take the write lock, look again, append.  They differ    *)
(* only in slot 0, which Interner also enters in the map (PreInterned).    *)
(*                                                                         *)
(* The RWMutex is Go's: a writer first announces itself, which holds back  *)
(* new readers, and then waits for the readers inside to leave.            *)
(***************************************************************************)
EXTENDS Naturals, Sequences, FiniteSets

CONSTANTS Procs,        \* goroutines sharing the table
          Strings,      \* strings they intern
          Empty,        \* the string of slot 0
          PreInterned,  \* TRUE: NewInterner; FALSE: NewFileSet
          None          \* no process / no handle

ASSUME PreInternedAssumption == PreInterned \in BOOLEAN
ASSUME EmptyAssumption == Empty \in Strings
ASSUME NoneAssumption == None \notin Procs /\ None \notin Nat

VARIABLES ids,      \* partial function from strings to handles
          strs,     \* sequence of strings; handle h names strs[h + 1]
          readers,  \* processes inside the read lock
          writer,   \* the process inside the write lock, or None
          pending,  \* the writer that announced itself and waits, or None
          pc, arg, hit,
          issued    \* history: the <<string, handle>> pairs ever returned

vars == <<ids, strs, readers, writer, pending, pc, arg, hit, issued>>
lockVars == <<readers, writer, pending>>

Handles == 0 .. Len(strs) - 1
StringOf(h) == strs[h + 1]

Init ==
  /\ ids = [s \in (IF PreInterned THEN {Empty} ELSE {}) |-> 0]
  /\ strs = <<Empty>>
  /\ readers = {} /\ writer = None /\ pending = None
  /\ pc = [p \in Procs |-> "idle"]
  /\ arg = [p \in Procs |-> Empty]
  /\ hit = [p \in Procs |-> None]
  /\ issued = IF PreInterned THEN {<<Empty, 0>>} ELSE {}

(***************************************************************************)
(* The steps of one Intern(s) (or FileSet.Add) call of process p.          *)
(***************************************************************************)
Call(p, s) ==
  /\ pc[p] = "idle"
  /\ pc' = [pc EXCEPT ![p] = "rlock"]
  /\ arg' = [arg EXCEPT ![p] = s]
  /\ hit' = [hit EXCEPT ![p] = None]
  /\ UNCHANGED <<ids, strs, lockVars, issued>>

RLock(p) ==
  /\ pc[p] = "rlock"
  /\ writer = None /\ pending = None
  /\ readers' = readers \cup {p}
  /\ pc' = [pc EXCEPT ![p] = "probe"]
  /\ UNCHANGED <<ids, strs, writer, pending, arg, hit, issued>>

Probe(p) ==
  /\ pc[p] = "probe"
  /\ hit' = [hit EXCEPT ![p] = IF arg[p] \in DOMAIN ids THEN ids[arg[p]] ELSE None]
  /\ pc' = [pc EXCEPT ![p] = "runlock"]
  /\ UNCHANGED <<ids, strs, lockVars, arg, issued>>

RUnlock(p) ==
  /\ pc[p] = "runlock"
  /\ readers' = readers \ {p}
  /\ pc' = [pc EXCEPT ![p] = IF hit[p] # None THEN "return" ELSE "announce"]
  /\ UNCHANGED <<ids, strs, writer, pending, arg, hit, issued>>

Announce(p) ==
  /\ pc[p] = "announce"
  /\ writer = None /\ pending = None
  /\ pending' = p
  /\ pc' = [pc EXCEPT ![p] = "lock"]
  /\ UNCHANGED <<ids, strs, readers, writer, arg, hit, issued>>

Lock(p) ==
  /\ pc[p] = "lock"
  /\ readers = {}
  /\ writer' = p /\ pending' = None
  /\ pc' = [pc EXCEPT ![p] = "recheck"]
  /\ UNCHANGED <<ids, strs, readers, arg, hit, issued>>

\* Seeded fault: no second look under the write lock.
RecheckNever(p) ==
  /\ pc[p] = "recheck"
  /\ pc' = [pc EXCEPT ![p] = "append"]
  /\ UNCHANGED <<ids, strs, lockVars, arg, hit, issued>>

\* Another goroutine may have entered the string between the two locks.
Recheck(p) ==
  /\ pc[p] = "recheck"
  /\ IF arg[p] \in DOMAIN ids
       THEN /\ hit' = [hit EXCEPT ![p] = ids[arg[p]]]
            /\ pc' = [pc EXCEPT ![p] = "unlock"]
       ELSE /\ pc' = [pc EXCEPT ![p] = "append"]
            /\ UNCHANGED hit
  /\ UNCHANGED <<ids, strs, lockVars, arg, issued>>

\* Seeded fault: the handle is the length after the append.
AppendStrLate(p) ==
  /\ pc[p] = "append"
  /\ hit' = [hit EXCEPT ![p] = Len(strs) + 1]
  /\ strs' = Append(strs, arg[p])
  /\ pc' = [pc EXCEPT ![p] = "index"]
  /\ UNCHANGED <<ids, lockVars, arg, issued>>

AppendStr(p) ==
  /\ pc[p] = "append"
  /\ hit' = [hit EXCEPT ![p] = Len(strs)]
  /\ strs' = Append(strs, arg[p])
  /\ pc' = [pc EXCEPT ![p] = "index"]
  /\ UNCHANGED <<ids, lockVars, arg, issued>>

Index(p) ==
  /\ pc[p] = "index"
  /\ ids' = [s \in DOMAIN ids \cup {arg[p]} |-> IF s = arg[p] THEN hit[p] ELSE ids[s]]
  /\ pc' = [pc EXCEPT ![p] = "unlock"]
  /\ UNCHANGED <<strs, lockVars, arg, hit, issued>>

\* Seeded fault: the lock stays held when the map had no entry.
UnlockForgotten(p) ==
  /\ pc[p] = "unlock"
  /\ writer' = IF Len(strs) = 1 THEN None ELSE writer
  /\ pc' = [pc EXCEPT ![p] = "return"]
  /\ UNCHANGED <<ids, strs, readers, pending, arg, hit, issued>>

Unlock(p) ==
  /\ pc[p] = "unlock"
  /\ writer' = None
  /\ pc' = [pc EXCEPT ![p] = "return"]
  /\ UNCHANGED <<ids, strs, readers, pending, arg, hit, issued>>

Return(p) ==
  /\ pc[p] = "return"
  /\ issued' = issued \cup {<<arg[p], hit[p]>>}
  /\ pc' = [pc EXCEPT ![p] = "idle"]
  /\ UNCHANGED <<ids, strs, lockVars, arg, hit>>

Step(p) ==
  \/ RLock(p) \/ Probe(p) \/ RUnlock(p)
  \/ Announce(p) \/ Lock(p) \/ Recheck(p)
  \/ AppendStr(p) \/ Index(p) \/ Unlock(p) \/ Return(p)

Next == \E p \in Procs : Step(p) \/ \E s \in Strings : Call(p, s)

Spec == Init /\ [][Next]_vars

(***************************************************************************)
(* Go's RWMutex hands the lock over in turn: a reader or a writer that     *)
(* waits while the lock keeps becoming available gets it (SF), and a       *)
(* goroutine that is not waiting keeps running (WF).                       *)
(***************************************************************************)
Fairness ==
  \A p \in Procs :
    /\ WF_vars(Step(p))
    /\ SF_vars(RLock(p))
    /\ SF_vars(Announce(p))

FairSpec == Spec /\ Fairness
-----------------------------------------------------------------------------
TypeOK ==
  /\ DOMAIN ids \subseteq Strings
  /\ \A s \in DOMAIN ids : ids[s] \in Nat
  /\ strs \in Seq(Strings)
  /\ readers \subseteq Procs
  /\ writer \in Procs \cup {None}
  /\ pending \in Procs \cup {None}
  /\ pc \in [Procs -> {"idle", "rlock", "probe", "runlock", "announce", "lock",
                       "recheck", "append", "index", "unlock", "return"}]
  /\ arg \in [Procs -> Strings]
  /\ hit \in [Procs -> Nat \cup {None}]
  /\ issued \subseteq Strings \X Nat

(***************************************************************************)
(* intern.go: "two Symbols are equal iff the strings they were interned    *)
(* from are equal".  Whatever the interleaving of the calls that produced  *)
(* them, no string ever gets two handles and no two strings share one.     *)
(***************************************************************************)
HandlesIdentifyStrings ==
  \A a, b \in issued : a[1] = b[1] <=> a[2] = b[2]

(***************************************************************************)
(* Every handle handed out can be looked up, for good: Interner.Lookup     *)
(* (FileSet.Path) does not panic on it and gives back the string it was    *)
(* interned from.                                                          *)
(***************************************************************************)
IssuedResolve ==
  \A a \in issued : a[2] \in Handles /\ StringOf(a[2]) = a[1]

(***************************************************************************)
(* While nobody is inside the write lock, the two halves of the table      *)
(* agree in both directions, and a FileSet never hands out slot 0, NoFile. *)
(* A second look that was skipped, or a map entry made before the slice    *)
(* grew, would break it.                                                   *)
(***************************************************************************)
Indexed == IF PreInterned THEN Handles ELSE Handles \ {0}

TableAgrees ==
  writer = None =>
    /\ \A s \in DOMAIN ids : ids[s] \in Indexed /\ StringOf(ids[s]) = s
    /\ \A h \in Indexed : StringOf(h) \in DOMAIN ids /\ ids[StringOf(h)] = h

(***************************************************************************)
(* Every call returns: readers and writers do not starve or block each     *)
(* other for ever.                                                         *)
(***************************************************************************)
CallsReturn == \A p \in Procs : pc[p] # "idle" ~> pc[p] = "idle"

(***************************************************************************)
(* The table as its callers see it: an atomic table (InternAtomic).  The   *)
(* handle of a new string is fixed when the slice grows.                   *)
(***************************************************************************)
Answer(p) == IF pc[p] \in {"idle", "rlock"} THEN None ELSE hit[p]

Atomic == INSTANCE InternAtomic WITH
            table <- strs,
            busy <- [p \in Procs |-> pc[p] # "idle"],
            answer <- [p \in Procs |-> Answer(p)]

ImplementsAtomic == Atomic!Spec
=============================================================================
