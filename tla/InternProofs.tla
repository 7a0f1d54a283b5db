---------------------------- MODULE InternProofs ----------------------------
(***************************************************************************)
(* Proofs about InternTable for any number of goroutines and strings: the  *)
(* inductive invariant of the double-checked locking, the two properties   *)
(* of the handles that callers rely on, and that the table implements the  *)
(* atomic one.                                                             *)
(***************************************************************************)
EXTENDS InternTable, TLAPS

\* The program points at which a process is inside the write lock, and those
\* at which its call has not been given a handle yet.
Writing == {"recheck", "append", "index", "unlock"}
Unanswered == {"rlock", "probe", "announce", "lock", "recheck", "append"}

\* `ids' is a function, and every variable is in its range.
IdsIsFunction == ids = [s \in DOMAIN ids |-> ids[s]]

\* A process is where the lock's state says it is.
LockInv ==
  /\ \A p \in Procs : writer = p <=> pc[p] \in Writing
  /\ \A p \in Procs : p \in readers <=> pc[p] \in {"probe", "runlock"}
  /\ \A p \in Procs : pending = p <=> pc[p] = "lock"
  /\ writer # None => readers = {} /\ pending = None

\* The map points into the slice, and the slice is in the map but for the
\* string that a writer has appended and not yet entered.
MapInv ==
  \A s \in DOMAIN ids : ids[s] \in Indexed /\ StringOf(ids[s]) = s

SliceInv ==
  \A h \in Indexed :
    \/ StringOf(h) \in DOMAIN ids /\ ids[StringOf(h)] = h
    \/ \E p \in Procs : pc[p] = "index" /\ hit[p] = h

\* What the local state of a call says about the table.
CallInv ==
  \A p \in Procs :
    /\ pc[p] \in Unanswered => hit[p] = None
    /\ pc[p] \in {"append", "index"} => arg[p] \notin DOMAIN ids
    /\ pc[p] = "index" =>
         /\ hit[p] \in Indexed /\ hit[p] = Len(strs) - 1
         /\ StringOf(hit[p]) = arg[p]
    /\ pc[p] \in {"unlock", "return"} => hit[p] # None
    /\ pc[p] \in {"runlock", "unlock", "return"} /\ hit[p] # None =>
         arg[p] \in DOMAIN ids /\ ids[arg[p]] = hit[p]

\* Handles given out are in the map, and stay there.
IssuedInv == \A a \in issued : a[1] \in DOMAIN ids /\ ids[a[1]] = a[2]

SliceNonEmpty == Len(strs) > 0

IInv ==
  /\ TypeOK /\ IdsIsFunction /\ SliceNonEmpty
  /\ LockInv /\ MapInv /\ SliceInv /\ CallInv /\ IssuedInv
-----------------------------------------------------------------------------
(***************************************************************************)
(* The table starts in the invariant: NewInterner and NewFileSet.          *)
(***************************************************************************)
LEMMA InitInv == Init => IInv
<1> SUFFICES ASSUME Init PROVE IInv
  OBVIOUS
<1> USE EmptyAssumption, NoneAssumption, PreInternedAssumption DEF Init
<1>1. TypeOK
  BY DEF TypeOK
<1>2. IdsIsFunction /\ SliceNonEmpty
  BY DEF IdsIsFunction, SliceNonEmpty
<1>3. LockInv
  BY DEF LockInv, Writing
<1>4. MapInv /\ IssuedInv
  BY DEF MapInv, IssuedInv, Indexed, Handles, StringOf
<1>5. SliceInv
  BY DEF SliceInv, Indexed, Handles, StringOf
<1>6. CallInv
  BY DEF CallInv, Unanswered
<1> QED BY <1>1, <1>2, <1>3, <1>4, <1>5, <1>6 DEF IInv

(***************************************************************************)
(* Steps that leave the table and every answer alone: they only move a     *)
(* process through the lock.                                               *)
(***************************************************************************)
LEMMA CallInvStep ==
  ASSUME IInv, NEW p \in Procs, NEW s \in Strings, Call(p, s)
  PROVE  IInv'
<1> USE NoneAssumption DEF IInv, lockVars, Call
<1>1. TypeOK' /\ IdsIsFunction' /\ SliceNonEmpty'
  BY DEF TypeOK, IdsIsFunction, SliceNonEmpty
<1>2. LockInv'
  BY DEF TypeOK, LockInv, Writing
<1>3. MapInv' /\ IssuedInv'
  BY DEF MapInv, IssuedInv, Indexed, Handles, StringOf
<1>4. SliceInv'
  BY DEF TypeOK, SliceInv, Indexed, Handles, StringOf
<1>5. CallInv'
  BY DEF TypeOK, CallInv, Unanswered, Indexed, Handles, StringOf
<1> QED BY <1>1, <1>2, <1>3, <1>4, <1>5

LEMMA RLockStep ==
  ASSUME IInv, NEW p \in Procs, RLock(p)
  PROVE  IInv'
<1> USE NoneAssumption DEF IInv, lockVars, RLock
<1>1. TypeOK' /\ IdsIsFunction' /\ SliceNonEmpty'
  BY DEF TypeOK, IdsIsFunction, SliceNonEmpty, CallInv
<1>2. LockInv'
  BY DEF TypeOK, LockInv, Writing
<1>3. MapInv' /\ IssuedInv'
  BY DEF TypeOK, CallInv, MapInv, IssuedInv, Indexed, Handles, StringOf
<1>4. SliceInv'
  BY DEF TypeOK, SliceInv, Indexed, Handles, StringOf
<1>5. CallInv'
  BY DEF TypeOK, CallInv, Unanswered, Indexed, Handles, StringOf
<1> QED BY <1>1, <1>2, <1>3, <1>4, <1>5

LEMMA ProbeStep ==
  ASSUME IInv, NEW p \in Procs, Probe(p)
  PROVE  IInv'
<1> USE NoneAssumption DEF IInv, lockVars, Probe
<1>1. TypeOK' /\ IdsIsFunction' /\ SliceNonEmpty'
  BY DEF TypeOK, IdsIsFunction, SliceNonEmpty, CallInv
<1>2. LockInv'
  BY DEF TypeOK, LockInv, Writing
<1>3. MapInv' /\ IssuedInv'
  BY DEF TypeOK, CallInv, MapInv, IssuedInv, Indexed, Handles, StringOf
<1>4. SliceInv'
  BY DEF TypeOK, SliceInv, Indexed, Handles, StringOf
<1>5. CallInv'
  BY DEF TypeOK, CallInv, Unanswered, Indexed, Handles, StringOf
<1> QED BY <1>1, <1>2, <1>3, <1>4, <1>5

LEMMA RUnlockStep ==
  ASSUME IInv, NEW p \in Procs, RUnlock(p)
  PROVE  IInv'
<1> USE NoneAssumption DEF IInv, lockVars, RUnlock
<1>1. TypeOK' /\ IdsIsFunction' /\ SliceNonEmpty'
  BY DEF TypeOK, IdsIsFunction, SliceNonEmpty, CallInv
<1>2. LockInv'
  BY DEF TypeOK, LockInv, Writing
<1>3. MapInv' /\ IssuedInv'
  BY DEF TypeOK, CallInv, MapInv, IssuedInv, Indexed, Handles, StringOf
<1>4. SliceInv'
  BY DEF TypeOK, SliceInv, Indexed, Handles, StringOf
<1>5. CallInv'
  BY DEF TypeOK, CallInv, Unanswered, Indexed, Handles, StringOf
<1> QED BY <1>1, <1>2, <1>3, <1>4, <1>5

LEMMA AnnounceStep ==
  ASSUME IInv, NEW p \in Procs, Announce(p)
  PROVE  IInv'
<1> USE NoneAssumption DEF IInv, lockVars, Announce
<1>1. TypeOK' /\ IdsIsFunction' /\ SliceNonEmpty'
  BY DEF TypeOK, IdsIsFunction, SliceNonEmpty, CallInv
<1>2. LockInv'
  BY DEF TypeOK, LockInv, Writing
<1>3. MapInv' /\ IssuedInv'
  BY DEF TypeOK, CallInv, MapInv, IssuedInv, Indexed, Handles, StringOf
<1>4. SliceInv'
  BY DEF TypeOK, SliceInv, Indexed, Handles, StringOf
<1>5. CallInv'
  BY DEF TypeOK, CallInv, Unanswered, Indexed, Handles, StringOf
<1> QED BY <1>1, <1>2, <1>3, <1>4, <1>5

LEMMA LockStep ==
  ASSUME IInv, NEW p \in Procs, Lock(p)
  PROVE  IInv'
<1> USE NoneAssumption DEF IInv, lockVars, Lock
<1>1. TypeOK' /\ IdsIsFunction' /\ SliceNonEmpty'
  BY DEF TypeOK, IdsIsFunction, SliceNonEmpty, CallInv
<1>2. LockInv'
  BY DEF TypeOK, LockInv, Writing
<1>3. MapInv' /\ IssuedInv'
  BY DEF TypeOK, CallInv, MapInv, IssuedInv, Indexed, Handles, StringOf
<1>4. SliceInv'
  BY DEF TypeOK, SliceInv, Indexed, Handles, StringOf
<1>5. CallInv'
  BY DEF TypeOK, CallInv, Unanswered, Indexed, Handles, StringOf
<1> QED BY <1>1, <1>2, <1>3, <1>4, <1>5

LEMMA RecheckStep ==
  ASSUME IInv, NEW p \in Procs, Recheck(p)
  PROVE  IInv'
<1> USE NoneAssumption DEF IInv, lockVars, Recheck
<1>1. TypeOK' /\ IdsIsFunction' /\ SliceNonEmpty'
  <2>1. CASE arg[p] \in DOMAIN ids
    BY SMTT(60), <2>1 DEF TypeOK, IdsIsFunction, SliceNonEmpty
  <2>2. CASE arg[p] \notin DOMAIN ids
    BY <2>2 DEF TypeOK, IdsIsFunction, SliceNonEmpty
  <2> QED BY <2>1, <2>2
<1>2. LockInv'
  BY DEF TypeOK, LockInv, Writing
<1>3. MapInv' /\ IssuedInv'
  BY DEF TypeOK, CallInv, MapInv, IssuedInv, Indexed, Handles, StringOf
<1>4. SliceInv'
  BY DEF TypeOK, SliceInv, Indexed, Handles, StringOf
<1>5. CallInv'
  BY DEF TypeOK, CallInv, Unanswered, Indexed, Handles, StringOf
<1> QED BY <1>1, <1>2, <1>3, <1>4, <1>5

LEMMA AppendStrStep ==
  ASSUME IInv, NEW p \in Procs, AppendStr(p)
  PROVE  IInv'
<1> USE NoneAssumption DEF IInv, lockVars, AppendStr
<1>1. TypeOK' /\ IdsIsFunction' /\ SliceNonEmpty'
  BY DEF TypeOK, IdsIsFunction, SliceNonEmpty, CallInv
<1>2. LockInv'
  BY DEF TypeOK, LockInv, Writing
<1>3. /\ Len(strs') = Len(strs) + 1
      /\ \A i \in 1 .. Len(strs) : strs'[i] = strs[i]
      /\ strs'[Len(strs) + 1] = arg[p]
  BY DEF TypeOK
<1>4. MapInv' /\ IssuedInv'
  BY <1>3 DEF TypeOK, MapInv, IssuedInv, Indexed, Handles, StringOf
<1>5. SliceInv'
  BY <1>3 DEF TypeOK, SliceInv, Indexed, Handles, StringOf
<1>6. \A q \in Procs \ {p} : pc[q] # "index" /\ pc'[q] = pc[q] /\ hit'[q] = hit[q]
  BY DEF TypeOK, LockInv, Writing
<1>7. CallInv'
  <2> SUFFICES ASSUME NEW q \in Procs PROVE CallInv!(q)'
    BY DEF CallInv
  <2>1. CASE q = p
    BY <2>1, <1>3 DEF TypeOK, CallInv, Unanswered, Indexed, Handles, StringOf, SliceNonEmpty
  <2>2. CASE q # p
    BY <2>2, <1>6 DEF TypeOK, CallInv, Unanswered
  <2> QED BY <2>1, <2>2
<1> QED BY <1>1, <1>2, <1>4, <1>5, <1>7

LEMMA IndexStep ==
  ASSUME IInv, NEW p \in Procs, Index(p)
  PROVE  IInv'
<1> USE NoneAssumption DEF IInv, lockVars, Index
<1>1. TypeOK' /\ IdsIsFunction' /\ SliceNonEmpty'
  BY DEF TypeOK, IdsIsFunction, SliceNonEmpty, CallInv, Indexed, Handles
<1>2. LockInv'
  BY DEF TypeOK, LockInv, Writing
<1>3. /\ arg[p] \notin DOMAIN ids
      /\ hit[p] \in Indexed /\ StringOf(hit[p]) = arg[p]
  BY DEF CallInv
<1>4. /\ DOMAIN ids' = DOMAIN ids \cup {arg[p]}
      /\ ids'[arg[p]] = hit[p]
      /\ \A s \in DOMAIN ids : ids'[s] = ids[s]
  BY <1>3
<1>5. MapInv'
  BY <1>3, <1>4 DEF MapInv, Indexed, Handles, StringOf
<1>6. IssuedInv'
  BY <1>4 DEF IssuedInv
<1>7. \A q \in Procs \ {p} : pc[q] \notin Writing /\ pc'[q] = pc[q]
  BY DEF TypeOK, LockInv, Writing
<1>8. SliceInv'
  <2> SUFFICES ASSUME NEW h \in Indexed
               PROVE  StringOf(h) \in DOMAIN ids' /\ ids'[StringOf(h)] = h
    BY DEF SliceInv, Indexed, Handles, StringOf
  <2>1. CASE h = hit[p]
    BY <2>1, <1>3, <1>4
  <2>2. CASE h # hit[p]
    BY <2>2, <1>4, <1>7 DEF SliceInv, Writing
  <2> QED BY <2>1, <2>2
<1>9. CallInv'
  <2> SUFFICES ASSUME NEW q \in Procs PROVE CallInv!(q)'
    BY DEF CallInv
  <2>1. CASE q = p
    BY <2>1, <1>3, <1>4 DEF TypeOK, CallInv, Unanswered, Indexed, Handles
  <2>2. CASE q # p
    BY <2>2, <1>4, <1>7 DEF TypeOK, CallInv, Unanswered, Writing
  <2> QED BY <2>1, <2>2
<1> QED BY <1>1, <1>2, <1>5, <1>6, <1>8, <1>9

LEMMA UnlockStep ==
  ASSUME IInv, NEW p \in Procs, Unlock(p)
  PROVE  IInv'
<1> USE NoneAssumption DEF IInv, lockVars, Unlock
<1>1. TypeOK' /\ IdsIsFunction' /\ SliceNonEmpty'
  BY DEF TypeOK, IdsIsFunction, SliceNonEmpty, CallInv
<1>2. LockInv'
  BY DEF TypeOK, LockInv, Writing
<1>3. MapInv' /\ IssuedInv'
  BY DEF TypeOK, CallInv, MapInv, IssuedInv, Indexed, Handles, StringOf
<1>4. SliceInv'
  BY DEF TypeOK, SliceInv, Indexed, Handles, StringOf
<1>5. CallInv'
  BY DEF TypeOK, CallInv, Unanswered, Indexed, Handles, StringOf
<1> QED BY <1>1, <1>2, <1>3, <1>4, <1>5

LEMMA ReturnStep ==
  ASSUME IInv, NEW p \in Procs, Return(p)
  PROVE  IInv'
<1> USE NoneAssumption DEF IInv, lockVars, Return
<1>1. TypeOK' /\ IdsIsFunction' /\ SliceNonEmpty'
  BY DEF TypeOK, IdsIsFunction, SliceNonEmpty, CallInv
<1>2. LockInv'
  BY DEF TypeOK, LockInv, Writing
<1>3. MapInv' /\ IssuedInv'
  BY DEF TypeOK, CallInv, MapInv, IssuedInv, Indexed, Handles, StringOf
<1>4. SliceInv'
  BY DEF TypeOK, SliceInv, Indexed, Handles, StringOf
<1>5. CallInv'
  BY DEF TypeOK, CallInv, Unanswered, Indexed, Handles, StringOf
<1> QED BY <1>1, <1>2, <1>3, <1>4, <1>5

LEMMA StutterStep ==
  ASSUME IInv, UNCHANGED vars
  PROVE  IInv'
BY DEF vars, IInv, TypeOK, IdsIsFunction, SliceNonEmpty, LockInv, Writing, MapInv,
       SliceInv, CallInv, IssuedInv, Unanswered, Indexed, Handles, StringOf

(***************************************************************************)
(* The invariant holds of every behaviour of the table.                    *)
(***************************************************************************)
THEOREM Invariance == Spec => []IInv
<1>1. IInv /\ [Next]_vars => IInv'
  BY CallInvStep, RLockStep, ProbeStep, RUnlockStep, AnnounceStep, LockStep, RecheckStep,
     AppendStrStep, IndexStep, UnlockStep, ReturnStep, StutterStep DEF Next, Step
<1> QED BY InitInv, <1>1, PTL DEF Spec

(***************************************************************************)
(* No string ever has two handles and no two strings share one, however    *)
(* many goroutines intern at the same time (TestConcurrentSharedInterner   *)
(* samples this).                                                          *)
(***************************************************************************)
THEOREM HandlesSound == Spec => []HandlesIdentifyStrings
<1>1. IInv => HandlesIdentifyStrings
  BY DEF IInv, TypeOK, MapInv, IssuedInv, Indexed, HandlesIdentifyStrings
<1> QED BY <1>1, Invariance, PTL

(***************************************************************************)
(* A handle that was returned resolves, for ever, to its string: Lookup    *)
(* and Path cannot panic on it.                                            *)
(***************************************************************************)
THEOREM LookupSound == Spec => []IssuedResolve
<1>1. IInv => IssuedResolve
  BY DEF IInv, TypeOK, MapInv, IssuedInv, Indexed, IssuedResolve
<1> QED BY <1>1, Invariance, PTL

(***************************************************************************)
(* Map and slice agree whenever the write lock is free.                    *)
(***************************************************************************)
THEOREM TableSound == Spec => []TableAgrees
<1>1. IInv => TableAgrees
  BY NoneAssumption DEF IInv, TypeOK, LockInv, Writing, MapInv, SliceInv, TableAgrees
<1> QED BY <1>1, Invariance, PTL

-----------------------------------------------------------------------------
(***************************************************************************)
(* Outside the write lock's critical section the handles of a string in    *)
(* the slice are exactly the one the map has, if any.                      *)
(***************************************************************************)
LEMMA HandlesOfArg ==
  ASSUME IInv, NEW p \in Procs,
         pc[p] \in {"probe", "recheck", "append"}
  PROVE  /\ arg[p] \in DOMAIN ids => ids[arg[p]] \in Atomic!HandlesOf(arg[p])
         /\ pc[p] = "append" => Atomic!HandlesOf(arg[p]) = {}
<1>1. \A q \in Procs : pc[q] # "index"
  BY NoneAssumption DEF IInv, TypeOK, LockInv, Writing
<1>2. ASSUME NEW h \in Atomic!First .. Len(strs) - 1
      PROVE  StringOf(h) \in DOMAIN ids /\ ids[StringOf(h)] = h
  BY <1>1, <1>2 DEF IInv, TypeOK, SliceInv, Indexed, Handles, StringOf, Atomic!First
<1>3. ASSUME arg[p] \in DOMAIN ids
      PROVE  ids[arg[p]] \in Atomic!HandlesOf(arg[p])
  BY <1>3, PreInternedAssumption
  DEF IInv, TypeOK, MapInv, Indexed, Handles, StringOf, Atomic!HandlesOf, Atomic!First
<1>4. ASSUME pc[p] = "append"
      PROVE  Atomic!HandlesOf(arg[p]) = {}
  BY <1>2, <1>4 DEF IInv, CallInv, StringOf, Atomic!HandlesOf
<1> QED BY <1>3, <1>4

(***************************************************************************)
(* The double-checked table implements the atomic one: the append is the   *)
(* instant at which a new string gets its handle, a successful look (under *)
(* either lock) the instant at which a known one does.                     *)
(***************************************************************************)
THEOREM Refinement == Spec => ImplementsAtomic
<1> USE NoneAssumption
<1>1. Init => Atomic!Init
  BY DEF Init, Atomic!Init, Answer
<1>2. IInv /\ [Next]_vars => [Atomic!Next]_(Atomic!vars)
  <2> SUFFICES ASSUME IInv, [Next]_vars
               PROVE  Atomic!Next \/ UNCHANGED Atomic!vars
    OBVIOUS
  <2> USE DEF IInv, TypeOK, CallInv, Unanswered, Answer
  <2>1. ASSUME NEW p \in Procs, NEW s \in Strings, Call(p, s)
        PROVE  Atomic!Ask(p, s)
    BY <2>1 DEF Call, Atomic!Ask
  <2>2. ASSUME NEW p \in Procs,
               RLock(p) \/ RUnlock(p) \/ Announce(p) \/ Lock(p) \/ Index(p) \/ Unlock(p)
        PROVE  UNCHANGED Atomic!vars
    BY <2>2 DEF RLock, RUnlock, Announce, Lock, Index, Unlock, Atomic!vars
  <2>3. ASSUME NEW p \in Procs, Probe(p)
        PROVE  Atomic!Find(p) \/ UNCHANGED Atomic!vars
    BY ZenonT(90), <2>3, HandlesOfArg DEF Probe, Atomic!Find, Atomic!vars
  <2>4. ASSUME NEW p \in Procs, Recheck(p)
        PROVE  Atomic!Find(p) \/ UNCHANGED Atomic!vars
    BY ZenonT(40), <2>4, HandlesOfArg DEF Recheck, Atomic!Find, Atomic!vars
  <2>5. ASSUME NEW p \in Procs, AppendStr(p)
        PROVE  Atomic!Enter(p)
    BY <2>5, HandlesOfArg DEF AppendStr, Atomic!Enter
  <2>6. ASSUME NEW p \in Procs, Return(p)
        PROVE  Atomic!Reply(p)
    BY <2>6 DEF Return, Atomic!Reply
  <2>7. CASE UNCHANGED vars
    BY <2>7 DEF vars, lockVars, Atomic!vars
  <2> QED
    BY <2>1, <2>2, <2>3, <2>4, <2>5, <2>6, <2>7 DEF Next, Step, Atomic!Next
<1> QED BY <1>1, <1>2, Invariance, PTL DEF Spec, ImplementsAtomic, Atomic!Spec
=============================================================================
