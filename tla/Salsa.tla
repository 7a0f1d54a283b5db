------------------------------- MODULE Salsa -------------------------------
(***************************************************************************)
(* The incremental query engine of engine/salsa (salsa.go): inputs that    *)
(* are set from outside, queries that are computed from them on demand and *)
(* memoized, a revision counter, and the bottom-up verification that       *)
(* decides what is recomputed.                                             *)
(*                                                                         *)
(* A query's compute function is pure: what it does next depends only on   *)
(* its key and on the values it has read so far.  Instr(q, seen) is that   *)
(* next step, `seen' being the partial function of the values read: read   *)
(* one more key, return a value, or panic.  (Reading a key a second time   *)
(* yields the same value and records nothing, so it is not a step.)        *)
(*                                                                         *)
(* The recursion of getDerived, ensureFresh and anyDepChanged is an        *)
(* explicit stack of frames.  A frame verifies a memoized query against    *)
(* the dependencies recorded for it, or computes it.  The whole of         *)
(* Db.Read runs under one mutex and so does Input.Set; `locked' says that  *)
(* some Read holds it.  Which goroutine it is makes no difference to the   *)
(* database.                                                               *)
(***************************************************************************)
EXTENDS Naturals, Sequences, FiniteSets

CONSTANTS Inputs, Queries,   \* the keys of the two kinds of slot
          Values, Zero,      \* what they hold; the zero value of an unset input
          Instr(_, _),       \* the compute functions
          None,              \* no key
          MaxRevision,       \* bound: inputs are edited at most this often
          MayCancel          \* whether the contexts of the Reads are ever cancelled

Keys == Inputs \cup Queries

Get(k) == [op |-> "get", key |-> k]
Ret(v) == [op |-> "ret", val |-> v]
Panic == [op |-> "panic"]

\* What a computation can have read: partial functions from keys to values.
Seen == UNION {[K -> Values] : K \in SUBSET Keys}

ASSUME KeysAssumption == Inputs \cap Queries = {} /\ None \notin Keys
ASSUME ZeroAssumption == Zero \in Values
ASSUME MaxRevisionAssumption == MaxRevision \in Nat
ASSUME MayCancelAssumption == MayCancel \in BOOLEAN
ASSUME InstrAssumption ==
  \A q \in Queries : \A seen \in Seen :
    \/ Instr(q, seen) = Panic
    \/ \E v \in Values : Instr(q, seen) = Ret(v)
    \/ \E k \in Keys \ DOMAIN seen : Instr(q, seen) = Get(k)

VARIABLES revision,
          slots,       \* keys that have a slot
          hasValue, value, changedAt, verifiedAt, computing, deps,  \* slot fields
          observed,    \* history: the dependency values behind each memo
          stack,       \* active frames, the innermost last
          locked,      \* a Read holds the mutex
          ctxDone,     \* its context has been cancelled
          root,        \* the key its function is reading, or None
          outcome      \* what became of the last read, until the next Set

slotVars == <<hasValue, value, changedAt, verifiedAt, computing, deps, observed>>
readVars == <<locked, ctxDone, root, outcome>>
vars == <<revision, slots, slotVars, stack, readVars>>

NoOutcome == [kind |-> "none"]

Init ==
  /\ revision = 0
  /\ slots = {}
  /\ hasValue = [k \in Keys |-> FALSE]
  /\ value = [k \in Keys |-> Zero]
  /\ changedAt = [k \in Keys |-> 0]
  /\ verifiedAt = [k \in Keys |-> 0]
  /\ computing = [k \in Keys |-> FALSE]
  /\ deps = [k \in Keys |-> <<>>]
  /\ observed = [k \in Keys |-> <<>>]
  /\ stack = <<>>
  /\ locked = FALSE /\ ctxDone = FALSE /\ root = None
  /\ outcome = NoOutcome
-----------------------------------------------------------------------------
VerifyFrame(q) == [kind |-> "verify", key |-> q, at |-> 1]
ComputeFrame(q) ==
  [kind |-> "compute", key |-> q, order |-> <<>>, seen |-> <<>>, asked |-> FALSE]

Top == stack[Len(stack)]
Below == SubSeq(stack, 1, Len(stack) - 1)
Running(kind) == stack # <<>> /\ Top.kind = kind

\* ensureFresh returns at once on these.
Fresh(q) == hasValue[q] /\ verifiedAt[q] = revision
UpToDate(k) == k \in Inputs \/ Fresh(k)

\* A panic inside a Read: the frames are gone, the deferred calls of Read
\* release the mutex, and the slots stay as they are (CycleError and canceled
\* become Read's error, any other panic goes on).
Unwind(kind) ==
  /\ stack' = <<>>
  /\ locked' = FALSE /\ root' = None
  /\ outcome' = [kind |-> kind, key |-> root]
  /\ UNCHANGED <<revision, slots, slotVars, ctxDone>>

\* Seeded faults: no check for cycles; the flag is set for verification, too.
FreshenUnguarded(k, outer) ==
  /\ stack' = Append(outer, IF hasValue[k] THEN VerifyFrame(k) ELSE ComputeFrame(k))
  /\ computing' = [computing EXCEPT ![k] = ~hasValue[k]]
  /\ UNCHANGED <<revision, slots, hasValue, value, changedAt, verifiedAt, deps,
                 observed, readVars>>

\* ensureFresh(k) of a slot that is not up to date, below the frames `outer'.
Freshen(k, outer) ==
  IF computing[k]
    THEN Unwind("cycle")
    ELSE /\ stack' = Append(outer, IF hasValue[k] THEN VerifyFrame(k) ELSE ComputeFrame(k))
         /\ computing' = [computing EXCEPT ![k] = ~hasValue[k]]
         /\ UNCHANGED <<revision, slots, hasValue, value, changedAt, verifiedAt, deps,
                        observed, readVars>>

(***************************************************************************)
(* The goroutines outside: Input.Set, Db.Read and the cancellation of its  *)
(* context.                                                                *)
(***************************************************************************)
Set(i, v) ==
  /\ ~locked
  /\ ~(hasValue[i] /\ value[i] = v)
  /\ revision < MaxRevision
  /\ revision' = revision + 1
  /\ slots' = slots \cup {i}
  /\ hasValue' = [hasValue EXCEPT ![i] = TRUE]
  /\ value' = [value EXCEPT ![i] = v]
  /\ changedAt' = [changedAt EXCEPT ![i] = revision + 1]
  /\ outcome' = NoOutcome
  /\ UNCHANGED <<verifiedAt, computing, deps, observed, stack, locked, ctxDone, root>>

Begin ==
  /\ ~locked
  /\ locked' = TRUE /\ ctxDone' = FALSE
  /\ UNCHANGED <<revision, slots, slotVars, stack, root, outcome>>

Cancel ==
  /\ MayCancel /\ locked /\ ~ctxDone
  /\ ctxDone' = TRUE
  /\ UNCHANGED <<revision, slots, slotVars, stack, locked, root, outcome>>

End ==
  /\ locked /\ root = None
  /\ locked' = FALSE
  /\ UNCHANGED <<revision, slots, slotVars, stack, ctxDone, root, outcome>>

(***************************************************************************)
(* The function passed to Read calls Get(k) on an input or a query.        *)
(***************************************************************************)
RootGet(k) ==
  /\ locked /\ root = None
  /\ IF ctxDone
       THEN Unwind("canceled")
       ELSE /\ root' = k
            /\ slots' = slots \cup {k}
            /\ UNCHANGED <<revision, slotVars, stack, locked, ctxDone, outcome>>

RootFreshen ==
  /\ root # None /\ stack = <<>> /\ ~UpToDate(root)
  /\ Freshen(root, <<>>)

\* Seeded fault: a memo is handed out without being verified.
RootReturnUnverified ==
  /\ root # None /\ stack = <<>> /\ (UpToDate(root) \/ hasValue[root])
  /\ outcome' = [kind |-> "value", key |-> root, val |-> value[root]]
  /\ root' = None
  /\ UNCHANGED <<revision, slots, slotVars, stack, locked, ctxDone>>

RootReturn ==
  /\ root # None /\ stack = <<>> /\ UpToDate(root)
  /\ outcome' = [kind |-> "value", key |-> root, val |-> value[root]]
  /\ root' = None
  /\ UNCHANGED <<revision, slots, slotVars, stack, locked, ctxDone>>

(***************************************************************************)
(* The innermost frame verifies a memo: anyDepChanged brings the recorded  *)
(* dependencies up to date in the order they were read, and stops at the   *)
(* first that changed after the memo was last verified.                    *)
(***************************************************************************)
Dep == deps[Top.key][Top.at]
MoreDeps == Running("verify") /\ Top.at <= Len(deps[Top.key])
\* Seeded fault: a change right after the verification goes unseen.
DepChangedLater == Dep \notin slots \/ changedAt[Dep] > verifiedAt[Top.key] + 1

DepChanged == Dep \notin slots \/ changedAt[Dep] > verifiedAt[Top.key]

VerifyDescend ==
  /\ MoreDeps /\ Dep \in slots /\ ~UpToDate(Dep)
  /\ Freshen(Dep, stack)

\* Seeded fault: the loop does not move on.
VerifyNextStuck ==
  /\ MoreDeps /\ UpToDate(Dep) /\ ~DepChanged
  /\ UNCHANGED vars

VerifyNext ==
  /\ MoreDeps /\ UpToDate(Dep) /\ ~DepChanged
  /\ stack' = Append(Below, [Top EXCEPT !.at = @ + 1])
  /\ UNCHANGED <<revision, slots, slotVars, readVars>>

Recompute ==
  /\ MoreDeps /\ DepChanged /\ (Dep \notin slots \/ UpToDate(Dep))
  /\ stack' = Append(Below, ComputeFrame(Top.key))
  /\ computing' = [computing EXCEPT ![Top.key] = TRUE]
  /\ UNCHANGED <<revision, slots, hasValue, value, changedAt, verifiedAt, deps,
                 observed, readVars>>

VerifyDone ==
  /\ Running("verify") /\ Top.at > Len(deps[Top.key])
  /\ verifiedAt' = [verifiedAt EXCEPT ![Top.key] = revision]
  /\ stack' = Below
  /\ UNCHANGED <<revision, slots, hasValue, value, changedAt, computing, deps,
                 observed, readVars>>

(***************************************************************************)
(* The innermost frame runs a compute function.                            *)
(***************************************************************************)
NextInstr == Instr(Top.key, Top.seen)

\* Query.Get and Input.Get: poll the context, record the dependency, make
\* sure there is a slot.
Ask ==
  /\ Running("compute") /\ ~Top.asked /\ NextInstr.op = "get"
  /\ IF ctxDone
       THEN Unwind("canceled")
       ELSE /\ stack' = Append(Below, [Top EXCEPT !.asked = TRUE,
                                                  !.order = Append(@, NextInstr.key)])
            /\ slots' = slots \cup {NextInstr.key}
            /\ UNCHANGED <<revision, slotVars, readVars>>

Asking == Running("compute") /\ Top.asked /\ NextInstr.op = "get"

AskDescend ==
  /\ Asking /\ ~UpToDate(NextInstr.key)
  /\ Freshen(NextInstr.key, stack)

Receive ==
  /\ Asking /\ UpToDate(NextInstr.key)
  /\ LET k == NextInstr.key
         seen == [d \in DOMAIN Top.seen \cup {k} |->
                    IF d = k THEN value[k] ELSE Top.seen[d]]
     IN  stack' = Append(Below, [Top EXCEPT !.asked = FALSE, !.seen = seen])
  /\ UNCHANGED <<revision, slots, slotVars, readVars>>

ComputePanic ==
  /\ Running("compute") /\ ~Top.asked /\ NextInstr.op = "panic"
  /\ Unwind("panic")

\* Seeded fault: every result counts as a change.
StampAlways(q, v) == [changedAt EXCEPT ![q] = revision]

\* An equal result keeps its changed-at revision (backdating).
Stamp(q, v) ==
  IF hasValue[q] /\ value[q] = v THEN changedAt ELSE [changedAt EXCEPT ![q] = revision]

\* The rest of ensureFresh.
ComputeDone ==
  /\ Running("compute") /\ ~Top.asked /\ NextInstr.op = "ret"
  /\ LET q == Top.key
         v == NextInstr.val
     IN  /\ computing' = [computing EXCEPT ![q] = FALSE]
         /\ deps' = [deps EXCEPT ![q] = Top.order]
         /\ observed' = [observed EXCEPT ![q] = Top.seen]
         /\ verifiedAt' = [verifiedAt EXCEPT ![q] = revision]
         /\ changedAt' = Stamp(q, v)
         /\ value' = [value EXCEPT ![q] = v]
         /\ hasValue' = [hasValue EXCEPT ![q] = TRUE]
  /\ stack' = Below
  /\ UNCHANGED <<revision, slots, readVars>>

Work ==
  \/ RootFreshen \/ RootReturn
  \/ VerifyDescend \/ VerifyNext \/ Recompute \/ VerifyDone
  \/ Ask \/ AskDescend \/ Receive \/ ComputePanic \/ ComputeDone

Next ==
  \/ \E i \in Inputs, v \in Values : Set(i, v)
  \/ Begin \/ Cancel \/ End
  \/ \E k \in Keys : RootGet(k)
  \/ Work

Spec == Init /\ [][Next]_vars

\* The goroutine that holds the mutex keeps running.
FairSpec == Spec /\ WF_vars(Work)
-----------------------------------------------------------------------------
Frames ==
  [kind : {"verify"}, key : Queries, at : Nat \ {0}] \cup
  [kind : {"compute"}, key : Queries, order : Seq(Keys), seen : Seen, asked : BOOLEAN]

Outcomes ==
  {NoOutcome} \cup
  [kind : {"cycle", "canceled", "panic"}, key : Keys \cup {None}] \cup
  [kind : {"value"}, key : Keys, val : Values]

TypeOK ==
  /\ revision \in 0 .. MaxRevision
  /\ slots \subseteq Keys
  /\ hasValue \in [Keys -> BOOLEAN]
  /\ value \in [Keys -> Values]
  /\ changedAt \in [Keys -> 0 .. MaxRevision]
  /\ verifiedAt \in [Keys -> 0 .. MaxRevision]
  /\ computing \in [Keys -> BOOLEAN]
  /\ deps \in [Keys -> Seq(Keys)]
  /\ observed \in [Keys -> Seen]
  /\ stack \in Seq(Frames)
  /\ locked \in BOOLEAN /\ ctxDone \in BOOLEAN
  /\ root \in Keys \cup {None}
  /\ outcome \in Outcomes

(***************************************************************************)
(* Run(q, order, seen) : q's compute function reads the keys `order', in   *)
(* that order, when they have the values `seen'.                           *)
(***************************************************************************)
Before(order, n) == {order[j] : j \in 1 .. n - 1}
ReadSoFar(order, seen, n) == [k \in Before(order, n) |-> seen[k]]

Run(q, order, seen) ==
  \A n \in 1 .. Len(order) : Instr(q, ReadSoFar(order, seen, n)) = Get(order[n])

(***************************************************************************)
(* doc.go: "if no dependency has changed since the value was last          *)
(* verified, the cache is reused".  A memo that passes for current is what *)
(* its compute function makes of the values that its dependencies have     *)
(* now, and those are current too: by induction along the dependencies, it *)
(* is what computing everything from scratch would give.                   *)
(***************************************************************************)
MemoIsCurrent(q) ==
  LET all == Len(deps[q]) + 1
  IN  /\ \A n \in 1 .. Len(deps[q]) : UpToDate(deps[q][n])
      /\ Run(q, deps[q], value)
      /\ Instr(q, ReadSoFar(deps[q], value, all)) = Ret(value[q])

FreshMemosAreCurrent == \A q \in Queries : Fresh(q) => MemoIsCurrent(q)

(***************************************************************************)
(* What a read was answered with is what its slot holds, up to date, as    *)
(* long as no input is set: no read sees a memo from before an edit that   *)
(* reaches it, and two reads of one Read session agree.                    *)
(***************************************************************************)
AnswersAreCurrent ==
  outcome.kind = "value" => UpToDate(outcome.key) /\ outcome.val = value[outcome.key]

(***************************************************************************)
(* Verification is not protected by the `computing' flag, yet its          *)
(* recursion is bounded: a query is entered at most twice, once before and *)
(* once after the dependency that closes a cycle.                          *)
(***************************************************************************)
RecursionIsBounded == Len(stack) <= 2 * Cardinality(Queries)

(***************************************************************************)
(* doc.go: "an input edit only re-runs the queries whose results actually  *)
(* change".  A memo that was current before the last edit is recomputed    *)
(* only if one of its dependencies has another value now than the one the  *)
(* memo was computed from (or is an input that was set for the first       *)
(* time).                                                                  *)
(***************************************************************************)
RecomputeIsMinimal ==
  [][Recompute /\ verifiedAt[Top.key] + 1 = revision =>
       \E d \in DOMAIN observed[Top.key] :
          \/ value[d] # observed[Top.key][d]
          \/ d \in Inputs /\ changedAt[d] = revision /\ value[d] = Zero]_vars

(***************************************************************************)
(* Every Get that is started is answered or unwound, whatever the compute  *)
(* functions read.                                                         *)
(***************************************************************************)
GetsEnd == root # None ~> root = None
=============================================================================
