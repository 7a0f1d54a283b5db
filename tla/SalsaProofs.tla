---------------------------- MODULE SalsaProofs ----------------------------
(***************************************************************************)
(* Proofs about Salsa, for any inputs, queries, values and pure compute    *)
(* functions: a memo that passes for current is what its compute function  *)
(* makes of the present values of its dependencies.                        *)
(***************************************************************************)
EXTENDS Salsa, SequenceTheorems, TLAPS, ListFacts

(***************************************************************************)
(* The inductive invariant.                                                *)
(*                                                                         *)
(* LockInv: frames exist only inside a Read.                               *)
(***************************************************************************)
LockInv == /\ root # None => locked
           /\ stack # <<>> => root # None

\* Nothing is stamped later than now.
StampInv == \A k \in Keys : changedAt[k] <= revision /\ verifiedAt[k] <= revision

Deps(q) == Before(deps[q], Len(deps[q]) + 1)

(***************************************************************************)
(* A memo, current or not, is what its compute function returned on the    *)
(* values `observed'; and a dependency that has not changed since the memo *)
(* was verified still has the value that was observed.                     *)
(***************************************************************************)
MemoOK(q) ==
  /\ DOMAIN observed[q] = Deps(q)
  /\ Deps(q) \subseteq slots
  /\ Run(q, deps[q], observed[q])
  /\ Instr(q, observed[q]) = Ret(value[q])
  /\ \A d \in Deps(q) : changedAt[d] <= verifiedAt[q] => value[d] = observed[q][d]

MemoInv == \A q \in Queries : hasValue[q] => MemoOK(q)

\* A memo becomes current only after its dependencies.
FreshInv == \A q \in Queries : Fresh(q) => \A d \in Deps(q) : UpToDate(d)

(***************************************************************************)
(* The frames.  A verification has found the dependencies before `at' up   *)
(* to date and unchanged; a computation has read values that are still     *)
(* those of the slots.  The query of a frame is not up to date.            *)
(***************************************************************************)
VerifyOK(f) ==
  /\ hasValue[f.key]
  /\ f.at <= Len(deps[f.key]) + 1
  /\ \A d \in Before(deps[f.key], f.at) : UpToDate(d) /\ changedAt[d] <= verifiedAt[f.key]

ComputeOK(f) ==
  /\ computing[f.key]
  /\ f.asked => Len(f.order) > 0 /\ DOMAIN f.seen = Before(f.order, Len(f.order))
  /\ ~f.asked => DOMAIN f.seen = Before(f.order, Len(f.order) + 1)
  /\ Before(f.order, Len(f.order) + 1) \subseteq slots
  /\ Run(f.key, f.order, f.seen)
  /\ \A d \in DOMAIN f.seen : UpToDate(d) /\ value[d] = f.seen[d]

FrameOK(f) ==
  /\ ~Fresh(f.key)
  /\ f.kind = "verify" => VerifyOK(f)
  /\ f.kind = "compute" => ComputeOK(f)

FramesInv == \A j \in 1 .. Len(stack) : FrameOK(stack[j])

\* A frame that is not the innermost waits for the query of the next one.
WaitsFor(f, q) ==
  \/ f.kind = "verify" /\ f.at <= Len(deps[f.key]) /\ q = deps[f.key][f.at]
  \/ f.kind = "compute" /\ f.asked /\ q = f.order[Len(f.order)]

LinkInv == \A j \in 1 .. Len(stack) - 1 : WaitsFor(stack[j], stack[j + 1].key)

(***************************************************************************)
(* A query can be on the stack more than once, but only being verified,    *)
(* and the inner verification never gets past the dependency at which the  *)
(* outer one waits.  So it never completes while the outer one is there.   *)
(***************************************************************************)
ReentryInv ==
  \A i, j \in 1 .. Len(stack) :
    i < j /\ stack[i].key = stack[j].key =>
      /\ stack[i].kind = "verify" /\ stack[j].kind = "verify"
      /\ stack[j].at <= stack[i].at

IInv ==
  /\ TypeOK /\ LockInv /\ StampInv
  /\ MemoInv /\ FreshInv
  /\ FramesInv /\ LinkInv /\ ReentryInv

-----------------------------------------------------------------------------
(***************************************************************************)
(* The stack as a sequence: what is left below the innermost frame, and    *)
(* what replacing or adding one does to the positions.                     *)
(***************************************************************************)
LEMMA PopLemma ==
  ASSUME NEW F, NEW s \in Seq(F), s # <<>>
  PROVE  /\ Len(s) \in Nat \ {0} /\ s[Len(s)] \in F
         /\ SubSeq(s, 1, Len(s) - 1) \in Seq(F)
         /\ Len(SubSeq(s, 1, Len(s) - 1)) = Len(s) - 1
         /\ \A j \in 1 .. Len(s) - 1 : SubSeq(s, 1, Len(s) - 1)[j] = s[j]
<1>1. Len(s) \in Nat \ {0}
  OBVIOUS
<1>2. s[Len(s)] \in F /\ \A i \in 1 .. Len(s) - 1 : s[i] \in F
  BY <1>1
<1> DEFINE n == Len(s) - 1
<1>3. n \in Int /\ n - 1 + 1 = n
  BY <1>1
<1>4. /\ SubSeq(s, 1, n) \in Seq(F)
      /\ Len(SubSeq(s, 1, n)) = IF 1 <= n THEN n - 1 + 1 ELSE 0
      /\ \A i \in 1 .. n - 1 + 1 : SubSeq(s, 1, n)[i] = s[1 + i - 1]
  BY <1>2, <1>3, SubSeqProperties
<1>5. Len(SubSeq(s, 1, n)) = n
  <2>1. n \in Nat /\ (1 <= n \/ n = 0)
    BY <1>1
  <2> HIDE DEF n
  <2> QED BY <2>1, <1>4
<1>6. ASSUME NEW j \in 1 .. n
      PROVE  SubSeq(s, 1, n)[j] = s[j]
  <2>1. j \in 1 .. n - 1 + 1 /\ 1 + j - 1 = j
    BY <1>3
  <2> QED BY <2>1, <1>4
<1> QED BY <1>1, <1>2, <1>4, <1>5, <1>6

LEMMA PushLemma ==
  ASSUME NEW F, NEW s \in Seq(F), NEW f \in F
  PROVE  /\ Append(s, f) \in Seq(F) /\ Len(Append(s, f)) = Len(s) + 1
         /\ Append(s, f)[Len(s) + 1] = f
         /\ \A j \in 1 .. Len(s) : Append(s, f)[j] = s[j]
OBVIOUS

LEMMA ReplaceLemma ==
  ASSUME NEW F, NEW s \in Seq(F), s # <<>>, NEW f \in F
  PROVE  LET t == Append(SubSeq(s, 1, Len(s) - 1), f)
         IN  /\ Len(t) = Len(s) /\ t[Len(s)] = f
             /\ \A j \in 1 .. Len(s) - 1 : t[j] = s[j]
<1> DEFINE r == SubSeq(s, 1, Len(s) - 1)
<1>1. r \in Seq(F) /\ Len(r) = Len(s) - 1 /\ Len(s) \in Nat
  BY PopLemma
<1>2. \A j \in 1 .. Len(s) - 1 : r[j] = s[j]
  BY PopLemma
<1> HIDE DEF r
<1>3. Len(Append(r, f)) = Len(s) /\ Append(r, f)[Len(s)] = f
  BY <1>1
<1>4. \A j \in 1 .. Len(s) - 1 : Append(r, f)[j] = s[j]
  BY <1>1, <1>2
<1> QED BY <1>3, <1>4 DEF r

\* The two kinds of frame.
LEMMA VerifyFrameType ==
  ASSUME NEW q \in Queries
  PROVE  VerifyFrame(q) \in Frames
BY DEF VerifyFrame, Frames

LEMMA EmptySeen == <<>> \in Seen /\ DOMAIN <<>> = {}
<1>1. <<>> \in [{} -> Values]
  OBVIOUS
<1> QED BY <1>1 DEF Seen

LEMMA ComputeFrameType ==
  ASSUME NEW q \in Queries
  PROVE  ComputeFrame(q) \in Frames
BY EmptySeen DEF ComputeFrame, Frames

LEMMA FrameFields ==
  ASSUME NEW f \in Frames
  PROVE  /\ f.key \in Queries
         /\ f.kind \in {"verify", "compute"}
         /\ f.kind = "verify" => f.at \in Nat \ {0}
         /\ f.kind = "compute" => f.order \in Seq(Keys) /\ f.seen \in Seen /\ f.asked \in BOOLEAN
BY DEF Frames

LEMMA TopType ==
  ASSUME TypeOK, stack # <<>>
  PROVE  /\ Len(stack) \in Nat \ {0} /\ Top \in Frames
         /\ Below \in Seq(Frames)
BY PopLemma DEF TypeOK, Top, Below

\* What the innermost compute frame does next.
LEMMA InstrType ==
  ASSUME TypeOK, Running("compute")
  PROVE  /\ Top \in Frames /\ Top.key \in Queries /\ Top.seen \in Seen /\ Top.order \in Seq(Keys)
         /\ NextInstr.op \in {"get", "ret", "panic"}
         /\ NextInstr.op = "ret" => NextInstr.val \in Values /\ NextInstr = Ret(NextInstr.val)
         /\ NextInstr.op = "get" => NextInstr.key \in Keys \ DOMAIN Top.seen
                                 /\ NextInstr = Get(NextInstr.key)
<1>1. /\ Top \in Frames /\ Top.key \in Queries /\ Top.seen \in Seen /\ Top.order \in Seq(Keys)
  BY TopType, FrameFields DEF Running
<1> QED BY <1>1, InstrAssumption DEF NextInstr, Get, Ret, Panic

LEMMA SeenExtend ==
  ASSUME NEW seen \in Seen, NEW k \in Keys, NEW v \in Values
  PROVE  [d \in DOMAIN seen \cup {k} |-> IF d = k THEN v ELSE seen[d]] \in Seen
<1>1. PICK K \in SUBSET Keys : seen \in [K -> Values]
  BY DEF Seen
<1>2. K \cup {k} \in SUBSET Keys
  OBVIOUS
<1>3. [d \in DOMAIN seen \cup {k} |-> IF d = k THEN v ELSE seen[d]] \in [K \cup {k} -> Values]
  BY <1>1
<1> QED BY <1>2, <1>3 DEF Seen
-----------------------------------------------------------------------------
(***************************************************************************)
(* Type correctness.                                                       *)
(***************************************************************************)
LEMMA UnwindType ==
  ASSUME TypeOK, NEW kind \in {"cycle", "canceled", "panic"}, Unwind(kind)
  PROVE  TypeOK'
<1>1. outcome' \in Outcomes
  BY DEF Unwind, TypeOK, Outcomes
<1>2. <<>> \in Seq(Frames)
  OBVIOUS
<1> QED BY <1>1, <1>2 DEF Unwind, TypeOK, slotVars

LEMMA FreshenType ==
  ASSUME TypeOK, NEW k \in Queries, NEW outer \in Seq(Frames), Freshen(k, outer)
  PROVE  TypeOK'
<1>1. CASE computing[k]
  BY <1>1, UnwindType DEF Freshen
<1>2. CASE ~computing[k]
  <2>1. (IF hasValue[k] THEN VerifyFrame(k) ELSE ComputeFrame(k)) \in Frames
    BY VerifyFrameType, ComputeFrameType
  <2>2. stack' \in Seq(Frames)
    BY <1>2, <2>1 DEF Freshen
  <2>3. computing' \in [Keys -> BOOLEAN]
    BY <1>2 DEF Freshen, TypeOK, Keys
  <2> QED BY <1>2, <2>2, <2>3 DEF Freshen, TypeOK, readVars
<1> QED BY <1>1, <1>2

LEMMA NotUpToDate ==
  ASSUME NEW k \in Keys, ~UpToDate(k)
  PROVE  k \in Queries /\ ~Fresh(k)
BY DEF UpToDate, Keys

LEMMA InitType == Init => TypeOK
<1> SUFFICES ASSUME Init PROVE TypeOK
  OBVIOUS
<1>1. NoOutcome \in Outcomes
  BY DEF Outcomes
<1>2. <<>> \in Seq(Frames) /\ <<>> \in Seq(Keys)
  OBVIOUS
<1>3. 0 \in 0 .. MaxRevision
  BY MaxRevisionAssumption
<1> QED BY <1>1, <1>2, <1>3, EmptySeen, ZeroAssumption DEF Init, TypeOK

LEMMA NextType ==
  ASSUME TypeOK, [Next]_vars
  PROVE  TypeOK'
<1> USE KeysAssumption, ZeroAssumption, MaxRevisionAssumption DEF Keys, slotVars, readVars
<1>1. ASSUME NEW i \in Inputs, NEW v \in Values, Set(i, v)
      PROVE  TypeOK'
  <2>1. NoOutcome \in Outcomes
    BY DEF Outcomes
  <2> QED BY <1>1, <2>1 DEF Set, TypeOK
<1>2. CASE Begin \/ Cancel \/ End
  BY <1>2 DEF Begin, Cancel, End, TypeOK
<1>3. ASSUME NEW k \in Keys, RootGet(k)
      PROVE  TypeOK'
  <2>1. CASE ctxDone
    BY <1>3, <2>1, UnwindType DEF RootGet
  <2>2. CASE ~ctxDone
    BY <1>3, <2>2 DEF RootGet, TypeOK
  <2> QED BY <2>1, <2>2
<1>4. CASE RootFreshen
  <2>1. root \in Queries
    BY <1>4, NotUpToDate DEF RootFreshen, TypeOK
  <2>2. <<>> \in Seq(Frames)
    OBVIOUS
  <2> QED BY <1>4, <2>1, <2>2, FreshenType DEF RootFreshen
<1>5. CASE RootReturn
  <2>1. [kind |-> "value", key |-> root, val |-> value[root]] \in Outcomes
    BY <1>5 DEF RootReturn, TypeOK, Outcomes
  <2> QED BY <1>5, <2>1 DEF RootReturn, TypeOK
<1>6. CASE VerifyDescend
  <2>1. Dep \in Keys
    BY <1>6, TopType, FrameFields DEF VerifyDescend, MoreDeps, Running, Dep, TypeOK
  <2>2. Dep \in Queries
    BY <1>6, <2>1, NotUpToDate DEF VerifyDescend
  <2> QED BY <1>6, <2>2, FreshenType DEF VerifyDescend, TypeOK
<1>7. CASE VerifyNext
  <2>1. [Top EXCEPT !.at = @ + 1] \in Frames
    BY <1>7, TopType DEF VerifyNext, MoreDeps, Running, Frames
  <2>2. stack' \in Seq(Frames)
    BY <1>7, <2>1, TopType DEF VerifyNext, MoreDeps, Running
  <2> QED BY <1>7, <2>2 DEF VerifyNext, TypeOK
<1>8. CASE Recompute
  <2>1. Top.key \in Queries
    BY <1>8, TopType, FrameFields DEF Recompute, MoreDeps, Running
  <2>2. stack' \in Seq(Frames)
    BY <1>8, <2>1, TopType, ComputeFrameType DEF Recompute, MoreDeps, Running
  <2> QED BY <1>8, <2>1, <2>2 DEF Recompute, TypeOK
<1>9. CASE VerifyDone
  <2>1. Top.key \in Queries /\ Below \in Seq(Frames)
    BY <1>9, TopType, FrameFields DEF VerifyDone, Running
  <2> QED BY <1>9, <2>1 DEF VerifyDone, TypeOK
<1>10. CASE Ask
  <2>1. CASE ctxDone
    BY <1>10, <2>1, UnwindType DEF Ask
  <2>2. CASE ~ctxDone
    <3>1. NextInstr.key \in Keys /\ Top.order \in Seq(Keys)
      BY <1>10, InstrType DEF Ask
    <3>2. Append(Top.order, NextInstr.key) \in Seq(Keys)
      BY <3>1
    <3>3. [Top EXCEPT !.asked = TRUE, !.order = Append(@, NextInstr.key)] \in Frames
      BY <1>10, <3>2, TopType DEF Ask, Running, Frames
    <3>4. stack' \in Seq(Frames)
      BY <1>10, <2>2, <3>3, TopType DEF Ask, Running
    <3> QED BY <1>10, <2>2, <3>1, <3>4 DEF Ask, TypeOK
  <2> QED BY <2>1, <2>2
<1>11. CASE AskDescend
  <2>1. NextInstr.key \in Queries
    BY <1>11, InstrType, NotUpToDate DEF AskDescend, Asking
  <2> QED BY <1>11, <2>1, FreshenType DEF AskDescend, TypeOK
<1>12. CASE Receive
  <2> DEFINE k == NextInstr.key
             new == [d \in DOMAIN Top.seen \cup {k} |-> IF d = k THEN value[k] ELSE Top.seen[d]]
  <2>1. k \in Keys /\ Top.seen \in Seen
    BY <1>12, InstrType DEF Receive, Asking
  <2>2. new \in Seen
    <3>1. value[k] \in Values
      BY <2>1 DEF TypeOK
    <3> HIDE DEF k
    <3> QED BY <2>1, <3>1, SeenExtend
  <2>3. [Top EXCEPT !.asked = FALSE, !.seen = new] \in Frames
    BY <1>12, <2>2, TopType DEF Receive, Asking, Running, Frames
  <2>4. stack' \in Seq(Frames)
    BY <1>12, <2>3, TopType DEF Receive, Asking, Running
  <2> QED BY <1>12, <2>4 DEF Receive, TypeOK
<1>13. CASE ComputePanic
  BY <1>13, UnwindType DEF ComputePanic
<1>14. CASE ComputeDone
  <2>1. /\ Top.key \in Queries /\ Top.seen \in Seen /\ Top.order \in Seq(Keys)
        /\ NextInstr.val \in Values /\ Below \in Seq(Frames)
    BY <1>14, InstrType, TopType DEF ComputeDone, Running
  <2> QED BY <1>14, <2>1 DEF ComputeDone, Stamp, TypeOK
<1>15. CASE UNCHANGED vars
  BY <1>15 DEF vars, TypeOK
<1> QED
  BY <1>1, <1>2, <1>3, <1>4, <1>5, <1>6, <1>7, <1>8, <1>9, <1>10, <1>11,
     <1>12, <1>13, <1>14, <1>15 DEF Next, Work

THEOREM TypeCorrect == Spec => []TypeOK
BY InitType, NextType, PTL DEF Spec
-----------------------------------------------------------------------------
LEMMA InitInv == Init => IInv
<1> SUFFICES ASSUME Init PROVE IInv
  OBVIOUS
<1>1. TypeOK
  BY InitType
<1> QED
  BY <1>1 DEF Init, IInv, LockInv, StampInv, MemoInv, FreshInv, FramesInv, LinkInv,
              ReentryInv, Fresh, Keys

(***************************************************************************)
(* Steps of the reading goroutine that touch neither a slot's fields nor   *)
(* the stack; a slot may be created.                                       *)
(***************************************************************************)
LEMMA SessionStep ==
  ASSUME IInv, TypeOK', LockInv', UNCHANGED <<revision, slotVars, stack>>,
         slots \subseteq slots'
  PROVE  IInv'
<1> USE DEF IInv, slotVars
<1>1. StampInv' /\ FreshInv' /\ LinkInv' /\ ReentryInv'
  BY DEF StampInv, FreshInv, LinkInv, ReentryInv, WaitsFor, Fresh, UpToDate, Deps, Before
<1>2. MemoInv'
  BY DEF MemoInv, MemoOK, Deps
<1>3. FramesInv'
  <2> SUFFICES ASSUME NEW j \in 1 .. Len(stack)
               PROVE  FrameOK(stack[j])'
    BY DEF FramesInv
  <2>1. FrameOK(stack[j])
    BY DEF FramesInv
  <2>2. VerifyOK(stack[j]) => VerifyOK(stack[j])'
    BY DEF VerifyOK, UpToDate, Fresh
  <2>3. ComputeOK(stack[j]) => ComputeOK(stack[j])'
    BY DEF ComputeOK, UpToDate, Fresh
  <2> QED BY <2>1, <2>2, <2>3 DEF FrameOK, Fresh
<1> QED BY <1>1, <1>2, <1>3

\* A panic leaves the slots alone, and no frame.
LEMMA UnwindStep ==
  ASSUME IInv, NEW kind \in {"cycle", "canceled", "panic"}, Unwind(kind)
  PROVE  IInv'
<1> USE DEF IInv, slotVars, Unwind
<1>1. TypeOK' /\ LockInv'
  BY UnwindType DEF LockInv
<1>2. StampInv' /\ FreshInv'
  BY DEF StampInv, FreshInv, Fresh, UpToDate, Deps, Before
<1>3. MemoInv'
  BY DEF MemoInv, MemoOK, Deps
<1>4. FramesInv' /\ LinkInv' /\ ReentryInv'
  BY DEF FramesInv, LinkInv, ReentryInv
<1> QED BY <1>1, <1>2, <1>3, <1>4

(***************************************************************************)
(* Setting an input makes every memo stale and stamps the input later than *)
(* any verification.                                                       *)
(***************************************************************************)
LEMMA SetStep ==
  ASSUME IInv, TypeOK', NEW i \in Inputs, NEW v \in Values, Set(i, v)
  PROVE  IInv'
<1> USE KeysAssumption DEF IInv, slotVars, Set, Keys
<1>1. LockInv' /\ stack = <<>> /\ stack' = <<>>
  BY DEF LockInv
<1>2. StampInv'
  BY DEF StampInv, TypeOK
<1>3. \A q \in Queries : ~Fresh(q)'
  BY DEF StampInv, Fresh, TypeOK
<1>4. FreshInv'
  BY <1>3 DEF FreshInv
<1>5. MemoInv'
  <2> SUFFICES ASSUME NEW q \in Queries, hasValue'[q]
               PROVE  MemoOK(q)'
    BY DEF MemoInv
  <2>1. hasValue[q] /\ q # i
    BY DEF TypeOK
  <2>2. MemoOK(q)
    BY <2>1 DEF MemoInv
  <2>3. /\ deps' = deps /\ observed' = observed /\ verifiedAt'[q] = verifiedAt[q]
        /\ value'[q] = value[q] /\ slots \subseteq slots'
    BY <2>1 DEF TypeOK
  <2>4. ASSUME NEW d \in Deps(q), changedAt'[d] <= verifiedAt[q]
        PROVE  changedAt'[d] = changedAt[d] /\ value'[d] = value[d]
    <3>1. d \in Keys
      BY <2>2 DEF MemoOK, TypeOK
    <3>2. d # i
      BY <2>4, <2>1 DEF StampInv, TypeOK
    <3> QED BY <3>1, <3>2 DEF TypeOK
  <2>5. Deps(q)' = Deps(q)
    BY <2>3 DEF Deps, Before
  <2>6. Run(q, deps[q], observed[q])'
    BY SMTT(60), <2>2, <2>3 DEF MemoOK, Run, ReadSoFar, Before
  <2> QED BY <2>2, <2>3, <2>4, <2>5, <2>6 DEF MemoOK
<1>6. FramesInv' /\ LinkInv' /\ ReentryInv'
  BY <1>1 DEF FramesInv, LinkInv, ReentryInv
<1> QED BY <1>1, <1>2, <1>4, <1>5, <1>6

\* A new frame has nothing behind it yet.
LEMMA NewFrame ==
  ASSUME NEW q \in Queries
  PROVE  /\ VerifyFrame(q).kind = "verify" /\ VerifyFrame(q).key = q /\ VerifyFrame(q).at = 1
         /\ ComputeFrame(q).kind = "compute" /\ ComputeFrame(q).key = q
         /\ ComputeFrame(q).order = <<>> /\ ~ComputeFrame(q).asked
         /\ DOMAIN ComputeFrame(q).seen = {}
         /\ Before(ComputeFrame(q).order, Len(ComputeFrame(q).order) + 1) = {}
         /\ Run(q, ComputeFrame(q).order, ComputeFrame(q).seen)
         /\ \A s : Before(s, 1) = {}
BY EmptySeen DEF VerifyFrame, ComputeFrame, Before, Run

(***************************************************************************)
(* ensureFresh enters a query that is not up to date and not being         *)
(* computed.                                                               *)
(***************************************************************************)
LEMMA FreshenStep ==
  ASSUME IInv, NEW k \in Queries, ~Fresh(k), Freshen(k, stack),
         root # None, stack # <<>> => WaitsFor(Top, k)
  PROVE  IInv'
<1> USE DEF IInv
<1>1. CASE computing[k]
  BY <1>1, UnwindStep DEF Freshen
<1>2. CASE ~computing[k]
  <2> DEFINE f == IF hasValue[k] THEN VerifyFrame(k) ELSE ComputeFrame(k)
  <2>1. /\ f \in Frames /\ f.key = k /\ f.kind = (IF hasValue[k] THEN "verify" ELSE "compute")
    BY VerifyFrameType, ComputeFrameType, NewFrame
  <2>2. TypeOK'
    BY FreshenType DEF TypeOK
  <2>3. stack' = Append(stack, f) /\ computing' = [computing EXCEPT ![k] = ~hasValue[k]]
    BY <1>2 DEF Freshen
  <2>4. UNCHANGED <<revision, slots, hasValue, value, changedAt, verifiedAt, deps, observed,
                    locked, ctxDone, root, outcome>>
    BY <1>2 DEF Freshen, readVars
  <2> HIDE DEF f
  <2>5. /\ Len(stack') = Len(stack) + 1 /\ stack'[Len(stack) + 1] = f
        /\ \A j \in 1 .. Len(stack) : stack'[j] = stack[j]
        /\ Len(stack) \in Nat
    BY <2>1, <2>3, PushLemma DEF TypeOK
  <2>6. \A q \in Queries : computing[q] => computing'[q]
    BY <1>2, <2>3 DEF TypeOK, Keys
  <2>7. LockInv' /\ StampInv' /\ MemoInv' /\ FreshInv'
    BY <2>4 DEF LockInv, StampInv, MemoInv, MemoOK, FreshInv, Fresh, UpToDate, Deps
  <2>8. FramesInv'
    <3> SUFFICES ASSUME NEW j \in 1 .. Len(stack) + 1
                 PROVE  FrameOK(stack[j])'
      BY <2>5 DEF FramesInv
    <3>1. CASE j \in 1 .. Len(stack)
      <4>1. FrameOK(stack[j]) /\ stack'[j] = stack[j] /\ stack[j].key \in Queries
        BY <3>1, <2>5, FrameFields DEF FramesInv, TypeOK
      <4> QED
        BY <4>1, <2>4, <2>6 DEF FrameOK, VerifyOK, ComputeOK, Fresh, UpToDate
    <3>2. CASE j = Len(stack) + 1
      <4>1. ~Fresh(k)'
        BY <2>4 DEF Fresh
      <4>2. CASE hasValue[k]
        <5>1. f = VerifyFrame(k) /\ Len(deps[k]) \in Nat
          BY <4>2 DEF f, TypeOK, Keys
        <5> QED BY <3>2, <2>4, <2>5, <4>1, <4>2, <5>1, NewFrame DEF FrameOK, VerifyOK
      <4>3. CASE ~hasValue[k]
        <5>1. stack'[j] = ComputeFrame(k) /\ computing'[k]
          BY <3>2, <4>3, <2>3, <2>5 DEF f, TypeOK, Keys
        <5> DEFINE g == stack'[j]
        <5>2. /\ g.key = k /\ ~g.asked /\ DOMAIN g.seen = {} /\ Run(g.key, g.order, g.seen)
              /\ Before(g.order, Len(g.order) + 1) = {}
          BY <5>1, NewFrame
        <5>3. ComputeOK(stack[j])'
          <6> HIDE DEF g
          <6>1. /\ computing'[g.key]
                /\ g.asked => Len(g.order) > 0 /\ DOMAIN g.seen = Before(g.order, Len(g.order))
                /\ ~g.asked => DOMAIN g.seen = Before(g.order, Len(g.order) + 1)
                /\ Before(g.order, Len(g.order) + 1) \subseteq slots'
                /\ Run(g.key, g.order, g.seen)
                /\ \A d \in DOMAIN g.seen : UpToDate(d)' /\ value'[d] = g.seen[d]
            BY <5>1, <5>2
          <6> QED BY <6>1 DEF ComputeOK, g
        <5> QED BY <4>1, <5>1, <5>3, NewFrame DEF FrameOK
      <4> QED BY <4>2, <4>3
    <3> QED BY <3>1, <3>2
  <2>9. LinkInv'
    <3> SUFFICES ASSUME NEW j \in 1 .. Len(stack)
                 PROVE  WaitsFor(stack[j], stack[j + 1].key)'
      BY <2>5 DEF LinkInv
    <3>1. CASE j < Len(stack)
      BY SMTT(60), <3>1, <2>4, <2>5 DEF LinkInv, WaitsFor
    <3>2. CASE j = Len(stack)
      <4>1. stack # <<>> /\ Top = stack[j]
        BY <3>2 DEF Top, TypeOK
      <4> QED BY <3>2, <4>1, <2>1, <2>4, <2>5 DEF WaitsFor
    <3> QED BY <3>1, <3>2, <2>5
  <2>10. ReentryInv'
    <3> SUFFICES ASSUME NEW i \in 1 .. Len(stack) + 1, NEW j \in 1 .. Len(stack) + 1,
                        i < j, stack'[i].key = stack'[j].key
                 PROVE  /\ stack'[i].kind = "verify" /\ stack'[j].kind = "verify"
                        /\ stack'[j].at <= stack'[i].at
      BY <2>5 DEF ReentryInv
    <3>1. CASE j \in 1 .. Len(stack)
      BY <3>1, <2>5 DEF ReentryInv
    <3>2. CASE j = Len(stack) + 1
      <4>1. /\ i \in 1 .. Len(stack) /\ stack'[i] = stack[i] /\ stack[i].key = k
            /\ stack[i] \in Frames /\ FrameOK(stack[i])
        BY SMTT(60), <3>2, <2>1, <2>5 DEF FramesInv, TypeOK
      <4>2. stack[i].kind = "verify" /\ hasValue[k] /\ stack[i].at \in Nat \ {0}
        BY <1>2, <4>1, FrameFields DEF FrameOK, VerifyOK, ComputeOK
      <4>3. f = VerifyFrame(k)
        BY <4>2 DEF f
      <4> QED BY <3>2, <2>5, <4>1, <4>2, <4>3, NewFrame
    <3> QED BY <3>1, <3>2
  <2> QED BY <2>2, <2>7, <2>8, <2>9, <2>10
<1> QED BY <1>1, <1>2

(***************************************************************************)
(* The innermost frame moves on, and nothing else but `computing' and the  *)
(* set of slots, which grow.                                               *)
(***************************************************************************)
LEMMA TopReplaced ==
  ASSUME TypeOK, stack # <<>>, NEW f \in Frames, stack' = Append(Below, f)
  PROVE  /\ Len(stack') = Len(stack) /\ Top' = f
         /\ \A j \in 1 .. Len(stack) - 1 : stack'[j] = stack[j]
<1>1. /\ Len(stack') = Len(stack) /\ stack'[Len(stack)] = f
      /\ \A j \in 1 .. Len(stack) - 1 : stack'[j] = stack[j]
  <2>1. stack \in Seq(Frames) /\ stack' = Append(SubSeq(stack, 1, Len(stack) - 1), f)
    BY DEF TypeOK, Below
  <2> QED BY <2>1, ReplaceLemma
<1> QED BY <1>1 DEF Top

LEMMA ReplaceStep ==
  ASSUME IInv, TypeOK', stack # <<>>, Len(stack') = Len(stack),
         \A j \in 1 .. Len(stack) - 1 : stack'[j] = stack[j],
         Top'.key = Top.key, FrameOK(Top)',
         \A i \in 1 .. Len(stack) - 1 :
           stack[i].key = Top.key =>
             stack[i].kind = "verify" /\ Top'.kind = "verify" /\ Top'.at <= stack[i].at,
         UNCHANGED <<revision, hasValue, value, changedAt, verifiedAt, deps, observed, readVars>>,
         slots \subseteq slots', \A q \in Queries : computing[q] => computing'[q]
  PROVE  IInv'
<1> USE DEF IInv, readVars
<1>1. Len(stack) \in Nat \ {0} /\ stack' # <<>> /\ Top = stack[Len(stack)]
  BY TopType DEF TypeOK, Top
<1>2. LockInv' /\ StampInv' /\ MemoInv' /\ FreshInv'
  BY <1>1 DEF LockInv, StampInv, MemoInv, MemoOK, FreshInv, Fresh, UpToDate, Deps
<1>3. FramesInv'
  <2> SUFFICES ASSUME NEW j \in 1 .. Len(stack)
               PROVE  FrameOK(stack[j])'
    BY DEF FramesInv
  <2>1. CASE j < Len(stack)
    <3>1. FrameOK(stack[j]) /\ stack'[j] = stack[j] /\ stack[j] \in Frames
      BY <2>1, <1>1 DEF FramesInv, TypeOK
    <3>2. stack[j].key \in Queries
      BY <3>1, FrameFields
    <3> QED BY <3>1, <3>2 DEF FrameOK, VerifyOK, ComputeOK, Fresh, UpToDate
  <2>2. CASE j = Len(stack)
    BY <2>2, <1>1 DEF Top
  <2> QED BY <2>1, <2>2, <1>1
<1>4. LinkInv'
  <2> SUFFICES ASSUME NEW j \in 1 .. Len(stack) - 1
               PROVE  WaitsFor(stack[j], stack[j + 1].key)'
    BY DEF LinkInv
  <2>1. WaitsFor(stack[j], stack[j + 1].key) /\ stack'[j] = stack[j]
    BY DEF LinkInv
  <2>2. stack'[j + 1].key = stack[j + 1].key
    BY <1>1 DEF Top
  <2> QED BY <2>1, <2>2 DEF WaitsFor
<1>5. ReentryInv'
  <2> SUFFICES ASSUME NEW i \in 1 .. Len(stack), NEW j \in 1 .. Len(stack),
                      i < j, stack'[i].key = stack'[j].key
               PROVE  /\ stack'[i].kind = "verify" /\ stack'[j].kind = "verify"
                      /\ stack'[j].at <= stack'[i].at
    BY DEF ReentryInv
  <2>1. i \in 1 .. Len(stack) - 1 /\ stack'[i] = stack[i]
    BY <1>1
  <2>2. CASE j < Len(stack)
    BY <2>1, <2>2, <1>1 DEF ReentryInv
  <2>3. CASE j = Len(stack)
    BY <2>1, <2>3, <1>1 DEF Top
  <2> QED BY <2>2, <2>3, <1>1
<1> QED BY <1>2, <1>3, <1>4, <1>5

(***************************************************************************)
(* Where a query is verified twice, the inner verification is at a         *)
(* dependency before the one the outer one waits for, unless that one is   *)
(* not up to date.                                                         *)
(***************************************************************************)
LEMMA InnerIsBehind ==
  ASSUME IInv, stack # <<>>, NEW i \in 1 .. Len(stack) - 1, stack[i].key = Top.key
  PROVE  /\ stack[i].kind = "verify" /\ Top.kind = "verify" /\ Top.at <= stack[i].at
         /\ VerifyOK(stack[i]) /\ stack[i].at <= Len(deps[Top.key])
         /\ stack[i].at \in Nat \ {0} /\ Top.at \in Nat \ {0}
         /\ Top.at = stack[i].at => ~UpToDate(Dep)
<1> USE DEF IInv
<1>1. /\ Len(stack) \in Nat \ {0} /\ Top = stack[Len(stack)]
      /\ \A j \in 1 .. Len(stack) : stack[j] \in Frames
  BY TopType DEF TypeOK, Top
<1>2. stack[i].kind = "verify" /\ Top.kind = "verify" /\ Top.at <= stack[i].at
  BY <1>1 DEF ReentryInv
<1>3. VerifyOK(stack[i]) /\ WaitsFor(stack[i], stack[i + 1].key)
  BY <1>1, <1>2 DEF FramesInv, FrameOK, LinkInv
<1>4. stack[i].at <= Len(deps[Top.key]) /\ stack[i + 1].key = deps[Top.key][stack[i].at]
  BY <1>2, <1>3 DEF WaitsFor
<1>5. stack[i + 1].key \in Queries /\ ~Fresh(stack[i + 1].key)
  BY <1>1, FrameFields DEF FramesInv, FrameOK
<1>6. ~UpToDate(stack[i + 1].key)
  BY <1>5, KeysAssumption DEF UpToDate
<1>7. stack[i] \in Frames /\ Top \in Frames
  BY <1>1
<1>8. stack[i].at \in Nat \ {0} /\ Top.at \in Nat \ {0}
  BY <1>2, <1>7, FrameFields
<1>9. Top.at = stack[i].at => ~UpToDate(Dep)
  BY <1>4, <1>6 DEF Dep
<1> QED BY <1>2, <1>3, <1>4, <1>8, <1>9

LEMMA TopInv ==
  ASSUME IInv, stack # <<>>
  PROVE  Top \in Frames /\ Top.key \in Queries /\ FrameOK(Top)
BY TopType, FrameFields DEF IInv, FramesInv, Top

LEMMA DepType ==
  ASSUME TypeOK, MoreDeps
  PROVE  /\ stack # <<>> /\ Top.kind = "verify" /\ Top.key \in Queries
         /\ Top.at \in 1 .. Len(deps[Top.key]) /\ Len(deps[Top.key]) \in Nat
         /\ Dep \in Deps(Top.key) /\ Dep \in Keys
         /\ changedAt[Dep] \in Nat /\ verifiedAt[Top.key] \in Nat
<1>1. stack # <<>> /\ Top.kind = "verify" /\ Top.at <= Len(deps[Top.key])
  BY DEF MoreDeps, Running
<1>2. Top.key \in Queries /\ Top.at \in Nat \ {0}
  BY <1>1, TopType, FrameFields
<1>3. deps[Top.key] \in Seq(Keys)
  BY <1>2 DEF TypeOK, Keys
<1>4. Top.at \in 1 .. Len(deps[Top.key]) /\ Len(deps[Top.key]) \in Nat
  BY <1>1, <1>2, <1>3
<1>5. Dep \in Keys
  BY <1>3, <1>4 DEF Dep
<1>6. Dep \in Deps(Top.key)
  BY <1>4 DEF Dep, Deps, Before
<1>7. changedAt[Dep] \in Nat /\ verifiedAt[Top.key] \in Nat
  BY <1>2, <1>5, MaxRevisionAssumption DEF TypeOK, Keys
<1> QED BY <1>1, <1>2, <1>4, <1>5, <1>6, <1>7

LEMMA VerifyNextStep ==
  ASSUME IInv, TypeOK', VerifyNext
  PROVE  IInv'
<1> USE DEF IInv
<1> DEFINE f == [Top EXCEPT !.at = @ + 1]
<1>1. /\ stack # <<>> /\ Top.kind = "verify" /\ Top.at <= Len(deps[Top.key])
      /\ UpToDate(Dep) /\ changedAt[Dep] <= verifiedAt[Top.key]
      /\ stack' = Append(Below, f)
      /\ UNCHANGED <<revision, slots, slotVars, readVars>>
  BY DepType DEF VerifyNext, DepChanged
<1>2. /\ f \in Frames /\ f.key = Top.key /\ f.kind = "verify" /\ f.at = Top.at + 1
      /\ Top.at \in Nat \ {0} /\ VerifyOK(Top) /\ ~Fresh(Top.key)
  BY <1>1, TopInv DEF Frames, FrameOK
<1> HIDE DEF f
<1>3. /\ Len(stack') = Len(stack) /\ Top' = f
      /\ \A j \in 1 .. Len(stack) - 1 : stack'[j] = stack[j]
  BY <1>1, <1>2, TopReplaced
<1>4. ASSUME NEW d \in Before(deps[f.key], f.at)
      PROVE  UpToDate(d) /\ changedAt[d] <= verifiedAt[f.key]
  <2>1. PICK n \in 1 .. f.at - 1 : d = deps[f.key][n]
    BY <1>4 DEF Before
  <2>2. CASE n = Top.at
    BY <2>1, <2>2, <1>1, <1>2 DEF Dep
  <2>3. CASE n # Top.at
    <3>1. n \in 1 .. Top.at - 1
      BY <2>1, <2>3, <1>2
    <3> QED BY <2>1, <3>1, <1>2 DEF VerifyOK, Before
  <2> QED BY <2>2, <2>3
<1>5. FrameOK(Top)'
  <2>1. f.at <= Len(deps[f.key]) + 1
    BY <1>1, <1>2, TopInv DEF TypeOK, Keys
  <2> QED BY <1>1, <1>2, <1>3, <1>4, <2>1 DEF FrameOK, VerifyOK, Fresh, UpToDate, slotVars
<1>6. ASSUME NEW i \in 1 .. Len(stack) - 1, stack[i].key = Top.key
      PROVE  stack[i].kind = "verify" /\ f.kind = "verify" /\ f.at <= stack[i].at
  BY <1>1, <1>2, <1>6, InnerIsBehind
<1> QED BY <1>1, <1>2, <1>3, <1>5, <1>6, ReplaceStep DEF slotVars

(***************************************************************************)
(* A verification that finds a changed dependency is the only one of its   *)
(* query: an outer one would have found it first.                          *)
(***************************************************************************)
LEMMA RecomputeStep ==
  ASSUME IInv, TypeOK', Recompute
  PROVE  IInv'
<1> USE DEF IInv
<1> DEFINE q == Top.key
           f == ComputeFrame(q)
<1>1. /\ stack # <<>> /\ Top.kind = "verify" /\ Top.at <= Len(deps[q])
      /\ q \in Queries /\ Top.at \in Nat \ {0} /\ VerifyOK(Top) /\ ~Fresh(q)
  BY TopInv, FrameFields DEF Recompute, MoreDeps, Running, FrameOK
<1>2. /\ Dep \in Deps(q) /\ Dep \in Keys /\ Dep \in slots
      /\ changedAt[Dep] \in Nat /\ verifiedAt[q] \in Nat
  <2>1. Dep \in Deps(q) /\ Dep \in Keys /\ changedAt[Dep] \in Nat /\ verifiedAt[q] \in Nat
    BY DepType DEF Recompute
  <2> QED BY <2>1, <1>1 DEF MemoInv, MemoOK, VerifyOK
<1>3. UpToDate(Dep) /\ changedAt[Dep] > verifiedAt[q]
  BY <1>2 DEF Recompute, DepChanged
<1>4. f \in Frames /\ f.key = q
  BY <1>1, ComputeFrameType, NewFrame
<1>5. stack' = Append(Below, f) /\ computing' = [computing EXCEPT ![q] = TRUE]
  BY DEF Recompute
<1>6. UNCHANGED <<revision, slots, hasValue, value, changedAt, verifiedAt, deps, observed, readVars>>
  BY DEF Recompute
<1>7. /\ Len(stack') = Len(stack) /\ Top' = f
      /\ \A j \in 1 .. Len(stack) - 1 : stack'[j] = stack[j]
  BY <1>1, <1>4, <1>5, TopReplaced
<1>8. \A r \in Queries : computing[r] => computing'[r]
  BY <1>5 DEF TypeOK, Keys
<1>9. FrameOK(Top)'
  <2>1. computing'[q]
    BY <1>1, <1>5 DEF TypeOK, Keys
  <2>2. ComputeOK(Top)'
    BY <2>1, <1>1, <1>7, NewFrame DEF ComputeOK
  <2> QED BY <2>2, <1>1, <1>6, <1>7, NewFrame DEF FrameOK, Fresh
<1>10. ASSUME NEW i \in 1 .. Len(stack) - 1, stack[i].key = Top.key
       PROVE  FALSE
  <2>1. /\ Top.at <= stack[i].at /\ VerifyOK(stack[i])
        /\ stack[i].at \in Nat \ {0} /\ Top.at # stack[i].at
    BY <1>1, <1>3, <1>10, InnerIsBehind
  <2>2. Dep \in Before(deps[q], stack[i].at)
    BY <2>1, <1>1 DEF Before, Dep
  <2>3. changedAt[Dep] <= verifiedAt[q]
    BY <2>1, <2>2, <1>10 DEF VerifyOK
  <2> QED BY <2>3, <1>2, <1>3
<1> QED BY <1>1, <1>4, <1>6, <1>7, <1>8, <1>9, <1>10, ReplaceStep

(***************************************************************************)
(* The innermost frame ends and its query becomes current.  No other frame *)
(* is at that query, and since the query was not up to date, no frame and  *)
(* no current memo relies on its old value.                                *)
(***************************************************************************)
LEMMA PopStep ==
  ASSUME IInv, TypeOK', stack # <<>>, stack' = Below,
         NEW q \in Queries, q = Top.key,
         \A i \in 1 .. Len(stack) - 1 : stack[i].key # q,
         UNCHANGED <<revision, slots, readVars>>,
         \A k \in Keys : k # q =>
           /\ hasValue'[k] = hasValue[k] /\ value'[k] = value[k]
           /\ changedAt'[k] = changedAt[k] /\ verifiedAt'[k] = verifiedAt[k]
           /\ computing'[k] = computing[k] /\ deps'[k] = deps[k]
           /\ observed'[k] = observed[k],
         hasValue'[q], verifiedAt'[q] = revision,
         \/ changedAt'[q] = revision
         \/ changedAt'[q] = changedAt[q] /\ value'[q] = value[q],
         MemoOK(q)', \A d \in Deps(q)' : UpToDate(d)
  PROVE  IInv'
<1> USE DEF IInv
<1>1. q \in Keys /\ ~Fresh(q) /\ ~UpToDate(q)
  BY TopInv, KeysAssumption DEF FrameOK, UpToDate, Keys
<1>2. /\ Len(stack) \in Nat \ {0} /\ Len(stack') = Len(stack) - 1
      /\ \A j \in 1 .. Len(stack) - 1 : stack'[j] = stack[j] /\ stack[j] \in Frames
  BY PopLemma DEF TypeOK, Below
<1>3. revision \in Nat /\ \A k \in Keys : changedAt[k] \in Nat /\ verifiedAt[k] \in Nat
  BY MaxRevisionAssumption DEF TypeOK
<1>4. LockInv'
  BY DEF LockInv, readVars
<1>5. StampInv'
  BY <1>1, <1>3 DEF StampInv
<1>6. \A k \in Keys : UpToDate(k) => UpToDate(k)'
  BY DEF UpToDate, Fresh, Keys
<1>7. ASSUME NEW r \in Queries, r # q
      PROVE  /\ r \in Keys /\ Fresh(r)' = Fresh(r) /\ hasValue'[r] = hasValue[r]
             /\ Deps(r)' = Deps(r) /\ Deps(r) \subseteq Keys
  <2>1. r \in Keys
    BY DEF Keys
  <2>2. deps[r] \in Seq(Keys) /\ deps'[r] = deps[r]
    BY <1>7, <2>1 DEF TypeOK
  <2>3. Deps(r) \subseteq Keys
    BY <2>2 DEF Deps, Before
  <2> QED BY <1>7, <2>1, <2>2, <2>3 DEF Fresh, Deps
<1>8. MemoInv'
  <2> SUFFICES ASSUME NEW r \in Queries, hasValue'[r], r # q
               PROVE  MemoOK(r)'
    BY DEF MemoInv
  <2>1. MemoOK(r) /\ r \in Keys /\ Deps(r)' = Deps(r) /\ Deps(r) \subseteq Keys
    BY <1>7 DEF MemoInv
  <2>2. ASSUME NEW d \in Deps(r), changedAt'[d] <= verifiedAt[r]
        PROVE  value'[d] = observed[r][d]
    <3>1. CASE d # q
      BY <2>1, <2>2, <3>1 DEF MemoOK
    <3>2. CASE d = q
      <4>1. ~Fresh(r)
        BY <3>2, <1>1 DEF FreshInv
      <4>2. hasValue[r]
        BY <1>7
      <4>3. verifiedAt[r] # revision
        BY <4>1, <4>2 DEF Fresh
      <4>4. verifiedAt[r] < revision
        BY <4>3, <2>1, <1>3 DEF StampInv
      <4>5. changedAt'[q] # revision
        BY <4>4, <2>2, <3>2, <2>1, <1>3
      <4> QED BY <4>5, <3>2, <2>1, <2>2 DEF MemoOK
    <3> QED BY <3>1, <3>2
  <2>3. /\ deps'[r] = deps[r] /\ observed'[r] = observed[r] /\ value'[r] = value[r]
        /\ verifiedAt'[r] = verifiedAt[r] /\ slots' = slots
    BY <2>1
  <2>4. Run(r, deps[r], observed[r])'
    BY <2>1, <2>3 DEF MemoOK, Run, ReadSoFar, Before
  <2> QED BY <2>1, <2>2, <2>3, <2>4 DEF MemoOK
<1>9. FreshInv'
  <2> SUFFICES ASSUME NEW r \in Queries, Fresh(r)', NEW d \in Deps(r)'
               PROVE  UpToDate(d)'
    BY DEF FreshInv
  <2>1. CASE r = q
    <3>1. d \in Keys
      <4>1. deps'[q] \in Seq(Keys)
        BY <1>1 DEF TypeOK
      <4> QED BY <2>1, <4>1 DEF Deps, Before
    <3> QED BY <2>1, <3>1, <1>6
  <2>2. CASE r # q
    BY <2>2, <1>6, <1>7 DEF FreshInv
  <2> QED BY <2>1, <2>2
<1>10. FramesInv'
  <2> SUFFICES ASSUME NEW j \in 1 .. Len(stack) - 1
               PROVE  FrameOK(stack[j])'
    BY <1>2 DEF FramesInv
  <2> PICK f \in Frames : f = stack[j]
    BY <1>2
  <2>1. /\ stack'[j] = f /\ f \in Frames /\ f.key # q /\ f.key \in Queries /\ f.key \in Keys
        /\ FrameOK(f)
    BY <1>2, FrameFields DEF FramesInv, Keys
  <2>2. ASSUME NEW d \in Keys, UpToDate(d)
        PROVE  UpToDate(d)' /\ changedAt'[d] = changedAt[d] /\ value'[d] = value[d]
    BY <1>1, <1>6, <2>2
  <2>3. ~Fresh(f.key)'
    BY <2>1, <1>7 DEF FrameOK
  <2>4. CASE f.kind = "verify"
    <3>1. VerifyOK(f) /\ deps[f.key] \in Seq(Keys) /\ f.at \in Nat \ {0}
      BY <2>1, <2>4, FrameFields DEF FrameOK, TypeOK
    <3>2. Before(deps[f.key], f.at) \subseteq Keys
      BY <3>1 DEF Before, VerifyOK
    <3>3. /\ hasValue'[f.key] /\ deps'[f.key] = deps[f.key]
          /\ verifiedAt'[f.key] = verifiedAt[f.key]
      BY <2>1, <3>1 DEF VerifyOK
    <3>4. /\ f.at <= Len(deps'[f.key]) + 1
          /\ \A d \in Before(deps'[f.key], f.at) :
               UpToDate(d)' /\ changedAt'[d] <= verifiedAt'[f.key]
      BY <3>1, <3>2, <3>3, <2>2 DEF VerifyOK
    <3>5. VerifyOK(stack[j])'
      <4>1. stack'[j] = f
        BY <2>1
      <4> QED BY <3>3, <3>4, <4>1 DEF VerifyOK
    <3> QED BY <2>1, <2>3, <2>4, <3>5 DEF FrameOK
  <2>5. CASE f.kind = "compute"
    <3>1. ComputeOK(f) /\ f.seen \in Seen
      BY <2>1, <2>5, FrameFields DEF FrameOK
    <3>2. DOMAIN f.seen \subseteq Keys
      BY <3>1 DEF Seen
    <3>3. computing'[f.key]
      BY <2>1, <3>1 DEF ComputeOK
    <3>4. \A d \in DOMAIN f.seen : UpToDate(d)' /\ value'[d] = f.seen[d]
      BY <3>1, <3>2, <2>2 DEF ComputeOK
    <3>5. ComputeOK(stack[j])'
      <4>1. stack'[j] = f /\ slots' = slots
        BY <2>1
      <4> QED BY <3>1, <3>3, <3>4, <4>1 DEF ComputeOK
    <3> QED BY <2>1, <2>3, <2>5, <3>5 DEF FrameOK
  <2> QED BY <2>1, <2>4, <2>5, FrameFields
<1>11. LinkInv'
  <2> SUFFICES ASSUME NEW j \in 1 .. Len(stack) - 2
               PROVE  WaitsFor(stack[j], stack[j + 1].key)'
    BY <1>2 DEF LinkInv
  <2>1. j \in 1 .. Len(stack) - 1 /\ j + 1 \in 1 .. Len(stack) - 1
    BY <1>2
  <2>2. /\ WaitsFor(stack[j], stack[j + 1].key)
        /\ stack'[j] = stack[j] /\ stack'[j + 1] = stack[j + 1]
        /\ stack[j].key \in Queries /\ stack[j].key # q
    BY <2>1, <1>2, FrameFields DEF LinkInv
  <2>3. deps'[stack[j].key] = deps[stack[j].key]
    BY <2>2 DEF Keys
  <2> QED BY <2>2, <2>3 DEF WaitsFor
<1>12. ReentryInv'
  BY <1>2 DEF ReentryInv
<1> QED BY <1>4, <1>5, <1>8, <1>9, <1>10, <1>11, <1>12

LEMMA VerifyDoneStep ==
  ASSUME IInv, TypeOK', VerifyDone
  PROVE  IInv'
<1> USE DEF IInv
<1> PICK q \in Queries : q = Top.key
  BY TopInv DEF VerifyDone, Running
<1>1. /\ stack # <<>> /\ Top.kind = "verify" /\ Top.at > Len(deps[q]) /\ stack' = Below
      /\ verifiedAt' = [verifiedAt EXCEPT ![q] = revision]
      /\ UNCHANGED <<revision, slots, hasValue, value, changedAt, computing, deps,
                     observed, readVars>>
  BY DEF VerifyDone, Running
<1>2. /\ Top \in Frames /\ q \in Queries /\ q \in Keys /\ VerifyOK(Top)
      /\ Top.at \in Nat \ {0} /\ Len(deps[q]) \in Nat /\ deps[q] \in Seq(Keys)
  BY <1>1, TopInv, FrameFields DEF FrameOK, Keys, TypeOK
<1>3. Top.at = Len(deps[q]) + 1
  BY <1>1, <1>2 DEF VerifyOK
<1>4. ASSUME NEW i \in 1 .. Len(stack) - 1, stack[i].key = Top.key
      PROVE  FALSE
  BY <1>1, <1>2, <1>4, InnerIsBehind
<1>5. \A d \in Deps(q) : UpToDate(d) /\ changedAt[d] <= verifiedAt[q]
  BY <1>2, <1>3 DEF VerifyOK, Deps
<1>6. hasValue[q] /\ MemoOK(q)
  BY <1>2 DEF MemoInv, VerifyOK
<1>7. verifiedAt'[q] = revision
  BY <1>1, <1>2 DEF TypeOK
<1>8. MemoOK(q)'
  <2>1. \A d \in Deps(q) : value[d] = observed[q][d]
    BY <1>5, <1>6 DEF MemoOK
  <2>2. UNCHANGED <<slots, value, deps, observed>>
    BY <1>1
  <2>3. Deps(q)' = Deps(q) /\ Run(q, deps[q], observed[q])'
    BY <1>6, <2>2 DEF MemoOK, Deps, Run, ReadSoFar, Before
  <2> QED BY <1>6, <2>1, <2>2, <2>3 DEF MemoOK
<1>9. \A d \in Deps(q)' : UpToDate(d)
  BY <1>1, <1>5 DEF Deps
<1>10. \A k \in Keys : k # q => verifiedAt'[k] = verifiedAt[k]
  BY <1>1, <1>2 DEF TypeOK
<1> QED BY <1>1, <1>2, <1>4, <1>6, <1>7, <1>8, <1>9, <1>10, PopStep

LEMMA ComputeDoneStep ==
  ASSUME IInv, TypeOK', ComputeDone
  PROVE  IInv'
<1> USE DEF IInv
<1> PICK q \in Queries : q = Top.key
  BY TopInv DEF ComputeDone, Running
<1> PICK v \in Values : v = NextInstr.val /\ Instr(q, Top.seen) = Ret(v)
  BY InstrType DEF ComputeDone, NextInstr
<1>1. /\ stack # <<>> /\ Top.kind = "compute" /\ ~Top.asked /\ stack' = Below
      /\ computing' = [computing EXCEPT ![q] = FALSE]
      /\ deps' = [deps EXCEPT ![q] = Top.order]
      /\ observed' = [observed EXCEPT ![q] = Top.seen]
      /\ verifiedAt' = [verifiedAt EXCEPT ![q] = revision]
      /\ changedAt' = IF hasValue[q] /\ value[q] = v
                        THEN changedAt ELSE [changedAt EXCEPT ![q] = revision]
      /\ value' = [value EXCEPT ![q] = v]
      /\ hasValue' = [hasValue EXCEPT ![q] = TRUE]
      /\ UNCHANGED <<revision, slots, readVars>>
  BY DEF ComputeDone, Stamp, Running
<1>2. /\ Top \in Frames /\ q \in Queries /\ q \in Keys /\ ComputeOK(Top) /\ ~UpToDate(q)
      /\ Top.order \in Seq(Keys) /\ Top.seen \in Seen
  BY <1>1, TopInv, FrameFields, KeysAssumption DEF FrameOK, Keys, UpToDate
<1>3. Instr(q, Top.seen) = Ret(v) /\ v \in Values
  OBVIOUS
<1>4. ASSUME NEW i \in 1 .. Len(stack) - 1, stack[i].key = Top.key
      PROVE  FALSE
  BY <1>1, <1>4, InnerIsBehind
<1>5. /\ deps'[q] = Top.order /\ observed'[q] = Top.seen /\ value'[q] = v /\ hasValue'[q]
      /\ verifiedAt'[q] = revision
      /\ \/ changedAt'[q] = revision
         \/ changedAt'[q] = changedAt[q] /\ value'[q] = value[q]
  BY <1>1, <1>2 DEF TypeOK
<1>6. \A k \in Keys : k # q =>
        /\ hasValue'[k] = hasValue[k] /\ value'[k] = value[k]
        /\ changedAt'[k] = changedAt[k] /\ verifiedAt'[k] = verifiedAt[k]
        /\ computing'[k] = computing[k] /\ deps'[k] = deps[k]
        /\ observed'[k] = observed[k]
  BY <1>1, <1>2 DEF TypeOK
<1>7. DOMAIN Top.seen = Before(Top.order, Len(Top.order) + 1) /\ DOMAIN Top.seen \subseteq Keys
  BY <1>1, <1>2 DEF ComputeOK, Seen
<1>8. Deps(q)' = DOMAIN Top.seen
  BY <1>5, <1>7 DEF Deps
<1>9. \A d \in DOMAIN Top.seen : UpToDate(d) /\ value[d] = Top.seen[d] /\ value'[d] = Top.seen[d]
  BY <1>2, <1>6, <1>7 DEF ComputeOK
<1>10. MemoOK(q)'
  <2>1. Run(q, Top.order, Top.seen) /\ DOMAIN Top.seen \subseteq slots'
    BY <1>1, <1>2, <1>7 DEF ComputeOK
  <2>2. Run(q, deps[q], observed[q])'
    BY <2>1, <1>5 DEF Run, ReadSoFar, Before
  <2> QED BY <2>1, <2>2, <1>3, <1>5, <1>8, <1>9 DEF MemoOK, Ret
<1>11. \A d \in Deps(q)' : UpToDate(d)
  BY <1>8, <1>9
<1>12. UNCHANGED <<revision, slots, readVars>> /\ stack' = Below /\ stack # <<>>
  BY <1>1
<1> QED
  <2> HIDE DEF IInv
  <2> QED BY <1>4, <1>5, <1>6, <1>10, <1>11, <1>12, PopStep

(***************************************************************************)
(* What a computation has read, after one more question and after one more *)
(* answer.                                                                 *)
(***************************************************************************)
LEMMA ReadAll ==
  ASSUME NEW order, NEW seen \in Seen, NEW n, DOMAIN seen = Before(order, n)
  PROVE  ReadSoFar(order, seen, n) = seen
BY DEF ReadSoFar, Seen

LEMMA BeforeStep ==
  ASSUME NEW order \in Seq(Keys), NEW k \in Keys
  PROVE  /\ Len(Append(order, k)) = Len(order) + 1 /\ Append(order, k)[Len(order) + 1] = k
         /\ \A n \in 1 .. Len(order) + 1 : Before(Append(order, k), n) = Before(order, n)
         /\ Before(Append(order, k), Len(order) + 2) = Before(order, Len(order) + 1) \cup {k}
<1>1. /\ Len(order) \in Nat /\ Len(Append(order, k)) = Len(order) + 1
      /\ Append(order, k)[Len(order) + 1] = k
      /\ \A j \in 1 .. Len(order) : Append(order, k)[j] = order[j]
  OBVIOUS
<1> PICK new : new = Append(order, k)
  OBVIOUS
<1>2. ASSUME NEW n \in 1 .. Len(order) + 1
      PROVE  Before(new, n) = Before(order, n)
  <2>1. \A j \in 1 .. n - 1 : new[j] = order[j]
    BY <1>1
  <2> QED BY <2>1 DEF Before
<1>3. Before(new, Len(order) + 2) = Before(order, Len(order) + 1) \cup {k}
  <2>1. 1 .. (Len(order) + 2) - 1 = (1 .. (Len(order) + 1) - 1) \cup {Len(order) + 1}
    BY <1>1
  <2>2. \A j \in 1 .. (Len(order) + 1) - 1 : new[j] = order[j]
    BY <1>1
  <2>3. new[Len(order) + 1] = k
    BY <1>1
  <2> QED BY <2>1, <2>2, <2>3 DEF Before
<1> QED BY <1>1, <1>2, <1>3

LEMMA RunAsk ==
  ASSUME NEW q, NEW order \in Seq(Keys), NEW seen \in Seen, NEW k \in Keys,
         DOMAIN seen = Before(order, Len(order) + 1), Run(q, order, seen),
         Instr(q, seen) = Get(k)
  PROVE  Run(q, Append(order, k), seen)
<1>1. Len(order) \in Nat
  OBVIOUS
<1> SUFFICES ASSUME NEW n \in 1 .. Len(order) + 1
             PROVE  Instr(q, ReadSoFar(Append(order, k), seen, n)) = Get(Append(order, k)[n])
  BY BeforeStep DEF Run
<1>2. ReadSoFar(Append(order, k), seen, n) = ReadSoFar(order, seen, n)
  BY BeforeStep DEF ReadSoFar
<1>3. CASE n = Len(order) + 1
  BY <1>2, <1>3, ReadAll, BeforeStep
<1>4. CASE n # Len(order) + 1
  <2>1. n \in 1 .. Len(order) /\ Append(order, k)[n] = order[n]
    BY <1>1, <1>4
  <2> QED BY <2>1, <1>2 DEF Run
<1> QED BY <1>3, <1>4

LEMMA RunReceive ==
  ASSUME NEW q, NEW order \in Seq(Keys), NEW seen \in Seen, NEW new, NEW k \in Keys,
         DOMAIN seen = Before(order, Len(order)), Run(q, order, seen), k \notin DOMAIN seen,
         \A d \in DOMAIN seen : new[d] = seen[d]
  PROVE  Run(q, order, new)
<1> SUFFICES ASSUME NEW n \in 1 .. Len(order)
             PROVE  Instr(q, ReadSoFar(order, new, n)) = Get(order[n])
  BY DEF Run
<1>1. Before(order, n) \subseteq Before(order, Len(order))
  <2>1. 1 .. n - 1 \subseteq 1 .. Len(order) - 1
    OBVIOUS
  <2> QED BY <2>1 DEF Before
<1>2. ReadSoFar(order, new, n) = ReadSoFar(order, seen, n)
  BY <1>1 DEF ReadSoFar
<1> QED BY <1>2 DEF Run

\* The key that a computation asks for is the last it has recorded.
LEMMA AskingKey ==
  ASSUME IInv, Asking
  PROVE  /\ stack # <<>> /\ Top.kind = "compute" /\ Top.asked /\ Len(Top.order) > 0
         /\ DOMAIN Top.seen = Before(Top.order, Len(Top.order))
         /\ NextInstr.key = Top.order[Len(Top.order)]
         /\ NextInstr.key \in Keys \ DOMAIN Top.seen
         /\ Top.seen \in Seen /\ Top.order \in Seq(Keys)
<1>1. stack # <<>> /\ Top.kind = "compute" /\ Top.asked /\ NextInstr.op = "get"
  BY DEF Asking, Running
<1>2. /\ Top.seen \in Seen /\ Top.order \in Seq(Keys)
      /\ NextInstr.key \in Keys \ DOMAIN Top.seen
      /\ Instr(Top.key, Top.seen) = Get(NextInstr.key)
  BY <1>1, InstrType DEF Asking, IInv, NextInstr
<1>3. ComputeOK(Top)
  BY <1>1, TopInv DEF FrameOK
<1>4. Len(Top.order) > 0 /\ DOMAIN Top.seen = Before(Top.order, Len(Top.order))
  BY <1>1, <1>3 DEF ComputeOK
<1>5. Len(Top.order) \in 1 .. Len(Top.order)
  BY <1>2, <1>4
<1>6. Instr(Top.key, Top.seen) = Get(Top.order[Len(Top.order)])
  <2>1. ReadSoFar(Top.order, Top.seen, Len(Top.order)) = Top.seen
    BY <1>2, <1>4, ReadAll
  <2> QED BY <2>1, <1>3, <1>5 DEF ComputeOK, Run
<1> QED BY <1>1, <1>2, <1>4, <1>6 DEF Get

LEMMA AskStep ==
  ASSUME IInv, TypeOK', Ask
  PROVE  IInv'
<1>1. CASE ctxDone
  BY <1>1, UnwindStep DEF Ask
<1>2. CASE ~ctxDone
  <2>1. /\ stack # <<>> /\ Top.kind = "compute" /\ ~Top.asked
        /\ Running("compute") /\ NextInstr.op = "get"
    BY DEF Ask, Running
  <2>2. PICK k \in Keys \ DOMAIN Top.seen :
          k = NextInstr.key /\ Instr(Top.key, Top.seen) = Get(k)
    BY <2>1, InstrType DEF IInv, NextInstr
  <2>3. PICK f : f = [Top EXCEPT !.asked = TRUE, !.order = Append(@, k)]
    OBVIOUS
  <2>4. /\ stack' = Append(Below, f) /\ slots' = slots \cup {k}
        /\ UNCHANGED <<revision, slotVars, readVars>>
    BY <1>2, <2>2, <2>3 DEF Ask
  <2>5. /\ Top \in Frames /\ Top.order \in Seq(Keys) /\ Top.seen \in Seen
        /\ Top.key \in Queries /\ ComputeOK(Top) /\ ~Fresh(Top.key)
    BY <2>1, TopInv, FrameFields DEF FrameOK
  <2>6. /\ f \in Frames /\ f.key = Top.key /\ f.kind = "compute" /\ f.asked
        /\ f.order = Append(Top.order, k) /\ f.seen = Top.seen
    <3>0. Append(Top.order, k) \in Seq(Keys)
      <4>1. Top.order \in Seq(Keys) /\ k \in Keys
        BY <2>5
      <4> HIDE DEF Keys
      <4> QED BY <4>1
    <3>1. PICK order \in Seq(Keys) : order = Append(Top.order, k)
      BY <3>0
    <3>2. f = [Top EXCEPT !.asked = TRUE, !.order = order]
      BY <2>3, <3>1
    <3> QED BY <2>1, <2>5, <3>1, <3>2 DEF Frames
  <2>7. /\ Len(stack') = Len(stack) /\ Top' = f
        /\ \A j \in 1 .. Len(stack) - 1 : stack'[j] = stack[j]
    BY <2>1, <2>4, <2>6, TopReplaced DEF IInv
  <2>8. /\ Len(f.order) = Len(Top.order) + 1 /\ Len(Top.order) \in Nat
        /\ DOMAIN f.seen = Before(f.order, Len(f.order))
        /\ Before(f.order, Len(f.order) + 1) = Before(Top.order, Len(Top.order) + 1) \cup {k}
    <3>1. DOMAIN Top.seen = Before(Top.order, Len(Top.order) + 1)
      BY <2>1, <2>5 DEF ComputeOK
    <3>2. Len(Top.order) \in Nat /\ Len(Top.order) + 1 \in 1 .. Len(Top.order) + 1
      BY <2>5
    <3> QED BY <3>1, <3>2, <2>5, <2>6, BeforeStep
  <2>9. Run(f.key, f.order, f.seen)
    BY <2>1, <2>2, <2>5, <2>6, RunAsk DEF ComputeOK
  <2>10. FrameOK(Top)'
    <3>1. /\ computing'[f.key] /\ Before(f.order, Len(f.order) + 1) \subseteq slots'
          /\ f.asked => Len(f.order) > 0
      BY <2>4, <2>5, <2>6, <2>8 DEF ComputeOK, slotVars
    <3>2. \A d \in DOMAIN f.seen : UpToDate(d)' /\ value'[d] = f.seen[d]
      BY <2>4, <2>5, <2>6 DEF ComputeOK, UpToDate, Fresh, slotVars
    <3>3. ComputeOK(Top)'
      BY <2>6, <2>7, <2>8, <2>9, <3>1, <3>2 DEF ComputeOK
    <3>4. ~Fresh(Top.key)'
      BY <2>4, <2>5, <2>6, <2>7 DEF Fresh, slotVars
    <3> QED BY <2>6, <2>7, <3>3, <3>4 DEF FrameOK
  <2>11. ASSUME NEW i \in 1 .. Len(stack) - 1, stack[i].key = Top.key
         PROVE  FALSE
    BY <2>1, <2>11, InnerIsBehind
  <2> QED BY <2>1, <2>4, <2>6, <2>7, <2>10, <2>11, ReplaceStep DEF slotVars
<1> QED BY <1>1, <1>2

LEMMA ReceiveStep ==
  ASSUME IInv, TypeOK', Receive
  PROVE  IInv'
<1>1. PICK k \in Keys \ DOMAIN Top.seen : k = NextInstr.key
  BY AskingKey DEF Receive
<1>2. PICK new : new = [d \in DOMAIN Top.seen \cup {k} |->
                          IF d = k THEN value[k] ELSE Top.seen[d]]
  OBVIOUS
<1>3. PICK f : f = [Top EXCEPT !.asked = FALSE, !.seen = new]
  OBVIOUS
<1>4. /\ stack # <<>> /\ Top.kind = "compute" /\ Top.asked /\ Len(Top.order) > 0
      /\ DOMAIN Top.seen = Before(Top.order, Len(Top.order))
      /\ k = Top.order[Len(Top.order)]
      /\ Top.seen \in Seen /\ Top.order \in Seq(Keys)
  BY <1>1, AskingKey DEF Receive
<1>5. /\ stack' = Append(Below, f) /\ UpToDate(k)
      /\ UNCHANGED <<revision, slots, slotVars, readVars>>
  BY <1>1, <1>2, <1>3 DEF Receive
<1>6. /\ Top \in Frames /\ Top.key \in Queries /\ ComputeOK(Top) /\ ~Fresh(Top.key)
  BY <1>4, TopInv, FrameFields DEF FrameOK
<1>7. new \in Seen
  <2>1. value[k] \in Values
    BY DEF IInv, TypeOK
  <2> QED BY <1>2, <1>4, <2>1, SeenExtend
<1>8. /\ f \in Frames /\ f.key = Top.key /\ f.kind = "compute" /\ ~f.asked
      /\ f.order = Top.order /\ f.seen = new
  BY <1>3, <1>4, <1>6, <1>7 DEF Frames
<1>9. /\ Len(stack') = Len(stack) /\ Top' = f
      /\ \A j \in 1 .. Len(stack) - 1 : stack'[j] = stack[j]
  BY <1>4, <1>5, <1>8, TopReplaced DEF IInv
<1>10. DOMAIN new = Before(Top.order, Len(Top.order) + 1)
  <2>1. 1 .. (Len(Top.order) + 1) - 1 = (1 .. Len(Top.order) - 1) \cup {Len(Top.order)}
    BY <1>4
  <2>2. Before(Top.order, Len(Top.order) + 1) = Before(Top.order, Len(Top.order)) \cup {k}
    BY <1>4, <2>1 DEF Before
  <2> QED BY <1>2, <1>4, <2>2
<1>11. Run(Top.key, Top.order, new)
  <2>1. \A d \in DOMAIN Top.seen : new[d] = Top.seen[d]
    BY <1>1, <1>2
  <2> QED BY <1>4, <1>6, <2>1, RunReceive DEF ComputeOK
<1>12. FrameOK(Top)'
  <2>1. computing'[f.key] /\ Before(f.order, Len(f.order) + 1) \subseteq slots'
    BY <1>5, <1>6, <1>8 DEF ComputeOK, slotVars
  <2>2. \A d \in DOMAIN f.seen : UpToDate(d)' /\ value'[d] = f.seen[d]
    <3>1. \A d \in DOMAIN f.seen : UpToDate(d) /\ value[d] = f.seen[d]
      BY <1>2, <1>5, <1>6, <1>8 DEF ComputeOK
    <3> QED BY <1>5, <3>1 DEF UpToDate, Fresh, slotVars
  <2>3. ComputeOK(Top)'
    BY <1>8, <1>9, <1>10, <1>11, <2>1, <2>2 DEF ComputeOK
  <2>4. ~Fresh(Top.key)'
    BY <1>5, <1>6, <1>8, <1>9 DEF Fresh, slotVars
  <2> QED BY <1>8, <1>9, <2>3, <2>4 DEF FrameOK
<1>13. ASSUME NEW i \in 1 .. Len(stack) - 1, stack[i].key = Top.key
       PROVE  FALSE
  BY <1>4, <1>13, InnerIsBehind
<1> QED BY <1>4, <1>5, <1>8, <1>9, <1>12, <1>13, ReplaceStep DEF slotVars
-----------------------------------------------------------------------------
(***************************************************************************)
(* Every step preserves the invariant.                                     *)
(***************************************************************************)
LEMMA NextInv == IInv /\ [Next]_vars => IInv'
<1> SUFFICES ASSUME IInv, [Next]_vars PROVE IInv'
  OBVIOUS
<1>0. TypeOK'
  BY NextType DEF IInv
<1>1. ASSUME NEW i \in Inputs, NEW v \in Values, Set(i, v)
      PROVE  IInv'
  BY <1>0, <1>1, SetStep
<1>2. CASE Begin \/ Cancel \/ End
  <2>1. LockInv'
    BY <1>2 DEF Begin, Cancel, End, IInv, LockInv
  <2> QED BY <1>0, <1>2, <2>1, SessionStep DEF Begin, Cancel, End
<1>3. ASSUME NEW k \in Keys, RootGet(k)
      PROVE  IInv'
  <2>1. CASE ctxDone
    BY <1>3, <2>1, UnwindStep DEF RootGet
  <2>2. CASE ~ctxDone
    <3>1. /\ LockInv' /\ slots \subseteq slots'
          /\ UNCHANGED <<revision, slotVars, stack>>
      BY <1>3, <2>2, KeysAssumption DEF RootGet, IInv, LockInv
    <3> QED BY <1>0, <3>1, SessionStep
  <2> QED BY <2>1, <2>2
<1>4. CASE RootFreshen
  <2>1. root \in Queries /\ ~Fresh(root)
    BY <1>4, NotUpToDate DEF RootFreshen, IInv, TypeOK
  <2> QED BY <1>4, <2>1, FreshenStep DEF RootFreshen
<1>5. CASE RootReturn
  <2>1. LockInv' /\ UNCHANGED <<revision, slots, slotVars, stack>>
    BY <1>5 DEF RootReturn, IInv, LockInv
  <2> QED BY <1>0, <2>1, SessionStep
<1>6. CASE VerifyDescend
  <2>1. /\ stack # <<>> /\ Top.kind = "verify" /\ Top.at <= Len(deps[Top.key])
        /\ Dep \in Keys /\ ~UpToDate(Dep) /\ Freshen(Dep, stack)
    BY <1>6, DepType DEF VerifyDescend, MoreDeps, IInv
  <2>2. Dep \in Queries /\ ~Fresh(Dep)
    BY <2>1, NotUpToDate
  <2>3. WaitsFor(Top, Dep) /\ root # None
    BY <2>1 DEF WaitsFor, Dep, IInv, LockInv
  <2> QED BY <2>1, <2>2, <2>3, FreshenStep
<1>7. CASE VerifyNext
  BY <1>0, <1>7, VerifyNextStep
<1>8. CASE Recompute
  BY <1>0, <1>8, RecomputeStep
<1>9. CASE VerifyDone
  BY <1>0, <1>9, VerifyDoneStep
<1>10. CASE Ask
  BY <1>0, <1>10, AskStep
<1>11. CASE AskDescend
  <2>1. /\ stack # <<>> /\ Top.kind = "compute" /\ Top.asked
        /\ NextInstr.key = Top.order[Len(Top.order)] /\ NextInstr.key \in Keys
    BY <1>11, AskingKey DEF AskDescend
  <2>2. NextInstr.key \in Queries /\ ~Fresh(NextInstr.key) /\ Freshen(NextInstr.key, stack)
    BY <1>11, <2>1, NotUpToDate DEF AskDescend
  <2>3. WaitsFor(Top, NextInstr.key) /\ root # None
    BY <2>1 DEF WaitsFor, IInv, LockInv
  <2> QED BY <2>1, <2>2, <2>3, FreshenStep
<1>12. CASE Receive
  BY <1>0, <1>12, ReceiveStep
<1>13. CASE ComputePanic
  BY <1>13, UnwindStep DEF ComputePanic
<1>14. CASE ComputeDone
  BY <1>0, <1>14, ComputeDoneStep
<1>15. CASE UNCHANGED vars
  <2>1. UNCHANGED <<revision, slots, slotVars, stack, readVars>>
    BY <1>15 DEF vars
  <2>2. LockInv'
    BY <2>1 DEF readVars, LockInv, IInv
  <2> QED BY <1>0, <2>1, <2>2, SessionStep
<1> QED
  BY <1>1, <1>2, <1>3, <1>4, <1>5, <1>6, <1>7, <1>8, <1>9, <1>10, <1>11,
     <1>12, <1>13, <1>14, <1>15 DEF Next, Work

THEOREM Invariance == Spec => []IInv
BY InitInv, NextInv, PTL DEF Spec

(***************************************************************************)
(* A memo that passes for current is what its compute function makes of    *)
(* the present values of its dependencies, which are current themselves:   *)
(* ensureFresh never keeps a stale result, whatever the queries read and   *)
(* however their recursion was cut short.                                  *)
(***************************************************************************)
LEMMA CurrentMemos == IInv => FreshMemosAreCurrent
<1> SUFFICES ASSUME IInv, NEW q \in Queries, Fresh(q) PROVE MemoIsCurrent(q)
  BY DEF FreshMemosAreCurrent
<1>1. MemoOK(q) /\ \A d \in Deps(q) : UpToDate(d)
  BY DEF IInv, MemoInv, FreshInv, Fresh
<1>2. /\ deps[q] \in Seq(Keys) /\ observed[q] \in Seen /\ verifiedAt[q] = revision
      /\ Len(deps[q]) \in Nat
  BY DEF IInv, TypeOK, Keys, Fresh
<1>3. \A d \in Deps(q) : value[d] = observed[q][d]
  <2>1. \A d \in Deps(q) : d \in Keys
    BY <1>2 DEF Deps, Before
  <2> QED BY <1>1, <1>2, <2>1 DEF MemoOK, IInv, StampInv
<1>4. ASSUME NEW n \in 1 .. Len(deps[q]) + 1
      PROVE  ReadSoFar(deps[q], value, n) = ReadSoFar(deps[q], observed[q], n)
  <2>1. 1 .. n - 1 \subseteq 1 .. (Len(deps[q]) + 1) - 1
    BY <1>2
  <2>2. Before(deps[q], n) \subseteq Deps(q)
    BY <2>1 DEF Before, Deps
  <2> QED BY <1>3, <2>2 DEF ReadSoFar
<1>5. Run(q, deps[q], value)
  <2> SUFFICES ASSUME NEW n \in 1 .. Len(deps[q])
               PROVE  Instr(q, ReadSoFar(deps[q], value, n)) = Get(deps[q][n])
    BY DEF Run
  <2>1. n \in 1 .. Len(deps[q]) + 1
    BY <1>2
  <2>2. Instr(q, ReadSoFar(deps[q], observed[q], n)) = Get(deps[q][n])
    BY <1>1 DEF MemoOK, Run
  <2> QED BY <1>4, <2>1, <2>2
<1>6. Instr(q, ReadSoFar(deps[q], value, Len(deps[q]) + 1)) = Ret(value[q])
  <2>1. Len(deps[q]) + 1 \in 1 .. Len(deps[q]) + 1
    BY <1>2
  <2>2. ReadSoFar(deps[q], observed[q], Len(deps[q]) + 1) = observed[q]
    BY <1>1, <1>2, ReadAll DEF MemoOK, Deps
  <2> QED BY <1>1, <1>4, <2>1, <2>2 DEF MemoOK
<1>7. \A n \in 1 .. Len(deps[q]) : UpToDate(deps[q][n])
  <2>1. \A n \in 1 .. Len(deps[q]) : deps[q][n] \in Deps(q)
    BY <1>2 DEF Deps, Before
  <2> QED BY <1>1, <2>1
<1> QED BY <1>5, <1>6, <1>7 DEF MemoIsCurrent

THEOREM FreshIsCurrent == Spec => []FreshMemosAreCurrent
BY Invariance, CurrentMemos, PTL
-----------------------------------------------------------------------------
(***************************************************************************)
(* The answer to a read stays the right one until an input is set.         *)
(***************************************************************************)
AInv == IInv /\ AnswersAreCurrent

LEMMA InitAnswers == Init => AInv
<1> SUFFICES ASSUME Init PROVE AnswersAreCurrent
  BY InitInv DEF AInv
<1> QED BY DEF Init, AnswersAreCurrent, NoOutcome

\* Within a revision a slot that is up to date is left as it is.
LEMMA SettledSlots ==
  ASSUME IInv, [Next]_vars, revision' = revision, NEW k \in Keys, UpToDate(k)
  PROVE  UpToDate(k)' /\ value'[k] = value[k]
<1> USE KeysAssumption DEF IInv
<1>1. CASE UNCHANGED <<revision, hasValue, value, verifiedAt>>
  BY <1>1 DEF UpToDate, Fresh
<1>2. CASE VerifyDone
  <2>1. /\ verifiedAt' = [verifiedAt EXCEPT ![Top.key] = revision]
        /\ UNCHANGED <<revision, hasValue, value>>
    BY <1>2 DEF VerifyDone
  <2>2. verifiedAt' \in [Keys -> 0 .. MaxRevision] /\ verifiedAt \in [Keys -> 0 .. MaxRevision]
    BY NextType DEF TypeOK
  <2>3. verifiedAt'[k] = revision \/ verifiedAt'[k] = verifiedAt[k]
    BY <2>1, <2>2
  <2> QED BY <2>1, <2>3 DEF UpToDate, Fresh
<1>3. CASE ComputeDone
  <2>1. Top.key \in Queries /\ ~Fresh(Top.key)
    BY <1>3, TopInv DEF ComputeDone, Running, FrameOK
  <2>2. k # Top.key
    BY <2>1 DEF UpToDate
  <2>3. /\ verifiedAt'[k] = verifiedAt[k] /\ hasValue'[k] = hasValue[k]
        /\ value'[k] = value[k]
    BY <1>3, <2>1, <2>2 DEF ComputeDone, TypeOK, Keys
  <2> QED BY <2>3 DEF UpToDate, Fresh
<1>4. ASSUME NEW i \in Inputs, NEW v \in Values, Set(i, v)
      PROVE  FALSE
  BY <1>4 DEF Set, TypeOK
<1>5. ASSUME NEW q, NEW outer, Freshen(q, outer)
      PROVE  UNCHANGED <<revision, hasValue, value, verifiedAt>>
  BY <1>5 DEF Freshen, Unwind, slotVars
<1>6. CASE UNCHANGED vars
  BY <1>1, <1>6 DEF vars, slotVars
<1>7. CASE Begin \/ Cancel \/ End \/ (\E d \in Keys : RootGet(d)) \/ RootReturn
  BY <1>1, <1>7 DEF Begin, Cancel, End, RootGet, RootReturn, Unwind, slotVars
<1>8. CASE VerifyNext \/ Recompute \/ Ask \/ Receive \/ ComputePanic
  BY <1>1, <1>8 DEF VerifyNext, Recompute, Ask, Receive, ComputePanic, Unwind, slotVars
<1>9. CASE RootFreshen \/ VerifyDescend \/ AskDescend
  BY <1>1, <1>5, <1>9 DEF RootFreshen, VerifyDescend, AskDescend
<1> QED BY <1>2, <1>3, <1>4, <1>6, <1>7, <1>8, <1>9 DEF Next, Work

LEMMA NextAnswers == AInv /\ [Next]_vars => AInv'
<1> SUFFICES ASSUME IInv, AnswersAreCurrent, [Next]_vars PROVE AnswersAreCurrent'
  BY NextInv DEF AInv
<1>1. CASE UNCHANGED <<revision, outcome>>
  <2> SUFFICES ASSUME outcome.kind = "value"
               PROVE  UpToDate(outcome.key)' /\ outcome.val = value'[outcome.key]
    BY <1>1 DEF AnswersAreCurrent
  <2>1. PICK k \in Keys : k = outcome.key
    BY DEF IInv, TypeOK, Outcomes, NoOutcome
  <2>2. UpToDate(k) /\ outcome.val = value[k]
    BY <2>1 DEF AnswersAreCurrent
  <2>3. UpToDate(k)' /\ value'[k] = value[k]
    BY <1>1, <2>2, SettledSlots
  <2> QED BY <1>1, <2>1, <2>2, <2>3
<1>2. ASSUME NEW kind \in {"cycle", "canceled", "panic"}, Unwind(kind)
      PROVE  AnswersAreCurrent'
  <2>1. outcome'.kind = kind
    BY <1>2 DEF Unwind
  <2> QED BY <2>1 DEF AnswersAreCurrent
<1>3. ASSUME NEW i \in Inputs, NEW v \in Values, Set(i, v)
      PROVE  AnswersAreCurrent'
  BY <1>3 DEF Set, AnswersAreCurrent, NoOutcome
<1>4. CASE RootReturn
  <2>1. /\ UpToDate(root) /\ outcome' = [kind |-> "value", key |-> root, val |-> value[root]]
        /\ UNCHANGED <<revision, slotVars>>
    BY <1>4 DEF RootReturn
  <2> QED BY <2>1 DEF AnswersAreCurrent, UpToDate, Fresh, slotVars
<1>5. ASSUME NEW q, NEW outer, Freshen(q, outer)
      PROVE  AnswersAreCurrent'
  <2>1. CASE computing[q]
    BY <1>2, <1>5, <2>1 DEF Freshen
  <2>2. CASE ~computing[q]
    BY <1>1, <1>5, <2>2 DEF Freshen, readVars
  <2> QED BY <2>1, <2>2
<1>6. CASE UNCHANGED vars
  BY <1>1, <1>6 DEF vars, readVars
<1>7. CASE Begin \/ Cancel \/ End
  BY <1>1, <1>7 DEF Begin, Cancel, End
<1>8. ASSUME NEW k \in Keys, RootGet(k)
      PROVE  AnswersAreCurrent'
  BY <1>1, <1>2, <1>8 DEF RootGet
<1>9. CASE VerifyNext \/ Recompute \/ VerifyDone \/ Receive \/ ComputeDone
  BY <1>1, <1>9 DEF VerifyNext, Recompute, VerifyDone, Receive, ComputeDone, readVars
<1>10. CASE Ask
  BY <1>1, <1>2, <1>10 DEF Ask, readVars
<1>11. CASE ComputePanic
  BY <1>2, <1>11 DEF ComputePanic
<1>12. CASE RootFreshen \/ VerifyDescend \/ AskDescend
  BY <1>5, <1>12 DEF RootFreshen, VerifyDescend, AskDescend
<1> QED BY <1>3, <1>4, <1>6, <1>7, <1>8, <1>9, <1>10, <1>11, <1>12 DEF Next, Work

THEOREM AnswersCurrent == Spec => []AnswersAreCurrent
<1>1. AInv => AnswersAreCurrent
  BY DEF AInv
<1> QED BY <1>1, InitAnswers, NextAnswers, PTL DEF Spec
-----------------------------------------------------------------------------
(***************************************************************************)
(* How much work Salsa does, for any inputs, queries, values and pure      *)
(* compute functions: a memo that was current before an edit is recomputed *)
(* only if the edit reaches it, and the recursion that finds this out is   *)
(* bounded although nothing guards a verification against meeting itself.  *)
(***************************************************************************)
\* What the steps that touch a slot change of it.
LEMMA SlotSteps ==
  ASSUME IInv, [Next]_vars
  PROVE  \/ UNCHANGED <<revision, hasValue, value, changedAt, verifiedAt, deps, observed>>
         \/ VerifyDone \/ ComputeDone
         \/ \E i \in Inputs, v \in Values : Set(i, v)
<1>1. CASE UNCHANGED vars
  BY <1>1 DEF vars, slotVars
<1>2. CASE Begin \/ Cancel \/ End \/ (\E d \in Keys : RootGet(d)) \/ RootReturn
  BY <1>2 DEF Begin, Cancel, End, RootGet, RootReturn, Unwind, slotVars
<1>3. CASE VerifyNext \/ Recompute \/ Ask \/ Receive \/ ComputePanic
  BY <1>3 DEF VerifyNext, Recompute, Ask, Receive, ComputePanic, Unwind, slotVars
<1>4. CASE RootFreshen \/ VerifyDescend \/ AskDescend
  BY <1>4 DEF RootFreshen, VerifyDescend, AskDescend, Freshen, Unwind, slotVars
<1> QED BY <1>1, <1>2, <1>3, <1>4 DEF Next, Work

LEMMA DepsAreKeys ==
  ASSUME TypeOK, NEW q \in Queries
  PROVE  Deps(q) \subseteq Keys /\ q \in Keys
<1>1. q \in Keys /\ deps[q] \in Seq(Keys)
  BY DEF TypeOK, Keys
<1> QED BY <1>1 DEF Deps, Before

LEMMA RevisionType ==
  ASSUME TypeOK
  PROVE  revision \in Nat /\ \A k \in Keys : changedAt[k] \in Nat /\ verifiedAt[k] \in Nat
<1>1. 0 .. MaxRevision \subseteq Nat
  BY MaxRevisionAssumption
<1> QED BY <1>1 DEF TypeOK

\* The result of the innermost computation.
LEMMA ComputeResult ==
  ASSUME IInv, ComputeDone
  PROVE  \E q \in Queries, v \in Values :
           /\ q = Top.key /\ Top.kind = "compute" /\ ~UpToDate(q) /\ ComputeOK(Top)
           /\ deps' = [deps EXCEPT ![q] = Top.order]
           /\ observed' = [observed EXCEPT ![q] = Top.seen]
           /\ verifiedAt' = [verifiedAt EXCEPT ![q] = revision]
           /\ changedAt' = IF hasValue[q] /\ value[q] = v
                             THEN changedAt ELSE [changedAt EXCEPT ![q] = revision]
           /\ value' = [value EXCEPT ![q] = v]
           /\ hasValue' = [hasValue EXCEPT ![q] = TRUE]
           /\ revision' = revision
           /\ Deps(q)' = DOMAIN Top.seen
           /\ \A d \in DOMAIN Top.seen : d \in Keys /\ UpToDate(d) /\ value[d] = Top.seen[d]
<1> USE DEF IInv
<1> PICK q \in Queries : q = Top.key
  BY TopInv DEF ComputeDone, Running
<1> PICK v \in Values : v = NextInstr.val
  BY InstrType DEF ComputeDone
<1>1. /\ stack # <<>> /\ Top.kind = "compute" /\ ~Top.asked
      /\ deps' = [deps EXCEPT ![q] = Top.order]
      /\ observed' = [observed EXCEPT ![q] = Top.seen]
      /\ verifiedAt' = [verifiedAt EXCEPT ![q] = revision]
      /\ changedAt' = IF hasValue[q] /\ value[q] = v
                        THEN changedAt ELSE [changedAt EXCEPT ![q] = revision]
      /\ value' = [value EXCEPT ![q] = v]
      /\ hasValue' = [hasValue EXCEPT ![q] = TRUE]
      /\ revision' = revision
  BY DEF ComputeDone, Stamp, Running
<1>2. /\ q \in Keys /\ ComputeOK(Top) /\ ~UpToDate(q) /\ Top.seen \in Seen
  BY <1>1, TopInv, FrameFields, KeysAssumption DEF FrameOK, Keys, UpToDate
<1>3. DOMAIN Top.seen = Before(Top.order, Len(Top.order) + 1) /\ DOMAIN Top.seen \subseteq Keys
  BY <1>1, <1>2 DEF ComputeOK, Seen
<1>4. deps'[q] = Top.order
  BY <1>1, <1>2 DEF TypeOK
<1>5. Deps(q)' = DOMAIN Top.seen
  BY <1>3, <1>4 DEF Deps
<1>6. \A d \in DOMAIN Top.seen : d \in Keys /\ UpToDate(d) /\ value[d] = Top.seen[d]
  BY <1>2, <1>3 DEF ComputeOK
<1> QED BY <1>1, <1>2, <1>5, <1>6
-----------------------------------------------------------------------------
(***************************************************************************)
(* Minimal recomputation.  An input without a value holds the zero value;  *)
(* a query's value is never younger than its verification; the queries a   *)
(* memo depends on are memoized; and a dependency that changed in this     *)
(* revision, under a memo last verified in the one before, differs from    *)
(* what the memo was computed from.                                        *)
(***************************************************************************)
MinInv ==
  /\ \A i \in Inputs : ~hasValue[i] => value[i] = Zero
  /\ \A q \in Queries : changedAt[q] <= verifiedAt[q]
  /\ \A q \in Queries : hasValue[q] => \A d \in Deps(q) \cap Queries : hasValue[d]
  /\ \A q \in Queries : hasValue[q] /\ verifiedAt[q] + 1 = revision =>
       \A d \in Deps(q) :
         changedAt[d] = revision =>
           \/ value[d] # observed[q][d]
           \/ d \in Inputs /\ value[d] = Zero

LEMMA InitMin == Init => MinInv
BY MaxRevisionAssumption DEF Init, MinInv, Keys

LEMMA MinSet ==
  ASSUME IInv, MinInv, IInv', NEW i \in Inputs, NEW v \in Values, Set(i, v)
  PROVE  MinInv'
<1> USE KeysAssumption DEF IInv
<1>0. /\ revision \in Nat /\ i \in Keys
      /\ \A k \in Keys : changedAt[k] \in Nat /\ verifiedAt[k] \in Nat
  BY RevisionType DEF Keys
<1>1. /\ ~(hasValue[i] /\ value[i] = v) /\ revision' = revision + 1
      /\ hasValue' = [hasValue EXCEPT ![i] = TRUE] /\ value' = [value EXCEPT ![i] = v]
      /\ changedAt' = [changedAt EXCEPT ![i] = revision + 1]
      /\ UNCHANGED <<verifiedAt, deps, observed>>
  BY DEF Set
<1>2. \A k \in Keys : k # i => /\ hasValue'[k] = hasValue[k] /\ value'[k] = value[k]
                               /\ changedAt'[k] = changedAt[k]
  BY <1>1 DEF TypeOK
<1>3. hasValue'[i] /\ value'[i] = v
  BY <1>0, <1>1 DEF TypeOK
<1>4. \A q \in Queries : q \in Keys /\ q # i /\ Deps(q)' = Deps(q) /\ Deps(q) \subseteq Keys
  BY <1>1, DepsAreKeys DEF Deps
<1>5. \A j \in Inputs : ~hasValue'[j] => value'[j] = Zero
  BY <1>2, <1>3 DEF MinInv, Keys
<1>6. \A q \in Queries : changedAt'[q] <= verifiedAt'[q]
  BY <1>1, <1>2, <1>4 DEF MinInv
<1>7. ASSUME NEW q \in Queries, hasValue'[q], NEW d \in Deps(q) \cap Queries
      PROVE  hasValue'[d]
  BY <1>2, <1>4, <1>7 DEF MinInv
<1>8. ASSUME NEW q \in Queries, hasValue'[q], verifiedAt'[q] + 1 = revision', NEW d \in Deps(q),
             changedAt'[d] = revision'
      PROVE  value'[d] # observed'[q][d] \/ (d \in Inputs /\ value'[d] = Zero)
  <2>1. verifiedAt[q] = revision /\ hasValue[q] /\ d \in Keys
    BY <1>0, <1>1, <1>2, <1>4, <1>8
  <2>2. d = i
    BY <1>0, <1>1, <1>2, <1>8, <2>1 DEF StampInv
  <2>3. value[d] = observed[q][d]
    <3>1. changedAt[d] <= verifiedAt[q]
      BY <2>1 DEF StampInv
    <3>2. MemoOK(q)
      BY <2>1 DEF MemoInv
    <3> QED BY <3>1, <3>2 DEF MemoOK
  <2>4. hasValue[i] \/ value[i] = Zero
    BY DEF MinInv
  <2> QED BY <1>1, <1>3, <2>2, <2>3, <2>4
<1> QED BY <1>4, <1>5, <1>6, <1>7, <1>8 DEF MinInv

LEMMA MinCompute ==
  ASSUME IInv, MinInv, IInv', ComputeDone
  PROVE  MinInv'
<1> USE KeysAssumption DEF IInv
<1>1. PICK q \in Queries, v \in Values :
           /\ q = Top.key /\ Top.kind = "compute" /\ ~UpToDate(q) /\ ComputeOK(Top)
           /\ deps' = [deps EXCEPT ![q] = Top.order]
           /\ observed' = [observed EXCEPT ![q] = Top.seen]
           /\ verifiedAt' = [verifiedAt EXCEPT ![q] = revision]
           /\ changedAt' = IF hasValue[q] /\ value[q] = v
                             THEN changedAt ELSE [changedAt EXCEPT ![q] = revision]
           /\ value' = [value EXCEPT ![q] = v]
           /\ hasValue' = [hasValue EXCEPT ![q] = TRUE]
           /\ revision' = revision
           /\ Deps(q)' = DOMAIN Top.seen
           /\ \A d \in DOMAIN Top.seen : d \in Keys /\ UpToDate(d) /\ value[d] = Top.seen[d]
  BY ComputeResult
<1>2. /\ revision \in Nat /\ q \in Keys /\ q \notin Inputs
      /\ \A k \in Keys : changedAt[k] \in Nat /\ verifiedAt[k] \in Nat
  BY RevisionType DEF Keys
<1>3. \A k \in Keys : k # q => /\ hasValue'[k] = hasValue[k] /\ value'[k] = value[k]
                               /\ changedAt'[k] = changedAt[k] /\ verifiedAt'[k] = verifiedAt[k]
                               /\ observed'[k] = observed[k] /\ deps'[k] = deps[k]
  BY <1>1 DEF TypeOK
<1>4. hasValue'[q] /\ value'[q] = v /\ verifiedAt'[q] = revision
  BY <1>1, <1>2 DEF TypeOK
<1>5. \A r \in Queries : r # q => Deps(r)' = Deps(r) /\ Deps(r) \subseteq Keys /\ r \in Keys
  BY <1>3, DepsAreKeys DEF Deps, Keys
<1>6. \A j \in Inputs : ~hasValue'[j] => value'[j] = Zero
  BY <1>2, <1>3 DEF MinInv, Keys
<1>7. ASSUME NEW r \in Queries
      PROVE  changedAt'[r] <= verifiedAt'[r]
  <2>1. CASE r = q
    <3>1. changedAt'[q] <= revision'
      BY <1>2 DEF StampInv
    <3> QED BY <2>1, <3>1, <1>1, <1>4
  <2>2. CASE r # q
    BY <2>2, <1>3, <1>5 DEF MinInv
  <2> QED BY <2>1, <2>2
<1>8. ASSUME NEW r \in Queries, hasValue'[r], NEW d \in Deps(r)', d \in Queries
      PROVE  hasValue'[d]
  <2>1. CASE r = q
    <3>1. d \in Keys /\ UpToDate(d)
      BY <1>1, <1>8, <2>1
    <3>2. hasValue[d]
      BY <3>1, <1>8 DEF UpToDate, Fresh
    <3> QED BY <3>1, <3>2, <1>3, <1>4
  <2>2. CASE r # q
    BY <2>2, <1>8, <1>3, <1>4, <1>5 DEF MinInv
  <2> QED BY <2>1, <2>2
<1>9. ASSUME NEW r \in Queries, hasValue'[r], verifiedAt'[r] + 1 = revision, NEW d \in Deps(r)',
             changedAt'[d] = revision
      PROVE  value'[d] # observed'[r][d] \/ (d \in Inputs /\ value'[d] = Zero)
  <2>1. r # q
    BY <1>2, <1>4, <1>9
  <2>2. hasValue[r] /\ verifiedAt[r] + 1 = revision /\ d \in Deps(r) /\ d \in Keys
        /\ observed'[r] = observed[r]
    BY <2>1, <1>3, <1>5, <1>9
  <2>3. CASE d # q
    <3>1. changedAt[d] = revision /\ value'[d] = value[d]
      BY <2>2, <2>3, <1>3, <1>9
    <3>2. value[d] # observed[r][d] \/ (d \in Inputs /\ value[d] = Zero)
      BY <2>2, <3>1 DEF MinInv
    <3> QED BY <2>2, <3>1, <3>2
  <2>4. CASE d = q
    <3>1. hasValue[q]
      BY <2>2, <2>4 DEF MinInv
    <3>2. changedAt[q] < revision
      BY <3>1, <1>1, <1>2 DEF MinInv, UpToDate, Fresh, StampInv
    <3>3. value[q] # v
      BY <3>1, <3>2, <1>1, <1>2, <1>9, <2>4
    <3>4. value[q] = observed[r][q]
      <4>1. changedAt[q] <= verifiedAt[r]
        BY <3>2, <2>2, <1>2, <1>5, <2>1
      <4>2. MemoOK(r)
        BY <2>2 DEF MemoInv
      <4> QED BY <4>1, <4>2, <2>2, <2>4 DEF MemoOK
    <3> QED BY <3>3, <3>4, <1>4, <2>2, <2>4
  <2> QED BY <2>3, <2>4
<1> QED BY <1>1, <1>6, <1>7, <1>8, <1>9 DEF MinInv

LEMMA MinVerify ==
  ASSUME IInv, MinInv, IInv', VerifyDone
  PROVE  MinInv'
<1> USE KeysAssumption DEF IInv
<1>1. PICK q \in Queries : /\ q = Top.key
                           /\ verifiedAt' = [verifiedAt EXCEPT ![q] = revision]
  BY TopInv DEF VerifyDone, Running
<1>2. UNCHANGED <<revision, hasValue, value, changedAt, deps, observed>>
  BY DEF VerifyDone
<1>3. /\ revision \in Nat /\ q \in Keys
      /\ \A k \in Keys : changedAt[k] \in Nat /\ verifiedAt[k] \in Nat
      /\ \A k \in Keys : k # q => verifiedAt'[k] = verifiedAt[k]
      /\ verifiedAt'[q] = revision
  <2>1. /\ revision \in Nat /\ q \in Keys
        /\ \A k \in Keys : changedAt[k] \in Nat /\ verifiedAt[k] \in Nat
    BY RevisionType DEF Keys
  <2> QED BY <1>1, <2>1 DEF TypeOK
<1>4. \A r \in Queries : changedAt[r] <= verifiedAt'[r]
  BY <1>3 DEF MinInv, StampInv, Keys
<1>5. \A r \in Queries : verifiedAt'[r] + 1 = revision => verifiedAt[r] + 1 = revision
  BY <1>3 DEF Keys
<1>6. \A r \in Queries : Deps(r)' = Deps(r)
  BY <1>2 DEF Deps
<1> QED BY <1>2, <1>4, <1>5, <1>6 DEF MinInv

LEMMA NextMin ==
  ASSUME IInv, MinInv, IInv', [Next]_vars
  PROVE  MinInv'
<1>1. CASE UNCHANGED <<revision, hasValue, value, changedAt, verifiedAt, deps, observed>>
  BY <1>1 DEF MinInv, Deps, Before
<1> QED BY <1>1, SlotSteps, MinSet, MinCompute, MinVerify

LEMMA RecomputeHasReason ==
  ASSUME IInv, MinInv, Recompute, verifiedAt[Top.key] + 1 = revision
  PROVE  \E d \in DOMAIN observed[Top.key] :
          \/ value[d] # observed[Top.key][d]
          \/ d \in Inputs /\ changedAt[d] = revision /\ value[d] = Zero
<1> USE DEF IInv
<1> PICK q \in Queries : q = Top.key
  BY TopInv DEF Recompute, MoreDeps, Running
<1>1. Dep \in Deps(q) /\ Dep \in Keys /\ changedAt[Dep] \in Nat /\ verifiedAt[q] \in Nat
  BY DepType DEF Recompute
<1>2. hasValue[q] /\ MemoOK(q)
  BY TopInv DEF Recompute, MoreDeps, Running, FrameOK, VerifyOK, MemoInv
<1>3. changedAt[Dep] > verifiedAt[q]
  BY <1>1, <1>2 DEF Recompute, DepChanged, MemoOK
<1>4. changedAt[Dep] = revision
  BY <1>1, <1>3, MaxRevisionAssumption DEF StampInv, TypeOK
<1> QED BY <1>1, <1>2, <1>4 DEF MinInv, MemoOK

(***************************************************************************)
(* doc.go: "an input edit only re-runs the queries whose results actually  *)
(* change": ensureFresh recomputes a memo that was current before the last *)
(* edit only if a dependency's value is not the one it was computed from   *)
(* any more, or is an input set for the first time.                        *)
(***************************************************************************)
THEOREM Minimality == Spec => RecomputeIsMinimal
<1>1. Init => IInv /\ MinInv
  BY InitInv, InitMin
<1>2. (IInv /\ MinInv) /\ [Next]_vars => (IInv /\ MinInv)'
  BY NextInv, NextMin
<1>3. (IInv /\ MinInv) /\ [Next]_vars =>
        [Recompute /\ verifiedAt[Top.key] + 1 = revision =>
           \E d \in DOMAIN observed[Top.key] :
              \/ value[d] # observed[Top.key][d]
              \/ d \in Inputs /\ changedAt[d] = revision /\ value[d] = Zero]_vars
  BY RecomputeHasReason
<1> QED BY <1>1, <1>2, <1>3, PTL DEF Spec, RecomputeIsMinimal
-----------------------------------------------------------------------------
(***************************************************************************)
(* The recorded dependencies have no cycle: a computation that completes   *)
(* has read only what is up to date, and is not up to date itself.         *)
(***************************************************************************)
Ranks(rank) ==
  \A q \in Queries : hasValue[q] => \A d \in Deps(q) : rank[d] < rank[q]

RankInv == \E top \in Nat : \E rank \in [Keys -> 0 .. top] : Ranks(rank)

LEMMA InitRank == Init => RankInv
<1> SUFFICES ASSUME Init PROVE RankInv
  OBVIOUS
<1>1. [k \in Keys |-> 0] \in [Keys -> 0 .. 0]
  OBVIOUS
<1>2. Ranks([k \in Keys |-> 0])
  BY DEF Init, Ranks, Keys
<1> QED BY <1>1, <1>2 DEF RankInv

(***************************************************************************)
(* The new memo goes above everything that is up to date and below         *)
(* everything that is not.                                                 *)
(***************************************************************************)
LEMMA RankCompute ==
  ASSUME IInv, RankInv, ComputeDone
  PROVE  RankInv'
<1> USE KeysAssumption DEF IInv
<1> PICK top \in Nat : \E rank \in [Keys -> 0 .. top] : Ranks(rank)
  BY DEF RankInv
<1> PICK rank \in [Keys -> 0 .. top] : Ranks(rank)
  OBVIOUS
<1>1. PICK q \in Queries, v \in Values :
           /\ q = Top.key /\ Top.kind = "compute" /\ ~UpToDate(q) /\ ComputeOK(Top)
           /\ deps' = [deps EXCEPT ![q] = Top.order]
           /\ observed' = [observed EXCEPT ![q] = Top.seen]
           /\ verifiedAt' = [verifiedAt EXCEPT ![q] = revision]
           /\ changedAt' = IF hasValue[q] /\ value[q] = v
                             THEN changedAt ELSE [changedAt EXCEPT ![q] = revision]
           /\ value' = [value EXCEPT ![q] = v]
           /\ hasValue' = [hasValue EXCEPT ![q] = TRUE]
           /\ revision' = revision
           /\ Deps(q)' = DOMAIN Top.seen
           /\ \A d \in DOMAIN Top.seen : d \in Keys /\ UpToDate(d) /\ value[d] = Top.seen[d]
  BY ComputeResult
<1> DEFINE up == [k \in Keys |-> IF UpToDate(k) THEN rank[k]
                                 ELSE IF k = q THEN top + 1
                                 ELSE rank[k] + top + 2]
<1>2. up \in [Keys -> 0 .. 2 * top + 2] /\ 2 * top + 2 \in Nat
  <2>1. ASSUME NEW k \in Keys
        PROVE  up[k] \in 0 .. 2 * top + 2
    <3>1. rank[k] \in 0 .. top
      OBVIOUS
    <3> QED BY <3>1
  <2> HIDE DEF up
  <2>2. up = [k \in Keys |-> up[k]]
    BY DEF up
  <2> QED BY <2>1, <2>2
<1>3. ASSUME NEW r \in Queries, hasValue'[r], NEW d \in Deps(r)'
      PROVE  up[d] < up[r]
  <2>1. r \in Keys /\ q \in Keys
    BY DEF Keys
  <2>2. CASE r = q
    <3>1. d \in Keys /\ UpToDate(d)
      BY <1>1, <1>3, <2>2
    <3>2. rank[d] \in 0 .. top
      BY <3>1
    <3> QED BY <1>1, <2>1, <2>2, <3>1, <3>2
  <2>3. CASE r # q
    <3>1. hasValue[r] /\ d \in Deps(r) /\ d \in Keys
      <4>1. Deps(r)' = Deps(r) /\ hasValue'[r] = hasValue[r]
        BY <1>1, <2>1, <2>3 DEF Deps, TypeOK
      <4> QED BY <4>1, <1>3, DepsAreKeys
    <3>2. rank[d] \in 0 .. top /\ rank[r] \in 0 .. top /\ rank[d] < rank[r]
      BY <2>1, <3>1 DEF Ranks
    <3>3. CASE UpToDate(r)
      <4>1. UpToDate(d)
        BY <3>1, <3>3 DEF FreshInv, UpToDate
      <4> QED BY <2>1, <3>1, <3>2, <3>3, <4>1
    <3>4. CASE ~UpToDate(r)
      BY <2>1, <2>3, <3>1, <3>2, <3>4
    <3> QED BY <3>3, <3>4
  <2> QED BY <2>2, <2>3
<1> HIDE DEF up
<1> QED BY <1>2, <1>3 DEF RankInv, Ranks

LEMMA NextRank ==
  ASSUME IInv, RankInv, [Next]_vars
  PROVE  RankInv'
<1> SUFFICES ASSUME ~ComputeDone
             PROVE  RankInv'
  BY RankCompute
<1>1. \A q \in Queries : hasValue'[q] = hasValue[q] /\ Deps(q)' = Deps(q)
  <2>1. CASE UNCHANGED <<hasValue, deps>>
    BY <2>1 DEF Deps
  <2>2. ASSUME NEW i \in Inputs, NEW v \in Values, Set(i, v)
        PROVE  \A q \in Queries : hasValue'[q] = hasValue[q] /\ Deps(q)' = Deps(q)
    BY <2>2, KeysAssumption DEF Set, Deps, IInv, TypeOK, Keys
  <2>3. CASE VerifyDone
    BY <2>1, <2>3 DEF VerifyDone
  <2>4. CASE UNCHANGED <<revision, hasValue, value, changedAt, verifiedAt, deps, observed>>
    BY <2>1, <2>4
  <2> QED BY <2>2, <2>3, <2>4, SlotSteps
<1> PICK top \in Nat : \E rank \in [Keys -> 0 .. top] : Ranks(rank)
  BY DEF RankInv
<1> PICK rank \in [Keys -> 0 .. top] : Ranks(rank)
  OBVIOUS
<1>2. \A q \in Queries : hasValue'[q] => \A d \in Deps(q)' : rank[d] < rank[q]
  BY <1>1 DEF Ranks
<1> QED BY <1>2 DEF RankInv, Ranks

(***************************************************************************)
(* Verification alone descends along the recorded dependencies, so it does *)
(* not come back to a query.                                               *)
(***************************************************************************)
LEMMA VerifyDescends ==
  ASSUME IInv, RankInv, NEW i \in 1 .. Len(stack), NEW j \in 1 .. Len(stack), i < j,
         \A m \in i .. j - 1 : stack[m].kind = "verify"
  PROVE  stack[i].key # stack[j].key
<1> USE DEF IInv
<1> PICK top \in Nat : \E rank \in [Keys -> 0 .. top] : Ranks(rank)
  BY DEF RankInv
<1> PICK rank \in [Keys -> 0 .. top] : Ranks(rank)
  OBVIOUS
<1>0. /\ Len(stack) \in Nat
      /\ \A m \in 1 .. Len(stack) : stack[m].key \in Queries /\ rank[stack[m].key] \in Nat
  <2>1. Len(stack) \in Nat /\ \A m \in 1 .. Len(stack) : stack[m] \in Frames
    BY DEF TypeOK
  <2> QED BY <2>1, FrameFields DEF Keys
<1>1. ASSUME NEW m \in i .. j - 1
      PROVE  rank[stack[m + 1].key] < rank[stack[m].key]
  <2>1. m \in 1 .. Len(stack) - 1 /\ stack[m].kind = "verify"
    BY <1>0
  <2>2. FrameOK(stack[m]) /\ WaitsFor(stack[m], stack[m + 1].key) /\ stack[m] \in Frames
    BY <2>1, <1>0 DEF FramesInv, LinkInv, TypeOK
  <2>3. /\ hasValue[stack[m].key] /\ stack[m].at \in Nat \ {0}
        /\ stack[m].at <= Len(deps[stack[m].key])
        /\ stack[m + 1].key = deps[stack[m].key][stack[m].at]
    BY <2>1, <2>2, FrameFields DEF FrameOK, VerifyOK, WaitsFor
  <2> PICK q \in Queries : q = stack[m].key
    BY <2>2, FrameFields
  <2>4. Len(deps[q]) \in Nat /\ stack[m].at \in 1 .. Len(deps[q])
    <3>1. q \in Keys
      BY DEF Keys
    <3>2. deps[q] \in Seq(Keys)
      BY <3>1 DEF TypeOK
    <3>3. Len(deps[q]) \in Nat
      BY <3>2
    <3>4. stack[m].at <= Len(deps[q]) /\ stack[m].at \in Nat \ {0}
      BY <2>3
    <3> QED BY <3>3, <3>4
  <2>5. stack[m + 1].key \in Deps(q)
    BY <2>3, <2>4 DEF Deps, Before
  <2> QED BY <2>3, <2>5 DEF Ranks
<1> DEFINE late == {n \in i + 1 .. j : ~(rank[stack[n].key] < rank[stack[i].key])}
<1>2. late = {}
  <2> SUFFICES ASSUME late # {} PROVE FALSE
    OBVIOUS
  <2>1. PICK n \in late : \A p \in late : n <= p
    <3>1. late \in SUBSET Nat
      BY <1>0
    <3> HIDE DEF late
    <3> QED BY <3>1, LeastElement
  <2>2. rank[stack[n].key] < rank[stack[n - 1].key] /\ n \in i + 1 .. j
    <3>1. n - 1 \in i .. j - 1 /\ n - 1 + 1 = n
      BY <1>0
    <3> QED BY <1>1, <3>1
  <2>3. CASE n - 1 = i
    BY <2>2, <2>3
  <2>4. CASE n - 1 # i
    <3>1. n - 1 \in i + 1 .. j /\ n - 1 \notin late
      BY <1>0, <2>1, <2>2, <2>4
    <3>2. rank[stack[n - 1].key] < rank[stack[i].key]
      BY <3>1
    <3>3. n \in 1 .. Len(stack) /\ n - 1 \in 1 .. Len(stack)
      BY SMTT(20), <1>0, <2>2, <3>1
    <3>4. rank[stack[n].key] < rank[stack[i].key]
      <4>1. /\ rank[stack[n].key] \in Nat /\ rank[stack[n - 1].key] \in Nat
            /\ rank[stack[i].key] \in Nat
        BY <1>0, <3>3
      <4>2. \A low, mid, high \in Nat : low < mid /\ mid < high => low < high
        OBVIOUS
      <4> HIDE DEF late
      <4> QED BY <4>1, <4>2, <3>2, <2>2, Zenon
    <3> QED BY <2>1, <3>4
  <2> QED BY <2>3, <2>4
<1>3. rank[stack[j].key] < rank[stack[i].key]
  BY <1>0, <1>2
<1> QED BY <1>0, <1>3
(***************************************************************************)
(* A query that is entered again takes the way it took before: the inner   *)
(* verification finds the same dependency not up to date as the outer one. *)
(***************************************************************************)
LEMMA SecondPassStep ==
  ASSUME IInv, NEW i \in 1 .. Len(stack) - 1, NEW j \in 1 .. Len(stack) - 1, i < j,
         stack[i].key = stack[j].key
  PROVE  stack[i + 1].key = stack[j + 1].key
<1> USE DEF IInv
<1>1. /\ Len(stack) \in Nat
      /\ \A m \in 1 .. Len(stack) : stack[m] \in Frames /\ stack[m].key \in Queries
  <2>1. Len(stack) \in Nat /\ \A m \in 1 .. Len(stack) : stack[m] \in Frames
    BY DEF TypeOK
  <2> QED BY <2>1, FrameFields
<1> PICK q \in Queries : q = stack[i].key
  BY <1>1
<1>2. stack[i].kind = "verify" /\ stack[j].kind = "verify" /\ stack[j].at <= stack[i].at
  BY <1>1 DEF ReentryInv
<1>3. stack[i].at \in Nat \ {0} /\ stack[j].at \in Nat \ {0}
  BY <1>1, <1>2, FrameFields
<1>4. stack[i + 1].key = deps[q][stack[i].at] /\ stack[j + 1].key = deps[q][stack[j].at]
  BY <1>2 DEF LinkInv, WaitsFor
<1>5. CASE stack[j].at = stack[i].at
  BY <1>4, <1>5
<1>6. CASE stack[j].at < stack[i].at
  <2>1. i \in 1 .. Len(stack) /\ j + 1 \in 1 .. Len(stack)
    BY <1>1
  <2>2. VerifyOK(stack[i]) /\ ~Fresh(stack[j + 1].key) /\ stack[j + 1].key \in Queries
    BY <1>1, <1>2, <2>1 DEF FramesInv, FrameOK
  <2>3. stack[j + 1].key \in Before(deps[q], stack[i].at)
    BY <1>3, <1>4, <1>6 DEF Before
  <2>4. UpToDate(stack[j + 1].key)
    BY <2>2, <2>3 DEF VerifyOK
  <2> QED BY <2>2, <2>4, KeysAssumption DEF UpToDate
<1> QED BY <1>2, <1>3, <1>5, <1>6

LEMMA SecondPass ==
  ASSUME IInv, NEW i \in 1 .. Len(stack), NEW j \in 1 .. Len(stack), i < j,
         stack[i].key = stack[j].key
  PROVE  \A m \in j .. Len(stack) : stack[m].kind = "verify"
<1>0. Len(stack) \in Nat
  BY DEF IInv, TypeOK
<1> DEFINE off == {m \in j .. Len(stack) : stack[i + (m - j)].key # stack[m].key}
<1>1. off = {}
  <2> SUFFICES ASSUME off # {} PROVE FALSE
    OBVIOUS
  <2>1. PICK n \in off : \A p \in off : n <= p
    <3>1. off \in SUBSET Nat
      BY <1>0
    <3> HIDE DEF off
    <3> QED BY <3>1, LeastElement
  <2>2. n \in j .. Len(stack) /\ stack[i + (n - j)].key # stack[n].key
    OBVIOUS
  <2>3. i + (j - j) = i
    BY <1>0
  <2>4. n # j
    BY <2>2, <2>3
  <2>5. n - 1 \in j .. Len(stack) /\ n - 1 \notin off
    BY SMTT(20), <1>0, <2>1, <2>2, <2>4
  <2> DEFINE k == i + ((n - 1) - j)
  <2>6. /\ k \in 1 .. Len(stack) - 1 /\ n - 1 \in 1 .. Len(stack) - 1 /\ k < n - 1
        /\ k + 1 = i + (n - j) /\ (n - 1) + 1 = n
    BY <1>0, <2>2, <2>5
  <2>7. stack[k].key = stack[n - 1].key
    BY <2>5
  <2> HIDE DEF k, off
  <2>8. stack[k + 1].key = stack[(n - 1) + 1].key
    BY <2>6, <2>7, SecondPassStep
  <2> QED BY <2>2, <2>6, <2>8
<1>2. ASSUME NEW m \in j .. Len(stack)
      PROVE  stack[m].kind = "verify"
  <2>1. stack[i + (m - j)].key = stack[m].key
    BY <1>1
  <2>2. i + (m - j) \in 1 .. Len(stack) /\ m \in 1 .. Len(stack) /\ i + (m - j) < m
    BY <1>0
  <2> QED BY <2>1, <2>2 DEF IInv, ReentryInv
<1> QED BY <1>2

\* So no query is on the stack three times.
LEMMA NeverThrice ==
  ASSUME IInv, RankInv, NEW i \in 1 .. Len(stack), NEW j \in 1 .. Len(stack),
         NEW k \in 1 .. Len(stack), i < j, j < k, stack[i].key = stack[j].key
  PROVE  stack[j].key # stack[k].key
<1>1. Len(stack) \in Nat
  BY DEF IInv, TypeOK
<1>2. \A m \in j .. k - 1 : stack[m].kind = "verify"
  BY <1>1, SecondPass
<1> QED BY <1>2, VerifyDescends

LEMMA DepthIsBounded ==
  ASSUME IInv, RankInv, IsFiniteSet(Queries)
  PROVE  RecursionIsBounded
<1>1. Len(stack) \in Nat /\ \A m \in 1 .. Len(stack) : stack[m].key \in Queries
  <2>1. Len(stack) \in Nat /\ \A m \in 1 .. Len(stack) : stack[m] \in Frames
    BY DEF IInv, TypeOK
  <2> QED BY <2>1, FrameFields
<1> DEFINE all == 1 .. Len(stack)
           later == {j \in all : \E i \in all : i < j /\ stack[i].key = stack[j].key}
           first == all \ later
<1>2. IsFiniteSet(first) /\ Cardinality(first) <= Cardinality(Queries)
  <2> DEFINE f == [j \in first |-> stack[j].key]
  <2>1. f \in [first -> Queries]
    BY <1>1
  <2>2. \A j, k \in first : f[j] = f[k] => j = k
    BY <1>1
  <2>3. f \in Injection(first, Queries)
    BY <2>1, <2>2 DEF Injection, IsInjective
  <2> HIDE DEF f, first
  <2> QED BY <2>3, FS_Injection
<1>3. IsFiniteSet(later) /\ Cardinality(later) <= Cardinality(Queries)
  <2> DEFINE f == [j \in later |-> stack[j].key]
  <2>1. f \in [later -> Queries]
    BY <1>1
  <2>2. \A j, k \in later : f[j] = f[k] => j = k
    <3> SUFFICES ASSUME NEW j \in later, NEW k \in later, j < k, stack[j].key = stack[k].key
                 PROVE  FALSE
      BY <1>1
    <3>1. PICK i \in all : i < j /\ stack[i].key = stack[j].key
      OBVIOUS
    <3> QED BY <3>1, NeverThrice
  <2>3. f \in Injection(later, Queries)
    BY <2>1, <2>2 DEF Injection, IsInjective
  <2> HIDE DEF f, later
  <2> QED BY <2>3, FS_Injection
<1>4. Cardinality(all) = Cardinality(first) + Cardinality(later)
  <2>1. first \cup later = all /\ first \cap later = {}
    OBVIOUS
  <2> HIDE DEF first, later, all
  <2>2. Cardinality(first) \in Nat /\ Cardinality(later) \in Nat
    BY <1>2, <1>3, FS_CardinalityType
  <2>3. Cardinality(first \cup later) =
          Cardinality(first) + Cardinality(later) - Cardinality(first \cap later)
    BY <1>2, <1>3, FS_Union
  <2>4. Cardinality(first \cap later) = 0
    BY <2>1, FS_EmptySet
  <2> QED BY <2>1, <2>2, <2>3, <2>4
<1>5. Cardinality(all) = Len(stack)
  <2> PICK n \in Nat : n = Len(stack)
    BY <1>1
  <2>1. Cardinality(1 .. n) = IF 1 > n THEN 0 ELSE n - 1 + 1
    <3>1. 1 \in Int /\ n \in Int
      OBVIOUS
    <3> QED BY <3>1, FS_Interval
  <2>2. Cardinality(1 .. n) = n
    BY <2>1
  <2> QED BY <2>2
<1>6. Cardinality(Queries) \in Nat
  BY FS_CardinalityType
<1> HIDE DEF first, later, all
<1>7. Cardinality(first) \in Nat /\ Cardinality(later) \in Nat
  BY <1>2, <1>3, FS_CardinalityType
<1> QED BY <1>2, <1>3, <1>4, <1>5, <1>6, <1>7 DEF RecursionIsBounded

(***************************************************************************)
(* The recursion of ensureFresh and anyDepChanged ends at a depth of twice *)
(* the number of queries, although nothing guards verification against     *)
(* entering a query that is being verified.                                *)
(***************************************************************************)
THEOREM RecursionBounded == IsFiniteSet(Queries) => (Spec => []RecursionIsBounded)
<1> SUFFICES ASSUME IsFiniteSet(Queries) PROVE Spec => []RecursionIsBounded
  OBVIOUS
<1>1. Init => IInv /\ RankInv
  BY InitInv, InitRank
<1>2. (IInv /\ RankInv) /\ [Next]_vars => (IInv /\ RankInv)'
  BY NextInv, NextRank
<1>3. IInv /\ RankInv => RecursionIsBounded
  BY DepthIsBounded
<1> QED BY <1>1, <1>2, <1>3, PTL DEF Spec
=============================================================================
