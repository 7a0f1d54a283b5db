------------------------------- MODULE Workflow -------------------------------
(***************************************************************************)
(* Generated Temporal workflows: GenerateWorkflows of                      *)
(* gen/temporal/workflows.go, which makes of a workflow's body the         *)
(* statements of a Go function, and an execution of that function, whose   *)
(* activities, timers and signals belong to the Temporal server.           *)
(*                                                                         *)
(* What a statement does to the server is kept, its Go text is not: names, *)
(* arguments and options of activities are left out.  The server runs the  *)
(* function again from the start after a crash; because the function reads *)
(* nothing but its arguments and the recorded results it then comes back   *)
(* to the statement it was at, and that is not modelled.                   *)
(***************************************************************************)
EXTENDS Integers, Sequences, SequencesExt, FiniteSets, Lists

CONSTANTS Workflows,  \* the bodies, with their successions and true guards
          Signals, None, MaxSignals

VARIABLES wf,         \* the workflow that is generated and executed
          program,    \* the statements of its function
          pc, begun, succeeded, failed, arrived, outcome

vars == <<wf, program, pc, begun, succeeded, failed, arrived, outcome>>

\* Items, and the items of these kinds, in source order.
InOrder(w, items) == FlattenSeq([i \in DOMAIN w.body |-> IF i \in items THEN <<i>> ELSE <<>>])
OfKind(w, kinds) == {i \in DOMAIN w.body : w.body[i].kind \in kinds}
Positions(w, kinds) == InOrder(w, OfKind(w, kinds))
-----------------------------------------------------------------------------
(***************************************************************************)
(* Generation.  A step is begun and waited for in one expression,          *)
(* ExecuteActivity(...).Get(...); the steps of a fork keep the future of   *)
(* the one for the other.                                                  *)
(***************************************************************************)
Start(k, guard) == [op |-> "start", of |-> k, guard |-> guard]
Get(k, guard) == [op |-> "get", of |-> k, guard |-> guard]
Receive(k) == [op |-> "receive", of |-> k, guard |-> None]

\* Seeded fault: the result is waited for before the activity is begun.
ExecuteGetsFirst(k, guard) == <<Get(k, guard), Start(k, guard)>>

Execute(k, guard) == <<Start(k, guard), Get(k, guard)>>

\* The last guarded succession to a name is the one that counts.  A perform
\* has no usage and so no name.
Guard(w, item) ==
  LET guarded == {s \in DOMAIN w.successions : w.successions[s].guard # None /\ w.successions[s].to = item.name}
  IN  IF item.kind = "step" /\ guarded # {} THEN w.successions[Max(guarded)].guard ELSE None

\* From the first fork to the last join, if it is behind that.
InForkJoin(w, i) ==
  /\ \E fork \in OfKind(w, {"fork"}) : fork < i
  /\ \E join \in OfKind(w, {"join"}) : i < join

ParallelSteps(w) == InOrder(w, {i \in OfKind(w, {"step"}) : InForkJoin(w, i)})

\* Seeded fault: each branch is waited for before the next begins.
EmitParallelInTurn(w) ==
  FlattenSeq([j \in DOMAIN ParallelSteps(w) |-> Execute(<<ParallelSteps(w)[j], 1>>, None)])

EmitParallel(w) ==
  [j \in DOMAIN ParallelSteps(w) |-> Start(<<ParallelSteps(w)[j], 1>>, None)]
    \o [j \in DOMAIN ParallelSteps(w) |-> Get(<<ParallelSteps(w)[j], 1>>, None)]

EmitLoop(w, i) ==
  IF w.body[i].count = None THEN <<>>
  ELSE FlattenSeq([n \in 1..w.body[i].count |-> Execute(<<i, n>>, None)])

\* All branches are emitted in the place of the first.
EmitStep(w, i) ==
  IF ~InForkJoin(w, i) THEN Execute(<<i, 1>>, Guard(w, w.body[i]))
  ELSE IF i = Head(ParallelSteps(w)) THEN EmitParallel(w)
  ELSE <<>>

\* Seeded fault: steps, accepts and loops are not sorted into source order.
OrderedBodyUnsorted(w) ==
  Positions(w, {"step"}) \o Positions(w, {"signal", "timer"})
    \o Positions(w, {"loop"}) \o Positions(w, {"perform"})

\* Performs have no place in the source and come last.
OrderedBody(w) ==
  Positions(w, {"step", "signal", "timer", "loop"})
    \o Positions(w, {"perform"})

EmitItem(w, i) ==
  CASE w.body[i].kind = "loop"    -> EmitLoop(w, i)
    [] w.body[i].kind = "signal"  -> <<Receive(<<i, 1>>)>>
    [] w.body[i].kind = "timer"   -> IF w.body[i].literal THEN Execute(<<i, 1>>, None) ELSE <<>>
    [] w.body[i].kind = "perform" -> Execute(<<i, 1>>, Guard(w, w.body[i]))
    [] w.body[i].kind = "step"    -> EmitStep(w, i)

GenerateWorkflow(w) == FlattenSeq([j \in DOMAIN OrderedBody(w) |-> EmitItem(w, OrderedBody(w)[j])])

(***************************************************************************)
(* The generator has one place for all branches, does not test guards      *)
(* there or before performs, and forgets where performs were.  What it     *)
(* makes of bodies that need more is not what they ask for; these do not.  *)
(***************************************************************************)
Supported(w) ==
  /\ \A kind \in {"fork", "join"} : \A i, j \in OfKind(w, {kind}) : i = j
  /\ \A i, j \in DOMAIN w.body :
       w.body[i].kind = "perform" /\ i < j => w.body[j].kind \in {"perform", "fork", "join", "merge"}
  /\ \A s \in DOMAIN w.successions : w.successions[s].guard # None =>
       /\ \A i \in OfKind(w, {"step", "perform"}) :
            w.body[i].name = w.successions[s].to => w.body[i].kind = "step" /\ ~InForkJoin(w, i)
       /\ \A t \in DOMAIN w.successions :
            w.successions[t].to = w.successions[s].to => w.successions[t].guard \in {None, w.successions[s].guard}

IsWorkflow(w) ==
  /\ IsSequence(w.body) /\ IsSequence(w.successions)
  /\ \A i \in OfKind(w, {"signal"}) : w.body[i].name \in Signals
  /\ \A i \in OfKind(w, {"loop"}) : w.body[i].count \in Nat \cup {None}

ASSUME WorkflowsAssumption == \A w \in Workflows : IsWorkflow(w) /\ Supported(w)
-----------------------------------------------------------------------------
(***************************************************************************)
(* Execution.                                                              *)
(***************************************************************************)
Init ==
  /\ wf \in Workflows
  /\ program = GenerateWorkflow(wf)
  /\ pc = 1 /\ begun = <<>> /\ succeeded = {} /\ failed = {}
  /\ arrived = [s \in Signals |-> 0]
  /\ outcome = "running"

Statement == program[pc]
Passes(statement) == statement.guard \in wf.holds \cup {None}
At(op) == outcome = "running" /\ pc \in DOMAIN program /\ Statement.op = op /\ Passes(Statement)

SkipUnlessGuard ==
  /\ outcome = "running" /\ pc \in DOMAIN program /\ ~Passes(Statement)
  /\ pc' = pc + 1
  /\ UNCHANGED <<wf, program, begun, succeeded, failed, arrived, outcome>>

ExecuteActivity ==
  /\ At("start")
  /\ begun' = Append(begun, Statement.of)
  /\ pc' = pc + 1
  /\ UNCHANGED <<wf, program, succeeded, failed, arrived, outcome>>

GetResult ==
  /\ At("get") /\ Statement.of \in succeeded
  /\ pc' = pc + 1
  /\ UNCHANGED <<wf, program, begun, succeeded, failed, arrived, outcome>>

ReturnError ==
  /\ At("get") /\ Statement.of \in failed
  /\ outcome' = "failed"
  /\ UNCHANGED <<wf, program, pc, begun, succeeded, failed, arrived>>

\* The channel keeps what arrives until it is received.
Unreceived(s) ==
  arrived[s] - Cardinality({j \in 1..(pc - 1) : program[j].op = "receive" /\ wf.body[program[j].of[1]].name = s})

ReceiveSignal ==
  /\ At("receive") /\ Unreceived(wf.body[Statement.of[1]].name) > 0
  /\ succeeded' = succeeded \cup {Statement.of}
  /\ pc' = pc + 1
  /\ UNCHANGED <<wf, program, begun, failed, arrived, outcome>>

ReturnNil ==
  /\ outcome = "running" /\ pc = Len(program) + 1
  /\ outcome' = "completed"
  /\ UNCHANGED <<wf, program, pc, begun, succeeded, failed, arrived>>
-----------------------------------------------------------------------------
(***************************************************************************)
(* The server: an activity succeeds or fails for good, a timer fires or is *)
(* cancelled, a signal is sent.                                            *)
(***************************************************************************)
Running == {k \in ToSet(begun) : k \notin succeeded \cup failed}

End ==
  /\ outcome = "running"
  /\ \E k \in Running :
       \/ succeeded' = succeeded \cup {k} /\ UNCHANGED failed
       \/ failed' = failed \cup {k} /\ UNCHANGED succeeded
  /\ UNCHANGED <<wf, program, pc, begun, arrived, outcome>>

Send ==
  /\ outcome = "running"
  /\ \E s \in Signals :
       /\ arrived[s] < MaxSignals
       /\ arrived' = [arrived EXCEPT ![s] = @ + 1]
  /\ UNCHANGED <<wf, program, pc, begun, succeeded, failed, outcome>>
-----------------------------------------------------------------------------
Step == SkipUnlessGuard \/ ExecuteActivity \/ GetResult \/ ReturnError \/ ReceiveSignal \/ ReturnNil

Next == Step \/ End \/ Send

\* The worker goes on with the function.  Nobody has to send a signal, and an
\* activity need not end: its attempts have a timeout, its retries no limit.
Spec == Init /\ [][Next]_vars /\ WF_vars(Step)
-----------------------------------------------------------------------------
(***************************************************************************)
(* Properties.                                                             *)
(***************************************************************************)
Promise == INSTANCE WorkflowSpec

\* The function does what the model asks for: every activity, timer and signal
\* once, in the order of the declarations, branches of a fork in any order,
\* guarded ones only if the guard holds; it returns nil when all of them have
\* succeeded, and an error only if one has failed.
Implements == Promise!Spec

\* The action steps of a fork run together: the function does not wait for one
\* before it has begun all of them.  That is not so of the other items between
\* fork and join: accepts and loops are waited for where they stand, and steps
\* that come first behind one begin after it.
ParallelStepsRunTogether ==
  At("get") =>
    \A i, j \in DOMAIN wf.body :
      (/\ i < j /\ Promise!Parallel(i, j) /\ wf.body[i].kind = "step" /\ wf.body[j].kind = "step"
       /\ Statement.of \in {<<i, 1>>, <<j, 1>>})
      => {<<i, 1>>, <<j, 1>>} \subseteq ToSet(begun)

\* The function returns, unless it waits for ever for a signal that nobody sends
\* or for an activity or timer that it has begun and that does not end.
AwaitsServer ==
  \/ At("receive") /\ Unreceived(wf.body[Statement.of[1]].name) = 0
  \/ At("get") /\ Statement.of \in Running
Returns == <>[](outcome # "running" \/ AwaitsServer)
=============================================================================
