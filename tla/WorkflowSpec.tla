----------------------------- MODULE WorkflowSpec -----------------------------
(***************************************************************************)
(* What a model asks of the execution of one of its workflows, whatever    *)
(* function is generated for it (specs/TEMPORAL.md 3.1): things happen in  *)
(* the order they are declared in, those between a fork and its join in    *)
(* any order, each of them once, guarded ones if their guard holds.        *)
(*                                                                         *)
(* A workflow is its body, the sequence of the items it declares, its      *)
(* guarded successions and the set of the guards that hold for the         *)
(* arguments of this execution.  An occurrence <<i, n>> is the n-th time   *)
(* round of item i.                                                        *)
(***************************************************************************)
EXTENDS Integers, Sequences, FiniteSets

CONSTANTS Signals, None,
          MaxSignals  \* bound: how often a signal is sent

VARIABLES wf,         \* the workflow
          begun,      \* the occurrences that were begun, in order
          succeeded, failed,
          arrived,    \* how often each signal arrived
          outcome     \* "running", "completed" or "failed"

Item(k) == wf.body[k[1]]

\* How often an item happens: a loop whose target or count did not resolve and
\* a timer with a duration that is no literal are left out, with a comment.
Times(item) ==
  CASE item.kind \in {"step", "perform", "signal"} -> 1
    [] item.kind = "timer" -> IF item.literal THEN 1 ELSE 0
    [] item.kind = "loop"  -> IF item.count = None THEN 0 ELSE item.count
    [] OTHER -> 0

\* An item that a guarded succession leads to happens if the guard holds.
Wanted(item) ==
  item.kind \in {"step", "perform"} =>
    \A s \in DOMAIN wf.successions :
      wf.successions[s].to = item.name =>
        wf.successions[s].guard \in wf.holds \cup {None}

Due == {k \in UNION {{i} \X (1..Times(wf.body[i])) : i \in DOMAIN wf.body} : Wanted(Item(k))}

\* Items i < j are branches of one fork: no other fork and no join in between.
Parallel(i, j) ==
  \E f \in 1..(i - 1), g \in (j + 1)..Len(wf.body) :
    /\ wf.body[f].kind = "fork" /\ wf.body[g].kind = "join"
    /\ \A c \in (f + 1)..(g - 1) : wf.body[c].kind \notin {"fork", "join"}

Before(k) ==
  {j \in Due : \/ j[1] = k[1] /\ j[2] < k[2]
               \/ j[1] < k[1] /\ ~Parallel(j[1], k[1])}

HasBegun(k) == \E b \in DOMAIN begun : begun[b] = k
Accepts(s) == {k \in succeeded : Item(k).kind = "signal" /\ Item(k).name = s}
-----------------------------------------------------------------------------
Ready(k) ==
  /\ outcome = "running"
  /\ k \in Due /\ Before(k) \subseteq succeeded

Begin(k) ==
  /\ Ready(k) /\ Item(k).kind # "signal" /\ ~HasBegun(k)
  /\ begun' = Append(begun, k)
  /\ UNCHANGED <<wf, succeeded, failed, arrived, outcome>>

Accept(k) ==
  /\ Ready(k) /\ Item(k).kind = "signal" /\ k \notin succeeded
  /\ Cardinality(Accepts(Item(k).name)) < arrived[Item(k).name]
  /\ succeeded' = succeeded \cup {k}
  /\ UNCHANGED <<wf, begun, failed, arrived, outcome>>

Complete ==
  /\ outcome = "running" /\ Due \subseteq succeeded
  /\ outcome' = "completed"
  /\ UNCHANGED <<wf, begun, succeeded, failed, arrived>>

Fail ==
  /\ outcome = "running" /\ failed # {}
  /\ outcome' = "failed"
  /\ UNCHANGED <<wf, begun, succeeded, failed, arrived>>

\* The world outside: what was begun ends, signals arrive.
End(k) ==
  /\ outcome = "running" /\ HasBegun(k) /\ k \notin succeeded \cup failed
  /\ \/ succeeded' = succeeded \cup {k} /\ failed' = failed
     \/ failed' = failed \cup {k} /\ succeeded' = succeeded
  /\ UNCHANGED <<wf, begun, arrived, outcome>>

Send(s) ==
  /\ outcome = "running" /\ arrived[s] < MaxSignals
  /\ arrived' = [arrived EXCEPT ![s] = @ + 1]
  /\ UNCHANGED <<wf, begun, succeeded, failed, outcome>>
-----------------------------------------------------------------------------
Init ==
  /\ begun = <<>> /\ succeeded = {} /\ failed = {}
  /\ arrived = [s \in Signals |-> 0]
  /\ outcome = "running"

Next ==
  \/ \E k \in Due : Begin(k) \/ Accept(k) \/ End(k)
  \/ \E s \in Signals : Send(s)
  \/ Complete
  \/ Fail

Spec == Init /\ [][Next]_<<wf, begun, succeeded, failed, arrived, outcome>>
=============================================================================
