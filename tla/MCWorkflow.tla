------------------------------ MODULE MCWorkflow ------------------------------
(***************************************************************************)
(* Workflow for TLC: all bodies of up to MaxItems items, and a fork of two *)
(* or three branches between two other items, in so far as the generator   *)
(* supports them; a guard that holds or not.                               *)
(***************************************************************************)
EXTENDS Workflow

CONSTANTS MaxItems, MaxBranches

\* The sequences with an element of each set.
Tuples(sets) == {t \in [DOMAIN sets -> UNION ToSet(sets)] : \A i \in DOMAIN sets : t[i] \in sets[i]}

Names == <<"a", "b", "c", "d", "e", "f", "g">>

StepItem(i) == [kind |-> "step", name |-> Names[i]]
SignalItem(s) == [kind |-> "signal", name |-> s]
TimerItem(literal) == [kind |-> "timer", literal |-> literal]
LoopItem(count) == [kind |-> "loop", count |-> count]
PerformItem(i) == [kind |-> "perform", name |-> Names[i]]
ControlItem(kind) == [kind |-> kind]

Items(i) ==
  {StepItem(i), PerformItem(i)} \cup {SignalItem(s) : s \in Signals} \cup {TimerItem(l) : l \in BOOLEAN}
    \cup {LoopItem(n) : n \in {None, 0, 2}} \cup {ControlItem(c) : c \in {"fork", "join", "merge"}}
Short == UNION {Tuples([i \in 1..n |-> Items(i)]) : n \in 1..MaxItems}

Forking ==
  LET Around(i) == {StepItem(i), SignalItem("x"), LoopItem(2)}
      Branch(i) == {StepItem(i), SignalItem("x"), TimerItem(TRUE)}
      Fork(n) == [i \in 1..(n + 4) |->
                    IF i = 2 THEN {ControlItem("fork")} ELSE IF i = n + 3 THEN {ControlItem("join")}
                    ELSE IF i \in {1, n + 4} THEN Around(i) ELSE Branch(i)]
  IN  UNION {Tuples(Fork(n)) : n \in 2..MaxBranches}

Bodies == Short \cup Forking

\* One guarded succession, and one without a guard that may lead to the same step.
Successions(body) ==
  {<<>>} \cup
  {<<[to |-> body[i].name, guard |-> "g"], [to |-> body[j].name, guard |-> None]>> :
     i, j \in {k \in DOMAIN body : body[k].kind = "step"}}

MCWorkflows ==
  {w \in UNION {[body : {b}, successions : Successions(b), holds : {{}, {"g"}}] : b \in Bodies} :
     /\ Supported(w)
     /\ w.successions = <<>> => w.holds = {}}
=============================================================================
