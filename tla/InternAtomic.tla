---------------------------- MODULE InternAtomic ----------------------------
(***************************************************************************)
(* What engine/text promises of Interner.Intern and FileSet.Add: each call *)
(* takes effect at one instant, at which a string that is in the table     *)
(* gets the handle it has and any other string gets the next free one.     *)
(***************************************************************************)
EXTENDS Naturals, Sequences

CONSTANTS Procs, Strings, Empty, PreInterned, None

VARIABLES table,   \* sequence of the strings, in the order of their handles
          busy,    \* processes inside a call
          arg,     \* the string each process asked for
          answer   \* the handle its call has been given, or None

vars == <<table, busy, arg, answer>>

\* The handles that a string can be found under.
First == IF PreInterned THEN 0 ELSE 1

HandlesOf(s) == {h \in First .. Len(table) - 1 : table[h + 1] = s}

Init ==
  /\ table = <<Empty>>
  /\ busy = [p \in Procs |-> FALSE]
  /\ arg = [p \in Procs |-> Empty]
  /\ answer = [p \in Procs |-> None]

Ask(p, s) ==
  /\ ~busy[p]
  /\ busy' = [busy EXCEPT ![p] = TRUE]
  /\ arg' = [arg EXCEPT ![p] = s]
  /\ UNCHANGED <<table, answer>>

Find(p) ==
  /\ busy[p] /\ answer[p] = None
  /\ \E h \in HandlesOf(arg[p]) : answer' = [answer EXCEPT ![p] = h]
  /\ UNCHANGED <<table, busy, arg>>

Enter(p) ==
  /\ busy[p] /\ answer[p] = None
  /\ HandlesOf(arg[p]) = {}
  /\ answer' = [answer EXCEPT ![p] = Len(table)]
  /\ table' = Append(table, arg[p])
  /\ UNCHANGED <<busy, arg>>

Reply(p) ==
  /\ busy[p] /\ answer[p] # None
  /\ busy' = [busy EXCEPT ![p] = FALSE]
  /\ answer' = [answer EXCEPT ![p] = None]
  /\ UNCHANGED <<table, arg>>

Next == \E p \in Procs :
          Find(p) \/ Enter(p) \/ Reply(p) \/ \E s \in Strings : Ask(p, s)

Spec == Init /\ [][Next]_vars
=============================================================================
