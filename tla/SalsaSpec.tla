------------------------------ MODULE SalsaSpec ------------------------------
(***************************************************************************)
(* What engine/salsa promises its clients: no memo, revision or stack, but *)
(* the values of the inputs and, for a read, the value that evaluating the *)
(* query from scratch on them gives, or an error.                          *)
(***************************************************************************)
EXTENDS Naturals, Sequences

CONSTANTS Inputs, Queries, Values, Zero, Instr(_, _), None

VARIABLES input,    \* value of each input
          outcome   \* what became of the last read

Keys == Inputs \cup Queries
NoOutcome == [kind |-> "none"]

Value(v) == [ok |-> TRUE, val |-> v]
Failure(why) == [ok |-> FALSE, why |-> why]

(***************************************************************************)
(* Evaluation from scratch of key k, inside the evaluations of `path':     *)
(* Resume(k, seen, path) goes on with k's compute function once it has     *)
(* read `seen'.                                                            *)
(***************************************************************************)
RECURSIVE Resume(_, _, _)
EvalIn(k, path) ==
  IF k \in Inputs THEN Value(input[k])
  ELSE IF k \in path THEN Failure("cycle")
  ELSE Resume(k, <<>>, path \cup {k})

Resume(k, seen, path) ==
  LET instr == Instr(k, seen)
  IN  IF instr.op = "ret" THEN Value(instr.val)
      ELSE IF instr.op = "panic" THEN Failure("panic")
      ELSE LET read == EvalIn(instr.key, path)
           IN  IF ~read.ok THEN read
               ELSE Resume(k, [d \in DOMAIN seen \cup {instr.key} |->
                                 IF d = instr.key THEN read.val ELSE seen[d]], path)

Eval(k) == EvalIn(k, {})
-----------------------------------------------------------------------------
Init == input = [i \in Inputs |-> Zero] /\ outcome = NoOutcome

SetInput(i, v) ==
  /\ input' = [input EXCEPT ![i] = v]
  /\ outcome' = NoOutcome

\* A read is answered only if the evaluation has an answer, and with it.
Answer(k) ==
  /\ Eval(k).ok
  /\ outcome' = [kind |-> "value", key |-> k, val |-> Eval(k).val]
  /\ UNCHANGED input

\* Or it fails: its context was cancelled, it ran into a dependency cycle,
\* or a compute function panicked.
Fail(why, k) ==
  /\ why = "panic" => k # None /\ Eval(k) = Failure("panic")
  /\ outcome' = [kind |-> why, key |-> k]
  /\ UNCHANGED input

Next ==
  \/ \E i \in Inputs, v \in Values : SetInput(i, v)
  \/ \E k \in Keys : Answer(k)
  \/ \E why \in {"cycle", "canceled", "panic"}, k \in Keys \cup {None} : Fail(why, k)

Spec == Init /\ [][Next]_<<input, outcome>>
=============================================================================
