------------------------------ MODULE MCSalsa ------------------------------
(***************************************************************************)
(* Salsa for TLC: two inputs and three queries.  The programs are small    *)
(* but have what the engine must cope with: dependencies that depend on    *)
(* data, a query read through two others, a result that stays equal when   *)
(* its input changes, a cycle that comes and goes with the inputs, and a   *)
(* compute function that panics.                                           *)
(***************************************************************************)
EXTENDS Salsa, TLC

CONSTANTS x, y,      \* inputs
          a, b, c    \* queries

MCInputs == {x, y}
MCQueries == {a, b, c}
MCValues == 0 .. 1

\* Read k, then go on.
Need(k, seen, rest) == IF k \in DOMAIN seen THEN rest ELSE Get(k)

\* No cycle: a = x /\ y (y is read only if x = 1); b = a /\ y; c = a \/ b.
Acyclic(q, seen) ==
  CASE q = a -> Need(x, seen, IF seen[x] = 0 THEN Ret(0) ELSE Need(y, seen, Ret(seen[y])))
    [] q = b -> Need(a, seen, Need(y, seen, Ret(IF seen[a] + seen[y] = 2 THEN 1 ELSE 0)))
    [] q = c -> Need(b, seen, Need(a, seen, Ret(IF seen[a] + seen[b] = 0 THEN 0 ELSE 1)))

\* a reads b if x = 1 and b reads a if y = 1, so both make a cycle; c panics
\* on a = 1.
Cyclic(q, seen) ==
  CASE q = a -> Need(x, seen, IF seen[x] = 0 THEN Ret(0) ELSE Need(b, seen, Ret(seen[b])))
    [] q = b -> Need(y, seen, IF seen[y] = 0 THEN Ret(1) ELSE Need(a, seen, Ret(seen[a])))
    [] q = c -> Need(a, seen, IF seen[a] = 1 THEN Panic ELSE Need(b, seen, Ret(1 - seen[b])))

\* The database as its clients see it.
Scratch == INSTANCE SalsaSpec WITH input <- [i \in Inputs |-> value[i]]

(***************************************************************************)
(* Whatever was memoized, verified, backdated, cancelled or unwound on the *)
(* way, a read is answered as if everything were computed from scratch on  *)
(* the present inputs, or fails.                                           *)
(***************************************************************************)
ReadsAreFromScratch == Scratch!Spec

(***************************************************************************)
(* salsa.go: "CycleError reports that a query transitively depended on     *)
(* itself".  A read that fails with a CycleError runs into a cycle when it *)
(* is evaluated from scratch, too.                                         *)
(***************************************************************************)
CycleErrorsAreCycles ==
  outcome.kind = "cycle" => Scratch!Eval(outcome.key) = Scratch!Failure("cycle")
=============================================================================
