-------------------------------- MODULE Lists --------------------------------
(***************************************************************************)
(* Sequences of anything: what a constant is assumed to be when its        *)
(* members are of no one set, what is left of a sequence, and how Go's     *)
(* sort arranges one.                                                      *)
(***************************************************************************)
EXTENDS Integers, Sequences, SequencesExt, FiniteSets

IsSequence(s) == s \in Seq(ToSet(s))

\* What is in S, in the same order.
Only(s, S) ==
  CHOOSE only \in {FlattenSeq([i \in DOMAIN t |-> IF t[i] \in T THEN <<t[i]>> ELSE <<>>]) : t \in {s}, T \in {S}} : TRUE

(***************************************************************************)
(* Arranged by insertion: each element behind those that it is not before. *)
(* `before' is a set of pairs of positions.  (TLC computes what a variable *)
(* is bound to once, and what stands in several places several times.)     *)
(***************************************************************************)
Inserted(order, n, before) ==
  LET place == Cardinality({k \in DOMAIN order : <<n, order[k]>> \notin before})
  IN  SubSeq(order, 1, place) \o <<n>> \o SubSeq(order, place + 1, Len(order))

Arranged(s, before) ==
  LET order[n \in 0 .. Len(s)] ==
        IF n = 0 THEN <<>>
        ELSE CHOOSE more \in {Inserted(prior, n, before) : prior \in {order[n - 1]}} : TRUE
  IN  CHOOSE arranged \in {[i \in DOMAIN s |-> s[last[i]]] : last \in {order[Len(s)]}} : TRUE
==============================================================================
