----------------------------- MODULE Collections -----------------------------
(***************************************************************************)
(* What the control plane does with Go's maps and slices: assignments to a *)
(* key, and lists that are sorted before they are handed out.              *)
(***************************************************************************)
EXTENDS Integers, Sequences, FiniteSets

(* m[key] = value, for a key that may be new. *)
Put(m, key, value) ==
  [k \in DOMAIN m \cup {key} |-> IF k = key THEN value ELSE m[k]]

(* sort.Slice: the elements of a set from the first on.  The n-th has      *)
(* n - 1 of them before it.                                                *)
InOrder(S, Before(_, _)) ==
  [n \in 1..Cardinality(S) |->
     CHOOSE x \in S : Cardinality({y \in S : Before(y, x)}) = n - 1]

(* The elements of a list at some of its positions, in their order. *)
Earlier(i, j) == i < j

Filtered(seq, positions) ==
  LET at == InOrder(positions, Earlier) IN [n \in DOMAIN at |-> seq[at[n]]]
=============================================================================
