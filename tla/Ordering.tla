------------------------------ MODULE Ordering ------------------------------
(***************************************************************************)
(* What Python's sorted() and a slice give, said without saying how: the   *)
(* place of an element is the number of those that come before it.  Proofs *)
(* reason about this form; that of the community modules goes through      *)
(* TLC's SortSeq, of which the provers know nothing.                       *)
(***************************************************************************)
EXTENDS Integers, Sequences, FiniteSets, Functions

IsSequence(s) == s \in Seq(Range(s))

(* The elements of S that the relation R has before x. *)
Earlier(S, R, x) == {y \in S : <<y, x>> \in R}

(* The elements of a finite set in the order of a relation. *)
InOrder(S, R) == [r \in 1..Cardinality(S) |-> CHOOSE x \in S : Cardinality(Earlier(S, R, x)) = r - 1]

Sorted(S, before(_, _)) == InOrder(S, {p \in S \X S : before(p[1], p[2])})

Lesser(a, b) == IF a <= b THEN a ELSE b

(* The elements of a sequence at some of its positions, as they follow each other. *)
Filtered(s, positions) ==
  LET order == Sorted(positions, LAMBDA i, j : i < j)
  IN [r \in DOMAIN order |-> s[order[r]]]

(* The first k elements of a sequence, all of it when it is shorter. *)
Take(s, k) == [r \in 1..Lesser(k, Len(s)) |-> s[r]]
=============================================================================
