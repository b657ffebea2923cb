---------------------------- MODULE OrderedSets -----------------------------
(***************************************************************************)
(* Sets of numbers in their order, and the sequence that keeps some        *)
(* elements of another: what a sorted() or a list comprehension of the     *)
(* code returns, said without recursion, so that it can be proved about.   *)
(***************************************************************************)
EXTENDS Integers, Sequences, FiniteSets

(* The member at n, counted from 0.                                        *)
Nth(S, n) == CHOOSE i \in S : Cardinality({ j \in S : j < i }) = n

InOrder(S) == [ k \in 1 .. Cardinality(S) |-> Nth(S, k - 1) ]

(* The elements of s that are in keep, in the order they have in s.        *)
Filter(s, keep) ==
  LET at == { k \in DOMAIN s : s[k] \in keep }
  IN  [ k \in 1 .. Cardinality(at) |-> s[Nth(at, k - 1)] ]
=============================================================================
