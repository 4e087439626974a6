------------------------------ MODULE Descent ------------------------------
(***************************************************************************)
(* Measures of what a program has left to do: a sequence of functions to   *)
(* the naturals, the most significant one first.                           *)
(***************************************************************************)
EXTENDS Integers

One(p) == IF p THEN 1 ELSE 0

\* m falls below n: at the first place where they differ no number has grown.
Falls(m, n) == m # n /\ \A x \in DOMAIN n : m[x] <= n[x]
Below(m, n) ==
    \E i \in DOMAIN n : Falls(m[i], n[i]) /\ \A j \in 1 .. (i - 1) : m[j] = n[j]
=============================================================================
