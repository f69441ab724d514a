----------------------------- MODULE Collections -----------------------------
(***************************************************************************)
(* Finite maps and saturating arithmetic, as the contract uses them: a     *)
(* HashMap or a LookupMap is a function with a finite domain, and an       *)
(* unsigned subtraction that saturates is Monus.                           *)
(***************************************************************************)
EXTENDS Integers, FiniteSets, Functions

\* A map whose keys are in S.
IsMap(f, S) == f = [x \in DOMAIN f |-> f[x]] /\ DOMAIN f \subseteq S

EmptyMap == [x \in {} |-> x]

\* HashMap::insert and HashMap::remove.
Put(f, k, v) == [x \in DOMAIN f \cup {k} |-> IF x = k THEN v ELSE f[x]]
Drop(f, K) == Restrict(f, DOMAIN f \ K)

\* The sum of all the values of a map of numbers.
Total(f) == SumFunctionOnSet(f, DOMAIN f)

Larger(a, b) == IF a >= b THEN a ELSE b
Smaller(a, b) == IF a <= b THEN a ELSE b
Monus(a, b) == IF a >= b THEN a - b ELSE 0

\* ceil(a / b)
CeilDiv(a, b) == (a + b - 1) \div b
=============================================================================
