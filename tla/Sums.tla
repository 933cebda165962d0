---------------------------------- MODULE Sums ----------------------------------
(* Running totals over an array, as the loops of the C code keep them, and over
   the elements of a set. *)
EXTENDS Integers

\* a[1] + ... + a[n].
SumTo(a, n) ==
    LET total[k \in Nat] == IF k = 0 THEN 0 ELSE total[k - 1] + a[k]
    IN  total[n]

\* f as an array whose last element is the one for n, with nothing where f is
\* not defined.
Padded(f, n) == [k \in 1..(n + 1) |-> IF k - 1 \in DOMAIN f THEN f[k - 1] ELSE 0]

\* The sum of f over its domain, a finite set of natural numbers.
SumOf(f) ==
    LET last == CHOOSE n \in DOMAIN f \cup {0} : \A k \in DOMAIN f : k <= n
    IN  SumTo(Padded(f, last), last + 1)
===============================================================================
