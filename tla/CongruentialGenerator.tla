----------------------- MODULE CongruentialGenerator -----------------------
(***************************************************************************)
(* The path on which FineLockPEQueue looks for a page: the generator        *)
(* n' = (a * n + c) % m that its constructor derives from the queue size,   *)
(* with the values beyond the queue size discarded.                         *)
(***************************************************************************)
EXTENDS Naturals

divides(i, n) == (n \div i) * i = n

\* remaining, with every factor i divided out
stripped(i, remaining) ==
  LET Strip[r \in Nat] == IF divides(i, r) THEN Strip[r \div i] ELSE r
  IN  Strip[remaining]

\* Every i in 2..m that divides what the smaller ones have left of m goes
\* into a, and a second 2 does when 4 divides m.
getA(m) ==
  LET Loop[i \in Nat, remaining \in Nat, a \in Nat] ==
        IF i > m THEN a
        ELSE IF divides(i, remaining)
             THEN Loop[i + 1, stripped(i, remaining), a * i]
             ELSE Loop[i + 1, remaining, a]
  IN  (Loop[2, m, IF divides(4, m) THEN 2 ELSE 1] + 1) % m

isPrime(n) == \A i \in 2 .. n - 1 : ~ divides(i, n)

\* The largest prime up to three quarters of m, or 1.
getC(m) ==
  LET Down[n \in Nat] == IF n <= 1 \/ isPrime(n) THEN n ELSE Down[n - 1]
  IN  Down[(3 * m) \div 4 + 1]

\* A queue size whose multiplier is 1 takes the next larger modulus that has
\* a better one.
generator(q) ==
  LET Search[m \in Nat] == IF getA(m) % m = 1 THEN Search[m + 1] ELSE m
      m == Search[q]
  IN  IF q < 3 THEN [a |-> 1, c |-> 1, m |-> q]
               ELSE [a |-> getA(m) % m, c |-> getC(m), m |-> m]

\* One step of the walk: out-of-range values are skipped.
nextTry(g, q, n) ==
  LET Advance(k) == (g.a * k + g.c) % g.m
      Skip[k \in Nat] == IF k >= q THEN Skip[Advance(k)] ELSE k
  IN  Skip[Advance(n)]

\* next_try at the start of iteration i, for a queue of q pages
walk(q) ==
  LET g == generator(q)
      Next[i \in Nat] == IF i = 0 THEN 1 ELSE nextTry(g, q, Next[i - 1])
  IN  [i \in 0 .. q - 1 |-> Next[i]]

\* The page that iteration i looks at, for a start at first_try.
indexAt(w, q, first, i) == (w[i] + first) % q

=============================================================================
