------------------------------ MODULE Binary64 ------------------------------
(***************************************************************************)
(* The double-precision numbers ECMAScript computes with, as far as the    *)
(* rounding of leave credits needs them: numbers from zero to 2^12.  A     *)
(* number is the set of the exponents of the powers of two it sums, and a  *)
(* double has at most 53 of them from the largest down.                    *)
(***************************************************************************)
EXTENDS Integers, FiniteSetsExt

Low == -128     \* exponents below the last a product of two doubles has here
High == 11

\* A natural number below 2^(High + 1).
Whole(n) == {k \in 0..High : (n \div 2^k) % 2 = 1}

\* n / d to the exponent Low, by long division: rest[k] of d is left to divide
\* after the digit of 2^k.
Ratio(n, d) ==
    LET rest[k \in Low..0] == IF k = 0 THEN n % d ELSE (2 * rest[k + 1]) % d
    IN  Whole(n \div d) \cup {k \in Low..-1 : 2 * rest[k + 1] >= d}

\* x * y exactly: the pairs of powers that meet at each exponent, and the carry.
Product(x, y) ==
    LET sum[k \in Low..High] ==
            Cardinality({j \in x : k - j \in y}) + IF k = Low THEN 0 ELSE sum[k - 1] \div 2
    IN  {k \in Low..High : sum[k] % 2 = 1}

\* x and 2^k added: the carry goes to the first exponent x does not have.
Plus(x, k) == LET z == Min((k..High) \ x) IN {j \in x : j < k \/ j > z} \cup {z}

\* x less 2^k, when x is that large: the first power from k on is borrowed from.
Minus(x, k) == LET z == Min({j \in x : j >= k}) IN (x \ {z}) \cup (k..z - 1)

Less(x, y) == x # y /\ Max((x \ y) \cup (y \ x)) \in y

\* The nearest double, the one with an even last digit of two as near.
Rounded(x) ==
    LET last == Max(x) - 52
        kept == {k \in x : k >= last}
    IN  IF last - 1 \in x /\ (last \in x \/ \E k \in x : k < last - 1)
          THEN Plus(kept, last) ELSE kept

Quotient(n, d) == Rounded(Ratio(n, d))
Times(x, y) == Rounded(Product(x, y))

\* Math.ceil: how many natural numbers are below x, of the first Bound.
Ceil(x, Bound) == Cardinality({n \in 0..Bound - 1 : Less(Whole(n), x)})
=============================================================================
