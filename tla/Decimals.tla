------------------------------ MODULE Decimals ------------------------------
(* Arithmetic of the strategies and of the vectorised backtest.  A Decimal *)
(* keeps a fixed number of digits: a value is a whole number of some unit  *)
(* and a quotient is rounded to the unit, half to even.                    *)
EXTENDS Integers, FiniteSets, FiniteSetsExt

\* _divide, with the multiplication that follows it: one rounding
Rounded(numerator, denominator) ==
    LET q == numerator \div denominator
        r == numerator % denominator
    IN  IF 2 * r > denominator \/ (2 * r = denominator /\ q % 2 = 1)
        THEN q + 1 ELSE q
Fraction(value, numerator, denominator) ==
    IF value < 0 THEN -Rounded(-value * numerator, denominator)
    ELSE Rounded(value * numerator, denominator)

\* Decimal.sqrt, to whole units
Root(n) == CHOOSE r \in 0 .. n : r * r <= n /\ n < (r + 1) * (r + 1)

SumWeights(weights) == MapThenSumSet(LAMBDA s : weights[s], DOMAIN weights)

\* _capped_allocation, _allocate: who would get more than the maximum gets the
\* maximum, the others share what is left by their basis; the last of them
\* gets the remainder
CappedAllocation(basis, exposure, maximum) ==
    LET all == DOMAIN basis
        Left(remaining) == exposure - maximum * Cardinality(all \ remaining)
        Proposed(remaining, s) ==
            LET total == MapThenSumSet(LAMBDA t : basis[t], remaining)
            IN  IF total = 0
                THEN Rounded(Left(remaining), Cardinality(remaining))
                ELSE Fraction(Left(remaining), basis[s], total)
        Capped(remaining) == {s \in remaining : Proposed(remaining, s) > maximum}
        Shared(remaining) ==
            LET last == Max(remaining)
            IN  [s \in remaining |->
                    IF s # last THEN Proposed(remaining, s)
                    ELSE Left(remaining)
                           - MapThenSumSet(LAMBDA t : Proposed(remaining, t),
                                           remaining \ {last})]
        allocation[remaining \in SUBSET all] ==
            IF remaining = {} \/ Left(remaining) <= 0 THEN [s \in all |-> 0]
            ELSE IF Capped(remaining) = {}
            THEN [s \in all |-> IF s \in remaining THEN Shared(remaining)[s] ELSE 0]
            ELSE [s \in all |->
                    IF s \in Capped(remaining) THEN maximum
                    ELSE allocation[remaining \ Capped(remaining)][s]]
    IN  allocation[all]
=============================================================================
