----------------------------- MODULE MoneyInputs -----------------------------
(* The arithmetic of Money over every small input: weights are added one by   *)
(* one, fractions and conversions are drawn digit by digit.                   *)
EXTENDS Money

CONSTANTS MaxTotal, MaxWeight, MaxParts, Coefs, MaxPlaces, MaxExp

MinExp == -MaxPlaces

VARIABLES total, weights, mode

AllocateInit ==
    /\ total \in (-MaxTotal)..MaxTotal
    /\ weights = <<>>
    /\ mode = "half_up"

AddWeight ==
    /\ Len(weights) < MaxParts
    /\ \E w \in 0..MaxWeight : weights' = Append(weights, w)
    /\ UNCHANGED <<total, mode>>

\* A conversion: total is the quantity, weights the rate and the two exponents.
ConvertInit ==
    /\ total \in [coef : Coefs \cup {-1}, exp : MinExp..MaxExp]
    /\ weights = <<>>
    /\ mode \in Modes

DrawRate ==
    /\ Len(weights) = 0
    /\ \E r \in [coef : Coefs, exp : MinExp..MaxExp],
          s, t \in 0..MaxFractionalDigits : weights' = <<r, s, t>>
    /\ UNCHANGED <<total, mode>>

-----------------------------------------------------------------------------
Positive == weights # <<>> /\ SumOf(weights) > 0

\* Allocate: "the shares sum to exactly total -- no cent is ever lost or manufactured",
\* and every share is one of the two amounts next to its ideal share.
SharesAddUp ==
    Positive =>
        LET s == Allocate(total, weights)
            all == SumOf(weights)
        IN  /\ SumOf(s) = total
            /\ \A i \in DOMAIN s : Abs(Abs(s[i]) * all - Abs(total) * weights[i]) < all

\* What ReverseJournalFraction relies on: when no more than the sum of the weights is
\* split, no share exceeds its weight, and a larger weight never receives less.
SharesWithinWeights ==
    Positive /\ total \in 0..SumOf(weights) =>
        LET s == Allocate(total, weights)
        IN  /\ \A i \in DOMAIN s : s[i] <= weights[i]
            /\ \A i, j \in DOMAIN s : weights[i] > weights[j] => s[i] >= s[j]

\* scaleByFraction rounds twice; with fewer than 10^GuardDigits parts the guard digits
\* "never influence the final rounding".  Here num/den = weights[1]/weights[2].
ScaleExact ==
    (Len(weights) = 2 /\ weights[1] \in 1..weights[2] /\ weights[2] <= 10^GuardDigits) =>
        ScaleByFraction(total, weights[1], weights[2])
            = RoundDiv(total * weights[1], weights[2], "half_up")

\* The exact product and the result, in units of 10^(2 * MinExp).
Exact      == total.coef * weights[1].coef * 10^(total.exp + weights[1].exp - 2 * MinExp)
Units(a)   == a.coef * 10^(a.exp - 2 * MinExp)
Step       == 10^(-weights[3] - 2 * MinExp)

\* A conversion that is accepted can be stored, and it is the multiple of the target's
\* smallest unit that its mode promises: below or above the product, or nearest to it
\* with ties away from zero or to the even one.  Only the two nearest modes also write
\* it with the target's number of places.
ConvertSound ==
    weights # <<>> =>
        LET a == Convert(total, weights[1], weights[2], weights[3], mode)
            off == Units(a) - Exact
        IN  a # Refused =>
              /\ Abs(a.coef) < 10^(MaxIntegerDigits - a.exp) /\ a.exp >= -MaxFractionalDigits
              /\ Units(a) % Step = 0 /\ Abs(off) < Step
              /\ mode \in {"half_up", "half_even"} => a.exp = -weights[3]
              /\ mode = "down" => off <= 0
              /\ mode = "up"   => off >= 0
              /\ mode \in {"half_up", "half_even"} => 2 * Abs(off) <= Step
              /\ mode = "half_up"   /\ 2 * Abs(off) = Step => off > 0
              /\ mode = "half_even" /\ 2 * Abs(off) = Step => a.coef % 2 = 0

\* The product needs no rounding and is written with more places than can be stored:
\* rounding down or up leaves it so, and 1.0 x 1.0 is refused where one place is stored.
TooLong(q, r) ==
    /\ mode \in {"down", "up"} /\ Exact % Step = 0
    /\ (IF q.coef = 0 THEN Zero.exp ELSE q.exp) + r.exp < -MaxFractionalDigits

\* A quantity that is refused is negative, finer than its currency or too large, its
\* rate is unusable, or its exact product is written too long for a mode that leaves it
\* as it is; and that last one is always refused.
ConvertComplete ==
    weights # <<>> =>
        LET q == total
            r == weights[1]
            fits(d) == Abs(d.coef) < 10^(MaxIntegerDigits - d.exp)
        IN  ( /\ q.coef >= 0 /\ fits(q) /\ q.exp \in (-weights[2])..0
              /\ r.coef > 0 /\ fits(r) /\ r.exp \in (-MaxFractionalDigits)..0
              /\ Exact + Step <= 10^(MaxIntegerDigits - 2 * MinExp) )
            => (Convert(q, r, weights[2], weights[3], mode) = Refused <=> TooLong(q, r))

\* Allocate and scaleByFraction agree with their reference definitions.
AllocateExact == SharesAddUp /\ SharesWithinWeights /\ ScaleExact

\* Convert agrees with exact arithmetic.
ConvertExact == ConvertSound /\ ConvertComplete
=============================================================================
