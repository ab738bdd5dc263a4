--------------------------------- MODULE Money ---------------------------------
(***************************************************************************)
(* The money arithmetic of core: rounding (core/money.go), the largest-    *)
(* remainder split Allocate, the storage bounds of core/limits.go, and     *)
(* FixedRate.Convert (core/fixed_rate.go).  A decimal is [coef, exp], the  *)
(* value coef * 10^exp, exactly the two fields of shopspring's Decimal.    *)
(* An operation that fails returns Refused.                                *)
(***************************************************************************)
EXTENDS Integers, Sequences, SequencesExt

CONSTANTS
    MaxIntegerDigits,     \* MaxAmountIntegerDigits (12 in the code)
    MaxFractionalDigits,  \* MaxAmountFractionalDigits (18 in the code)
    GuardDigits           \* reversalScaleGuardDigits (12 in the code)

MoneyAssumption ==
    /\ {MaxIntegerDigits, MaxFractionalDigits, GuardDigits} \subseteq Nat
    /\ MaxIntegerDigits >= 2     \* room for decimal.Zero, written 0 * 10^1

MaxWorkingDigits == 2 * MaxFractionalDigits

Modes   == {"half_up", "half_even", "down", "up"}
Refused == [coef |-> 0, exp |-> 1000]

Abs(n) == IF n < 0 THEN -n ELSE n

-----------------------------------------------------------------------------
(* Rounding.                                                               *)

\* n / d for natural n and positive d, rounded to an integer.
RoundNat(n, d, mode) ==
    LET down == n \div d
        rest == n % d
        bump == CASE mode = "half_up"   -> 2 * rest >= d
                  [] mode = "half_even" -> 2 * rest > d \/ (2 * rest = d /\ down % 2 = 1)
                  [] mode = "up"        -> rest > 0
                  [] mode = "down"      -> FALSE
    IN  IF bump THEN down + 1 ELSE down

\* The four modes treat negative numbers as the mirror image of positive ones.
RoundDiv(n, d, mode) ==
    IF n < 0 THEN -RoundNat(-n, d, mode) ELSE RoundNat(n, d, mode)

\* Length of the decimal string of a coefficient without its sign.
DigitCount(n) ==
    LET m == Abs(n)
    IN  CHOOSE k \in 1..10 : m < 10^k /\ (k = 1 \/ m >= 10^(k - 1))

\* validateAmountIsRescalable: what the helpers will compute on.
Rescalable(d) ==
    /\ d.exp <= MaxIntegerDigits
    /\ d.exp >= -MaxWorkingDigits
    /\ DigitCount(d.coef) + d.exp <= MaxIntegerDigits

\* ValidateAmountMagnitude: what NUMERIC(30,18) can store.
ValidMagnitude(d) ==
    /\ d.exp <= MaxIntegerDigits
    /\ d.exp >= -MaxFractionalDigits
    /\ DigitCount(d.coef) + d.exp <= MaxIntegerDigits

\* The value needs no more than the given number of places, however it is written.
HasPlaces(d, places) == d.exp >= -places \/ d.coef % 10^(-places - d.exp) = 0

\* roundChecked: the value at the given number of places.  RoundDown and RoundUp
\* hand back a value that needs no rounding as it is written.
RoundChecked(d, places, mode) ==
    IF mode \in {"down", "up"} /\ HasPlaces(d, places) THEN d
    ELSE IF d.exp >= -places THEN [coef |-> d.coef * 10^(d.exp + places), exp |-> -places]
    ELSE [coef |-> RoundDiv(d.coef, 10^(-places - d.exp), mode), exp |-> -places]

Round(d, places, mode) ==
    IF places \in (-MaxWorkingDigits)..MaxWorkingDigits /\ Rescalable(d)
    THEN RoundChecked(d, places, mode) ELSE Refused

ConvertAt(amount, rate, targetExp, mode) ==
    IF /\ targetExp \in (-MaxWorkingDigits)..MaxWorkingDigits
       /\ Rescalable(amount) /\ Rescalable(rate)
    THEN Round([coef |-> amount.coef * rate.coef, exp |-> amount.exp + rate.exp],
               targetExp, mode)
    ELSE Refused

\* decimal.Zero, as shopspring writes it.
Zero == [coef |-> 0, exp |-> 1]

\* FixedRate.Convert: the source quantity is never rounded, and what the rounding
\* carries or leaves past the storage bounds is refused.
Convert(quantity, rate, sourceExp, targetExp, mode) ==
    IF /\ quantity.coef >= 0 /\ ValidMagnitude(quantity) /\ HasPlaces(quantity, sourceExp)
       /\ rate.coef > 0 /\ Rescalable(rate)
    THEN LET q == IF quantity.coef = 0 THEN Zero ELSE quantity
             a == ConvertAt(q, rate, targetExp, mode)
         IN  IF a # Refused /\ ValidMagnitude(a) THEN a ELSE Refused
    ELSE Refused

-----------------------------------------------------------------------------
(* Splitting.  Totals and weights are counts of smallest units.            *)

SumOf(s) == FoldLeft(LAMBDA a, b : a + b, 0, s)

\* Fault: what the floors leave over goes to the first shares.
AllocateFirst(total, weights) ==
    LET all    == SumOf(weights)
        floor  == [i \in DOMAIN weights |-> (Abs(total) * weights[i]) \div all]
        left   == Abs(total) - SumOf(floor)
        share(i) == IF i <= left THEN floor[i] + 1 ELSE floor[i]
    IN  [i \in DOMAIN weights |-> IF total < 0 THEN -share(i) ELSE share(i)]

\* Allocate: floors of the ideal shares, then one unit each to the largest remainders,
\* ties by input order; a negative total is split by its magnitude.
Allocate(total, weights) ==
    LET all    == SumOf(weights)
        floor  == [i \in DOMAIN weights |-> (Abs(total) * weights[i]) \div all]
        rest   == [i \in DOMAIN weights |-> (Abs(total) * weights[i]) % all]
        left   == Abs(total) - SumOf(floor)
        before(j, i) == rest[j] > rest[i] \/ (rest[j] = rest[i] /\ j < i)
        rank(i)  == Len(SelectSeq([j \in DOMAIN weights |-> before(j, i)], LAMBDA b : b))
        share(i) == IF rank(i) < left THEN floor[i] + 1 ELSE floor[i]
    IN  [i \in DOMAIN weights |-> IF total < 0 THEN -share(i) ELSE share(i)]

\* scaleByFraction (postgres/reversal_fraction_store.go): DivRound keeps the guard
\* digits, then the result is rounded again.
ScaleByFraction(total, num, den) ==
    LET guard == 10^GuardDigits
    IN  RoundDiv(RoundDiv(total * num * guard, den, "half_up"), guard, "half_up")
=============================================================================
