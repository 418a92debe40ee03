------------------------------ MODULE FixedPoint ------------------------------
(***************************************************************************)
(* The unsigned fixed-point type `Number` (libraries/precise_number) and   *)
(* the conversions the vault builds from it.  A Number is represented by   *)
(* its integer value scaled by ONE; the library's ONE is 10^12.  Every     *)
(* operation rounds exactly as the library's does, so the value of ONE     *)
(* decides which quotients are exact and which lose or gain one unit.      *)
(***************************************************************************)
EXTENDS Integers

CONSTANT ONE            \* Number::DENOM, the scale of a Number

ASSUME ONEAssumption == ONE \in Nat \ {0}

(* Half a unit of the scale: what spl_math adds before it divides.         *)
Correction == ONE \div 2

Natural(n) == n * ONE

FloorU64(a) == a \div ONE
CeilU64(a) == (a + ONE - 1) \div ONE

NumMul(a, b) == (a * b + Correction) \div ONE

(* Callers guard against b = 0: the code unwraps a checked division.       *)
NumDiv(a, b) == (a * ONE + Correction) \div b

(* A ratio of two naturals; the library returns zero for a zero divisor.   *)
FromRatio(n, d) == IF d = 0 THEN 0 ELSE NumDiv(Natural(n), Natural(d))

Larger(a, b) == IF a >= b THEN a ELSE b
Smaller(a, b) == IF a <= b THEN a ELSE b

-----------------------------------------------------------------------------

(* SY and PY amounts at an exchange rate (utils/sy_cpi.rs).                *)
SyToPy(rate, sy) == FloorU64(NumMul(Natural(sy), rate))
PyToSy(rate, py) == FloorU64(NumDiv(Natural(py), rate))
PyToSyCeil(rate, py) == CeilU64(NumDiv(Natural(py), rate))

(* Value of `shares` shares accrued while an index moved from old to new.  *)
ShareValue(old, new, shares) ==
    IF new <= old THEN 0 ELSE FloorU64(NumMul(new - old, Natural(shares)))

(* SY whose base value is the appreciation of `amount` SY from old to new. *)
Appreciation(old, new, amount) ==
    IF new <= old THEN 0
    ELSE FloorU64(NumDiv(NumMul(new - old, Natural(amount)), new))

(* SY earned by `yt` YT while the rate moved from idx to rate.             *)
Earned(yt, idx, rate) ==
    IF idx >= rate \/ yt = 0 \/ idx = 0 THEN 0
    ELSE FloorU64(NumMul(NumDiv(ONE, idx) - NumDiv(ONE, rate), Natural(yt)))

(* SY earned at the final rate, expressed at a later, higher rate.         *)
ScaleToCurrent(sy, final, current) ==
    IF current <= final THEN sy
    ELSE FloorU64(NumMul(NumDiv(final, current), Natural(sy)))

(* Rates in basis points, up to the whole.                                 *)
BasisPoints == 0..10000

(* A fee in basis points, rounded up.                                      *)
FeeCeil(amount, bps) == (amount * bps + 9999) \div 10000
=============================================================================
