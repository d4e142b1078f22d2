------------------------------ MODULE Amounts -------------------------------
(***************************************************************************)
(* expr.formatMinorUnits: an integer amount in minor units printed as a    *)
(* decimal with exactly as many fractional digits as the currency's        *)
(* exponent.  The two loops of the function, which build the power of ten  *)
(* and pad the fraction, are one action a round.  Signed integers lie in   *)
(* -Half .. Half - 1 and unsigned ones wrap at 2 * Half, as in Go, where   *)
(* Half is 2^63.                                                           *)
(***************************************************************************)
EXTENDS Integers

CONSTANTS
  Half,              \* the magnitude of the least signed integer
  MaxExponent,       \* the largest exponent of vectors/money/exponents.json
  Ten                \* the powers of ten up to MaxExponent

(* Every power of ten an exponent asks for is an unsigned integer.         *)
ASSUME PowersFit ==
  /\ Half \in Nat \ {0} /\ MaxExponent \in Nat
  /\ Ten \in [0 .. MaxExponent -> 1 .. 2 * Half - 1]
  /\ Ten[0] = 1 /\ \A e \in 1 .. MaxExponent : Ten[e] = 10 * Ten[e - 1]

VARIABLES
  pc,                \* where the caller, or formatMinorUnits, stands
  amount, exponent,  \* its arguments
  mag, div, count,   \* the magnitude, the power of ten, the rounds so far
  printed            \* the decimal: its sign, whole part, fraction and the
                     \* number of digits the fraction is written with
amountVars == <<amount, exponent, mag, div, count, printed>>

Signed == -Half .. Half - 1
Unsigned(n) == n % (2 * Half)

Decimal(negative, whole, frac, places) ==
  [negative |-> negative, whole |-> whole, frac |-> frac, places |-> places]
Zero == Decimal(FALSE, 0, 0, 0)

(* Mutant of Magnitude: the amount is negated as a signed integer, which   *)
(* has no counterpart for the least one.                                   *)
SignedMagnitude(n) ==
  IF n >= 0 THEN n ELSE IF n = -Half THEN n ELSE -n

Magnitude(n) == IF n < 0 THEN Unsigned(Unsigned(-(n + 1)) + 1) ELSE Unsigned(n)

(* The number of digits FormatUint writes for a fraction.                  *)
Width(n) == CHOOSE k \in 1 .. MaxExponent : n < Ten[k] /\ \A j \in 1 .. k - 1 : Ten[j] <= n

-----------------------------------------------------------------------------
FormatWhole ==
  /\ pc = "format" /\ exponent = 0 /\ pc' = "formatted"
  /\ printed' = Decimal(amount < 0, IF amount < 0 THEN -amount ELSE amount, 0, 0)
  /\ UNCHANGED <<amount, exponent, mag, div, count>>

BeginScale ==
  /\ pc = "format" /\ exponent # 0 /\ pc' = "scale"
  /\ mag' = Magnitude(amount) /\ div' = 1 /\ count' = 0
  /\ UNCHANGED <<amount, exponent, printed>>

(* Mutant of Scale: the loop variable is not advanced.                     *)
ScaleAgain ==
  /\ pc = "scale" /\ count < exponent
  /\ div' = Unsigned(div * 10)
  /\ UNCHANGED <<pc, amount, exponent, mag, count, printed>>

Scale ==
  /\ pc = "scale" /\ count < exponent
  /\ div' = Unsigned(div * 10) /\ count' = count + 1
  /\ UNCHANGED <<pc, amount, exponent, mag, printed>>

Split ==
  /\ pc = "scale" /\ count = exponent /\ pc' = "pad"
  /\ printed' = Decimal(amount < 0, mag \div div, mag % div, Width(mag % div))
  /\ UNCHANGED <<amount, exponent, mag, div, count>>

Pad ==
  /\ pc = "pad"
  /\ IF printed.places < exponent
     THEN printed' = [printed EXCEPT !.places = @ + 1] /\ UNCHANGED pc
     ELSE pc' = "formatted" /\ UNCHANGED printed
  /\ UNCHANGED <<amount, exponent, mag, div, count>>

Format == FormatWhole \/ BeginScale \/ Scale \/ Split \/ Pad

-----------------------------------------------------------------------------
(* What a decimal says in minor units.                                     *)
MinorUnits(d) ==
  LET units == d.whole * Ten[d.places] + d.frac IN IF d.negative THEN -units ELSE units

(* amount_major is exact (vectors/money/conversions.json): the decimal has *)
(* one digit for each place of the exponent and reads as the very amount,  *)
(* for every integer of the width, the least one and zero included.        *)
AmountIsExact ==
  pc = "formatted" => printed.places = exponent /\ MinorUnits(printed) = amount

=============================================================================
