------------------------------ MODULE Duration ------------------------------
(***************************************************************************)
(* time.Duration as the Go runtime holds it: a signed integer of Width     *)
(* limbs of base Base in two's complement, so that the multiplication of   *)
(* retry() (backoff = backoff * backoffMultiplier) wraps around exactly as *)
(* the int64 does.  A duration is a tuple of limbs, the least significant  *)
(* first.  Numbers above 2^31 never appear in a computation: the limbs are *)
(* below Base and every carry is below the small factor, so base 2^16 and  *)
(* 4 limbs give the int64 of Go.                                           *)
(***************************************************************************)
LOCAL INSTANCE Naturals
LOCAL INSTANCE Sequences

CONSTANTS
  Base,   \* the base of a limb
  Width   \* the number of limbs

ASSUME Base \in Nat /\ Base >= 2 /\ Base % 2 = 0
ASSUME Width \in Nat \ {0}

Durations == [1..Width -> 0..Base - 1]

\* The first k limbs of n, least significant first.
RECURSIVE Digits(_, _)
Digits(n, k) == IF k = 0 THEN <<>> ELSE <<n % Base>> \o Digits(n \div Base, k - 1)

\* A non-negative constant as a duration (time.Second is FromNat(10^9)).
FromNat(n) == Digits(n, Width)

\* Limbs i..Width of d times m with carry c into limb i; the carry out of
\* the top limb is lost, which is the wrap-around of the signed multiply.
RECURSIVE MulFrom(_, _, _, _)
MulFrom(d, m, i, c) ==
  IF i > Width THEN <<>>
  ELSE LET p == d[i] * m + c
       IN  <<p % Base>> \o MulFrom(d, m, i + 1, p \div Base)

\* d * m for a small non-negative m, modulo Base^Width.
Mul(d, m) == MulFrom(d, m, 1, 0)

\* The unsigned value of limbs i..Width; defined only while it is below 2^31.
RECURSIVE ValueFrom(_, _)
ValueFrom(d, i) == IF i > Width THEN 0 ELSE d[i] + Base * ValueFrom(d, i + 1)

ToNat(d) == ValueFrom(d, 1)

\* The sign bit is set: the duration is negative.
Negative(d) == d[Width] >= Base \div 2

\* time.Sleep returns at once for a duration that is not positive.
NonPositive(d) == Negative(d) \/ d = FromNat(0)
=============================================================================
