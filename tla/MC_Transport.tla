---------------------------- MODULE MC_Transport ----------------------------
(***************************************************************************)
(* Instantiates Transport for TLC: a success code, a client error, a       *)
(* whitelisted timeout and server error, and a server error outside the   *)
(* whitelist; budgets up to the code's maxRetries; either local mode.      *)
(***************************************************************************)
EXTENDS Transport

MCCodes == {200, 400, 408, 501, 503}
MCPayloads == {"json", "unencodable"}

\* The limb arithmetic of Duration at a width small enough for TLC to hold
\* the modulus (8 bits, four limbs of base 4), checked against integer
\* arithmetic for every duration: the wrapping multiply by
\* backoffMultiplier, the sign test and the conversion of a constant.
Small == INSTANCE Duration WITH Base <- 4, Width <- 4
SmallModulus == 4 ^ 4
ASSUME \A x \in Small!Durations :
         /\ Small!ToNat(Small!Mul(x, BackoffMultiplier))
              = (Small!ToNat(x) * BackoffMultiplier) % SmallModulus
         /\ Small!Negative(x) <=> Small!ToNat(x) >= SmallModulus \div 2
         /\ Small!FromNat(Small!ToNat(x)) = x
=============================================================================
