-------------------------- MODULE MCIsPrimeServer --------------------------
(***************************************************************************)
(* Instances of IsPrimeServer for TLC: an even number, a prime, the square *)
(* of a prime, for which the last divisor tried decides, and a prime whose *)
(* test only stops at an r whose square has more than six bits.  The       *)
(* largest odd square of six bits is 57, and 59 and 61 are primes above;   *)
(* of 64 bits it is 2^64 - 7, and no prime is above.                       *)
(***************************************************************************)
EXTENDS IsPrimeServer

MCNumber     == {4, 7, 49, 53}
MCFewNumbers == {4, 7}
=============================================================================
