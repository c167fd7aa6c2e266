------------------------------- MODULE Widths -------------------------------
(***************************************************************************)
(* The widths of the C types whose limits matter, scaled down for TLC.     *)
(***************************************************************************)
EXTENDS Integers

CONSTANTS
  Byte,      \* 2^8: what uint8_t counts modulo
  Digits,    \* 4: bytes of a uint32_t
  Word       \* 2^32: what uint32_t, and size_t on the ESP32, count modulo

\* Byte ^ n, as far as a number of this width goes.
Powers[n \in 0 .. Digits] == IF n = 0 THEN 1 ELSE Byte * Powers[n - 1]

ASSUME WidthsAssumption ==
  /\ Byte \in Nat /\ Byte > 2
  /\ Digits \in Nat /\ Digits > 0
  /\ Word \in Nat \ {0} /\ Word = Powers[Digits]
  /\ Word % (2 * Byte) = 0
=============================================================================
