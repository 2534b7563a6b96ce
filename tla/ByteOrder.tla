----------------------------- MODULE ByteOrder -----------------------------
(***************************************************************************)
(* Sixteen-bit arithmetic as the elements do it: unsigned words that wrap, *)
(* and the exchange of the two bytes of a word that htons and ntohs are on *)
(* the little-endian machines the router runs on.  A word is two digits in *)
(* base Byte; Byte is 256 in the program and smaller in most instances, so *)
(* that TLC can visit every word.                                          *)
(***************************************************************************)
EXTENDS Integers

CONSTANT Byte

ASSUME ByteAssumption == Byte \in Nat /\ Byte > 1

Word == 0 .. (Byte * Byte - 1)

htons(w) == (w % Byte) * Byte + (w \div Byte)

ntohs(w) == htons(w)

\* The value of a - b in a uint16_t.
Minus(a, b) == (a - b) % (Byte * Byte)

\* The value of a word assigned to a variable of half its width.
Truncate(w) == w % Byte
=============================================================================
