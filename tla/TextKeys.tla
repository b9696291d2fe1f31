------------------------------- MODULE TextKeys -------------------------------
(***************************************************************************)
(* strKey, striKey and the literal "..."_key (bf/bf.h): the first four     *)
(* characters of a text in one 32-bit number, for a switch over texts.     *)
(* char is signed, so a key is a sum with negative terms that wraps        *)
(* around.                                                                 *)
(*                                                                         *)
(* Radix is 2^8; the modules that use this one may have less.              *)
(*                                                                         *)
(* Definitions marked "Fault" are the definition after them with a bug, to *)
(* see that the properties notice; no specification uses them.             *)
(***************************************************************************)
EXTENDS Integers, Sequences

CONSTANTS Radix, Chars, MaxText

\* ch | 0x20, for the characters that are there.
LowerCase(ch) == IF ch = 0 \/ (ch \div 32) % 2 = 1 THEN ch ELSE ch + 32

\* What a place of a text can hold: 0 is its end.
Codes == Chars \cup {LowerCase(ch) : ch \in Chars} \cup {0}

\* A character is one digit of a key.  Signed characters of eight bits are.
ASSUME KeyAssumption ==
  /\ Radix \in Nat \ {0} /\ MaxText \in Nat
  /\ Chars \subseteq Int /\ 0 \notin Chars
  /\ \A x, y \in Codes : x - y \in (-(Radix - 1)) .. (Radix - 1)

VARIABLES left, right,  \* the text of a switch and that of a case
          keys,         \* strKey of the one and "..."_key of the other
          foldedKeys    \* striKey of both

keyVars == <<left, right, keys, foldedKeys>>

Texts == UNION {[1 .. n -> Chars] : n \in 0 .. MaxText}

\* The character at a place of a text, and nothing after its end.
At(s, i) == IF i \in 1 .. Len(s) THEN s[i] ELSE 0

\* Fault: the key has room for three characters.
KeyOfThree(a, b, c, d) ==
  ((a * Radix + b) * Radix + c) % (Radix * (Radix * (Radix * Radix)))
\* The four shifts and their sum.
Key(a, b, c, d) ==
  (((a * Radix + b) * Radix + c) * Radix + d) % (Radix * (Radix * (Radix * Radix)))

strKey(s) == Key(At(s, 1), At(s, 2), At(s, 3), At(s, 4))

\* "..."_key: the compiler gives the length, strKey finds the end.
literalKey(s) == Key(At(s, 1), At(s, 2), At(s, 3), At(s, 4))

striKey(s) == Key(LowerCase(At(s, 1)), LowerCase(At(s, 2)),
                  LowerCase(At(s, 3)), LowerCase(At(s, 4)))

KeysInit == left = <<>> /\ right = <<>> /\ keys = <<>> /\ foldedKeys = <<>>

\* switch (strKey(s)) with a case of t.
CompareKeys ==
  /\ keys = <<>>
  /\ \E s, t \in Texts :
       /\ left' = s /\ right' = t
       /\ keys' = <<strKey(s), literalKey(t)>>
       /\ foldedKeys' = <<striKey(s), striKey(t)>>

ForgetKeys == /\ keys # <<>>
              /\ left' = <<>> /\ right' = <<>> /\ keys' = <<>> /\ foldedKeys' = <<>>

KeysNext == CompareKeys \/ ForgetKeys

KeysSpec == KeysInit /\ [][KeysNext]_keyVars

-------------------------------------------------------------------------------
SameStart(s, t) == \A i \in 1 .. 4 : At(s, i) = At(t, i)
SameStartAnyCase(s, t) == \A i \in 1 .. 4 : LowerCase(At(s, i)) = LowerCase(At(t, i))

(* Two texts have one key exactly when they start with the same four       *)
(* characters, shorter texts and signed characters included: no carry or   *)
(* borrow makes two keys meet, so a switch never takes a wrong case.       *)
KeysTellTexts == keys # <<>> =>
  /\ keys[1] = keys[2] <=> SameStart(left, right)
  /\ foldedKeys[1] = foldedKeys[2] <=> SameStartAnyCase(left, right)
===============================================================================
