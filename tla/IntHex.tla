-------------------------------- MODULE IntHex --------------------------------
(***************************************************************************)
(* The number conversions of bf/inthex.h.  uinttostr, in base 10 or any    *)
(* other, and its callers inttostr and inttohex write the digits of a      *)
(* number from the end of a buffer towards its start; the overloads that   *)
(* return a string bring a buffer with as many bytes as the number has     *)
(* bits, and those of inttostr and inttohex take an unsigned number and    *)
(* hand it on as a signed one.  hextoint reads digits.  The 64-bit         *)
(* functions are the same code.                                            *)
(*                                                                         *)
(* Limit is 2 to the number of bits; a cell is written once, so the text   *)
(* is what lies between c and the terminator.                              *)
(*                                                                         *)
(* Definitions marked "Fault" are the definition after them with a bug, to *)
(* see that the properties notice; no specification uses them.             *)
(***************************************************************************)
EXTENDS Integers, Sequences

CONSTANTS Limit, BufferSize, Bases

ASSUME ConversionAssumption ==
  /\ Limit \in Nat \ {0} /\ Limit % 2 = 0
  /\ BufferSize \in Nat \ {0} /\ Bases \subseteq 2 .. 36

VARIABLES conv,   \* "idle", "digits" or "written"
          given,  \* the number the caller gave
          signed, \* the function takes it as a signed one
          base,
          val,    \* what is left of it
          c,      \* the offset of c in the buffer
          text    \* the cells from c on, without the terminator

conversionVars == <<conv, given, signed, base, val, c, text>>

Unsigned == 0 .. Limit - 1
Signed   == (-(Limit \div 2)) .. ((Limit \div 2) - 1)

Minus == 45    \* '-'

\* What a signed parameter makes of a number, and the string overloads of
\* inttostr and inttohex of an unsigned one.
AsInt(x) == IF x >= Limit \div 2 THEN x - Limit ELSE x

\* The number as the function has it.
Passed == IF signed THEN AsInt(given) ELSE given

\* abs of the least number is that number, which unsigned it is right again.
AbsUnsigned(x) == (IF x < 0 THEN -x ELSE x) % Limit

IntHexInit == /\ conv = "idle" /\ given = 0 /\ signed = FALSE /\ base = 10
              /\ val = 0 /\ c = 0 /\ text = <<>>

\* Fault: the terminator is put after the buffer.
EndOfBufferPast == BufferSize
EndOfBuffer == BufferSize - 1

Convert(x, sig, v, b) ==
  /\ conv = "idle" /\ conv' = "digits"
  /\ given' = x /\ signed' = sig /\ val' = v /\ base' = b
  /\ c' = EndOfBuffer /\ text' = <<>>

uinttostr(x, b) == Convert(x, FALSE, x, b)
inttostr(x)     == Convert(x, TRUE, AbsUnsigned(AsInt(x)), 10)
inttohex(x)     == Convert(x, TRUE, AbsUnsigned(AsInt(x)), 16)

\* Fault: the letters start one digit early.
DigitTooFar(d) == IF d < 9 THEN 48 + d ELSE 65 + d - 10
\* '0' to '9', 'A' to 'Z'.
Digit(d) == IF d <= 9 THEN 48 + d ELSE 65 + d - 10

\* One turn of do ... while (val).
WriteDigit ==
  /\ conv = "digits"
  /\ val > 0 \/ text = <<>>
  /\ text' = <<Digit(val % base)>> \o text
  /\ c' = c - 1
  /\ val' = val \div base
  /\ UNCHANGED <<conv, given, signed, base>>

\* The digits are there; inttostr puts a sign before those of a negative number.
Finish ==
  /\ conv = "digits"
  /\ val = 0 /\ text # <<>>
  /\ IF base = 10 /\ Passed < 0 THEN text' = <<Minus>> \o text /\ c' = c - 1
                              ELSE UNCHANGED <<text, c>>
  /\ conv' = "written"
  /\ UNCHANGED <<given, signed, base, val>>

Take == /\ conv = "written"
        /\ conv' = "idle" /\ given' = 0 /\ signed' = FALSE /\ base' = 10
        /\ val' = 0 /\ c' = 0 /\ text' = <<>>

IntHexNext == \/ \E x \in Unsigned : \E b \in Bases : uinttostr(x, b)
              \/ \E x \in Signed \cup Unsigned : inttostr(x) \/ inttohex(x)
              \/ WriteDigit \/ Finish \/ Take

-------------------------------------------------------------------------------
\* What hextoint adds for a character: upper and lower case letters, and
\* nothing for what is no digit.
HexValue(ch) == CASE ch \in 48 .. 57  -> ch - 48
                  [] ch \in 65 .. 70  -> ch - 70 + 15
                  [] ch \in 97 .. 102 -> ch - 102 + 15
                  [] OTHER            -> 0

\* hextoint of the first n characters; res <<= 4 loses what leaves the top.
hextoint(s) ==
  LET res[n \in 0 .. Len(s)] ==
        IF n = 0 THEN 0 ELSE (res[n - 1] * 16 + HexValue(s[n])) % Limit
  IN  res[Len(s)]

\* What a reader takes the text for: a sign, and digits by their place in base
\* b; what is no digit is worth more than any.
Value(ch) == CASE ch \in 48 .. 57 -> ch - 48
               [] ch \in 65 .. 90 -> ch - 65 + 10
               [] OTHER           -> 36
Reading(s, b) ==
  LET sum[n \in 0 .. Len(s)] ==
        IF n = 0 \/ s[n] = Minus THEN 0 ELSE sum[n - 1] * b + Value(s[n])
  IN  IF Head(s) = Minus THEN -sum[Len(s)] ELSE sum[Len(s)]

(* The text that is returned is the number that was given, the most        *)
(* negative one included, in any base, and inttohex drops the sign.  It is *)
(* another number exactly when the overload of inttostr or inttohex that   *)
(* returns a string is given an unsigned one of the upper half: it then    *)
(* writes the number less 2 to the number of bits (3000000000 becomes      *)
(* -1294967296, and 0xFFFFFFFF the hexadecimal 1).  hextoint reads back    *)
(* what is written in base 16.                                             *)
TextIsTheNumber == conv = "written" =>
  LET number == IF signed /\ given >= Limit \div 2 THEN given - Limit ELSE given
  IN  /\ Reading(text, base) = IF base = 16 /\ number < 0 THEN -number ELSE number
      /\ base = 16 => hextoint(text) = Reading(text, base)

(* No digit, sign or terminator is written outside the buffer, although    *)
(* nothing in the loop looks at its start, except for one byte: a number   *)
(* of the upper half, with its highest bit set, has in base 2 a digit for  *)
(* every byte of the buffer, and the terminator takes one of them.         *)
InsideBuffer == conv # "idle" =>
  /\ c + Len(text) = BufferSize - 1
  /\ c >= 0 \/ (c = -1 /\ base = 2 /\ given >= Limit \div 2)
===============================================================================
