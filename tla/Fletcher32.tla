------------------------------ MODULE Fletcher32 ------------------------------
(***************************************************************************)
(* fletcher32 (bf/bf.cpp): a checksum over 16-bit words in two 32-bit sums *)
(* modulo 65535.  The sums are reduced once a block, so a block must be    *)
(* short enough for them not to wrap around.                               *)
(*                                                                         *)
(* A word is a number below Base and a sum one below Base * Base; a step   *)
(* is a turn of a loop.  The words are read as they come, so the data is   *)
(* any sequence of them.                                                   *)
(*                                                                         *)
(* Definitions marked "Fault" are the definition after them with a bug, to *)
(* see that the properties notice; no specification uses them.             *)
(***************************************************************************)
EXTENDS Integers

CONSTANTS Base,   \* 2^16
          Block,  \* words between two reductions: 360
          MaxLen  \* bound on the bytes of the data

\* Twice the largest second sum after j words of a block.
Most2(j) == 4 * (Base - 1) + 2 * (j * (Base + Block)) + (Base - 1) * (j * (j + 1))

\* A block is short enough.  With 2^16, 360 is the largest that is.
ASSUME WidthAssumption ==
  /\ Base \in Nat \ {0, 1} /\ Block \in Nat \ {0} /\ MaxLen \in Nat
  /\ Block + 2 <= Base
  /\ Most2(Block) < 2 * (Base * Base)

VARIABLES phase,  \* "idle", "blocks", "words" or "hashed"
          len,    \* the words still to go, without those of the block
          tlen,   \* the words of the block still to go
          sum1, sum2,
          check1, check2  \* Fletcher's sums of the words so far

fletcherVars == <<phase, len, tlen, sum1, sum2, check1, check2>>

Word == 0 .. Base - 1
Wrap(x) == x % (Base * Base)

\* One reduction: the low half and the high half.
Fold(x) == (x % Base) + (x \div Base)

FletcherInit ==
  /\ phase = "idle" /\ len = 0 /\ tlen = 0
  /\ sum1 = 0 /\ sum2 = 0 /\ check1 = 0 /\ check2 = 0

\* An odd last byte is no word.
HashCall(bytes) ==
  /\ phase = "idle"
  /\ phase' = "blocks"
  /\ len' = bytes \div 2 /\ tlen' = 0
  /\ sum1' = Base - 1 /\ sum2' = Base - 1
  /\ check1' = 0 /\ check2' = 0

\* Fault: one word too many.
BlockOfOneMore == IF len > Block + 1 THEN Block + 1 ELSE len
BlockOf == IF len > Block THEN Block ELSE len

HashBlock ==
  /\ phase = "blocks" /\ len > 0
  /\ phase' = "words"
  /\ tlen' = BlockOf /\ len' = len - BlockOf
  /\ UNCHANGED <<sum1, sum2, check1, check2>>

HashWord(w) ==
  /\ phase = "words" /\ tlen > 0
  /\ sum1' = Wrap(sum1 + w)
  /\ sum2' = Wrap(sum2 + Wrap(sum1 + w))
  /\ tlen' = tlen - 1
  /\ check1' = (check1 + w) % (Base - 1)
  /\ check2' = (check2 + check1 + w) % (Base - 1)
  /\ UNCHANGED <<phase, len>>

HashFold ==
  /\ phase = "words" /\ tlen = 0
  /\ phase' = "blocks"
  /\ sum1' = Fold(sum1) /\ sum2' = Fold(sum2)
  /\ UNCHANGED <<len, tlen, check1, check2>>

\* Fault: the second reduction is left out.
LastFoldSkipped(x) == x
LastFold(x) == Fold(x)

HashDone ==
  /\ phase = "blocks" /\ len = 0
  /\ phase' = "hashed"
  /\ sum1' = LastFold(sum1) /\ sum2' = LastFold(sum2)
  /\ UNCHANGED <<len, tlen, check1, check2>>

HashReturn ==
  /\ phase = "hashed"
  /\ phase' = "idle" /\ len' = 0 /\ tlen' = 0
  /\ sum1' = 0 /\ sum2' = 0 /\ check1' = 0 /\ check2' = 0

FletcherNext == \/ \E bytes \in 0 .. MaxLen : HashCall(bytes)
                \/ HashBlock
                \/ \E w \in Word : HashWord(w)
                \/ HashFold \/ HashDone \/ HashReturn

FletcherSpec == FletcherInit /\ [][FletcherNext]_fletcherVars

-------------------------------------------------------------------------------
FletcherTypeOK ==
  /\ phase \in {"idle", "blocks", "words", "hashed"}
  /\ len \in Nat /\ tlen \in 0 .. Block
  /\ sum1 \in 0 .. Base * Base - 1 /\ sum2 \in 0 .. Base * Base - 1
  /\ check1 \in 0 .. Base - 2 /\ check2 \in 0 .. Base - 2

(* The two 32-bit sums never lose a carry: at every turn of the loops they *)
(* are Fletcher's sums modulo Base - 1 (the length of a block, and the     *)
(* reduction after it).                                                    *)
SumsAreFletchers ==
  sum1 % (Base - 1) = check1 /\ sum2 % (Base - 1) = check2

(* The two reduced sums are sixteen bits each, so that the shift and the   *)
(* or that make the hash of them mix nothing; and neither is ever 0, which *)
(* a hash of anything can be told from by the callers.                     *)
HashFits == phase = "hashed" => sum1 \in 1 .. Base - 1 /\ sum2 \in 1 .. Base - 1
===============================================================================
