--------------------------- MODULE Fletcher32Proofs ---------------------------
(***************************************************************************)
(* fletcher32 computes Fletcher's sums for data of any length, for every   *)
(* width and every block that is short enough for it (WidthAssumption).    *)
(*                                                                         *)
(* The argument is a bound on the two sums that grows with the words read  *)
(* since the last reduction; at the last word of a block it is still below *)
(* Base * Base, so Wrap changes nothing.  A reduction keeps the remainder  *)
(* modulo Base - 1, because Base is 1 more than that.                      *)
(***************************************************************************)
EXTENDS Fletcher32, WellFoundedInduction, TLAPS

\* The words read of the longest block that could still be running.
Read == Block - tlen

\* What the sums are at most before, in and after a block.
Bounds ==
  /\ phase = "blocks" => /\ sum1 \in 1 .. Base + Block
                         /\ sum2 \in 1 .. 2 * (Base - 1)
  /\ phase = "words"  => /\ sum1 \in 1 .. Base + Block + Read * (Base - 1)
                         /\ sum2 \in Nat \ {0} /\ 2 * sum2 <= Most2(Read)
  /\ HashFits

IInv == FletcherTypeOK /\ Bounds /\ SumsAreFletchers

-------------------------------------------------------------------------------
(* Numbers, and division as the two loops use it                           *)

\* Numbers, if there are any, have a least one among them.
LEMMA LeastNumber ==
  ASSUME NEW S \in SUBSET Nat, S # {}
  PROVE  \E m \in S : \A k \in S : m <= k
<1>1. PICK m \in S : \A k \in S : ~(<<k, m>> \in OpToRel(<, Nat))
  BY NatLessThanWellFounded, WFMin
<1>2. ASSUME NEW k \in S PROVE m <= k
  <2>1. k \in Nat /\ m \in Nat
    OBVIOUS
  <2>2. ~(k < m)
    BY <1>1, <2>1 DEF OpToRel
  <2> QED BY <2>1, <2>2
<1> QED BY <1>2

\* Names, so that the provers need not look inside.
Quo(x, m) == x \div m
Rem(x, m) == x % m

\* A number is its quotient and its remainder.
LEMMA Split ==
  ASSUME NEW x \in Nat, NEW m \in Nat \ {0}
  PROVE  /\ x = m * Quo(x, m) + Rem(x, m)
         /\ Rem(x, m) \in 0 .. m - 1
         /\ Quo(x, m) \in Nat
BY DEF Quo, Rem

\* A number below m is its own remainder.
LEMMA Small ==
  ASSUME NEW m \in Nat \ {0}, NEW x \in 0 .. m - 1
  PROVE  Rem(x, m) = x
BY DEF Rem

\* There is one such pair.
LEMMA Unique ==
  ASSUME NEW m \in Nat \ {0}, NEW q \in Int, NEW t \in Int,
         NEW r \in 0 .. m - 1, NEW s \in 0 .. m - 1,
         m * q + r = m * t + s
  PROVE  r = s /\ q = t
OBVIOUS

\* Numbers that differ by a multiple of m have one remainder.
LEMMA SameRemainder ==
  ASSUME NEW m \in Nat \ {0}, NEW x \in Nat, NEW y \in Nat, NEW k \in Int,
         x = y + m * k
  PROVE  Rem(x, m) = Rem(y, m)
<1>1. PICK q \in Nat, r \in 0 .. m - 1 : x = m * q + r /\ Rem(x, m) = r
  BY Split
<1>2. PICK t \in Nat, s \in 0 .. m - 1 : y = m * t + s /\ Rem(y, m) = s
  BY Split
<1>3. m * q + r = m * (t + k) + s
  BY <1>1, <1>2
<1>4. r = s
  BY <1>3, Unique
<1> QED BY <1>1, <1>2, <1>4

\* Adding one number to two of one remainder gives two of one remainder.
LEMMA AddToBoth ==
  ASSUME NEW m \in Nat \ {0}, NEW x \in Nat, NEW y \in Nat, NEW w \in Nat,
         Rem(x, m) = Rem(y, m)
  PROVE  Rem(x + w, m) = Rem(y + w, m)
<1>1. PICK q \in Nat, r \in 0 .. m - 1 : x = m * q + r /\ Rem(x, m) = r
  BY Split
<1>2. PICK t \in Nat, s \in 0 .. m - 1 : y = m * t + s /\ Rem(y, m) = s
  BY Split
<1>3. r = s
  BY <1>1, <1>2
<1>4. x + w = (y + w) + m * (q - t) /\ q - t \in Int
  BY <1>1, <1>2, <1>3
<1>5. x + w \in Nat /\ y + w \in Nat
  OBVIOUS
<1> QED BY <1>4, <1>5, SameRemainder

\* A reduction keeps the remainder modulo Base - 1.
LEMMA FoldKeepsRemainder ==
  ASSUME NEW x \in Nat
  PROVE  Fold(x) \in Nat /\ Rem(Fold(x), Base - 1) = Rem(x, Base - 1)
<1> USE WidthAssumption
<1> DEFINE q == Quo(x, Base)
           r == Rem(x, Base)
<1>1. x = Base * q + r /\ r \in 0 .. Base - 1 /\ q \in Nat
  BY Split
<1>2. Fold(x) = r + q /\ Fold(x) \in Nat
  BY <1>1 DEF Fold, Quo, Rem
<1>3. Base * q = (Base - 1) * q + q
  BY <1>1
<1>4. x = Fold(x) + (Base - 1) * q
  BY <1>1, <1>2, <1>3
<1>5. Base - 1 \in Nat \ {0} /\ q \in Int
  BY <1>1
<1> HIDE DEF q, r
<1> QED BY <1>2, <1>4, <1>5, SameRemainder

\* What a reduction makes of numbers of one, of two and of any digits.
LEMMA FoldBounds ==
  ASSUME NEW x \in Nat \ {0}
  PROVE  /\ Fold(x) \in Nat \ {0}
         /\ x <= 2 * (Base - 1) => Fold(x) <= Base - 1
         /\ x < Base * Base => Fold(x) <= 2 * (Base - 1)
         /\ x <= Base * (Block + 1) => Fold(x) <= Base + Block
<1> USE WidthAssumption
<1> DEFINE q == Quo(x, Base)
           r == Rem(x, Base)
<1>1. x = Base * q + r /\ r \in 0 .. Base - 1 /\ q \in Nat
  BY Split
<1>2. Fold(x) = r + q
  BY DEF Fold, Quo, Rem
<1> HIDE DEF q, r
<1>3. Fold(x) \in Nat \ {0}
  BY <1>1, <1>2
<1>4. ASSUME x <= 2 * (Base - 1) PROVE Fold(x) <= Base - 1
  <2>1. q <= 1
    BY <1>1, <1>4
  <2> QED BY <1>1, <1>2, <1>4, <2>1
<1>5. ASSUME x < Base * Base PROVE Fold(x) <= 2 * (Base - 1)
  <2>1. q <= Base - 1
    BY <1>1, <1>5
  <2> QED BY <1>1, <1>2, <2>1
<1>6. ASSUME x <= Base * (Block + 1) PROVE Fold(x) <= Base + Block
  <2>1. q <= Block + 1
    BY <1>1, <1>6
  <2>2. q = Block + 1 => r = 0
    BY <1>1, <1>6
  <2> QED BY <1>1, <1>2, <2>1, <2>2
<1> QED BY <1>3, <1>4, <1>5, <1>6

-------------------------------------------------------------------------------
(* The bound on the sums                                                   *)

\* It grows by what a word adds at most.
LEMMA Most2Step ==
  ASSUME NEW j \in Nat
  PROVE  /\ Most2(j) \in Nat
         /\ Most2(j + 1) = Most2(j) + 2 * (Base + Block) + 2 * ((Base - 1) * (j + 1))
<1> USE WidthAssumption
<1>1. j * (j + 1) \in Nat /\ (j + 1) * (j + 2) = j * (j + 1) + 2 * (j + 1)
  OBVIOUS
<1>2. (Base - 1) * (j * (j + 1) + 2 * (j + 1))
        = (Base - 1) * (j * (j + 1)) + 2 * ((Base - 1) * (j + 1))
  BY <1>1
<1>3. (j + 1) * (Base + Block) = j * (Base + Block) + (Base + Block)
  OBVIOUS
<1> QED BY <1>1, <1>2, <1>3 DEF Most2

\* It is below Base * Base as long as the block lasts.
LEMMA Most2Fits ==
  ASSUME NEW j \in 0 .. Block
  PROVE  Most2(j) < 2 * (Base * Base)
<1> USE WidthAssumption
<1>1. j * (j + 1) <= Block * (Block + 1) /\ j * (j + 1) \in Nat
      /\ Block * (Block + 1) \in Nat
  OBVIOUS
<1>2. (Base - 1) * (j * (j + 1)) <= (Base - 1) * (Block * (Block + 1))
  BY <1>1
<1>3. j * (Base + Block) <= Block * (Base + Block)
  OBVIOUS
<1> QED BY <1>2, <1>3 DEF Most2
-------------------------------------------------------------------------------
(* Every step keeps the invariant                                          *)

\* Nothing has been read yet.
LEMMA InitIInv == FletcherInit => IInv
<1> USE WidthAssumption
<1> SUFFICES ASSUME FletcherInit PROVE IInv
  OBVIOUS
<1>1. 0 % (Base - 1) = 0
  OBVIOUS
<1> QED BY <1>1 DEF FletcherInit, IInv, FletcherTypeOK, Bounds, HashFits, SumsAreFletchers

\* The sums start from Base - 1, which is 0 to Fletcher.
LEMMA CallStep ==
  ASSUME IInv, NEW bytes \in 0 .. MaxLen, HashCall(bytes)
  PROVE  IInv'
<1> USE WidthAssumption
<1>1. (Base - 1) % (Base - 1) = 0 /\ bytes \div 2 \in Nat
  OBVIOUS
<1>2. FletcherTypeOK'
  BY <1>1 DEF HashCall, IInv, FletcherTypeOK
<1> QED BY <1>1, <1>2 DEF HashCall, IInv, Bounds, HashFits, SumsAreFletchers

\* A new block starts within the bounds of one that has been running.
LEMMA BlockStep ==
  ASSUME IInv, HashBlock
  PROVE  IInv'
<1> USE WidthAssumption
<1> DEFINE j == Block - tlen'
<1>1. tlen' \in 1 .. Block /\ len' \in Nat /\ j \in 0 .. Block
  BY DEF HashBlock, BlockOf, IInv, FletcherTypeOK
<1>2. FletcherTypeOK'
  BY <1>1 DEF HashBlock, IInv, FletcherTypeOK
<1>3. /\ sum1 \in 1 .. Base + Block /\ sum2 \in 1 .. 2 * (Base - 1)
      /\ sum1' = sum1 /\ sum2' = sum2 /\ phase' = "words"
  BY DEF HashBlock, IInv, Bounds
<1> HIDE DEF j
<1>4. j * (Base - 1) \in Nat /\ j * (Base + Block) \in Nat /\ (Base - 1) * (j * (j + 1)) \in Nat
  BY <1>1
<1>5. 2 * sum2 <= Most2(j)
  BY <1>3, <1>4 DEF Most2
<1>6. sum1 \in 1 .. Base + Block + j * (Base - 1)
  BY <1>3, <1>4
<1>7. Read' = j
  BY DEF Read, j
<1>8. Bounds'
  BY <1>3, <1>5, <1>6, <1>7 DEF Bounds, HashFits
<1>9. SumsAreFletchers'
  BY DEF HashBlock, IInv, SumsAreFletchers
<1> QED BY <1>2, <1>8, <1>9 DEF IInv

\* A word adds less than the room that is left for it.
LEMMA WordStep ==
  ASSUME IInv, NEW w \in Word, HashWord(w)
  PROVE  IInv'
<1> USE WidthAssumption
<1> DEFINE j == Block - tlen
           a == sum1 + w
           b == sum2 + sum1 + w
<1>1. /\ phase = "words" /\ tlen \in 1 .. Block /\ j \in 0 .. Block - 1
      /\ sum1 \in Nat \ {0} /\ sum2 \in Nat \ {0} /\ w \in 0 .. Base - 1
      /\ check1 \in Nat /\ check2 \in Nat
  BY DEF HashWord, IInv, FletcherTypeOK, Bounds, Word
<1>2. sum1 <= Base + Block + j * (Base - 1) /\ 2 * sum2 <= Most2(j)
  BY <1>1 DEF IInv, Bounds, Read
<1> HIDE DEF j
<1>3. (j + 1) * (Base - 1) = j * (Base - 1) + (Base - 1) /\ (Base - 1) * (j + 1) = (j + 1) * (Base - 1)
  BY <1>1
<1>4. a \in 1 .. Base + Block + (j + 1) * (Base - 1)
  BY <1>1, <1>2, <1>3
<1>5. b \in Nat \ {0} /\ 2 * b <= Most2(j + 1)
  BY <1>1, <1>2, <1>3, <1>4, Most2Step
<1>6. Most2(j + 1) < 2 * (Base * Base)
  BY <1>1, Most2Fits
<1>7. a <= b /\ b < Base * Base
  <2>1. a <= b
    BY <1>1
  <2>2. Most2(j + 1) \in Nat /\ Base * Base \in Nat
    BY <1>1, Most2Step
  <2> HIDE DEF a, b
  <2> QED BY <1>5, <1>6, <2>1, <2>2
<1> DEFINE n == Base * Base
<1>8. n \in Nat \ {0} /\ a \in 0 .. n - 1 /\ b \in 0 .. n - 1
  BY <1>1, <1>4, <1>5, <1>7
<1> HIDE DEF a, b, n
<1>9. a % n = a /\ b % n = b
  BY <1>8
<1>10. sum1' = a /\ sum2' = b
  BY <1>1, <1>9 DEF HashWord, Wrap, a, b, n
<1>11. tlen' = tlen - 1 /\ phase' = "words" /\ Read' = j + 1
  BY <1>1 DEF HashWord, Read, j
<1>12. check1' \in 0 .. Base - 2 /\ check2' \in 0 .. Base - 2
  <2> DEFINE m == Base - 1
  <2>1. /\ check1' = Rem(check1 + w, m) /\ check2' = Rem(check2 + check1 + w, m)
        /\ m \in Nat \ {0} /\ m - 1 = Base - 2
        /\ check1 + w \in Nat /\ check2 + check1 + w \in Nat
    BY <1>1 DEF HashWord, Rem
  <2> HIDE DEF m
  <2> QED BY <2>1, Split
<1>13. FletcherTypeOK'
  BY <1>1, <1>8, <1>10, <1>11, <1>12 DEF HashWord, IInv, FletcherTypeOK, n
<1>14. Bounds'
  BY <1>4, <1>5, <1>10, <1>11 DEF Bounds, HashFits
<1>15. SumsAreFletchers'
  <2> DEFINE m == Base - 1
             c == check1 + w
  <2>1. m \in Nat \ {0} /\ Rem(sum1, m) = check1 /\ Rem(sum2, m) = check2
    BY DEF IInv, SumsAreFletchers, Rem
  <2>2. check1 \in 0 .. m - 1 /\ check2 \in 0 .. m - 1 /\ c \in Nat
    BY <1>1 DEF IInv, FletcherTypeOK
  <2> HIDE DEF m
  <2>3. Rem(check1, m) = check1 /\ Rem(check2, m) = check2
    BY <2>1, <2>2, Small
  <2>4. a \in Nat /\ Rem(sum1 + w, m) = Rem(check1 + w, m)
    BY <1>1, <1>4, <2>1, <2>3, AddToBoth
  <2>5. Rem(a, m) = Rem(c, m)
    BY <2>4 DEF a
  <2>6. Rem(sum2 + a, m) = Rem(check2 + a, m)
    BY <1>1, <2>1, <2>3, <2>4, AddToBoth
  <2> HIDE DEF c
  <2>7. Rem(a + check2, m) = Rem(c + check2, m)
    BY <1>1, <2>1, <2>2, <2>4, <2>5, AddToBoth
  <2>8. sum2 + a = b /\ check2 + a = a + check2 /\ c + check2 = check2 + check1 + w
    BY <1>1, <2>2, <2>4 DEF a, b, c
  <2>9. Rem(b, m) = Rem(check2 + check1 + w, m)
    BY <2>6, <2>7, <2>8
  <2>10. Rem(a, m) = check1' /\ Rem(b, m) = check2'
    BY <2>5, <2>9 DEF HashWord, m, c, Rem
  <2> QED BY <1>10, <2>10 DEF SumsAreFletchers, m, Rem
<1> QED BY <1>13, <1>14, <1>15 DEF IInv

\* The reduction after a block makes room for the next.
LEMMA FoldStep ==
  ASSUME IInv, HashFold
  PROVE  IInv'
<1> USE WidthAssumption
<1>1. /\ phase = "words" /\ tlen = 0
      /\ sum1 \in 1 .. Base + Block + Block * (Base - 1)
      /\ sum2 \in 1 .. Base * Base - 1
  BY DEF HashFold, IInv, FletcherTypeOK, Bounds, Read
<1>2. Base + Block + Block * (Base - 1) = Base * (Block + 1)
  OBVIOUS
<1>3. Fold(sum1) \in 1 .. Base + Block /\ Fold(sum2) \in 1 .. 2 * (Base - 1)
  BY <1>1, <1>2, FoldBounds
<1>4. Base + Block < Base * Base /\ 2 * (Base - 1) < Base * Base
  OBVIOUS
<1>5. sum1' = Fold(sum1) /\ sum2' = Fold(sum2) /\ phase' = "blocks"
  BY DEF HashFold
<1>6. FletcherTypeOK'
  BY <1>3, <1>4, <1>5 DEF HashFold, IInv, FletcherTypeOK
<1>7. Bounds'
  BY <1>3, <1>5 DEF Bounds, HashFits
<1>8. SumsAreFletchers'
  BY <1>1, <1>5, FoldKeepsRemainder DEF HashFold, IInv, SumsAreFletchers, Rem
<1> QED BY <1>6, <1>7, <1>8 DEF IInv

\* The last reduction leaves one half of each sum.
LEMMA DoneStep ==
  ASSUME IInv, HashDone
  PROVE  IInv'
<1> USE WidthAssumption
<1>1. /\ sum1 \in 1 .. Base + Block /\ sum2 \in 1 .. 2 * (Base - 1)
      /\ Base + Block <= 2 * (Base - 1)
  BY DEF HashDone, IInv, Bounds
<1>2. Fold(sum1) \in 1 .. Base - 1 /\ Fold(sum2) \in 1 .. Base - 1
  BY <1>1, FoldBounds
<1>3. sum1' = Fold(sum1) /\ sum2' = Fold(sum2) /\ phase' = "hashed"
  BY DEF HashDone, LastFold
<1>4. Base - 1 < Base * Base
  OBVIOUS
<1>5. FletcherTypeOK'
  BY <1>2, <1>3, <1>4 DEF HashDone, IInv, FletcherTypeOK
<1>6. Bounds'
  BY <1>2, <1>3 DEF Bounds, HashFits
<1>7. SumsAreFletchers'
  BY <1>1, <1>3, FoldKeepsRemainder DEF HashDone, IInv, SumsAreFletchers, Rem
<1> QED BY <1>5, <1>6, <1>7 DEF IInv

\* A caller that has the hash starts from nothing.
LEMMA ReturnStep ==
  ASSUME IInv, HashReturn
  PROVE  IInv'
<1> USE WidthAssumption
<1>1. 0 % (Base - 1) = 0
  OBVIOUS
<1> QED BY <1>1 DEF HashReturn, IInv, FletcherTypeOK, Bounds, HashFits, SumsAreFletchers

(* Types, bounds and remainders hold at every turn of every loop.          *)
THEOREM Inductive == FletcherSpec => []IInv
<1>1. IInv /\ [FletcherNext]_fletcherVars => IInv'
  <2> SUFFICES ASSUME IInv, [FletcherNext]_fletcherVars PROVE IInv'
    OBVIOUS
  <2>1. CASE \E bytes \in 0 .. MaxLen : HashCall(bytes)
    BY <2>1, CallStep
  <2>2. CASE HashBlock
    BY <2>2, BlockStep
  <2>3. CASE \E w \in Word : HashWord(w)
    BY <2>3, WordStep
  <2>4. CASE HashFold
    BY <2>4, FoldStep
  <2>5. CASE HashDone
    BY <2>5, DoneStep
  <2>6. CASE HashReturn
    BY <2>6, ReturnStep
  <2>7. CASE UNCHANGED fletcherVars
    BY <2>7 DEF fletcherVars, IInv, FletcherTypeOK, Bounds, Read, HashFits, SumsAreFletchers
  <2> QED BY <2>1, <2>2, <2>3, <2>4, <2>5, <2>6, <2>7 DEF FletcherNext
<1> QED BY InitIInv, <1>1, PTL DEF FletcherSpec

(* Every variable of the two loops keeps its type.                         *)
THEOREM TypeCorrect == FletcherSpec => []FletcherTypeOK
<1>1. IInv => FletcherTypeOK
  BY DEF IInv
<1> QED BY <1>1, Inductive, PTL

(* No sum of fletcher32 ever loses a carry: the hash is Fletcher's, for    *)
(* data of any length.                                                     *)
THEOREM HashIsFletchers == FletcherSpec => []SumsAreFletchers
<1>1. IInv => SumsAreFletchers
  BY DEF IInv
<1> QED BY <1>1, Inductive, PTL

(* Two reductions are enough for the halves of the hash.                   *)
THEOREM HashCorrect == FletcherSpec => []HashFits
<1>1. IInv => HashFits
  BY DEF IInv, Bounds
<1> QED BY <1>1, Inductive, PTL

(* The code's own numbers, 16 bits and blocks of 360 words, are of that    *)
(* kind, and with 361 words they would not be.                             *)
THEOREM BlockOf360 ==
  ASSUME Base = 65536
  PROVE  /\ Block = 360 => Most2(Block) < 2 * (Base * Base)
         /\ Block = 361 => ~(Most2(Block) < 2 * (Base * Base))
BY DEF Most2
===============================================================================
