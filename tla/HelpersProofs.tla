----------------------------- MODULE HelpersProofs -----------------------------
(***************************************************************************)
(* Proofs about the helpers without an object behind them: the keys of     *)
(* texts, the conversions of numbers, and that calling one helper after    *)
(* the other is nothing but each of them called alone.                     *)
(***************************************************************************)
EXTENDS Helpers, Fletcher32Proofs

-------------------------------------------------------------------------------
(* The keys of bf/bf.h tell apart the first four characters of any two     *)
(* texts.  A key is a number to the base Radix with signed digits; taken   *)
(* modulo Radix ^ 4 it still has one representation, because two digits    *)
(* never differ by Radix.  The proof takes the digits off one at a time.   *)

\* A multiple of n between -n and n is 0.
LEMMA Peel ==
  ASSUME NEW n \in Nat \ {0}, NEW m \in Int, NEW d \in (-(n - 1)) .. (n - 1), d = n * m
  PROVE  d = 0 /\ m = 0
<1>1. CASE m >= 1
  <2>1. PICK r \in Nat : m = 1 + r
    BY <1>1
  <2>2. n * m = n + n * r /\ n * r \in Nat
    BY <2>1
  <2> QED BY <2>2
<1>2. CASE m <= -1
  <2>1. PICK r \in Nat : m = -1 - r
    BY <1>2
  <2>2. n * m = -n - n * r /\ n * r \in Nat
    BY <2>1
  <2> QED BY <2>2
<1>3. CASE m = 0
  BY <1>3
<1> QED BY <1>1, <1>2, <1>3

\* A number is a multiple and its remainder.
LEMMA MultipleAndRest ==
  ASSUME NEW n \in Nat \ {0}, NEW x \in Int
  PROVE  Rem(x, n) \in Int /\ \E q \in Int : x = n * q + Rem(x, n)
<1>1. /\ x = n * (x \div n) + (x % n) /\ x \div n \in Int /\ x % n \in Int
  OBVIOUS
<1> QED BY <1>1 DEF Rem

\* Two numbers with the same remainder differ by a multiple.
LEMMA DifferByMultiple ==
  ASSUME NEW n \in Nat \ {0}, NEW x \in Int, NEW y \in Int, Rem(x, n) = Rem(y, n)
  PROVE  \E k \in Int : x - y = n * k
<1>1. PICK p \in Int : x = n * p + Rem(x, n)
  BY MultipleAndRest
<1>2. PICK q \in Int : y = n * q + Rem(y, n)
  BY MultipleAndRest
<1>3. PICK r \in Int : r = Rem(x, n) /\ r = Rem(y, n)
  BY MultipleAndRest
<1>4. n * p \in Int /\ n * q \in Int /\ n * (p - q) = n * p - n * q
  OBVIOUS
<1>5. x - y = n * (p - q)
  BY <1>1, <1>2, <1>3, <1>4
<1> QED BY <1>5

\* One digit at a time: the last digits agree and so does what is before them.
LEMMA LastDigit ==
  ASSUME NEW n \in Nat \ {0}, NEW x \in Int, NEW y \in Int, NEW k \in Int,
         NEW d \in Int, NEW e \in Int, d - e \in (-(n - 1)) .. (n - 1),
         (x * n + d) - (y * n + e) = n * k
  PROVE  d = e /\ x - y = k
<1> DEFINE m == k - (x - y)
<1>1. d - e = n * m
  BY SMT
<1>2. d - e = 0 /\ m = 0
  BY <1>1, Peel
<1> QED BY <1>2

\* ch | 0x20 is a number, and the end of a text stays it.
LEMMA CodesAreNumbers == Codes \subseteq Int /\ 0 \in Codes
<1>1. \A ch \in Chars : LowerCase(ch) \in Int
  BY KeyAssumption DEF LowerCase
<1>2. {LowerCase(ch) : ch \in Chars} \subseteq Int
  BY <1>1
<1>3. Chars \subseteq Int /\ {0} \subseteq Int
  BY KeyAssumption
<1> QED BY <1>2, <1>3 DEF Codes

\* Two keys are equal exactly when their four digits are.
LEMMA KeyIsInjective ==
  ASSUME NEW f \in [1 .. 4 -> Codes], NEW g \in [1 .. 4 -> Codes],
         Key(f[1], f[2], f[3], f[4]) = Key(g[1], g[2], g[3], g[4])
  PROVE  \A i \in 1 .. 4 : f[i] = g[i]
<1>a. PICK a \in Codes, b \in Codes, e \in Codes, d \in Codes :
        a = f[1] /\ b = f[2] /\ e = f[3] /\ d = f[4]
  OBVIOUS
<1>b. PICK p \in Codes, q \in Codes, r \in Codes, s \in Codes :
        p = g[1] /\ q = g[2] /\ r = g[3] /\ s = g[4]
  OBVIOUS
<1> DEFINE x1 == a * Radix + b
           x2 == x1 * Radix + e
           x3 == x2 * Radix + d
           y1 == p * Radix + q
           y2 == y1 * Radix + r
           y3 == y2 * Radix + s
           w2 == Radix * Radix
           w3 == Radix * w2
           w4 == Radix * w3
<1>0. /\ Codes \subseteq Int /\ Radix \in Nat \ {0}
      /\ \A x, y \in Codes : x - y \in (-(Radix - 1)) .. (Radix - 1)
  BY KeyAssumption, CodesAreNumbers
<1>1. /\ x1 \in Int /\ x2 \in Int /\ x3 \in Int
      /\ y1 \in Int /\ y2 \in Int /\ y3 \in Int
      /\ w2 \in Nat \ {0} /\ w3 \in Nat \ {0} /\ w4 \in Nat \ {0}
  <2>1. w2 \in Nat \ {0}
    BY <1>0
  <2>2. w3 \in Nat \ {0}
    <3> HIDE DEF w2
    <3> QED BY <1>0, <2>1
  <2>3. w4 \in Nat \ {0}
    <3> HIDE DEF w3
    <3> QED BY <1>0, <2>2
  <2>4. x1 \in Int /\ y1 \in Int
    BY <1>0
  <2>5. x2 \in Int /\ y2 \in Int
    <3> HIDE DEF x1, y1
    <3> QED BY <1>0, <2>4
  <2>6. x3 \in Int /\ y3 \in Int
    <3> HIDE DEF x2, y2
    <3> QED BY <1>0, <2>5
  <2> QED BY <2>1, <2>2, <2>3, <2>4, <2>5, <2>6
<1>2. Rem(x3, w4) = Rem(y3, w4)
  BY <1>a, <1>b DEF Key, Rem
<1> HIDE DEF x1, x2, x3, y1, y2, y3, w2, w3, w4
<1>3. PICK k \in Int : x3 - y3 = w4 * k
  BY <1>1, <1>2, DifferByMultiple
<1>4. d = s /\ x2 - y2 = w3 * k
  <2>1. (x2 * Radix + d) - (y2 * Radix + s) = Radix * (w3 * k)
    BY <1>0, <1>1, <1>3 DEF w4, x3, y3
  <2>2. w3 * k \in Int
    BY <1>1
  <2>3. d \in Int /\ s \in Int /\ d - s \in (-(Radix - 1)) .. (Radix - 1)
    BY <1>0
  <2> QED BY <2>1, <2>2, <2>3, <1>0, <1>1, LastDigit
<1>5. e = r /\ x1 - y1 = w2 * k
  <2>1. (x1 * Radix + e) - (y1 * Radix + r) = Radix * (w2 * k)
    BY <1>0, <1>1, <1>4 DEF w3, x2, y2
  <2>2. w2 * k \in Int
    BY <1>1
  <2>3. e \in Int /\ r \in Int /\ e - r \in (-(Radix - 1)) .. (Radix - 1)
    BY <1>0
  <2> QED BY <2>1, <2>2, <2>3, <1>0, <1>1, LastDigit
<1>6. b = q /\ a - p = Radix * k
  <2>1. (a * Radix + b) - (p * Radix + q) = Radix * (Radix * k)
    BY <1>0, <1>1, <1>5 DEF w2, x1, y1
  <2>2. Radix * k \in Int
    BY <1>0
  <2> QED BY <2>1, <2>2, <1>0, LastDigit
<1>7. a - p = 0
  <2>1. a - p \in (-(Radix - 1)) .. (Radix - 1)
    BY <1>0
  <2> QED BY <2>1, <1>0, <1>6, Peel
<1>8. a = p /\ b = q /\ e = r /\ d = s
  BY <1>0, <1>4, <1>5, <1>6, <1>7
<1>9. 1 .. 4 = {1, 2, 3, 4}
  OBVIOUS
<1> QED BY <1>a, <1>b, <1>8, <1>9

\* What stands at a place of a text is a code, in either case.
LEMMA PlacesAreCodes ==
  ASSUME NEW t \in Texts, NEW i \in Int
  PROVE  At(t, i) \in Codes /\ LowerCase(At(t, i)) \in Codes
<1>1. PICK n \in 0 .. MaxText : t \in [1 .. n -> Chars]
  BY DEF Texts
<1>2. Len(t) = n
  BY <1>1, KeyAssumption
<1>3. CASE i \in 1 .. n
  BY <1>1, <1>2, <1>3 DEF At, Codes
<1>4. CASE i \notin 1 .. n
  BY <1>2, <1>4 DEF At, Codes, LowerCase
<1> QED BY <1>3, <1>4

-------------------------------------------------------------------------------
\* The keys are those of the texts that were compared.
KeysAreOfTexts ==
  keys # <<>> => /\ left \in Texts /\ right \in Texts
                 /\ keys = <<strKey(left), literalKey(right)>>
                 /\ foldedKeys = <<striKey(left), striKey(right)>>

(* strKey and striKey of any two texts are equal exactly when the first    *)
(* four characters are, for texts of any length and any set of signed      *)
(* characters: no case of a switch over keys is taken for another text.    *)
THEOREM KeysCorrect == KeysSpec => []KeysTellTexts
<1>1. KeysInit => KeysAreOfTexts
  BY DEF KeysInit, KeysAreOfTexts
<1>2. KeysAreOfTexts /\ [KeysNext]_keyVars => KeysAreOfTexts'
  <2> SUFFICES ASSUME KeysAreOfTexts, [KeysNext]_keyVars
               PROVE  KeysAreOfTexts'
    OBVIOUS
  <2>1. CASE CompareKeys
    BY <2>1 DEF CompareKeys, KeysAreOfTexts
  <2>2. CASE ForgetKeys
    BY <2>2 DEF ForgetKeys, KeysAreOfTexts
  <2>3. CASE UNCHANGED keyVars
    BY <2>3 DEF keyVars, KeysAreOfTexts
  <2> QED BY <2>1, <2>2, <2>3 DEF KeysNext
<1>3. KeysAreOfTexts => KeysTellTexts
  <2> SUFFICES ASSUME KeysAreOfTexts, keys # <<>>
               PROVE  KeysTellTexts
    BY DEF KeysTellTexts
  <2>1. left \in Texts /\ right \in Texts
    BY DEF KeysAreOfTexts
  <2>2. keys[1] = strKey(left) /\ keys[2] = strKey(right)
    BY DEF KeysAreOfTexts, strKey, literalKey
  <2>3. foldedKeys[1] = striKey(left) /\ foldedKeys[2] = striKey(right)
    BY DEF KeysAreOfTexts
  <2>4. strKey(left) = strKey(right) <=> SameStart(left, right)
    <3>1. ASSUME strKey(left) = strKey(right) PROVE SameStart(left, right)
      <4> DEFINE f == [i \in 1 .. 4 |-> At(left, i)]
                 g == [i \in 1 .. 4 |-> At(right, i)]
      <4>1. f \in [1 .. 4 -> Codes] /\ g \in [1 .. 4 -> Codes]
        BY <2>1, PlacesAreCodes
      <4>2. Key(f[1], f[2], f[3], f[4]) = Key(g[1], g[2], g[3], g[4])
        BY <3>1 DEF strKey
      <4>3. \A i \in 1 .. 4 : f[i] = g[i]
        <5> HIDE DEF f, g
        <5> QED BY <4>1, <4>2, KeyIsInjective
      <4> QED BY <4>3 DEF SameStart
    <3>2. ASSUME SameStart(left, right) PROVE strKey(left) = strKey(right)
      BY <3>2 DEF strKey, SameStart
    <3> QED BY <3>1, <3>2
  <2>5. striKey(left) = striKey(right) <=> SameStartAnyCase(left, right)
    <3>1. ASSUME striKey(left) = striKey(right) PROVE SameStartAnyCase(left, right)
      <4> DEFINE f == [i \in 1 .. 4 |-> LowerCase(At(left, i))]
                 g == [i \in 1 .. 4 |-> LowerCase(At(right, i))]
      <4>1. f \in [1 .. 4 -> Codes] /\ g \in [1 .. 4 -> Codes]
        BY <2>1, PlacesAreCodes
      <4>2. Key(f[1], f[2], f[3], f[4]) = Key(g[1], g[2], g[3], g[4])
        BY <3>1 DEF striKey
      <4>3. \A i \in 1 .. 4 : f[i] = g[i]
        <5> HIDE DEF f, g
        <5> QED BY <4>1, <4>2, KeyIsInjective
      <4> QED BY <4>3 DEF SameStartAnyCase
    <3>2. ASSUME SameStartAnyCase(left, right) PROVE striKey(left) = striKey(right)
      BY <3>2 DEF striKey, SameStartAnyCase
    <3> QED BY <3>1, <3>2
  <2> QED BY <2>2, <2>3, <2>4, <2>5 DEF KeysTellTexts
<1> QED BY <1>1, <1>2, <1>3, PTL DEF KeysSpec

(* The eight bits of a signed char are what KeyAssumption asks for, in     *)
(* either case: the constants of the code satisfy it.                      *)
THEOREM SignedCharsAreDigits ==
  ASSUME Radix = 256, Chars = (-128 .. 127) \ {0}
  PROVE  /\ Chars \subseteq Int /\ 0 \notin Chars
         /\ \A x, y \in Codes : x - y \in (-(Radix - 1)) .. (Radix - 1)
<1>1. \A ch \in -128 .. 127 : LowerCase(ch) \in -128 .. 127
  BY DEF LowerCase
<1>2. Codes \subseteq -128 .. 127
  <2>1. Chars \subseteq -128 .. 127 /\ 0 \in -128 .. 127
    OBVIOUS
  <2>2. {LowerCase(ch) : ch \in Chars} \subseteq -128 .. 127
    BY <1>1, <2>1
  <2> QED BY <2>1, <2>2 DEF Codes
<1> QED BY <1>2

-------------------------------------------------------------------------------
(* The number conversions                                                  *)

DigitsOf(b) == { Digit(d) : d \in 0 .. b - 1 }

\* The places of f are what s reads as, in base b, character by character,
\* when x stands before it.
ReadsAs(f, s, x, b) ==
  /\ f \in [0 .. Len(s) -> Unsigned] /\ f[0] = x
  /\ \A k \in 1 .. Len(s) : f[k] = f[k - 1] * b + Value(s[k])

\* With the digits of x before it, s reads as m.
Completes(s, x, m, b) ==
  s \in Seq(DigitsOf(b)) /\ \E f : ReadsAs(f, s, x, b) /\ f[Len(s)] = m

\* A character is worth the digit it was made of, to both readers.
LEMMA DigitReadsBack ==
  ASSUME NEW d \in 0 .. 35
  PROVE  /\ Digit(d) \in Nat /\ Digit(d) # Minus
         /\ Value(Digit(d)) = d
         /\ d <= 15 => HexValue(Digit(d)) = d
<1>1. CASE d <= 9
  <2>1. Digit(d) = 48 + d /\ 48 + d \in 48 .. 57
    BY <1>1 DEF Digit
  <2> QED BY <1>1, <2>1 DEF Value, HexValue, Minus
<1>2. CASE ~(d <= 9)
  <2>1. /\ Digit(d) = 65 + d - 10 /\ 65 + d - 10 \in 65 .. 90
        /\ 65 + d - 10 \notin 48 .. 57
        /\ d <= 15 => 65 + d - 10 \in 65 .. 70
    BY <1>2 DEF Digit
  <2> QED BY <1>2, <2>1 DEF Value, HexValue, Minus
<1> QED BY <1>1, <1>2

\* The digit that is taken off x stands before s.
LEMMA OneMoreDigit ==
  ASSUME NEW b \in 2 .. 36, NEW x \in Unsigned, NEW s, NEW m, Completes(s, x, m, b)
  PROVE  /\ Quo(x, b) \in Unsigned /\ Rem(x, b) \in 0 .. b - 1
         /\ Completes(<<Digit(Rem(x, b))>> \o s, Quo(x, b), m, b)
<1> DEFINE d  == Digit(Rem(x, b))
           y  == Quo(x, b)
           ds == <<d>> \o s
<1>0. Limit \in Nat /\ x \in Nat /\ b \in Nat \ {0} /\ x < Limit
  BY ConversionAssumption DEF Unsigned
<1>1. x = b * y + Rem(x, b) /\ Rem(x, b) \in 0 .. b - 1 /\ y \in Nat
  BY <1>0, Split
<1>2. y \in Unsigned
  <2> HIDE DEF y
  <2>1. PICK r \in Nat : b = 1 + r
    BY <1>0
  <2>2. b * y = y + r * y /\ r * y \in Nat
    BY <1>1, <2>1
  <2>3. y <= x
    BY <1>0, <1>1, <2>2
  <2> QED BY <1>0, <1>1, <2>3 DEF Unsigned
<1>3. d \in DigitsOf(b) /\ Value(d) = Rem(x, b) /\ s \in Seq(DigitsOf(b))
  <2>1. Rem(x, b) \in 0 .. 35
    BY <1>1
  <2> QED BY <1>1, <2>1, DigitReadsBack DEF DigitsOf, Completes
<1>4. PICK f : ReadsAs(f, s, x, b) /\ f[Len(s)] = m
  BY DEF Completes
<1> DEFINE g == [k \in 0 .. Len(s) + 1 |-> IF k = 0 THEN y ELSE f[k - 1]]
<1> HIDE DEF d, y
<1>5. /\ ds \in Seq(DigitsOf(b)) /\ Len(ds) = Len(s) + 1 /\ Len(s) \in Nat
      /\ ds[1] = d /\ \A k \in 1 .. Len(s) : ds[k + 1] = s[k]
  BY <1>3
<1> HIDE DEF ds
<1>6. g \in [0 .. Len(ds) -> Unsigned] /\ g[0] = y /\ g[Len(ds)] = m
  <2>1. \A k \in 0 .. Len(s) + 1 : k # 0 => k - 1 \in 0 .. Len(s)
    BY <1>5
  <2>2. \A k \in 0 .. Len(s) + 1 : g[k] \in Unsigned
    BY <1>2, <1>4, <2>1 DEF ReadsAs
  <2>3. 0 \in 0 .. Len(s) + 1 /\ Len(s) + 1 \in 0 .. Len(s) + 1 /\ Len(s) + 1 # 0
        /\ Len(s) + 1 - 1 = Len(s)
    BY <1>5
  <2> QED BY <1>4, <1>5, <2>2, <2>3
<1>7. ASSUME NEW k \in 1 .. Len(ds) PROVE g[k] = g[k - 1] * b + Value(ds[k])
  <2>1. k \in 0 .. Len(s) + 1 /\ k - 1 \in 0 .. Len(s) + 1 /\ k # 0
    BY <1>5
  <2>2. CASE k = 1
    <3>1. g[k] = x /\ g[k - 1] = y
      BY <1>4, <1>5, <2>1, <2>2 DEF ReadsAs
    <3>2. y * b = b * y
      BY <1>0, <1>1
    <3>3. ds[k] = d /\ Value(d) = Rem(x, b)
      BY <1>3, <1>5, <2>2
    <3> HIDE DEF g
    <3> QED BY <1>1, <3>1, <3>2, <3>3
  <2>3. CASE k # 1
    <3>1. k - 1 \in 1 .. Len(s) /\ k - 1 # 0 /\ k - 1 + 1 = k
      BY <1>5, <2>1, <2>3
    <3>2. g[k] = f[k - 1] /\ g[k - 1] = f[k - 1 - 1] /\ ds[k] = s[k - 1]
      BY <1>5, <2>1, <3>1
    <3> QED BY <1>4, <3>1, <3>2 DEF ReadsAs
  <2> QED BY <2>2, <2>3
<1> HIDE DEF g
<1>8. Completes(ds, y, m, b)
  BY <1>5, <1>6, <1>7 DEF Completes, ReadsAs
<1> QED BY <1>1, <1>2, <1>8 DEF ds, d, y

\* What Reading computes, place by place.
LEMMA ReadingIs ==
  ASSUME NEW s, Len(s) \in Nat, NEW b \in Int, NEW f \in [0 .. Len(s) -> Int], f[0] = 0,
         \A k \in 1 .. Len(s) :
           f[k] = IF s[k] = Minus THEN 0 ELSE f[k - 1] * b + Value(s[k])
  PROVE  Reading(s, b) = IF Head(s) = Minus THEN -f[Len(s)] ELSE f[Len(s)]
<1> DEFINE N == Len(s)
           h == CHOOSE g : g = [n \in 0 .. N |-> IF n = 0 \/ s[n] = Minus THEN 0
                                                 ELSE g[n - 1] * b + Value(s[n])]
           E == { k \in 0 .. N : h[k] # f[k] }
<1>1. Reading(s, b) = IF Head(s) = Minus THEN -h[N] ELSE h[N]
  BY DEF Reading
<1> HIDE DEF N, h
<1>2. f = [n \in 0 .. N |-> IF n = 0 \/ s[n] = Minus THEN 0
                            ELSE f[n - 1] * b + Value(s[n])]
  <2>1. \A n \in 0 .. N : n = 0 \/ n \in 1 .. N
    BY DEF N
  <2> QED BY <2>1 DEF N
<1>3. h = [n \in 0 .. N |-> IF n = 0 \/ s[n] = Minus THEN 0
                            ELSE h[n - 1] * b + Value(s[n])]
  BY <1>2 DEF h
<1>4. E = {}
  <2> SUFFICES ASSUME E # {} PROVE FALSE
    OBVIOUS
  <2>1. PICK m \in E : \A k \in E : m <= k
    <3>1. E \in SUBSET Nat
      BY DEF N
    <3> HIDE DEF E
    <3> QED BY <3>1, LeastNumber
  <2>2. m \in 0 .. N /\ h[m] # f[m]
    BY <2>1
  <2>3. m # 0
    BY <1>3, <2>2
  <2>4. m \in 1 .. N /\ m - 1 \in 0 .. N /\ ~(m <= m - 1)
    BY <2>2, <2>3 DEF N
  <2>5. h[m - 1] = f[m - 1]
    BY <2>1, <2>4
  <2>6. h[m] = IF s[m] = Minus THEN 0 ELSE h[m - 1] * b + Value(s[m])
    BY <1>3, <2>3, <2>4
  <2>7. f[m] = IF s[m] = Minus THEN 0 ELSE f[m - 1] * b + Value(s[m])
    BY <2>4 DEF N
  <2> QED BY <2>2, <2>5, <2>6, <2>7
<1>5. N \in 0 .. N
  BY DEF N
<1>6. h[N] = f[N]
  BY <1>4, <1>5
<1> QED BY <1>1, <1>6 DEF N

\* What hextoint computes, place by place, while nothing leaves the top.
LEMMA HextointIs ==
  ASSUME NEW s, Len(s) \in Nat, NEW f \in [0 .. Len(s) -> Unsigned], f[0] = 0,
         \A k \in 1 .. Len(s) : f[k] = f[k - 1] * 16 + HexValue(s[k])
  PROVE  hextoint(s) = f[Len(s)]
<1> DEFINE N == Len(s)
           h == CHOOSE g : g = [n \in 0 .. N |-> IF n = 0 THEN 0
                                  ELSE (g[n - 1] * 16 + HexValue(s[n])) % Limit]
           E == { k \in 0 .. N : h[k] # f[k] }
<1>1. hextoint(s) = h[N]
  BY DEF hextoint
<1>0. \A x \in Unsigned : x % Limit = x
  BY ConversionAssumption, Small DEF Unsigned, Rem
<1> HIDE DEF N, h
<1>2. f = [n \in 0 .. N |-> IF n = 0 THEN 0 ELSE (f[n - 1] * 16 + HexValue(s[n])) % Limit]
  <2>1. \A n \in 0 .. N : n = 0 \/ n \in 1 .. N
    BY DEF N
  <2>2. \A n \in 1 .. N : f[n] = (f[n - 1] * 16 + HexValue(s[n])) % Limit
    <3> SUFFICES ASSUME NEW n \in 1 .. N
                 PROVE  f[n] = (f[n - 1] * 16 + HexValue(s[n])) % Limit
      OBVIOUS
    <3>1. f[n] \in Unsigned /\ f[n] = f[n - 1] * 16 + HexValue(s[n])
      BY DEF N
    <3>2. f[n] % Limit = f[n]
      BY <1>0, <3>1
    <3> QED BY <3>1, <3>2
  <2> QED BY <2>1, <2>2 DEF N
<1>3. h = [n \in 0 .. N |-> IF n = 0 THEN 0 ELSE (h[n - 1] * 16 + HexValue(s[n])) % Limit]
  BY <1>2 DEF h
<1>4. E = {}
  <2> SUFFICES ASSUME E # {} PROVE FALSE
    OBVIOUS
  <2>1. PICK m \in E : \A k \in E : m <= k
    <3>1. E \in SUBSET Nat
      BY DEF N
    <3> HIDE DEF E
    <3> QED BY <3>1, LeastNumber
  <2>2. m \in 0 .. N /\ h[m] # f[m]
    BY <2>1
  <2>3. m # 0
    BY <1>3, <2>2
  <2>4. m \in 1 .. N /\ m - 1 \in 0 .. N /\ ~(m <= m - 1)
    BY <2>2, <2>3 DEF N
  <2>5. h[m - 1] = f[m - 1]
    BY <2>1, <2>4
  <2>6. h[m] = (h[m - 1] * 16 + HexValue(s[m])) % Limit
    BY <1>3, <2>2, <2>3
  <2>7. f[m] = (f[m - 1] * 16 + HexValue(s[m])) % Limit
    BY <1>2, <2>2, <2>3
  <2> QED BY <2>2, <2>5, <2>6, <2>7
<1>5. N \in 0 .. N
  BY DEF N
<1> QED BY <1>1, <1>4, <1>5 DEF N

\* Digits alone read, to both readers, as what they complete.
LEMMA DigitsRead ==
  ASSUME NEW s, NEW m, NEW b \in 2 .. 36, Completes(s, 0, m, b), s # <<>>
  PROVE  /\ Reading(s, b) = m /\ Reading(<<Minus>> \o s, b) = -m
         /\ b = 16 => hextoint(s) = m
<1>1. PICK f : ReadsAs(f, s, 0, b) /\ f[Len(s)] = m
  BY DEF Completes
<1>2. s \in Seq(DigitsOf(b)) /\ Len(s) \in Nat /\ Len(s) # 0
  BY DEF Completes
<1>3. Unsigned \subseteq Int /\ b \in Int
  BY DEF Unsigned
<1>4. /\ f \in [0 .. Len(s) -> Unsigned] /\ f \in [0 .. Len(s) -> Int] /\ f[0] = 0
      /\ \A k \in 1 .. Len(s) : f[k] = f[k - 1] * b + Value(s[k])
  BY <1>1, <1>3 DEF ReadsAs
<1>5. ASSUME NEW k \in 1 .. Len(s)
      PROVE  b = 16 => Value(s[k]) = HexValue(s[k])
  <2>1. PICK d \in 0 .. b - 1 : s[k] = Digit(d)
    BY <1>2 DEF DigitsOf
  <2>2. /\ d \in 0 .. 35
        /\ b = 16 => d <= 15
    BY <2>1
  <2> QED BY <2>1, <2>2, DigitReadsBack
<1>6. ASSUME NEW k \in 1 .. Len(s) PROVE s[k] # Minus
  <2>1. PICK d \in 0 .. b - 1 : s[k] = Digit(d)
    BY <1>2 DEF DigitsOf
  <2>2. d \in 0 .. 35
    BY <2>1
  <2> QED BY <2>1, <2>2, DigitReadsBack
<1>7. Reading(s, b) = m
  <2>1. \A k \in 1 .. Len(s) : f[k] = IF s[k] = Minus THEN 0 ELSE f[k - 1] * b + Value(s[k])
    BY <1>4, <1>6
  <2>2. Head(s) # Minus
    BY <1>2, <1>6
  <2> QED BY <1>1, <1>2, <1>3, <1>4, <2>1, <2>2, ReadingIs
<1>8. Reading(<<Minus>> \o s, b) = -m
  <2> DEFINE ms == <<Minus>> \o s
             g  == [k \in 0 .. Len(s) + 1 |-> IF k = 0 THEN 0 ELSE f[k - 1]]
  <2>1. /\ Len(ms) = Len(s) + 1 /\ Head(ms) = Minus /\ ms[1] = Minus
        /\ \A k \in 1 .. Len(s) : ms[k + 1] = s[k]
    BY <1>2
  <2> HIDE DEF ms
  <2>2. g \in [0 .. Len(ms) -> Int] /\ g[0] = 0 /\ g[Len(ms)] = m /\ Len(ms) \in Nat
    <3>1. \A k \in 0 .. Len(s) + 1 : k # 0 => k - 1 \in 0 .. Len(s)
      BY <1>2
    <3>2. \A k \in 0 .. Len(s) + 1 : g[k] \in Int
      BY <1>4, <3>1
    <3>3. 0 \in 0 .. Len(s) + 1 /\ Len(s) + 1 \in 0 .. Len(s) + 1 /\ Len(s) + 1 # 0
          /\ Len(s) + 1 - 1 = Len(s)
      BY <1>2
    <3> QED BY <1>1, <1>2, <2>1, <3>2, <3>3
  <2>3. ASSUME NEW k \in 1 .. Len(ms)
        PROVE  g[k] = IF ms[k] = Minus THEN 0 ELSE g[k - 1] * b + Value(ms[k])
    <3>1. k \in 0 .. Len(s) + 1 /\ k - 1 \in 0 .. Len(s) + 1 /\ k # 0
      BY <1>2, <2>1
    <3>2. CASE k = 1
      BY <1>4, <2>1, <3>1, <3>2
    <3>3. CASE k # 1
      <4>1. k - 1 \in 1 .. Len(s) /\ k - 1 # 0 /\ k - 1 + 1 = k
        BY <1>2, <3>1, <3>3
      <4>2. g[k] = f[k - 1] /\ g[k - 1] = f[k - 1 - 1] /\ ms[k] = s[k - 1]
        BY <2>1, <3>1, <4>1
      <4> QED BY <1>4, <1>6, <4>1, <4>2
    <3> QED BY <3>2, <3>3
  <2> HIDE DEF g
  <2>4. Reading(ms, b) = IF Head(ms) = Minus THEN -g[Len(ms)] ELSE g[Len(ms)]
    BY <1>3, <2>2, <2>3, ReadingIs
  <2> QED BY <2>1, <2>2, <2>4 DEF ms
<1>9. ASSUME b = 16 PROVE hextoint(s) = m
  <2>1. \A k \in 1 .. Len(s) : f[k] = f[k - 1] * 16 + HexValue(s[k])
    BY <1>4, <1>5, <1>9
  <2> QED BY <1>1, <1>2, <1>4, <2>1, HextointIs
<1> QED BY <1>7, <1>8, <1>9

\* The absolute value of a number, and what becomes of the most negative one.
LEMMA AbsIs ==
  /\ \A x \in Unsigned : AbsUnsigned(x) = x
  /\ \A x \in Signed : /\ AbsUnsigned(x) \in Unsigned
                       /\ AbsUnsigned(x) = IF x < 0 THEN -x ELSE x
<1>1. PICK h \in Nat : Limit = 2 * h /\ Limit \div 2 = h /\ Limit \in Nat \ {0}
  <2>1. Limit = 2 * Quo(Limit, 2) + Rem(Limit, 2) /\ Quo(Limit, 2) \in Nat
    BY ConversionAssumption, Split
  <2>2. Rem(Limit, 2) = 0
    BY ConversionAssumption DEF Rem
  <2> QED BY <2>1, <2>2, ConversionAssumption DEF Quo
<1>2. ASSUME NEW x \in Unsigned PROVE x % Limit = x
  BY <1>1, <1>2, Small DEF Unsigned, Rem
<1>3. ASSUME NEW x \in Unsigned PROVE AbsUnsigned(x) = x
  <2>1. ~(x < 0)
    BY <1>1 DEF Unsigned
  <2> QED BY <1>2, <2>1 DEF AbsUnsigned
<1>4. ASSUME NEW x \in Signed PROVE (IF x < 0 THEN -x ELSE x) \in Unsigned
  <2>1. x \in (-h) .. (h - 1)
    BY <1>1 DEF Signed
  <2> QED BY <1>1, <2>1 DEF Unsigned
<1> QED BY <1>2, <1>3, <1>4 DEF AbsUnsigned

\* The number a signed parameter gets has the range of one.
LEMMA AsIntIs ==
  \A x \in Signed \cup Unsigned :
    /\ AsInt(x) \in Signed /\ x \in Int /\ AsInt(x) \in Int
    /\ AsInt(x) = IF x >= Limit \div 2 THEN x - Limit ELSE x
<1>1. PICK h \in Nat : Limit = 2 * h /\ Limit \div 2 = h /\ Limit \in Nat \ {0}
  <2>1. Limit = 2 * Quo(Limit, 2) + Rem(Limit, 2) /\ Quo(Limit, 2) \in Nat
    BY ConversionAssumption, Split
  <2>2. Rem(Limit, 2) = 0
    BY ConversionAssumption DEF Rem
  <2> QED BY <2>1, <2>2, ConversionAssumption DEF Quo
<1>2. Signed = (-h) .. (h - 1) /\ Unsigned = 0 .. 2 * h - 1
  BY <1>1 DEF Signed, Unsigned
<1> QED BY <1>1, <1>2 DEF AsInt

\* What a conversion has written so far completes the number it was given.
ConversionOK ==
  /\ conv \in {"idle", "digits", "written"}
  /\ conv # "idle" => /\ base \in 2 .. 36 /\ given \in Int /\ signed \in BOOLEAN
                      /\ c \in Int /\ Len(text) \in Nat /\ c + Len(text) = BufferSize - 1
  /\ conv = "digits" =>
       val \in Unsigned /\ Completes(text, val, AbsUnsigned(Passed), base)
  /\ conv # "idle" => IF signed THEN base \in {10, 16} /\ given \in Signed \cup Unsigned
                                ELSE given \in Unsigned
  /\ TextIsTheNumber

LEMMA ConvertOK ==
  ASSUME NEW x \in Int, NEW sig \in BOOLEAN, NEW v \in Unsigned, NEW b \in 2 .. 36,
         Convert(x, sig, v, b), v = AbsUnsigned(IF sig THEN AsInt(x) ELSE x),
         IF sig THEN b \in {10, 16} /\ x \in Signed \cup Unsigned ELSE x \in Unsigned
  PROVE  ConversionOK'
<1>1. /\ conv' = "digits" /\ given' = x /\ signed' = sig /\ val' = v /\ base' = b
      /\ c' = BufferSize - 1 /\ text' = <<>>
  BY DEF Convert, EndOfBuffer
<1>2. Completes(<<>>, v, v, b)
  <2> DEFINE f == [k \in 0 .. 0 |-> v]
  <2>1. Len(<<>>) = 0 /\ <<>> \in Seq(DigitsOf(b))
    OBVIOUS
  <2>2. f \in [0 .. 0 -> Unsigned] /\ f[0] = v /\ \A k \in 1 .. 0 : FALSE
    OBVIOUS
  <2> HIDE DEF f
  <2>3. ReadsAs(f, <<>>, v, b)
    BY <2>1, <2>2 DEF ReadsAs
  <2> QED BY <2>1, <2>2, <2>3 DEF Completes
<1>3. BufferSize - 1 \in Int /\ Len(<<>>) = 0 /\ BufferSize - 1 + 0 = BufferSize - 1
  BY ConversionAssumption
<1>4. TextIsTheNumber'
  BY <1>1 DEF TextIsTheNumber
<1>5. AbsUnsigned(Passed)' = v
  BY <1>1 DEF Passed, AbsUnsigned, AsInt
<1> QED BY <1>1, <1>2, <1>3, <1>4, <1>5 DEF ConversionOK

LEMMA WriteDigitOK ==
  ASSUME ConversionOK, WriteDigit
  PROVE  ConversionOK'
<1>1. /\ conv = "digits" /\ base \in 2 .. 36 /\ given \in Int /\ signed \in BOOLEAN
      /\ c \in Int /\ Len(text) \in Nat /\ c + Len(text) = BufferSize - 1
      /\ val \in Unsigned /\ Completes(text, val, AbsUnsigned(Passed), base)
  BY DEF WriteDigit, ConversionOK
<1>2. /\ text' = <<Digit(Rem(val, base))>> \o text /\ val' = Quo(val, base)
      /\ c' = c - 1 /\ conv' = conv /\ given' = given /\ base' = base /\ signed' = signed
  BY DEF WriteDigit, Rem, Quo
<1>3. val' \in Unsigned /\ Completes(text', val', AbsUnsigned(Passed), base)
  BY <1>1, <1>2, OneMoreDigit
<1>4. Len(text') = Len(text) + 1 /\ c' + Len(text') = BufferSize - 1
      /\ Len(text') \in Nat /\ c' \in Int
  <2>1. text \in Seq(DigitsOf(base)) /\ text' \in Seq(DigitsOf(base))
    BY <1>1, <1>3 DEF Completes
  <2>2. Len(text') = Len(text) + 1
    <3>1. \A ch : Len(<<ch>> \o text) = Len(text) + 1
      BY <2>1
    <3> QED BY <1>2, <3>1
  <2> QED BY <1>1, <1>2, <2>2, ConversionAssumption
<1>5. TextIsTheNumber'
  BY <1>1, <1>2 DEF TextIsTheNumber
<1>6. IF signed' THEN base' \in {10, 16} /\ given' \in Signed \cup Unsigned
                 ELSE given' \in Unsigned
  BY <1>1, <1>2 DEF ConversionOK
<1>7. AbsUnsigned(Passed)' = AbsUnsigned(Passed)
  BY <1>2 DEF Passed, AbsUnsigned, AsInt
<1> QED BY <1>1, <1>2, <1>3, <1>4, <1>5, <1>6, <1>7 DEF ConversionOK

LEMMA FinishOK ==
  ASSUME ConversionOK, Finish
  PROVE  ConversionOK'
<1>1. /\ conv = "digits" /\ base \in 2 .. 36 /\ given \in Int /\ signed \in BOOLEAN
      /\ c \in Int /\ Len(text) \in Nat /\ c + Len(text) = BufferSize - 1
      /\ Completes(text, 0, AbsUnsigned(Passed), base) /\ text # <<>>
      /\ IF signed THEN base \in {10, 16} /\ given \in Signed \cup Unsigned
                   ELSE given \in Unsigned
  BY DEF Finish, ConversionOK
<1>2. conv' = "written" /\ given' = given /\ base' = base /\ signed' = signed
  BY DEF Finish
<1>3. text \in Seq(DigitsOf(base))
  BY <1>1 DEF Completes
<1>4. /\ Reading(text, base) = AbsUnsigned(Passed)
      /\ Reading(<<Minus>> \o text, base) = -AbsUnsigned(Passed)
      /\ base = 16 => hextoint(text) = AbsUnsigned(Passed)
  BY <1>1, DigitsRead
\* The number is what the property takes it for, and its absolute value is
\* what has been written.
<1>5. /\ Passed = IF signed /\ given >= Limit \div 2 THEN given - Limit ELSE given
      /\ Passed \in Int /\ AbsUnsigned(Passed) = IF Passed < 0 THEN -Passed ELSE Passed
      /\ ~signed => ~(Passed < 0)
  <2>1. CASE signed
    BY <1>1, <2>1, AsIntIs, AbsIs DEF Passed
  <2>2. CASE ~signed
    <3>1. Passed = given /\ given \in Unsigned
      BY <1>1, <2>2 DEF Passed
    <3>2. given \in Int /\ ~(given < 0)
      BY <3>1, ConversionAssumption DEF Unsigned
    <3> QED BY <2>2, <3>1, <3>2, AbsIs
  <2> QED BY <2>1, <2>2
<1>6. CASE base = 10 /\ Passed < 0
  <2>1. text' = <<Minus>> \o text /\ c' = c - 1
    BY <1>6 DEF Finish
  <2>2. Len(text') = Len(text) + 1
    <3>1. \A ch : Len(<<ch>> \o text) = Len(text) + 1
      BY <1>3
    <3> QED BY <2>1, <3>1
  <2>3. c' \in Int /\ Len(text') \in Nat /\ c' + Len(text') = BufferSize - 1
    BY <1>1, <2>1, <2>2, ConversionAssumption
  <2>4. Reading(text', base) = Passed /\ base # 16
    BY <1>4, <1>5, <1>6, <2>1
  <2>5. TextIsTheNumber'
    BY <1>2, <1>5, <2>4 DEF TextIsTheNumber
  <2> QED BY <1>1, <1>2, <2>3, <2>5 DEF ConversionOK
<1>7. CASE ~(base = 10 /\ Passed < 0)
  <2>1. text' = text /\ c' = c
    BY <1>7 DEF Finish
  <2>2. base # 16 => ~(Passed < 0)
    BY <1>1, <1>5, <1>7
  <2>3. Reading(text', base) = IF base = 16 /\ Passed < 0 THEN -Passed ELSE Passed
    BY <1>4, <1>5, <2>1, <2>2
  <2>4. TextIsTheNumber'
    BY <1>2, <1>4, <1>5, <2>1, <2>3 DEF TextIsTheNumber
  <2> QED BY <1>1, <1>2, <2>1, <2>4 DEF ConversionOK
<1> QED BY <1>6, <1>7

LEMMA ConversionStep ==
  ASSUME ConversionOK, [IntHexNext]_conversionVars
  PROVE  ConversionOK'
<1>0. Bases \subseteq 2 .. 36 /\ Unsigned \subseteq Int
  BY ConversionAssumption DEF Unsigned
<1>1. ASSUME NEW x \in Unsigned, NEW b \in Bases, uinttostr(x, b) PROVE ConversionOK'
  <2>1. AbsUnsigned(x) = x /\ x \in Int /\ b \in 2 .. 36
    BY <1>0, AbsIs
  <2> QED BY <1>1, <2>1, ConvertOK DEF uinttostr
<1>2. ASSUME NEW x \in Signed \cup Unsigned, inttostr(x) \/ inttohex(x) PROVE ConversionOK'
  <2>1. AbsUnsigned(AsInt(x)) \in Unsigned /\ x \in Int /\ 10 \in 2 .. 36 /\ 16 \in 2 .. 36
    BY AsIntIs, AbsIs
  <2>2. PICK b \in {10, 16} : Convert(x, TRUE, AbsUnsigned(AsInt(x)), b)
    BY <1>2 DEF inttostr, inttohex
  <2> QED BY <2>1, <2>2, ConvertOK
<1>3. CASE Take
  BY <1>3 DEF Take, ConversionOK, TextIsTheNumber
<1>4. CASE UNCHANGED conversionVars
  <2>1. ConversionOK' = ConversionOK
    BY <1>4 DEF conversionVars, ConversionOK, TextIsTheNumber, Passed
  <2> QED BY <2>1
<1> QED BY <1>1, <1>2, <1>3, <1>4, WriteDigitOK, FinishOK DEF IntHexNext

-------------------------------------------------------------------------------
(* The room of a buffer                                                    *)

\* The powers of two up to m, which is 2 to the n.
Doubles(w, m, n) == /\ w \in [0 .. n -> Nat] /\ w[0] = 1 /\ w[n] = m
                    /\ \A k \in 1 .. n : w[k] = 2 * w[k - 1]
IsTwoTo(m, n) == \E w : Doubles(w, m, n)

\* A digit takes a factor of three from what is left of the number, one of
\* base 10 a factor of ten and one of base 2 a factor of two.
RoomAnyBase(w) == LET k == Len(text) IN
  /\ base >= 3 /\ k <= BufferSize - 1
  /\ k = 0 => val < w[BufferSize]
  /\ k = 1 => val < 3 * w[BufferSize - 3]
  /\ k >= 2 => val < w[BufferSize - 1 - k]
RoomSigned(w) == LET k == Len(text) IN
  /\ k <= BufferSize - 2
  /\ k = 0 => val <= w[BufferSize - 1]
  /\ k >= 1 => val < w[BufferSize - 2 - k]
RoomTwo(w) == LET k == Len(text) IN
  /\ k <= BufferSize /\ val < w[BufferSize - k]
  /\ given < w[BufferSize - 1] => k <= BufferSize - 1 /\ val < w[BufferSize - 1 - k]

Room(w) ==
  /\ conv = "digits" => CASE signed /\ base = 10 -> RoomSigned(w)
                          [] base = 2             -> RoomTwo(w)
                          [] OTHER                -> RoomAnyBase(w)
  /\ conv = "written" => \/ Len(text) <= BufferSize - 1
                         \/ /\ base = 2 /\ Len(text) = BufferSize
                            /\ given >= w[BufferSize - 1]

\* Division by m or more leaves an m-th of a number at most.
LEMMA Smaller ==
  ASSUME NEW x \in Nat, NEW m \in Nat \ {0}, NEW b \in Nat, m <= b
  PROVE  Quo(x, b) \in Nat /\ m * Quo(x, b) <= x
<1>1. x = b * Quo(x, b) + Rem(x, b) /\ Rem(x, b) \in 0 .. b - 1 /\ Quo(x, b) \in Nat
  BY Split
<1>2. PICK q \in Nat, t \in Nat : x = b * q + t /\ q = Quo(x, b)
  BY <1>1
<1>3. PICK r \in Nat : b = m + r
  <2>1. b - m \in Nat /\ b = m + (b - m)
    OBVIOUS
  <2> QED BY <2>1
<1>4. b * q = m * q + r * q /\ r * q \in Nat /\ m * q \in Nat
  BY <1>3
<1>5. m * q <= x
  BY <1>2, <1>4
<1> QED BY <1>2, <1>5

\* The upper half of the numbers.
LEMMA Half ==
  ASSUME NEW w, Doubles(w, Limit, BufferSize), BufferSize >= 3
  PROVE  /\ w[BufferSize] = Limit /\ w[BufferSize] = 2 * w[BufferSize - 1]
         /\ w[BufferSize - 1] \in Nat /\ Limit \div 2 = w[BufferSize - 1] /\ Limit \in Nat
<1>1. BufferSize \in Nat /\ BufferSize \in 1 .. BufferSize /\ BufferSize - 1 \in 0 .. BufferSize
  BY ConversionAssumption
<1>2. /\ w[BufferSize] = Limit /\ w[BufferSize] = 2 * w[BufferSize - 1]
      /\ w[BufferSize - 1] \in Nat /\ Limit \in Nat
  BY <1>1, ConversionAssumption DEF Doubles
<1> QED BY <1>2

LEMMA RoomStart ==
  ASSUME NEW w, Doubles(w, Limit, BufferSize), BufferSize >= 3,
         \/ \E x \in Unsigned : \E b \in Bases : uinttostr(x, b)
         \/ \E x \in Signed \cup Unsigned : inttostr(x) \/ inttohex(x)
  PROVE  Room(w)'
<1>1. /\ text' = <<>> /\ Len(text') = 0 /\ BufferSize \in Nat /\ BufferSize >= 3
      /\ conv' = "digits"
  BY ConversionAssumption DEF uinttostr, inttostr, inttohex, Convert
<1>2. /\ w[BufferSize] = Limit /\ w[BufferSize] = 2 * w[BufferSize - 1]
      /\ w[BufferSize - 1] \in Nat /\ Limit \div 2 = w[BufferSize - 1] /\ Limit \in Nat
  BY Half
<1>3. \A x \in Signed : AbsUnsigned(x) <= w[BufferSize - 1] /\ AbsUnsigned(x) \in Unsigned
  <2>1. \A x \in Signed : x \in Int /\ -x <= w[BufferSize - 1] /\ x <= w[BufferSize - 1]
    BY <1>2 DEF Signed
  <2> QED BY <2>1, AbsIs
<1>4. \A x \in Unsigned : x \in Nat /\ x < w[BufferSize]
  BY <1>2 DEF Unsigned
<1>5. Bases \subseteq 2 .. 36
  BY ConversionAssumption
<1>6. ASSUME NEW x \in Unsigned, NEW b \in Bases, uinttostr(x, b) PROVE Room(w)'
  <2>1. /\ signed' = FALSE /\ base' = b /\ val' = x /\ given' = x
        /\ x \in Nat /\ x < w[BufferSize] /\ b \in 2 .. 36
    BY <1>4, <1>5, <1>6 DEF uinttostr, Convert
  <2>2. CASE b = 2
    BY <1>1, <1>2, <2>1, <2>2 DEF Room, RoomTwo
  <2>3. CASE b # 2
    <3>1. b >= 3 /\ ~signed' /\ base' # 2
      BY <2>1, <2>3
    <3>2. RoomAnyBase(w)'
      BY <1>1, <2>1, <3>1 DEF RoomAnyBase
    <3> QED BY <1>1, <3>1, <3>2 DEF Room
  <2> QED BY <2>2, <2>3
<1>7. ASSUME NEW x \in Signed \cup Unsigned, inttostr(x) PROVE Room(w)'
  <2>1. signed' /\ base' = 10 /\ val' = AbsUnsigned(AsInt(x))
    BY <1>7 DEF inttostr, Convert
  <2>2. val' <= w[BufferSize - 1]
    BY <1>3, <2>1, AsIntIs
  <2> QED BY <1>1, <2>1, <2>2 DEF Room, RoomSigned
<1>8. ASSUME NEW x \in Signed \cup Unsigned, inttohex(x) PROVE Room(w)'
  <2>1. signed' /\ base' = 16 /\ val' = AbsUnsigned(AsInt(x))
    BY <1>8 DEF inttohex, Convert
  <2>2. val' < w[BufferSize]
    BY <1>3, <1>4, <2>1, AsIntIs
  <2> QED BY <1>1, <2>1, <2>2 DEF Room, RoomAnyBase
<1> QED BY <1>6, <1>7, <1>8

\* A number that is not 0 and below a power of two is below the next one when
\* it loses a factor of two.
LEMMA NextPower ==
  ASSUME NEW w, Doubles(w, Limit, BufferSize), NEW n \in 0 .. BufferSize,
         NEW v \in Nat, NEW q \in Nat, 0 < v, v < w[n], 2 * q <= v, BufferSize \in Nat
  PROVE  n - 1 \in 0 .. BufferSize /\ q < w[n - 1]
<1>1. n # 0
  BY DEF Doubles
<1>2. n \in 1 .. BufferSize /\ n - 1 \in 0 .. BufferSize
  BY <1>1
<1>3. w[n] = 2 * w[n - 1] /\ w[n - 1] \in Nat
  BY <1>2 DEF Doubles
<1> QED BY <1>2, <1>3

LEMMA RoomDigit ==
  ASSUME NEW w, Doubles(w, Limit, BufferSize), BufferSize >= 3,
         ConversionOK, Room(w), WriteDigit
  PROVE  Room(w)'
<1> DEFINE k == Len(text)
<1>1. /\ conv = "digits" /\ base \in 2 .. 36 /\ k \in Nat /\ val \in Nat
      /\ given \in Int /\ text \in Seq(DigitsOf(base)) /\ BufferSize \in Nat
      /\ val > 0 \/ text = <<>>
      /\ conv' = conv /\ base' = base /\ signed' = signed /\ given' = given
      /\ val' = Quo(val, base) /\ text' = <<Digit(Rem(val, base))>> \o text
  BY ConversionAssumption DEF WriteDigit, ConversionOK, Completes, Unsigned, Quo, Rem
<1>2. Len(text') = k + 1
  <2>1. \A ch : Len(<<ch>> \o text) = k + 1
    BY <1>1
  <2> QED BY <1>1, <2>1
<1>3. k # 0 => val > 0
  BY <1>1
<1>4. \A m \in Nat \ {0} : m <= base => val' \in Nat /\ m * val' <= val
  <2>1. base \in Nat
    BY <1>1
  <2> QED BY <1>1, <2>1, Smaller
<1>5. /\ w[BufferSize - 3] \in Nat /\ w[BufferSize - 1] = 4 * w[BufferSize - 3]
      /\ w[BufferSize] = 8 * w[BufferSize - 3] /\ w[BufferSize - 3] # 0
  <2>1. /\ w[BufferSize] = 2 * w[BufferSize - 1] /\ w[BufferSize - 1] = 2 * w[BufferSize - 2]
        /\ w[BufferSize - 2] = 2 * w[BufferSize - 3] /\ w[BufferSize - 3] \in Nat
        /\ w[BufferSize] \in Nat /\ w[BufferSize - 1] \in Nat /\ w[BufferSize - 2] \in Nat
    <3>1. /\ BufferSize \in 1 .. BufferSize /\ BufferSize - 1 \in 1 .. BufferSize
          /\ BufferSize - 2 \in 1 .. BufferSize /\ BufferSize - 3 \in 0 .. BufferSize
          /\ BufferSize - 1 - 1 = BufferSize - 2 /\ BufferSize - 2 - 1 = BufferSize - 3
      BY <1>1
    <3>2. BufferSize \in 0 .. BufferSize /\ BufferSize - 1 \in 0 .. BufferSize
          /\ BufferSize - 2 \in 0 .. BufferSize
      BY <1>1
    <3> QED BY <3>1, <3>2 DEF Doubles
  <2>2. w[BufferSize] = Limit /\ Limit # 0
    BY ConversionAssumption DEF Doubles
  <2> QED BY <2>1, <2>2
<1> HIDE DEF k
<1>6. CASE base = 2
  <2>1. ~(signed /\ base = 10) /\ RoomTwo(w)
    BY <1>1, <1>6 DEF Room
  <2>2. /\ k <= BufferSize /\ val < w[BufferSize - k]
        /\ given < w[BufferSize - 1] => k <= BufferSize - 1 /\ val < w[BufferSize - 1 - k]
    BY <2>1 DEF RoomTwo, k
  <2>3. val' \in Nat /\ 2 * val' <= val /\ k \in Nat
    <3>1. k \in Nat
      BY <1>1 DEF k
    <3> QED BY <1>4, <1>6, <3>1
  <2>4. k + 1 <= BufferSize /\ val' < w[BufferSize - (k + 1)]
    <3>1. CASE val > 0
      <4>1. BufferSize - k \in 0 .. BufferSize
        BY <1>1, <2>2, <2>3
      <4>2. BufferSize - k - 1 \in 0 .. BufferSize /\ val' < w[BufferSize - k - 1]
        BY <1>1, <2>2, <2>3, <3>1, <4>1, NextPower
      <4>3. BufferSize - k - 1 = BufferSize - (k + 1)
        BY <1>1, <2>3
      <4> QED BY <1>1, <2>3, <4>2, <4>3
    <3>2. CASE ~(val > 0)
      <4>1. val' = 0 /\ k = 0
        BY <1>1, <1>3, <2>3, <3>2
      <4>2. w[BufferSize - 1] \in Nat /\ w[BufferSize - 1] # 0
        BY <1>5
      <4> QED BY <1>1, <4>1, <4>2
    <3> QED BY <3>1, <3>2
  <2>5. ASSUME given < w[BufferSize - 1]
        PROVE  k + 1 <= BufferSize - 1 /\ val' < w[BufferSize - 1 - (k + 1)]
    <3>1. CASE val > 0
      <4>1. BufferSize - 1 - k \in 0 .. BufferSize
        BY <1>1, <2>2, <2>3, <2>5
      <4>2. BufferSize - 1 - k - 1 \in 0 .. BufferSize /\ val' < w[BufferSize - 1 - k - 1]
        BY <1>1, <2>2, <2>3, <2>5, <3>1, <4>1, NextPower
      <4>3. BufferSize - 1 - k - 1 = BufferSize - 1 - (k + 1)
        BY <1>1, <2>3
      <4> QED BY <1>1, <2>3, <4>2, <4>3
    <3>2. CASE ~(val > 0)
      <4>1. val' = 0 /\ k = 0
        BY <1>1, <1>3, <2>3, <3>2
      <4>2. w[BufferSize - 2] \in Nat /\ w[BufferSize - 2] # 0
        <5>1. w[BufferSize - 1] = 2 * w[BufferSize - 2] /\ w[BufferSize - 2] \in Nat
          <6>1. BufferSize - 1 \in 1 .. BufferSize /\ BufferSize - 2 \in 0 .. BufferSize
                /\ BufferSize - 1 - 1 = BufferSize - 2
            BY <1>1
          <6> QED BY <6>1 DEF Doubles
        <5> QED BY <1>5, <5>1
      <4>3. BufferSize - 1 - (0 + 1) = BufferSize - 2
        BY <1>1
      <4> QED BY <1>1, <4>1, <4>2, <4>3
    <3> QED BY <3>1, <3>2
  <2>6. RoomTwo(w)'
    BY <1>1, <1>2, <2>4, <2>5 DEF RoomTwo
  <2> QED BY <1>1, <1>6, <2>6 DEF Room
<1>7. CASE base # 2 /\ ~(signed /\ base = 10)
  <2>1. RoomAnyBase(w)
    BY <1>1, <1>7 DEF Room
  <2>2. /\ base >= 3 /\ k <= BufferSize - 1 /\ k \in Nat
        /\ k = 0 => val < w[BufferSize]
        /\ k = 1 => val < 3 * w[BufferSize - 3]
        /\ k >= 2 => val < w[BufferSize - 1 - k]
    BY <1>1, <2>1 DEF RoomAnyBase, k
  <2>3. val' \in Nat /\ 3 * val' <= val
    BY <1>1, <1>4, <2>2
  <2>4. RoomAnyBase(w)'
    <3>1. CASE k = 0
      <4>1. Len(text') = 1 /\ val' < 3 * w[BufferSize - 3]
        BY <1>1, <1>2, <1>5, <2>2, <2>3, <3>1
      <4> QED BY <1>1, <2>2, <4>1 DEF RoomAnyBase
    <3>2. CASE k = 1
      <4>1. Len(text') = 2 /\ val' < w[BufferSize - 3] /\ BufferSize - 1 - 2 = BufferSize - 3
        BY <1>1, <1>2, <1>5, <2>2, <2>3, <3>2
      <4> QED BY <1>1, <2>2, <4>1 DEF RoomAnyBase
    <3>3. CASE k >= 2
      <4>1. val < w[BufferSize - 1 - k] /\ val > 0 /\ BufferSize - 1 - k \in 0 .. BufferSize
        BY <1>1, <1>3, <2>2, <3>3
      <4>2. BufferSize - 1 - k - 1 \in 0 .. BufferSize /\ val' < w[BufferSize - 1 - k - 1]
        BY <1>1, <2>3, <4>1, NextPower
      <4>3. BufferSize - 1 - k - 1 = BufferSize - 1 - (k + 1)
        BY <1>1, <2>2
      <4>4. k + 1 >= 2 /\ k + 1 # 0 /\ k + 1 # 1 /\ k + 1 <= BufferSize - 1
        BY <1>1, <2>2, <3>3, <4>2
      <4> QED BY <1>1, <1>2, <2>2, <4>2, <4>3, <4>4 DEF RoomAnyBase
    <3> QED BY <2>2, <3>1, <3>2, <3>3
  <2> QED BY <1>1, <1>7, <2>4 DEF Room
<1>8. CASE signed /\ base = 10
  <2>1. RoomSigned(w)
    BY <1>1, <1>8 DEF Room
  <2>2. /\ k <= BufferSize - 2 /\ k \in Nat
        /\ k = 0 => val <= w[BufferSize - 1]
        /\ k >= 1 => val < w[BufferSize - 2 - k]
    BY <1>1, <2>1 DEF RoomSigned, k
  <2>3. val' \in Nat /\ 10 * val' <= val
    BY <1>4, <1>8
  <2>4. RoomSigned(w)'
    <3>1. CASE k = 0
      <4>1. Len(text') = 1 /\ val' < w[BufferSize - 3] /\ BufferSize - 2 - 1 = BufferSize - 3
        BY <1>1, <1>2, <1>5, <2>2, <2>3, <3>1
      <4> QED BY <1>1, <4>1 DEF RoomSigned
    <3>2. CASE k >= 1
      <4>1. val < w[BufferSize - 2 - k] /\ val > 0 /\ BufferSize - 2 - k \in 0 .. BufferSize
        BY <1>1, <1>3, <2>2, <3>2
      <4>2. 2 * val' <= val
        BY <1>1, <2>3
      <4>3. BufferSize - 2 - k - 1 \in 0 .. BufferSize /\ val' < w[BufferSize - 2 - k - 1]
        BY <1>1, <2>3, <4>1, <4>2, NextPower
      <4>4. BufferSize - 2 - k - 1 = BufferSize - 2 - (k + 1)
        BY <1>1, <2>2
      <4>5. k + 1 >= 1 /\ k + 1 # 0 /\ k + 1 <= BufferSize - 2
        BY <1>1, <2>2, <3>2, <4>3
      <4> QED BY <1>1, <1>2, <4>3, <4>4, <4>5 DEF RoomSigned
    <3> QED BY <2>2, <3>1, <3>2
  <2> QED BY <1>1, <1>8, <2>4 DEF Room
<1> QED BY <1>6, <1>7, <1>8

LEMMA RoomFinish ==
  ASSUME NEW w, Doubles(w, Limit, BufferSize), BufferSize >= 3,
         ConversionOK, Room(w), Finish
  PROVE  Room(w)'
<1>1. /\ conv = "digits" /\ conv' = "written" /\ base' = base /\ given' = given
      /\ text \in Seq(DigitsOf(base)) /\ Len(text) \in Nat /\ BufferSize \in Nat
      /\ base \in 2 .. 36 /\ given \in Int /\ w[BufferSize - 1] \in Nat
      /\ ~signed => given \in Unsigned /\ Passed = given /\ ~(given < 0)
  <2>1. w[BufferSize - 1] \in Nat
    BY Half
  <2> QED BY <2>1, ConversionAssumption DEF Finish, ConversionOK, Completes, Passed, Unsigned
<1>2. CASE base = 10 /\ Passed < 0
  <2>1. \A ch : Len(<<ch>> \o text) = Len(text) + 1
    BY <1>1
  <2>2. signed
    BY <1>1, <1>2
  <2>3. Len(text') = Len(text) + 1 /\ Len(text) <= BufferSize - 2
    BY <1>1, <1>2, <2>1, <2>2 DEF Finish, Room, RoomSigned
  <2> QED BY <1>1, <2>3 DEF Room
<1>3. CASE ~(base = 10 /\ Passed < 0)
  <2>1. text' = text
    BY <1>3 DEF Finish
  <2>2. \/ Len(text) <= BufferSize - 1
        \/ base = 2 /\ Len(text) = BufferSize /\ given >= w[BufferSize - 1]
    <3>1. CASE signed /\ base = 10
      BY <1>1, <3>1 DEF Room, RoomSigned
    <3>2. CASE base = 2
      BY <1>1, <3>2 DEF Room, RoomTwo
    <3>3. CASE base # 2 /\ ~(signed /\ base = 10)
      BY <1>1, <3>3 DEF Room, RoomAnyBase
    <3> QED BY <3>1, <3>2, <3>3
  <2> QED BY <1>1, <2>1, <2>2 DEF Room
<1> QED BY <1>2, <1>3

LEMMA RoomStep ==
  ASSUME NEW w, Doubles(w, Limit, BufferSize), BufferSize >= 3,
         ConversionOK, Room(w), [IntHexNext]_conversionVars
  PROVE  Room(w)'
<1>1. CASE Take
  BY <1>1 DEF Take, Room
<1>2. CASE UNCHANGED conversionVars
  BY <1>2 DEF conversionVars, Room, RoomTwo, RoomAnyBase, RoomSigned
<1> QED BY <1>1, <1>2, RoomStart, RoomDigit, RoomFinish DEF IntHexNext

-------------------------------------------------------------------------------
(* One helper after the other                                              *)

ConversionSpec == IntHexInit /\ [][IntHexNext]_conversionVars
AddressSpec    == AddressInit /\ [][AddressNext]_addressVars

\* A thread that calls one helper after the other makes of each of them
\* nothing but calls of it alone.
LEMMA HelpersApart ==
  HelpersSpec => FletcherSpec /\ ConversionSpec /\ AddressSpec /\ KeysSpec
<1>1. HelpersInit => FletcherInit /\ IntHexInit /\ AddressInit /\ KeysInit
  BY DEF HelpersInit
<1>2. ASSUME [HelpersNext]_helperVars
      PROVE  /\ [FletcherNext]_fletcherVars /\ [IntHexNext]_conversionVars
             /\ [AddressNext]_addressVars /\ [KeysNext]_keyVars
  <2>1. CASE UNCHANGED helperVars
    BY <2>1 DEF helperVars
  <2>2. CASE HelpersNext
    BY <2>2 DEF HelpersNext, HashIdle, ConversionIdle, AddressIdle, KeysIdle
  <2> QED BY <1>2, <2>1, <2>2
<1> QED BY <1>1, <1>2, PTL DEF HelpersSpec, FletcherSpec, ConversionSpec, AddressSpec, KeysSpec

LEMMA ConversionInvariant == ConversionSpec => []ConversionOK
<1>1. IntHexInit => ConversionOK
  BY DEF IntHexInit, ConversionOK, TextIsTheNumber
<1>2. ConversionOK /\ [IntHexNext]_conversionVars => ConversionOK'
  BY ConversionStep
<1> QED BY <1>1, <1>2, PTL DEF ConversionSpec

(* What uinttostr, inttostr and inttohex return is the number that was     *)
(* given, in every base and for words of any length, the most negative     *)
(* number included, but for the unsigned numbers of the upper half that    *)
(* the string overloads of inttostr and inttohex take for signed ones;     *)
(* hextoint reads back what is written in base 16.                         *)
THEOREM TextIsRight == HelpersSpec => []TextIsTheNumber
<1>1. ConversionOK => TextIsTheNumber
  BY DEF ConversionOK
<1> QED BY <1>1, HelpersApart, ConversionInvariant, PTL

(* The overloads that return a string bring as many bytes as the number    *)
(* has bits: that is room for the digits, the sign and the terminator in   *)
(* every base but 2, and in base 2 for the numbers of the lower half; one  *)
(* of the upper half is written one byte in front of the buffer.           *)
THEOREM BufferIsEnough ==
  ASSUME IsTwoTo(Limit, BufferSize), BufferSize >= 3
  PROVE  HelpersSpec => []InsideBuffer
<1>1. PICK w : Doubles(w, Limit, BufferSize)
  BY DEF IsTwoTo
<1>2. IntHexInit => ConversionOK /\ Room(w)
  BY DEF IntHexInit, ConversionOK, TextIsTheNumber, Room
<1>3. ConversionOK /\ Room(w) /\ [IntHexNext]_conversionVars => ConversionOK' /\ Room(w)'
  BY <1>1, ConversionStep, RoomStep
<1>4. ASSUME ConversionOK, Room(w) PROVE InsideBuffer
  <2> SUFFICES ASSUME conv # "idle" PROVE InsideBuffer
    BY DEF InsideBuffer
  <2>1. /\ conv \in {"digits", "written"} /\ BufferSize \in Nat /\ given \in Int
        /\ c \in Int /\ Len(text) \in Nat /\ c + Len(text) = BufferSize - 1
    BY <1>4, ConversionAssumption DEF ConversionOK
  <2>2. Limit \div 2 = w[BufferSize - 1] /\ w[BufferSize - 1] \in Nat
    BY <1>1, Half
  <2>3. \/ Len(text) <= BufferSize - 1
        \/ base = 2 /\ Len(text) = BufferSize /\ given >= w[BufferSize - 1]
    <3>1. CASE conv = "written"
      BY <1>4, <3>1 DEF Room
    <3>2. CASE conv = "digits" /\ signed /\ base = 10
      BY <1>4, <2>1, <3>2 DEF Room, RoomSigned
    <3>3. CASE conv = "digits" /\ base = 2
      BY <1>4, <2>1, <2>2, <3>3 DEF Room, RoomTwo
    <3>4. CASE conv = "digits" /\ base # 2 /\ ~(signed /\ base = 10)
      BY <1>4, <3>4 DEF Room, RoomAnyBase
    <3> QED BY <2>1, <3>1, <3>2, <3>3, <3>4
  <2> QED BY <2>1, <2>2, <2>3 DEF InsideBuffer
<1> QED BY <1>2, <1>3, <1>4, HelpersApart, PTL DEF ConversionSpec

(* The buffers of the 32-bit functions.                                    *)
THEOREM ThirtyTwoBits == IsTwoTo(4294967296, 32)
<1>1. IsTwoTo(1, 0)
  <2> DEFINE w == [k \in 0 .. 0 |-> 1]
  <2>1. Doubles(w, 1, 0)
    BY DEF Doubles
  <2> QED BY <2>1 DEF IsTwoTo
<1>2. ASSUME NEW m \in Nat, NEW n \in Nat, IsTwoTo(m, n) PROVE IsTwoTo(2 * m, n + 1)
  <2>1. PICK w : Doubles(w, m, n)
    BY <1>2 DEF IsTwoTo
  <2> DEFINE u == [k \in 0 .. n + 1 |-> IF k = n + 1 THEN 2 * m ELSE w[k]]
  <2>2. /\ w \in [0 .. n -> Nat] /\ w[0] = 1 /\ w[n] = m
        /\ \A k \in 1 .. n : w[k] = 2 * w[k - 1]
    BY <2>1 DEF Doubles
  <2>3. u \in [0 .. n + 1 -> Nat] /\ u[0] = 1 /\ u[n + 1] = 2 * m /\ u[n] = m
    BY <2>2
  <2>4. ASSUME NEW k \in 1 .. n + 1 PROVE u[k] = 2 * u[k - 1]
    <3>1. CASE k = n + 1
      BY <2>3, <3>1
    <3>2. CASE k # n + 1
      <4>1. k \in 1 .. n /\ k - 1 \in 0 .. n /\ k - 1 # n + 1
        BY <3>2
      <4> QED BY <2>2, <4>1
    <3> QED BY <3>1, <3>2
  <2> HIDE DEF u
  <2>5. Doubles(u, 2 * m, n + 1)
    BY <2>3, <2>4 DEF Doubles
  <2> QED BY <2>5 DEF IsTwoTo
<1>3. ASSUME NEW m \in Nat, NEW n \in Nat, IsTwoTo(m, n) PROVE IsTwoTo(16 * m, n + 4)
  <2>1. IsTwoTo(2 * m, n + 1)
    BY <1>2, <1>3
  <2>2. IsTwoTo(2 * (2 * m), n + 1 + 1)
    BY <1>2, <2>1
  <2>3. IsTwoTo(2 * (2 * (2 * m)), n + 1 + 1 + 1)
    BY <1>2, <2>2
  <2>4. IsTwoTo(2 * (2 * (2 * (2 * m))), n + 1 + 1 + 1 + 1)
    BY <1>2, <2>3
  <2>5. 2 * (2 * (2 * (2 * m))) = 16 * m /\ n + 1 + 1 + 1 + 1 = n + 4
    OBVIOUS
  <2> QED BY <2>4, <2>5
<1>4. IsTwoTo(16, 4)
  BY <1>1, <1>3
<1>5. IsTwoTo(256, 8)
  BY <1>3, <1>4
<1>6. IsTwoTo(4096, 12)
  BY <1>3, <1>5
<1>7. IsTwoTo(65536, 16)
  BY <1>3, <1>6
<1>8. IsTwoTo(1048576, 20)
  BY <1>3, <1>7
<1>9. IsTwoTo(16777216, 24)
  BY <1>3, <1>8
<1>10. IsTwoTo(268435456, 28)
  BY <1>3, <1>9
<1> QED BY <1>3, <1>10

-------------------------------------------------------------------------------
(* The parts of a url                                                      *)

Part == Protocols \cup Piece

LEMMA OneElement ==
  ASSUME NEW S, NEW s \in Seq(S), NEW t \in Seq(S), Len(s) = 1, Len(t) = 1, s[1] = t[1]
  PROVE  s = t
OBVIOUS

LEMMA FindFirst ==
  ASSUME NEW s, NEW pat, Len(s) \in Nat, Len(pat) \in Nat,
         NEW k \in 1 .. Len(s) - Len(pat) + 1, SubSeq(s, k, k + Len(pat) - 1) = pat,
         \A j \in 1 .. k - 1 : SubSeq(s, j, j + Len(pat) - 1) # pat
  PROVE  Find(s, pat) = k
<1> DEFINE at == {i \in 1 .. Len(s) - Len(pat) + 1 : SubSeq(s, i, i + Len(pat) - 1) = pat}
<1>1. Find(s, pat) = IF at = {} THEN 0 ELSE CHOOSE i \in at : \A j \in at : i <= j
  BY DEF Find
<1>2. k \in at /\ at \subseteq Nat
  OBVIOUS
<1>3. ASSUME NEW j \in at PROVE k <= j
  <2>1. ~(j \in 1 .. k - 1) /\ j \in 1 .. Len(s) - Len(pat) + 1
    OBVIOUS
  <2> QED BY <2>1
<1> HIDE DEF at
<1>4. \A i \in at : (\A j \in at : i <= j) => i = k
  BY <1>2, <1>3
<1> QED BY <1>1, <1>2, <1>3, <1>4

LEMMA FindNothing ==
  ASSUME NEW s, NEW pat, Len(s) \in Nat, Len(pat) \in Nat
  PROVE  Find(s, pat) = 0 <=>
           \A j \in 1 .. Len(s) - Len(pat) + 1 : SubSeq(s, j, j + Len(pat) - 1) # pat
<1> DEFINE at == {i \in 1 .. Len(s) - Len(pat) + 1 : SubSeq(s, i, i + Len(pat) - 1) = pat}
<1>1. Find(s, pat) = IF at = {} THEN 0 ELSE CHOOSE i \in at : \A j \in at : i <= j
  BY DEF Find
<1>2. at \in SUBSET Nat /\ 0 \notin at
  OBVIOUS
<1>3. at = {} <=> \A j \in 1 .. Len(s) - Len(pat) + 1 : SubSeq(s, j, j + Len(pat) - 1) # pat
  OBVIOUS
<1> HIDE DEF at
<1>4. ASSUME at # {} PROVE Find(s, pat) # 0
  <2>1. PICK m \in at : \A j \in at : m <= j
    BY <1>2, <1>4, LeastNumber
  <2> QED BY <1>1, <1>2, <1>4, <2>1
<1> QED BY <1>1, <1>3, <1>4

\* Find, for a text of one piece.
LEMMA FindPiece ==
  ASSUME NEW S, NEW s \in Seq(S), NEW e
  PROVE  /\ \A k \in 1 .. Len(s) :
              s[k] = e /\ (\A j \in 1 .. k - 1 : s[j] # e) => Find(s, <<e>>) = k
         /\ Find(s, <<e>>) = 0 <=> \A j \in 1 .. Len(s) : s[j] # e
<1>1. Len(s) \in Nat /\ Len(<<e>>) = 1 /\ Len(<<e>>) \in Nat /\ Len(s) - 1 + 1 = Len(s)
  OBVIOUS
<1>2. ASSUME NEW j \in 1 .. Len(s)
      PROVE  SubSeq(s, j, j + Len(<<e>>) - 1) = <<e>> <=> s[j] = e
  <2>1. j + Len(<<e>>) - 1 = j
    BY <1>1
  <2>2. SubSeq(s, j, j) \in Seq(S) /\ Len(SubSeq(s, j, j)) = 1 /\ SubSeq(s, j, j)[1] = s[j]
    BY <1>1
  <2>3. <<s[j]>> \in Seq(S) /\ Len(<<s[j]>>) = 1 /\ <<s[j]>>[1] = s[j]
    BY <1>1
  <2>4. SubSeq(s, j, j) = <<s[j]>>
    BY <2>2, <2>3, OneElement
  <2> QED BY <2>1, <2>4
<1>3. ASSUME NEW k \in 1 .. Len(s), s[k] = e, \A j \in 1 .. k - 1 : s[j] # e
      PROVE  Find(s, <<e>>) = k
  <2>1. k \in 1 .. Len(s) - Len(<<e>>) + 1
    BY <1>1
  <2>2. SubSeq(s, k, k + Len(<<e>>) - 1) = <<e>>
    BY <1>2, <1>3
  <2>3. \A j \in 1 .. k - 1 : SubSeq(s, j, j + Len(<<e>>) - 1) # <<e>>
    <3>1. \A j \in 1 .. k - 1 : j \in 1 .. Len(s)
      BY <1>1
    <3> QED BY <1>2, <1>3, <3>1
  <2>4. Len(s) \in Nat /\ Len(<<e>>) \in Nat
    BY <1>1
  <2> DEFINE pat == <<e>>
  <2> HIDE DEF pat
  <2>5. Find(s, pat) = k
    <3> USE DEF pat
    <3>1. /\ Len(s) \in Nat /\ Len(pat) \in Nat /\ k \in 1 .. Len(s) - Len(pat) + 1
          /\ SubSeq(s, k, k + Len(pat) - 1) = pat
          /\ \A j \in 1 .. k - 1 : SubSeq(s, j, j + Len(pat) - 1) # pat
      BY <2>1, <2>2, <2>3, <2>4, Zenon
    <3> HIDE DEF pat
    <3> QED BY <3>1, FindFirst
  <2> QED BY <2>5 DEF pat
<1>4. Find(s, <<e>>) = 0 <=> \A j \in 1 .. Len(s) : s[j] # e
  <2>1. Find(s, <<e>>) = 0 <=>
          \A j \in 1 .. Len(s) - Len(<<e>>) + 1 : SubSeq(s, j, j + Len(<<e>>) - 1) # <<e>>
    BY <1>1, FindNothing
  <2> QED BY <1>1, <1>2, <2>1
<1> QED BY <1>3, <1>4

\* A text of one piece is found where it stands first.
LEMMA FoundPiece ==
  ASSUME NEW S, NEW s \in Seq(S), NEW e, Find(s, <<e>>) # 0
  PROVE  /\ Find(s, <<e>>) \in 1 .. Len(s) /\ s[Find(s, <<e>>)] = e
         /\ \A j \in 1 .. Find(s, <<e>>) - 1 : s[j] # e
<1> DEFINE at == {j \in 1 .. Len(s) : s[j] = e}
<1>1. PICK j \in 1 .. Len(s) : s[j] = e
  BY FindPiece
<1>2. at # {} /\ at \in SUBSET Nat /\ Len(s) \in Nat
  BY <1>1
<1>3. PICK m \in at : \A i \in at : m <= i
  <2> HIDE DEF at
  <2> QED BY <1>2, LeastNumber
<1>4. m \in 1 .. Len(s) /\ s[m] = e /\ \A i \in 1 .. m - 1 : s[i] # e
  <2>1. ASSUME NEW i \in 1 .. m - 1 PROVE s[i] # e
    <3>1. i \in 1 .. Len(s) /\ ~(m <= i)
      BY <1>2
    <3> QED BY <1>3, <3>1
  <2> QED BY <2>1
<1>5. Find(s, <<e>>) = m
  BY <1>4, FindPiece
<1> QED BY <1>4, <1>5

LEMMA FindNumber ==
  ASSUME NEW s, NEW pat, Len(s) \in Nat, Len(pat) \in Nat
  PROVE  Find(s, pat) \in Nat
<1> DEFINE at == {i \in 1 .. Len(s) - Len(pat) + 1 : SubSeq(s, i, i + Len(pat) - 1) = pat}
<1>1. Find(s, pat) = IF at = {} THEN 0 ELSE CHOOSE i \in at : \A j \in at : i <= j
  BY DEF Find
<1>2. at \in SUBSET Nat
  OBVIOUS
<1> HIDE DEF at
<1>3. ASSUME at # {} PROVE Find(s, pat) \in Nat
  <2>1. PICK m \in at : \A j \in at : m <= j
    BY <1>2, <1>3, LeastNumber
  <2> QED BY <1>1, <1>2, <1>3, <2>1
<1> QED BY <1>1, <1>3

\* The protocol ends at the first "://", and what is behind it is left.
LEMMA ProtocolIs ==
  ASSUME NEW p \in Part, NEW t \in Seq(Part), NEW u, u = <<p>> \o Slashes \o t
  PROVE  Find(u, Slashes) = 2 /\ Before(u, 2) = <<p>> /\ From(u, 2 + 3) = t
<1>1. <<p>> \in Seq(Part) /\ Slashes \in Seq(Part) /\ Len(Slashes) = 3
      /\ Slashes[1] = ":" /\ Slashes[2] = "/" /\ Slashes[3] = "/" /\ ":" # "/"
  BY DEF Slashes, Part, Piece
<1>2. /\ u \in Seq(Part) /\ Len(u) = 4 + Len(t) /\ Len(t) \in Nat
      /\ u[1] = p /\ u[2] = ":" /\ u[3] = "/" /\ u[4] = "/"
      /\ \A i \in 1 .. Len(t) : u[4 + i] = t[i]
  <2> DEFINE ps == <<p>> \o Slashes
  <2>1. /\ ps \in Seq(Part) /\ Len(ps) = 4
        /\ ps[1] = p /\ ps[2] = ":" /\ ps[3] = "/" /\ ps[4] = "/"
    BY DEF Slashes, Part, Piece
  <2>2. u = ps \o t
    OBVIOUS
  <2> HIDE DEF ps
  <2>3. /\ u \in Seq(Part) /\ Len(u) = 4 + Len(t) /\ Len(t) \in Nat
        /\ u[1] = ps[1] /\ u[2] = ps[2] /\ u[3] = ps[3] /\ u[4] = ps[4]
        /\ \A i \in 1 .. Len(t) : u[4 + i] = t[i]
    <3>1. /\ u \in Seq(Part) /\ Len(u) = 4 + Len(t) /\ Len(t) \in Nat
          /\ \A i \in 1 .. 4 + Len(t) : u[i] = IF i <= 4 THEN ps[i] ELSE t[i - 4]
      <4>0. ps \in Seq(Part)
        BY <2>1
      <4>1. ps \o t \in Seq(Part) /\ Len(ps \o t) = Len(ps) + Len(t) /\ Len(t) \in Nat
        BY <4>0
      <4>2. \A i \in 1 .. Len(ps) + Len(t) :
              (ps \o t)[i] = IF i <= Len(ps) THEN ps[i] ELSE t[i - Len(ps)]
        BY <4>0
      <4> QED BY <2>1, <2>2, <4>1, <4>2
    <3>2. /\ 1 \in 1 .. 4 + Len(t) /\ 2 \in 1 .. 4 + Len(t) /\ 3 \in 1 .. 4 + Len(t)
          /\ 4 \in 1 .. 4 + Len(t)
      BY <3>1
    <3>3. u[1] = ps[1] /\ u[2] = ps[2] /\ u[3] = ps[3] /\ u[4] = ps[4]
      BY <3>1, <3>2
    <3>4. ASSUME NEW i \in 1 .. Len(t) PROVE u[4 + i] = t[i]
      <4>1. 4 + i \in 1 .. 4 + Len(t) /\ ~(4 + i <= 4) /\ 4 + i - 4 = i
        BY <3>1
      <4> QED BY <3>1, <4>1
    <3> QED BY <3>1, <3>3, <3>4
  <2> QED BY <2>1, <2>3
<1>3. SubSeq(u, 2, 4) = Slashes
  <2>1. SubSeq(u, 2, 4) \in Seq(Part) /\ Len(SubSeq(u, 2, 4)) = 3
        /\ \A i \in 1 .. 3 : SubSeq(u, 2, 4)[i] = u[2 + i - 1]
    BY <1>2
  <2>2. \A i \in 1 .. 3 : i = 1 \/ i = 2 \/ i = 3
    OBVIOUS
  <2>3. \A i \in 1 .. 3 : SubSeq(u, 2, 4)[i] = Slashes[i]
    BY <1>1, <1>2, <2>1, <2>2
  <2> QED BY <1>1, <2>1, <2>3
<1>4. SubSeq(u, 1, 3) # Slashes
  <2>1. SubSeq(u, 1, 3)[2] = u[2]
    BY <1>2
  <2> QED BY <1>1, <1>2, <2>1
<1>5. Find(u, Slashes) = 2
  <2>1. /\ 2 \in 1 .. Len(u) - Len(Slashes) + 1 /\ 2 + Len(Slashes) - 1 = 4
        /\ \A j \in 1 .. 2 - 1 : j = 1 /\ j + Len(Slashes) - 1 = 3
    BY <1>1, <1>2
  <2>2. Len(u) \in Nat /\ Len(Slashes) \in Nat /\ SubSeq(u, 2, 2 + Len(Slashes) - 1) = Slashes
    BY <1>1, <1>2, <1>3, <2>1
  <2>3. \A j \in 1 .. 2 - 1 : SubSeq(u, j, j + Len(Slashes) - 1) # Slashes
    BY <1>4, <2>1
  <2> QED BY <2>1, <2>2, <2>3, FindFirst, Zenon
<1>6. Before(u, 2) = <<p>>
  <2>1. SubSeq(u, 1, 1) \in Seq(Part) /\ Len(SubSeq(u, 1, 1)) = 1 /\ SubSeq(u, 1, 1)[1] = p
    BY <1>2
  <2>2. SubSeq(u, 1, 1) = <<p>>
    <3>1. <<p>> \in Seq(Part) /\ Len(<<p>>) = 1 /\ <<p>>[1] = p
      OBVIOUS
    <3> QED BY <2>1, <3>1, OneElement
  <2> QED BY <2>2 DEF Before
<1>7. From(u, 2 + 3) = t
  <2>1. /\ SubSeq(u, 5, Len(u)) \in Seq(Part) /\ Len(SubSeq(u, 5, Len(u))) = Len(t)
        /\ \A i \in 1 .. Len(t) : SubSeq(u, 5, Len(u))[i] = u[5 + i - 1]
    BY <1>2
  <2>2. \A i \in 1 .. Len(t) : 5 + i - 1 = 4 + i
    BY <1>2
  <2> QED BY <1>2, <2>1, <2>2 DEF From
<1> QED BY <1>5, <1>6, <1>7

\* The object, or the exception, is what Construct makes of the url.
AddressOK ==
  /\ url \in Seq(Part) /\ asked \in {"unknown", "tcp"}
  /\ \/ Find(url, Slashes) # 0 /\ address \in Parsed(url, asked)
     \/ /\ Find(url, Slashes) = 0 \/ Parsed(url, asked) = {}
        /\ address = Thrown

LEMMA NoUrl == Find(<<>>, Slashes) = 0
<1>1. Len(<<>>) \in Nat /\ Len(Slashes) \in Nat /\ Len(<<>>) - Len(Slashes) + 1 = -2
  BY DEF Slashes
<1> QED BY <1>1, FindNothing

LEMMA UrlsAreTexts == Urls \subseteq Seq(Part)
<1>1. ASSUME NEW m \in Nat, NEW s \in [1 .. m -> Piece] PROVE s \in Seq(Part)
  <2>1. s \in [1 .. m -> Part]
    BY DEF Part
  <2> QED BY <2>1
<1> DEFINE rest  == {s \in UNION {[1 .. m -> Piece] : m \in 0 .. MaxRest} : Text(s)}
           start == {<<p>> \o Slashes : p \in Protocols} \cup {Slashes}
<1>2. rest \subseteq Seq(Part)
  BY <1>1, AddressAssumption
<1>3. start \subseteq Seq(Part)
  <2>1. Slashes \in Seq(Part)
    BY DEF Slashes, Part, Piece
  <2>2. ASSUME NEW p \in Protocols PROVE <<p>> \o Slashes \in Seq(Part)
    BY DEF Slashes, Part, Piece
  <2> QED BY <2>1, <2>2
<1>4. ASSUME NEW s \in Seq(Part), NEW t \in Seq(Part) PROVE s \o t \in Seq(Part)
  OBVIOUS
<1>5. Urls = {s \o t : s \in start, t \in rest} \cup {s \in rest : s # <<>>}
  BY DEF Urls
<1> HIDE DEF rest, start
<1>6. ASSUME NEW u \in Urls PROVE u \in Seq(Part)
  <2>1. (\E s \in start : \E t \in rest : u = s \o t) \/ u \in rest
    BY <1>5
  <2>2. CASE \E s \in start : \E t \in rest : u = s \o t
    <3>1. PICK s \in start : \E t \in rest : u = s \o t
      BY <2>2
    <3>2. PICK t \in rest : u = s \o t
      BY <3>1
    <3>3. s \in Seq(Part) /\ t \in Seq(Part)
      BY <1>2, <1>3
    <3> QED BY <1>4, <3>2, <3>3
  <2> QED BY <1>2, <2>1, <2>2
<1> QED BY <1>6

LEMMA AddressInvariant == AddressSpec => []AddressOK
<1>1. <<>> \in Seq(Part)
  OBVIOUS
<1>2. AddressInit => AddressOK
  BY <1>1, NoUrl DEF AddressInit, AddressOK
<1>3. ASSUME AddressOK, [AddressNext]_addressVars PROVE AddressOK'
  <2>1. CASE ConstructAddress
    <3>1. PICK s \in Urls, type \in {"unknown", "tcp"} : Construct(s, type)
      BY <2>1 DEF ConstructAddress
    <3>2. url' = s /\ asked' = type /\ s \in Seq(Part)
      BY <3>1, UrlsAreTexts DEF Construct
    <3>3. \/ Find(s, Slashes) # 0 /\ address' \in Parsed(s, type)
          \/ /\ Find(s, Slashes) = 0 \/ Parsed(s, type) = {}
             /\ address' = Thrown
      BY <3>1 DEF Construct
    <3> QED BY <3>2, <3>3 DEF AddressOK
  <2>2. CASE DestroyAddress
    BY <1>1, <2>2, NoUrl DEF DestroyAddress, AddressOK
  <2>3. CASE UNCHANGED addressVars
    BY <1>3, <2>3 DEF addressVars, AddressOK
  <2> QED BY <1>3, <2>1, <2>2, <2>3 DEF AddressNext
<1> QED BY <1>2, <1>3, PTL DEF AddressSpec

\* The type of socket of a protocol, or the one that was asked for.
LEMMA TypesAre ==
  ASSUME NEW p \in Protocols, NEW type \in {"unknown", "tcp"}
  PROVE  Types(<<p>>, type)[1] =
           IF type = "tcp" \/ p \in TCP \cup HTTP \cup HTTPS THEN "tcp"
           ELSE IF p \in UDP THEN "udp" ELSE "unknown"
<1>1. <<p>> # <<>> /\ Head(<<p>>) = p
  OBVIOUS
<1>2. CASE type = "tcp"
  BY <1>1, <1>2 DEF Types
<1>3. CASE type = "unknown"
  <2>1. Types(<<p>>, type) = Guess(p)
    BY <1>1, <1>3 DEF Types
  <2>2. /\ ~(p \in HTTP /\ p \in HTTPS) /\ ~(p \in HTTP /\ p \in TCP) /\ ~(p \in HTTP /\ p \in UDP)
        /\ ~(p \in HTTPS /\ p \in TCP) /\ ~(p \in HTTPS /\ p \in UDP) /\ ~(p \in TCP /\ p \in UDP)
    BY AddressAssumption
  <2>3. CASE p \in HTTP
    BY <1>3, <2>1, <2>2, <2>3 DEF Guess
  <2>4. CASE p \in HTTPS
    BY <1>3, <2>1, <2>2, <2>4 DEF Guess
  <2>5. CASE p \in TCP
    BY <1>3, <2>1, <2>2, <2>5 DEF Guess
  <2>6. CASE p \in UDP
    BY <1>3, <2>1, <2>2, <2>6 DEF Guess
  <2>7. CASE p \notin HTTP \cup HTTPS \cup TCP \cup UDP
    BY <1>3, <2>1, <2>7 DEF Guess
  <2> QED BY <2>3, <2>4, <2>5, <2>6, <2>7
<1> QED BY <1>2, <1>3

\* t is r with h before it; t begins with a host and a port and ends with q; the url
\* is the protocol p and t; its only host, port and query; and none at all.
Follows(h, r, t) ==
  t \in Seq(Part) /\ Len(t) = Len(r) + 1 /\ t[1] = h /\ \A i \in 1 .. Len(r) : t[i + 1] = r[i]
HostAndPort(h, n, q, t) ==
  /\ t \in Seq(Part) /\ Len(t) = Len(q) + 3 /\ t[1] = h /\ t[2] = ":" /\ t[3] = n
  /\ \A i \in 1 .. Len(q) : t[i + 3] = q[i]
UrlIs(p, t) == url = <<p>> \o Slashes \o t
Gives(p, t, h, port, q) == HostPort(<<p>>, t) = {[host |-> <<h>>, port |-> port, query |-> q]}
GivesNone(p, t) == \A part \in HostPort(<<p>>, t) : part.host = <<>>
PortOf(n) == Numbers[n] % 65536
Query(q) == q = <<>> \/ Head(q) = "/"

\* A host, its port and a query.
LEMMA WithPort ==
  ASSUME NEW p \in Protocols, NEW h \in Hosts, NEW m \in DOMAIN Numbers, NEW q \in Seq(Part),
         Query(q), NEW t, HostAndPort(h, m, q, t)
  PROVE  Gives(p, t, h, PortOf(m), q)
<1> USE DEF PortOf, Query, HostAndPort
<1>1. h \in Part /\ ":" \in Part /\ m \in Part /\ "/" # ":"
      /\ h # ":" /\ h # "/" /\ m # "/" /\ m # ":"
  BY AddressAssumption DEF Part, Piece
<1>3. Len(q) \in Nat
  OBVIOUS
<1>5. Before(t, 2) = <<h>>
  <2>1. SubSeq(t, 1, 1) \in Seq(Part) /\ Len(SubSeq(t, 1, 1)) = 1 /\ SubSeq(t, 1, 1)[1] = h
    BY <1>3
  <2>2. <<h>> \in Seq(Part) /\ Len(<<h>>) = 1 /\ <<h>>[1] = h
    BY <1>1
  <2>3. SubSeq(t, 1, 1) = <<h>>
    BY <2>1, <2>2, OneElement
  <2> QED BY <2>3 DEF Before
<1>6. Find(t, <<":">>) = 2
  <2>1. 2 \in 1 .. Len(t) /\ \A j \in 1 .. 2 - 1 : j = 1
    BY <1>3, <1>5
  <2> QED BY <1>1, <1>5, <2>1, FindPiece
<1>7. From(t, 3) \in Seq(Part) /\ From(t, 3) # <<>> /\ Head(From(t, 3)) = m
  <2>1. /\ SubSeq(t, 3, Len(t)) \in Seq(Part) /\ Len(SubSeq(t, 3, Len(t))) = Len(q) + 1
        /\ SubSeq(t, 3, Len(t))[1] = t[3]
    BY <1>3, <1>5
  <2> QED BY <1>3, <1>5, <2>1 DEF From
<1>8. (IF Find(t, <<"/">>) = 0 THEN <<>> ELSE From(t, Find(t, <<"/">>))) = q
  <2>1. CASE q = <<>>
    <3>1. \A j \in 1 .. Len(t) : j = 1 \/ j = 2 \/ j = 3
      BY <1>5, <2>1
    <3>2. \A j \in 1 .. Len(t) : t[j] # "/"
      BY <1>1, <1>5, <3>1
    <3> QED BY <1>5, <2>1, <3>2, FindPiece
  <2>2. CASE q # <<>>
    <3>1. Len(q) >= 1 /\ q[1] = "/" /\ 1 \in 1 .. Len(q) /\ 1 + 3 = 4
      BY <2>2
    <3>2. t[4] = "/" /\ 4 \in 1 .. Len(t) /\ \A j \in 1 .. 4 - 1 : j = 1 \/ j = 2 \/ j = 3
      BY <1>3, <1>5, <3>1
    <3>3. Find(t, <<"/">>) = 4
      BY <1>1, <1>5, <3>2, FindPiece
    <3>4. From(t, 4) = q
      <4>1. /\ SubSeq(t, 4, Len(t)) \in Seq(Part) /\ Len(SubSeq(t, 4, Len(t))) = Len(q)
            /\ \A i \in 1 .. Len(q) : SubSeq(t, 4, Len(t))[i] = t[4 + i - 1]
        BY <1>3, <1>5
      <4>2. \A i \in 1 .. Len(q) : 4 + i - 1 = i + 3
        BY <1>3
      <4> QED BY <1>5, <4>1, <4>2 DEF From
    <3> QED BY <3>3, <3>4
  <2> QED BY <2>1, <2>2
<1>9. Ports(t) = {Numbers[m] % 65536}
  <2>1. Port(From(t, 2 + 1)) = Numbers[m] % 65536
    BY <1>7 DEF Port, HasNumber
  <2>2. Find(t, <<"/">>) \notin 1 .. 2
    <3>1. t[1] # "/" /\ t[2] # "/"
      BY <1>1
    <3>2. ASSUME Find(t, <<"/">>) # 0
          PROVE  t[Find(t, <<"/">>)] = "/" /\ Find(t, <<"/">>) \in Nat
      BY <3>2, FoundPiece
    <3>3. \A i \in 1 .. 2 : i # 0 /\ (i = 1 \/ i = 2)
      OBVIOUS
    <3> QED BY <3>1, <3>2, <3>3
  <2> QED BY <1>6, <2>1, <2>2 DEF Ports, HostEnd
<1>10. HostPort(<<p>>, t) = {[host |-> <<h>>, port |-> n, query |-> q] : n \in Ports(t)}
  BY <1>5, <1>6, <1>8 DEF HostPort, HostEnd
<1> QED BY <1>9, <1>10 DEF Gives

\* A host and a query, without a port.
LEMMA WithoutPort ==
  ASSUME NEW p \in Protocols, NEW h \in Hosts, NEW q \in Seq(Part),
         Query(q), Find(q, <<":">>) = 0, NEW t, Follows(h, q, t)
  PROVE  IF p \in DOMAIN Services THEN Gives(p, t, h, Services[p], q) ELSE GivesNone(p, t)
<1> USE DEF Query, Follows
<1>1. h \in Part /\ h # ":" /\ h # "/" /\ Len(q) \in Nat
  BY AddressAssumption DEF Part, Piece
<1>2. <<h>> \in Seq(Part) /\ Len(<<h>>) = 1 /\ <<h>>[1] = h
  BY <1>1
<1>3. Find(t, <<":">>) = 0
  <2>1. \A i \in 1 .. Len(q) : q[i] # ":"
    BY FindPiece
  <2>3. ASSUME NEW j \in 1 .. Len(t), j # 1 PROVE t[j] # ":"
    <3>1. j - 1 \in 1 .. Len(q) /\ j - 1 + 1 = j
      BY <1>1, <2>3
    <3>2. t[j - 1 + 1] = q[j - 1] /\ q[j - 1] # ":"
      BY <2>1, <3>1, Zenon
    <3> QED BY <3>1, <3>2
  <2>4. t[1] # ":"
    BY <1>1
  <2>5. \A j \in 1 .. Len(t) : t[j] # ":"
    BY <2>3, <2>4, Zenon
  <2> QED BY <2>5, FindPiece
<1>4. CASE q = <<>>
  <2>1. Len(t) = 1 /\ \A j \in 1 .. Len(t) : j = 1
    BY <1>1, <1>4
  <2>2. t = <<h>>
    BY <1>2, <2>1, OneElement
  <2>3. \A j \in 1 .. Len(t) : t[j] # "/"
    BY <1>1, <2>1
  <2>4. Find(t, <<"/">>) = 0
    BY <2>3, FindPiece
  <2>5. HostPort(<<p>>, t) = {[host |-> <<h>>, port |-> Services[n], query |-> q] :
                                n \in {n \in DOMAIN Services : <<p>> = <<n>>}}
    BY <1>3, <1>4, <2>2, <2>4 DEF HostPort, HostEnd
  <2>6. \A n : <<p>> = <<n>> <=> p = n
    OBVIOUS
  <2> QED BY <2>5, <2>6 DEF Gives, GivesNone
<1>5. CASE q # <<>>
  <2>1. Len(q) >= 1 /\ q[1] = "/" /\ 1 \in 1 .. Len(q) /\ 1 + 1 = 2
    BY <1>5
  <2>2. t[2] = "/" /\ 2 \in 1 .. Len(t) /\ \A j \in 1 .. 2 - 1 : j = 1
    BY <1>1, <2>1
  <2>3. Find(t, <<"/">>) = 2
    BY <1>1, <2>2, FindPiece
  <2>4. Before(t, 2) = <<h>>
    <3>1. SubSeq(t, 1, 1) \in Seq(Part) /\ Len(SubSeq(t, 1, 1)) = 1 /\ SubSeq(t, 1, 1)[1] = h
      BY <1>1
    <3>2. SubSeq(t, 1, 1) = <<h>>
      BY <1>2, <3>1, OneElement
    <3> QED BY <3>2 DEF Before
  <2>5. From(t, 2) = q
    <3>1. /\ SubSeq(t, 2, Len(t)) \in Seq(Part) /\ Len(SubSeq(t, 2, Len(t))) = Len(q)
          /\ \A i \in 1 .. Len(q) : SubSeq(t, 2, Len(t))[i] = t[2 + i - 1]
      BY <1>1
    <3>2. \A i \in 1 .. Len(q) : 2 + i - 1 = i + 1
      BY <1>1
    <3> QED BY <3>1, <3>2 DEF From
  <2>6. HostPort(<<p>>, t) = {[host |-> <<h>>, port |-> Services[n], query |-> q] :
                                n \in {n \in DOMAIN Services : <<p>> = <<n>>}}
    BY <1>3, <2>3, <2>4, <2>5 DEF HostPort, HostEnd
  <2>7. \A n : <<p>> = <<n>> <=> p = n
    OBVIOUS
  <2> QED BY <2>6, <2>7 DEF Gives, GivesNone
<1> QED BY <1>4, <1>5

LEMMA Joined ==
  ASSUME NEW a \in Seq(Part), NEW r \in Seq(Part)
  PROVE  /\ a \o r \in Seq(Part) /\ Len(a \o r) = Len(a) + Len(r)
         /\ \A i \in 1 .. Len(a) + Len(r) : (a \o r)[i] = IF i <= Len(a) THEN a[i] ELSE r[i - Len(a)]
OBVIOUS

\* A host, and a query with a ":" in it.
CutAtColon(h, q, k, part) ==
  /\ part.host = <<h>> \o Before(q, k) /\ part.query = q
  /\ part.host # <<>> /\ inet_addr(part.host) = "none"
  /\ StartOfNumber(From(q, k + 1), part.port)

LEMMA ColonInQuery ==
  ASSUME NEW pr, NEW h \in Hosts, NEW q \in Seq(Part), q # <<>>, Head(q) = "/",
         NEW k, k = Find(q, <<":">>), k # 0, NEW t, Follows(h, q, t),
         NEW part \in HostPort(pr, t)
  PROVE  CutAtColon(h, q, k, part)
<1>1. /\ h \in Part /\ h # ":" /\ h # "/" /\ ":" # "/" /\ Len(q) \in Nat
      /\ Len(q) >= 1 /\ q[1] = "/"
  BY AddressAssumption DEF Part, Piece
<1>2. k \in 1 .. Len(q) /\ q[k] = ":" /\ \A j \in 1 .. k - 1 : q[j] # ":"
  BY FoundPiece
<1>3. k \in 2 .. Len(q)
  BY <1>1, <1>2
<1>4. /\ t \in Seq(Part) /\ Len(t) = Len(q) + 1 /\ t[1] = h
      /\ \A i \in 1 .. Len(q) : t[i + 1] = q[i]
  BY DEF Follows
<1>5. ASSUME NEW i \in 2 .. Len(q) + 1 PROVE t[i] = q[i - 1]
  <2>1. i - 1 \in 1 .. Len(q) /\ i - 1 + 1 = i
    BY <1>1
  <2> QED BY <1>4, <2>1
<1>6. Find(t, <<":">>) = k + 1
  <2>1. PICK m : m = k + 1
    OBVIOUS
  <2>2. m \in 1 .. Len(t) /\ m \in 2 .. Len(q) + 1 /\ m - 1 = k
    BY <1>1, <1>3, <1>4, <2>1
  <2>3. t[m] = ":"
    BY <1>2, <1>5, <2>2
  <2>4. ASSUME NEW j \in 1 .. m - 1 PROVE t[j] # ":"
    <3>1. CASE j = 1
      BY <1>1, <1>4, <3>1
    <3>2. CASE j # 1
      <4>1. j \in 2 .. Len(q) + 1 /\ j - 1 \in 1 .. k - 1
        BY <1>1, <1>3, <2>2, <3>2
      <4> QED BY <1>2, <1>5, <4>1
    <3> QED BY <3>1, <3>2
  <2>5. Find(t, <<":">>) = m
    BY <1>4, <2>2, <2>3, <2>4, FindPiece
  <2> QED BY <2>1, <2>5
<1>7. Find(t, <<"/">>) = 2
  <2>1. 2 \in 1 .. Len(t) /\ 2 \in 2 .. Len(q) + 1 /\ 2 - 1 = 1 /\ \A j \in 1 .. 2 - 1 : j = 1
    BY <1>1, <1>4
  <2>2. t[2] = "/" /\ t[1] # "/"
    BY <1>1, <1>4, <1>5, <2>1
  <2> QED BY <1>4, <2>1, <2>2, FindPiece
<1>8. From(t, 2) = q
  <2>1. /\ SubSeq(t, 2, Len(t)) \in Seq(Part) /\ Len(SubSeq(t, 2, Len(t))) = Len(q)
        /\ \A i \in 1 .. Len(q) : SubSeq(t, 2, Len(t))[i] = t[2 + i - 1]
    BY <1>1, <1>4
  <2>2. \A i \in 1 .. Len(q) : 2 + i - 1 = i + 1
    BY <1>1
  <2> QED BY <1>4, <2>1, <2>2 DEF From
<1>9. Before(t, k + 1) = <<h>> \o Before(q, k) /\ Len(<<h>> \o Before(q, k)) = k
  <2> DEFINE b == SubSeq(q, 1, k - 1)
             a == <<h>>
             l == SubSeq(t, 1, k)
             m == a \o b
  <2>1. b \in Seq(Part) /\ Len(b) = k - 1 /\ \A i \in 1 .. k - 1 : b[i] = q[i]
    BY <1>1, <1>3
  <2>2. l \in Seq(Part) /\ Len(l) = k /\ \A i \in 1 .. k : l[i] = t[i]
    BY <1>1, <1>3, <1>4
  <2>3. a \in Seq(Part) /\ Len(a) = 1 /\ a[1] = h
    BY <1>1
  <2> HIDE DEF a, b, l
  <2>4. /\ m \in Seq(Part) /\ Len(m) = k
        /\ \A i \in 1 .. k : m[i] = IF i <= 1 THEN a[i] ELSE b[i - 1]
    <3>1. /\ m \in Seq(Part) /\ Len(m) = Len(a) + Len(b)
          /\ \A i \in 1 .. Len(a) + Len(b) : m[i] = IF i <= Len(a) THEN a[i] ELSE b[i - Len(a)]
      BY <2>1, <2>3, Joined, Zenon
    <3>2. Len(a) + Len(b) = k
      BY <1>3, <2>1, <2>3
    <3> HIDE DEF m
    <3> QED BY <2>3, <3>1, <3>2
  <2> HIDE DEF m
  <2>5. ASSUME NEW i \in 1 .. k PROVE l[i] = m[i]
    <3>1. CASE i = 1
      BY <1>4, <2>2, <2>3, <2>4, <3>1
    <3>2. CASE i # 1
      <4>1. i \in 2 .. Len(q) + 1 /\ i - 1 \in 1 .. k - 1 /\ ~(i <= 1)
        BY <1>1, <1>3, <3>2
      <4> QED BY <1>5, <2>1, <2>2, <2>4, <4>1
    <3> QED BY <3>1, <3>2
  <2>6. l = m
    BY <2>2, <2>4, <2>5
  <2>7. Before(q, k) = b
    BY DEF Before, b
  <2>8. Before(t, k + 1) = l
    <3>1. (k + 1) - 1 = k
      BY <1>3
    <3>2. Before(t, k + 1) = SubSeq(t, 1, (k + 1) - 1)
      BY DEF Before
    <3> QED BY <3>1, <3>2, Zenon DEF l
  <2>9. <<h>> \o Before(q, k) = m
    BY <2>7 DEF m, a
  <2> QED BY <2>4, <2>6, <2>8, <2>9
<1>10. From(t, k + 1 + 1) = From(q, k + 1)
  <2> DEFINE l == SubSeq(t, k + 2, Len(t))
             m == SubSeq(q, k + 1, Len(q))
  <2>1. /\ l \in Seq(Part) /\ Len(l) = Len(q) - k
        /\ \A i \in 1 .. Len(q) - k : l[i] = t[k + 1 + i]
    <3>1. /\ k + 2 \in 1 .. Len(t) + 1 /\ Len(t) \in Nat /\ Len(t) - (k + 2) + 1 = Len(q) - k
          /\ t \in Seq(Part)
      BY <1>1, <1>3, <1>4
    <3>2. PICK a : a = k + 2
      OBVIOUS
    <3>3. /\ SubSeq(t, a, Len(t)) \in Seq(Part) /\ Len(SubSeq(t, a, Len(t))) = Len(t) - a + 1
          /\ \A i \in 1 .. Len(t) - a + 1 : SubSeq(t, a, Len(t))[i] = t[a + i - 1]
      BY <3>1, <3>2
    <3>4. \A i \in 1 .. Len(q) - k : a + i - 1 = k + 1 + i
      BY <1>1, <1>3, <3>2
    <3> QED BY <3>1, <3>2, <3>3, <3>4
  <2>2. /\ m \in Seq(Part) /\ Len(m) = Len(q) - k
        /\ \A i \in 1 .. Len(q) - k : m[i] = q[k + i]
    <3>1. /\ k + 1 \in 1 .. Len(q) + 1 /\ Len(q) - (k + 1) + 1 = Len(q) - k
      BY <1>1, <1>3
    <3>2. PICK a : a = k + 1
      OBVIOUS
    <3>3. /\ SubSeq(q, a, Len(q)) \in Seq(Part) /\ Len(SubSeq(q, a, Len(q))) = Len(q) - a + 1
          /\ \A i \in 1 .. Len(q) - a + 1 : SubSeq(q, a, Len(q))[i] = q[a + i - 1]
      BY <1>1, <3>1, <3>2
    <3>4. \A i \in 1 .. Len(q) - k : a + i - 1 = k + i
      BY <1>1, <1>3, <3>2
    <3> QED BY <3>1, <3>2, <3>3, <3>4
  <2> HIDE DEF l, m
  <2>3. ASSUME NEW i \in 1 .. Len(q) - k PROVE l[i] = m[i]
    <3>1. PICK n \in Nat : n = Len(q)
      BY <1>1
    <3>2. k \in 2 .. n /\ i \in 1 .. n - k
      BY <1>3, <3>1
    <3>3. k + 1 + i \in 2 .. n + 1 /\ (k + 1 + i) - 1 = k + i
      BY <3>2
    <3>4. t[k + 1 + i] = q[k + i]
      BY <1>5, <3>1, <3>3
    <3> QED BY <2>1, <2>2, <3>4
  <2>4. l = m /\ k + 1 + 1 = k + 2
    BY <1>3, <2>1, <2>2, <2>3
  <2> QED BY <2>4 DEF From, l, m
<1>11. Ports(t) = IF HasNumber(From(q, k + 1))
                  THEN {n % 65536 : n \in Starts[Head(From(q, k + 1))]} ELSE {0}
  <2>1. 2 \in 1 .. k + 1 /\ 2 > 1
    BY <1>3
  <2>2. HostEnd(t) = k + 1
    BY <1>6 DEF HostEnd
  <2>3. ~(Find(t, <<"/">>) \notin 1 .. HostEnd(t)) /\ Find(t, <<"/">>) > 1
    BY <1>7, <2>1, <2>2
  <2>4. From(t, HostEnd(t) + 1) = From(q, k + 1)
    BY <1>10, <2>2
  <2> DEFINE behind == From(t, HostEnd(t) + 1)
             starts == {n % 65536 : n \in Starts[Head(behind)]}
  <2>5. Ports(t) = IF Find(t, <<"/">>) \notin 1 .. HostEnd(t) THEN {Port(behind)}
                   ELSE IF Find(t, <<"/">>) > 1 /\ HasNumber(behind) THEN starts ELSE {0}
    BY DEF Ports
  <2> HIDE DEF behind, starts
  <2>6. Ports(t) = IF HasNumber(behind) THEN starts ELSE {0}
    BY <2>3, <2>5
  <2>7. behind = From(q, k + 1)
    BY <2>4 DEF behind
  <2> QED BY <2>6, <2>7 DEF starts
<1>12. k + 1 # 0 /\ 2 # 0
  BY <1>3
<1>13. PICK n \in Ports(t) : part = [host |-> Before(t, k + 1), port |-> n, query |-> From(t, 2)]
  BY <1>6, <1>7, <1>12 DEF HostPort, HostEnd
<1>14. part.host = Before(t, k + 1) /\ part.port = n /\ part.query = From(t, 2)
  BY <1>13
<1>15. part.host # <<>> /\ inet_addr(part.host) = "none"
  <2>1. Len(part.host) = k /\ k # 1 /\ k # 0
    BY <1>3, <1>9, <1>14
  <2>2. Len(<<>>) = 0
    OBVIOUS
  <2> QED BY <2>1, <2>2 DEF inet_addr
<1>16. StartOfNumber(From(q, k + 1), n)
  BY <1>11 DEF StartOfNumber
<1> QED BY <1>8, <1>9, <1>14, <1>15, <1>16 DEF CutAtColon

\* When a host is found behind the protocol.
LEMMA HasHostIs ==
  ASSUME NEW pr, NEW t \in Seq(Part)
  PROVE  (\E part \in HostPort(pr, t) : part.host # <<>>) <=> HasHost(pr, t)
<1>1. Len(t) \in Nat /\ (t # <<>> => Len(t) >= 1 /\ Head(t) = t[1])
  OBVIOUS
<1>2. ASSUME NEW i \in Nat \ {0}, i <= Len(t) PROVE Before(t, i) = <<>> <=> i = 1
  <2>1. SubSeq(t, 1, i - 1) \in Seq(Part) /\ Len(SubSeq(t, 1, i - 1)) = i - 1
    BY <1>1, <1>2
  <2>2. \A u \in Seq(Part) : u = <<>> <=> Len(u) = 0
    OBVIOUS
  <2> QED BY <1>2, <2>1, <2>2 DEF Before
<1>3. ASSUME NEW e, Find(t, <<e>>) # 0
      PROVE  /\ Find(t, <<e>>) \in Nat \ {0} /\ Find(t, <<e>>) <= Len(t) /\ t # <<>>
             /\ Find(t, <<e>>) = 1 <=> Head(t) = e
  <2>1. Find(t, <<e>>) \in 1 .. Len(t) /\ t[Find(t, <<e>>)] = e
        /\ \A j \in 1 .. Find(t, <<e>>) - 1 : t[j] # e
    BY <1>3, FoundPiece
  <2>2. t # <<>>
    BY <2>1
  <2>3. Find(t, <<e>>) # 1 => t[1] # e
    BY <1>1, <2>1
  <2> QED BY <1>1, <2>1, <2>2, <2>3
<1>4. CASE Find(t, <<":">>) # 0
  <2>1. Ports(t) # {}
    <3>1. ASSUME HasNumber(From(t, HostEnd(t) + 1))
          PROVE  \E n : n \in Starts[Head(From(t, HostEnd(t) + 1))]
      <4>1. PICK d : d = Head(From(t, HostEnd(t) + 1))
        OBVIOUS
      <4>2. d \in DOMAIN Numbers
        BY <3>1, <4>1 DEF HasNumber
      <4>3. Starts[d] \in (SUBSET Nat) \ {{}}
        BY <4>2, AddressAssumption
      <4> QED BY <4>1, <4>3
    <3>2. /\ Find(t, <<"/">>) \notin 1 .. HostEnd(t) => Ports(t) = {Port(From(t, HostEnd(t) + 1))}
          /\ ~(Find(t, <<"/">>) \notin 1 .. HostEnd(t)) =>
                Ports(t) = IF Find(t, <<"/">>) > 1 /\ HasNumber(From(t, HostEnd(t) + 1))
                           THEN {n % 65536 : n \in Starts[Head(From(t, HostEnd(t) + 1))]} ELSE {0}
      BY DEF Ports
    <3>3. CASE ~(Find(t, <<"/">>) \notin 1 .. HostEnd(t)) /\ Find(t, <<"/">>) > 1
               /\ HasNumber(From(t, HostEnd(t) + 1))
      <4>1. PICK n : n \in Starts[Head(From(t, HostEnd(t) + 1))]
        BY <3>1, <3>3
      <4>2. n % 65536 \in Ports(t)
        BY <3>2, <3>3, <4>1
      <4> QED BY <4>2
    <3>4. CASE Find(t, <<"/">>) \notin 1 .. HostEnd(t)
      <4>1. Port(From(t, HostEnd(t) + 1)) \in Ports(t)
        BY <3>2, <3>4
      <4> QED BY <4>1
    <3>5. CASE /\ ~(Find(t, <<"/">>) \notin 1 .. HostEnd(t))
               /\ ~(Find(t, <<"/">>) > 1 /\ HasNumber(From(t, HostEnd(t) + 1)))
      <4>1. 0 \in Ports(t)
        BY <3>2, <3>5
      <4> QED BY <4>1
    <3> QED BY <3>3, <3>4, <3>5
  <2>2. \A part \in HostPort(pr, t) : part.host = Before(t, Find(t, <<":">>))
    BY <1>4 DEF HostPort, HostEnd
  <2>3. HostPort(pr, t) # {}
    BY <1>4, <2>1 DEF HostPort, HostEnd
  <2>4. (\E part \in HostPort(pr, t) : part.host # <<>>) <=> Before(t, Find(t, <<":">>)) # <<>>
    BY <2>2, <2>3
  <2>5. t # <<>> /\ (Find(t, <<":">>) = 1 <=> Head(t) = ":")
    BY <1>3, <1>4
  <2>6. Before(t, Find(t, <<":">>)) = <<>> <=> Find(t, <<":">>) = 1
    BY <1>2, <1>3, <1>4
  <2> QED BY <1>4, <2>4, <2>5, <2>6 DEF HasHost
<1>5. CASE Find(t, <<":">>) = 0
  <2> DEFINE slash == Find(t, <<"/">>)
             host == IF slash = 0 THEN t ELSE Before(t, slash)
             query == IF slash = 0 THEN <<>> ELSE From(t, slash)
  <2>1. HostPort(pr, t) = {[host |-> host, port |-> Services[n], query |-> query] :
                             n \in {n \in DOMAIN Services : pr = <<n>>}}
    BY <1>5 DEF HostPort, HostEnd
  <2>2. t # <<>> => Head(t) # ":"
    BY <1>1, <1>5, FindPiece
  <2>3. host # <<>> <=> t # <<>> /\ Head(t) # "/"
    <3>1. CASE slash = 0
      <4>1. t # <<>> => Head(t) # "/"
        BY <1>1, <3>1, FindPiece
      <4> QED BY <3>1, <4>1
    <3>2. CASE slash # 0
      <4>1. t # <<>> /\ (slash = 1 <=> Head(t) = "/")
        BY <1>3, <3>2
      <4>2. Before(t, slash) = <<>> <=> slash = 1
        BY <1>2, <1>3, <3>2
      <4> QED BY <3>2, <4>1, <4>2
    <3> QED BY <3>1, <3>2
  <2> HIDE DEF host, query
  <2>4. (\E part \in HostPort(pr, t) : part.host # <<>>)
          <=> host # <<>> /\ \E n \in DOMAIN Services : pr = <<n>>
    <3>1. ASSUME NEW part \in HostPort(pr, t)
          PROVE  part.host = host /\ \E n \in DOMAIN Services : pr = <<n>>
      <4>1. PICK n \in DOMAIN Services :
              pr = <<n>> /\ part = [host |-> host, port |-> Services[n], query |-> query]
        BY <2>1
      <4> QED BY <4>1
    <3>2. ASSUME NEW n \in DOMAIN Services, pr = <<n>>
          PROVE  \E part \in HostPort(pr, t) : part.host = host
      <4>1. PICK part : part = [host |-> host, port |-> Services[n], query |-> query]
        OBVIOUS
      <4>2. part \in HostPort(pr, t) /\ part.host = host
        BY <2>1, <3>2, <4>1
      <4> QED BY <4>2
    <3> QED BY <3>1, <3>2
  <2> QED BY <1>5, <2>2, <2>3, <2>4 DEF HasHost
<1> QED BY <1>4, <1>5

\* There is an object exactly when a protocol and a host are found.
LEMMA ObjectOrNot ==
  ASSUME AddressOK, NEW end, end = Find(url, Slashes)
  PROVE  IF end # 0 /\ HasHost(Before(url, end), From(url, end + 3))
         THEN address.ok ELSE address = Thrown
<1> DEFINE pr == Before(url, end)
           t  == From(url, end + 3)
<1>1. Parsed(url, asked) =
        {[ok |-> TRUE, protocol |-> pr, host |-> part.host, port |-> part.port,
          query |-> part.query, addr |-> inet_addr(part.host), types |-> Types(pr, asked)] :
            part \in {part \in HostPort(pr, t) : part.host # <<>>}}
  BY DEF Parsed
<1>2. end # 0 => t \in Seq(Part)
  <2>1. Len(url) \in Nat /\ url \in Seq(Part) /\ Len(Slashes) \in Nat
    BY DEF AddressOK, Slashes
  <2>2. end \in Nat
    BY <2>1, FindNumber
  <2> QED BY <2>1, <2>2 DEF From
<1> HIDE DEF pr, t
<1>3. Parsed(url, asked) # {} <=> \E part \in HostPort(pr, t) : part.host # <<>>
  BY <1>1
<1>4. end # 0 => (Parsed(url, asked) # {} <=> HasHost(pr, t))
  BY <1>2, <1>3, HasHostIs
<1>5. \A a \in Parsed(url, asked) : a.ok
  BY <1>1
<1>6. \/ end # 0 /\ address \in Parsed(url, asked)
      \/ (end = 0 \/ Parsed(url, asked) = {}) /\ address = Thrown
  BY DEF AddressOK
<1> QED BY <1>4, <1>5, <1>6 DEF pr, t

\* What the caller has after a url with a protocol.
LEMMA Constructed ==
  ASSUME AddressOK, NEW p \in Protocols, NEW t \in Seq(Part), UrlIs(p, t)
  PROVE  /\ \A host, port, query :
              HostPort(<<p>>, t) = {[host |-> host, port |-> port, query |-> query]} /\ host # <<>>
                => address = [ok |-> TRUE, protocol |-> <<p>>, host |-> host, port |-> port,
                              query |-> query, addr |-> inet_addr(host),
                              types |-> Types(<<p>>, asked)]
         /\ GivesNone(p, t) => address = Thrown
         /\ address = Thrown \/ \E part \in HostPort(<<p>>, t) :
              address = [ok |-> TRUE, protocol |-> <<p>>, host |-> part.host,
                         port |-> part.port, query |-> part.query,
                         addr |-> inet_addr(part.host), types |-> Types(<<p>>, asked)]
<1> DEFINE parts == {part \in HostPort(<<p>>, t) : part.host # <<>>}
<1>1. /\ Find(url, Slashes) # 0
      /\ Parsed(url, asked) =
           {[ok |-> TRUE, protocol |-> <<p>>, host |-> part.host, port |-> part.port,
             query |-> part.query, addr |-> inet_addr(part.host), types |-> Types(<<p>>, asked)] :
              part \in parts}
  <2>1. Find(url, Slashes) = 2 /\ Before(url, 2) = <<p>> /\ From(url, 2 + 3) = t
    BY ProtocolIs DEF Part, UrlIs
  <2> QED BY <2>1 DEF Parsed
<1>2. \/ address \in Parsed(url, asked)
      \/ Parsed(url, asked) = {} /\ address = Thrown
  BY <1>1 DEF AddressOK
<1>3. ASSUME NEW host, NEW port, NEW query,
             HostPort(<<p>>, t) = {[host |-> host, port |-> port, query |-> query]}, host # <<>>
      PROVE  address = [ok |-> TRUE, protocol |-> <<p>>, host |-> host, port |-> port,
                        query |-> query, addr |-> inet_addr(host), types |-> Types(<<p>>, asked)]
  <2> DEFINE part == [host |-> host, port |-> port, query |-> query]
  <2>1. part.host = host /\ part.port = port /\ part.query = query
    OBVIOUS
  <2>2. HostPort(<<p>>, t) = {part}
    BY <1>3
  <2> HIDE DEF part
  <2>3. parts = {part}
    BY <1>3, <2>1, <2>2
  <2> HIDE DEF parts
  <2>4. Parsed(url, asked) =
          {[ok |-> TRUE, protocol |-> <<p>>, host |-> part.host, port |-> part.port,
            query |-> part.query, addr |-> inet_addr(part.host), types |-> Types(<<p>>, asked)]}
    BY <1>1, <2>3
  <2> QED BY <1>2, <2>1, <2>4
<1>4. ASSUME GivesNone(p, t) PROVE address = Thrown
  <2>1. parts = {}
    BY <1>4 DEF GivesNone
  <2> HIDE DEF parts
  <2> QED BY <1>1, <1>2, <2>1
<1>5. address = Thrown \/ \E part \in HostPort(<<p>>, t) :
        address = [ok |-> TRUE, protocol |-> <<p>>, host |-> part.host, port |-> part.port,
                   query |-> part.query, addr |-> inet_addr(part.host),
                   types |-> Types(<<p>>, asked)]
  <2>1. parts \subseteq HostPort(<<p>>, t)
    OBVIOUS
  <2> HIDE DEF parts
  <2> QED BY <1>1, <1>2, <2>1
<1> QED BY <1>3, <1>4, <1>5

LEMMA RestIsText == \A s \in Seq(Part) : \A n \in Nat \ {0} : From(s, n) \in Seq(Part)
BY DEF From

LEMMA HostBefore ==
  ASSUME NEW h \in Part, NEW r \in Seq(Part)
  PROVE  \E u : u = <<h>> \o r /\ Follows(h, r, u)
<1> DEFINE a == <<h>>
           u == a \o r
<1>1. a \in Seq(Part) /\ Len(a) = 1 /\ a[1] = h /\ Len(r) \in Nat
  OBVIOUS
<1> HIDE DEF a
<1>2. /\ u \in Seq(Part) /\ Len(u) = 1 + Len(r)
      /\ \A i \in 1 .. 1 + Len(r) : u[i] = IF i <= 1 THEN a[i] ELSE r[i - 1]
  <2>1. /\ u \in Seq(Part) /\ Len(u) = Len(a) + Len(r)
        /\ \A i \in 1 .. Len(a) + Len(r) : u[i] = IF i <= Len(a) THEN a[i] ELSE r[i - Len(a)]
    BY <1>1, Joined, Zenon
  <2> HIDE DEF u
  <2> QED BY <1>1, <2>1
<1> HIDE DEF u
<1>3. u[1] = h
  BY <1>1, <1>2
<1>4. \A i \in 1 .. Len(r) : i + 1 \in 1 .. 1 + Len(r) /\ ~(i + 1 <= 1) /\ i + 1 - 1 = i
  BY <1>1
<1>5. \A i \in 1 .. Len(r) : u[i + 1] = r[i]
  BY <1>2, <1>4
<1>6. Len(u) = Len(r) + 1
  BY <1>1, <1>2
<1>7. Follows(h, r, u)
  BY <1>2, <1>3, <1>5, <1>6 DEF Follows
<1> QED BY <1>7 DEF u, a

LEMMA Associates ==
  ASSUME NEW r \in Seq(Part), NEW s \in Seq(Part), NEW t \in Seq(Part)
  PROVE  (r \o s) \o t = r \o (s \o t)
OBVIOUS

\* The only host, port and query is what the caller finds in the object.
LEMMA ParsesOne ==
  ASSUME AddressOK, NEW p \in Protocols, NEW h \in Hosts,
         NEW port, NEW q, NEW t \in Seq(Part), UrlIs(p, t), Gives(p, t, h, port, q)
  PROVE  Expect(p, h, port, q)
<1>1. address = [ok |-> TRUE, protocol |-> <<p>>, host |-> <<h>>, port |-> port,
                 query |-> q, addr |-> inet_addr(<<h>>), types |-> Types(<<p>>, asked)]
  <2>1. <<h>> # <<>>
    OBVIOUS
  <2> QED BY <2>1, Constructed DEF Gives
<1>2. inet_addr(<<h>>) = IF h \in Dotted THEN h ELSE "none"
  BY DEF inet_addr
<1>3. asked \in {"unknown", "tcp"}
  BY DEF AddressOK
<1>4. address.ok /\ address.protocol = <<p>> /\ address.host = <<h>> /\ address.port = port
      /\ address.query = q /\ address.addr = inet_addr(<<h>>) /\ address.types = Types(<<p>>, asked)
  BY <1>1
<1> QED BY <1>2, <1>3, <1>4, TypesAre DEF Expect

\* A host, and behind it a port and a query.
LEMMA Begins ==
  ASSUME NEW h \in Hosts, NEW n \in DOMAIN Numbers, NEW q \in Seq(Part),
         NEW r, r = <<":", n>> \o q, NEW t, Follows(h, r, t)
  PROVE  HostAndPort(h, n, q, t)
<1>1. ":" \in Part /\ n \in Part
  BY DEF Part, Piece
<1>2. /\ Len(r) = Len(q) + 2 /\ r[1] = ":" /\ r[2] = n /\ Len(q) \in Nat
      /\ \A i \in 1 .. Len(q) : r[i + 2] = q[i]
  BY <1>1
<1>3. 1 \in 1 .. Len(r) /\ 2 \in 1 .. Len(r) /\ 1 + 1 = 2 /\ 2 + 1 = 3
  BY <1>2
<1>4. /\ t \in Seq(Part) /\ Len(t) = Len(r) + 1 /\ t[1] = h
      /\ \A i \in 1 .. Len(r) : t[i + 1] = r[i]
  BY DEF Follows
<1>5. Len(t) = Len(q) + 3 /\ t[2] = ":" /\ t[3] = n
  BY <1>2, <1>3, <1>4
<1>6. ASSUME NEW i \in 1 .. Len(q) PROVE t[i + 3] = q[i]
  <2>1. i + 2 \in 1 .. Len(r) /\ i + 2 + 1 = i + 3
    BY <1>2
  <2> QED BY <1>2, <1>4, <2>1
<1> QED BY <1>4, <1>5, <1>6 DEF HostAndPort

LEMMA ParsesTheHost ==
  ASSUME AddressOK, NEW p \in Protocols, NEW h \in Hosts, NEW rest \in Seq(Part),
         NEW t \in Seq(Part), UrlIs(p, t), Follows(h, rest, t)
  PROVE  ParsesHost(p, h, rest)
<1>1. ASSUME NEW n \in DOMAIN Numbers, NEW q \in {From(rest, 3)}, rest = <<":", n>> \o q, Query(q)
      PROVE  Expect(p, h, PortOf(n), q)
  <2>1. q \in Seq(Part)
    BY RestIsText
  <2>2. HostAndPort(h, n, q, t)
    BY <1>1, <2>1, Begins, Zenon
  <2>3. Gives(p, t, h, PortOf(n), q)
    BY <1>1, <2>1, <2>2, WithPort, Zenon
  <2> QED BY <2>3, ParsesOne, Zenon
<1>2. ASSUME Query(rest), Find(rest, <<":">>) = 0
      PROVE  IF p \in DOMAIN Services THEN Expect(p, h, Services[p], rest) ELSE address = Thrown
  <2>1. IF p \in DOMAIN Services THEN Gives(p, t, h, Services[p], rest) ELSE GivesNone(p, t)
    BY <1>2, WithoutPort, Zenon
  <2>2. CASE p \in DOMAIN Services
    BY <2>1, <2>2, ParsesOne, Zenon
  <2>3. CASE p \notin DOMAIN Services
    BY <2>1, <2>3, Constructed, Zenon
  <2> QED BY <2>2, <2>3
<1>3. ASSUME rest # <<>>, Head(rest) = "/", Find(rest, <<":">>) # 0
      PROVE  HostInQuery(p, h, rest, Find(rest, <<":">>))
  <2>1. PICK k : k = Find(rest, <<":">>)
    OBVIOUS
  <2>2. \A part \in HostPort(<<p>>, t) : CutAtColon(h, rest, k, part)
    BY <1>3, <2>1, ColonInQuery, Zenon
  <2>3. address # Thrown
    <3>1. HasHost(<<p>>, t)
      <4>1. t # <<>> /\ Head(t) = h /\ h # ":" /\ Len(rest) \in Nat
        <5>1. t \in Seq(Part) /\ Len(t) = Len(rest) + 1 /\ t[1] = h /\ Len(rest) \in Nat
          BY DEF Follows
        <5> QED BY <5>1, AddressAssumption
      <4>2. Find(t, <<":">>) # 0
        <5>1. k \in 1 .. Len(rest) /\ rest[k] = ":"
          BY <1>3, <2>1, FoundPiece
        <5>2. k + 1 \in 1 .. Len(t) /\ t[k + 1] = ":"
          BY <4>1, <5>1 DEF Follows
        <5> QED BY <5>2, FindPiece
      <4> QED BY <4>1, <4>2 DEF HasHost
    <3>2. Find(url, Slashes) = 2 /\ Before(url, 2) = <<p>> /\ From(url, 2 + 3) = t
      BY ProtocolIs DEF Part, UrlIs
    <3>3. address.ok
      BY <3>1, <3>2, ObjectOrNot
    <3> QED BY <3>3 DEF Thrown
  <2>4. PICK part \in HostPort(<<p>>, t) :
          address = [ok |-> TRUE, protocol |-> <<p>>, host |-> part.host, port |-> part.port,
                     query |-> part.query, addr |-> inet_addr(part.host),
                     types |-> Types(<<p>>, asked)]
    BY <2>3, Constructed
  <2>5. /\ address.ok /\ address.protocol = <<p>> /\ address.host = part.host
        /\ address.port = part.port /\ address.query = part.query
        /\ address.addr = inet_addr(part.host)
    BY <2>4
  <2>6. CutAtColon(h, rest, k, part)
    BY <2>2
  <2>7. HostInQuery(p, h, rest, k)
    <3>1. address.host = <<h>> \o Before(rest, k) /\ address.query = rest
          /\ address.addr = "none"
      BY <2>5, <2>6, Zenon DEF CutAtColon
    <3>2. StartOfNumber(From(rest, k + 1), address.port)
      BY <2>5, <2>6, Zenon DEF CutAtColon
    <3> QED BY <2>5, <3>1, <3>2, Zenon DEF HostInQuery
  <2> QED BY <2>1, <2>7
<1> QED BY <1>1, <1>2, <1>3 DEF ParsesHost, Query, PortOf

\* Whatever is written as a protocol, a host and a rest is parsed as that.
LEMMA ParsesAsWritten ==
  ASSUME AddressOK, NEW p \in Protocols, NEW h \in Hosts,
         NEW start, start = <<p>> \o Slashes \o <<h>>,
         NEW rest, rest = From(url, Len(start) + 1), url = start \o rest
  PROVE  ParsesHost(p, h, rest)
<1>1. p \in Part /\ h \in Part /\ url \in Seq(Part) /\ Slashes \in Seq(Part)
  BY DEF AddressOK, Slashes, Part, Piece
<1>2. <<p>> \o Slashes \in Seq(Part) /\ <<h>> \in Seq(Part)
  BY <1>1
<1>3. <<p>> \o Slashes \o <<h>> \in Seq(Part)
  BY <1>2
<1>4. start \in Seq(Part)
  BY <1>3, Zenon
<1>5. Len(start) + 1 \in Nat \ {0}
  BY <1>4
<1>6. rest \in Seq(Part)
  BY <1>1, <1>5, RestIsText, Zenon
<1>7. PICK t : t = <<h>> \o rest /\ Follows(h, rest, t)
  BY <1>1, <1>6, HostBefore, Zenon
<1>8. (<<p>> \o Slashes \o <<h>>) \o rest = <<p>> \o Slashes \o t
  BY <1>2, <1>6, <1>7, Associates, Zenon
<1>9. UrlIs(p, t)
  BY <1>8, Zenon DEF UrlIs
<1>10. t \in Seq(Part)
  BY <1>7, Zenon DEF Follows
<1> QED BY <1>6, <1>7, <1>9, <1>10, ParsesTheHost, Zenon

LEMMA ParsesIt == ASSUME AddressOK PROVE ParsesUrl
<1>1. ASSUME NEW p \in Protocols, NEW h \in Hosts
      PROVE  LET start == <<p>> \o Slashes \o <<h>>
                 rest == From(url, Len(start) + 1)
             IN  url = start \o rest => ParsesHost(p, h, rest)
  BY ParsesAsWritten, Zenon
<1>2. LET end == Find(url, Slashes)
      IN  IF end # 0 /\ HasHost(Before(url, end), From(url, end + 3))
          THEN address.ok ELSE address = Thrown
  BY ObjectOrNot, Zenon
<1> QED BY <1>1, <1>2, Zenon DEF ParsesUrl

\* For every set of protocols, hosts, services and numbers, and whatever follows
\* them, a url with a host gives exactly the parts it was written from, with the
\* host running into a query that has a ":" when there is no port, and there is an
\* object exactly for the urls that ParsesUrl names (bfsocket.cpp, ServiceAddress).
THEOREM UrlsAreParsed == HelpersSpec => []ParsesUrl
<1>1. AddressOK => ParsesUrl
  BY ParsesIt
<1> QED BY <1>1, AddressInvariant, HelpersApart, PTL

\* Beside the other helpers, whatever was called before, hashes are Fletcher's and
\* fit, and keys tell texts apart (bf.cpp, fletcher32, and bf.h, strKey).
THEOREM HashesAndKeys == HelpersSpec => [](SumsAreFletchers /\ HashFits /\ KeysTellTexts)
BY HelpersApart, HashIsFletchers, HashCorrect, KeysCorrect, PTL
================================================================================
