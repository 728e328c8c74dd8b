-------------------------- MODULE FrameDecoderProofs --------------------------
(***************************************************************************)
(* Proofs about FrameDecoder, for every size of a byte, all options and    *)
(* every stream: which options are accepted, that the arithmetic on        *)
(* accepted options never wraps, that a round of Decode consumes at least  *)
(* the header, that the decoder never holds back a whole frame, and that   *)
(* the frames it returns are those of the stream, however it was cut.      *)
(***************************************************************************)
EXTENDS FrameDecoder, SequenceTheorems, FiniteSetTheorems, WellFoundedInduction, TLAPS

USE DEF decoderVars
----------------------------------------------------------------------------
(* Arithmetic.                                                             *)

LEMMA SmallRemainder ==
    ASSUME NEW b \in Nat \ {0}, NEW a \in 0 .. b - 1
    PROVE  a % b = a
    OBVIOUS

LEMMA LargeRemainder ==
    ASSUME NEW b \in Nat \ {0}, NEW a \in Int, a >= b, a < 2 * b
    PROVE  a % b = a - b
    OBVIOUS
----------------------------------------------------------------------------
(* The word.                                                               *)

LEMMA SquareGrows ==
    ASSUME NEW b \in Nat, NEW k \in Nat, b >= k, k >= 1
    PROVE  b * b \in Nat /\ b * b >= k * b /\ b * b >= k * k
    OBVIOUS

\* Every word has at least 256 values.
LEMMA Words ==
    /\ Base \in Nat /\ Base >= 2
    /\ Base2 \in Nat /\ Base2 >= 2 * Base
    /\ Base2 * Base \in Nat /\ Base2 * Base >= Base2
    /\ Base4 \in Nat /\ Base4 >= Base2 * Base /\ Base4 >= 4 * Base2
    /\ Base8 \in Nat /\ Base8 >= 16 * Base4 /\ Base8 >= 256
<1>1. Base \in Nat /\ Base >= 2
    BY FrameDecoderAssumption
<1>2. Base2 \in Nat /\ Base2 >= 2 * Base /\ Base2 >= 4
    BY <1>1, SquareGrows DEF Base2
<1>3. Base4 \in Nat /\ Base4 >= 4 * Base2 /\ Base4 >= 16
    BY <1>2, SquareGrows DEF Base4
<1>4. Base8 \in Nat /\ Base8 >= 16 * Base4 /\ Base8 >= 256
    BY <1>3, SquareGrows DEF Base8
<1>5. Base2 * Base \in Nat /\ Base2 * Base >= Base2
    BY <1>1, <1>2
<1>6. Base2 * Base <= Base2 * Base2
    BY <1>1, <1>2
<1> QED BY <1>1, <1>2, <1>3, <1>4, <1>5, <1>6 DEF Base4

LEMMA Ints ==
    /\ MaxInt \in Nat /\ MinInt \in Int /\ MaxUint64 \in Nat
    /\ MinInt = -MaxInt - 1
    /\ 2 * MaxInt + 2 <= Base8 /\ Base8 <= 2 * MaxInt + 3
    /\ MaxInt >= 127
    /\ MaxUint64 = Base8 - 1
<1>1. ASSUME NEW b \in Nat
      PROVE  (b \div 2) \in Nat /\ 2 * (b \div 2) <= b /\ b <= 2 * (b \div 2) + 1
    OBVIOUS
<1> QED BY <1>1, Words DEF MaxInt, MinInt, MaxUint64

\* Weight is defined by recursion; these are its values.
LEMMA Weights ==
    /\ Weight[0] = 1
    /\ Weight[1] = Base
    /\ Weight[2] = Base2
    /\ Weight[3] = Base2 * Base
    /\ Weight[4] = Base4
    /\ Weight[5] = Base4 * Base
    /\ Weight[6] = Base4 * Base2
    /\ Weight[7] = Base4 * (Base2 * Base)
    /\ Weight[8] = Base8
<1> DEFINE b3 == Base * Base2
           b4 == Base * b3
           b5 == Base * b4
           b6 == Base * b5
           b7 == Base * b6
           b8 == Base * b7
           F(f) == [i \in 0 .. 8 |-> IF i = 0 THEN 1 ELSE Base * f[i - 1]]
           w == [i \in 0 .. 8 |->
                    IF i = 0 THEN 1 ELSE IF i = 1 THEN Base ELSE IF i = 2 THEN Base2
                    ELSE IF i = 3 THEN b3 ELSE IF i = 4 THEN b4 ELSE IF i = 5 THEN b5
                    ELSE IF i = 6 THEN b6 ELSE IF i = 7 THEN b7 ELSE b8]
<1>1. Weight = CHOOSE f : f = F(f)
    BY DEF Weight
<1>2. w = F(w)
  <2>1. ASSUME NEW i \in 0 .. 8 PROVE w[i] = F(w)[i]
    <3>1. i \in {0, 1, 2, 3, 4, 5, 6, 7, 8} BY <2>1
    <3> QED BY <3>1, Words DEF Base2
  <2> HIDE DEF b3, b4, b5, b6, b7, b8
  <2> QED BY <2>1
<1>3. Weight = F(Weight)
    BY <1>1, <1>2
<1>4. Weight[0] = 1 /\ \A i \in 1 .. 8 : Weight[i] = Base * Weight[i - 1]
    BY <1>3
<1>5. Weight[1] = Base
    BY <1>4, Words
<1>6. Weight[2] = Base2
    BY <1>4, <1>5 DEF Base2
<1>7. Weight[3] = b3 /\ Weight[4] = b4 /\ Weight[5] = b5 /\ Weight[6] = b6
    BY <1>4, <1>6
<1>8. Weight[7] = b7 /\ Weight[8] = b8
    BY <1>4, <1>7
<1>9. b3 = Base2 * Base /\ b4 = Base4
    BY Words DEF Base2, Base4
<1>10. b5 = Base4 * Base /\ b6 = Base4 * Base2 /\ b7 = Base4 * (Base2 * Base)
    BY <1>9, Words DEF Base2
<1>11. b8 = Base8
    BY Words DEF Base2, Base4, Base8
<1> QED BY <1>4, <1>5, <1>6, <1>7, <1>8, <1>9, <1>10, <1>11
----------------------------------------------------------------------------
(* The options.                                                            *)

LEMMA OptionTypes ==
    ASSUME NEW o \in Options
    PROVE  /\ o.byteOrder \in {"nil", "little", "big"}
           /\ o.max \in Nat /\ o.max <= MaxUint64
           /\ o.offset \in Int /\ MinInt <= o.offset /\ o.offset <= MaxInt
           /\ o.width \in Int /\ MinInt <= o.width /\ o.width <= MaxInt
           /\ o.adjustment \in Int /\ MinInt <= o.adjustment /\ o.adjustment <= MaxInt
           /\ o.strip \in Int /\ MinInt <= o.strip /\ o.strip <= MaxInt
    BY FrameDecoderAssumption, Ints

\* int addition is exact where its result is an int.
LEMMA WrapExact ==
    ASSUME NEW n \in Int, MinInt <= n, n <= MaxInt
    PROVE  WrapInt(n) = n
<1>2. n - MinInt \in 0 .. Base8 - 1
    BY Ints, Words
<1> QED BY SmallRemainder, <1>2, Ints, Words DEF WrapInt

\* The end of a header that lies past MaxInt wraps to a negative one, or lies
\* past MaxInt still.
LEMMA WrapShows ==
    ASSUME NEW n \in Int, MaxInt < n, n <= MaxInt + 8
    PROVE  WrapInt(n) \in Int /\ (WrapInt(n) < 0 \/ WrapInt(n) > MaxInt)
<1>3. CASE n - MinInt >= Base8
  <2>1. n - MinInt < 2 * Base8
    BY Ints, Words
  <2>2. WrapInt(n) = n - MinInt - Base8 + MinInt
    BY LargeRemainder, <1>3, <2>1, Ints, Words DEF WrapInt
  <2> QED BY <2>2, Ints, Words
<1>4. CASE n - MinInt < Base8
  <2>1. WrapInt(n) = n
    BY SmallRemainder, <1>4, Ints, Words DEF WrapInt
  <2> QED BY <2>1
<1> QED BY <1>3, <1>4, Ints, Words

\* On accepted options the end offset of the length field did not wrap.
LEMMA HeaderExact ==
    ASSUME NEW o \in Options, validateConfiguration(o)
    PROVE  /\ lengthFieldEndOffset(o) = o.offset + o.width
           /\ o.offset + o.width <= MaxInt /\ o.offset + o.width <= o.max
<1> DEFINE n == o.offset + o.width
<1>1. /\ o.width \in {1, 2, 3, 4, 8} /\ o.offset >= 0
      /\ WrapInt(n) >= 0 /\ WrapInt(n) <= effectiveMax(o)
    BY DEF validateConfiguration, lengthFieldEndOffset
<1>2. n \in Int /\ 0 <= n /\ n <= MaxInt + 8
    BY <1>1, OptionTypes, Ints
<1>3. effectiveMax(o) \in Nat /\ effectiveMax(o) <= MaxInt /\ effectiveMax(o) <= o.max
    BY OptionTypes, Ints DEF effectiveMax, Min2
<1>4. n <= MaxInt
    BY <1>1, <1>2, <1>3, WrapShows, Ints
<1>5. WrapInt(n) = n
    BY <1>2, <1>4, WrapExact, Ints
<1> QED BY <1>1, <1>2, <1>3, <1>4, <1>5, OptionTypes, Ints
    DEF lengthFieldEndOffset

LEMMA Representable ==
    ASSUME NEW w \in {1, 2, 3, 4, 8}
    PROVE  /\ maxRepresentableUnadjustedLength(w) = Min2(MaxInt, Weight[w] - 1)
           /\ Min2(MaxInt, Weight[w] - 1) \in 0 .. MaxInt
<1>1. CASE w = 8
  <2>1. maxRepresentableUnadjustedLength(8) = MaxInt
    BY DEF maxRepresentableUnadjustedLength
  <2> QED BY <1>1, <2>1, Weights, Words, Ints DEF Min2
<1>2. CASE w \in {1, 2, 3, 4}
  <2>1. maxRepresentableUnadjustedLength(w) = Weight[w] - 1
    BY <1>2, Weights DEF maxRepresentableUnadjustedLength, MaxUint32
  <2>2. Weight[w] \in Nat /\ 1 <= Weight[w] /\ Weight[w] - 1 < MaxInt
    BY <1>2, Weights, Words, Ints
  <2> QED BY <2>1, <2>2, Ints DEF Min2
<1> QED BY <1>1, <1>2

\* Some value of the length field stands for a frame length in range.
Feasible(o) ==
    LET header == o.offset + o.width
    IN /\ o.byteOrder \in {"little", "big"}
       /\ o.width \in {1, 2, 3, 4, 8}
       /\ o.offset \in 0 .. MaxInt /\ o.strip \in 0 .. MaxInt
       /\ \E value \in 0 .. Min2(MaxInt, Weight[o.width] - 1) :
             value + header + o.adjustment \in header .. Min2(o.max, MaxInt)

LEMMA AcceptedIsFeasible ==
    ASSUME NEW o \in Options, validateConfiguration(o)
    PROVE  Feasible(o)
<1> DEFINE header == o.offset + o.width
           top == Min2(MaxInt, Weight[o.width] - 1)
<1>1. /\ o.byteOrder \in {"little", "big"} /\ o.width \in {1, 2, 3, 4, 8}
      /\ o.offset \in 0 .. MaxInt /\ o.strip \in 0 .. MaxInt
    BY OptionTypes, Ints DEF validateConfiguration
<1>2. header \in Nat /\ header <= Min2(o.max, MaxInt) /\ Min2(o.max, MaxInt) \in Nat
    BY <1>1, HeaderExact, OptionTypes, Ints DEF Min2
<1>3. \E value \in 0 .. top : value + header + o.adjustment \in header .. Min2(o.max, MaxInt)
  <2>1. CASE o.adjustment < 0
    <3>1. -o.adjustment \in 0 .. top
      BY <1>1, <2>1, Representable, OptionTypes, Ints DEF validateConfiguration
    <3>2. -o.adjustment + header + o.adjustment = header
      BY <1>2, OptionTypes
    <3> QED BY <1>2, <3>1, <3>2
  <2>2. CASE ~ (o.adjustment < 0)
    <3>1. o.adjustment <= Min2(o.max, MaxInt) - header
      BY <2>2, HeaderExact DEF validateConfiguration, effectiveMax
    <3>2. 0 \in 0 .. top
      BY <1>1, Representable, Ints
    <3>3. 0 + header + o.adjustment \in header .. Min2(o.max, MaxInt)
      BY <1>2, <2>2, <3>1, OptionTypes
    <3> QED BY <3>2, <3>3
  <2> QED BY <2>1, <2>2
<1> QED BY <1>1, <1>3 DEF Feasible

LEMMA FeasibleIsAccepted ==
    ASSUME NEW o \in Options, Feasible(o)
    PROVE  validateConfiguration(o)
<1> DEFINE header == o.offset + o.width
           top == Min2(MaxInt, Weight[o.width] - 1)
<1>1. /\ o.byteOrder \in {"little", "big"} /\ o.width \in {1, 2, 3, 4, 8}
      /\ o.offset \in 0 .. MaxInt /\ o.strip \in 0 .. MaxInt
    BY DEF Feasible
<1>2. PICK value \in 0 .. top :
          value + header + o.adjustment \in header .. Min2(o.max, MaxInt)
    BY DEF Feasible
<1>3. value \in Nat /\ value <= maxRepresentableUnadjustedLength(o.width) /\ value <= MaxInt
    BY <1>1, <1>2, Representable, Ints
<1>4. /\ Min2(o.max, MaxInt) \in Nat /\ Min2(o.max, MaxInt) <= MaxInt
      /\ Min2(o.max, MaxInt) <= o.max
    BY OptionTypes, Ints DEF Min2
<1>5. header \in Nat /\ header >= 1
    BY <1>1, Ints
<1>6. value + o.adjustment >= 0 /\ value + header + o.adjustment <= Min2(o.max, MaxInt)
    BY <1>2, <1>3, <1>4, <1>5, OptionTypes
<1>7. header <= Min2(o.max, MaxInt)
    BY <1>3, <1>4, <1>5, <1>6, OptionTypes
<1>8. lengthFieldEndOffset(o) = header
    BY <1>4, <1>5, <1>7, WrapExact, Ints DEF lengthFieldEndOffset
<1>9. o.max # 0 /\ header >= 0
    BY <1>4, <1>5, <1>7, OptionTypes
<1>10. o.adjustment # MinInt
    BY <1>3, <1>6, OptionTypes, Ints
<1>11. o.adjustment < 0 => -o.adjustment <= maxRepresentableUnadjustedLength(o.width)
    BY <1>1, <1>3, <1>6, Representable, OptionTypes, Ints
<1>12. o.adjustment <= Min2(o.max, MaxInt) - header
    BY <1>3, <1>4, <1>5, <1>6, OptionTypes
<1>13. o.offset >= 0 /\ o.strip >= 0 /\ o.byteOrder # "nil"
    BY <1>1, Ints
<1> HIDE DEF header
<1> QED BY <1>1, <1>7, <1>8, <1>9, <1>10, <1>11, <1>12, <1>13
        DEF validateConfiguration, effectiveMax
----------------------------------------------------------------------------
(* The length field is what Declared says: the digits weighted by place.   *)

\* The recursive sum of DigitSum unfolds.
LEMMA DigitSums ==
    ASSUME NEW s, NEW p, NEW w \in 1 .. 8, NEW order
    PROVE  \E sum : /\ sum[0] = 0
                    /\ \A i \in 1 .. w : sum[i] = sum[i - 1] + s[p + i] *
                           Weight[IF order = "little" THEN i - 1 ELSE w - i]
                    /\ DigitSum(s, p, w, order) = sum[w]
<1> DEFINE T(i) == s[p + i] * Weight[IF order = "little" THEN i - 1 ELSE w - i]
           c1 == 0 + T(1)
           c2 == c1 + T(2)
           c3 == c2 + T(3)
           c4 == c3 + T(4)
           c5 == c4 + T(5)
           c6 == c5 + T(6)
           c7 == c6 + T(7)
           c8 == c7 + T(8)
           F(f) == [i \in 0 .. w |-> IF i = 0 THEN 0 ELSE f[i - 1] + T(i)]
           e == [i \in 0 .. w |->
                    IF i = 0 THEN 0 ELSE IF i = 1 THEN c1 ELSE IF i = 2 THEN c2
                    ELSE IF i = 3 THEN c3 ELSE IF i = 4 THEN c4 ELSE IF i = 5 THEN c5
                    ELSE IF i = 6 THEN c6 ELSE IF i = 7 THEN c7 ELSE c8]
           sum == CHOOSE f : f = F(f)
<1>1. DigitSum(s, p, w, order) = sum[w]
    BY DEF DigitSum
<1> HIDE DEF T
<1>2. e = F(e)
  <2>1. ASSUME NEW i \in 0 .. w PROVE e[i] = F(e)[i]
    <3>1. i \in {0, 1, 2, 3, 4, 5, 6, 7, 8} BY <2>1
    <3> QED BY <3>1
  <2> HIDE DEF c1, c2, c3, c4, c5, c6, c7, c8
  <2> QED BY <2>1
<1>3. sum = F(sum)
    BY <1>2
<1> HIDE DEF sum
<1>4. sum[0] = 0 /\ \A i \in 1 .. w : sum[i] = sum[i - 1] + T(i)
    BY <1>3
<1> QED BY <1>1, <1>4 DEF T

LEMMA TwoDigits ==
    ASSUME NEW m \in Nat, NEW n \in Nat, NEW a \in 0 .. m - 1, NEW b \in 0 .. n - 1
    PROVE  a * n + b \in 0 .. m * n - 1
<1>1. a * n >= 0 /\ (m - 1 - a) * n >= 0
    OBVIOUS
<1>2. m * n = (m - 1 - a) * n + a * n + n
    OBVIOUS
<1>3. a * n \in Int /\ (m - 1 - a) * n \in Int /\ m * n \in Int
    OBVIOUS
<1> QED BY <1>1, <1>2, <1>3

LEMMA FourDigits ==
    ASSUME NEW a \in Int, NEW b \in Int, NEW c \in Int, NEW e \in Int
    PROVE  /\ a * Weight[1] + b * Weight[0] = a * Base + b
           /\ a * Weight[2] + b * Weight[1] + c * Weight[0] = a * Base2 + (b * Base + c)
           /\ a * Weight[3] + b * Weight[2] + c * Weight[1] + e * Weight[0]
                = (a * Base + b) * Base2 + (c * Base + e)
           /\ a * Weight[7] + b * Weight[6] + c * Weight[5] + e * Weight[4]
                = ((a * Base + b) * Base2 + (c * Base + e)) * Base4
    BY Weights, Words

\* The value of the digits f of a length field, as FieldValue computes it.
Value(w, f) ==
    CASE w = 1 -> f[1]
      [] w = 2 -> Uint16(f, 1)
      [] w = 3 -> f[1] * Base2 + Uint16(f, 2)
      [] w = 4 -> Uint32(f, 1)
      [] w = 8 -> Uint64(f)

LEMMA ValueBounds ==
    ASSUME NEW w \in {1, 2, 3, 4, 8}, NEW f, \A i \in 1 .. w : f[i] \in Byte
    PROVE  Value(w, f) \in 0 .. Weight[w] - 1
<1>1. \A i \in 1 .. w : f[i] \in 0 .. Base - 1
    BY DEF Byte
<1>2. ASSUME NEW i \in 1 .. w - 1 PROVE Uint16(f, i) \in 0 .. Base2 - 1
  <2>1. f[i] \in 0 .. Base - 1 /\ f[i + 1] \in 0 .. Base - 1
    BY <1>1
  <2> QED BY <2>1, TwoDigits, Words DEF Uint16, Base2
<1>3. ASSUME NEW i \in 1 .. w - 3 PROVE Uint32(f, i) \in 0 .. Base4 - 1
  <2>1. Uint16(f, i) \in 0 .. Base2 - 1 /\ Uint16(f, i + 2) \in 0 .. Base2 - 1
    BY <1>2
  <2> QED BY <2>1, TwoDigits, Words DEF Uint32, Base4
<1>4. CASE w = 1
    BY <1>1, <1>4, Weights DEF Value
<1>5. CASE w = 2
    BY <1>2, <1>5, Weights DEF Value
<1>6. CASE w = 3
  <2>1. f[1] * Base2 + Uint16(f, 2) \in 0 .. Base * Base2 - 1
    BY <1>1, <1>2, <1>6, TwoDigits, Words
  <2>2. Base * Base2 = Base2 * Base
    BY Words
  <2> QED BY <1>6, <2>1, <2>2, Weights DEF Value
<1>7. CASE w = 4
    BY <1>3, <1>7, Weights DEF Value
<1>8. CASE w = 8
  <2>1. Uint32(f, 1) \in 0 .. Base4 - 1 /\ Uint32(f, 5) \in 0 .. Base4 - 1
    BY <1>3, <1>8
  <2>2. Uint64(f) \in 0 .. Base8 - 1
    BY <2>1, TwoDigits, Words DEF Uint64, Base8
  <2> QED BY <1>8, <2>2, Weights DEF Value
<1> QED BY <1>4, <1>5, <1>6, <1>7, <1>8

LEMMA DeclaredValue ==
    ASSUME NEW o, NEW s, NEW p, NEW f,
           o.width \in {1, 2, 3, 4, 8}, o.byteOrder \in {"little", "big"},
           \A i \in 1 .. o.width :
               /\ f[i] \in Byte
               /\ s[p + o.offset + i] = IF o.byteOrder = "big" THEN f[i] ELSE f[o.width + 1 - i]
    PROVE  Declared(o, s, p) = Value(o.width, f)
<1>1. PICK sum : /\ sum[0] = 0
                 /\ \A i \in 1 .. o.width : sum[i] = sum[i - 1] + s[p + o.offset + i] *
                       Weight[IF o.byteOrder = "little" THEN i - 1 ELSE o.width - i]
                 /\ Declared(o, s, p) = sum[o.width]
  <2>1. o.width \in 1 .. 8
    OBVIOUS
  <2> QED BY <2>1, DigitSums, SMTT(60) DEF Declared
<1>2. \A i \in 1 .. o.width : f[i] \in Int
    BY Words DEF Byte
<1>3. \A i \in 0 .. 8 : Weight[i] \in Int
  <2>1. ASSUME NEW i \in 0 .. 8 PROVE i \in {0, 1, 2, 3, 4, 5, 6, 7, 8}
    OBVIOUS
  <2>2. /\ Base4 * Base \in Int /\ Base4 * Base2 \in Int
        /\ Base4 * (Base2 * Base) \in Int
    BY Words
  <2> QED BY <2>1, <2>2, Weights, Words
<1>4. CASE o.width = 1 /\ o.byteOrder = "big"
  <2>1. sum[1] = sum[0] + f[1] * Weight[0]
    BY <1>1, <1>4
  <2>2. /\ f[1] \in Int /\ f[1] * Weight[0] \in Int
    BY <1>2, <1>3, <1>4
  <2>3. sum[1] = f[1]
    BY <1>1, <2>1, <2>2, Weights
  <2> QED BY <1>1, <1>4, <2>3 DEF Value
<1>5. CASE o.width = 2 /\ o.byteOrder = "big"
  <2>1. sum[1] = sum[0] + f[1] * Weight[1]
    BY <1>1, <1>5
  <2>2. sum[2] = sum[1] + f[2] * Weight[0]
    BY <1>1, <1>5
  <2>3. /\ f[1] \in Int /\ f[1] * Weight[1] \in Int
         /\ f[2] \in Int /\ f[2] * Weight[0] \in Int
    BY <1>2, <1>3, <1>5
  <2>4. sum[2] = f[1] * Weight[1] + f[2] * Weight[0]
    BY <1>1, <2>1, <2>2, <2>3
  <2>5. sum[2] = Value(2, f)
    BY <2>3, <2>4, FourDigits DEF Value, Uint16
  <2> QED BY <1>1, <1>5, <2>5
<1>6. CASE o.width = 3 /\ o.byteOrder = "big"
  <2>1. sum[1] = sum[0] + f[1] * Weight[2]
    BY <1>1, <1>6
  <2>2. sum[2] = sum[1] + f[2] * Weight[1]
    BY <1>1, <1>6
  <2>3. sum[3] = sum[2] + f[3] * Weight[0]
    BY <1>1, <1>6
  <2>4. /\ f[1] \in Int /\ f[1] * Weight[2] \in Int
         /\ f[2] \in Int /\ f[2] * Weight[1] \in Int
         /\ f[3] \in Int /\ f[3] * Weight[0] \in Int
    BY <1>2, <1>3, <1>6
  <2>5. sum[3] = f[1] * Weight[2] + f[2] * Weight[1] + f[3] * Weight[0]
    BY <1>1, <2>1, <2>2, <2>3, <2>4
  <2>6. sum[3] = Value(3, f)
    BY <2>4, <2>5, FourDigits DEF Value, Uint16
  <2> QED BY <1>1, <1>6, <2>6
<1>7. CASE o.width = 4 /\ o.byteOrder = "big"
  <2>1. sum[1] = sum[0] + f[1] * Weight[3]
    BY <1>1, <1>7
  <2>2. sum[2] = sum[1] + f[2] * Weight[2]
    BY <1>1, <1>7
  <2>3. sum[3] = sum[2] + f[3] * Weight[1]
    BY <1>1, <1>7
  <2>4. sum[4] = sum[3] + f[4] * Weight[0]
    BY <1>1, <1>7
  <2>5. /\ f[1] \in Int /\ f[1] * Weight[3] \in Int
         /\ f[2] \in Int /\ f[2] * Weight[2] \in Int
         /\ f[3] \in Int /\ f[3] * Weight[1] \in Int
         /\ f[4] \in Int /\ f[4] * Weight[0] \in Int
    BY <1>2, <1>3, <1>7
  <2>6. sum[4] = f[1] * Weight[3] + f[2] * Weight[2] + f[3] * Weight[1] + f[4] * Weight[0]
    BY <1>1, <2>1, <2>2, <2>3, <2>4, <2>5
  <2>7. sum[4] = Value(4, f)
    BY <2>5, <2>6, FourDigits DEF Value, Uint16, Uint32
  <2> QED BY <1>1, <1>7, <2>7
<1>8. CASE o.width = 8 /\ o.byteOrder = "big"
  <2>1. sum[1] = sum[0] + f[1] * Weight[7]
    BY <1>1, <1>8
  <2>2. sum[2] = sum[1] + f[2] * Weight[6]
    BY <1>1, <1>8
  <2>3. sum[3] = sum[2] + f[3] * Weight[5]
    BY <1>1, <1>8
  <2>4. sum[4] = sum[3] + f[4] * Weight[4]
    BY <1>1, <1>8
  <2>5. sum[5] = sum[4] + f[5] * Weight[3]
    BY <1>1, <1>8
  <2>6. sum[6] = sum[5] + f[6] * Weight[2]
    BY <1>1, <1>8
  <2>7. sum[7] = sum[6] + f[7] * Weight[1]
    BY <1>1, <1>8
  <2>8. sum[8] = sum[7] + f[8] * Weight[0]
    BY <1>1, <1>8
  <2>9. /\ f[1] \in Int /\ f[1] * Weight[7] \in Int
         /\ f[2] \in Int /\ f[2] * Weight[6] \in Int
         /\ f[3] \in Int /\ f[3] * Weight[5] \in Int
         /\ f[4] \in Int /\ f[4] * Weight[4] \in Int
         /\ f[5] \in Int /\ f[5] * Weight[3] \in Int
         /\ f[6] \in Int /\ f[6] * Weight[2] \in Int
         /\ f[7] \in Int /\ f[7] * Weight[1] \in Int
         /\ f[8] \in Int /\ f[8] * Weight[0] \in Int
    BY <1>2, <1>3, <1>8
  <2>10. sum[8] = (f[1] * Weight[7] + f[2] * Weight[6] + f[3] * Weight[5] + f[4] * Weight[4])
                + (f[5] * Weight[3] + f[6] * Weight[2] + f[7] * Weight[1] + f[8] * Weight[0])
    BY <1>1, <2>1, <2>2, <2>3, <2>4, <2>5, <2>6, <2>7, <2>8, <2>9
  <2>11. sum[8] = Uint64(f)
    <3>1. Uint32(f, 1) = (f[1] * Base + f[2]) * Base2 + (f[3] * Base + f[4])
      BY DEF Uint16, Uint32
    <3>2. Uint32(f, 5) = (f[5] * Base + f[6]) * Base2 + (f[7] * Base + f[8])
      BY DEF Uint16, Uint32
    <3>3. f[1] * Weight[7] + f[2] * Weight[6] + f[3] * Weight[5] + f[4] * Weight[4]
            = ((f[1] * Base + f[2]) * Base2 + (f[3] * Base + f[4])) * Base4
      <4>1. f[1] \in Int /\ f[2] \in Int /\ f[3] \in Int /\ f[4] \in Int
        BY <2>9
      <4> QED BY <4>1, FourDigits, SMTT(60)
    <3>4. f[5] * Weight[3] + f[6] * Weight[2] + f[7] * Weight[1] + f[8] * Weight[0]
            = (f[5] * Base + f[6]) * Base2 + (f[7] * Base + f[8])
      <4>1. f[5] \in Int /\ f[6] \in Int /\ f[7] \in Int /\ f[8] \in Int
        BY <2>9
      <4> QED BY <4>1, FourDigits, SMTT(60)
    <3> QED BY <2>10, <3>1, <3>2, <3>3, <3>4 DEF Uint64
  <2> QED BY <1>1, <1>8, <2>11 DEF Value
<1>9. CASE o.width = 1 /\ o.byteOrder = "little"
  <2>1. sum[1] = sum[0] + f[1] * Weight[0]
    BY <1>1, <1>9
  <2>2. /\ f[1] \in Int /\ f[1] * Weight[0] \in Int
    BY <1>2, <1>3, <1>9
  <2>3. sum[1] = f[1]
    BY <1>1, <2>1, <2>2, Weights
  <2> QED BY <1>1, <1>9, <2>3 DEF Value
<1>10. CASE o.width = 2 /\ o.byteOrder = "little"
  <2>1. sum[1] = sum[0] + f[2] * Weight[0]
    BY <1>1, <1>10
  <2>2. sum[2] = sum[1] + f[1] * Weight[1]
    BY <1>1, <1>10
  <2>3. /\ f[1] \in Int /\ f[1] * Weight[1] \in Int
         /\ f[2] \in Int /\ f[2] * Weight[0] \in Int
    BY <1>2, <1>3, <1>10
  <2>4. sum[2] = f[1] * Weight[1] + f[2] * Weight[0]
    BY <1>1, <2>1, <2>2, <2>3
  <2>5. sum[2] = Value(2, f)
    BY <2>3, <2>4, FourDigits DEF Value, Uint16
  <2> QED BY <1>1, <1>10, <2>5
<1>11. CASE o.width = 3 /\ o.byteOrder = "little"
  <2>1. sum[1] = sum[0] + f[3] * Weight[0]
    BY <1>1, <1>11
  <2>2. sum[2] = sum[1] + f[2] * Weight[1]
    BY <1>1, <1>11
  <2>3. sum[3] = sum[2] + f[1] * Weight[2]
    BY <1>1, <1>11
  <2>4. /\ f[1] \in Int /\ f[1] * Weight[2] \in Int
         /\ f[2] \in Int /\ f[2] * Weight[1] \in Int
         /\ f[3] \in Int /\ f[3] * Weight[0] \in Int
    BY <1>2, <1>3, <1>11
  <2>5. sum[3] = f[1] * Weight[2] + f[2] * Weight[1] + f[3] * Weight[0]
    BY <1>1, <2>1, <2>2, <2>3, <2>4
  <2>6. sum[3] = Value(3, f)
    BY <2>4, <2>5, FourDigits DEF Value, Uint16
  <2> QED BY <1>1, <1>11, <2>6
<1>12. CASE o.width = 4 /\ o.byteOrder = "little"
  <2>1. sum[1] = sum[0] + f[4] * Weight[0]
    BY <1>1, <1>12
  <2>2. sum[2] = sum[1] + f[3] * Weight[1]
    BY <1>1, <1>12
  <2>3. sum[3] = sum[2] + f[2] * Weight[2]
    BY <1>1, <1>12
  <2>4. sum[4] = sum[3] + f[1] * Weight[3]
    BY <1>1, <1>12
  <2>5. /\ f[1] \in Int /\ f[1] * Weight[3] \in Int
         /\ f[2] \in Int /\ f[2] * Weight[2] \in Int
         /\ f[3] \in Int /\ f[3] * Weight[1] \in Int
         /\ f[4] \in Int /\ f[4] * Weight[0] \in Int
    BY <1>2, <1>3, <1>12
  <2>6. sum[4] = f[1] * Weight[3] + f[2] * Weight[2] + f[3] * Weight[1] + f[4] * Weight[0]
    BY <1>1, <2>1, <2>2, <2>3, <2>4, <2>5
  <2>7. sum[4] = Value(4, f)
    BY <2>5, <2>6, FourDigits DEF Value, Uint16, Uint32
  <2> QED BY <1>1, <1>12, <2>7
<1>13. CASE o.width = 8 /\ o.byteOrder = "little"
  <2>1. sum[1] = sum[0] + f[8] * Weight[0]
    BY <1>1, <1>13
  <2>2. sum[2] = sum[1] + f[7] * Weight[1]
    BY <1>1, <1>13
  <2>3. sum[3] = sum[2] + f[6] * Weight[2]
    BY <1>1, <1>13
  <2>4. sum[4] = sum[3] + f[5] * Weight[3]
    BY <1>1, <1>13
  <2>5. sum[5] = sum[4] + f[4] * Weight[4]
    BY <1>1, <1>13
  <2>6. sum[6] = sum[5] + f[3] * Weight[5]
    BY <1>1, <1>13
  <2>7. sum[7] = sum[6] + f[2] * Weight[6]
    BY <1>1, <1>13
  <2>8. sum[8] = sum[7] + f[1] * Weight[7]
    BY <1>1, <1>13
  <2>9. /\ f[1] \in Int /\ f[1] * Weight[7] \in Int
         /\ f[2] \in Int /\ f[2] * Weight[6] \in Int
         /\ f[3] \in Int /\ f[3] * Weight[5] \in Int
         /\ f[4] \in Int /\ f[4] * Weight[4] \in Int
         /\ f[5] \in Int /\ f[5] * Weight[3] \in Int
         /\ f[6] \in Int /\ f[6] * Weight[2] \in Int
         /\ f[7] \in Int /\ f[7] * Weight[1] \in Int
         /\ f[8] \in Int /\ f[8] * Weight[0] \in Int
    BY <1>2, <1>3, <1>13
  <2>10. sum[8] = (f[1] * Weight[7] + f[2] * Weight[6] + f[3] * Weight[5] + f[4] * Weight[4])
                + (f[5] * Weight[3] + f[6] * Weight[2] + f[7] * Weight[1] + f[8] * Weight[0])
    BY <1>1, <2>1, <2>2, <2>3, <2>4, <2>5, <2>6, <2>7, <2>8, <2>9
  <2>11. sum[8] = Uint64(f)
    <3>1. Uint32(f, 1) = (f[1] * Base + f[2]) * Base2 + (f[3] * Base + f[4])
      BY DEF Uint16, Uint32
    <3>2. Uint32(f, 5) = (f[5] * Base + f[6]) * Base2 + (f[7] * Base + f[8])
      BY DEF Uint16, Uint32
    <3>3. f[1] * Weight[7] + f[2] * Weight[6] + f[3] * Weight[5] + f[4] * Weight[4]
            = ((f[1] * Base + f[2]) * Base2 + (f[3] * Base + f[4])) * Base4
      <4>1. f[1] \in Int /\ f[2] \in Int /\ f[3] \in Int /\ f[4] \in Int
        BY <2>9
      <4> QED BY <4>1, FourDigits
    <3>4. f[5] * Weight[3] + f[6] * Weight[2] + f[7] * Weight[1] + f[8] * Weight[0]
            = (f[5] * Base + f[6]) * Base2 + (f[7] * Base + f[8])
      <4>1. f[5] \in Int /\ f[6] \in Int /\ f[7] \in Int /\ f[8] \in Int
        BY <2>9
      <4> QED BY <4>1, FourDigits
    <3> QED BY <2>10, <3>1, <3>2, <3>3, <3>4 DEF Uint64
  <2> QED BY <1>1, <1>13, <2>11 DEF Value
<1> QED BY <1>4, <1>5, <1>6, <1>7, <1>8, <1>9, <1>10, <1>11, <1>12, <1>13
----------------------------------------------------------------------------
(* One frame.                                                              *)

\* FieldValue reads the digits of the field, the most significant one first.
LEMMA FieldDigits ==
    ASSUME NEW o \in Options, validateConfiguration(o),
           NEW s \in Seq(Byte), o.offset + o.width <= Len(s)
    PROVE  \E f : /\ FieldValue(o, s) = Value(o.width, f)
                  /\ \A i \in 1 .. o.width :
                        /\ f[i] \in Byte
                        /\ s[o.offset + i] =
                              IF o.byteOrder = "big" THEN f[i] ELSE f[o.width + 1 - i]
<1> DEFINE g == SubSeq(s, o.offset + 1, o.offset + o.width)
           f == BigEndian(o.byteOrder, g)
<1>1. o.width \in {1, 2, 3, 4, 8} /\ o.offset \in Nat
    BY OptionTypes DEF validateConfiguration
<1>2. /\ g \in Seq(Byte) /\ Len(g) = o.width
      /\ \A i \in 1 .. o.width : g[i] \in Byte /\ g[i] = s[o.offset + i]
  <2> DEFINE m == o.offset + 1
             n == o.offset + o.width
  <2>1. m \in Int /\ n \in Int /\ 1 <= m /\ m <= n /\ n - m + 1 = o.width
    BY <1>1
  <2>2. n <= Len(s) /\ Len(s) \in Nat
    BY LenProperties
  <2>3. \A i \in 1 .. o.width : m + i - 1 = o.offset + i
    BY <1>1
  <2> HIDE DEF m, n
  <2>4. \A i \in m .. n : s[i] \in Byte
    BY <2>1, <2>2, ElementOfSeq
  <2>5. /\ SubSeq(s, m, n) \in Seq(Byte) /\ Len(SubSeq(s, m, n)) = n - m + 1
        /\ \A i \in 1 .. n - m + 1 : SubSeq(s, m, n)[i] = s[m + i - 1]
    BY <2>1, <2>4, SubSeqProperties
  <2>6. /\ g \in Seq(Byte) /\ Len(g) = o.width
        /\ \A i \in 1 .. o.width : g[i] = s[o.offset + i]
    BY <2>1, <2>3, <2>5 DEF m, n
  <2> QED BY <2>6, ElementOfSeq
<1>3. lengthFieldEndOffset(o) = o.offset + o.width
    BY HeaderExact
<1>4. FieldValue(o, s) = Value(o.width, f)
    BY <1>3 DEF FieldValue, Value
<1> HIDE DEF g
<1>5. CASE o.byteOrder = "big"
    BY <1>2, <1>4, <1>5 DEF BigEndian
<1>6. CASE o.byteOrder # "big"
  <2>1. \A i \in 1 .. o.width : f[i] = g[o.width + 1 - i]
    BY <1>2, <1>6 DEF BigEndian
  <2>2. \A i \in 1 .. o.width :
            o.width + 1 - i \in 1 .. o.width /\ o.width + 1 - (o.width + 1 - i) = i
    BY <1>1
  <2> HIDE DEF f
  <2>3. \A i \in 1 .. o.width : f[i] \in Byte /\ g[i] = f[o.width + 1 - i]
    BY <1>2, <2>1, <2>2
  <2> QED BY <1>2, <1>4, <1>6, <2>3
<1> QED BY <1>5, <1>6

LEMMA FieldIsInt ==
    ASSUME NEW o \in Options, validateConfiguration(o),
           NEW s \in Seq(Byte), o.offset + o.width <= Len(s)
    PROVE  FieldValue(o, s) \in Int
<1>1. o.width \in {1, 2, 3, 4, 8}
    BY DEF validateConfiguration
<1>2. \E f : FieldValue(o, s) = Value(o.width, f) /\ \A i \in 1 .. o.width : f[i] \in Byte
    BY FieldDigits
<1>3. \A f : (\A i \in 1 .. o.width : f[i] \in Byte) =>
                Value(o.width, f) \in 0 .. Weight[o.width] - 1
    BY <1>1, ValueBounds
<1> QED BY <1>2, <1>3

LEMMA LengthIsInt ==
    ASSUME NEW o \in Options, validateConfiguration(o), NEW u \in Int
    PROVE  adjustFrameLength(o, u)[1] \in Int
<1>1. lengthFieldEndOffset(o) \in Int
    BY HeaderExact, OptionTypes
<1> QED BY <1>1, OptionTypes DEF adjustFrameLength

\* The frames that the maximum allows.
Fitting(o) == {frame \in Seq(Byte) : Len(frame) <= o.max - o.strip}

\* What decodeOne leaves to wait for is shorter than the maximum, and what it
\* cuts off has the header in it and was received.
LEMMA DecodesOne ==
    ASSUME NEW o \in Options, validateConfiguration(o), NEW s \in Seq(Byte),
           NEW one, one = decodeOne(o, s)
    PROVE  /\ one.result \in {"incomplete", "error", "frame"}
           /\ one.result = "incomplete" => Len(s) < o.max
           /\ one.result = "frame" => /\ one.consumed \in o.offset + o.width .. Len(s)
                                      /\ one.frame \in Fitting(o)
<1> DEFINE header == lengthFieldEndOffset(o)
           u == readLengthField(o, s)
           n == adjustFrameLength(o, u[1])
<1>1. header = o.offset + o.width /\ header \in Nat /\ header <= o.max /\ o.max \in Nat
    BY HeaderExact, OptionTypes DEF validateConfiguration
<1>2. o.strip \in Nat /\ Len(s) \in Nat
    BY OptionTypes DEF validateConfiguration
<1>3. one = IF Len(s) < header THEN Incomplete
            ELSE IF ~ (u[2] /\ n[2] /\ LengthInRange(o, n[1])) THEN Error
            ELSE IF Len(s) < n[1] THEN Incomplete
            ELSE IF o.strip > n[1] THEN Error
            ELSE [result |-> "frame", frame |-> SubSeq(s, o.strip + 1, n[1]),
                  consumed |-> n[1]]
    BY DEF decodeOne
<1>4. header <= Len(s) => n[1] \in Int
  <2>1. header <= Len(s) => u[1] \in Int
    BY <1>1, FieldIsInt DEF readLengthField
  <2> QED BY <2>1, LengthIsInt
<1>5. LengthInRange(o, n[1]) => header <= n[1] /\ n[1] <= o.max
    BY DEF LengthInRange
<1> HIDE DEF header, u, n
<1>6. CASE Len(s) < header
    BY <1>1, <1>2, <1>3, <1>6 DEF Incomplete
<1>7. CASE header <= Len(s) /\ ~ (u[2] /\ n[2] /\ LengthInRange(o, n[1]))
    BY <1>1, <1>2, <1>3, <1>7 DEF Error
<1>8. CASE header <= Len(s) /\ u[2] /\ n[2] /\ LengthInRange(o, n[1])
  <2>1. n[1] \in Int /\ header <= n[1] /\ n[1] <= o.max
    BY <1>4, <1>5, <1>8
  <2>2. CASE Len(s) < n[1]
    BY <1>1, <1>2, <1>3, <1>8, <2>1, <2>2 DEF Incomplete
  <2>3. CASE ~ (Len(s) < n[1]) /\ o.strip > n[1]
    BY <1>1, <1>2, <1>3, <1>8, <2>1, <2>3 DEF Error
  <2>4. CASE ~ (Len(s) < n[1]) /\ ~ (o.strip > n[1])
    <3>1. one = [result |-> "frame", frame |-> SubSeq(s, o.strip + 1, n[1]),
                 consumed |-> n[1]]
      BY <1>1, <1>2, <1>3, <1>8, <2>4
    <3>2. n[1] \in o.offset + o.width .. Len(s)
      BY <1>1, <1>2, <2>1, <2>4
    <3>3. SubSeq(s, o.strip + 1, n[1]) \in Fitting(o)
      <4> DEFINE m == o.strip + 1
      <4>1. m \in Int /\ n[1] \in Int /\ 1 <= m /\ m <= n[1] + 1
        BY <1>2, <2>1, <2>4
      <4>2. \A i \in m .. n[1] : s[i] \in Byte
        BY <1>2, <2>4, <4>1, ElementOfSeq
      <4>3. SubSeq(s, m, n[1]) \in Seq(Byte) /\ Len(SubSeq(s, m, n[1])) = n[1] - m + 1
        BY <4>1, <4>2, SubSeqProperties
      <4> QED BY <1>1, <1>2, <2>1, <4>3 DEF Fitting
    <3> QED BY <3>1, <3>2, <3>3
  <2> QED BY <2>2, <2>3, <2>4
<1> QED BY <1>1, <1>2, <1>6, <1>7, <1>8
----------------------------------------------------------------------------
(* The inductive invariant.  ResidueBounded needs to know that the options  *)
(* of a decoder in use were accepted, that the bytes are bytes (the length  *)
(* they declare is a number) and that a call returned only when no frame    *)
(* was left.                                                                *)

TypeInv ==
    /\ d \in Options
    /\ phase \in {"new", "rejected", "idle", "decoding", "failed"}
    /\ fed \in Seq(Byte) /\ bytes \in Seq(Byte)

FitInv == frames \in Seq(Fitting(d)) /\ out \in Seq(Fitting(d))

AcceptInv ==
    /\ phase = "rejected" => ~ validateConfiguration(d)
    /\ phase \in {"idle", "decoding", "failed"} => validateConfiguration(d)

RestInv ==
    /\ phase = "new" => bytes = <<>>
    /\ phase = "idle" => bytes = <<>> \/ decodeOne(d, bytes).result = "incomplete"

\* The decoder holds the end of what it was fed.
IsTail(s, whole) ==
    /\ Len(s) <= Len(whole)
    /\ \A i \in 1 .. Len(s) : s[i] = whole[Len(whole) - Len(s) + i]

TailInv == IF phase = "failed" THEN bytes = <<>> ELSE IsTail(bytes, fed)

IInv == TypeInv /\ FitInv /\ AcceptInv /\ RestInv /\ TailInv

LEMMA InitIInv == Init => IInv
<1> SUFFICES ASSUME Init PROVE IInv
    OBVIOUS
<1>1. <<>> \in Seq(Byte) /\ <<>> \in Seq(Fitting(d)) /\ Len(<<>>) = 0
    BY EmptySeq
<1> QED BY <1>1 DEF Init, IInv, TypeInv, FitInv, AcceptInv, RestInv, TailInv, IsTail

LEMMA InputsAreBytes == ASSUME NEW input \in Inputs PROVE input \in Seq(Byte)
<1>1. PICK n \in 0 .. MaxInput : input \in [1 .. n -> Byte]
    BY DEF Inputs
<1>2. n \in Nat
    BY FrameDecoderAssumption
<1> QED BY <1>1, <1>2

\* Cutting the front off the tail, and adding the same to both, leaves a tail.
LEMMA CutTail ==
    ASSUME NEW s \in Seq(Byte), NEW whole \in Seq(Byte), IsTail(s, whole),
           NEW n \in 0 .. Len(s)
    PROVE  /\ SubSeq(s, n + 1, Len(s)) \in Seq(Byte)
           /\ Len(SubSeq(s, n + 1, Len(s))) = Len(s) - n
           /\ IsTail(SubSeq(s, n + 1, Len(s)), whole)
<1> DEFINE t == SubSeq(s, n + 1, Len(s))
<1>1. Len(s) \in Nat /\ Len(whole) \in Nat /\ n \in Nat /\ n <= Len(s)
    BY LenProperties
<1>2. \A i \in n + 1 .. Len(s) : s[i] \in Byte
    BY <1>1, ElementOfSeq
<1>3. /\ t \in Seq(Byte) /\ Len(t) = Len(s) - n
      /\ \A i \in 1 .. Len(s) - n : t[i] = s[n + i]
    BY <1>1, <1>2, SubSeqProperties
<1> HIDE DEF t
<1>4. ASSUME NEW i \in 1 .. Len(t)
      PROVE  t[i] = whole[Len(whole) - Len(t) + i]
  <2>1. t[i] = s[n + i] /\ n + i \in 1 .. Len(s)
    BY <1>1, <1>3
  <2>2. s[n + i] = whole[Len(whole) - Len(s) + (n + i)]
    BY <2>1 DEF IsTail
  <2>3. Len(whole) - Len(s) + (n + i) = Len(whole) - Len(t) + i
    BY <1>1, <1>3
  <2> QED BY <2>1, <2>2, <2>3
<1>5. IsTail(t, whole)
    BY <1>1, <1>3, <1>4 DEF IsTail
<1> QED BY <1>3, <1>5 DEF t

LEMMA HeldIsSubSeq ==
    ASSUME NEW s \in Seq(Byte), NEW whole \in Seq(Byte), IsTail(s, whole),
           NEW p, p = Len(whole) - Len(s)
    PROVE  SubSeq(whole, p + 1, Len(whole)) = s
<1> DEFINE m == p + 1
           t == SubSeq(whole, m, Len(whole))
<1>1. Len(whole) \in Nat /\ Len(s) \in Nat /\ Len(s) <= Len(whole)
    BY LenProperties DEF IsTail
<1>2. /\ m \in Int /\ 1 <= m /\ m <= Len(whole) + 1 /\ Len(whole) - m + 1 = Len(s)
      /\ \A i \in 1 .. Len(s) : Len(whole) - Len(s) + i = m + i - 1
    BY <1>1
<1> HIDE DEF m
<1>3. \A i \in m .. Len(whole) : whole[i] \in Byte
    BY <1>1, <1>2, ElementOfSeq
<1>4. /\ t \in Seq(Byte) /\ Len(t) = Len(s)
      /\ \A i \in 1 .. Len(s) : t[i] = whole[m + i - 1]
    BY <1>1, <1>2, <1>3, SubSeqProperties
<1> HIDE DEF t
<1>5. \A i \in 1 .. Len(s) : s[i] = t[i]
    BY <1>2, <1>4 DEF IsTail
<1>6. t = s
    BY <1>4, <1>5, SeqEqual
<1> QED BY <1>6 DEF t, m

LEMMA ExtendTail ==
    ASSUME NEW s \in Seq(Byte), NEW whole \in Seq(Byte), IsTail(s, whole),
           NEW input \in Seq(Byte)
    PROVE  IsTail(s \o input, whole \o input)
<1> DEFINE t == s \o input
           w == whole \o input
<1>1. Len(s) \in Nat /\ Len(whole) \in Nat /\ Len(input) \in Nat /\ Len(s) <= Len(whole)
    BY LenProperties DEF IsTail
<1>2. /\ Len(t) = Len(s) + Len(input) /\ Len(w) = Len(whole) + Len(input)
      /\ \A i \in 1 .. Len(s) + Len(input) :
            t[i] = IF i <= Len(s) THEN s[i] ELSE input[i - Len(s)]
      /\ \A i \in 1 .. Len(whole) + Len(input) :
            w[i] = IF i <= Len(whole) THEN whole[i] ELSE input[i - Len(whole)]
    BY ConcatProperties
<1> HIDE DEF t, w
<1>3. ASSUME NEW i \in 1 .. Len(t)
      PROVE  t[i] = w[Len(w) - Len(t) + i]
  <2> DEFINE j == Len(w) - Len(t) + i
  <2>1. j = Len(whole) - Len(s) + i /\ j \in 1 .. Len(whole) + Len(input)
        /\ i \in 1 .. Len(s) + Len(input)
    BY <1>1, <1>2
  <2> HIDE DEF j
  <2>2. CASE i <= Len(s)
    <3>1. t[i] = s[i] /\ s[i] = whole[j] /\ j <= Len(whole)
      BY <1>1, <1>2, <2>1, <2>2 DEF IsTail
    <3> QED BY <1>2, <2>1, <3>1 DEF j
  <2>3. CASE ~ (i <= Len(s))
    <3>1. t[i] = input[i - Len(s)] /\ ~ (j <= Len(whole)) /\ j - Len(whole) = i - Len(s)
      BY <1>1, <1>2, <2>1, <2>3
    <3> QED BY <1>2, <2>1, <3>1 DEF j
  <2> QED BY <2>2, <2>3
<1> QED BY <1>1, <1>2, <1>3 DEF IsTail, t, w
----------------------------------------------------------------------------
(* Every step keeps the invariant.                                         *)

\* A round of the loop of Decode, on an accepted decoder.
LEMMA FrameStep ==
    ASSUME IInv, DecodeFrame
    PROVE  /\ frames' \in Seq(Fitting(d)) /\ Len(frames') = Len(frames) + 1
           /\ bytes' \in Seq(Byte) /\ Len(bytes') <= Len(bytes) - d.offset - d.width
           /\ IsTail(bytes', fed)
<1> DEFINE one == decodeOne(d, bytes)
<1>1. /\ d \in Options /\ validateConfiguration(d) /\ bytes \in Seq(Byte)
      /\ fed \in Seq(Byte) /\ IsTail(bytes, fed) /\ frames \in Seq(Fitting(d))
    BY DEF IInv, TypeInv, FitInv, AcceptInv, TailInv, DecodeFrame
<1>2. /\ one.result = "frame" /\ frames' = Append(frames, one.frame)
      /\ bytes' = SubSeq(bytes, one.consumed + 1, Len(bytes))
    BY DEF DecodeFrame
<1>3. one.consumed \in d.offset + d.width .. Len(bytes) /\ one.frame \in Fitting(d)
    BY <1>1, <1>2, DecodesOne
<1>4. d.offset \in Nat /\ d.width \in Nat /\ Len(bytes) \in Nat
    BY <1>1, OptionTypes, LenProperties DEF validateConfiguration
<1> HIDE DEF one
<1>5. one.consumed \in 0 .. Len(bytes) /\ one.consumed >= d.offset + d.width
    BY <1>3, <1>4
<1>6. frames' \in Seq(Fitting(d)) /\ Len(frames') = Len(frames) + 1
    BY <1>1, <1>2, <1>3, AppendProperties
<1>7. /\ bytes' \in Seq(Byte) /\ Len(bytes') = Len(bytes) - one.consumed
      /\ IsTail(bytes', fed)
    BY <1>1, <1>2, <1>5, CutTail
<1> QED BY <1>4, <1>5, <1>6, <1>7

LEMMA NextIInv == IInv /\ [Next]_decoderVars => IInv'
<1> SUFFICES ASSUME IInv, [Next]_decoderVars PROVE IInv'
    OBVIOUS
<1> USE DEF IInv, TypeInv, FitInv, AcceptInv, RestInv, TailInv
<1>1. CASE NewFrameDecoder
  <2>1. /\ UNCHANGED <<d, fed, bytes, frames, out>>
        /\ phase' = IF validateConfiguration(d) THEN "idle" ELSE "rejected"
        /\ phase = "new"
    BY <1>1 DEF NewFrameDecoder
  <2>2. TypeInv' /\ FitInv' /\ TailInv'
    BY <2>1
  <2>3. AcceptInv'
    BY <2>1
  <2>4. RestInv'
    BY <2>1
  <2> QED BY <2>2, <2>3, <2>4
<1>2. ASSUME NEW input \in Inputs, DecodeBegin(input) PROVE IInv'
  <2> DEFINE history == IF phase = "failed" THEN <<>> ELSE fed
  <2>1. input \in Seq(Byte) /\ history \in Seq(Byte) /\ bytes \in Seq(Byte)
    BY <1>2, InputsAreBytes, EmptySeq
  <2>2. IsTail(bytes, history)
    BY EmptySeq, <1>2 DEF DecodeBegin, IsTail
  <2>3. /\ phase' = "decoding" /\ d' = d /\ frames' = <<>>
        /\ phase \in {"idle", "failed"}
        /\ out' = IF phase = "failed" THEN <<>> ELSE out
        /\ fed' = history \o input /\ bytes' = bytes \o input
    BY <1>2 DEF DecodeBegin
  <2> HIDE DEF history
  <2>4. fed' \in Seq(Byte) /\ bytes' \in Seq(Byte) /\ IsTail(bytes', fed')
    BY <2>1, <2>2, <2>3, ConcatProperties, ExtendTail
  <2>5. frames' \in Seq(Fitting(d)) /\ out' \in Seq(Fitting(d))
    BY <2>3, EmptySeq
  <2> QED BY <2>3, <2>4, <2>5
<1>3. CASE DecodeFrame
  <2>1. UNCHANGED <<d, phase, fed, out>> /\ phase = "decoding"
    BY <1>3 DEF DecodeFrame
  <2> QED BY <1>3, <2>1, FrameStep
<1>4. CASE DecodeReturns
  <2>1. out \o frames \in Seq(Fitting(d))
    BY ConcatProperties
  <2> QED BY <1>4, <2>1 DEF DecodeReturns
<1>5. CASE DecodeFails
  <2>1. <<>> \in Seq(Byte)
    BY EmptySeq
  <2> QED BY <1>5, <2>1 DEF DecodeFails
<1>6. CASE UNCHANGED decoderVars
    BY <1>6
<1> QED BY <1>1, <1>2, <1>3, <1>4, <1>5, <1>6 DEF Next

\* The invariant holds throughout every behaviour of the decoder.
THEOREM Inductive == Spec => []IInv
    BY InitIInv, NextIInv, PTL DEF Spec

\* Between two calls of Decode the decoder holds back less than one frame of
\* the maximum length, for every size of a byte, all options and every stream
\* (frame_decoder.go, decodeOne).
THEOREM HoldsLessThanAFrame == Spec => []ResidueBounded
<1>1. IInv => ResidueBounded
  <2> SUFFICES ASSUME IInv, phase = "idle" PROVE Len(bytes) < d.max
    BY DEF ResidueBounded
  <2>1. d \in Options /\ bytes \in Seq(Byte) /\ validateConfiguration(d)
    BY DEF IInv, TypeInv, AcceptInv
  <2>2. bytes = <<>> \/ decodeOne(d, bytes).result = "incomplete"
    BY DEF IInv, RestInv
  <2>3. CASE bytes = <<>>
    BY <2>1, <2>3, OptionTypes DEF validateConfiguration
  <2>4. CASE decodeOne(d, bytes).result = "incomplete"
    BY <2>1, <2>4, DecodesOne
  <2> QED BY <2>2, <2>3, <2>4
<1> QED BY <1>1, Inductive, PTL

\* NewFrameDecoder accepts exactly the well-formed options for which some value
\* of the length field stands for a frame that decodeOne does not refuse for its
\* length, with int arithmetic that wraps (frame_decoder.go,
\* validateConfiguration).
THEOREM AcceptsTheFeasible == Spec => []AcceptsExactlyFeasible
<1>1. IInv => AcceptsExactlyFeasible
  <2> SUFFICES ASSUME IInv, phase # "new" PROVE phase # "rejected" <=> Feasible(d)
    BY DEF AcceptsExactlyFeasible, Feasible
  <2>1. d \in Options /\ (phase # "rejected" <=> validateConfiguration(d))
    BY DEF IInv, TypeInv, AcceptInv
  <2> QED BY <2>1, AcceptedIsFeasible, FeasibleIsAccepted
<1> QED BY <1>1, Inductive, PTL

\* Every round of the loop of Decode takes at least the header off the bytes,
\* which is never empty on accepted options (frame_decoder.go, Decode).
THEOREM RoundsTakeBytes == Spec => EveryFrameTakesBytes
<1> DEFINE Takes == Len(frames') > Len(frames)
                        => Len(bytes') <= Len(bytes) - d.offset - d.width
<1>1. IInv /\ [Next]_decoderVars => [Takes]_decoderVars
  <2> SUFFICES ASSUME IInv, Next PROVE Takes
    OBVIOUS
  <2>1. Len(frames) \in Nat
    BY LenProperties DEF IInv, FitInv
  <2>2. CASE DecodeFrame
    BY <2>2, FrameStep
  <2>3. ASSUME NEW input \in Inputs, DecodeBegin(input) PROVE Takes
    BY <2>1, <2>3 DEF DecodeBegin
  <2>4. CASE NewFrameDecoder \/ DecodeReturns \/ DecodeFails
    BY <2>1, <2>4 DEF NewFrameDecoder, DecodeReturns, DecodeFails
  <2> QED BY <2>2, <2>3, <2>4 DEF Next
<1> QED BY <1>1, Inductive, PTL DEF Spec, EveryFrameTakesBytes

\* No frame that Decode returns is longer than the maximum less the stripped
\* bytes (frame_decoder.go, Decode and decodeOne).
THEOREM FramesFit == Spec => [](\A i \in 1 .. Len(out) : Len(out[i]) <= d.max - d.strip)
<1>1. IInv => \A i \in 1 .. Len(out) : Len(out[i]) <= d.max - d.strip
    BY ElementOfSeq DEF IInv, FitInv, Fitting
<1> QED BY <1>1, Inductive, PTL
----------------------------------------------------------------------------
(* The stream read as a whole.  At a position p of it the decoder cuts a    *)
(* frame off that ends at q, waits for more bytes or breaks off.            *)

Valid(o, s, p) ==
    /\ DeclaredLength(o, s, p) \in o.offset + o.width .. Min2(o.max, MaxInt)
    /\ o.width = 8 => Declared(o, s, p) <= MaxInt

Cuts(o, s, p, q) ==
    /\ p + o.offset + o.width <= Len(s) /\ Valid(o, s, p)
    /\ q = p + DeclaredLength(o, s, p) /\ q <= Len(s)
    /\ o.strip <= DeclaredLength(o, s, p)

Waits(o, s, p) ==
    \/ p + o.offset + o.width > Len(s)
    \/ Valid(o, s, p) /\ p + DeclaredLength(o, s, p) > Len(s)

Breaks(o, s, p) ==
    /\ p + o.offset + o.width <= Len(s)
    /\ \/ ~ Valid(o, s, p)
       \/ p + DeclaredLength(o, s, p) <= Len(s) /\ DeclaredLength(o, s, p) < o.strip

\* The field that the decoder reads from the bytes it holds is the one that the
\* stream has there.
LEMMA FieldAgrees ==
    ASSUME NEW o \in Options, validateConfiguration(o),
           NEW s \in Seq(Byte), NEW whole \in Seq(Byte), IsTail(s, whole),
           o.offset + o.width <= Len(s),
           NEW p, p = Len(whole) - Len(s)
    PROVE  /\ FieldValue(o, s) = Declared(o, whole, p)
           /\ Declared(o, whole, p) \in 0 .. Weight[o.width] - 1
<1>1. /\ o.width \in {1, 2, 3, 4, 8} /\ o.offset \in Nat
      /\ o.byteOrder \in {"little", "big"}
    BY OptionTypes DEF validateConfiguration
<1>2. PICK f : /\ FieldValue(o, s) = Value(o.width, f)
               /\ \A i \in 1 .. o.width :
                     /\ f[i] \in Byte
                     /\ s[o.offset + i] =
                           IF o.byteOrder = "big" THEN f[i] ELSE f[o.width + 1 - i]
    BY FieldDigits
<1>3. ASSUME NEW i \in 1 .. o.width
      PROVE  whole[p + o.offset + i] = s[o.offset + i]
  <2>1. Len(s) \in Nat /\ Len(whole) \in Nat
    BY LenProperties
  <2>2. o.offset + i \in 1 .. Len(s)
    BY <1>1, <2>1
  <2>3. p + o.offset + i = Len(whole) - Len(s) + (o.offset + i)
    BY <1>1, <2>1
  <2> QED BY <2>2, <2>3 DEF IsTail
<1>4. Declared(o, whole, p) = Value(o.width, f)
    BY <1>1, <1>2, <1>3, DeclaredValue, SMTT(60)
<1> QED BY <1>1, <1>2, <1>4, ValueBounds

\* The lengths agree: decodeOne refuses what Valid rules out, without overflow.
LEMMA LengthAgrees ==
    ASSUME NEW o \in Options, validateConfiguration(o), NEW v \in 0 .. Weight[o.width] - 1
    PROVE  LET n == adjustFrameLength(o, v)
               length == v + o.offset + o.width + o.adjustment
           IN /\ (o.width = 8 => v <= MaxInt) /\ n[2] /\ LengthInRange(o, n[1])
                   <=> /\ length \in o.offset + o.width .. Min2(o.max, MaxInt)
                       /\ o.width = 8 => v <= MaxInt
              /\ length \in o.offset + o.width .. Min2(o.max, MaxInt)
                 /\ (o.width = 8 => v <= MaxInt) => n[1] = length
<1> DEFINE n == adjustFrameLength(o, v)
           header == o.offset + o.width
           length == v + o.offset + o.width + o.adjustment
<1>1. /\ o.width \in {1, 2, 3, 4, 8} /\ o.offset \in Nat /\ o.adjustment \in Int
      /\ o.adjustment # MinInt /\ o.max \in Nat
    BY OptionTypes DEF validateConfiguration
<1>2. lengthFieldEndOffset(o) = header /\ header \in Nat /\ header <= MaxInt
    BY <1>1, HeaderExact
<1>3. v \in Nat /\ (o.width # 8 => v <= MaxInt)
    BY <1>1, Weights, Words, Ints
<1>4. length = v + header + o.adjustment /\ length \in Int
    BY <1>1, <1>2, <1>3
<1> HIDE DEF header, length
<1>5. CASE v > MaxInt
    BY <1>3, <1>5, Ints DEF length, header
<1>6. CASE v <= MaxInt
  <2>1. n = IF \/ o.adjustment >= 0 /\ v + header > MaxUint64 - o.adjustment
               \/ o.adjustment < 0 /\ v + header < -o.adjustment
            THEN <<0, FALSE>> ELSE <<v + header + o.adjustment, TRUE>>
    <3>1. ~ (v > MaxUint64 - header)
      BY <1>2, <1>3, <1>6, Ints, Words
    <3> QED BY <1>1, <1>2, <3>1 DEF adjustFrameLength
  <2> HIDE DEF n
  <2>2. CASE o.adjustment >= 0 /\ v + header > MaxUint64 - o.adjustment
    <3>1. n[2] = FALSE
      BY <2>1, <2>2
    <3>2. length > MaxInt
      BY <1>1, <1>2, <1>3, <1>4, <2>2, Ints, Words
    <3>3. length \notin header .. Min2(o.max, MaxInt)
      BY <1>1, <1>2, <1>4, <3>2, Ints DEF Min2
    <3> QED BY <3>1, <3>3 DEF n, length, header
  <2>3. CASE o.adjustment < 0 /\ v + header < -o.adjustment
    <3>1. n[2] = FALSE
      BY <2>1, <2>3
    <3>2. length < 0
      BY <1>1, <1>2, <1>3, <1>4, <2>3
    <3>3. length \notin header .. Min2(o.max, MaxInt)
      BY <1>1, <1>2, <1>4, <3>2, Ints DEF Min2
    <3> QED BY <3>1, <3>3 DEF n, length, header
  <2>4. CASE ~ \/ o.adjustment >= 0 /\ v + header > MaxUint64 - o.adjustment
               \/ o.adjustment < 0 /\ v + header < -o.adjustment
    <3>1. n[1] = length /\ n[2] = TRUE
      BY <1>4, <2>1, <2>4
    <3>2. LengthInRange(o, length) <=> length \in header .. Min2(o.max, MaxInt)
      BY <1>1, <1>2, <1>4, Ints DEF LengthInRange, Min2
    <3> QED BY <1>6, <3>1, <3>2 DEF n, length, header
  <2> QED BY <2>2, <2>3, <2>4
<1> QED BY <1>3, <1>5, <1>6, Ints

\* decodeOne on the bytes held does what the stream has at their position.
LEMMA OneAgrees ==
    ASSUME NEW o \in Options, validateConfiguration(o),
           NEW s \in Seq(Byte), NEW whole \in Seq(Byte), IsTail(s, whole),
           NEW p, p = Len(whole) - Len(s), NEW one, one = decodeOne(o, s)
    PROVE  /\ one.result = "incomplete" => Waits(o, whole, p)
           /\ one.result = "error" => Breaks(o, whole, p)
           /\ one.result = "frame" =>
                /\ Cuts(o, whole, p, p + one.consumed)
                /\ one.frame = SubSeq(whole, p + o.strip + 1, p + one.consumed)
<1> DEFINE header == o.offset + o.width
           u == readLengthField(o, s)
           n == adjustFrameLength(o, u[1])
           ok == u[2] /\ n[2] /\ LengthInRange(o, n[1])
           length == DeclaredLength(o, whole, p)
<1>1. /\ o.offset \in Nat /\ o.width \in Nat /\ header \in Nat /\ o.strip \in Nat
      /\ lengthFieldEndOffset(o) = header /\ o.adjustment \in Int
    BY HeaderExact, OptionTypes DEF validateConfiguration
<1>2. Len(s) \in Nat /\ Len(whole) \in Nat /\ Len(s) <= Len(whole) /\ p \in Nat
    BY LenProperties DEF IsTail
<1>3. p + o.offset + o.width > Len(whole) <=> Len(s) < header
    BY <1>1, <1>2
<1>4. header <= Len(s) => /\ ok <=> Valid(o, whole, p)
                          /\ ok => n[1] = length
                          /\ length \in Int
  <2> SUFFICES ASSUME header <= Len(s)
               PROVE  (ok <=> Valid(o, whole, p)) /\ (ok => n[1] = length) /\ length \in Int
    OBVIOUS
  <2> DEFINE v == Declared(o, whole, p)
  <2>1. u[1] = v /\ u[2] = (o.width = 8 => v <= MaxInt) /\ v \in 0 .. Weight[o.width] - 1
    BY FieldAgrees DEF readLengthField
  <2>2. length = v + o.offset + o.width + o.adjustment
    BY DEF DeclaredLength
  <2>3. v \in Int
    BY <2>1, Weights
  <2>4. length \in Int
    BY <1>1, <2>2, <2>3
  <2> HIDE DEF v, u, length
  <2> QED BY <2>1, <2>2, <2>4, LengthAgrees DEF Valid, v, length
<1>5. one = IF Len(s) < header THEN Incomplete
            ELSE IF ~ ok THEN Error
            ELSE IF Len(s) < n[1] THEN Incomplete
            ELSE IF o.strip > n[1] THEN Error
            ELSE [result |-> "frame", frame |-> SubSeq(s, o.strip + 1, n[1]),
                  consumed |-> n[1]]
    BY <1>1 DEF decodeOne
<1> HIDE DEF ok, u, n, header, length
<1>6. CASE Len(s) < header
    BY <1>3, <1>5, <1>6 DEF Incomplete, Waits
<1>7. CASE header <= Len(s) /\ ~ ok
    BY <1>1, <1>2, <1>3, <1>4, <1>5, <1>7 DEF Error, Breaks, header
<1>8. CASE header <= Len(s) /\ ok
  <2>1. n[1] = length /\ Valid(o, whole, p) /\ length \in Int /\ ~ (Len(s) < header)
    BY <1>1, <1>2, <1>4, <1>8
  <2>2. p + length > Len(whole) <=> Len(s) < length
    BY <1>2, <2>1
  <2>3. p + o.offset + o.width <= Len(whole) /\ length >= header
    BY <1>1, <1>2, <1>8, <2>1, Ints DEF Valid, length, header
  <2>4. CASE Len(s) < length
    BY <1>5, <1>8, <2>1, <2>2, <2>4 DEF Incomplete, Waits, length
  <2>5. CASE ~ (Len(s) < length) /\ o.strip > length
    BY <1>1, <1>2, <1>5, <1>8, <2>1, <2>2, <2>3, <2>5 DEF Error, Breaks, length
  <2>6. CASE ~ (Len(s) < length) /\ ~ (o.strip > length)
    <3>1. one = [result |-> "frame", frame |-> SubSeq(s, o.strip + 1, length),
                 consumed |-> length]
      BY <1>5, <1>8, <2>1, <2>6
    <3>2. Cuts(o, whole, p, p + length)
      BY <1>1, <1>2, <2>1, <2>2, <2>3, <2>6 DEF Cuts, length
    <3>3. SubSeq(s, o.strip + 1, length) = SubSeq(whole, p + o.strip + 1, p + length)
      <4> DEFINE a == SubSeq(s, o.strip + 1, length)
                 b == SubSeq(whole, p + o.strip + 1, p + length)
                 m == o.strip + 1
      <4>1. ~ (p + length > Len(whole)) /\ p + length \in Int /\ p \in Nat
        BY <1>2, <2>1, <2>2, <2>6
      <4>2. /\ m \in Int /\ 1 <= m /\ m <= length + 1 /\ p + m \in Int
            /\ p + o.strip + 1 = p + m
        BY <1>1, <1>2, <2>1, <2>6
      <4>3. /\ length \in Int /\ p + length \in Int
            /\ length <= Len(s) /\ p + length <= Len(whole)
        BY <1>2, <2>1, <2>6, <4>1
      <4>4. (p + length) - (p + m) + 1 = length - m + 1
        BY <1>1, <1>2, <2>1
      <4>5. /\ m \in Int /\ 1 <= m /\ m <= length + 1 /\ p + m \in Int
            /\ length \in Int /\ p + length \in Int
            /\ length <= Len(s) /\ p + length <= Len(whole)
            /\ (p + length) - (p + m) + 1 = length - m + 1
            /\ p + o.strip + 1 = p + m
        BY <4>2, <4>3, <4>4
      <4> HIDE DEF m
      <4>6. \A i \in m .. length : s[i] \in Byte
        BY <1>2, <4>5, ElementOfSeq
      <4>7. \A i \in p + m .. p + length : whole[i] \in Byte
        BY <1>2, <4>5, ElementOfSeq
      <4>8. /\ a \in Seq(Byte) /\ Len(a) = length - m + 1
            /\ \A i \in 1 .. length - m + 1 : a[i] = s[m + i - 1]
        <5>1. /\ SubSeq(s, m, length) \in Seq(Byte)
              /\ Len(SubSeq(s, m, length)) = length - m + 1
              /\ \A i \in 1 .. length - m + 1 : SubSeq(s, m, length)[i] = s[m + i - 1]
          BY <4>5, <4>6, SubSeqProperties
        <5> QED BY <5>1 DEF m
      <4>9. /\ b \in Seq(Byte) /\ Len(b) = length - m + 1
            /\ \A i \in 1 .. length - m + 1 : b[i] = whole[p + m + i - 1]
        <5>1. /\ SubSeq(whole, p + m, p + length) \in Seq(Byte)
              /\ Len(SubSeq(whole, p + m, p + length)) = length - m + 1
              /\ \A i \in 1 .. length - m + 1 :
                    SubSeq(whole, p + m, p + length)[i] = whole[p + m + i - 1]
          BY <1>2, <4>5, <4>7, SubSeqProperties
        <5> QED BY <4>5, <5>1
      <4>10. ASSUME NEW i \in 1 .. length - m + 1 PROVE a[i] = b[i]
        <5>1. m + i - 1 \in 1 .. Len(s)
              /\ p + m + i - 1 = Len(whole) - Len(s) + (m + i - 1)
          BY <1>2, <4>5
        <5>2. s[m + i - 1] = whole[p + m + i - 1]
          BY <5>1 DEF IsTail
        <5> QED BY <4>8, <4>9, <5>2
      <4> HIDE DEF a, b
      <4>11. a = b
        BY <4>8, <4>9, <4>10, SeqEqual
      <4> QED BY <4>11 DEF a, b
    <3>4. /\ one.result = "frame" /\ one.consumed = length
          /\ one.frame = SubSeq(s, o.strip + 1, length)
      BY ONLY <3>1
    <3> QED BY <3>2, <3>3, <3>4
  <2> QED BY <2>4, <2>5, <2>6
<1> QED BY <1>1, <1>2, <1>6, <1>7, <1>8
----------------------------------------------------------------------------
(* Induction, in the form of a set of naturals that has a least element.   *)

LEMMA LeastNumber ==
    ASSUME NEW T \in SUBSET Nat, T # {}
    PROVE  \E m \in T : \A k \in T : m <= k
<1> DEFINE W == {0 .. k : k \in T}
           R == StrictSubsetOrdering(Nat)
<1>1. W \subseteq FiniteSubsetsOf(Nat) /\ W # {}
  <2>1. ASSUME NEW k \in T PROVE IsFiniteSet(0 .. k) /\ (0 .. k) \subseteq Nat
    BY FS_Interval
  <2> QED BY <2>1 DEF FiniteSubsetsOf
<1>2. PICK x \in W : \A y \in W : ~ (<<y, x>> \in R)
  <2> HIDE DEF W, R
  <2>1. IsWellFoundedOn(R, FiniteSubsetsOf(Nat))
    BY FS_StrictSubsetOrderingWellFounded DEF R
  <2> QED BY <1>1, <2>1, WFMin
<1>3. PICK m \in T : x = 0 .. m
    OBVIOUS
<1>4. ASSUME NEW k \in T, k < m PROVE FALSE
  <2>1. 0 .. k \in SUBSET Nat /\ 0 .. m \in SUBSET Nat /\ 0 .. k \subseteq 0 .. m
    BY <1>4
  <2>2. m \in 0 .. m /\ m \notin 0 .. k
    BY <1>4
  <2>3. <<0 .. k, x>> \in R
    BY <1>3, <2>1, <2>2 DEF StrictSubsetOrdering
  <2> QED BY <1>2, <2>3
<1> QED BY <1>4

LEMMA SetInduction ==
    ASSUME NEW T \in SUBSET Nat, 0 \in T, \A n \in T : n + 1 \in T
    PROVE  T = Nat
<1> SUFFICES ASSUME Nat \ T # {} PROVE FALSE
    OBVIOUS
<1>1. PICK m \in Nat \ T : \A k \in Nat \ T : m <= k
    BY LeastNumber
<1>2. m # 0
    OBVIOUS
<1>3. m - 1 \in T
    BY <1>1, <1>2
<1> QED BY <1>3
----------------------------------------------------------------------------
(* The recursive function in Reading exists, so that it satisfies its      *)
(* equation: it calls itself only further on in the stream.                *)

From(o, s, f, p) ==
    LET header == o.offset + o.width
        length == DeclaredLength(o, s, p)
        stop(ok) == [frames |-> <<>>, rest |-> p, ok |-> ok]
    IN IF p + header > Len(s) THEN stop(TRUE)
       ELSE IF \/ length \notin header .. Min2(o.max, MaxInt)
               \/ o.width = 8 /\ Declared(o, s, p) > MaxInt
               \/ p + length <= Len(s) /\ length < o.strip
       THEN stop(FALSE)
       ELSE IF p + length > Len(s) THEN stop(TRUE)
       ELSE [f[p + length] EXCEPT
                !.frames = <<SubSeq(s, p + o.strip + 1, p + length)>> \o @]

IsReading(o, s, f) == f = [p \in 0 .. Len(s) |-> From(o, s, f, p)]

LEMMA ReadingIs ==
    ASSUME NEW o, NEW s
    PROVE  Reading(o, s) = (CHOOSE f : IsReading(o, s, f))[0]
    BY DEF Reading, IsReading, From

LEMMA FromLooksAhead ==
    ASSUME NEW o \in Options, validateConfiguration(o), NEW s, Len(s) \in Nat,
           NEW p \in 0 .. Len(s), NEW f, NEW g, \A q \in p + 1 .. Len(s) : f[q] = g[q]
    PROVE  From(o, s, f, p) = From(o, s, g, p)
<1> DEFINE length == DeclaredLength(o, s, p)
           header == o.offset + o.width
<1>1. header \in Nat /\ header >= 1 /\ Min2(o.max, MaxInt) \in Int
  <2>1. o.width \in {1, 2, 3, 4, 8} /\ o.offset >= 0
    BY DEF validateConfiguration
  <2>2. o.offset \in Int /\ o.max \in Int /\ MaxInt \in Int
    BY OptionTypes, Ints
  <2> QED BY <2>1, <2>2 DEF Min2
<1>2. length \in header .. Min2(o.max, MaxInt) /\ ~ (p + length > Len(s))
          => p + length \in p + 1 .. Len(s)
    BY <1>1
<1>3. length \in header .. Min2(o.max, MaxInt) /\ ~ (p + length > Len(s))
          => f[p + length] = g[p + length]
    BY <1>2
<1> HIDE DEF length, header
<1> QED BY <1>3 DEF From, length, header

LEMMA ReadingExists ==
    ASSUME NEW o \in Options, validateConfiguration(o), NEW s, Len(s) \in Nat
    PROVE  \E f : IsReading(o, s, f)
<1> DEFINE N == Len(s)
           Good(g, k) == \A p \in 0 .. N : p + k > N => g[p] = From(o, s, g, p)
           T == {k \in Nat : \E g : g = [p \in 0 .. N |-> g[p]] /\ Good(g, k)}
<1>1. 0 \in T
  <2> DEFINE g == [p \in 0 .. N |-> 0]
  <2>1. g = [p \in 0 .. N |-> g[p]] /\ Good(g, 0)
    OBVIOUS
  <2> QED BY <2>1
<1>2. ASSUME NEW k \in T PROVE k + 1 \in T
  <2>1. PICK g : g = [p \in 0 .. N |-> g[p]] /\ Good(g, k)
    OBVIOUS
  <2> DEFINE h == [p \in 0 .. N |-> IF p + k = N THEN From(o, s, g, p) ELSE g[p]]
  <2>2. \A p \in 0 .. N : p + k > N => h[p] = g[p]
    OBVIOUS
  <2>3. ASSUME NEW p \in 0 .. N, p + (k + 1) > N PROVE h[p] = From(o, s, h, p)
    <3>1. \A q \in p + 1 .. N : h[q] = g[q]
      BY <2>2, <2>3
    <3>2. From(o, s, h, p) = From(o, s, g, p)
      <4> HIDE DEF h
      <4> QED BY <3>1, FromLooksAhead
    <3>3. h[p] = From(o, s, g, p)
      BY <2>1, <2>3
    <3> QED BY <3>2, <3>3
  <2>4. h = [p \in 0 .. N |-> h[p]]
    OBVIOUS
  <2>5. Good(h, k + 1)
    BY <2>3
  <2>6. k + 1 \in Nat
    OBVIOUS
  <2> HIDE DEF h, Good
  <2> QED BY <2>4, <2>5, <2>6
<1>3. N + 1 \in T
  <2> HIDE DEF T
  <2>1. T \in SUBSET Nat
    BY DEF T
  <2> QED BY <1>1, <1>2, <2>1, SetInduction
<1>4. PICK g : g = [p \in 0 .. N |-> g[p]] /\ Good(g, N + 1)
    BY <1>3
<1>5. \A p \in 0 .. N : g[p] = From(o, s, g, p)
    BY <1>4
<1>6. g = [p \in 0 .. N |-> From(o, s, g, p)]
    BY <1>4, <1>5
<1> QED BY <1>6 DEF IsReading

LEMMA ReadingEquation ==
    ASSUME NEW o \in Options, validateConfiguration(o), NEW s, Len(s) \in Nat
    PROVE  \E f : /\ Reading(o, s) = f[0]
                  /\ \A p \in 0 .. Len(s) : f[p] = From(o, s, f, p)
<1> DEFINE f == CHOOSE g : IsReading(o, s, g)
<1>1. IsReading(o, s, f)
    BY ReadingExists
<1>2. Reading(o, s) = f[0]
    BY ReadingIs
<1> HIDE DEF f
<1> QED BY <1>1, <1>2 DEF IsReading
----------------------------------------------------------------------------
(* The frames cut so far, as a chain of positions in the stream.           *)

Chain(o, s, fs, pos) ==
    \E cut \in [0 .. Len(fs) -> 0 .. Len(s)] :
        /\ cut[0] = 0 /\ cut[Len(fs)] = pos
        /\ \A i \in 1 .. Len(fs) :
              /\ Cuts(o, s, cut[i - 1], cut[i])
              /\ fs[i] = SubSeq(s, cut[i - 1] + o.strip + 1, cut[i])

Frames == Seq(Seq(Byte))

LEMMA ChainStarts ==
    ASSUME NEW o, NEW s, Len(s) \in Nat
    PROVE  Chain(o, s, <<>>, 0)
<1> DEFINE cut == [i \in 0 .. 0 |-> 0]
<1>1. Len(<<>>) = 0 /\ cut \in [0 .. 0 -> 0 .. Len(s)] /\ cut[0] = 0
    OBVIOUS
<1> HIDE DEF cut
<1> QED BY <1>1 DEF Chain

LEMMA ChainGrows ==
    ASSUME NEW o, NEW s \in Seq(Byte), NEW fs \in Frames, NEW p, NEW q \in 0 .. Len(s),
           Chain(o, s, fs, p), Cuts(o, s, p, q),
           NEW frame \in Seq(Byte), frame = SubSeq(s, p + o.strip + 1, q)
    PROVE  Chain(o, s, Append(fs, frame), q)
<1>1. PICK cut \in [0 .. Len(fs) -> 0 .. Len(s)] :
          /\ cut[0] = 0 /\ cut[Len(fs)] = p
          /\ \A i \in 1 .. Len(fs) :
                /\ Cuts(o, s, cut[i - 1], cut[i])
                /\ fs[i] = SubSeq(s, cut[i - 1] + o.strip + 1, cut[i])
    BY DEF Chain
<1> DEFINE gs == Append(fs, frame)
           new == [i \in 0 .. Len(fs) + 1 |-> IF i = Len(fs) + 1 THEN q ELSE cut[i]]
<1>2. /\ Len(fs) \in Nat /\ Len(gs) = Len(fs) + 1 /\ gs[Len(fs) + 1] = frame
      /\ \A i \in 1 .. Len(fs) : gs[i] = fs[i]
    BY AppendProperties, LenProperties, SMTT(60) DEF Frames
<1>3. new \in [0 .. Len(fs) + 1 -> 0 .. Len(s)] /\ new[0] = 0 /\ new[Len(fs) + 1] = q
    BY <1>1, <1>2
<1>4. \A i \in 0 .. Len(fs) : new[i] = cut[i]
    BY <1>2
<1>5. new[Len(fs)] = p
    BY <1>1, <1>2, <1>4
<1> HIDE DEF new, gs
<1>6. ASSUME NEW i \in 1 .. Len(fs) + 1
      PROVE  /\ Cuts(o, s, new[i - 1], new[i])
             /\ gs[i] = SubSeq(s, new[i - 1] + o.strip + 1, new[i])
  <2>1. CASE i \in 1 .. Len(fs)
    <3>1. new[i] = cut[i] /\ new[i - 1] = cut[i - 1] /\ gs[i] = fs[i]
      BY <1>2, <1>4, <2>1
    <3> QED BY <1>1, <2>1, <3>1
  <2>2. CASE i = Len(fs) + 1
    <3>1. i - 1 = Len(fs)
      BY <1>2, <2>2
    <3> QED BY <1>2, <1>3, <1>5, <2>2, <3>1
  <2>3. i \in 1 .. Len(fs) \/ i = Len(fs) + 1
    BY <1>2
  <2> QED BY <2>1, <2>2, <2>3
<1>7. Chain(o, s, gs, q)
    BY <1>2, <1>3, <1>6 DEF Chain
<1> QED BY <1>7 DEF gs

\* What is cut off a stream is cut off every longer one.
LEMMA CutsRemain ==
    ASSUME NEW o \in Options, validateConfiguration(o),
           NEW s \in Seq(Byte), NEW input \in Seq(Byte),
           NEW p \in Nat, NEW q \in 0 .. Len(s), Cuts(o, s, p, q)
    PROVE  /\ Cuts(o, s \o input, p, q)
           /\ SubSeq(s \o input, p + o.strip + 1, q) = SubSeq(s, p + o.strip + 1, q)
<1> DEFINE w == s \o input
           header == o.offset + o.width
           t == SubSeq(s, p + 1, Len(s))
<1>1. /\ Len(s) \in Nat /\ Len(input) \in Nat /\ Len(w) = Len(s) + Len(input)
      /\ \A i \in 1 .. Len(s) : w[i] = s[i]
    BY ConcatProperties, LenProperties
<1>2. /\ o.offset \in Nat /\ o.width \in {1, 2, 3, 4, 8} /\ o.strip \in Nat
      /\ o.byteOrder \in {"little", "big"} /\ o.adjustment \in Int /\ o.width \in Nat
    BY OptionTypes DEF validateConfiguration
<1>3. p + o.offset + o.width <= Len(s)
    BY DEF Cuts
<1>4. Declared(o, w, p) = Declared(o, s, p)
  <2>1. ASSUME NEW i \in 1 .. o.width
        PROVE  s[p + o.offset + i] \in Byte /\ w[p + o.offset + i] = s[p + o.offset + i]
    <3> HIDE DEF w
    <3>1. p + o.offset + i \in 1 .. Len(s)
      BY <1>1, <1>2, <1>3, SMTT(60)
    <3> QED BY <1>1, <3>1, ElementOfSeq
  <2>2. \A i \in 1 .. o.width :
            o.width + 1 - i \in 1 .. o.width /\ o.width + 1 - (o.width + 1 - i) = i
    BY <1>2
  <2> HIDE DEF w
  <2>3. PICK f : \A i \in 1 .. o.width :
            /\ f[i] \in Byte
            /\ s[p + o.offset + i] = IF o.byteOrder = "big" THEN f[i] ELSE f[o.width + 1 - i]
    <3> DEFINE g == [i \in 1 .. o.width |->
                        IF o.byteOrder = "big" THEN s[p + o.offset + i]
                        ELSE s[p + o.offset + (o.width + 1 - i)]]
    <3>1. \A i \in 1 .. o.width :
            /\ g[i] \in Byte
            /\ s[p + o.offset + i] = IF o.byteOrder = "big" THEN g[i] ELSE g[o.width + 1 - i]
      BY <2>1, <2>2
    <3> HIDE DEF g
    <3> QED BY <3>1
  <2>4. Declared(o, s, p) = Value(o.width, f)
    <3>1. ASSUME NEW z, \A i \in 1 .. o.width :
            /\ f[i] \in Byte
            /\ z[p + o.offset + i] = IF o.byteOrder = "big" THEN f[i] ELSE f[o.width + 1 - i]
          PROVE  Declared(o, z, p) = Value(o.width, f)
      BY <1>2, <3>1, DeclaredValue, SMTT(60)
    <3> QED BY <2>3, <3>1, Zenon
  <2>5. \A i \in 1 .. o.width :
            /\ f[i] \in Byte
            /\ w[p + o.offset + i] = IF o.byteOrder = "big" THEN f[i] ELSE f[o.width + 1 - i]
    BY <2>1, <2>3
  <2>6. Declared(o, w, p) = Value(o.width, f)
    BY <1>2, <2>5, DeclaredValue, SMTT(60)
  <2> QED BY <2>4, <2>6
<1>5. DeclaredLength(o, w, p) = DeclaredLength(o, s, p)
    BY <1>4 DEF DeclaredLength
<1> HIDE DEF w
<1>6. Cuts(o, w, p, q)
  <2>1. Len(s) <= Len(w) /\ Len(w) \in Nat /\ p + o.offset + o.width \in Nat
    BY <1>1, <1>2
  <2>2. p + o.offset + o.width <= Len(w) /\ q <= Len(w)
    BY <1>1, <1>3, <2>1
  <2> QED BY <1>4, <1>5, <2>2 DEF Cuts, Valid
<1>7. SubSeq(w, p + o.strip + 1, q) = SubSeq(s, p + o.strip + 1, q)
  <2> DEFINE m == p + o.strip + 1
             a == SubSeq(w, m, q)
             b == SubSeq(s, m, q)
  <2>1. m \in Int /\ 1 <= m /\ q \in Int /\ q <= Len(s)
    BY <1>1, <1>2
  <2> HIDE DEF m
  <2>2. \A i \in m .. q : w[i] = s[i] /\ s[i] \in Byte
    BY <1>1, <2>1, ElementOfSeq
  <2>3. /\ a \in Seq(Byte) /\ Len(a) = IF m <= q THEN q - m + 1 ELSE 0
        /\ \A i \in 1 .. q - m + 1 : a[i] = w[m + i - 1]
    BY <2>1, <2>2, SubSeqProperties, SMTT(60)
  <2>4. /\ b \in Seq(Byte) /\ Len(b) = IF m <= q THEN q - m + 1 ELSE 0
        /\ \A i \in 1 .. q - m + 1 : b[i] = s[m + i - 1]
    BY <2>1, <2>2, SubSeqProperties
  <2> HIDE DEF a, b
  <2>5. ASSUME NEW i \in 1 .. Len(a) PROVE a[i] = b[i]
    <3>1. m + i - 1 \in m .. q /\ i \in 1 .. q - m + 1
      BY <2>1, <2>3
    <3> QED BY <2>2, <2>3, <2>4, <3>1
  <2>6. a = b
    BY <2>3, <2>4, <2>5, SeqEqual
  <2> QED BY <2>6 DEF a, b, m
<1> QED BY <1>6, <1>7 DEF w

LEMMA ChainRemains ==
    ASSUME NEW o \in Options, validateConfiguration(o),
           NEW s \in Seq(Byte), NEW input \in Seq(Byte),
           NEW fs, Len(fs) \in Nat, NEW pos, Chain(o, s, fs, pos)
    PROVE  Chain(o, s \o input, fs, pos)
<1>1. PICK cut \in [0 .. Len(fs) -> 0 .. Len(s)] :
          /\ cut[0] = 0 /\ cut[Len(fs)] = pos
          /\ \A i \in 1 .. Len(fs) :
                /\ Cuts(o, s, cut[i - 1], cut[i])
                /\ fs[i] = SubSeq(s, cut[i - 1] + o.strip + 1, cut[i])
    BY DEF Chain
<1>2. ASSUME NEW i \in 1 .. Len(fs)
      PROVE  /\ Cuts(o, s \o input, cut[i - 1], cut[i])
             /\ fs[i] = SubSeq(s \o input, cut[i - 1] + o.strip + 1, cut[i])
  <2>1. cut[i - 1] \in Nat /\ cut[i] \in 0 .. Len(s)
    BY <1>1, LenProperties
  <2> QED BY <1>1, <2>1, CutsRemain
<1>3. cut \in [0 .. Len(fs) -> 0 .. Len(s \o input)]
  <2>1. Len(s) \in Nat /\ Len(input) \in Nat /\ Len(s \o input) = Len(s) + Len(input)
    BY ConcatProperties, LenProperties
  <2>2. 0 .. Len(s) \subseteq 0 .. Len(s \o input)
    BY <2>1
  <2> QED BY <1>1, <2>2
<1> QED BY <1>1, <1>2, <1>3 DEF Chain

LEMMA ConsSubSeq ==
    ASSUME NEW fs \in Frames, NEW k \in 1 .. Len(fs)
    PROVE  <<fs[k]>> \o SubSeq(fs, k + 1, Len(fs)) = SubSeq(fs, k, Len(fs))
<1> DEFINE n == Len(fs)
           a == SubSeq(fs, k + 1, n)
           b == SubSeq(fs, k, n)
           c == <<fs[k]>> \o a
           S == Seq(Byte)
<1>1. n \in Nat /\ k \in Int /\ k + 1 \in Int /\ 1 <= k /\ k <= n
    BY LenProperties DEF Frames
<1>2. \A i \in 1 .. n : fs[i] \in S
    BY ElementOfSeq DEF Frames
<1> HIDE DEF n, S
<1>3. \A i \in k .. n : fs[i] \in S
    BY <1>1, <1>2
<1>4. \A i \in k + 1 .. n : fs[i] \in S
    BY <1>1, <1>2
<1>5. /\ a \in Seq(S) /\ Len(a) = IF k + 1 <= n THEN n - (k + 1) + 1 ELSE 0
      /\ \A i \in 1 .. n - (k + 1) + 1 : a[i] = fs[(k + 1) + i - 1]
    BY <1>1, <1>4, SubSeqProperties
<1>6. /\ b \in Seq(S) /\ Len(b) = IF k <= n THEN n - k + 1 ELSE 0
      /\ \A i \in 1 .. n - k + 1 : b[i] = fs[k + i - 1]
    BY <1>1, <1>3, SubSeqProperties
<1>7. <<fs[k]>> \in Seq(S) /\ Len(<<fs[k]>>) = 1 /\ <<fs[k]>>[1] = fs[k]
    BY <1>1, <1>3
<1> HIDE DEF a, b
<1>8. /\ c \in Seq(S) /\ Len(c) = 1 + Len(a)
      /\ \A i \in 1 .. 1 + Len(a) : c[i] = IF i <= 1 THEN <<fs[k]>>[i] ELSE a[i - 1]
    BY <1>5, <1>7, ConcatProperties
<1> HIDE DEF c
<1>9. Len(a) = n - k /\ Len(c) = Len(b)
    BY <1>1, <1>5, <1>6, <1>8
<1>10. ASSUME NEW i \in 1 .. Len(c) PROVE c[i] = b[i]
  <2>1. i \in 1 .. n - k + 1 /\ i \in 1 .. 1 + Len(a)
    BY <1>1, <1>8, <1>9
  <2>2. CASE i = 1
    BY <1>1, <1>6, <1>7, <1>8, <2>1, <2>2
  <2>3. CASE i # 1
    <3>1. i - 1 \in 1 .. n - (k + 1) + 1 /\ (k + 1) + (i - 1) - 1 = k + i - 1 /\ ~ (i <= 1)
      BY <1>1, <2>1, <2>3
    <3> QED BY <1>5, <1>6, <1>8, <2>1, <3>1
  <2> QED BY <2>2, <2>3
<1>11. c = b
    BY <1>6, <1>8, <1>9, <1>10, SeqEqual
<1> QED BY <1>11 DEF a, b, c, n

LEMMA WholeSubSeq ==
    ASSUME NEW fs \in Frames
    PROVE  SubSeq(fs, 0 + 1, Len(fs)) = fs
<1> DEFINE n == Len(fs)
           b == SubSeq(fs, 1, n)
           S == Seq(Byte)
<1>1. n \in Nat /\ \A i \in 1 .. n : fs[i] \in S
    BY LenProperties, ElementOfSeq DEF Frames
<1> HIDE DEF n, S
<1>2. /\ b \in Seq(S) /\ Len(b) = IF 1 <= n THEN n - 1 + 1 ELSE 0
      /\ \A i \in 1 .. n - 1 + 1 : b[i] = fs[1 + i - 1]
    BY <1>1, SubSeqProperties
<1> HIDE DEF b
<1>3. Len(b) = n /\ \A i \in 1 .. n : b[i] = fs[i]
    BY <1>1, <1>2
<1>4. b = fs
    BY <1>2, <1>3, SeqEqual DEF n, S, Frames
<1> QED BY <1>4 DEF b, n

\* What a field of the stream declares is an integer.
DeclaredInt(o, s, p) == Declared(o, s, p) \in Int
LEMMA DeclaredIsInt ==
    ASSUME NEW o \in Options, validateConfiguration(o), NEW s \in Seq(Byte),
           NEW p \in 0 .. Len(s), p + o.offset + o.width <= Len(s)
    PROVE  DeclaredInt(o, s, p)
<1> DEFINE t == SubSeq(s, p + 1, Len(s))
<1>1. Len(s) \in Nat /\ o.offset \in Nat /\ o.width \in Nat
    BY LenProperties, OptionTypes DEF validateConfiguration
<1>2. IsTail(s, s)
    BY <1>1 DEF IsTail
<1>3. t \in Seq(Byte) /\ Len(t) = Len(s) - p /\ IsTail(t, s)
    BY <1>2, CutTail
<1> HIDE DEF t
<1>4. o.offset + o.width <= Len(t) /\ p = Len(s) - Len(t)
    BY <1>1, <1>3
<1>5. FieldValue(o, t) = Declared(o, s, p)
    BY <1>3, <1>4, FieldAgrees
<1> QED BY <1>3, <1>4, <1>5, FieldIsInt DEF DeclaredInt

Prepend(x, r) == [r EXCEPT !.frames = x \o @]

LEMMA PrependFrame ==
    ASSUME NEW a, NEW b, NEW c \in BOOLEAN, NEW x, NEW r,
           r = [frames |-> a, rest |-> b, ok |-> c]
    PROVE  Prepend(x, r) = [frames |-> x \o a, rest |-> b, ok |-> c]
<1> DEFINE y == x \o a
<1>1. r.frames = a
    OBVIOUS
<1>2. x \o r.frames = y
    BY <1>1
<1>3. [r EXCEPT !.frames = x \o @] = [r EXCEPT !.frames = y]
    BY ONLY <1>2
<1> HIDE DEF y
<1>4. [r EXCEPT !.frames = y] = [frames |-> y, rest |-> b, ok |-> c]
    OBVIOUS
<1> QED BY ONLY <1>3, <1>4 DEF Prepend, y

LEMMA FrontOfConcat ==
    ASSUME NEW a \in Frames, NEW b \in Frames
    PROVE  a = SubSeq(a \o b, 1, Len(a))
<1> DEFINE c == a \o b
           S == Seq(Byte)
           n == Len(a)
           t == SubSeq(c, 1, n)
<1>1. n \in Nat /\ Len(b) \in Nat /\ \A i \in 1 .. n : a[i] \in S
    BY LenProperties, ElementOfSeq DEF Frames
<1>2. \A i \in 1 .. n : c[i] = a[i]
  <2>1. \A i \in 1 .. n + Len(b) : c[i] = IF i <= n THEN a[i] ELSE b[i - n]
    BY ConcatProperties DEF Frames
  <2> QED BY <1>1, <2>1
<1> HIDE DEF c, S
<1>3. \A i \in 1 .. n : c[i] \in S
    BY <1>1, <1>2
<1> HIDE DEF n
<1>4. /\ t \in Seq(S) /\ Len(t) = IF 1 <= n THEN n - 1 + 1 ELSE 0
      /\ \A i \in 1 .. n - 1 + 1 : t[i] = c[1 + i - 1]
    BY <1>1, <1>3, SubSeqProperties
<1> HIDE DEF t
<1>5. Len(t) = n /\ \A i \in 1 .. n : t[i] = a[i]
    BY <1>1, <1>2, <1>4
<1>6. t = a
    BY <1>4, <1>5, SeqEqual DEF n, S, Frames
<1> QED BY <1>6 DEF t, c, n

\* Reading follows the chain to its end, where it stops.
LEMMA ReadingFollows ==
    ASSUME NEW o \in Options, validateConfiguration(o),
           NEW s \in Seq(Byte), NEW fs \in Frames, NEW pos \in 0 .. Len(s),
           Chain(o, s, fs, pos), NEW ok \in BOOLEAN,
           ok => Waits(o, s, pos), ~ ok => Breaks(o, s, pos)
    PROVE  Reading(o, s) = [frames |-> fs, rest |-> pos, ok |-> ok]
<1> DEFINE N == Len(fs)
           header == o.offset + o.width
           Rest(k) == [frames |-> SubSeq(fs, k + 1, N), rest |-> pos, ok |-> ok]
<1>1. PICK cut \in [0 .. N -> 0 .. Len(s)] :
          /\ cut[0] = 0 /\ cut[N] = pos
          /\ \A i \in 1 .. N :
                /\ Cuts(o, s, cut[i - 1], cut[i])
                /\ fs[i] = SubSeq(s, cut[i - 1] + o.strip + 1, cut[i])
    BY DEF Chain
<1>2. PICK f : /\ Reading(o, s) = f[0]
               /\ \A p \in 0 .. Len(s) : f[p] = From(o, s, f, p)
    BY ReadingEquation, LenProperties
<1>3. N \in Nat /\ Len(s) \in Nat /\ \A i \in 1 .. N : fs[i] \in Seq(Byte)
    BY LenProperties, ElementOfSeq DEF Frames
<1>4. /\ o.offset \in Nat /\ o.width \in Nat /\ header \in Nat /\ o.strip \in Int
      /\ Min2(o.max, MaxInt) \in Int
  <2>1. o.width \in {1, 2, 3, 4, 8} /\ o.offset >= 0
    BY DEF validateConfiguration
  <2>2. Min2(o.max, MaxInt) \in Int
    BY OptionTypes, Ints DEF Min2
  <2> QED BY <2>1, <2>2, OptionTypes
<1> HIDE DEF N
<1>5. f[cut[N]] = Rest(N)
  <2>1. SubSeq(fs, N + 1, N) = <<>>
    BY <1>3, SubSeqEmpty
  <2>2. f[pos] = From(o, s, f, pos)
    BY <1>2
  <2>3. From(o, s, f, pos) = [frames |-> <<>>, rest |-> pos, ok |-> ok]
    <3> DEFINE length == DeclaredLength(o, s, pos)
    <3>1. pos \in Int /\ pos + header = pos + o.offset + o.width /\ pos + header \in Int
      BY <1>3, <1>4
    <3>2. pos + header <= Len(s) => Declared(o, s, pos) \in Int /\ length \in Int
      <4> SUFFICES ASSUME pos + header <= Len(s)
                   PROVE  Declared(o, s, pos) \in Int /\ length \in Int
        OBVIOUS
      <4>1. Declared(o, s, pos) \in Int
        BY <3>1, DeclaredIsInt DEF DeclaredInt
      <4> QED BY <1>4, <4>1, OptionTypes, SMTT(60) DEF DeclaredLength
    <3>3. CASE pos + header > Len(s)
      <4>1. ok = TRUE
        BY <1>3, <3>1, <3>3 DEF Breaks
      <4> QED BY <3>3, <4>1 DEF From
    <3>4. CASE pos + header <= Len(s)
      <4>1. ok <=> Valid(o, s, pos) /\ pos + length > Len(s)
        BY <1>3, <1>4, <3>1, <3>2, <3>4, SMTT(60) DEF Waits, Breaks
      <4>2. Valid(o, s, pos) <=> /\ length \in header .. Min2(o.max, MaxInt)
                                 /\ ~ (o.width = 8 /\ Declared(o, s, pos) > MaxInt)
        BY <3>2, <3>4, Ints DEF Valid
      <4>3. ~ (pos + header > Len(s))
        BY <1>3, <3>1, <3>4
      <4>4. ~ ok => \/ ~ Valid(o, s, pos)
                    \/ pos + length <= Len(s) /\ length < o.strip
        BY DEF Breaks
      <4>5. ok => ~ (pos + length <= Len(s))
        BY <1>3, <3>1, <3>2, <3>4, <4>1
      <4> HIDE DEF length, header
      <4> QED BY <4>1, <4>2, <4>3, <4>4, <4>5 DEF From, length, header
    <3>5. pos + header > Len(s) \/ pos + header <= Len(s)
      BY <1>3, <3>1
    <3> QED BY <3>3, <3>4, <3>5
  <2> QED BY <1>1, <2>1, <2>2, <2>3
<1>6. ASSUME NEW k \in 1 .. N, f[cut[k]] = Rest(k)
      PROVE  f[cut[k - 1]] = Rest(k - 1)
  <2> DEFINE p == cut[k - 1]
             q == cut[k]
             length == DeclaredLength(o, s, p)
  <2>1. p \in 0 .. Len(s) /\ Cuts(o, s, p, q) /\ fs[k] = SubSeq(s, p + o.strip + 1, q)
    BY <1>1, <1>3
  <2>2. f[p] = From(o, s, f, p)
    BY <1>2, <2>1
  <2> HIDE DEF p, q
  <2>3. From(o, s, f, p) =
          [f[q] EXCEPT !.frames = <<SubSeq(s, p + o.strip + 1, q)>> \o @]
    <3>1. /\ length \in header .. Min2(o.max, MaxInt) /\ length \in Int
          /\ ~ (p + header > Len(s)) /\ ~ (p + length > Len(s)) /\ ~ (length < o.strip)
          /\ q = p + length
          /\ ~ (o.width = 8 /\ Declared(o, s, p) > MaxInt)
      <4>1. /\ length \in header .. Min2(o.max, MaxInt)
            /\ o.width = 8 => Declared(o, s, p) <= MaxInt
            /\ p + o.offset + o.width <= Len(s) /\ q = p + length /\ q <= Len(s)
            /\ o.strip <= length
        BY <2>1 DEF Cuts, Valid
      <4>2. length \in Int /\ p \in Int
        BY <1>3, <1>4, <2>1, <4>1
      <4>3. o.width = 8 => Declared(o, s, p) \in Int
        <5>1. DeclaredInt(o, s, p)
          BY <1>3, <2>1, <4>1, DeclaredIsInt
        <5> QED BY <5>1 DEF DeclaredInt
      <4> HIDE DEF length
      <4>4. ~ (p + header > Len(s))
        BY <1>3, <1>4, <4>1, <4>2
      <4>5. ~ (p + length > Len(s)) /\ ~ (length < o.strip)
        BY <1>3, <1>4, <4>1, <4>2
      <4>6. ~ (o.width = 8 /\ Declared(o, s, p) > MaxInt)
        BY <4>1, <4>3, Ints
      <4> QED BY <4>1, <4>2, <4>4, <4>5, <4>6
    <3> QED BY <3>1 DEF From
  <2>4. [f[q] EXCEPT !.frames = <<SubSeq(s, p + o.strip + 1, q)>> \o @]
          = [frames |-> <<fs[k]>> \o SubSeq(fs, k + 1, N), rest |-> pos, ok |-> ok]
    <3>2. f[q] = [frames |-> SubSeq(fs, k + 1, N), rest |-> pos, ok |-> ok]
      BY <1>6 DEF q
    <3> DEFINE r == f[q]
               x == <<SubSeq(s, p + o.strip + 1, q)>>
               a == SubSeq(fs, k + 1, N)
    <3>3. x = <<fs[k]>> /\ r = [frames |-> a, rest |-> pos, ok |-> ok]
      BY <2>1, <3>2
    <3> HIDE DEF r, x, a
    <3>4. Prepend(x, r) = [frames |-> x \o a, rest |-> pos, ok |-> ok]
      BY <3>3, PrependFrame
    <3> QED BY ONLY <3>3, <3>4 DEF Prepend, r, x, a
  <2>5. <<fs[k]>> \o SubSeq(fs, k + 1, N) = SubSeq(fs, k, N)
    BY <1>3, ConsSubSeq DEF N
  <2>6. k - 1 + 1 = k
    OBVIOUS
  <2> QED BY <2>2, <2>3, <2>4, <2>5, <2>6 DEF p
<1>7. f[cut[0]] = Rest(0)
  <2> DEFINE T == {j \in Nat : j <= N => f[cut[N - j]] = Rest(N - j)}
  <2>1. 0 \in T
    BY <1>3, <1>5
  <2>2. ASSUME NEW j \in T PROVE j + 1 \in T
    <3>1. CASE j + 1 <= N
      <4>1. N - j \in 1 .. N /\ (N - j) - 1 = N - (j + 1) /\ j <= N
        BY <1>3, <3>1
      <4>2. f[cut[N - j]] = Rest(N - j)
        BY <4>1
      <4> HIDE DEF Rest
      <4>3. f[cut[N - (j + 1)]] = Rest(N - (j + 1))
        BY <1>6, <4>1, <4>2
      <4> QED BY <4>3
    <3>2. CASE ~ (j + 1 <= N)
      BY <3>2
    <3> QED BY <3>1, <3>2
  <2>3. N \in T
    <3> HIDE DEF T
    <3>1. T \in SUBSET Nat
      BY DEF T
    <3> QED BY <1>3, <2>1, <2>2, <3>1, SetInduction
  <2>4. N - N = 0 /\ N <= N
    BY <1>3
  <2> HIDE DEF Rest
  <2> QED BY <2>3, <2>4
<1>8. SubSeq(fs, 0 + 1, N) = fs
    BY <1>3, WholeSubSeq DEF N
<1> QED BY <1>1, <1>2, <1>7, <1>8
----------------------------------------------------------------------------
(* The decoder follows the chain, whatever the cuts into inputs.           *)

Position == Len(fed) - Len(bytes)

ParseInv ==
    /\ phase = "new" => fed = <<>> /\ bytes = <<>> /\ out = <<>>
    /\ phase = "idle" => Chain(d, fed, out, Position)
    /\ phase = "decoding" => Chain(d, fed, out \o frames, Position)
    /\ phase = "failed" => \E pos \in 0 .. Len(fed) :
                              Chain(d, fed, out \o frames, pos) /\ Breaks(d, fed, pos)

LEMMA FittingFrames ==
    ASSUME NEW o, NEW fs \in Seq(Fitting(o))
    PROVE  fs \in Frames
    BY SeqMonotonic DEF Fitting, Frames

LEMMA NextParseInv == IInv /\ ParseInv /\ [Next]_decoderVars => ParseInv'
<1> SUFFICES ASSUME IInv, ParseInv, [Next]_decoderVars PROVE ParseInv'
    OBVIOUS
<1>1. /\ d \in Options /\ fed \in Seq(Byte) /\ bytes \in Seq(Byte)
      /\ out \in Frames /\ frames \in Frames
      /\ Len(fed) \in Nat /\ Len(bytes) \in Nat
    BY FittingFrames, LenProperties DEF IInv, TypeInv, FitInv
<1>2. CASE NewFrameDecoder
  <2>1. /\ UNCHANGED <<d, fed, bytes, frames, out>> /\ phase' \in {"idle", "rejected"}
        /\ fed = <<>> /\ bytes = <<>> /\ out = <<>>
    BY <1>2 DEF NewFrameDecoder, ParseInv
  <2>2. Chain(d, <<>>, <<>>, 0)
    BY ChainStarts
  <2>3. Position' = 0
    BY <2>1 DEF Position
  <2> QED BY <2>1, <2>2, <2>3 DEF ParseInv
<1>3. ASSUME NEW input \in Inputs, DecodeBegin(input) PROVE ParseInv'
  <2>1. /\ input \in Seq(Byte) /\ Len(input) \in Nat
        /\ phase' = "decoding" /\ d' = d /\ frames' = <<>>
        /\ bytes' = bytes \o input /\ Len(bytes') = Len(bytes) + Len(input)
    BY <1>1, <1>3, InputsAreBytes, ConcatProperties, LenProperties DEF DecodeBegin
  <2>2. CASE phase = "idle"
    <3>1. fed' = fed \o input /\ out' = out /\ Len(fed') = Len(fed) + Len(input)
      BY <1>1, <1>3, <2>1, <2>2, ConcatProperties DEF DecodeBegin
    <3>2. validateConfiguration(d) /\ Chain(d, fed, out, Position)
      BY <2>2 DEF IInv, AcceptInv, ParseInv
    <3>3. Chain(d, fed \o input, out, Position)
      BY <1>1, <2>1, <3>2, ChainRemains, LenProperties DEF Frames
    <3>4. Position' = Position
      BY <1>1, <2>1, <3>1 DEF Position
    <3>5. out \o <<>> = out
      BY <1>1, ConcatEmptySeq DEF Frames
    <3> QED BY <2>1, <3>1, <3>3, <3>4, <3>5 DEF ParseInv
  <2>3. CASE phase = "failed"
    <3>1. fed' = <<>> \o input /\ out' = <<>> /\ bytes = <<>>
      BY <1>3, <2>3 DEF DecodeBegin, IInv, TailInv
    <3>2. fed' = input /\ bytes' = input
      BY <2>1, <3>1, ConcatEmptySeq
    <3>3. Chain(d, input, <<>>, 0)
      BY <2>1, ChainStarts
    <3>4. Position' = 0
      BY <2>1, <3>2 DEF Position
    <3>5. <<>> \o <<>> = <<>>
      BY EmptySeq, ConcatEmptySeq
    <3> QED BY <2>1, <3>1, <3>2, <3>3, <3>4, <3>5 DEF ParseInv
  <2> QED BY <1>3, <2>2, <2>3 DEF DecodeBegin
<1>4. CASE DecodeFrame
  <2> DEFINE one == decodeOne(d, bytes)
             all == out \o frames
  <2>1. /\ validateConfiguration(d) /\ IsTail(bytes, fed) /\ Chain(d, fed, all, Position)
        /\ all \in Frames
    BY <1>1, <1>4, ConcatProperties
       DEF DecodeFrame, IInv, AcceptInv, TailInv, ParseInv, Frames
  <2>2. /\ one.result = "frame" /\ frames' = Append(frames, one.frame)
        /\ bytes' = SubSeq(bytes, one.consumed + 1, Len(bytes))
        /\ UNCHANGED <<d, phase, fed, out>> /\ phase = "decoding"
    BY <1>4 DEF DecodeFrame
  <2>3. /\ Cuts(d, fed, Position, Position + one.consumed)
        /\ one.frame = SubSeq(fed, Position + d.strip + 1, Position + one.consumed)
    BY <1>1, <2>1, <2>2, OneAgrees, SMTT(60) DEF Position
  <2>4. one.consumed \in d.offset + d.width .. Len(bytes) /\ one.frame \in Fitting(d)
    BY <1>1, <2>1, <2>2, DecodesOne
  <2> HIDE DEF one, all
  <2>5. one.consumed \in 0 .. Len(bytes) /\ one.frame \in Seq(Byte)
    <3>1. d.offset \in Nat /\ d.width \in Nat
      BY <1>1, <2>1, OptionTypes DEF validateConfiguration
    <3> QED BY <1>1, <2>4, <3>1 DEF Fitting
  <2>6. Len(bytes') = Len(bytes) - one.consumed
    BY <1>1, <2>1, <2>2, <2>5, CutTail
  <2>7. Position' = Position + one.consumed /\ Position + one.consumed \in 0 .. Len(fed)
    <3>1. Len(bytes) <= Len(fed) /\ Len(fed') = Len(fed) /\ one.consumed \in Int
      BY <2>1, <2>2, <2>5 DEF IsTail
    <3>2. Position = Len(fed) - Len(bytes) /\ Position' = Len(fed') - Len(bytes')
      BY DEF Position
    <3>3. Position' = Position + one.consumed
      BY <1>1, <2>6, <3>1, <3>2
    <3>4. Position + one.consumed \in 0 .. Len(fed)
      BY <1>1, <2>5, <3>1, <3>2
    <3> QED BY <3>3, <3>4
  <2>8. Chain(d, fed, Append(all, one.frame), Position + one.consumed)
    BY <1>1, <2>1, <2>3, <2>5, <2>7, ChainGrows
  <2>9. Append(all, one.frame) = out \o frames'
    <3> DEFINE e == <<one.frame>>
    <3>1. Append(all, one.frame) = (out \o frames) \o e /\ frames' = frames \o e
      BY <1>1, <2>1, <2>2, <2>5, AppendIsConcat DEF all, Frames
    <3>2. e \in Seq(Seq(Byte))
      BY <2>5
    <3> HIDE DEF e
    <3>3. (out \o frames) \o e = out \o (frames \o e)
      BY <1>1, <3>2, ConcatAssociative, SMTT(60) DEF Frames
    <3> QED BY <3>1, <3>3
  <2> QED BY <2>2, <2>7, <2>8, <2>9 DEF ParseInv
<1>5. CASE DecodeReturns
  <2>1. /\ out' = out \o frames /\ UNCHANGED <<d, fed, bytes, frames>>
        /\ phase = "decoding" /\ phase' = "idle"
    BY <1>5 DEF DecodeReturns
  <2> QED BY <2>1 DEF ParseInv, Position
<1>6. CASE DecodeFails
  <2>1. /\ UNCHANGED <<d, fed, frames, out>> /\ phase = "decoding" /\ phase' = "failed"
        /\ decodeOne(d, bytes).result = "error"
    BY <1>6 DEF DecodeFails
  <2>2. /\ validateConfiguration(d) /\ IsTail(bytes, fed)
        /\ Chain(d, fed, out \o frames, Position)
    BY <2>1 DEF IInv, AcceptInv, TailInv, ParseInv
  <2>3. Breaks(d, fed, Position)
    BY <1>1, <2>1, <2>2, OneAgrees DEF Position
  <2>4. Position \in 0 .. Len(fed)
    BY <1>1, <2>2 DEF Position, IsTail
  <2>5. \E pos \in 0 .. Len(fed) : Chain(d, fed, out \o frames, pos) /\ Breaks(d, fed, pos)
    BY <2>2, <2>3, <2>4
  <2> QED BY <2>1, <2>5 DEF ParseInv
<1>7. CASE UNCHANGED decoderVars
    BY <1>7 DEF ParseInv, Position
<1> QED BY <1>2, <1>3, <1>4, <1>5, <1>6, <1>7 DEF Next

LEMMA ParseImplies == IInv /\ ParseInv => StreamDecoding
<1> SUFFICES ASSUME IInv, ParseInv PROVE StreamDecoding
    OBVIOUS
<1>1. /\ d \in Options /\ fed \in Seq(Byte) /\ bytes \in Seq(Byte)
      /\ out \in Frames /\ frames \in Frames /\ out \o frames \in Frames
      /\ Len(fed) \in Nat /\ Len(bytes) \in Nat
    BY FittingFrames, ConcatProperties, LenProperties DEF IInv, TypeInv, FitInv, Frames
<1>2. ASSUME phase = "idle"
      PROVE  /\ Reading(d, fed).ok /\ out = Reading(d, fed).frames
             /\ bytes = SubSeq(fed, Reading(d, fed).rest + 1, Len(fed))
  <2>1. /\ validateConfiguration(d) /\ IsTail(bytes, fed) /\ Chain(d, fed, out, Position)
    BY <1>2 DEF IInv, AcceptInv, TailInv, ParseInv
  <2>2. decodeOne(d, bytes).result = "incomplete"
    <3>1. CASE bytes = <<>>
      <4>1. Len(bytes) < lengthFieldEndOffset(d)
        BY <1>1, <2>1, <3>1, HeaderExact, OptionTypes DEF validateConfiguration
      <4> QED BY <4>1 DEF decodeOne, Incomplete
    <3> QED BY <1>2, <3>1 DEF IInv, RestInv
  <2>3. Waits(d, fed, Position) /\ Position \in 0 .. Len(fed)
    BY <1>1, <2>1, <2>2, OneAgrees DEF Position, IsTail
  <2>4. Reading(d, fed) = [frames |-> out, rest |-> Position, ok |-> TRUE]
    BY <1>1, <2>1, <2>3, ReadingFollows
  <2>5. bytes = SubSeq(fed, Position + 1, Len(fed))
    BY <1>1, <2>1, HeldIsSubSeq DEF Position
  <2> DEFINE r == Reading(d, fed)
  <2>6. r.ok /\ r.frames = out /\ r.rest = Position
    BY ONLY <2>4
  <2> HIDE DEF r
  <2> QED BY ONLY <2>5, <2>6 DEF r
<1>3. ASSUME phase = "failed"
      PROVE  /\ ~ Reading(d, fed).ok
             /\ out = SubSeq(Reading(d, fed).frames, 1, Len(out))
             /\ bytes = <<>>
  <2>1. PICK pos \in 0 .. Len(fed) :
            Chain(d, fed, out \o frames, pos) /\ Breaks(d, fed, pos)
    BY <1>3 DEF ParseInv
  <2>2. validateConfiguration(d) /\ bytes = <<>>
    BY <1>3 DEF IInv, AcceptInv, TailInv
  <2>3. Reading(d, fed) = [frames |-> out \o frames, rest |-> pos, ok |-> FALSE]
    BY <1>1, <2>1, <2>2, ReadingFollows
  <2>4. out = SubSeq(out \o frames, 1, Len(out))
    BY <1>1, FrontOfConcat
  <2> QED BY <2>2, <2>3, <2>4
<1> QED BY <1>2, <1>3 DEF StreamDecoding

\* Decode returns the frames of the stream and keeps its unfinished end, however
\* the stream was cut into inputs, and it fails only on a malformed stream; for
\* every size of a byte, all options and every stream (frame_decoder.go, Decode
\* and decodeOne).
THEOREM DecodesTheStream == Spec => []StreamDecoding
<1>1. Init => ParseInv
    BY DEF Init, ParseInv
<1> QED BY <1>1, Inductive, NextParseInv, ParseImplies, PTL DEF Spec
=============================================================================
