------------------------ MODULE MessageStreamProofs -------------------------
(***************************************************************************)
(* Proofs about MessageStream, for every size of a byte, any messages, any *)
(* short writes and failures of the writer and any cuts by the reader: the *)
(* reader hands over what was sent, in order, and the way in which it ends *)
(* tells what happened on the wire.                                        *)
(***************************************************************************)
EXTENDS MessageStream, FrameDecoderProofs
----------------------------------------------------------------------------
(* A number is put together from the digits that PutUint32 takes of it.    *)

LEMMA Division ==
    ASSUME NEW n \in Nat, NEW b \in Nat \ {0}
    PROVE  /\ n \div b \in Nat /\ n % b \in 0 .. b - 1
           /\ n = (n \div b) * b + (n % b)
    OBVIOUS

\* Quotient and remainder are unique.
LEMMA Quotient ==
    ASSUME NEW n \in Nat, NEW b \in Nat \ {0}, NEW q \in Nat, NEW r \in 0 .. b - 1,
           n = q * b + r
    PROVE  n \div b = q
<1> DEFINE p == n \div b
           s == n % b
<1>1. p \in Nat /\ s \in 0 .. b - 1 /\ n = p * b + s
    BY Division
<1> HIDE DEF p, s
<1>2. (p - q) * b = r - s
    BY <1>1
<1>3. r - s < b /\ s - r < b
    BY <1>1
<1>4. CASE p > q
  <2>1. (p - q) * b >= b
    BY <1>1, <1>4
  <2> QED BY <1>1, <1>2, <1>3, <2>1
<1>5. CASE p < q
  <2>1. (q - p) * b >= b /\ (q - p) * b = -((p - q) * b)
    BY <1>1, <1>5
  <2> QED BY <1>1, <1>2, <1>3, <2>1
<1> QED BY <1>1, <1>4, <1>5 DEF p

LEMMA QuotientOfQuotient ==
    ASSUME NEW n \in Nat, NEW a \in Nat \ {0}, NEW b \in Nat \ {0}
    PROVE  n \div (a * b) = (n \div a) \div b
<1> DEFINE m == n \div a
           q == m \div b
           r == n % a
           s == m % b
<1>1. m \in Nat /\ r \in 0 .. a - 1 /\ n = m * a + r
    BY Division
<1> HIDE DEF m
<1>2. q \in Nat /\ s \in 0 .. b - 1 /\ m = q * b + s
    BY <1>1, Division
<1> HIDE DEF q, r, s
<1>3. n = q * (a * b) + (s * a + r)
    BY <1>1, <1>2
<1>4. s * a + r \in 0 .. b * a - 1
    BY <1>1, <1>2, TwoDigits
<1>5. a * b \in Nat \ {0} /\ a * b = b * a
    OBVIOUS
<1>6. s * a + r \in 0 .. a * b - 1
    BY <1>4, <1>5
<1> QED BY <1>2, <1>3, <1>5, <1>6, Quotient DEF m, q

\* The remainder of a number below the base.
LEMMA FourthDigit ==
    ASSUME NEW n \in 0 .. Base4 - 1
    PROVE  n \div (Base2 * Base) \in 0 .. Base - 1
<1> DEFINE b == Base2 * Base
           q == n \div b
           r == n % b
<1>1. b \in Nat \ {0} /\ Base \in Nat /\ n \in Nat /\ Base4 \in Nat
    BY Words
<1>2. Base4 = b * Base
    BY Words DEF Base4, Base2
<1> HIDE DEF b
<1>3. q \in Nat /\ r \in 0 .. b - 1 /\ n = q * b + r
    BY <1>1, Division
<1> HIDE DEF q, r
<1>4. CASE q >= Base
  <2>1. q * b >= Base * b /\ q * b \in Nat /\ Base * b = b * Base
    BY <1>1, <1>3, <1>4
  <2> QED BY <1>1, <1>2, <1>3, <2>1
<1> QED BY <1>1, <1>3, <1>4 DEF q, b

\* Reading the four digits, the last one first, gives the number again.
LEMMA DigitsOfNumber ==
    ASSUME NEW n \in 0 .. MaxUint32, NEW f,
           \A i \in 1 .. 4 : f[i] = PutUint32(n)[5 - i]
    PROVE  Uint32(f, 1) = n /\ \A i \in 1 .. 4 : PutUint32(n)[i] \in Byte
<1> DEFINE q1 == n \div Base
           q2 == n \div Base2
           q3 == n \div (Base2 * Base)
           r0 == n % Base
           r1 == q1 % Base
           r2 == q2 % Base
<1>1. n \in Nat /\ n \in 0 .. Base4 - 1 /\ Base \in Nat \ {0} /\ Base2 \in Nat \ {0}
    BY Words DEF MaxUint32
<1>2. q1 \in Nat /\ r0 \in 0 .. Base - 1 /\ n = q1 * Base + r0
    BY <1>1, Division
<1>3. q2 = q1 \div Base
    BY <1>1, QuotientOfQuotient DEF Base2
<1>4. q3 = q2 \div Base
    BY <1>1, QuotientOfQuotient
<1>5. q3 \in 0 .. Base - 1
    BY <1>1, FourthDigit
<1>6. q3 % Base = q3
    BY <1>1, <1>5, SmallRemainder
<1>7. /\ f[4] = r0 /\ f[3] = r1 /\ f[2] = r2 /\ f[1] = q3
      /\ PutUint32(n) = <<r0, r1, r2, q3>>
    BY <1>6 DEF PutUint32
<1> HIDE DEF q1
<1>8. q2 \in Nat /\ r1 \in 0 .. Base - 1 /\ q1 = q2 * Base + r1
    BY <1>1, <1>2, <1>3, Division
<1> HIDE DEF q2
<1>9. r2 \in 0 .. Base - 1 /\ q2 = q3 * Base + r2
    BY <1>1, <1>4, <1>8, Division
<1> HIDE DEF q3, r0, r1, r2
<1>10. n = ((q3 * Base + r2) * Base + r1) * Base + r0
    BY <1>2, <1>8, <1>9
<1>11. (q3 * Base + r2) * Base2 + (r1 * Base + r0) = n
    BY <1>1, <1>2, <1>5, <1>8, <1>9, <1>10 DEF Base2
<1>12. Uint32(f, 1) = (f[1] * Base + f[2]) * Base2 + (f[3] * Base + f[4])
    BY DEF Uint32, Uint16
<1>13. \A i \in 1 .. 4 : PutUint32(n)[i] \in Byte
  <2>1. ASSUME NEW i \in 1 .. 4 PROVE i = 1 \/ i = 2 \/ i = 3 \/ i = 4
    OBVIOUS
  <2> QED BY <1>2, <1>5, <1>7, <1>8, <1>9, <2>1 DEF Byte
<1> QED BY <1>7, <1>11, <1>12, <1>13
----------------------------------------------------------------------------
(* Encode and the decoders agree.                                          *)

\* The messages that Encode accepts.
Sendable == {message \in Messages : Len(message.body) <= maxEncodedBodyLength}
Size(message) == headerSize + Len(message.body)

LEMMA BodyLimit ==
    /\ maxEncodedBodyLength \in Nat /\ maxEncodedBodyLength <= MaxUint32
    /\ maxEncodedBodyLength + headerSize <= MaxInt /\ MaxUint32 \in Nat
    BY Words, Ints DEF maxEncodedBodyLength, headerSize, Min2, MaxUint32

LEMMA SendableTypes ==
    ASSUME NEW m \in Sendable
    PROVE  /\ m.event \in 0 .. MaxUint32 /\ m.body \in Seq(Byte)
           /\ Len(m.body) \in 0 .. MaxUint32 /\ Size(m) \in Nat /\ Size(m) >= 8
           /\ Size(m) = 8 + Len(m.body) /\ Size(m) <= MaxInt
           /\ m = [event |-> m.event, body |-> m.body]
<1>1. m.event \in Events /\ m.body \in Bodies /\ m = [event |-> m.event, body |-> m.body]
    BY DEF Sendable, Messages
<1>2. m.event \in 0 .. MaxUint32 /\ m.body \in Seq(Byte)
    BY <1>1, MessageStreamAssumption
<1>3. Len(m.body) \in Nat
    BY <1>2, LenProperties
<1>4. Len(m.body) <= maxEncodedBodyLength
    BY DEF Sendable
<1>5. Size(m) = 8 + Len(m.body)
    BY DEF Size, headerSize
<1>6. MaxInt \in Nat /\ maxEncodedBodyLength + 8 <= MaxInt
    BY BodyLimit, Ints DEF headerSize
<1> QED BY <1>1, <1>2, <1>3, <1>4, <1>5, <1>6, BodyLimit

LEMMA PutTypes ==
    ASSUME NEW n \in 0 .. MaxUint32
    PROVE  PutUint32(n) \in Seq(Byte) /\ Len(PutUint32(n)) = 4
<1> DEFINE f == [i \in 1 .. 4 |-> PutUint32(n)[5 - i]]
<1>1. \A i \in 1 .. 4 : f[i] = PutUint32(n)[5 - i]
    OBVIOUS
<1>2. \A i \in 1 .. 4 : PutUint32(n)[i] \in Byte
    BY <1>1, DigitsOfNumber
<1>3. \E a, b, c, e : PutUint32(n) = <<a, b, c, e>>
    BY DEF PutUint32
<1> QED BY <1>2, <1>3

\* Where the parts of an encoded message are.
LEMMA EncodeLayout ==
    ASSUME NEW m \in Sendable
    PROVE  /\ Encode(m) \in Seq(Byte) /\ Len(Encode(m)) = Size(m)
           /\ \A i \in 1 .. 4 : Encode(m)[i] = PutUint32(m.event)[i]
           /\ \A i \in 1 .. 4 : Encode(m)[4 + i] = PutUint32(Len(m.body))[i]
           /\ \A i \in 1 .. Len(m.body) : Encode(m)[8 + i] = m.body[i]
<1> DEFINE a == PutUint32(m.event)
           b == PutUint32(Len(m.body))
           c == m.body
           h == a \o b
<1>1. /\ a \in Seq(Byte) /\ b \in Seq(Byte) /\ c \in Seq(Byte)
      /\ Len(a) = 4 /\ Len(b) = 4 /\ Len(c) \in Nat /\ Size(m) = 8 + Len(c)
    BY PutTypes, SendableTypes
<1>2. Encode(m) = h \o c
    BY DEF Encode
<1> HIDE DEF a, b, c
<1>3. /\ h \in Seq(Byte) /\ Len(h) = 8
      /\ \A i \in 1 .. 8 : h[i] = IF i <= 4 THEN a[i] ELSE b[i - 4]
  <2>1. /\ h \in Seq(Byte) /\ Len(h) = Len(a) + Len(b)
        /\ \A i \in 1 .. Len(a) + Len(b) : h[i] = IF i <= Len(a) THEN a[i] ELSE b[i - Len(a)]
    <3>1. a \in Seq(Byte) /\ b \in Seq(Byte)
      BY <1>1
    <3> QED BY ONLY <3>1, ConcatProperties
  <2> QED BY <1>1, <2>1
<1> HIDE DEF h
<1>4. /\ h \o c \in Seq(Byte) /\ Len(h \o c) = 8 + Len(c)
      /\ \A i \in 1 .. 8 + Len(c) : (h \o c)[i] = IF i <= 8 THEN h[i] ELSE c[i - 8]
  <2>1. /\ h \o c \in Seq(Byte) /\ Len(h \o c) = Len(h) + Len(c)
        /\ \A i \in 1 .. Len(h) + Len(c) :
              (h \o c)[i] = IF i <= Len(h) THEN h[i] ELSE c[i - Len(h)]
    BY <1>1, <1>3, ConcatProperties
  <2> QED BY <1>3, <2>1
<1> DEFINE e == h \o c
<1>5. /\ e \in Seq(Byte) /\ Len(e) = 8 + Len(c)
      /\ \A i \in 1 .. 8 + Len(c) : e[i] = IF i <= 8 THEN h[i] ELSE c[i - 8]
    BY <1>4
<1> HIDE DEF e
<1>6. \A i \in 1 .. 4 : e[i] = a[i]
    BY <1>1, <1>3, <1>5
<1>7. ASSUME NEW i \in 1 .. 4 PROVE e[4 + i] = b[i]
  <2>1. 4 + i \in 1 .. 8 /\ ~ (4 + i <= 4) /\ (4 + i) - 4 = i /\ 4 + i \in 1 .. 8 + Len(c)
        /\ 4 + i <= 8
    BY <1>1
  <2> QED BY <1>3, <1>5, <2>1
<1>8. ASSUME NEW i \in 1 .. Len(c) PROVE e[8 + i] = c[i]
  <2>1. 8 + i \in 1 .. 8 + Len(c) /\ ~ (8 + i <= 8) /\ (8 + i) - 8 = i
    BY <1>1
  <2> QED BY <1>5, <2>1
<1> QED BY <1>1, <1>2, <1>5, <1>6, <1>7, <1>8 DEF a, b, c, e

\* A number that was put at a place is read from it.
LEMMA ReadsBack ==
    ASSUME NEW s \in Seq(Byte), NEW p \in Nat, p + 4 <= Len(s), NEW n \in 0 .. MaxUint32,
           \A i \in 1 .. 4 : s[p + i] = PutUint32(n)[i]
    PROVE  LittleUint32(s, p + 1) = n
<1> DEFINE lo == p + 1
           hi == lo + 3
           g == SubSeq(s, lo, hi)
           f == BigEndian("little", g)
<1>1. Len(s) \in Nat /\ lo \in Int /\ hi \in Int /\ 1 <= lo /\ lo <= hi /\ hi <= Len(s)
      /\ hi - lo + 1 = 4
    BY LenProperties
<1>2. \A i \in 1 .. 4 : lo + i - 1 = p + i
    OBVIOUS
<1>3. LittleUint32(s, lo) = Uint32(f, 1)
    BY DEF LittleUint32
<1> HIDE DEF lo, hi
<1>4. \A i \in lo .. hi : s[i] \in Byte
    BY <1>1, ElementOfSeq
<1>5. Len(g) = 4 /\ \A i \in 1 .. 4 : g[i] = s[lo + i - 1]
    BY <1>1, <1>4, SubSeqProperties
<1> HIDE DEF g
<1>6. \A i \in 1 .. 4 : g[i] = PutUint32(n)[i]
    BY <1>2, <1>5
<1>7. f = [i \in 1 .. 4 |-> g[4 + 1 - i]]
    BY <1>5 DEF BigEndian
<1>8. ASSUME NEW i \in 1 .. 4 PROVE f[i] = PutUint32(n)[5 - i]
  <2>1. f[i] = g[4 + 1 - i]
    BY <1>7
  <2>2. 4 + 1 - i = 5 - i /\ 5 - i \in 1 .. 4
    OBVIOUS
  <2> QED BY <1>6, <2>1, <2>2
<1> HIDE DEF f
<1>9. Uint32(f, 1) = n
    BY <1>8, DigitsOfNumber
<1> QED BY <1>3, <1>9 DEF lo

\* Decoder.Decode is the inverse of Encoder.Encode.
LEMMA DecodeInvertsEncode ==
    ASSUME NEW m \in Sendable
    PROVE  Decode(Encode(m)) = <<m, TRUE>>
<1> DEFINE e == Encode(m)
           body == SubSeq(e, headerSize + 1, Len(e))
<1>1. /\ m.event \in 0 .. MaxUint32 /\ m.body \in Seq(Byte) /\ Len(m.body) \in 0 .. MaxUint32
      /\ Len(m.body) \in Nat /\ m = [event |-> m.event, body |-> m.body]
      /\ Size(m) = 8 + Len(m.body)
    BY SendableTypes, LenProperties
<1>2. /\ e \in Seq(Byte) /\ Len(e) = 8 + Len(m.body)
      /\ \A i \in 1 .. 4 : e[i] = PutUint32(m.event)[i]
      /\ \A i \in 1 .. 4 : e[4 + i] = PutUint32(Len(m.body))[i]
      /\ \A i \in 1 .. Len(m.body) : e[8 + i] = m.body[i]
    BY <1>1, EncodeLayout
<1>3. Decode(e) = IF Len(e) < headerSize THEN <<[event |-> 0, body |-> <<>>], FALSE>>
                  ELSE <<[event |-> LittleUint32(e, 1), body |-> body],
                         Len(body) <= MaxUint32 /\ LittleUint32(e, 5) = Len(body)>>
    BY DEF Decode
<1> HIDE DEF e
<1>4. /\ \A i \in 1 .. 4 : e[0 + i] = PutUint32(m.event)[i]
      /\ 0 + 4 <= Len(e) /\ 4 + 4 <= Len(e) /\ 0 \in Nat /\ 4 \in Nat
    BY <1>1, <1>2
<1>5. LittleUint32(e, 0 + 1) = m.event
    BY <1>1, <1>2, <1>4, ReadsBack
<1>6. LittleUint32(e, 4 + 1) = Len(m.body)
    BY <1>1, <1>2, <1>4, ReadsBack
<1>7. body = m.body
  <2>1. /\ headerSize + 1 \in Int /\ Len(e) \in Int /\ headerSize + 1 = 9
        /\ 9 <= Len(e) + 1
    BY <1>1, <1>2 DEF headerSize
  <2>2. \A i \in 9 .. Len(e) : e[i] \in Byte
    BY <1>1, <1>2, ElementOfSeq
  <2>3. /\ body \in Seq(Byte) /\ Len(body) = Len(m.body)
        /\ \A i \in 1 .. Len(m.body) : body[i] = e[9 + i - 1]
    BY <1>1, <1>2, <2>1, <2>2, SubSeqProperties, SMTT(60)
  <2> HIDE DEF body
  <2>4. \A i \in 1 .. Len(m.body) : 9 + i - 1 = 8 + i
    OBVIOUS
  <2>5. \A i \in 1 .. Len(body) : body[i] = m.body[i]
    BY <1>2, <2>3, <2>4
  <2> QED BY <1>1, <2>3, <2>5, SeqEqual
<1>8. ~ (Len(e) < headerSize)
    BY <1>1, <1>2 DEF headerSize
<1>9. Len(m.body) <= MaxUint32
    BY <1>1, BodyLimit
<1> HIDE DEF body
<1>10. LittleUint32(e, 1) = m.event /\ LittleUint32(e, 5) = Len(m.body)
    BY <1>5, <1>6
<1> QED BY <1>1, <1>3, <1>7, <1>8, <1>9, <1>10 DEF e

\* What decodeOne makes of bytes that begin with the header of a message.
LEMMA ServerDecodesOne ==
    ASSUME NEW o \in Options, validateConfiguration(o), NEW s \in Seq(Byte), NEW m \in Sendable,
           8 <= Len(s), \A j \in 1 .. 8 : s[j] = Encode(m)[j]
    PROVE  decodeOne(o, s) =
               IF Size(m) > o.max THEN Error
               ELSE IF Len(s) < Size(m) THEN Incomplete
               ELSE [result |-> "frame", frame |-> SubSeq(s, 1, Size(m)), consumed |-> Size(m)]
<1>1. /\ o.byteOrder = "little" /\ o.offset = 4 /\ o.width = 4 /\ o.adjustment = 0
      /\ o.strip = 0 /\ o.max \in Nat
  <2>1. o = ServerDecoderOptions(o.max)
    BY MessageStreamAssumption
  <2>2. \A x : /\ ServerDecoderOptions(x).byteOrder = "little"
               /\ ServerDecoderOptions(x).offset = 4 /\ ServerDecoderOptions(x).width = 4
               /\ ServerDecoderOptions(x).adjustment = 0 /\ ServerDecoderOptions(x).strip = 0
    BY DEF ServerDecoderOptions
  <2> QED BY <2>1, <2>2, OptionTypes
<1>2. lengthFieldEndOffset(o) = 8
    BY <1>1, HeaderExact
<1> DEFINE n == Len(m.body)
<1>3. n \in Nat /\ n \in 0 .. MaxUint32 /\ Size(m) = n + 8 /\ Size(m) <= MaxInt /\ Len(s) \in Nat
    BY SendableTypes, LenProperties
<1>4. FieldValue(o, s) = n
  <2>1. PICK f : /\ FieldValue(o, s) = Value(4, f)
                 /\ \A i \in 1 .. 4 : s[4 + i] = f[4 + 1 - i]
    <3>1. o.offset + o.width <= Len(s) /\ o.byteOrder # "big"
      BY <1>1, <1>3
    <3>2. PICK f : /\ FieldValue(o, s) = Value(o.width, f)
                   /\ \A i \in 1 .. o.width :
                         /\ f[i] \in Byte
                         /\ s[o.offset + i] =
                               IF o.byteOrder = "big" THEN f[i] ELSE f[o.width + 1 - i]
      BY <3>1, FieldDigits
    <3> QED BY <1>1, <3>2
  <2>2. ASSUME NEW i \in 1 .. 4 PROVE f[i] = PutUint32(n)[5 - i]
    <3>1. 5 - i \in 1 .. 4 /\ 4 + 1 - (5 - i) = i /\ 4 + (5 - i) \in 1 .. 8
      OBVIOUS
    <3>2. s[4 + (5 - i)] = f[i]
      BY <2>1, <3>1
    <3>3. s[4 + (5 - i)] = Encode(m)[4 + (5 - i)]
      BY <3>1
    <3>4. Encode(m)[4 + (5 - i)] = PutUint32(n)[5 - i]
      BY <3>1, EncodeLayout
    <3> QED BY <3>2, <3>3, <3>4
  <2>3. Uint32(f, 1) = n
    BY <1>3, <2>2, DigitsOfNumber
  <2> QED BY <2>1, <2>3 DEF Value
<1> HIDE DEF n
<1>5. readLengthField(o, s)[1] = n /\ readLengthField(o, s)[2]
  <2>1. (o.width = 8 => n <= MaxInt) = TRUE
    BY <1>1
  <2>2. readLengthField(o, s) = <<n, o.width = 8 => n <= MaxInt>>
    BY <1>4 DEF readLengthField
  <2>3. readLengthField(o, s) = <<n, TRUE>>
    BY <2>1, <2>2, Zenon
  <2> QED BY <2>3
<1>6. adjustFrameLength(o, n) = <<n + 8, TRUE>>
  <2>1. ~ (n > MaxUint64 - 8) /\ ~ (n + 8 > MaxUint64 - 0) /\ 0 # MinInt
    BY <1>3, Ints, Words
  <2>2. ~ (\/ n > MaxUint64 - lengthFieldEndOffset(o)
           \/ o.adjustment >= 0 /\ n + lengthFieldEndOffset(o) > MaxUint64 - o.adjustment
           \/ o.adjustment = MinInt
           \/ o.adjustment < 0 /\ n + lengthFieldEndOffset(o) < -o.adjustment)
    BY <1>1, <1>2, <2>1
  <2>3. n + lengthFieldEndOffset(o) + o.adjustment = n + 8
    BY <1>1, <1>2, <1>3
  <2> QED BY <2>2, <2>3 DEF adjustFrameLength
<1>7. LengthInRange(o, n + 8) <=> ~ (Size(m) > o.max)
    BY <1>1, <1>2, <1>3, Ints, SMTT(60) DEF LengthInRange
<1>8. ~ (Len(s) < 8) /\ ~ (0 > n + 8) /\ 0 + 1 = 1
    BY <1>3
<1>9. decodeOne(o, s) =
          IF ~ (TRUE /\ TRUE /\ LengthInRange(o, n + 8)) THEN Error
          ELSE IF Len(s) < n + 8 THEN Incomplete
          ELSE [result |-> "frame", frame |-> SubSeq(s, 0 + 1, n + 8), consumed |-> n + 8]
    BY <1>1, <1>2, <1>5, <1>6, <1>8 DEF decodeOne
<1> QED BY <1>3, <1>7, <1>8, <1>9
----------------------------------------------------------------------------
(* The invariant.  The bytes that have reached the wire are the encodings   *)
(* of the messages the writer took, one after the other, except for the end *)
(* of the last one; the decoder stands at the end of one of them.           *)

Taken == Len(sent) - Len(outgoing)
Stream == fed \o wire
Waiting == IF phase = "decoding" THEN frames ELSE undelivered
Handled == Len(received) + Len(Waiting)

StreamTypeInv ==
    /\ sent \in Seq(Sendable) /\ outgoing \in Frames
    /\ writing \in Seq(Byte) /\ wire \in Seq(Byte) /\ written \in Nat
    /\ undelivered \in Frames /\ received \in Seq(Sendable)
    /\ writerEnd \in {"no", "closed", "error"}
    /\ readerEnd \in {"no", "clean", "partial", "error", "broken"}

QueueInv ==
    /\ Len(outgoing) <= Len(sent)
    /\ \A i \in 1 .. Len(outgoing) : outgoing[i] = Encode(sent[Taken + i])

\* cut[i] is where the i-th of the first k messages ends.
Layout(cut, messages, k, stream) ==
    /\ cut[0] = 0
    /\ \A i \in 1 .. k : cut[i] = cut[i - 1] + Size(messages[i])
    /\ \A i, j \in 0 .. k : i < j => cut[i] < cut[j]
    /\ Len(stream) <= cut[k]
    /\ \A i \in 1 .. k : \A j \in 1 .. Size(messages[i]) :
          cut[i - 1] + j <= Len(stream) => stream[cut[i - 1] + j] = Encode(messages[i])[j]

WriterAt(cut) ==
    /\ written <= Taken /\ cut[written] <= Len(Stream)
    /\ written < Taken => written + 1 = Taken /\ Len(Stream) < cut[Taken]
    /\ writerEnd # "error" =>
          /\ Len(Stream) + Len(writing) = cut[Taken]
          /\ Taken > 0 => IsTail(writing, Encode(sent[Taken]))

ReaderAt(cut) == Handled <= written /\ (phase # "failed" => cut[Handled] = Position)

WireInv(cut) ==
    /\ cut \in [0 .. Taken -> Nat] /\ Layout(cut, sent, Taken, Stream)
    /\ WriterAt(cut) /\ ReaderAt(cut)

ReaderInv ==
    /\ phase # "idle" => undelivered = <<>>
    /\ \A i \in 1 .. Len(received) : received[i] = sent[i] /\ ~ TooLarge(sent[i])
    /\ \A i \in 1 .. Len(Waiting) :
          /\ Waiting[i] = Encode(sent[Len(received) + i])
          /\ ~ TooLarge(sent[Len(received) + i])

EndInv ==
    /\ readerEnd = "error" <=> phase = "failed"
    /\ readerEnd \in {"clean", "partial"} => phase = "idle" /\ writerEnd # "no"
    /\ readerEnd = "broken" => phase = "idle"
    /\ writerEnd = "closed" => writing = <<>> /\ outgoing = <<>>
    /\ EndClassified

TransportInv ==
    /\ StreamTypeInv /\ QueueInv /\ ReaderInv /\ EndInv
    /\ \E cut : WireInv(cut)

StreamInv == IInv /\ TransportInv
----------------------------------------------------------------------------
(* Layouts.                                                                *)

LEMMA LayoutTypes ==
    ASSUME NEW k \in Nat, NEW cut \in [0 .. k -> Nat], NEW messages \in Seq(Sendable),
           k <= Len(messages)
    PROVE  /\ \A i \in 1 .. k : /\ i \in 1 .. Len(messages) /\ messages[i] \in Sendable
                                /\ Size(messages[i]) \in Nat /\ Size(messages[i]) >= 8
                                /\ cut[i] \in Nat /\ cut[i - 1] \in Nat
           /\ cut[k] \in Nat /\ cut[0] \in Nat
<1>1. Len(messages) \in Nat
    BY LenProperties
<1>2. ASSUME NEW i \in 1 .. k
      PROVE  /\ i \in 1 .. Len(messages) /\ messages[i] \in Sendable
             /\ Size(messages[i]) \in Nat /\ Size(messages[i]) >= 8
             /\ cut[i] \in Nat /\ cut[i - 1] \in Nat
  <2>1. i \in 1 .. Len(messages) /\ i \in 0 .. k /\ i - 1 \in 0 .. k
    BY <1>1
  <2>2. messages[i] \in Sendable
    BY <2>1, ElementOfSeq
  <2> QED BY <2>1, <2>2, SendableTypes
<1>3. k \in 0 .. k /\ 0 \in 0 .. k
    OBVIOUS
<1> QED BY <1>2, <1>3

\* Another message behind those that are laid out changes nothing.
LEMMA LayoutKept ==
    ASSUME NEW k \in Nat, NEW cut, NEW messages, NEW more, NEW stream,
           \A i \in 1 .. k : more[i] = messages[i],
           Layout(cut, messages, k, stream)
    PROVE  Layout(cut, more, k, stream)
    BY DEF Layout

\* The next message is laid out before any of its bytes are written.
LEMMA LayoutNext ==
    ASSUME NEW k \in Nat, NEW cut \in [0 .. k -> Nat], NEW messages \in Seq(Sendable),
           k + 1 <= Len(messages), NEW stream \in Seq(Byte),
           Layout(cut, messages, k, stream)
    PROVE  \E more \in [0 .. k + 1 -> Nat] :
              /\ Layout(more, messages, k + 1, stream)
              /\ \A i \in 0 .. k : more[i] = cut[i]
              /\ more[k + 1] = cut[k] + Size(messages[k + 1])
<1> DEFINE m == messages[k + 1]
           more == [i \in 0 .. k + 1 |-> IF i <= k THEN cut[i] ELSE cut[k] + Size(m)]
<1>1. Len(messages) \in Nat /\ Len(stream) \in Nat /\ k <= Len(messages)
    BY LenProperties
<1>2. Size(m) \in Nat /\ Size(m) >= 8
  <2>1. k + 1 \in 1 .. Len(messages)
    BY <1>1
  <2>2. m \in Sendable
    BY <2>1, ElementOfSeq
  <2> QED BY <2>2, SendableTypes
<1> HIDE DEF m
<1>3. cut[k] \in Nat
    OBVIOUS
<1>4. more \in [0 .. k + 1 -> Nat]
    BY <1>2, <1>3
<1>5. \A i \in 0 .. k : more[i] = cut[i]
    OBVIOUS
<1>6. more[k + 1] = cut[k] + Size(m)
    OBVIOUS
<1> HIDE DEF more
<1>7. Layout(more, messages, k + 1, stream)
  <2>1. more[0] = 0
    BY <1>5 DEF Layout
  <2>2. ASSUME NEW i \in 1 .. k + 1 PROVE more[i] = more[i - 1] + Size(messages[i])
    <3>1. CASE i \in 1 .. k
      <4>1. i \in 0 .. k /\ i - 1 \in 0 .. k
        BY <3>1
      <4> QED BY <1>5, <3>1, <4>1 DEF Layout
    <3>2. CASE i = k + 1
      <4>1. i - 1 = k /\ k \in 0 .. k
        BY <3>2
      <4> QED BY <1>5, <1>6, <3>2, <4>1 DEF m
    <3> QED BY <3>1, <3>2
  <2>3. ASSUME NEW i \in 0 .. k + 1, NEW j \in 0 .. k + 1, i < j PROVE more[i] < more[j]
    <3>1. i \in 0 .. k /\ more[i] = cut[i] /\ cut[i] \in Nat
      BY <1>5, <2>3
    <3>2. CASE j \in 0 .. k
      BY <1>5, <2>3, <3>1, <3>2 DEF Layout
    <3>3. CASE j = k + 1
      <4>1. cut[i] <= cut[k]
        BY <1>3, <3>1 DEF Layout
      <4> QED BY <1>2, <1>3, <1>6, <3>1, <3>3, <4>1
    <3> QED BY <3>2, <3>3
  <2>4. Len(stream) <= more[k + 1]
    <3>1. Len(stream) <= cut[k]
      BY DEF Layout
    <3> QED BY <1>1, <1>2, <1>3, <1>6, <3>1
  <2>5. ASSUME NEW i \in 1 .. k + 1, NEW j \in 1 .. Size(messages[i]),
               more[i - 1] + j <= Len(stream)
        PROVE  stream[more[i - 1] + j] = Encode(messages[i])[j]
    <3>1. CASE i \in 1 .. k
      <4>1. more[i - 1] = cut[i - 1]
        BY <1>5, <3>1
      <4> QED BY <2>5, <3>1, <4>1 DEF Layout
    <3>2. CASE i = k + 1
      <4>1. i - 1 = k /\ more[k] = cut[k] /\ j \in Nat /\ j >= 1
        BY <1>2, <1>5, <3>2 DEF m
      <4>2. Len(stream) <= cut[k]
        BY DEF Layout
      <4>3. cut[k] + j <= Len(stream)
        BY <2>5, <4>1
      <4> QED BY <1>1, <1>3, <4>1, <4>2, <4>3
    <3> QED BY <3>1, <3>2
  <2> QED BY <2>1, <2>2, <2>3, <2>4, <2>5 DEF Layout
<1> QED BY <1>4, <1>5, <1>6, <1>7 DEF m

\* The stream after n bytes of w are added to it.
Written(stream, w, n) == stream \o SubSeq(w, 1, n)

LaidOut(cut, messages, k, stream) ==
    /\ k \in Nat \ {0} /\ cut \in [0 .. k -> Nat] /\ messages \in Seq(Sendable)
    /\ k <= Len(messages) /\ stream \in Seq(Byte) /\ Layout(cut, messages, k, stream)

\* w is the end of the k-th message, and the stream ends before it.
Remains(w, cut, messages, k, stream) ==
    /\ w \in Seq(Byte) /\ IsTail(w, Encode(messages[k]))
    /\ Len(stream) + Len(w) = cut[k]

\* A write puts the next bytes of the last message at their place.
LEMMA LayoutWrite ==
    ASSUME NEW k, NEW cut, NEW messages, NEW stream, NEW w,
           LaidOut(cut, messages, k, stream), Remains(w, cut, messages, k, stream),
           NEW n \in 0 .. Len(w), NEW longer, longer = Written(stream, w, n)
    PROVE  /\ Layout(cut, messages, k, longer) /\ longer \in Seq(Byte)
           /\ Len(longer) = Len(stream) + n
<1>0. /\ k \in Nat \ {0} /\ cut \in [0 .. k -> Nat] /\ messages \in Seq(Sendable)
      /\ k <= Len(messages) /\ stream \in Seq(Byte) /\ Layout(cut, messages, k, stream)
      /\ w \in Seq(Byte) /\ IsTail(w, Encode(messages[k]))
      /\ Len(stream) + Len(w) = cut[k]
    BY DEF LaidOut, Remains
<1> USE <1>0
<1> DEFINE v == SubSeq(w, 1, n)
           m == messages[k]
           e == Encode(m)
<1>1. Len(stream) \in Nat /\ Len(w) \in Nat /\ n \in Nat /\ n <= Len(w) /\ k \in 1 .. k
    BY LenProperties
<1>2. /\ \A i \in 1 .. k : /\ Size(messages[i]) \in Nat /\ Size(messages[i]) >= 8
                           /\ messages[i] \in Sendable /\ cut[i] \in Nat /\ cut[i - 1] \in Nat
    BY LayoutTypes
<1>3. v \in Seq(Byte) /\ Len(v) = n /\ \A i \in 1 .. n : v[i] = w[i]
  <2>1. \A i \in 1 .. n : w[i] \in Byte
    BY <1>1, ElementOfSeq
  <2>2. /\ v \in Seq(Byte) /\ Len(v) = IF 1 <= n THEN n - 1 + 1 ELSE 0
        /\ \A i \in 1 .. n - 1 + 1 : v[i] = w[1 + i - 1]
    BY <1>1, <2>1, SubSeqProperties
  <2>3. n - 1 + 1 = n /\ \A i \in 1 .. n : 1 + i - 1 = i
    BY <1>1
  <2> QED BY <1>1, <2>2, <2>3
<1> HIDE DEF v
<1>4. /\ longer \in Seq(Byte) /\ Len(longer) = Len(stream) + n
      /\ \A i \in 1 .. Len(stream) + n :
            longer[i] = IF i <= Len(stream) THEN stream[i] ELSE v[i - Len(stream)]
  <2>1. longer = stream \o v
    BY DEF v, Written
  <2>2. /\ stream \o v \in Seq(Byte) /\ Len(stream \o v) = Len(stream) + Len(v)
        /\ \A i \in 1 .. Len(stream) + Len(v) : (stream \o v)[i] =
              IF i <= Len(stream) THEN stream[i] ELSE v[i - Len(stream)]
    BY <1>3, ConcatProperties
  <2> QED BY <1>3, <2>1, <2>2
<1>5. Len(e) = Size(m) /\ cut[k] = cut[k - 1] + Size(m) /\ Len(w) <= Len(e)
      /\ \A i \in 1 .. Len(w) : w[i] = e[Len(e) - Len(w) + i]
    BY <1>1, <1>2, EncodeLayout DEF IsTail, Layout
<1> HIDE DEF e, m
<1>6. Size(m) \in Nat /\ cut[k] \in Nat /\ cut[k - 1] \in Nat
    BY <1>1, <1>2 DEF m
<1>7. Len(longer) <= cut[k]
    BY <1>1, <1>4, <1>6
<1>8. ASSUME NEW i \in 1 .. k, NEW j \in 1 .. Size(messages[i]),
             cut[i - 1] + j <= Len(longer)
      PROVE  longer[cut[i - 1] + j] = Encode(messages[i])[j]
  <2> DEFINE p == cut[i - 1] + j
  <2>1. p \in 1 .. Len(stream) + n /\ j \in Nat /\ cut[i - 1] \in Nat /\ j <= Size(messages[i])
    <3>1. Size(messages[i]) \in Nat /\ cut[i - 1] \in Nat
      BY <1>2
    <3>2. j \in Nat /\ 1 <= j /\ j <= Size(messages[i]) /\ p <= Len(stream) + n
      BY <1>4, <1>8, <3>1
    <3>3. PICK c \in Nat : c = cut[i - 1]
      BY <3>1
    <3> QED BY <1>1, <3>2, <3>3, SMTT(60)
  <2>4. PICK c \in Nat : c = cut[i - 1] /\ p = c + j
    BY <2>1
  <2> HIDE DEF p
  <2>2. CASE p <= Len(stream)
    <3>1. longer[p] = stream[p]
      BY <1>4, <2>1, <2>2
    <3>2. stream[cut[i - 1] + j] = Encode(messages[i])[j]
      BY <2>2 DEF Layout, p
    <3> QED BY <3>1, <3>2 DEF p
  <2>3. CASE ~ (p <= Len(stream))
    <3>1. i = k
      <4>1. CASE i < k
        <5>1. cut[i] = cut[i - 1] + Size(messages[i])
          BY DEF Layout
        <5>2. cut[i] <= cut[k - 1]
          <6>1. i \in 0 .. k /\ k - 1 \in 0 .. k /\ (i = k - 1 \/ i < k - 1)
            BY <4>1
          <6>2. i < k - 1 => cut[i] < cut[k - 1]
            BY <6>1 DEF Layout
          <6>3. cut[i] \in Nat /\ cut[k - 1] \in Nat
            BY <1>2, <1>6
          <6> QED BY <6>1, <6>2, <6>3
        <5>3. cut[k - 1] <= Len(stream)
          BY <1>1, <1>5, <1>6
        <5>4. PICK a \in Nat, b \in Nat, z \in Nat :
                  a = cut[i] /\ b = cut[k - 1] /\ z = Size(messages[i])
          BY <1>2, <1>6
        <5>5. a = c + z /\ a <= b /\ b <= Len(stream) /\ j <= z
          BY <2>1, <2>4, <5>1, <5>2, <5>3, <5>4
        <5>6. ~ (c + j <= Len(stream)) /\ j \in Nat /\ Len(stream) \in Nat
          BY <1>1, <2>1, <2>3, <2>4
        <5> HIDE DEF p
        <5>7. FALSE
          BY ONLY <5>5, <5>6, a \in Nat, b \in Nat, z \in Nat, c \in Nat
        <5> QED BY <5>7
      <4> QED BY <1>1, <4>1
    <3> DEFINE x == p - Len(stream)
    <3>2. longer[p] = v[x] /\ x \in 1 .. n
      <4>1. x \in 1 .. n
        BY <1>1, <2>1, <2>3
      <4> QED BY <1>4, <2>1, <2>3, <4>1
    <3> HIDE DEF x
    <3>3. v[x] = w[x] /\ x \in 1 .. Len(w)
      BY <1>1, <1>3, <3>2
    <3>4. Len(e) - Len(w) + x = j
      <4>1. c = cut[k - 1] /\ x = c + j - Len(stream)
        BY <2>1, <2>4, <3>1 DEF x
      <4>2. PICK a \in Nat, z \in Nat : a = cut[k] /\ z = Size(m)
        BY <1>6
      <4>3. a = c + z /\ Len(stream) + Len(w) = a /\ Len(e) = z
        BY <1>5, <4>1, <4>2
      <4>4. PICK s \in Nat, y \in Nat : s = Len(stream) /\ y = Len(w)
        BY <1>1
      <4>5. j \in Nat /\ s + y = c + z /\ x = c + j - s
        BY <2>1, <4>1, <4>3, <4>4
      <4>6. z - y + x = j
        BY ONLY <4>5, s \in Nat, y \in Nat, z \in Nat, c \in Nat
      <4> QED BY <4>3, <4>4, <4>6
    <3>5. w[x] = e[j]
      BY <1>5, <3>3, <3>4
    <3>6. e[j] = Encode(messages[i])[j]
      BY <3>1 DEF e, m
    <3> QED BY <3>2, <3>3, <3>5, <3>6 DEF p
  <2> QED BY <2>2, <2>3
<1> QED BY <1>4, <1>7, <1>8 DEF Layout
----------------------------------------------------------------------------
(* The state.                                                              *)

LEMMA Lengths ==
    ASSUME IInv, StreamTypeInv, QueueInv
    PROVE  /\ Len(sent) \in Nat /\ Len(outgoing) \in Nat /\ Len(writing) \in Nat
           /\ Len(wire) \in Nat /\ Len(fed) \in Nat /\ Len(bytes) \in Nat
           /\ Len(received) \in Nat /\ Len(undelivered) \in Nat /\ Len(frames) \in Nat
           /\ Waiting \in Frames /\ Len(Waiting) \in Nat /\ Handled \in Nat
           /\ Taken \in Nat /\ Taken <= Len(sent)
           /\ Stream \in Seq(Byte) /\ Len(Stream) = Len(fed) + Len(wire)
           /\ \A i \in 1 .. Len(fed) : Stream[i] = fed[i]
<1>1. /\ Len(sent) \in Nat /\ Len(outgoing) \in Nat /\ Len(writing) \in Nat
      /\ Len(wire) \in Nat /\ Len(received) \in Nat /\ Len(undelivered) \in Nat
    BY LenProperties DEF StreamTypeInv, Frames
<1>2. fed \in Seq(Byte) /\ bytes \in Seq(Byte) /\ frames \in Frames
    BY FittingFrames DEF IInv, TypeInv, FitInv
<1>3. Len(fed) \in Nat /\ Len(bytes) \in Nat /\ Len(frames) \in Nat
    BY <1>2, LenProperties DEF Frames
<1>4. Waiting \in Frames /\ Len(Waiting) \in Nat
    BY <1>1, <1>2, <1>3 DEF Waiting, StreamTypeInv
<1>5. Handled \in Nat
    BY <1>1, <1>4 DEF Handled
<1>6. Taken \in Nat /\ Taken <= Len(sent)
    BY <1>1 DEF Taken, QueueInv
<1>7. wire \in Seq(Byte)
    BY DEF StreamTypeInv
<1>8. /\ Stream \in Seq(Byte) /\ Len(Stream) = Len(fed) + Len(wire)
      /\ \A i \in 1 .. Len(fed) + Len(wire) :
            Stream[i] = IF i <= Len(fed) THEN fed[i] ELSE wire[i - Len(fed)]
    BY <1>2, <1>7, ConcatProperties DEF Stream
<1>9. \A i \in 1 .. Len(fed) : Stream[i] = fed[i]
    BY <1>1, <1>3, <1>8
<1> QED BY <1>1, <1>3, <1>4, <1>5, <1>6, <1>8, <1>9

\* What the decoder holds begins with the message after those it has cut off.
LEMMA HeldMessage ==
    ASSUME IInv, StreamTypeInv, QueueInv, NEW cut, WireInv(cut),
           phase \in {"idle", "decoding"}, bytes # <<>>,
           NEW m, m = sent[Handled + 1]
    PROVE  /\ Handled < Taken /\ m \in Sendable
           /\ cut[Handled + 1] = Position + Size(m)
           /\ \A j \in 1 .. Len(bytes) : j <= Size(m) => bytes[j] = Encode(m)[j]
<1> DEFINE k == Handled
<1>1. /\ k \in Nat /\ Taken \in Nat /\ Taken <= Len(sent) /\ written \in Nat
      /\ Len(fed) \in Nat /\ Len(wire) \in Nat /\ Len(bytes) \in Nat /\ Len(sent) \in Nat
      /\ Len(Stream) = Len(fed) + Len(wire) /\ \A i \in 1 .. Len(fed) : Stream[i] = fed[i]
    BY Lengths DEF StreamTypeInv
<1>2. Len(bytes) >= 1
  <2>1. bytes \in Seq(Byte)
    BY DEF IInv, TypeInv
  <2> QED BY <2>1, EmptySeq
<1>3. k <= written /\ written <= Taken /\ cut[k] = Position
    BY DEF WireInv, ReaderAt, WriterAt
<1>4. IsTail(bytes, fed)
    BY DEF IInv, TailInv
<1>5. Position \in Nat /\ Position = Len(fed) - Len(bytes)
    BY <1>1, <1>4 DEF Position, IsTail
<1>6. Layout(cut, sent, Taken, Stream) /\ cut \in [0 .. Taken -> Nat] /\ sent \in Seq(Sendable)
    BY DEF WireInv, StreamTypeInv
<1>7. k < Taken
  <2>1. Len(Stream) <= cut[Taken]
    BY <1>6 DEF Layout
  <2>2. CASE k = Taken
    <3>1. Len(Stream) <= Position
      BY <1>3, <2>1, <2>2
    <3> QED BY <1>1, <1>2, <1>5, <3>1
  <2> QED BY <1>1, <1>3, <2>2
<1>8. k + 1 \in 1 .. Taken /\ (k + 1) - 1 = k
    BY <1>1, <1>7
<1> HIDE DEF k
<1>9. m \in Sendable /\ Size(m) \in Nat
    BY <1>1, <1>6, <1>8, LayoutTypes DEF k
<1>10. cut[k + 1] = Position + Size(m)
    BY <1>3, <1>6, <1>8 DEF Layout, k
<1>11. ASSUME NEW j \in 1 .. Len(bytes), j <= Size(m)
       PROVE  bytes[j] = Encode(m)[j]
  <2>1. bytes[j] = fed[Position + j]
    BY <1>4, <1>5 DEF IsTail
  <2>2. Position + j \in 1 .. Len(fed) /\ Position + j <= Len(Stream) /\ j \in 1 .. Size(m)
    BY <1>1, <1>5, <1>9, <1>11
  <2>3. Stream[cut[(k + 1) - 1] + j] = Encode(sent[k + 1])[j]
    <3>1. cut[(k + 1) - 1] + j <= Len(Stream) /\ j \in 1 .. Size(sent[k + 1])
      BY <1>3, <1>8, <2>2 DEF k
    <3> QED BY <1>6, <1>8, <3>1 DEF Layout
  <2>4. Stream[Position + j] = Encode(m)[j]
    BY <1>3, <1>8, <2>3 DEF k
  <2> QED BY <1>1, <2>1, <2>2, <2>4
<1> QED BY <1>7, <1>9, <1>10, <1>11 DEF k

\* What decodeOne finds there.
LEMMA NextMessage ==
    ASSUME IInv, StreamTypeInv, QueueInv, NEW cut, WireInv(cut),
           phase \in {"idle", "decoding"}, NEW one, one = decodeOne(d, bytes),
           NEW m, m = sent[Handled + 1]
    PROVE  /\ one.result = "frame" =>
                 /\ Handled < Taken /\ m \in Sendable /\ ~ TooLarge(m)
                 /\ cut[Handled + 1] = Position + Size(m)
                 /\ one.frame = Encode(m) /\ one.consumed = Size(m) /\ Size(m) <= Len(bytes)
           /\ one.result = "error" => Handled < Taken /\ m \in Sendable /\ TooLarge(m)
           /\ one.result = "incomplete" /\ bytes # <<>> =>
                 /\ Handled < Taken /\ m \in Sendable
                 /\ cut[Handled + 1] = Position + Size(m) /\ Len(bytes) < Size(m)
<1>1. d \in Options /\ validateConfiguration(d) /\ bytes \in Seq(Byte) /\ Len(bytes) \in Nat
    BY LenProperties DEF IInv, TypeInv, AcceptInv
<1>2. lengthFieldEndOffset(d) = 8
  <2>1. d.offset = 4 /\ d.width = 4
    <3>1. d = ServerDecoderOptions(d.max)
      BY <1>1, MessageStreamAssumption
    <3>2. \A x : ServerDecoderOptions(x).offset = 4 /\ ServerDecoderOptions(x).width = 4
      BY DEF ServerDecoderOptions
    <3> QED BY <3>1, <3>2
  <2> QED BY <1>1, <2>1, HeaderExact
<1>3. CASE Len(bytes) < 8
  <2>1. one = Incomplete
    BY <1>2, <1>3 DEF decodeOne
  <2>2. bytes # <<>> => /\ Handled < Taken /\ m \in Sendable
                        /\ cut[Handled + 1] = Position + Size(m)
    BY HeldMessage
  <2>3. m \in Sendable => Len(bytes) < Size(m)
    BY <1>1, <1>3, SendableTypes
  <2> QED BY <2>1, <2>2, <2>3 DEF Incomplete
<1>4. CASE ~ (Len(bytes) < 8)
  <2>1. bytes # <<>> /\ 8 <= Len(bytes)
    BY <1>1, <1>4
  <2>2. /\ Handled < Taken /\ m \in Sendable /\ cut[Handled + 1] = Position + Size(m)
        /\ \A j \in 1 .. Len(bytes) : j <= Size(m) => bytes[j] = Encode(m)[j]
    BY <2>1, HeldMessage
  <2>3. Size(m) \in Nat /\ Size(m) >= 8 /\ d.max \in Nat
    BY <1>1, <2>2, SendableTypes, OptionTypes
  <2>4. \A j \in 1 .. 8 : bytes[j] = Encode(m)[j]
    BY <1>1, <2>1, <2>2, <2>3
  <2>5. one = IF Size(m) > d.max THEN Error
              ELSE IF Len(bytes) < Size(m) THEN Incomplete
              ELSE [result |-> "frame", frame |-> SubSeq(bytes, 1, Size(m)),
                    consumed |-> Size(m)]
    BY <1>1, <2>1, <2>2, <2>4, ServerDecodesOne
  <2>6. TooLarge(m) <=> Size(m) > d.max
    BY DEF TooLarge, Size
  <2>7. CASE Size(m) > d.max
    BY <2>2, <2>5, <2>6, <2>7 DEF Error
  <2>8. CASE ~ (Size(m) > d.max) /\ Len(bytes) < Size(m)
    BY <2>2, <2>5, <2>8 DEF Incomplete
  <2>9. CASE ~ (Size(m) > d.max) /\ ~ (Len(bytes) < Size(m))
    <3> DEFINE n == Size(m)
               f == SubSeq(bytes, 1, n)
               e == Encode(m)
    <3>1. one = [result |-> "frame", frame |-> f, consumed |-> n]
      BY <2>5, <2>9
    <3>2. n \in Nat /\ 1 <= n /\ n <= Len(bytes)
      BY <1>1, <2>3, <2>9
    <3>3. e \in Seq(Byte) /\ Len(e) = n
      BY <2>2, EncodeLayout
    <3>4. \A i \in 1 .. n : bytes[i] \in Byte /\ bytes[i] = e[i]
      BY <1>1, <2>2, <3>2, ElementOfSeq
    <3> HIDE DEF n, e
    <3>5. /\ f \in Seq(Byte) /\ Len(f) = n - 1 + 1
          /\ \A i \in 1 .. n - 1 + 1 : f[i] = bytes[1 + i - 1]
      BY <3>2, <3>4, SubSeqProperties
    <3> HIDE DEF f
    <3>6. n - 1 + 1 = n /\ \A i \in 1 .. n : 1 + i - 1 = i
      BY <3>2
    <3>7. f = e
      <4>1. Len(f) = n /\ \A i \in 1 .. n : f[i] = e[i]
        BY <3>4, <3>5, <3>6
      <4> QED BY <3>3, <3>5, <4>1, SeqEqual
    <3>8. one.result = "frame" /\ one.frame = e /\ one.consumed = n
      BY <3>1, <3>7
    <3> QED BY <2>2, <2>6, <2>9, <3>2, <3>8 DEF n, e
  <2> QED BY <2>7, <2>8, <2>9
<1> QED BY <1>3, <1>4

\* The reader is never ahead of the writer, nor the writer of the sender.
LEMMA Order ==
    ASSUME StreamInv
    PROVE  /\ Handled \in Nat /\ Len(received) \in Nat /\ Len(Waiting) \in Nat
           /\ written \in Nat /\ Taken \in Nat /\ Len(sent) \in Nat
           /\ Handled = Len(received) + Len(Waiting)
           /\ Handled <= written /\ written <= Taken /\ Taken <= Len(sent)
<1>1. PICK cut : WireInv(cut)
    BY DEF StreamInv, TransportInv
<1>2. Handled <= written /\ written <= Taken
    BY <1>1 DEF WireInv, ReaderAt, WriterAt
<1>3. IInv /\ StreamTypeInv /\ QueueInv
    BY DEF StreamInv, TransportInv
<1> QED BY <1>2, <1>3, Lengths DEF Handled, StreamTypeInv

----------------------------------------------------------------------------
(* The sender's steps.                                                     *)

\* A step of the sender leaves what the reader has as it was.
LEMMA SenderStep ==
    ASSUME StreamInv, writerEnd = "no", UNCHANGED readerVars,
           sent' \in Seq(Sendable), Len(sent) <= Len(sent'),
           \A i \in 1 .. Len(sent) : sent'[i] = sent[i],
           writerEnd' = "closed" => writing' = <<>> /\ outgoing' = <<>>
    PROVE  ReaderInv' /\ EndInv'
<1>1. /\ Len(received) \in Nat /\ Len(Waiting) \in Nat /\ Len(sent) \in Nat
      /\ Len(received) + Len(Waiting) <= Len(sent)
    BY Order
<1>2. ReaderInv /\ EndInv
    BY DEF StreamInv, TransportInv
<1>3. /\ phase' = phase /\ undelivered' = undelivered /\ received' = received
      /\ readerEnd' = readerEnd /\ d' = d /\ frames' = frames
    BY DEF readerVars, decoderVars
<1>4. Waiting' = Waiting
    BY <1>3 DEF Waiting
<1>5. ReaderInv'
  <2>1. \A i \in 1 .. Len(received) : received[i] = sent'[i] /\ ~ TooLarge(sent'[i])
    <3> SUFFICES ASSUME NEW i \in 1 .. Len(received)
                 PROVE  received[i] = sent'[i] /\ ~ TooLarge(sent'[i])
      OBVIOUS
    <3>1. sent'[i] = sent[i]
      BY <1>1
    <3> QED BY <1>2, <3>1 DEF ReaderInv
  <2>2. \A i \in 1 .. Len(Waiting) :
          /\ Waiting[i] = Encode(sent'[Len(received) + i])
          /\ ~ TooLarge(sent'[Len(received) + i])
    <3> SUFFICES ASSUME NEW i \in 1 .. Len(Waiting)
                 PROVE  /\ Waiting[i] = Encode(sent'[Len(received) + i])
                        /\ ~ TooLarge(sent'[Len(received) + i])
      OBVIOUS
    <3>1. sent'[Len(received) + i] = sent[Len(received) + i]
      BY <1>1
    <3> QED BY <1>2, <3>1 DEF ReaderInv
  <2>3. phase' # "idle" => undelivered' = <<>>
    BY <1>2, <1>3 DEF ReaderInv
  <2>4. /\ \A i \in 1 .. Len(received) : ~ TooLarge(sent[i])'
        /\ \A i \in 1 .. Len(Waiting) : ~ TooLarge(sent[Len(received) + i])'
    BY <1>3, <2>1, <2>2 DEF TooLarge
  <2> QED BY <1>3, <1>4, <2>1, <2>2, <2>3, <2>4 DEF ReaderInv
<1>6. EndInv'
  <2>1. readerEnd' \notin {"clean", "partial"}
    BY <1>2, <1>3 DEF EndInv
  <2>2. /\ readerEnd' = "error" <=> phase' = "failed"
        /\ readerEnd' = "broken" => phase' = "idle"
    BY <1>2, <1>3 DEF EndInv
  <2>3. readerEnd' = "error" =>
           \E i \in Len(received') + 1 .. Len(sent') : TooLarge(sent[i])'
    <3> SUFFICES ASSUME readerEnd = "error"
                 PROVE  \E i \in Len(received) + 1 .. Len(sent') : TooLarge(sent[i])'
      BY <1>3
    <3>1. PICK i \in Len(received) + 1 .. Len(sent) : TooLarge(sent[i])
      BY <1>2 DEF EndInv, EndClassified
    <3>2. sent'[i] = sent[i] /\ i \in Len(received) + 1 .. Len(sent')
      <4>1. Len(sent') \in Nat
        BY LenProperties
      <4> QED BY <1>1, <3>1, <4>1
    <3>3. TooLarge(sent[i])'
      BY <1>3, <3>1, <3>2 DEF TooLarge
    <3> QED BY <3>2, <3>3
  <2>4. EndClassified'
    BY <2>1, <2>3 DEF EndClassified
  <2> QED BY <2>1, <2>2, <2>4 DEF EndInv
<1> QED BY <1>5, <1>6

LEMMA SendStep ==
    ASSUME StreamInv, NEW message \in Messages, Send(message)
    PROVE  TransportInv'
<1> DEFINE e == Encode(message)
<1>1. /\ sent \in Seq(Sendable) /\ outgoing \in Frames /\ QueueInv /\ StreamTypeInv
      /\ Len(sent) \in Nat /\ Len(outgoing) \in Nat /\ Taken \in Nat /\ Taken <= Len(sent)
    BY Lengths DEF StreamInv, TransportInv, StreamTypeInv
<1>2. message \in Sendable /\ e \in Seq(Byte)
  <2>1. message \in Sendable
    BY DEF Send, Sendable
  <2> QED BY <2>1, EncodeLayout
<1>3. /\ sent' = Append(sent, message) /\ outgoing' = Append(outgoing, e)
      /\ UNCHANGED <<writing, written, wire, writerEnd, readerVars>> /\ writerEnd = "no"
    BY DEF Send
<1> HIDE DEF e
<1>4. /\ sent' \in Seq(Sendable) /\ Len(sent') = Len(sent) + 1
      /\ \A i \in 1 .. Len(sent) : sent'[i] = sent[i]
      /\ sent'[Len(sent) + 1] = message
    BY <1>1, <1>2, <1>3, AppendProperties
<1>5. /\ outgoing' \in Frames /\ Len(outgoing') = Len(outgoing) + 1
      /\ \A i \in 1 .. Len(outgoing) : outgoing'[i] = outgoing[i]
      /\ outgoing'[Len(outgoing) + 1] = e
    BY <1>1, <1>2, <1>3, AppendProperties DEF Frames
<1>6. Taken' = Taken
    BY <1>1, <1>4, <1>5 DEF Taken
<1>7. StreamTypeInv'
    BY <1>1, <1>3, <1>4, <1>5 DEF StreamTypeInv, readerVars
<1>8. QueueInv'
  <2>1. Len(outgoing') <= Len(sent')
    BY <1>1, <1>4, <1>5 DEF QueueInv
  <2>2. ASSUME NEW i \in 1 .. Len(outgoing')
        PROVE  outgoing'[i] = Encode(sent'[Taken' + i])
    <3>1. CASE i <= Len(outgoing)
      <4>1. outgoing'[i] = outgoing[i] /\ outgoing[i] = Encode(sent[Taken + i])
        BY <1>1, <1>5, <2>2, <3>1 DEF QueueInv
      <4>2. Taken + i \in 1 .. Len(sent)
        BY <1>1, <2>2, <3>1 DEF Taken
      <4> QED BY <1>4, <1>6, <4>1, <4>2
    <3>2. CASE i = Len(outgoing) + 1
      <4>1. Taken + i = Len(sent) + 1
        BY <1>1, <3>2 DEF Taken
      <4> QED BY <1>4, <1>5, <1>6, <3>2, <4>1 DEF e
    <3> QED BY <1>1, <1>5, <2>2, <3>1, <3>2
  <2> QED BY <2>1, <2>2 DEF QueueInv
<1>9. ReaderInv' /\ EndInv'
    BY <1>1, <1>3, <1>4, SenderStep
<1>10. PICK cut : WireInv(cut)
    BY DEF StreamInv, TransportInv
<1>11. WireInv(cut)'
  <2>1. Stream' = Stream /\ Handled' = Handled /\ Position' = Position /\ phase' = phase
    BY <1>3 DEF Stream, Handled, Waiting, Position, readerVars, decoderVars
  <2>2. Layout(cut, sent', Taken, Stream)
    <3>1. \A i \in 1 .. Taken : sent'[i] = sent[i]
      BY <1>1, <1>4
    <3>2. Layout(cut, sent, Taken, Stream)
      BY <1>10 DEF WireInv
    <3> QED BY <1>1, <3>1, <3>2, LayoutKept
  <2>3. cut \in [0 .. Taken -> Nat] /\ WriterAt(cut) /\ ReaderAt(cut)
    BY <1>10 DEF WireInv
  <2>4. WriterAt(cut)'
    <3>1. Taken > 0 => sent'[Taken] = sent[Taken]
      BY <1>1, <1>4
    <3> QED BY <1>3, <1>6, <2>1, <2>3, <3>1 DEF WriterAt
  <2>5. ReaderAt(cut)'
    BY <1>3, <2>1, <2>3 DEF ReaderAt
  <2>6. Layout(cut, sent', Taken', Stream')
    BY <1>6, <2>1, <2>2
  <2>7. Layout(cut, sent, Taken, Stream)'
    BY <2>6 DEF Layout
  <2> QED BY <1>6, <2>3, <2>4, <2>5, <2>7 DEF WireInv
<1> QED BY <1>7, <1>8, <1>9, <1>11 DEF TransportInv

LEMMA TakesStep ==
    ASSUME StreamInv, WriterTakes
    PROVE  TransportInv'
<1> DEFINE k == Taken
<1>1. /\ sent \in Seq(Sendable) /\ outgoing \in Frames /\ QueueInv /\ StreamTypeInv
      /\ Len(sent) \in Nat /\ Len(outgoing) \in Nat /\ k \in Nat /\ k <= Len(sent)
      /\ Stream \in Seq(Byte) /\ Len(Stream) \in Nat /\ written \in Nat
  <2>1. IInv /\ StreamTypeInv /\ QueueInv
    BY DEF StreamInv, TransportInv
  <2>2. Stream \in Seq(Byte)
    BY <2>1, Lengths
  <2> QED BY <2>1, <2>2, Lengths, LenProperties DEF StreamTypeInv
<1>2. /\ writing' = Head(outgoing) /\ outgoing' = Tail(outgoing) /\ outgoing # <<>>
      /\ UNCHANGED <<sent, written, wire, writerEnd, readerVars>>
      /\ writerEnd = "no" /\ writing = <<>>
    BY DEF WriterTakes
<1>3. /\ Head(outgoing) \in Seq(Byte) /\ outgoing' \in Frames
      /\ Len(outgoing') = Len(outgoing) - 1 /\ Len(outgoing) >= 1
      /\ \A i \in 1 .. Len(outgoing') : outgoing'[i] = outgoing[i + 1]
      /\ Head(outgoing) = outgoing[1]
  <2>1. Head(outgoing) = outgoing[1] /\ Len(outgoing) \in Nat \ {0}
    BY <1>1, <1>2, EmptySeq DEF Frames
  <2> QED BY <1>1, <1>2, <2>1, HeadTailProperties DEF Frames
<1>4. Taken' = k + 1 /\ k + 1 <= Len(sent) /\ k + 1 \in Nat
    BY <1>1, <1>2, <1>3 DEF Taken
<1>5. writing' = Encode(sent[k + 1])
    BY <1>1, <1>2, <1>3 DEF QueueInv
<1>6. StreamTypeInv'
    BY <1>1, <1>2, <1>3 DEF StreamTypeInv, readerVars
<1>7. QueueInv'
  <2>1. Len(outgoing') <= Len(sent')
    BY <1>1, <1>2, <1>3 DEF QueueInv
  <2>2. ASSUME NEW i \in 1 .. Len(outgoing')
        PROVE  outgoing'[i] = Encode(sent'[Taken' + i])
    <3>1. i + 1 \in 1 .. Len(outgoing) /\ k + (i + 1) = (k + 1) + i
      BY <1>1, <1>3, <2>2
    <3>2. outgoing'[i] = Encode(sent[k + (i + 1)])
      BY <1>1, <1>3, <2>2, <3>1 DEF QueueInv
    <3> QED BY <1>2, <1>4, <3>1, <3>2
  <2> QED BY <2>1, <2>2 DEF QueueInv
<1>8. ReaderInv' /\ EndInv'
    BY <1>1, <1>2, SenderStep
<1>9. PICK cut : WireInv(cut)
    BY DEF StreamInv, TransportInv
<1>10. /\ cut \in [0 .. k -> Nat] /\ Layout(cut, sent, k, Stream)
       /\ WriterAt(cut) /\ ReaderAt(cut)
    BY <1>9 DEF WireInv
<1>11. Len(Stream) = cut[k] /\ written = k
  <2>1. Len(writing) = 0 /\ cut[k] \in Nat
    BY <1>1, <1>2, <1>10
  <2>2. Len(Stream) + 0 = cut[k]
    BY <1>2, <1>10, <2>1 DEF WriterAt
  <2>3. Len(Stream) = cut[k]
    BY <1>1, <2>2
  <2>4. written < k => Len(Stream) < cut[k]
    BY <1>10 DEF WriterAt
  <2>5. written <= k
    BY <1>10 DEF WriterAt
  <2> QED BY <1>1, <2>1, <2>3, <2>4, <2>5
<1> HIDE DEF k
<1>12. PICK more \in [0 .. k + 1 -> Nat] :
          /\ Layout(more, sent, k + 1, Stream)
          /\ \A i \in 0 .. k : more[i] = cut[i]
          /\ more[k + 1] = cut[k] + Size(sent[k + 1])
    BY <1>1, <1>4, <1>10, LayoutNext
<1>13. WireInv(more)'
  <2>1. /\ Stream' = Stream /\ Handled' = Handled /\ Position' = Position /\ phase' = phase
        /\ sent' = sent /\ written' = written /\ writerEnd' = writerEnd
    BY <1>2 DEF Stream, Handled, Waiting, Position, readerVars, decoderVars
  <2>2. Layout(more, sent, Taken, Stream)'
    BY <1>4, <1>12, <2>1 DEF Layout
  <2>3. sent[k + 1] \in Sendable
    BY <1>1, <1>4, ElementOfSeq
  <2>4. /\ Size(sent[k + 1]) \in Nat /\ Size(sent[k + 1]) >= 8
        /\ Len(writing') = Size(sent[k + 1]) /\ writing' \in Seq(Byte)
    BY <1>5, <2>3, SendableTypes, EncodeLayout
  <2>5. more[k] = cut[k] /\ cut[k] \in Nat
    BY <1>1, <1>10, <1>12
  <2>6. WriterAt(more)'
    <3>1. written' <= Taken' /\ more[written'] <= Len(Stream')
      BY <1>1, <1>4, <1>11, <2>1, <2>5
    <3>2. Len(Stream') < more[Taken'] /\ Len(Stream') + Len(writing') = more[Taken']
      BY <1>4, <1>11, <1>12, <2>1, <2>4, <2>5
    <3>3. written' + 1 = Taken'
      BY <1>4, <1>11, <2>1
    <3>4. IsTail(writing', Encode(sent'[Taken']))
      <4>1. \A s \in Seq(Byte) : IsTail(s, s)
        <5> SUFFICES ASSUME NEW s \in Seq(Byte) PROVE IsTail(s, s)
          OBVIOUS
        <5>1. Len(s) \in Nat
          BY LenProperties
        <5>2. \A i \in 1 .. Len(s) : Len(s) - Len(s) + i = i
          BY <5>1
        <5> QED BY <5>1, <5>2 DEF IsTail
      <4> QED BY <1>4, <1>5, <2>1, <2>4, <4>1
    <3>5. IsTail(writing, Encode(sent[Taken]))'
      BY <3>4
    <3> QED BY <3>1, <3>2, <3>3, <3>5 DEF WriterAt
  <2>7. ReaderAt(more)'
    <3>1. Handled \in Nat /\ Handled <= k
      BY <1>1, <1>11, Order
    <3>2. more[Handled] = cut[Handled]
      BY <1>1, <1>12, <3>1
    <3> QED BY <1>10, <2>1, <3>2 DEF ReaderAt
  <2> QED BY <1>4, <2>2, <2>6, <2>7 DEF WireInv
<1> QED BY <1>6, <1>7, <1>8, <1>13 DEF TransportInv

LEMMA Associates ==
    ASSUME NEW a \in Seq(Byte), NEW b \in Seq(Byte), NEW c \in Seq(Byte)
    PROVE  (a \o b) \o c = a \o (b \o c)
    BY ConcatAssociative, SMTT(60)

\* What a call of Write adds to the stream, whether it then fails or not.
LEMMA BytesWritten ==
    ASSUME StreamInv, NEW n \in 0 .. Len(writing), writing # <<>>, WriteBytes(n), fed' = fed,
           NEW cut, WireInv(cut)
    PROVE  /\ Taken > 0 /\ Layout(cut, sent, Taken, Stream')
           /\ wire' \in Seq(Byte) /\ Len(Stream') = Len(Stream) + n
           /\ written' \in Nat /\ written <= written' /\ written' <= Taken
           /\ cut[written'] <= Len(Stream')
           /\ written' < Taken => written' + 1 = Taken /\ Len(Stream') < cut[Taken]
<1> DEFINE v == SubSeq(writing, 1, n)
<1>1. /\ sent \in Seq(Sendable) /\ writing \in Seq(Byte) /\ fed \in Seq(Byte)
      /\ wire \in Seq(Byte) /\ Stream \in Seq(Byte) /\ Len(Stream) \in Nat
      /\ Len(writing) \in Nat /\ Len(writing) >= 1 /\ written \in Nat
      /\ Taken \in Nat /\ Taken <= Len(sent)
  <2>1. IInv /\ StreamTypeInv /\ QueueInv
    BY DEF StreamInv, TransportInv
  <2>2. Stream \in Seq(Byte) /\ Taken \in Nat /\ Taken <= Len(sent)
    BY <2>1, Lengths
  <2>3. writing \in Seq(Byte)
    BY <2>1 DEF StreamTypeInv
  <2>4. Len(writing) \in Nat \ {0}
    BY <2>3, EmptySeq
  <2> QED BY <2>1, <2>2, <2>3, <2>4, LenProperties DEF StreamTypeInv, IInv, TypeInv
<1>2. n \in Nat /\ n <= Len(writing)
    BY <1>1
<1>3. /\ writerEnd = "no" /\ wire' = wire \o v
      /\ written' = IF n > 0 /\ n = Len(writing) THEN written + 1 ELSE written
    BY DEF WriteBytes
<1>4. /\ cut \in [0 .. Taken -> Nat] /\ Layout(cut, sent, Taken, Stream) /\ WriterAt(cut)
    BY DEF WireInv
<1>5. PICK c \in Nat, s \in Nat, w \in Nat, t \in Nat :
         c = cut[Taken] /\ s = Len(Stream) /\ w = Len(writing) /\ t = written
    BY <1>1, <1>4
<1>6. s + w = c /\ w >= 1
    BY <1>1, <1>3, <1>4, <1>5 DEF WriterAt
<1>7. Taken > 0
  <2>1. Taken = 0 => c = 0
    BY <1>4, <1>5 DEF Layout
  <2> QED BY <1>1, <1>6, <2>1
<1>8. IsTail(writing, Encode(sent[Taken]))
    BY <1>3, <1>4, <1>7 DEF WriterAt
<1>9. v \in Seq(Byte)
  <2>1. \A i \in 1 .. n : writing[i] \in Byte
    BY <1>1, <1>2, ElementOfSeq
  <2>2. 1 \in Int /\ n \in Int
    BY <1>2
  <2> QED BY <2>1, <2>2, SubSeqProperties
<1> HIDE DEF v
<1>10. wire' \in Seq(Byte) /\ Stream' = Stream \o v
  <2>1. wire' \in Seq(Byte)
    BY <1>1, <1>3, <1>9, ConcatProperties
  <2>2. Stream' = fed \o (wire \o v)
    BY <1>3 DEF Stream
  <2>3. fed \o (wire \o v) = (fed \o wire) \o v
    BY <1>1, <1>9, Associates, ZenonT(60)
  <2> QED BY <2>1, <2>2, <2>3 DEF Stream
<1>11. Layout(cut, sent, Taken, Stream') /\ Len(Stream') = Len(Stream) + n
  <2>1. Len(Stream) + Len(writing) = cut[Taken]
    BY <1>5, <1>6
  <2>2. Stream' = Written(Stream, writing, n)
    BY <1>10 DEF v, Written
  <2>3. Taken \in Nat \ {0} /\ Taken <= Len(sent)
    BY <1>1, <1>7
  <2>4. LaidOut(cut, sent, Taken, Stream) /\ Remains(writing, cut, sent, Taken, Stream)
    BY <1>1, <1>4, <1>8, <2>1, <2>3 DEF LaidOut, Remains
  <2> QED BY <2>2, <2>4, LayoutWrite
<1>12. t + 1 = Taken /\ cut[t] <= s
  <2>1. t <= Taken /\ cut[t] <= s /\ (t < Taken => t + 1 = Taken)
    BY <1>4, <1>5 DEF WriterAt
  <2>2. t # Taken
    <3>1. t = Taken => c <= s
      BY <1>5, <2>1
    <3> QED BY <1>6, <3>1
  <2> QED BY <1>1, <2>1, <2>2
<1>13. CASE n = w
  <2>1. written' = Taken /\ Len(Stream') = cut[Taken]
    BY <1>1, <1>3, <1>5, <1>6, <1>11, <1>12, <1>13
  <2> QED BY <1>1, <1>5, <1>7, <1>10, <1>11, <1>12, <2>1
<1>14. CASE n # w
  <2>1. written' = t /\ Len(Stream') = s + n
    BY <1>3, <1>5, <1>11, <1>14
  <2>2. s + n < c /\ cut[t] <= s + n
    <3>1. PICK a \in Nat : a = cut[t]
      BY <1>1, <1>4, <1>12
    <3> QED BY <1>2, <1>5, <1>6, <1>12, <1>14, <3>1
  <2> QED BY <1>1, <1>5, <1>7, <1>10, <1>11, <1>12, <2>1, <2>2
<1> QED BY <1>13, <1>14

LEMMA WriteStep ==
    ASSUME StreamInv, NEW n \in 1 .. Len(writing), Write(n)
    PROVE  TransportInv'
<1>1. /\ IInv /\ StreamTypeInv /\ QueueInv
    BY DEF StreamInv, TransportInv
<1>2. PICK cut : WireInv(cut)
    BY DEF StreamInv, TransportInv
<1>3. /\ WriteBytes(n) /\ writing' = SubSeq(writing, n + 1, Len(writing))
      /\ UNCHANGED <<sent, outgoing, writerEnd, readerVars>> /\ writerEnd = "no"
    BY DEF Write, WriteBytes
<1>4. /\ writing \in Seq(Byte) /\ Len(writing) \in Nat /\ n \in 0 .. Len(writing)
      /\ writing # <<>> /\ Len(sent) \in Nat /\ Taken \in Nat /\ Taken <= Len(sent)
      /\ sent \in Seq(Sendable) /\ Len(Stream) \in Nat
  <2>1. Stream \in Seq(Byte)
    BY <1>1, Lengths
  <2> QED BY <1>1, <2>1, Lengths, LenProperties DEF StreamTypeInv
<1>5. /\ sent' = sent /\ outgoing' = outgoing /\ writerEnd' = "no" /\ fed' = fed
      /\ Taken' = Taken /\ Handled' = Handled /\ Position' = Position /\ phase' = phase
    BY <1>3 DEF Taken, Handled, Waiting, Position, readerVars, decoderVars
<1>6. /\ Taken > 0 /\ Layout(cut, sent, Taken, Stream')
      /\ wire' \in Seq(Byte) /\ Len(Stream') = Len(Stream) + n
      /\ written' \in Nat /\ written <= written' /\ written' <= Taken
      /\ cut[written'] <= Len(Stream')
      /\ written' < Taken => written' + 1 = Taken /\ Len(Stream') < cut[Taken]
    BY <1>2, <1>3, <1>4, <1>5, BytesWritten
<1>7. /\ cut \in [0 .. Taken -> Nat] /\ WriterAt(cut) /\ ReaderAt(cut)
    BY <1>2 DEF WireInv
<1>8. Len(Stream) + Len(writing) = cut[Taken] /\ IsTail(writing, Encode(sent[Taken]))
    BY <1>3, <1>6, <1>7 DEF WriterAt
<1>9. /\ writing' \in Seq(Byte) /\ Len(writing') = Len(writing) - n
      /\ IsTail(writing', Encode(sent[Taken]))
  <2>1. sent[Taken] \in Sendable
    BY <1>4, <1>6, ElementOfSeq
  <2>2. Encode(sent[Taken]) \in Seq(Byte)
    BY <2>1, EncodeLayout
  <2> QED BY <1>3, <1>4, <1>8, <2>2, CutTail
<1>10. StreamTypeInv'
    BY <1>1, <1>3, <1>5, <1>6, <1>9 DEF StreamTypeInv, readerVars
<1>11. QueueInv'
    BY <1>1, <1>5 DEF QueueInv
<1>12. ReaderInv' /\ EndInv'
    BY <1>3, <1>4, <1>5, SenderStep
<1>13. WireInv(cut)'
  <2>1. Layout(cut, sent, Taken, Stream)'
    BY <1>5, <1>6 DEF Layout
  <2>2. WriterAt(cut)'
    <3>1. Len(Stream') + Len(writing') = cut[Taken']
      BY <1>4, <1>5, <1>6, <1>8, <1>9
    <3>2. IsTail(writing, Encode(sent[Taken]))'
      BY <1>5, <1>9
    <3> QED BY <1>5, <1>6, <3>1, <3>2 DEF WriterAt
  <2>3. ReaderAt(cut)'
    <3>1. Handled <= written /\ Handled \in Nat /\ written \in Nat
      BY Order
    <3> QED BY <1>5, <1>6, <1>7, <3>1 DEF ReaderAt
  <2> QED BY <1>5, <1>7, <2>1, <2>2, <2>3 DEF WireInv
<1> QED BY <1>10, <1>11, <1>12, <1>13 DEF TransportInv

LEMMA WriteFailsStep ==
    ASSUME StreamInv, NEW n \in 0 .. Len(writing), WriteFails(n)
    PROVE  TransportInv'
<1>1. /\ IInv /\ StreamTypeInv /\ QueueInv
    BY DEF StreamInv, TransportInv
<1>2. PICK cut : WireInv(cut)
    BY DEF StreamInv, TransportInv
<1>3. /\ WriteBytes(n) /\ writing # <<>> /\ writerEnd' = "error"
      /\ UNCHANGED <<sent, outgoing, writing, readerVars>> /\ writerEnd = "no"
    BY DEF WriteFails, WriteBytes
<1>4. Len(sent) \in Nat /\ sent \in Seq(Sendable)
    BY <1>1, LenProperties DEF StreamTypeInv
<1>5. /\ sent' = sent /\ outgoing' = outgoing /\ fed' = fed
      /\ Taken' = Taken /\ Handled' = Handled /\ Position' = Position /\ phase' = phase
    BY <1>3 DEF Taken, Handled, Waiting, Position, readerVars, decoderVars
<1>6. /\ Taken > 0 /\ Layout(cut, sent, Taken, Stream')
      /\ wire' \in Seq(Byte)
      /\ written' \in Nat /\ written <= written' /\ written' <= Taken
      /\ cut[written'] <= Len(Stream')
      /\ written' < Taken => written' + 1 = Taken /\ Len(Stream') < cut[Taken]
    BY <1>2, <1>3, <1>5, BytesWritten
<1>7. /\ cut \in [0 .. Taken -> Nat] /\ ReaderAt(cut)
    BY <1>2 DEF WireInv
<1>8. StreamTypeInv'
    BY <1>1, <1>3, <1>5, <1>6 DEF StreamTypeInv, readerVars
<1>9. QueueInv'
    BY <1>1, <1>5 DEF QueueInv
<1>10. ReaderInv' /\ EndInv'
    BY <1>3, <1>4, <1>5, SenderStep
<1>11. WireInv(cut)'
  <2>1. Layout(cut, sent, Taken, Stream)'
    BY <1>5, <1>6 DEF Layout
  <2>2. WriterAt(cut)'
    BY <1>3, <1>5, <1>6 DEF WriterAt
  <2>3. ReaderAt(cut)'
    <3>1. Handled <= written /\ Handled \in Nat /\ written \in Nat
      BY Order
    <3> QED BY <1>5, <1>6, <1>7, <3>1 DEF ReaderAt
  <2> QED BY <1>5, <1>7, <2>1, <2>2, <2>3 DEF WireInv
<1> QED BY <1>8, <1>9, <1>10, <1>11 DEF TransportInv

LEMMA ClosesStep ==
    ASSUME StreamInv, WriterCloses
    PROVE  TransportInv'
<1>1. /\ IInv /\ StreamTypeInv /\ QueueInv
    BY DEF StreamInv, TransportInv
<1>2. PICK cut : WireInv(cut)
    BY DEF StreamInv, TransportInv
<1>3. /\ writerEnd = "no" /\ writing = <<>> /\ outgoing = <<>> /\ writerEnd' = "closed"
      /\ UNCHANGED <<sent, outgoing, writing, written, wire, readerVars>>
    BY DEF WriterCloses
<1>4. /\ sent' = sent /\ outgoing' = outgoing /\ writing' = writing /\ written' = written
      /\ Taken' = Taken /\ Handled' = Handled /\ Position' = Position /\ phase' = phase
      /\ Stream' = Stream
    BY <1>3 DEF Taken, Handled, Waiting, Position, Stream, readerVars, decoderVars
<1>5. Len(sent) \in Nat /\ sent \in Seq(Sendable)
    BY <1>1, LenProperties DEF StreamTypeInv
<1>6. StreamTypeInv' /\ QueueInv'
    BY <1>1, <1>3, <1>4 DEF StreamTypeInv, QueueInv, readerVars
<1>7. ReaderInv' /\ EndInv'
    BY <1>3, <1>4, <1>5, SenderStep
<1>8. WireInv(cut)'
    BY <1>2, <1>3, <1>4 DEF WireInv, Layout, WriterAt, ReaderAt
<1> QED BY <1>6, <1>7, <1>8 DEF TransportInv
----------------------------------------------------------------------------
(* The reader's steps.                                                     *)

\* A step of the reader leaves what the sender has done as it was.
LEMMA ReaderStep ==
    ASSUME StreamInv, UNCHANGED senderVars, Stream' = Stream, NEW cut, WireInv(cut),
           Handled' <= written, phase' # "failed" => cut[Handled'] = Position'
    PROVE  QueueInv' /\ WireInv(cut)'
<1>1. /\ sent' = sent /\ outgoing' = outgoing /\ writing' = writing
      /\ written' = written /\ writerEnd' = writerEnd
    BY DEF senderVars
<1>2. Taken' = Taken
    BY <1>1 DEF Taken
<1>3. QueueInv'
  <2>1. QueueInv
    BY DEF StreamInv, TransportInv
  <2> QED BY <1>1, <1>2, <2>1 DEF QueueInv
<1>4. Layout(cut, sent, Taken, Stream)'
    BY <1>1, <1>2 DEF WireInv, Layout
<1>5. WriterAt(cut)'
    BY <1>1, <1>2 DEF WireInv, WriterAt
<1>6. ReaderAt(cut)'
    BY <1>1 DEF ReaderAt
<1> QED BY <1>2, <1>3, <1>4, <1>5, <1>6 DEF WireInv

LEMMA WaitingKept ==
    ASSUME ReaderInv, sent' = sent, d' = d, received' = received, Waiting' = Waiting,
           phase' # "idle" => undelivered' = <<>>
    PROVE  ReaderInv'
    BY DEF ReaderInv, TooLarge

LEMMA EndKept ==
    ASSUME EndInv, UNCHANGED senderVars, readerEnd' = "no", phase' # "failed"
    PROVE  EndInv'
    BY DEF EndInv, EndClassified, senderVars

LEMMA NewStep ==
    ASSUME StreamInv, NewFrameDecoder,
           UNCHANGED <<senderVars, wire, undelivered, received, readerEnd>>
    PROVE  TransportInv'
<1>1. IInv /\ StreamTypeInv /\ QueueInv /\ ReaderInv /\ EndInv
    BY DEF StreamInv, TransportInv
<1>2. PICK cut : WireInv(cut)
    BY DEF StreamInv, TransportInv
<1>3. /\ phase = "new" /\ phase' \in {"idle", "rejected"}
      /\ d' = d /\ fed' = fed /\ bytes' = bytes /\ undelivered' = undelivered
      /\ sent' = sent /\ received' = received /\ wire' = wire /\ readerEnd' = readerEnd
    BY DEF NewFrameDecoder, senderVars
<1>4. /\ Waiting' = Waiting /\ Handled' = Handled /\ Position' = Position /\ Stream' = Stream
    BY <1>3 DEF Waiting, Handled, Position, Stream
<1>5. readerEnd' = "no"
    BY <1>1, <1>3 DEF EndInv, StreamTypeInv
<1>6. ReaderInv'
    BY <1>1, <1>3, <1>4, WaitingKept DEF ReaderInv
<1>7. EndInv'
    BY <1>1, <1>3, <1>5, EndKept
<1>8. QueueInv' /\ WireInv(cut)'
    BY <1>2, <1>3, <1>4, ReaderStep DEF WireInv, ReaderAt
<1>9. StreamTypeInv'
    BY <1>1, <1>3 DEF StreamTypeInv, senderVars
<1> QED BY <1>6, <1>7, <1>8, <1>9 DEF TransportInv

\* Input taken from the front of the wire is the end of what was fed.
Front(b, n) == SubSeq(b, 1, n)
Rest(b, n) == SubSeq(b, n + 1, Len(b))

LEMMA Moved ==
    ASSUME NEW a \in Seq(Byte), NEW b \in Seq(Byte), NEW n \in 1 .. Len(b)
    PROVE  /\ Front(b, n) \in Seq(Byte) /\ Rest(b, n) \in Seq(Byte) /\ Len(Front(b, n)) = n
           /\ (a \o Front(b, n)) \o Rest(b, n) = a \o b
<1> DEFINE front == SubSeq(b, 1, n)
           rest == SubSeq(b, n + 1, Len(b))
<1>1. Len(b) \in Nat /\ n \in Nat /\ n <= Len(b) /\ 1 <= n
    BY LenProperties
<1>2. \A i \in 1 .. Len(b) : b[i] \in Byte
    BY ElementOfSeq
<1>3. front \in Seq(Byte) /\ Len(front) = n /\ \A i \in 1 .. n : front[i] = b[i]
  <2>1. 1 \in Int /\ n \in Int /\ \A i \in 1 .. n : b[i] \in Byte
    BY <1>1, <1>2
  <2>2. /\ front \in Seq(Byte) /\ Len(front) = IF 1 <= n THEN n - 1 + 1 ELSE 0
        /\ \A i \in 1 .. n - 1 + 1 : front[i] = b[1 + i - 1]
    BY <2>1, SubSeqProperties
  <2> HIDE DEF front
  <2>3. n - 1 + 1 = n /\ \A i \in 1 .. n : 1 + i - 1 = i
    BY <1>1
  <2> QED BY <1>1, <2>2, <2>3
<1>4. /\ rest \in Seq(Byte) /\ Len(rest) = Len(b) - n
      /\ \A i \in 1 .. Len(b) - n : rest[i] = b[n + i]
  <2> DEFINE m == n + 1
             z == Len(b)
  <2>1. m \in Int /\ z \in Int /\ \A i \in m .. z : b[i] \in Byte
    BY <1>1, <1>2
  <2>2. /\ rest \in Seq(Byte) /\ Len(rest) = IF m <= z THEN z - m + 1 ELSE 0
        /\ \A i \in 1 .. z - m + 1 : rest[i] = b[m + i - 1]
    <3> HIDE DEF m, z
    <3>1. rest = SubSeq(b, m, z)
      BY DEF m, z, rest
    <3>2. /\ SubSeq(b, m, z) \in Seq(Byte)
          /\ Len(SubSeq(b, m, z)) = IF m <= z THEN z - m + 1 ELSE 0
          /\ \A i \in 1 .. z - m + 1 : SubSeq(b, m, z)[i] = b[m + i - 1]
      BY ONLY <2>1, SubSeqProperties
    <3> QED BY <3>1, <3>2, Zenon
  <2>3. z - m + 1 = Len(b) - n /\ \A i \in 1 .. Len(b) - n : m + i - 1 = n + i
    BY <1>1
  <2>4. ~ (m <= z) => Len(b) - n = 0
    BY <1>1
  <2> HIDE DEF rest, m, z
  <2> QED BY <2>2, <2>3, <2>4
<1> HIDE DEF front, rest
<1>5. front \o rest = b
  <2> DEFINE c == front \o rest
  <2>1. /\ c \in Seq(Byte) /\ Len(c) = Len(front) + Len(rest)
        /\ \A i \in 1 .. Len(front) + Len(rest) :
              c[i] = IF i <= Len(front) THEN front[i] ELSE rest[i - Len(front)]
    BY <1>3, <1>4, ConcatProperties
  <2> HIDE DEF c
  <2>2. Len(front) + Len(rest) = Len(b)
    BY <1>1, <1>3, <1>4
  <2>3. ASSUME NEW i \in 1 .. Len(b) PROVE c[i] = b[i]
    <3>1. CASE i <= n
      BY <1>1, <1>3, <2>1, <2>2, <2>3, <3>1
    <3>2. CASE ~ (i <= n)
      <4>1. i - n \in 1 .. Len(b) - n /\ n + (i - n) = i
        BY <1>1, <2>3, <3>2
      <4>2. c[i] = rest[i - n]
        BY <1>3, <2>1, <2>2, <2>3, <3>2
      <4> QED BY <1>4, <4>1, <4>2
    <3> QED BY <3>1, <3>2
  <2>4. c = b
    BY <2>1, <2>2, <2>3, SeqEqual
  <2> QED BY <2>4 DEF c
<1>6. (a \o front) \o rest = a \o (front \o rest)
    BY <1>3, <1>4, Associates, Zenon
<1>7. front = Front(b, n) /\ rest = Rest(b, n)
    BY DEF front, rest, Front, Rest
<1> QED BY <1>3, <1>4, <1>5, <1>6, <1>7, Zenon

LEMMA ReadStep ==
    ASSUME StreamInv, NEW n \in 1 .. Len(wire), Read(n)
    PROVE  TransportInv'
<1> DEFINE input == SubSeq(wire, 1, n)
<1>1. IInv /\ StreamTypeInv /\ QueueInv /\ ReaderInv /\ EndInv
    BY DEF StreamInv, TransportInv
<1>2. PICK cut : WireInv(cut)
    BY DEF StreamInv, TransportInv
<1>3. /\ phase = "idle" /\ phase' = "decoding" /\ readerEnd = "no" /\ undelivered = <<>>
      /\ fed' = fed \o input /\ bytes' = bytes \o input /\ frames' = <<>> /\ d' = d
      /\ wire' = SubSeq(wire, n + 1, Len(wire))
      /\ UNCHANGED <<senderVars, undelivered, received, readerEnd>>
    BY DEF Read, DecodeBegin
<1>4. sent' = sent /\ received' = received /\ undelivered' = undelivered /\ readerEnd' = "no"
    BY <1>3 DEF senderVars
<1>5. fed \in Seq(Byte) /\ bytes \in Seq(Byte) /\ wire \in Seq(Byte)
    BY <1>1 DEF IInv, TypeInv, StreamTypeInv
<1>6. /\ input \in Seq(Byte) /\ wire' \in Seq(Byte) /\ Len(input) = n
      /\ (fed \o input) \o wire' = fed \o wire
  <2>1. input = Front(wire, n) /\ wire' = Rest(wire, n)
    BY <1>3 DEF Front, Rest
  <2>2. /\ Front(wire, n) \in Seq(Byte) /\ Rest(wire, n) \in Seq(Byte)
        /\ Len(Front(wire, n)) = n
        /\ (fed \o Front(wire, n)) \o Rest(wire, n) = fed \o wire
    BY <1>5, Moved
  <2> HIDE DEF input
  <2> QED BY <2>1, <2>2, Zenon
<1> HIDE DEF input
<1>7. Stream' = Stream
    BY <1>3, <1>6 DEF Stream
<1>8. Position' = Position
  <2>1. Len(fed') = Len(fed) + Len(input) /\ Len(bytes') = Len(bytes) + Len(input)
    BY <1>3, <1>5, <1>6, ConcatProperties
  <2>2. Len(fed) \in Nat /\ Len(bytes) \in Nat /\ Len(input) \in Nat
    BY <1>5, <1>6, LenProperties
  <2> QED BY <2>1, <2>2 DEF Position
<1>9. Waiting' = Waiting /\ Handled' = Handled
    BY <1>3, <1>4 DEF Waiting, Handled
<1>10. ReaderInv'
    BY <1>1, <1>3, <1>4, <1>9, WaitingKept
<1>11. EndInv'
    BY <1>1, <1>3, <1>4, EndKept
<1>12. QueueInv' /\ WireInv(cut)'
    BY <1>2, <1>3, <1>7, <1>8, <1>9, ReaderStep DEF WireInv, ReaderAt
<1>13. StreamTypeInv'
    BY <1>1, <1>3, <1>4, <1>6 DEF StreamTypeInv, senderVars
<1> QED BY <1>10, <1>11, <1>12, <1>13 DEF TransportInv

LEMMA FrameCutStep ==
    ASSUME StreamInv, DecodeFrame,
           UNCHANGED <<senderVars, wire, undelivered, received, readerEnd>>
    PROVE  TransportInv'
<1> DEFINE one == decodeOne(d, bytes)
           m == sent[Handled + 1]
           k == Handled
<1>1. IInv /\ StreamTypeInv /\ QueueInv /\ ReaderInv /\ EndInv
    BY DEF StreamInv, TransportInv
<1>2. PICK cut : WireInv(cut)
    BY DEF StreamInv, TransportInv
<1>3. /\ phase = "decoding" /\ phase' = "decoding" /\ one.result = "frame"
      /\ frames' = Append(frames, one.frame)
      /\ bytes' = SubSeq(bytes, one.consumed + 1, Len(bytes))
      /\ d' = d /\ fed' = fed
    BY DEF DecodeFrame
<1>4. /\ sent' = sent /\ received' = received /\ undelivered' = undelivered /\ wire' = wire
      /\ readerEnd' = readerEnd /\ UNCHANGED senderVars
    BY DEF senderVars
<1>5. /\ k < Taken /\ m \in Sendable /\ ~ TooLarge(m)
      /\ cut[k + 1] = Position + Size(m)
      /\ one.frame = Encode(m) /\ one.consumed = Size(m) /\ Size(m) <= Len(bytes)
    BY <1>1, <1>2, <1>3, NextMessage
<1>6. /\ k \in Nat /\ Taken \in Nat /\ written \in Nat /\ Len(fed) \in Nat
      /\ Len(wire) \in Nat /\ Len(bytes) \in Nat /\ Len(received) \in Nat
      /\ Len(frames) \in Nat /\ Len(Stream) = Len(fed) + Len(wire)
    BY <1>1, Lengths DEF StreamTypeInv
<1>7. Size(m) \in Nat /\ Encode(m) \in Seq(Byte)
    BY <1>5, SendableTypes, EncodeLayout
<1>8. frames \in Frames /\ bytes \in Seq(Byte) /\ fed \in Seq(Byte) /\ IsTail(bytes, fed)
    BY <1>1, <1>3, FittingFrames DEF IInv, TypeInv, FitInv, TailInv
<1> HIDE DEF one, m, k
<1>9. /\ Len(frames') = Len(frames) + 1
      /\ \A i \in 1 .. Len(frames) : frames'[i] = frames[i]
      /\ frames'[Len(frames) + 1] = Encode(m)
    BY <1>3, <1>5, <1>7, <1>8, AppendProperties DEF Frames
<1>10. Len(bytes') = Len(bytes) - Size(m)
  <2>1. Size(m) \in 0 .. Len(bytes)
    BY <1>5, <1>6, <1>7
  <2>2. bytes' = SubSeq(bytes, Size(m) + 1, Len(bytes))
    BY <1>3, <1>5
  <2> QED BY <1>8, <2>1, <2>2, CutTail
<1>11. Position \in Nat /\ Position + Len(bytes) = Len(fed) /\ Position' = cut[k + 1]
  <2>1. Position = Len(fed) - Len(bytes) /\ Len(bytes) <= Len(fed)
    BY <1>8 DEF Position, IsTail
  <2>2. Position' = Len(fed) - Len(bytes')
    BY <1>3 DEF Position
  <2>3. PICK p \in Nat, z \in Nat, b \in Nat, f \in Nat :
           /\ p = Position /\ z = Size(m) /\ b = Len(bytes) /\ f = Len(fed)
    BY <1>6, <1>7, <2>1
  <2>4. p = f - b /\ Position' = f - (b - z)
    BY <1>10, <2>1, <2>2, <2>3
  <2>5. p + b = f /\ f - (b - z) = p + z
    BY ONLY <2>4, p \in Nat, z \in Nat, b \in Nat, f \in Nat
  <2> QED BY <1>5, <2>3, <2>4, <2>5
<1>12. Waiting = frames /\ Waiting' = frames' /\ k = Len(received) + Len(frames)
    BY <1>3 DEF Waiting, Handled, k
<1>13. Handled' = k + 1
    BY <1>4, <1>6, <1>9, <1>12 DEF Handled
<1>14. k + 1 <= written
  <2>1. k <= written /\ written <= Taken
    BY <1>2 DEF WireInv, ReaderAt, WriterAt, k
  <2>2. written = k => Len(Stream) < cut[k + 1]
    BY <1>2, <1>5 DEF WireInv, WriterAt
  <2>3. PICK p \in Nat, z \in Nat, b \in Nat, f \in Nat, w \in Nat :
           /\ p = Position /\ z = Size(m) /\ b = Len(bytes) /\ f = Len(fed) /\ w = Len(wire)
    BY <1>6, <1>7, <1>11
  <2>4. p + b = f /\ z <= b /\ (written = k => f + w < p + z)
    BY <1>5, <1>6, <1>11, <2>2, <2>3
  <2>5. written # k
    BY ONLY <2>4, p \in Nat, z \in Nat, b \in Nat, f \in Nat, w \in Nat
  <2> QED BY <1>6, <2>1, <2>5
<1>15. ReaderInv'
  <2>1. \A i \in 1 .. Len(received') : received'[i] = sent'[i] /\ ~ TooLarge(sent[i])'
    BY <1>1, <1>3, <1>4 DEF ReaderInv, TooLarge
  <2>2. ASSUME NEW i \in 1 .. Len(Waiting')
        PROVE  /\ Waiting'[i] = Encode(sent'[Len(received') + i])
               /\ ~ TooLarge(sent[Len(received) + i])'
    <3>1. CASE i <= Len(frames)
      <4>1. i \in 1 .. Len(Waiting) /\ Waiting'[i] = Waiting[i]
        BY <1>6, <1>9, <1>12, <2>2, <3>1
      <4> QED BY <1>1, <1>3, <1>4, <4>1 DEF ReaderInv, TooLarge
    <3>2. CASE i = Len(frames) + 1
      <4>1. Len(received) + i = k + 1 /\ Waiting'[i] = Encode(m)
        BY <1>6, <1>9, <1>12, <3>2
      <4>2. sent[Len(received) + i] = m
        BY <4>1 DEF m, k
      <4> QED BY <1>3, <1>4, <1>5, <4>1, <4>2 DEF TooLarge
    <3> QED BY <1>6, <1>9, <1>12, <2>2, <3>1, <3>2
  <2>3. phase' # "idle" => undelivered' = <<>>
    BY <1>1, <1>3, <1>4 DEF ReaderInv
  <2> QED BY <2>1, <2>2, <2>3 DEF ReaderInv
<1>16. EndInv'
  <2>1. readerEnd' = "no"
    BY <1>1, <1>3, <1>4 DEF EndInv, StreamTypeInv
  <2> QED BY <1>1, <1>3, <1>4, <2>1, EndKept
<1>17. Stream' = Stream
    BY <1>3, <1>4 DEF Stream
<1>18. QueueInv' /\ WireInv(cut)'
  <2>1. cut[Handled'] = Position' /\ Handled' <= written
    BY <1>11, <1>13, <1>14
  <2> QED BY <1>2, <1>4, <1>17, <2>1, ReaderStep
<1>19. StreamTypeInv'
    BY <1>1, <1>4 DEF StreamTypeInv, senderVars
<1> QED BY <1>15, <1>16, <1>18, <1>19 DEF TransportInv

LEMMA ReturnStep ==
    ASSUME StreamInv, FramesReturned
    PROVE  TransportInv'
<1>1. IInv /\ StreamTypeInv /\ QueueInv /\ ReaderInv /\ EndInv
    BY DEF StreamInv, TransportInv
<1>2. PICK cut : WireInv(cut)
    BY DEF StreamInv, TransportInv
<1>3. /\ phase = "decoding" /\ phase' = "idle" /\ undelivered' = frames
      /\ d' = d /\ fed' = fed /\ bytes' = bytes /\ frames' = frames
      /\ sent' = sent /\ received' = received /\ wire' = wire /\ readerEnd' = readerEnd
      /\ UNCHANGED senderVars
    BY DEF FramesReturned, DecodeReturns, senderVars
<1>4. /\ Waiting' = Waiting /\ Handled' = Handled /\ Position' = Position /\ Stream' = Stream
    BY <1>3 DEF Waiting, Handled, Position, Stream
<1>5. readerEnd' = "no"
    BY <1>1, <1>3 DEF EndInv, StreamTypeInv
<1>6. ReaderInv'
    BY <1>1, <1>3, <1>4, WaitingKept
<1>7. EndInv'
    BY <1>1, <1>3, <1>5, EndKept
<1>8. QueueInv' /\ WireInv(cut)'
    BY <1>2, <1>3, <1>4, ReaderStep DEF WireInv, ReaderAt
<1>9. StreamTypeInv'
  <2>1. frames \in Frames
    BY <1>1, FittingFrames DEF IInv, FitInv
  <2> QED BY <1>1, <1>3, <2>1 DEF StreamTypeInv, senderVars
<1> QED BY <1>6, <1>7, <1>8, <1>9 DEF TransportInv

LEMMA ErrorStep ==
    ASSUME StreamInv, DecodingError
    PROVE  TransportInv'
<1>1. IInv /\ StreamTypeInv /\ QueueInv /\ ReaderInv /\ EndInv
    BY DEF StreamInv, TransportInv
<1>2. PICK cut : WireInv(cut)
    BY DEF StreamInv, TransportInv
<1>3. /\ phase = "decoding" /\ phase' = "failed" /\ decodeOne(d, bytes).result = "error"
      /\ d' = d /\ fed' = fed /\ readerEnd' = "error" /\ undelivered' = undelivered
      /\ sent' = sent /\ received' = received /\ wire' = wire /\ UNCHANGED senderVars
    BY DEF DecodingError, DecodeFails, senderVars
<1>4. Handled < Taken /\ TooLarge(sent[Handled + 1])
    BY <1>1, <1>2, <1>3, NextMessage
<1>5. undelivered = <<>>
    BY <1>1, <1>3 DEF ReaderInv
<1>6. /\ Handled \in Nat /\ Len(received) \in Nat /\ Len(Waiting) \in Nat
      /\ written \in Nat /\ Taken \in Nat /\ Len(sent) \in Nat
      /\ Handled = Len(received) + Len(Waiting)
      /\ Handled <= written /\ Taken <= Len(sent)
    BY Order
<1>7. Waiting' = <<>> /\ Handled' = Len(received) /\ Stream' = Stream
  <2>1. Waiting' = <<>>
    BY <1>3, <1>5 DEF Waiting
  <2>2. Handled' = Len(received) + 0
    BY <1>3, <2>1 DEF Handled
  <2> QED BY <1>3, <1>6, <2>1, <2>2 DEF Stream
<1>8. ReaderInv'
  <2>1. Len(Waiting') = 0
    BY <1>7
  <2> QED BY <1>1, <1>3, <1>5, <2>1 DEF ReaderInv, TooLarge
<1>9. EndInv'
  <2>1. \E i \in Len(received') + 1 .. Len(sent') : TooLarge(sent[i])'
    <3>1. Handled + 1 \in Len(received') + 1 .. Len(sent')
      BY <1>3, <1>4, <1>6
    <3>2. TooLarge(sent'[Handled + 1])
      BY <1>3, <1>4
    <3>3. \A i : TooLarge(sent[i])' <=> TooLarge(sent'[i])
      BY <1>3 DEF TooLarge
    <3> QED BY <3>1, <3>2, <3>3
  <2>2. EndClassified'
    BY <1>3, <2>1 DEF EndClassified
  <2>3. writerEnd' = "closed" => writing' = <<>> /\ outgoing' = <<>>
    BY <1>1, <1>3 DEF EndInv, senderVars
  <2> QED BY <1>3, <2>2, <2>3 DEF EndInv
<1>10. QueueInv' /\ WireInv(cut)'
  <2>1. Handled' <= written
    BY <1>6, <1>7
  <2> QED BY <1>2, <1>3, <1>7, <2>1, ReaderStep
<1>11. StreamTypeInv'
    BY <1>1, <1>3 DEF StreamTypeInv, senderVars
<1> QED BY <1>8, <1>9, <1>10, <1>11 DEF TransportInv

\* Every frame that Decode returned is a message: Decoder.Decode never fails.
LEMMA DeliverStep ==
    ASSUME StreamInv, Deliver
    PROVE  TransportInv'
<1> DEFINE r == Len(received)
           m == sent[r + 1]
<1>1. IInv /\ StreamTypeInv /\ QueueInv /\ ReaderInv /\ EndInv
    BY DEF StreamInv, TransportInv
<1>2. PICK cut : WireInv(cut)
    BY DEF StreamInv, TransportInv
<1>3. /\ readerEnd = "no" /\ undelivered # <<>>
      /\ UNCHANGED <<senderVars, wire, decoderVars>>
    BY DEF Deliver
<1>4. phase = "idle"
    BY <1>1, <1>3 DEF ReaderInv
<1>5. /\ d' = d /\ phase' = "idle" /\ fed' = fed /\ bytes' = bytes
      /\ sent' = sent /\ wire' = wire /\ UNCHANGED senderVars
    BY <1>3, <1>4 DEF decoderVars, senderVars
<1>6. /\ Waiting = undelivered /\ Waiting' = undelivered'
    BY <1>4, <1>5 DEF Waiting
<1>7. /\ undelivered \in Frames /\ received \in Seq(Sendable) /\ sent \in Seq(Sendable)
    BY <1>1 DEF StreamTypeInv
<1>8. /\ Len(undelivered) \in Nat /\ Len(undelivered) >= 1 /\ r \in Nat
      /\ Head(undelivered) = undelivered[1]
      /\ Tail(undelivered) \in Frames /\ Len(Tail(undelivered)) = Len(undelivered) - 1
      /\ \A i \in 1 .. Len(Tail(undelivered)) : Tail(undelivered)[i] = undelivered[i + 1]
  <2>1. Len(undelivered) \in Nat \ {0} /\ r \in Nat
    BY <1>3, <1>7, EmptySeq, LenProperties DEF Frames
  <2>2. Head(undelivered) = undelivered[1]
    BY <1>3, <1>7 DEF Frames
  <2>3. /\ Tail(undelivered) \in Frames /\ Len(Tail(undelivered)) = Len(undelivered) - 1
        /\ \A i \in 1 .. Len(Tail(undelivered)) : Tail(undelivered)[i] = undelivered[i + 1]
    BY <1>3, <1>7, HeadTailProperties DEF Frames
  <2> QED BY <2>1, <2>2, <2>3
<1>9. r + Len(undelivered) = Handled /\ r + 1 <= Len(sent) /\ Len(sent) \in Nat
    BY <1>6, <1>8, Order
<1>10. m \in Sendable /\ ~ TooLarge(m) /\ Head(undelivered) = Encode(m)
  <2>1. m \in Sendable
    BY <1>7, <1>8, <1>9, ElementOfSeq
  <2> QED BY <1>1, <1>6, <1>8, <2>1 DEF ReaderInv
<1>11. Decode(Head(undelivered)) = <<m, TRUE>>
    BY <1>10, DecodeInvertsEncode
<1> HIDE DEF m
<1>12. received' = Append(received, m) /\ undelivered' = Tail(undelivered) /\ readerEnd' = "no"
  <2>1. \A p : p = <<m, TRUE>> => p[1] = m /\ p[2]
    OBVIOUS
  <2>2. Decode(Head(undelivered))[1] = m /\ Decode(Head(undelivered))[2]
    BY <1>11, <2>1, Zenon
  <2> QED BY <1>3, <2>2 DEF Deliver
<1>13. /\ received' \in Seq(Sendable) /\ Len(received') = r + 1
       /\ \A i \in 1 .. r : received'[i] = received[i]
       /\ received'[r + 1] = m
    BY <1>7, <1>10, <1>12, AppendProperties
<1> HIDE DEF r
<1>14. Handled' = Handled
  <2>1. Handled' = Len(received') + Len(undelivered')
    BY <1>6 DEF Handled
  <2>2. Len(received') + Len(undelivered') = (r + 1) + (Len(undelivered) - 1)
    BY <1>8, <1>12, <1>13
  <2> QED BY <1>8, <1>9, <2>1, <2>2
<1>15. Position' = Position /\ Stream' = Stream
    BY <1>5 DEF Position, Stream
<1>16. ReaderInv'
  <2>1. ASSUME NEW i \in 1 .. Len(received')
        PROVE  received'[i] = sent'[i] /\ ~ TooLarge(sent[i])'
    <3>1. CASE i = r + 1
      <4>1. received'[i] = sent[i] /\ ~ TooLarge(sent[i])
        BY <1>10, <1>13, <3>1 DEF m
      <4> QED BY <1>5, <4>1 DEF TooLarge
    <3>2. CASE i # r + 1
      <4>1. i \in 1 .. r
        BY <1>8, <1>13, <2>1, <3>2
      <4>2. received'[i] = sent[i] /\ ~ TooLarge(sent[i])
        BY <1>1, <1>13, <4>1 DEF ReaderInv, r
      <4> QED BY <1>5, <4>2 DEF TooLarge
    <3> QED BY <3>1, <3>2
  <2>2. ASSUME NEW i \in 1 .. Len(Waiting')
        PROVE  /\ Waiting'[i] = Encode(sent'[Len(received') + i])
               /\ ~ TooLarge(sent[Len(received) + i])'
    <3>1. i + 1 \in 1 .. Len(undelivered) /\ (r + 1) + i = r + (i + 1)
      BY <1>6, <1>8, <1>12, <2>2
    <3>2. Waiting'[i] = Waiting[i + 1]
      BY <1>6, <1>8, <1>12, <2>2
    <3>3. Waiting[i + 1] = Encode(sent[r + (i + 1)]) /\ ~ TooLarge(sent[r + (i + 1)])
      BY <1>1, <1>6, <3>1 DEF ReaderInv, r
    <3>4. Len(received') + i = r + (i + 1)
      BY <1>13, <3>1
    <3> QED BY <1>5, <3>2, <3>3, <3>4 DEF TooLarge
  <2> QED BY <1>5, <2>1, <2>2 DEF ReaderInv
<1>17. EndInv'
    BY <1>1, <1>5, <1>12, EndKept
<1>18. QueueInv' /\ WireInv(cut)'
  <2>1. Handled <= written /\ cut[Handled] = Position
    BY <1>2, <1>4 DEF WireInv, ReaderAt
  <2> QED BY <1>2, <1>5, <1>14, <1>15, <2>1, ReaderStep
<1>19. StreamTypeInv'
    BY <1>1, <1>5, <1>8, <1>12, <1>13 DEF StreamTypeInv, senderVars
<1> QED BY <1>16, <1>17, <1>18, <1>19 DEF TransportInv

\* Where the stream ends tells the reader how the writer ended.
LEMMA EndOfStream ==
    ASSUME StreamInv, phase = "idle", undelivered = <<>>, writerEnd # "no", wire = <<>>
    PROVE  /\ Len(received) = written
           /\ bytes # <<>> => writerEnd = "error" /\ Len(sent) > written
           /\ bytes = <<>> /\ writerEnd = "closed" => received = sent
<1> DEFINE k == Len(received)
<1>1. IInv /\ StreamTypeInv /\ QueueInv /\ ReaderInv /\ EndInv
    BY DEF StreamInv, TransportInv
<1>2. PICK cut : WireInv(cut)
    BY DEF StreamInv, TransportInv
<1>3. /\ k \in Nat /\ written \in Nat /\ Taken \in Nat /\ Len(sent) \in Nat
      /\ k <= written /\ written <= Taken /\ Taken <= Len(sent) /\ Handled = k
  <2>1. Len(Waiting) = 0
    BY DEF Waiting
  <2> QED BY <2>1, Order
<1>4. /\ Len(Stream) = Len(fed) /\ Len(fed) \in Nat /\ Len(bytes) \in Nat
      /\ Len(bytes) <= Len(fed) /\ Position = Len(fed) - Len(bytes)
  <2>1. Len(Stream) = Len(fed) + Len(wire) /\ Len(fed) \in Nat /\ Len(bytes) \in Nat
    BY <1>1, Lengths
  <2>2. Len(wire) = 0
    OBVIOUS
  <2>3. IsTail(bytes, fed)
    BY <1>1 DEF IInv, TailInv
  <2> QED BY <2>1, <2>2, <2>3 DEF IsTail, Position
<1>5. /\ cut \in [0 .. Taken -> Nat] /\ Layout(cut, sent, Taken, Stream) /\ WriterAt(cut)
      /\ cut[k] = Position
    BY <1>2, <1>3 DEF WireInv, ReaderAt
<1> HIDE DEF k
<1>6. PICK f \in Nat, b \in Nat, c \in Nat, w \in Nat :
         f = Len(fed) /\ b = Len(bytes) /\ c = cut[k] /\ w = cut[written]
  <2>1. k \in 0 .. Taken /\ written \in 0 .. Taken
    BY <1>3
  <2>2. cut[k] \in Nat /\ cut[written] \in Nat
    BY <1>5, <2>1
  <2> QED BY <1>4, <2>2
<1>7. c = f - b /\ b <= f /\ w <= f
    BY <1>4, <1>5, <1>6 DEF WriterAt
<1>8. writerEnd = "closed" => Len(Stream) = cut[Taken] /\ Taken = Len(sent)
  <2> SUFFICES ASSUME writerEnd = "closed" PROVE Len(Stream) = cut[Taken] /\ Taken = Len(sent)
    OBVIOUS
  <2>1. writing = <<>> /\ outgoing = <<>>
    BY <1>1 DEF EndInv
  <2>2. Len(writing) = 0 /\ Len(outgoing) = 0
    BY <2>1
  <2>3. Len(Stream) + 0 = cut[Taken]
    BY <1>5, <2>2 DEF WriterAt
  <2> QED BY <1>3, <1>4, <2>2, <2>3 DEF Taken
<1>9. written < Taken => Len(Stream) < cut[Taken] /\ writerEnd = "error"
  <2>1. written < Taken => Len(Stream) < cut[Taken]
    BY <1>5 DEF WriterAt
  <2>2. writerEnd \in {"closed", "error"}
    BY <1>1 DEF StreamTypeInv
  <2>3. cut[Taken] \in Nat
    BY <1>3, <1>5
  <2> QED BY <1>4, <1>8, <2>1, <2>2, <2>3
<1>10. CASE bytes = <<>>
  <2>1. b = 0
    BY <1>6, <1>10
  <2>2. c = f
    BY <1>7, <2>1
  <2>3. k = written
    <3>1. k < written => c < w
      BY <1>3, <1>5, <1>6 DEF Layout
    <3> QED BY <1>3, <1>7, <2>2, <3>1
  <2>4. writerEnd = "closed" => received = sent
    <3> SUFFICES ASSUME writerEnd = "closed" PROVE received = sent
      OBVIOUS
    <3>1. Len(received) = Len(sent)
      BY <1>3, <1>8, <1>9, <2>3 DEF k
    <3>2. received \in Seq(Sendable) /\ sent \in Seq(Sendable)
      BY <1>1 DEF StreamTypeInv
    <3>3. \A i \in 1 .. Len(received) : received[i] = sent[i]
      BY <1>1 DEF ReaderInv
    <3> QED BY <3>1, <3>2, <3>3, SeqEqual
  <2> QED BY <1>10, <2>3, <2>4 DEF k
<1>11. CASE bytes # <<>>
  <2>1. decodeOne(d, bytes).result = "incomplete"
    BY <1>1, <1>11 DEF IInv, RestInv
  <2>2. /\ k < Taken /\ sent[k + 1] \in Sendable
        /\ cut[k + 1] = Position + Size(sent[k + 1]) /\ Len(bytes) < Size(sent[k + 1])
    BY <1>1, <1>2, <1>3, <1>11, <2>1, NextMessage
  <2>3. PICK z \in Nat, e \in Nat : z = Size(sent[k + 1]) /\ e = cut[k + 1]
    <3>1. cut[k + 1] \in Nat
      BY <1>3, <1>5, <2>2
    <3> QED BY <2>2, <3>1, SendableTypes
  <2>4. e = (f - b) + z /\ b < z
    BY <1>4, <1>6, <2>2, <2>3
  <2>5. f < e
    BY ONLY <2>4, f \in Nat, b \in Nat, z \in Nat, e \in Nat
  <2>6. k = written
    <3>1. k < written => e <= w
      <4> SUFFICES ASSUME k < written PROVE e <= w
        OBVIOUS
      <4>1. CASE k + 1 = written
        BY <1>6, <2>3, <4>1
      <4>2. CASE k + 1 # written
        <5>1. k + 1 < written /\ k + 1 \in 0 .. Taken /\ written \in 0 .. Taken
          BY <1>3, <4>2
        <5>2. cut[k + 1] < cut[written]
          BY <1>5, <5>1 DEF Layout
        <5> QED BY <1>6, <2>3, <5>2
      <4> QED BY <4>1, <4>2
    <3> QED BY <1>3, <1>7, <2>5, <3>1
  <2>7. writerEnd = "error" /\ Len(sent) > written
    BY <1>3, <1>9, <2>2, <2>6
  <2> QED BY <1>11, <2>6, <2>7 DEF k
<1> QED BY <1>10, <1>11

LEMMA EOFStep ==
    ASSUME StreamInv, ReadEOF
    PROVE  TransportInv'
<1>1. IInv /\ StreamTypeInv /\ QueueInv /\ ReaderInv /\ EndInv
    BY DEF StreamInv, TransportInv
<1>2. PICK cut : WireInv(cut)
    BY DEF StreamInv, TransportInv
<1>3. /\ phase = "idle" /\ undelivered = <<>> /\ writerEnd # "no" /\ wire = <<>>
      /\ readerEnd' = IF bytes # <<>> THEN "partial" ELSE "clean"
      /\ UNCHANGED <<senderVars, wire, decoderVars, undelivered, received>>
    BY DEF ReadEOF
<1>4. /\ d' = d /\ phase' = phase /\ fed' = fed /\ bytes' = bytes /\ frames' = frames
      /\ undelivered' = undelivered /\ received' = received /\ sent' = sent
      /\ outgoing' = outgoing /\ writing' = writing /\ written' = written
      /\ wire' = wire /\ writerEnd' = writerEnd /\ UNCHANGED senderVars
    BY <1>3 DEF decoderVars, senderVars
<1>5. /\ Waiting' = Waiting /\ Handled' = Handled /\ Position' = Position /\ Stream' = Stream
    BY <1>4 DEF Waiting, Handled, Position, Stream
<1>6. ReaderInv'
    BY <1>1, <1>3, <1>4, <1>5, WaitingKept
<1>7. QueueInv' /\ WireInv(cut)'
    BY <1>2, <1>3, <1>4, <1>5, ReaderStep DEF WireInv, ReaderAt
<1>8. EndInv'
  <2>1. /\ Len(received) = written
        /\ bytes # <<>> => writerEnd = "error" /\ Len(sent) > written
        /\ bytes = <<>> /\ writerEnd = "closed" => received = sent
    BY <1>3, EndOfStream
  <2>2. EndClassified'
    BY <1>3, <1>4, <2>1 DEF EndClassified
  <2> QED BY <1>1, <1>3, <1>4, <2>2 DEF EndInv
<1>9. StreamTypeInv'
    BY <1>1, <1>3, <1>4 DEF StreamTypeInv
<1> QED BY <1>6, <1>7, <1>8, <1>9 DEF TransportInv

LEMMA ReadFailsStep ==
    ASSUME StreamInv, ReadFails
    PROVE  TransportInv'
<1>1. IInv /\ StreamTypeInv /\ QueueInv /\ ReaderInv /\ EndInv
    BY DEF StreamInv, TransportInv
<1>2. PICK cut : WireInv(cut)
    BY DEF StreamInv, TransportInv
<1>3. /\ phase = "idle" /\ readerEnd' = "broken"
      /\ d' = d /\ phase' = phase /\ fed' = fed /\ bytes' = bytes /\ frames' = frames
      /\ undelivered' = undelivered /\ received' = received /\ sent' = sent
      /\ outgoing' = outgoing /\ writing' = writing /\ written' = written
      /\ wire' = wire /\ writerEnd' = writerEnd /\ UNCHANGED senderVars
    BY DEF ReadFails, decoderVars, senderVars
<1>4. /\ Waiting' = Waiting /\ Handled' = Handled /\ Position' = Position /\ Stream' = Stream
    BY <1>3 DEF Waiting, Handled, Position, Stream
<1>5. ReaderInv'
    BY <1>1, <1>3, <1>4, WaitingKept
<1>6. QueueInv' /\ WireInv(cut)'
    BY <1>2, <1>3, <1>4, ReaderStep DEF WireInv, ReaderAt
<1>7. EndInv'
    BY <1>1, <1>3 DEF EndInv, EndClassified
<1>8. StreamTypeInv'
    BY <1>1, <1>3 DEF StreamTypeInv
<1> QED BY <1>5, <1>6, <1>7, <1>8 DEF TransportInv
----------------------------------------------------------------------------
(* The theorems.                                                           *)

LEMMA StreamStarts == StreamInit => StreamInv
<1> SUFFICES ASSUME StreamInit PROVE StreamInv
    OBVIOUS
<1>1. IInv
    BY InitIInv DEF StreamInit
<1>2. /\ phase = "new" /\ fed = <<>> /\ bytes = <<>>
      /\ sent = <<>> /\ outgoing = <<>> /\ writing = <<>> /\ written = 0
      /\ wire = <<>> /\ writerEnd = "no"
      /\ undelivered = <<>> /\ received = <<>> /\ readerEnd = "no"
    BY DEF StreamInit, Init
<1>3. Len(sent) = 0 /\ Len(outgoing) = 0 /\ Len(writing) = 0 /\ Len(received) = 0
    BY <1>2
<1>4. StreamTypeInv
    BY <1>2, EmptySeq DEF StreamTypeInv, Frames
<1>5. QueueInv /\ Taken = 0
    BY <1>3 DEF QueueInv, Taken
<1>6. Waiting = <<>> /\ Len(Waiting) = 0 /\ Handled = 0
    BY <1>2, <1>3 DEF Waiting, Handled
<1>7. ReaderInv /\ EndInv
    BY <1>2, <1>3, <1>6 DEF ReaderInv, EndInv, EndClassified
<1>8. Len(Stream) = 0 /\ Position = 0
  <2>1. Len(fed) = 0 /\ Len(wire) = 0 /\ Len(bytes) = 0
    BY <1>2
  <2> QED BY <1>1, <1>4, <1>5, <2>1, Lengths DEF Position
<1> DEFINE cut == [i \in 0 .. 0 |-> 0]
<1>9. cut \in [0 .. 0 -> Nat] /\ cut[0] = 0
    OBVIOUS
<1> HIDE DEF cut
<1>10. Layout(cut, sent, 0, Stream)
    BY <1>8, <1>9 DEF Layout
<1>11. WriterAt(cut) /\ ReaderAt(cut)
    BY <1>2, <1>3, <1>5, <1>6, <1>8, <1>9 DEF WriterAt, ReaderAt
<1>12. WireInv(cut)
    BY <1>5, <1>9, <1>10, <1>11 DEF WireInv
<1> QED BY <1>1, <1>4, <1>5, <1>7, <1>12 DEF StreamInv, TransportInv

\* A step of the stream is a step of its decoder, or leaves the decoder alone.
LEMMA DecoderStep ==
    ASSUME StreamInv, [StreamNext]_streamVars
    PROVE  [Next]_decoderVars
<1>1. ASSUME NEW n \in 1 .. Min2(MaxInput, Len(wire)), Read(n)
      PROVE  Next
  <2>1. wire \in Seq(Byte) /\ Len(wire) \in Nat /\ MaxInput \in Nat
    BY LenProperties, FrameDecoderAssumption DEF StreamInv, TransportInv, StreamTypeInv
  <2>2. n \in 1 .. Len(wire) /\ n \in 0 .. MaxInput /\ n \in Nat
    BY <2>1 DEF Min2
  <2>3. Front(wire, n) \in Seq(Byte) /\ Len(Front(wire, n)) = n
    BY <2>1, <2>2, Moved
  <2>4. Front(wire, n) \in [1 .. n -> Byte]
    BY <2>3, LenProperties
  <2>5. Front(wire, n) \in Inputs
    BY <2>2, <2>4 DEF Inputs
  <2>6. DecodeBegin(Front(wire, n))
    BY <1>1 DEF Read, Front
  <2> QED BY <2>5, <2>6 DEF Next
<1>2. ASSUME UNCHANGED readerVars PROVE UNCHANGED decoderVars
    BY <1>2 DEF readerVars
<1>3. CASE \E message \in Messages : Send(message)
    BY <1>2, <1>3 DEF Send
<1>4. CASE WriterTakes
    BY <1>2, <1>4 DEF WriterTakes
<1>5. CASE \E n \in 1 .. Len(writing) : Write(n)
    BY <1>2, <1>5 DEF Write
<1>6. CASE \E n \in 0 .. Len(writing) : WriteFails(n)
    BY <1>2, <1>6 DEF WriteFails
<1>7. CASE WriterCloses
    BY <1>2, <1>7 DEF WriterCloses
<1>8. CASE NewFrameDecoder \/ DecodeFrame
    BY <1>8 DEF Next
<1>9. CASE FramesReturned \/ DecodingError
    BY <1>9 DEF Next, FramesReturned, DecodingError
<1>10. CASE Deliver \/ ReadEOF \/ ReadFails
    BY <1>10 DEF Deliver, ReadEOF, ReadFails
<1>11. CASE UNCHANGED streamVars
    BY <1>11 DEF streamVars, decoderVars
<1> QED
    BY <1>1, <1>3, <1>4, <1>5, <1>6, <1>7, <1>8, <1>9, <1>10, <1>11 DEF StreamNext

LEMMA StreamStep == StreamInv /\ [StreamNext]_streamVars => StreamInv'
<1> SUFFICES ASSUME StreamInv, [StreamNext]_streamVars PROVE StreamInv'
    OBVIOUS
<1>1. IInv'
  <2>1. IInv
    BY DEF StreamInv
  <2> QED BY <2>1, DecoderStep, NextIInv
<1>2. TransportInv'
  <2>1. CASE /\ NewFrameDecoder
             /\ UNCHANGED <<senderVars, wire, undelivered, received, readerEnd>>
    BY <2>1, NewStep
  <2>2. CASE \E message \in Messages : Send(message)
    BY <2>2, SendStep
  <2>3. CASE WriterTakes
    BY <2>3, TakesStep
  <2>4. CASE \E n \in 1 .. Len(writing) : Write(n)
    BY <2>4, WriteStep
  <2>5. CASE \E n \in 0 .. Len(writing) : WriteFails(n)
    BY <2>5, WriteFailsStep
  <2>6. CASE WriterCloses
    BY <2>6, ClosesStep
  <2>7. CASE \E n \in 1 .. Min2(MaxInput, Len(wire)) : Read(n)
    <3>1. PICK n \in 1 .. Min2(MaxInput, Len(wire)) : Read(n)
      BY <2>7
    <3>2. Len(wire) \in Nat /\ MaxInput \in Nat
      BY LenProperties, FrameDecoderAssumption DEF StreamInv, TransportInv, StreamTypeInv
    <3>3. n \in 1 .. Len(wire)
      BY <3>2 DEF Min2
    <3> QED BY <3>1, <3>3, ReadStep
  <2>8. CASE /\ DecodeFrame
             /\ UNCHANGED <<senderVars, wire, undelivered, received, readerEnd>>
    BY <2>8, FrameCutStep
  <2>9. CASE FramesReturned
    BY <2>9, ReturnStep
  <2>10. CASE DecodingError
    BY <2>10, ErrorStep
  <2>11. CASE Deliver
    BY <2>11, DeliverStep
  <2>12. CASE ReadEOF
    BY <2>12, EOFStep
  <2>13. CASE ReadFails
    BY <2>13, ReadFailsStep
  <2>14. CASE UNCHANGED streamVars
    <3>1. /\ UNCHANGED senderVars /\ d' = d /\ phase' = phase /\ fed' = fed /\ bytes' = bytes
          /\ frames' = frames /\ wire' = wire /\ undelivered' = undelivered
          /\ received' = received /\ readerEnd' = readerEnd /\ sent' = sent
          /\ outgoing' = outgoing /\ writing' = writing /\ written' = written
          /\ writerEnd' = writerEnd
      BY <2>14 DEF streamVars, senderVars
    <3>2. /\ Waiting' = Waiting /\ Handled' = Handled /\ Position' = Position
          /\ Stream' = Stream
      BY <3>1 DEF Waiting, Handled, Position, Stream
    <3>3. StreamTypeInv /\ ReaderInv /\ EndInv
      BY DEF StreamInv, TransportInv
    <3>4. PICK cut : WireInv(cut)
      BY DEF StreamInv, TransportInv
    <3>5. ReaderInv'
      BY <3>1, <3>2, <3>3, WaitingKept DEF ReaderInv
    <3>6. QueueInv' /\ WireInv(cut)'
      BY <3>1, <3>2, <3>4, ReaderStep DEF WireInv, ReaderAt
    <3>7. StreamTypeInv'
      BY <3>1, <3>3 DEF StreamTypeInv
    <3>8. EndInv'
      BY <3>1, <3>3 DEF EndInv, EndClassified, TooLarge
    <3> QED BY <3>5, <3>6, <3>7, <3>8 DEF TransportInv
  <2> QED
    BY <2>1, <2>2, <2>3, <2>4, <2>5, <2>6, <2>7, <2>8, <2>9, <2>10, <2>11, <2>12, <2>13,
       <2>14
    DEF StreamNext
<1> QED BY <1>1, <1>2 DEF StreamInv

\* The inductive invariant: what has reached the wire is the messages that the
\* writer took, laid end to end, and the decoder always stands at the end of one.
THEOREM StreamInductive == StreamSpec => []StreamInv
    BY StreamStarts, StreamStep, PTL DEF StreamSpec

\* Whatever the sizes of the writes and of the reads, the reader hands over the
\* messages that were sent, unchanged and in order, and none above the frame limit
\* (encoder.go, writeFull, frame_decoder.go, decoder.go, processInput).
THEOREM DeliversInOrder == StreamSpec => []Delivery
<1>1. StreamInv => Delivery
  <2> SUFFICES ASSUME StreamInv PROVE Delivery
    OBVIOUS
  <2>1. Len(received) <= written
    BY Order
  <2>2. ReaderInv
    BY DEF StreamInv, TransportInv
  <2> QED BY <2>1, <2>2 DEF Delivery, ReaderInv
<1> QED BY <1>1, StreamInductive, PTL

\* The way the reader ends tells how the writer ended: a clean end that every
\* message on the wire was received, a partial one that the writer stopped inside a
\* message, refused input that a message was above the frame limit
\* (TCPConnection.reader, processInput, frameDecoderHasPending).
THEOREM EndTellsWhatHappened == StreamSpec => []EndClassified
<1>1. StreamInv => EndClassified
    BY DEF StreamInv, TransportInv, EndInv
<1> QED BY <1>1, StreamInductive, PTL
=============================================================================
