---------------------------- MODULE FrameDecoder ----------------------------
(***************************************************************************)
(* The length-field frame decoder of frame_decoder.go: the validation of   *)
(* its options and the decoding of a byte stream that arrives cut in any   *)
(* way.  Decode holds the decoder's lock from start to end, so its loop is *)
(* the only process.                                                       *)
(*                                                                         *)
(* The machine is scaled: a byte has Base values instead of 256, but a     *)
(* word still has 8 bytes, so that int and uint64 keep their relation to   *)
(* the length fields of 1, 2, 3, 4 and 8 bytes.                            *)
(***************************************************************************)
EXTENDS Integers, Sequences

CONSTANTS Base,       \* values of a byte
          Options,    \* the FrameDecoderOptions NewFrameDecoder is called with
          MaxStream,  \* bound: bytes fed to one decoder
          MaxInput    \* bound: bytes of one call of Decode

Byte == 0 .. Base - 1
Base2 == Base * Base
Base4 == Base2 * Base2
Base8 == Base4 * Base4
MaxUint32 == Base4 - 1
MaxUint64 == Base8 - 1
MaxInt == (Base8 \div 2) - 1
MinInt == -MaxInt - 1

ASSUME FrameDecoderAssumption ==
    /\ Base \in Nat \ {0, 1}
    /\ MaxStream \in Nat
    /\ MaxInput \in Nat
    /\ \A o \in Options :
          /\ o.byteOrder \in {"nil", "little", "big"}
          /\ o.max \in 0 .. MaxUint64
          /\ {o.offset, o.width, o.adjustment, o.strip} \subseteq MinInt .. MaxInt

\* int addition wraps.
WrapInt(n) == ((n - MinInt) % Base8) + MinInt

VARIABLES
    d,       \* the FrameDecoder's options
    phase,   \* "new", then "rejected", or "idle", "decoding" and "failed"
    fed,     \* history: the bytes fed since the decoder was new or failed
    bytes,   \* d.bytes
    frames,  \* the frames the running call of Decode has collected
    out      \* history: the frames that calls of Decode returned

decoderVars == <<d, phase, fed, bytes, frames, out>>

Init ==
    /\ d \in Options
    /\ phase = "new"
    /\ fed = <<>> /\ bytes = <<>> /\ frames = <<>> /\ out = <<>>
----------------------------------------------------------------------------
(* NewFrameDecoder and validateConfiguration.                              *)

Min2(a, b) == IF a < b THEN a ELSE b

lengthFieldEndOffset(o) == WrapInt(o.offset + o.width)
effectiveMax(o) == Min2(o.max, MaxInt)

maxRepresentableUnadjustedLength(w) ==
    CASE w = 1 -> Base - 1
      [] w = 2 -> Base2 - 1
      [] w = 3 -> Base2 * Base - 1
      [] w = 4 -> MaxUint32
      [] w = 8 -> MaxInt

BugValidateConfiguration(o) ==
    /\ o.byteOrder # "nil"
    /\ o.width \in {1, 2, 3, 4, 8}
    /\ o.offset >= 0
    /\ o.strip >= 0
    /\ o.max # 0
    /\ lengthFieldEndOffset(o) <= effectiveMax(o)
    /\ o.adjustment # MinInt
    /\ IF o.adjustment < 0
       THEN -o.adjustment <= maxRepresentableUnadjustedLength(o.width)
       ELSE o.adjustment <= effectiveMax(o) - lengthFieldEndOffset(o)

validateConfiguration(o) ==
    /\ o.byteOrder # "nil"
    /\ o.width \in {1, 2, 3, 4, 8}
    /\ o.offset >= 0
    /\ o.strip >= 0
    /\ o.max # 0
    /\ lengthFieldEndOffset(o) >= 0
    /\ lengthFieldEndOffset(o) <= effectiveMax(o)
    /\ o.adjustment # MinInt
    /\ IF o.adjustment < 0
       THEN -o.adjustment <= maxRepresentableUnadjustedLength(o.width)
       ELSE o.adjustment <= effectiveMax(o) - lengthFieldEndOffset(o)

NewFrameDecoder ==
    /\ phase = "new"
    /\ phase' = IF validateConfiguration(d) THEN "idle" ELSE "rejected"
    /\ UNCHANGED <<d, fed, bytes, frames, out>>
----------------------------------------------------------------------------
(* The length field.                                                       *)

Uint16(f, i) == f[i] * Base + f[i + 1]
Uint32(f, i) == Uint16(f, i) * Base2 + Uint16(f, i + 2)
Uint64(f) == Uint32(f, 1) * Base4 + Uint32(f, 5)

\* The bytes of a field, the most significant one first.
BigEndian(order, f) ==
    IF order = "big" THEN f ELSE [i \in 1 .. Len(f) |-> f[Len(f) + 1 - i]]

FieldValue(o, s) ==
    LET f == BigEndian(o.byteOrder, SubSeq(s, o.offset + 1, lengthFieldEndOffset(o)))
    IN CASE o.width = 1 -> f[1]
         [] o.width = 2 -> Uint16(f, 1)
         [] o.width = 3 -> f[1] * Base2 + Uint16(f, 2)
         [] o.width = 4 -> Uint32(f, 1)
         [] o.width = 8 -> Uint64(f)

\* The second result of readLengthField and of adjustFrameLength is whether
\* there is no error.
readLengthField(o, s) ==
    LET value == FieldValue(o, s) IN <<value, o.width = 8 => value <= MaxInt>>

adjustFrameLength(o, unadjusted) ==
    LET adjusted == unadjusted + lengthFieldEndOffset(o)
    IN IF \/ unadjusted > MaxUint64 - lengthFieldEndOffset(o)
          \/ o.adjustment >= 0 /\ adjusted > MaxUint64 - o.adjustment
          \/ o.adjustment = MinInt
          \/ o.adjustment < 0 /\ adjusted < -o.adjustment
       THEN <<0, FALSE>>
       ELSE <<adjusted + o.adjustment, TRUE>>

BugLengthInRangeNoHeader(o, length) ==
    length <= o.max /\ length <= MaxInt

BugLengthInRangeNoMax(o, length) ==
    length >= lengthFieldEndOffset(o) /\ length <= MaxInt

\* The frame length is in range: not below the header, not above the maximum.
LengthInRange(o, length) ==
    /\ length >= lengthFieldEndOffset(o)
    /\ length <= o.max
    /\ length <= MaxInt

Incomplete == [result |-> "incomplete"]
Error == [result |-> "error"]

decodeOne(o, s) ==
    IF Len(s) < lengthFieldEndOffset(o) THEN Incomplete
    ELSE LET unadjusted == readLengthField(o, s)
             length == adjustFrameLength(o, unadjusted[1])
         IN IF ~ (unadjusted[2] /\ length[2] /\ LengthInRange(o, length[1])) THEN Error
            ELSE IF Len(s) < length[1] THEN Incomplete
            ELSE IF o.strip > length[1] THEN Error
            ELSE [result |-> "frame", frame |-> SubSeq(s, o.strip + 1, length[1]),
                  consumed |-> length[1]]
----------------------------------------------------------------------------
(* Decode: append the input, then cut frames off until one is incomplete.  *)

DecodeBegin(input) ==
    /\ phase \in {"idle", "failed"}
    /\ LET history == IF phase = "failed" THEN <<>> ELSE fed
       IN /\ Len(history) + Len(input) <= MaxStream
          /\ fed' = history \o input
    /\ out' = IF phase = "failed" THEN <<>> ELSE out
    /\ phase' = "decoding"
    /\ bytes' = bytes \o input
    /\ frames' = <<>>
    /\ UNCHANGED d

DecodeFrame ==
    /\ phase = "decoding"
    /\ LET one == decodeOne(d, bytes)
       IN /\ one.result = "frame"
          /\ frames' = Append(frames, one.frame)
          /\ bytes' = SubSeq(bytes, one.consumed + 1, Len(bytes))
    /\ UNCHANGED <<d, phase, fed, out>>

DecodeReturns ==
    /\ phase = "decoding"
    /\ decodeOne(d, bytes).result = "incomplete"
    /\ phase' = "idle"
    /\ out' = out \o frames
    /\ UNCHANGED <<d, fed, bytes, frames>>

BugDecodeFails ==
    /\ phase = "decoding"
    /\ decodeOne(d, bytes).result = "error"
    /\ phase' = "failed"
    /\ UNCHANGED <<d, fed, bytes, frames, out>>

\* The frames that this call has already collected are not returned.
DecodeFails ==
    /\ phase = "decoding"
    /\ decodeOne(d, bytes).result = "error"
    /\ phase' = "failed"
    /\ bytes' = <<>>
    /\ UNCHANGED <<d, fed, frames, out>>

Inputs == UNION {[1 .. n -> Byte] : n \in 0 .. MaxInput}

Next ==
    \/ NewFrameDecoder
    \/ \E input \in Inputs : DecodeBegin(input)
    \/ DecodeFrame
    \/ DecodeReturns
    \/ DecodeFails

Spec == Init /\ [][Next]_decoderVars
----------------------------------------------------------------------------
(* Properties.                                                             *)

\* What the length field at position p of the stream declares, in plain
\* arithmetic: the digits weighted by their place, the header, the adjustment.
Weight[i \in 0 .. 8] == IF i = 0 THEN 1 ELSE Base * Weight[i - 1]
DigitSum(s, p, w, order) ==
    LET place(i) == IF order = "little" THEN i - 1 ELSE w - i
        sum[i \in 0 .. w] ==
            IF i = 0 THEN 0 ELSE sum[i - 1] + s[p + i] * Weight[place(i)]
    IN sum[w]
Declared(o, s, p) == DigitSum(s, p + o.offset, o.width, o.byteOrder)
DeclaredLength(o, s, p) == Declared(o, s, p) + o.offset + o.width + o.adjustment

\* A stream read as a whole: its frames, the position where the first
\* incomplete or malformed one begins, and whether it is malformed.
Reading(o, s) ==
    LET header == o.offset + o.width
        from[p \in 0 .. Len(s)] ==
            LET length == DeclaredLength(o, s, p)
                stop(ok) == [frames |-> <<>>, rest |-> p, ok |-> ok]
            IN IF p + header > Len(s) THEN stop(TRUE)
               ELSE IF \/ length \notin header .. Min2(o.max, MaxInt)
                       \/ o.width = 8 /\ Declared(o, s, p) > MaxInt
                       \/ p + length <= Len(s) /\ length < o.strip
               THEN stop(FALSE)
               ELSE IF p + length > Len(s) THEN stop(TRUE)
               ELSE [from[p + length] EXCEPT
                        !.frames = <<SubSeq(s, p + o.strip + 1, p + length)>> \o @]
    IN from[0]

\* Decode returns the frames of the stream and keeps its unfinished end, however
\* the stream was cut into inputs; it fails only on a malformed stream, and what
\* it returned before is then the beginning of that stream's frames
\* (frame_decoder.go, Decode and decodeOne).
StreamDecoding ==
    LET whole == Reading(d, fed)
    IN /\ phase = "idle" => /\ whole.ok
                            /\ out = whole.frames
                            /\ bytes = SubSeq(fed, whole.rest + 1, Len(fed))
       /\ phase = "failed" => /\ ~ whole.ok
                              /\ out = SubSeq(whole.frames, 1, Len(out))
                              /\ bytes = <<>>

\* Between two calls the decoder holds back less than one frame of the maximum
\* length, whatever the stream declares (frame_decoder.go, decodeOne).
ResidueBounded == phase = "idle" => Len(bytes) < d.max

\* The options are accepted exactly when they are well formed and some value of
\* the length field stands for a frame that decodeOne does not refuse for its
\* length (frame_decoder.go, validateConfiguration).
AcceptsExactlyFeasible ==
    LET header == d.offset + d.width
    IN phase # "new" =>
        (phase # "rejected" <=>
            /\ d.byteOrder \in {"little", "big"}
            /\ d.width \in {1, 2, 3, 4, 8}
            /\ d.offset \in 0 .. MaxInt /\ d.strip \in 0 .. MaxInt
            /\ \E value \in 0 .. Min2(MaxInt, Weight[d.width] - 1) :
                   value + header + d.adjustment \in header .. Min2(d.max, MaxInt))

\* Every round of the loop of Decode takes the header at least off the bytes it
\* holds, so that the loop ends (frame_decoder.go, Decode).
EveryFrameTakesBytes ==
    [][Len(frames') > Len(frames) => Len(bytes') <= Len(bytes) - d.offset - d.width]_decoderVars
=============================================================================
