---------------------------- MODULE MessageStream ---------------------------
(***************************************************************************)
(* Messages from a sender to a TCP reader: Encoder.Encode in Send,         *)
(* writeFull in the writer, the socket, the reader's Read and processInput *)
(* with the connection's FrameDecoder (module FrameDecoder) and            *)
(* Decoder.Decode.  Writes are short, reads cut the stream anywhere, and a *)
(* write may fail with part of a message on the wire.                      *)
(***************************************************************************)
EXTENDS FrameDecoder

CONSTANTS Events,       \* event numbers used
          Bodies,       \* message bodies used
          MaxMessages,  \* bound: calls of Send that encode
          MaxShort      \* bound: a short write takes at most so many bytes

headerSize == 8

\* The options the server and every connection give their decoder.
ServerDecoderOptions(maxFrameLength) ==
    [byteOrder |-> "little", max |-> maxFrameLength, offset |-> 4, width |-> 4,
     adjustment |-> 0, strip |-> 0]

ASSUME MessageStreamAssumption ==
    /\ \A o \in Options : o = ServerDecoderOptions(o.max)
    /\ Events \subseteq 0 .. MaxUint32
    /\ \A b \in Bodies : b \in Seq(Byte)
    /\ MaxMessages \in Nat /\ MaxShort \in Nat

VARIABLES
    sent,         \* messages that Send put on c.outgoing, in order
    outgoing,     \* c.outgoing: their encodings not yet taken by the writer
    writing,      \* what writeFull still has to write
    written,      \* history: messages that are on the wire entirely
    wire,         \* bytes in the socket
    writerEnd,    \* "no", "closed" once drained and closed, "error"
    undelivered,  \* frames that processInput has not handled yet
    received,     \* messages handed to handleRequest, in order
    readerEnd     \* "no", "clean", "partial" (EOF inside a frame), "error"
                  \* (input refused), "broken" (Read failed)

streamVars == <<d, phase, fed, bytes, frames, out, sent, outgoing, writing, written,
                wire, writerEnd, undelivered, received, readerEnd>>
senderVars == <<sent, outgoing, writing, written, writerEnd>>
readerVars == <<decoderVars, undelivered, received, readerEnd>>

StreamInit ==
    /\ Init
    /\ sent = <<>> /\ outgoing = <<>> /\ writing = <<>> /\ written = 0
    /\ wire = <<>> /\ writerEnd = "no"
    /\ undelivered = <<>> /\ received = <<>> /\ readerEnd = "no"
----------------------------------------------------------------------------
(* The sender.                                                             *)

PutUint32(n) == <<n % Base, (n \div Base) % Base, (n \div Base2) % Base,
                  (n \div (Base2 * Base)) % Base>>

maxEncodedBodyLength == Min2(MaxInt - headerSize, MaxUint32)

\* Encode is called for bodies that pass validateEncodedBodyLength.
Encode(message) ==
    PutUint32(message.event) \o PutUint32(Len(message.body)) \o message.body

BugSend(message) ==
    /\ phase \notin {"new", "rejected"}
    /\ writerEnd = "no"
    /\ Len(sent) < MaxMessages
    /\ sent' = Append(sent, message)
    /\ outgoing' = Append(outgoing, Encode(message))
    /\ UNCHANGED <<writing, written, wire, writerEnd, readerVars>>

\* Send of a message whose body is too long returns the error of Encode.
Send(message) ==
    /\ phase \notin {"new", "rejected"}
    /\ writerEnd = "no"
    /\ Len(sent) < MaxMessages
    /\ Len(message.body) <= maxEncodedBodyLength
    /\ sent' = Append(sent, message)
    /\ outgoing' = Append(outgoing, Encode(message))
    /\ UNCHANGED <<writing, written, wire, writerEnd, readerVars>>

\* runWriter takes the next message and calls writeFull.
WriterTakes ==
    /\ writerEnd = "no" /\ writing = <<>> /\ outgoing # <<>>
    /\ writing' = Head(outgoing)
    /\ outgoing' = Tail(outgoing)
    /\ UNCHANGED <<sent, written, wire, writerEnd, readerVars>>

\* A Write of what is left takes n bytes of it.
ShortOrFull(n) == n <= MaxShort \/ n = Len(writing)
WriteBytes(n) ==
    /\ writerEnd = "no"
    /\ n <= Len(writing) /\ ShortOrFull(n)
    /\ wire' = wire \o SubSeq(writing, 1, n)
    /\ written' = IF n > 0 /\ n = Len(writing) THEN written + 1 ELSE written

BugWrite(n) ==
    /\ n > 0
    /\ WriteBytes(n)
    /\ writing' = <<>>
    /\ UNCHANGED <<sent, outgoing, writerEnd, readerVars>>

Write(n) ==
    /\ n > 0
    /\ WriteBytes(n)
    /\ writing' = SubSeq(writing, n + 1, Len(writing))
    /\ UNCHANGED <<sent, outgoing, writerEnd, readerVars>>

\* Write returned an error, or no bytes at all: the writer ends, the socket is
\* closed.
WriteFails(n) ==
    /\ writing # <<>>
    /\ WriteBytes(n)
    /\ writerEnd' = "error"
    /\ UNCHANGED <<sent, outgoing, writing, readerVars>>

\* The writer has drained c.outgoing and the connection is closed.
WriterCloses ==
    /\ phase \notin {"new", "rejected"}
    /\ writerEnd = "no" /\ writing = <<>> /\ outgoing = <<>>
    /\ writerEnd' = "closed"
    /\ UNCHANGED <<sent, outgoing, writing, written, wire, readerVars>>
----------------------------------------------------------------------------
(* The reader.                                                             *)

Read(n) ==
    /\ phase = "idle" /\ readerEnd = "no" /\ undelivered = <<>>
    /\ n <= Len(wire)
    /\ DecodeBegin(SubSeq(wire, 1, n))
    /\ wire' = SubSeq(wire, n + 1, Len(wire))
    /\ UNCHANGED <<senderVars, undelivered, received, readerEnd>>

FramesReturned ==
    /\ DecodeReturns
    /\ undelivered' = frames
    /\ UNCHANGED <<senderVars, wire, received, readerEnd>>

\* processInput returns the error; the reader reports it and closes.
DecodingError ==
    /\ DecodeFails
    /\ readerEnd' = "error"
    /\ UNCHANGED <<senderVars, wire, undelivered, received>>

\* Decoder.Decode of a frame: its message and whether the sizes agree.
LittleUint32(s, i) == Uint32(BigEndian("little", SubSeq(s, i, i + 3)), 1)
Decode(frame) ==
    IF Len(frame) < headerSize THEN <<[event |-> 0, body |-> <<>>], FALSE>>
    ELSE LET body == SubSeq(frame, headerSize + 1, Len(frame))
         IN <<[event |-> LittleUint32(frame, 1), body |-> body],
              Len(body) <= MaxUint32 /\ LittleUint32(frame, 5) = Len(body)>>

Deliver ==
    /\ readerEnd = "no" /\ undelivered # <<>>
    /\ LET message == Decode(Head(undelivered))
       IN IF message[2]
          THEN /\ received' = Append(received, message[1])
               /\ undelivered' = Tail(undelivered)
               /\ UNCHANGED readerEnd
          ELSE /\ readerEnd' = "error"
               /\ UNCHANGED <<received, undelivered>>
    /\ UNCHANGED <<senderVars, wire, decoderVars>>

\* EOF: frameDecoderHasPending tells whether the peer ended inside a frame.
ReadEOF ==
    /\ phase = "idle" /\ readerEnd = "no" /\ undelivered = <<>>
    /\ writerEnd # "no" /\ wire = <<>>
    /\ readerEnd' = IF bytes # <<>> THEN "partial" ELSE "clean"
    /\ UNCHANGED <<senderVars, wire, decoderVars, undelivered, received>>

\* Any other error of Read, with or without data before it: what is still on the
\* wire, and an incomplete frame, are lost with the connection.
ReadFails ==
    /\ phase = "idle" /\ readerEnd = "no" /\ undelivered = <<>>
    /\ readerEnd' = "broken"
    /\ UNCHANGED <<senderVars, wire, decoderVars, undelivered, received>>

Messages == [event : Events, body : Bodies]

StreamNext ==
    \/ NewFrameDecoder /\ UNCHANGED <<senderVars, wire, undelivered, received, readerEnd>>
    \/ \E message \in Messages : Send(message)
    \/ WriterTakes
    \/ \E n \in 1 .. Len(writing) : Write(n)
    \/ \E n \in 0 .. Len(writing) : WriteFails(n)
    \/ WriterCloses
    \/ \E n \in 1 .. Min2(MaxInput, Len(wire)) : Read(n)
    \/ DecodeFrame /\ UNCHANGED <<senderVars, wire, undelivered, received, readerEnd>>
    \/ FramesReturned
    \/ DecodingError
    \/ Deliver
    \/ ReadEOF
    \/ ReadFails

StreamSpec == StreamInit /\ [][StreamNext]_streamVars
----------------------------------------------------------------------------
(* Properties.                                                             *)

TooLarge(message) == headerSize + Len(message.body) > d.max

\* The reader hands over the messages that were sent, unchanged and in order,
\* never one that was not sent and none above the frame limit, whatever the
\* short writes and the cuts (encoder.go, decoder.go, writeFull, processInput).
Delivery ==
    /\ Len(received) <= written
    /\ \A i \in 1 .. Len(received) : received[i] = sent[i] /\ ~ TooLarge(sent[i])

\* How the reader ends tells what happened: a clean end means that every message
\* on the wire was received, and after an orderly close every one sent; a partial
\* end that the writer stopped inside one, and refused input that a message was
\* larger than the frame limit (TCPConnection.reader, processInput).  Nothing is
\* concluded from a Read that fails.
EndClassified ==
    /\ readerEnd = "clean" => /\ Len(received) = written
                              /\ writerEnd = "closed" => received = sent
    /\ readerEnd = "partial" => /\ writerEnd = "error"
                                /\ Len(received) = written
                                /\ Len(sent) > written
    /\ readerEnd = "error" => \E i \in Len(received) + 1 .. Len(sent) : TooLarge(sent[i])
=============================================================================
