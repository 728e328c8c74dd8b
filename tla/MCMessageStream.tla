--------------------------- MODULE MCMessageStream --------------------------
(* MessageStream on bytes of one bit: headers of 8 bytes, lengths up to 15. *)
EXTENDS MessageStream

MCOptions == {ServerDecoderOptions(m) : m \in {7, 10}}

\* The last body is longer than a length field of 4 bytes can say.
MCBodies == {<<>>, <<1, 0>>, <<0, 1, 1>>, [i \in 1 .. 17 |-> 0]}
=============================================================================
