--------------------------- MODULE MCFrameDecoder ---------------------------
(* FrameDecoder on bytes of one bit: a word has the values 0 .. 255.        *)
EXTENDS FrameDecoder

\* Options for which short streams hold several frames, and every width.
StreamOptions ==
    [byteOrder : {"little", "big"}, max : {4, 6}, offset : {0, 1}, width : {1, 2, 3},
     adjustment : {-1, 0, 1}, strip : {0, 4}]
    \cup [byteOrder : {"little", "big"}, max : {8, 200}, offset : {0}, width : {4, 8},
          adjustment : {-3, 0}, strip : {0}]

\* The edges of int and uint64, each with ordinary values of the others.
EdgeOptions ==
    LET usual == [byteOrder |-> "big", max |-> 6, offset |-> 1, width |-> 2,
                  adjustment |-> 0, strip |-> 0]
    IN {[usual EXCEPT !.byteOrder = "nil"], [usual EXCEPT !.strip = -1]}
       \cup {[usual EXCEPT !.max = m, !.offset = f, !.width = w, !.adjustment = a] :
               m \in {0, 1, 127, 255}, f \in {-1, 119, 126, 127}, w \in {0, 1, 5, 8},
               a \in {-128, -127, -2, -1, 0, 1, 127}}

MCOptions == StreamOptions \cup EdgeOptions
=============================================================================
