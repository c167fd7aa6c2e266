------------------------------ MODULE MCAnswer ------------------------------
(***************************************************************************)
(* The pictures and the answers of the instance TLC checks.                *)
(***************************************************************************)
EXTENDS Answer

CONSTANTS
  Alphabet,    \* the characters of an answer
  MaxAnswer    \* and how many of them

\* APP0 with a thumbnail, whose frame header says 1 x 1; DHT; the frame header.
Thumbnail == [marker |-> 224, payload |-> <<255, 192, 0, 7, 8, 0, 1, 0, 1>>]
Tables == [marker |-> 196, payload |-> <<0, 99, 99, 99, 99, 99, 99>>]
Restart == [marker |-> 221, payload |-> <<0, 4>>]

Files ==
  {<<Thumbnail, Tables, FrameHeader(6, 8)>>, <<Restart, FrameHeader(6, 8), Thumbnail>>,
   <<Tables, FrameHeader(0, 8)>>, <<FrameHeader(6, 9)>>, <<Thumbnail>>}

MCPictures ==
  UNION {[media : {"image/jpeg"}, segments : {f}, cut : 0 .. Len(JpegBytes(f))] : f \in Files}
    \cup {[media |-> "image/x-mock-rgb", segments |-> <<Tables>>, cut |-> 9]}

MCAnswers == UNION {[1 .. n -> Alphabet] : n \in 1 .. MaxAnswer}
=============================================================================
