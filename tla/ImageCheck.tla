----------------------------- MODULE ImageCheck -----------------------------
(***************************************************************************)
(* The structural check of image.py on what the camera delivers: a JPEG    *)
(* file of marker segments, of which a capture that overran the frame      *)
(* buffer holds only the first bytes, or the raw pixels of the host mock.  *)
(* A picture is [media, segments, cut]; bytes are numbers below 256.       *)
(***************************************************************************)
EXTENDS Integers, SequencesExt

CONSTANT MaxDimension      \* _MAX_DIMENSION

ASSUME ImageAssumption == MaxDimension \in Nat

Word16(s, i) == s[i] * 256 + s[i + 1]
Bytes16(n) == <<n \div 256, n % 256>>

Marker == 255
Soi == 216
\* DHT, JPG and DAC share the range of the frame headers.
FrameHeaders == 192 .. 207 \ {196, 200, 204}
Standalone == {1} \cup 208 .. 217

\* A marker segment has a length of two bytes, and the header of a frame its size.
Segment ==
  {s \in [marker : 2 .. 254 \ Standalone, payload : Seq(0 .. 255)] :
     Len(s.payload) + 2 < 65536 /\ (s.marker \in FrameHeaders => Len(s.payload) > 4)}

FrameHeader(height, width) ==
  [marker |-> 192, payload |-> <<8>> \o Bytes16(height) \o Bytes16(width)]

SegmentBytes(s) == <<Marker, s.marker>> \o Bytes16(Len(s.payload) + 2) \o s.payload

JpegBytes(segments) ==
  <<Marker, Soi>> \o FlattenSeq([i \in DOMAIN segments |-> SegmentBytes(segments[i])])

IsPicture(p) == p.segments \in Seq(Segment) /\ p.cut \in 0 .. Len(JpegBytes(p.segments))

\* What the frame buffer holds of it.
Data(p) == SubSeq(JpegBytes(p.segments), 1, p.cut)

Invalid == <<0, 0>>

\* Mutant: a segment is not skipped but searched.
NextIn(s, i) == i + 4

\* i += seg_len
NextAfter(s, i) == i + 2 + Word16(s, i + 2)

\* The loop of _jpeg_dimensions: height and width from the marker sought at i on.
DimensionsAt(s, rest, i) ==
  IF i + 1 > Len(s) THEN Invalid
  ELSE IF s[i] # Marker THEN rest[i + 1]
  ELSE IF s[i + 1] \in Standalone THEN rest[i + 2]
  ELSE IF i + 3 > Len(s) \/ Word16(s, i + 2) < 2 THEN Invalid
  ELSE IF s[i + 1] \notin FrameHeaders THEN rest[NextAfter(s, i)]
  ELSE IF i + 8 > Len(s) THEN Invalid
  ELSE <<Word16(s, i + 5), Word16(s, i + 7)>>

\* Height and width, or Invalid for any of its errors.
JpegDimensions(s) ==
  LET from[i \in Nat] == DimensionsAt(s, from, i)
  IN  IF Len(s) < 2 \/ SubSeq(s, 1, 2) # <<Marker, Soi>> THEN Invalid ELSE from[3]

\* validate_image raises nothing.
Accepted(p) ==
  /\ p.cut > 0
  /\ p.media = "image/jpeg" =>
       \A k \in 1 .. 2 : JpegDimensions(Data(p))[k] \in 1 .. MaxDimension

-----------------------------------------------------------------------------
(* What a decoder would find, from how the file was put together. *)

IsFrameHeader(s) == s.marker \in FrameHeaders

\* Where the frame header's dimensions end.
HeaderEnd(p) ==
  LET i == SelectInSeq(p.segments, IsFrameHeader) IN
    Len(JpegBytes(SubSeq(p.segments, 1, i - 1))) + 9

Decodable(p) ==
  LET i == SelectInSeq(p.segments, IsFrameHeader) IN
    /\ i # 0
    /\ HeaderEnd(p) <= p.cut
    /\ \A k \in {2, 4} : Word16(p.segments[i].payload, k) \in 1 .. MaxDimension
=============================================================================
