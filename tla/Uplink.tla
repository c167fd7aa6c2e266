------------------------------- MODULE Uplink -------------------------------
(***************************************************************************)
(* The way of the image, byte by byte: sd_msg_send_image of messages.c,    *)
(* the stream of module Wire, and what handle_connection of server.py and  *)
(* the ImageReassembler of messages.py make of it.  A control message is   *)
(* its type and its numbers; the digest announced is that of the image.    *)
(***************************************************************************)
EXTENDS Wire

CONSTANT ImageSizes

ASSUME UplinkAssumption ==
  /\ ImageSizes \subseteq 0 .. Word - 1
  /\ 1 + 2 * Digits <= MaxFrame
  /\ Byte > 3

VARIABLES
  upload,       \* "none", "sending", or "taken": the phone has the image
  imageSize,    \* of the image being sent
  reasm         \* reassembler

upVars == <<upload, imageSize, reasm>>

NoTransfer == [begun |-> FALSE, size |-> 0, chunks |-> 0, data |-> << >>]

TypeOKUp ==
  /\ upload \in {"none", "sending", "taken"}
  /\ imageSize \in ImageSizes \cup {0}
  /\ reasm.begun \in BOOLEAN
  /\ reasm.size \in 0 .. Word - 1
  /\ reasm.chunks \in 0 .. Word - 1
  /\ DOMAIN reasm.data \subseteq 0 .. Word - 1
  /\ \A seq \in DOMAIN reasm.data :
       reasm.data[seq] \in Seq(Bytes) /\ Len(reasm.data[seq]) <= MaxFrame - Digits
  /\ ~reasm.begun => reasm = NoTransfer

InitUp == upload = "none" /\ imageSize = 0 /\ reasm = NoTransfer

-----------------------------------------------------------------------------
(* sd_msg_send_image *)

\* The types of the messages; what does not parse starts as a chunk does.
ImageBegin == 1
ImageEnd == 2
OtherType == 3

ImageFrames(size) ==
  <<[kind |-> KindJson,
     payload |-> <<ImageBegin>> \o BigEndian(size) \o BigEndian(Chunks(size))]>>
  \o ChunkFrames(size)
  \o <<[kind |-> KindJson, payload |-> <<ImageEnd>>]>>

SendImage(size) ==
  /\ upload = "none"
  /\ upload' = "sending"
  /\ imageSize' = size
  /\ UNCHANGED reasm
  /\ Streams(ImageFrames(size))

-----------------------------------------------------------------------------
(* handle_connection *)

EndUpload(outcome) ==
  /\ upload' = outcome
  /\ imageSize' = 0
  /\ reasm' = NoTransfer
  /\ Ended

\* recv_frame looks at the length, and not at the kind.
PhoneReceives ==
  /\ upload = "sending"
  /\ RecvSome \/ (HeaderTaken /\ Announced(got) <= MaxFrame)
  /\ UNCHANGED upVars

\* recv() fails, the glasses have closed for a failure of theirs or for want of an
\* answer, or the header is refused.
PhoneReceiveFails ==
  /\ upload = "sending"
  /\ ~Full \/ (HeaderRead /\ Announced(got) > MaxFrame)
  /\ EndUpload("none")

\* Mutant: a chunk with no data counts as short.
ShortOrEmpty(payload) == Len(payload) <= Digits

Short(payload) == Len(payload) < Digits

IsBinary == FrameGot.kind = KindBinary

\* A frame whose kind is anything else is decoded as JSON.
IsControl(type, len) ==
  ~IsBinary /\ Len(FrameGot.payload) = len /\ Head(FrameGot.payload) = type

IsBegin == IsControl(ImageBegin, 1 + 2 * Digits)
IsEnd == IsControl(ImageEnd, 1)

\* Answered by pong, device_info or an error, as is a chunk before image_begin.
IsAnswered ==
  IF IsBinary THEN ~reasm.begun
  ELSE FrameGot.payload # << >> /\ Head(FrameGot.payload) = OtherType

PhoneFrame == upload = "sending" /\ FrameRead

BeginTaken ==
  /\ PhoneFrame
  /\ IsBegin
  /\ reasm' = [begun |-> TRUE,
               size |-> Value(SubSeq(FrameGot.payload, 2, 1 + Digits)),
               chunks |-> Value(SubSeq(FrameGot.payload, 2 + Digits, 1 + 2 * Digits)),
               data |-> << >>]
  /\ AwaitFrame
  /\ UNCHANGED <<upload, imageSize>>

\* A later chunk of the same number replaces the earlier.
Stored(chunks, seq, data) ==
  [k \in DOMAIN chunks \cup {seq} |-> IF k = seq THEN data ELSE chunks[k]]

ChunkAdded ==
  /\ PhoneFrame
  /\ IsBinary /\ reasm.begun /\ ~Short(FrameGot.payload)
  /\ reasm' = [reasm EXCEPT !.data = Stored(@, Seqno, Data)]
  /\ AwaitFrame
  /\ UNCHANGED <<upload, imageSize>>

FramePassedOver ==
  /\ PhoneFrame
  /\ IsAnswered \/ (IsEnd /\ ~reasm.begun)
  /\ AwaitFrame
  /\ UNCHANGED upVars

\* The chunks are all there, as many and as long together as announced, and their
\* digest is that of the image sent and of no other bytes.
Finishes ==
  /\ DOMAIN reasm.data = 0 .. reasm.chunks - 1
  /\ LET image == FlattenSeq([i \in 1 .. reasm.chunks |-> reasm.data[i - 1]]) IN
       /\ Len(image) = reasm.size
       /\ image = [b \in 1 .. imageSize |-> Content(imageSize)[b - 1]]

ImageTaken ==
  /\ PhoneFrame
  /\ IsEnd /\ reasm.begun /\ Finishes
  /\ EndUpload("taken")

\* ProtocolError.
FrameRefused ==
  /\ PhoneFrame
  /\ ~IsAnswered
  /\ \/ IsBinary /\ Short(FrameGot.payload)
     \/ IsEnd /\ reasm.begun /\ ~Finishes
     \/ ~IsBinary /\ ~IsBegin /\ ~IsEnd
  /\ EndUpload("none")

UplinkStep ==
  \/ \E size \in ImageSizes : SendImage(size)
  \/ PhoneReceives \/ PhoneReceiveFails
  \/ BeginTaken \/ ChunkAdded \/ FramePassedOver \/ ImageTaken \/ FrameRefused

-----------------------------------------------------------------------------
(* Properties *)

\* While nothing was damaged, however send() and recv() cut the stream, the chunks the
\* reassembler holds are the first ones of the image, each under its own number, and
\* what it expects is what was announced.
UndamagedChunks ==
  reasm.begun /\ damages = 0 =>
    /\ reasm.size = imageSize /\ reasm.chunks = Chunks(imageSize)
    /\ DOMAIN reasm.data = 0 .. Cardinality(DOMAIN reasm.data) - 1
    /\ \A seq \in DOMAIN reasm.data : reasm.data[seq] = Slice(imageSize, seq)
=============================================================================
