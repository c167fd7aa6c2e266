-------------------------------- MODULE Wire --------------------------------
(***************************************************************************)
(* One direction of a connection byte by byte: the chunk frames of a       *)
(* transfer, a sender whose send() takes what the kernel has room for, a   *)
(* TCP path that cuts the stream anywhere and may damage it, and the loop  *)
(* over recv() that fills a header, then a payload.  Both ends have both   *)
(* loops.  A frame is [kind, payload]; the bytes are numbers below Byte.   *)
(***************************************************************************)
EXTENDS Widths, SequencesExt

CONSTANTS
  KindJson, KindBinary,
  MaxFrame,     \* SD_MAX_FRAME_BYTES
  Chunk,        \* SD_CHUNK_SIZE, DEFAULT_CHUNK_SIZE
  SockBytes,    \* bound: bytes the kernels hold
  MaxDamage     \* bound: bytes damaged in one transfer

ASSUME WireAssumption ==
  /\ KindJson \in 0 .. Byte - 1
  /\ KindBinary \in (0 .. Byte - 1) \ {KindJson}
  /\ Chunk \in Nat \ {0}
  /\ MaxFrame \in Digits + Chunk .. Word - 1
  /\ SockBytes \in Nat \ {0}
  /\ MaxDamage \in Nat

VARIABLES
  outgoing,     \* bytes the sender has still to hand to the kernel
  wire,         \* bytes sent and not yet received
  damages,      \* bytes damaged so far in this transfer
  header,       \* the header, once it is read: its payload follows
  got           \* what the receiver has filled of its buffer

wireVars == <<outgoing, wire, damages, header, got>>

Bytes == 0 .. Byte - 1
Kinds == {KindJson, KindBinary}
HeaderSize == 1 + Digits
NoHeader == << >>

\* uint32_t, big-endian.
BigEndian(n) == [i \in 1 .. Digits |-> (n \div Powers[Digits - i]) % Byte]

Value(ds) ==
  LET value[i \in 0 .. Len(ds)] == IF i = 0 THEN 0 ELSE value[i - 1] * Byte + ds[i]
  IN  value[Len(ds)]

Encode(f) == <<f.kind>> \o BigEndian(Len(f.payload)) \o f.payload

TypeOKWire ==
  /\ outgoing \in Seq(Bytes)
  /\ wire \in Seq(Bytes) /\ Len(wire) <= SockBytes
  /\ damages \in 0 .. MaxDamage
  /\ header \in Seq(Bytes)
  /\ got \in Seq(Bytes)
  /\ IF header = NoHeader THEN Len(got) <= HeaderSize
     ELSE Len(header) = HeaderSize /\ Len(got) <= MaxFrame

InitWire ==
  /\ outgoing = << >> /\ wire = << >> /\ damages = 0
  /\ header = NoHeader /\ got = << >>

\* A connection on which one end is to send these frames.
Streams(frames) ==
  /\ outgoing' = FlattenSeq([i \in DOMAIN frames |-> Encode(frames[i])])
  /\ wire' = << >>
  /\ damages' = 0
  /\ header' = NoHeader
  /\ got' = << >>

Ended == Streams(<< >>)

-----------------------------------------------------------------------------
(* A transfer in chunks *)

\* Its bytes tell where they belong.
Content(size) == [b \in 0 .. size - 1 |-> b % Byte]

\* Mutant: the last, partial chunk is forgotten.
WholeChunks(size) == IF size < Chunk THEN 1 ELSE size \div Chunk

\* An empty transfer is one empty chunk.
Chunks(size) == IF size = 0 THEN 1 ELSE (size + Chunk - 1) \div Chunk

Slice(size, seq) ==
  LET start == seq * Chunk IN
    [k \in 1 .. (IF size - start < Chunk THEN size - start ELSE Chunk) |->
       Content(size)[start + k - 1]]

ChunkFrame(size, seq) ==
  [kind |-> KindBinary, payload |-> BigEndian(seq) \o Slice(size, seq)]

ChunkFrames(size) == [i \in 1 .. Chunks(size) |-> ChunkFrame(size, i - 1)]

-----------------------------------------------------------------------------
(* Sender and path *)

\* Mutant: the loop starts over at the beginning of the buffer.
StillToSend(bytes, n) == IF n < Len(bytes) THEN Tail(bytes) ELSE << >>

\* buf + sent
Unsent(bytes, n) == SubSeq(bytes, n + 1, Len(bytes))

\* The kernel takes some more of what send() was given.
SenderWrites ==
  \E n \in 1 .. Len(outgoing) :
    /\ Len(wire) + n <= SockBytes
    /\ wire' = wire \o SubSeq(outgoing, 1, n)
    /\ outgoing' = Unsent(outgoing, n)
    /\ UNCHANGED <<damages, header, got>>

\* send() fails or times out, or the sender dies: the rest is never sent.
SenderStops ==
  /\ outgoing # << >>
  /\ outgoing' = << >>
  /\ UNCHANGED <<wire, damages, header, got>>

ByteDamaged ==
  /\ damages < MaxDamage
  /\ damages' = damages + 1
  /\ \E i \in DOMAIN wire : \E b \in Bytes \ {wire[i]} :
       wire' = [wire EXCEPT ![i] = b]
  /\ UNCHANGED <<outgoing, header, got>>

-----------------------------------------------------------------------------
(* sd_transport_recv, _recv_exactly *)

\* recv() into buf + got.
Joined(a, b) == a \o b

Announced(hdr) == Value(Tail(hdr))

\* How many bytes have been asked for.
Want == IF header = NoHeader THEN HeaderSize ELSE Announced(header)

Full == Len(got) = Want

RecvSome ==
  /\ ~Full
  /\ \E n \in 1 .. Len(wire) :
       /\ Len(got) + n <= Want
       /\ got' = Joined(got, SubSeq(wire, 1, n))
       /\ wire' = SubSeq(wire, n + 1, Len(wire))
  /\ UNCHANGED <<outgoing, damages, header>>

-----------------------------------------------------------------------------
(* sd_frame_recv, recv_frame *)

HeaderRead == header = NoHeader /\ Full

HeaderTaken ==
  /\ HeaderRead
  /\ header' = got
  /\ got' = << >>
  /\ UNCHANGED <<outgoing, wire, damages>>

FrameRead == header # NoHeader /\ Full

\* What is returned to the caller, and the two parts of a chunk's payload.
FrameGot == [kind |-> header[1], payload |-> got]

Seqno == Value(SubSeq(FrameGot.payload, 1, Digits))
Data == SubSeq(FrameGot.payload, Digits + 1, Len(FrameGot.payload))

AwaitFrame ==
  /\ header' = NoHeader
  /\ got' = << >>
  /\ UNCHANGED <<outgoing, wire, damages>>
=============================================================================
