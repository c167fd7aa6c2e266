------------------------------ MODULE Downlink ------------------------------
(***************************************************************************)
(* The way of the speech, byte by byte: send_audio of messages.py, the     *)
(* stream of module Wire, sd_msg_recv_audio_body of messages.c, and the    *)
(* playback of module AudioOut.  The audio_begin of an utterance has been  *)
(* read, as module Device has it.                                          *)
(***************************************************************************)
EXTENDS AudioOut, Wire

VARIABLES
  phase,      \* "idle", "body" or "play"
  taken,      \* i: chunk frames consumed
  total,      \* bytes in them, a size_t
  pcm         \* the buffer from malloc, by offset

bodyVars == <<phase, taken, total, pcm>>

\* What malloc left there: it vouches for no digest.
Unset == -1
NoBuffer == << >>

TypeOKBody ==
  /\ TypeOKAudio
  /\ phase \in {"idle", "body", "play"}
  /\ taken \in 0 .. Word
  /\ total \in 0 .. Word - 1
  /\ \A b \in DOMAIN pcm : pcm[b] \in Bytes \cup {Unset}

InitBody == phase = "idle" /\ taken = 0 /\ total = 0 /\ pcm = NoBuffer

-----------------------------------------------------------------------------
(* send_audio *)

\* The text of audio_end, which nobody reads.
AudioEnd == [kind |-> KindJson, payload |-> <<0>>]

AudioBody(size) == ChunkFrames(size) \o <<AudioEnd>>

Announce(u) ==
  /\ phase = "idle"
  /\ u.channels # 0
  /\ Streams(AudioBody(u.size))
  /\ last' = u
  /\ result' = "none"
  /\ written' = 0
  /\ phase' = "body"
  /\ taken' = 0
  /\ total' = 0
  /\ pcm' = [b \in 0 .. u.size - 1 |-> Unset]
  /\ UNCHANGED <<channel, rate, channels>>

Refuse(u) ==
  /\ phase = "idle"
  /\ Rejected(u)
  /\ UNCHANGED <<wireVars, bodyVars>>

-----------------------------------------------------------------------------
(* sd_msg_recv_audio_body *)

Freed == taken' = 0 /\ total' = 0 /\ pcm' = NoBuffer

\* The turn fails, and with it the connection ends.
BodyFails(code) ==
  /\ Ends(last, code, 0)
  /\ phase' = "idle"
  /\ Freed
  /\ Ended
  /\ UNCHANGED <<channel, rate, channels>>

\* sd_frame_recv checks the header against a limit and against its buffer.
Sound(hdr) == hdr[1] \in Kinds /\ Announced(hdr) <= MaxFrame
FitsFrame(hdr) == Announced(hdr) <= Digits + Chunk

Receive ==
  /\ phase = "body"
  /\ RecvSome \/ (HeaderTaken /\ Sound(got) /\ FitsFrame(got))
  /\ UNCHANGED <<audioVars, bodyVars>>

\* Nothing came for SD_IO_TIMEOUT_MS; the peer has closed or recv() fails; or the
\* header is refused.
ReceiveFails ==
  /\ phase = "body"
  /\ \/ ~Full /\ wire = << >> /\ BodyFails("TIMEOUT")
     \/ ~Full /\ BodyFails("IO")
     \/ HeaderRead /\ ~Sound(got) /\ BodyFails("IO")
     \/ HeaderRead /\ Sound(got) /\ ~FitsFrame(got) /\ BodyFails("NO_MEM")

\* Mutant: with a 32-bit size_t.
FitsIn32Bits(seq, n) == (((seq * Chunk) % Word) + n) % Word <= last.size

\* In 64 bits, where nothing wraps.
Fits(seq, n) == seq * Chunk + n <= last.size

IsChunk ==
  /\ FrameGot.kind = KindBinary
  /\ Len(FrameGot.payload) >= Digits
  /\ Fits(Seqno, Len(Data))

\* memcpy to pcm + (size_t)off, whatever lies there.
CopiedTo(at, data) ==
  LET here == at .. at + Len(data) - 1
  IN [b \in DOMAIN pcm \cup here |-> IF b \in here THEN data[b - at + 1] ELSE pcm[b]]

\* Mutant: the offset counts chunks of this one's length.
CopiedByLength(seq, data) == CopiedTo((seq * Len(data)) % Word, data)

Copied(seq, data) == CopiedTo((seq * Chunk) % Word, data)

MoreChunks == taken < Chunks(last.size)

TakeChunk ==
  /\ phase = "body" /\ FrameRead /\ MoreChunks
  /\ IsChunk
  /\ pcm' = Copied(Seqno, Data)
  /\ total' = (total + Len(Data)) % Word
  /\ taken' = taken + 1
  /\ AwaitFrame
  /\ UNCHANGED <<phase, audioVars>>

RefuseChunk ==
  /\ phase = "body" /\ FrameRead /\ MoreChunks
  /\ ~IsChunk
  /\ BodyFails("IO")

\* The digest is that of the speech announced and of no other bytes.
Verified ==
  /\ FrameGot.kind = KindJson
  /\ total = last.size
  /\ \A b \in 0 .. last.size - 1 : pcm[b] = Content(last.size)[b]

TakeEnd ==
  /\ phase = "body" /\ FrameRead /\ ~MoreChunks
  /\ Verified
  /\ phase' = "play"
  /\ Ended
  /\ UNCHANGED <<taken, total, pcm, audioVars>>

RefuseEnd ==
  /\ phase = "body" /\ FrameRead /\ ~MoreChunks
  /\ ~Verified
  /\ BodyFails("IO")

Play ==
  /\ phase = "play"
  /\ InitRefuses(last) \/ InitFails(last) \/ Plays(last)
  /\ phase' = "idle"
  /\ Freed
  /\ UNCHANGED wireVars

DownlinkStep ==
  \/ Receive \/ ReceiveFails
  \/ TakeChunk \/ RefuseChunk \/ TakeEnd \/ RefuseEnd
  \/ Play

-----------------------------------------------------------------------------
(* Properties *)

\* sd_msg_recv_audio_body never writes outside the buffer, also where size_t has 32
\* bits and a damaged sequence number makes the offset wrap.
WritesInBuffer == phase = "body" => DOMAIN pcm = 0 .. last.size - 1

\* However TCP cuts the stream, what has been received undamaged is what has been
\* sent so far, each byte at its place.
UndamagedPrefix ==
  phase = "body" /\ damages = 0 =>
    \A b \in 0 .. last.size - 1 :
      pcm[b] = IF b < taken * Chunk THEN Content(last.size)[b] ELSE Unset
=============================================================================
