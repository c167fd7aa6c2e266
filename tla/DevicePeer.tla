----------------------------- MODULE DevicePeer -----------------------------
(***************************************************************************)
(* The glasses against a peer that need not be phone/server.py: it answers *)
(* the port and sends any frames it likes, up to a bound.                  *)
(***************************************************************************)
EXTENDS Device

CONSTANT PeerFrames   \* bound: frames the peer sends in a behaviour

ASSUME PeerAssumption == PeerFrames \in Nat

VARIABLES
  chatter,            \* frames the peer has sent
  arrived,            \* history: how often each byte of the speech has been written
  volume              \* history: bytes its chunks have brought, not wrapped

history == <<arrived, volume>>
vars == <<devVars, linkVars, chatter, history>>

NoneArrived == [p \in Places |-> 0]

\* One of each kind of reply the device tells apart.  Of an audio transfer: chunk
\* count and size announced independently, up to a chunk more and no byte more than
\* the phone's own; chunks of any length up to ChunkSize, under any number up to
\* one too many, with the announced data or with other.
AnyReply ==
  {Msg(t, Garbled, 0) : t \in {"audio_end", "play_audio", "error", "pong",
                               "malformed"}}
    \cup {Msg("ai_response", k, 0) : k \in Conns}
    \cup {Sized("audio_begin", k, n, size) :
            k \in Conns, n \in 0 .. AudChunks + 1, size \in 0 .. AudSize}
    \cup {Sized("chunk", k, n, len) :
            k \in Content, n \in 0 .. AudChunks, len \in 0 .. ChunkSize}

Live(c) == phoneEnd[c] \in {"backlog", "open"}

PeerListens ==
  /\ ~listening
  /\ listening' = TRUE
  /\ UNCHANGED <<up, down, devEnd, phoneEnd, radio, chatter>>

PeerSends ==
  /\ chatter < PeerFrames
  /\ \E c \in Conns, f \in AnyReply : Live(c) /\ SentByPhone(c, f)
  /\ chatter' = chatter + 1

PeerReads ==
  /\ \E c \in Conns : Live(c) /\ TakenByPhone(c)
  /\ UNCHANGED chatter

PeerCloses ==
  /\ \E c \in Conns : Live(c) /\ ClosedByPhone(c, up[c])
  /\ UNCHANGED chatter

Init ==
  InitLink /\ InitDevice /\ chatter = 0 /\ arrived = NoneArrived /\ volume = 0

Finished ==
  /\ boots = MaxBoots
  /\ pc \in {"off", "done"}
  /\ UNCHANGED vars

\* A chunk placed counts at each byte of its span; a new transfer starts over.
CountArrivals ==
  IF audio'.got > audio.got
  THEN /\ arrived' = [p \in Places |-> IF p \in Span(HeadDown) THEN arrived[p] + 1
                                                              ELSE arrived[p]]
       /\ volume' = volume + HeadDown.len
  ELSE IF pc \in {"audio", "closing"} /\ pc' # "off" THEN UNCHANGED history
  ELSE arrived' = NoneArrived /\ volume' = 0

Next ==
  \/ DeviceNext /\ CountArrivals /\ UNCHANGED chatter
  \/ UNCHANGED <<devVars, history>> /\ (PeerListens \/ PeerSends \/ PeerReads \/ PeerCloses)
  \/ Finished

\* Nothing is asked of the peer; the device's task runs on.
Spec ==
  Init /\ [][Next]_vars /\ WF_vars(DeviceSteps /\ CountArrivals /\ UNCHANGED chatter)

\* What goes to sd_audio_play_pcm was received whole, though sd_msg_recv_audio_body
\* counts frames and bytes but not sequence numbers, and starts from a buffer malloc
\* did not clear: every announced byte came, and none came twice (short of the 2^32
\* bytes at which the count of a 32-bit size_t wraps).
PlayedBytesArrivedOnce ==
  played # None =>
    \A p \in Places : p < audio.size =>
      arrived[p] >= 1 /\ (volume < SizeT => arrived[p] = 1)
=============================================================================
