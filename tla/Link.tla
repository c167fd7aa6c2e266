-------------------------------- MODULE Link --------------------------------
(***************************************************************************)
(* The TCP data plane between the glasses and the phone, as the two ends   *)
(* see it through transport_tcp.c / transport_wifi.c on the device and     *)
(* Python's blocking sockets on the phone.                                 *)
(*                                                                         *)
(* The device opens at most one connection per power-on, so a connection   *)
(* is named by the number of the boot that opened it.  A unit of transfer  *)
(* is a whole frame: sd_frame_recv and recv_frame take all of a frame or   *)
(* give the connection up, so a frame cut short is a frame that never came.*)
(***************************************************************************)
EXTENDS Integers, Sequences, FiniteSets

CONSTANTS
  MaxBoots,     \* bound: power-ons of the device that a behaviour may have
  ImgChunks,    \* binary chunks of a captured image
  AudChunks,    \* binary chunks of a rendered utterance
  ChunkSize,    \* SD_CHUNK_SIZE, in whatever unit: what a chunk holds
  LastChunk,    \* what the last chunk of the utterance holds of it
  SockBuf,      \* frames one direction of a connection holds before send blocks
  Backlog,      \* connections the kernel completes before accept() takes them
  SilentLoss    \* may the radio vanish without a FIN or RST reaching the peer?

ASSUME LinkAssumption ==
  /\ MaxBoots \in Nat
  /\ ImgChunks \in Nat \ {0}
  /\ AudChunks \in Nat \ {0}
  /\ ChunkSize \in Nat \ {0}
  /\ LastChunk \in 1 .. ChunkSize
  /\ SockBuf \in Nat \ {0}
  /\ Backlog \in Nat \ {0}
  /\ SilentLoss \in BOOLEAN

VARIABLES
  up,           \* frames in flight from the device to the phone
  down,         \* frames in flight from the phone to the device
  devEnd,       \* the device's descriptor of each connection
  phoneEnd,     \* the phone's end: completed by the kernel, accepted, closed
  radio,        \* is the path under the connection alive?
  listening     \* does a listening socket exist on the phone's port?

linkVars == <<up, down, devEnd, phoneEnd, radio, listening>>

Conns == 1 .. MaxBoots

(***************************************************************************)
(* Content identity: k > 0 is what belongs to the picture taken in boot k  *)
(* (its bytes, its answer, its speech); Garbled is any byte string that    *)
(* matches no announced SHA-256.  An announced digest is the content it    *)
(* was computed from.                                                      *)
(***************************************************************************)
Garbled == 0
Content == 0 .. MaxBoots
None == -1

ControlTypes == {"image_begin", "image_end", "ai_response", "audio_begin",
                 "audio_end", "play_audio", "error", "ping", "pong",
                 "device_info", "other", "malformed"}
FrameTypes == ControlTypes \cup {"chunk"}

\* num: the sequence number of a chunk, the chunk count a begin announces.
\* len: the bytes of speech in a chunk, the size an audio_begin announces.  (The
\* phone joins image chunks by number whatever their lengths: those are part of
\* the content.)
Frame == [type : FrameTypes, of : Content, num : Nat, len : Nat]

Sized(type, of, num, len) == [type |-> type, of |-> of, num |-> num, len |-> len]
Msg(type, of, num) == Sized(type, of, num, 0)
Malformed == Msg("malformed", Garbled, 0)
Binary(f) == f.type = "chunk"
Announces(f) == f.type \in {"image_begin", "audio_begin"}

\* Bytes of a rendered utterance.
AudSize == (AudChunks - 1) * ChunkSize + LastChunk

TypeOKLink ==
  /\ up \in [Conns -> Seq(Frame)]
  /\ down \in [Conns -> Seq(Frame)]
  /\ devEnd \in [Conns -> {"none", "open", "closed"}]
  /\ phoneEnd \in [Conns -> {"none", "backlog", "open", "closed"}]
  /\ radio \in [Conns -> {"up", "lost", "retrying"}]
  /\ listening \in BOOLEAN

InitLink ==
  /\ up = [c \in Conns |-> << >>]
  /\ down = [c \in Conns |-> << >>]
  /\ devEnd = [c \in Conns |-> "none"]
  /\ phoneEnd = [c \in Conns |-> "none"]
  /\ radio = [c \in Conns |-> "up"]
  /\ listening = FALSE

-----------------------------------------------------------------------------
(* The device's end *)

Waiting == {c \in Conns : phoneEnd[c] = "backlog"}

\* sd_transport_connect succeeds: the phone's kernel has completed the handshake.
OpenByDevice(c) ==
  /\ listening
  /\ Cardinality(Waiting) < Backlog
  /\ devEnd' = [devEnd EXCEPT ![c] = "open"]
  /\ phoneEnd' = [phoneEnd EXCEPT ![c] = "backlog"]
  /\ UNCHANGED <<up, down, radio, listening>>

\* sd_transport_send took all of f.  On a dead path, or to a peer that has
\* closed, the bytes go into the kernel and no further.
SentByDevice(c, f) ==
  /\ IF radio[c] # "up" \/ phoneEnd[c] = "closed"
     THEN UNCHANGED up
     ELSE /\ Len(up[c]) < SockBuf
          /\ up' = [up EXCEPT ![c] = Append(@, f)]
  /\ UNCHANGED <<down, devEnd, phoneEnd, radio, listening>>

\* SO_SNDTIMEO: the send buffer stayed full for SD_IO_TIMEOUT_MS.
DeviceSendErrors(c) ==
  (IF Len(up[c]) >= SockBuf \/ radio[c] # "up" THEN {"TIMEOUT"} ELSE {})
    \cup (IF phoneEnd[c] = "closed" /\ radio[c] = "up" THEN {"IO"} ELSE {})

\* SO_RCVTIMEO may strike however late the next frame is; end of stream and
\* reset are heard only over a live path, once everything sent has been read.
DeviceRecvErrors(c) ==
  {"TIMEOUT"} \cup
  (IF down[c] = << >> /\ phoneEnd[c] = "closed" /\ radio[c] = "up"
   THEN {"IO"} ELSE {})

TakenByDevice(c) ==
  /\ down[c] # << >>
  /\ down' = [down EXCEPT ![c] = Tail(@)]
  /\ UNCHANGED <<up, devEnd, phoneEnd, radio, listening>>

\* close(2) with input unread resets the connection, and a reset may overtake
\* what the other side has not read yet.
ClosedByDevice(c) ==
  /\ devEnd' = [devEnd EXCEPT ![c] = "closed"]
  /\ \/ UNCHANGED up
     \/ down[c] # << >> /\ up' = [up EXCEPT ![c] = << >>]
  /\ UNCHANGED <<down, phoneEnd, radio, listening>>

-----------------------------------------------------------------------------
(* The phone's end *)

SentByPhone(c, f) ==
  /\ IF radio[c] # "up"
     THEN UNCHANGED down /\ radio' = [radio EXCEPT ![c] = "retrying"]
     ELSE /\ UNCHANGED radio
          /\ IF devEnd[c] = "closed"
             THEN UNCHANGED down
             ELSE /\ Len(down[c]) < SockBuf
                  /\ down' = [down EXCEPT ![c] = Append(@, f)]
  /\ UNCHANGED <<up, devEnd, phoneEnd, listening>>

\* The phone sets no socket timeout: sendall fails only on a reset, or when its
\* kernel gives up retransmitting into a dead path.
PhoneSendFails(c) ==
  \/ devEnd[c] = "closed" /\ radio[c] = "up"
  \/ radio[c] = "retrying"

PhoneRecvFails(c) ==
  /\ up[c] = << >>
  /\ PhoneSendFails(c)

TakenByPhone(c) ==
  /\ up[c] # << >>
  /\ up' = [up EXCEPT ![c] = Tail(@)]
  /\ UNCHANGED <<down, devEnd, phoneEnd, radio, listening>>

\* Closing with input unread resets, and may cost the device replies in flight.
ClosedByPhone(c, unread) ==
  /\ phoneEnd' = [phoneEnd EXCEPT ![c] = "closed"]
  /\ up' = [up EXCEPT ![c] = unread]
  /\ \/ UNCHANGED down
     \/ unread # << >> /\ down' = [down EXCEPT ![c] = << >>]
  /\ UNCHANGED <<devEnd, radio, listening>>

\* The server process ends: its kernel closes the listener and every connection.
AllClosedByPhone ==
  /\ listening' = FALSE
  /\ phoneEnd' = [c \in Conns |->
                    IF phoneEnd[c] \in {"backlog", "open"} THEN "closed"
                                                          ELSE phoneEnd[c]]
  /\ \E reset \in SUBSET {c \in Conns : up[c] # << >>} :
       down' = [c \in Conns |-> IF c \in reset THEN << >> ELSE down[c]]
  /\ UNCHANGED <<up, devEnd, radio>>

-----------------------------------------------------------------------------
(* The path between them *)

\* The glasses leave radio range: of what was in flight a prefix has arrived;
\* the rest, and every FIN and RST from now on, is lost.
PathLost(c) ==
  /\ SilentLoss
  /\ radio[c] = "up"
  /\ phoneEnd[c] \in {"backlog", "open"}
  /\ \E i \in 0 .. Len(up[c]), j \in 0 .. Len(down[c]) :
       /\ up' = [up EXCEPT ![c] = SubSeq(@, 1, i)]
       /\ down' = [down EXCEPT ![c] = SubSeq(@, 1, j)]
       /\ radio' = [radio EXCEPT ![c] = IF j < Len(down[c]) THEN "retrying"
                                                            ELSE "lost"]
  /\ UNCHANGED <<devEnd, phoneEnd, listening>>

\* What damage that TCP's checksum misses makes of a frame: nothing readable; a
\* chunk of other data, under its own number or a wrong one (the next stands for
\* all); or an announcement of something else than what follows.  SHA-256 over the
\* whole transfer is the code's guard against the last two.  Assumed away is what
\* the protocol has no guard against: a control frame that stays well-formed and
\* says something else.  A header that no longer measures its frame ends the
\* connection like a frame that never came; and what befalls a frame that nobody
\* will read makes no difference.
Damages(f) ==
  {Malformed}
    \cup {[g EXCEPT !.of = Garbled] : g \in {h \in {f} : Binary(h) \/ Announces(h)}}
    \cup {[g EXCEPT !.of = Garbled, !.num = @ + 1] :
            g \in {h \in {f} : Binary(h) /\ h.of # Garbled}}

Damaged(c) ==
  \/ \E i \in DOMAIN up[c] : \E f \in Damages(up[c][i]) :
       /\ phoneEnd[c] # "closed"
       /\ up' = [up EXCEPT ![c][i] = f]
       /\ UNCHANGED down
  \/ \E i \in DOMAIN down[c] : \E f \in Damages(down[c][i]) :
       /\ devEnd[c] # "closed"
       /\ down' = [down EXCEPT ![c][i] = f]
       /\ UNCHANGED up

Damage(c) ==
  /\ Damaged(c)
  /\ UNCHANGED <<devEnd, phoneEnd, radio, listening>>
=============================================================================
