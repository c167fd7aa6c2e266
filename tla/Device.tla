------------------------------- MODULE Device -------------------------------
(***************************************************************************)
(* The glasses: app_main.c built with SUDONIT_RUN_UPLINK (and, with one    *)
(* connect attempt, main_interop.c), sd_device_run_uplink, and the C       *)
(* protocol functions it calls.  One task; each blocking call that can     *)
(* interleave with the phone is one action.                                *)
(***************************************************************************)
EXTENDS Link

CONSTANTS
  ConnectAttempts,   \* 5 in app_main.c, 1 in main_interop.c
  SizeT              \* where a size_t wraps: 2^32 on the ESP32

ASSUME DeviceAssumption ==
  /\ ConnectAttempts \in Nat \ {0}
  /\ SizeT \in Nat
  /\ AudSize < SizeT

VARIABLES
  boots,      \* power-ons so far: the current turn, its picture, its connection
  pc,         \* where the task stands
  attempts,   \* failed sd_transport_connect calls of this boot
  framebuf,   \* s_fb: does the app hold the camera's only frame buffer?
  sent,       \* frames of the upload already handed to the transport
  answer,     \* content of response_out (None: the empty string)
  audio,      \* the audio transfer sd_msg_recv_audio_body is filling
  played,     \* content that went through sd_audio_play_pcm, or None
  result      \* what sd_device_run_uplink returned ("none": still running; "IO"
              \* too when the boot gave up before calling it)

devVars == <<boots, pc, attempts, framebuf, sent, answer, audio, played, result>>

Points == {"off", "net", "connect", "capture", "upload", "await", "audio",
           "closing", "done"}
Errors == {"IO", "TIMEOUT", "NO_MEM", "INVALID", "UNSUPPORTED"}
Running == {"net", "connect", "capture", "upload", "await", "audio", "closing"}

Places == 0 .. AudSize - 1

\* of, want, size: digest, chunk count and size announced by audio_begin, each on
\* its own; got, total: binary frames consumed and the bytes they brought; pcm:
\* the malloc'ed buffer, of which size bytes are used.
NoAudio == [of |-> Garbled, want |-> 0, size |-> 0, got |-> 0, total |-> 0,
            pcm |-> [p \in Places |-> Garbled]]
AudioStates == [of : Content, want : Nat, size : Nat, got : Nat, total : Nat,
                pcm : [Places -> Content]]

TypeOKDevice ==
  /\ boots \in 0 .. MaxBoots
  /\ pc \in Points
  /\ pc \in Running => boots \in Conns
  /\ attempts \in 0 .. ConnectAttempts
  /\ framebuf \in BOOLEAN
  /\ sent \in 0 .. ImgChunks + 2
  /\ answer \in Content \cup {None}
  /\ audio \in AudioStates
  /\ played \in Content \cup {None}
  /\ result \in Errors \cup {"none", "OK"}

InitDevice ==
  /\ boots = 0
  /\ pc = "off"
  /\ attempts = 0
  /\ framebuf = FALSE
  /\ sent = 0
  /\ answer = None
  /\ audio = NoAudio
  /\ played = None
  /\ result = "none"

-----------------------------------------------------------------------------
(* Boot: app_main up to sd_net_start *)

\* device_init and the boot-time capture cycle take and release a frame inside
\* the step; their errors are logged and the boot goes on.
Boot ==
  /\ pc \in {"off", "done"}
  /\ boots < MaxBoots
  /\ boots' = boots + 1
  /\ pc' = "net"
  /\ attempts' = 0
  /\ sent' = 0
  /\ answer' = None
  /\ audio' = NoAudio
  /\ played' = None
  /\ result' = "none"
  /\ UNCHANGED <<framebuf, linkVars>>

\* sd_net_start; the failing branch is also that of an empty server_host.
StartNet ==
  /\ pc = "net"
  /\ \/ pc' = "connect" /\ UNCHANGED result
     \/ pc' = "done" /\ result' = "IO"
  /\ UNCHANGED <<boots, attempts, framebuf, sent, answer, audio, played, linkVars>>

Connect ==
  /\ pc = "connect"
  /\ OpenByDevice(boots)
  /\ pc' = "capture"
  /\ UNCHANGED <<boots, attempts, framebuf, sent, answer, audio, played, result>>

\* Mutant: one attempt too many.
ConnectFailsOnceMore ==
  /\ pc = "connect"
  /\ attempts' = attempts + 1
  /\ IF attempts' <= ConnectAttempts
     THEN UNCHANGED <<pc, result>>
     ELSE pc' = "done" /\ result' = "IO"
  /\ UNCHANGED <<boots, framebuf, sent, answer, audio, played, linkVars>>

\* Refused, timed out, or unreachable; the task sleeps and tries again, at most
\* ConnectAttempts times in all.
ConnectFails ==
  /\ pc = "connect"
  /\ attempts' = attempts + 1
  /\ IF attempts' < ConnectAttempts
     THEN UNCHANGED <<pc, result>>
     ELSE pc' = "done" /\ result' = "IO"
  /\ UNCHANGED <<boots, framebuf, sent, answer, audio, played, linkVars>>

-----------------------------------------------------------------------------
(* sd_device_run_uplink: capture and upload *)

\* Every return from sd_device_run_uplink leads to sd_transport_close.
Return(r) == pc' = "closing" /\ result' = r

Capture ==
  /\ pc = "capture"
  /\ IF framebuf
     THEN Return("INVALID") /\ UNCHANGED framebuf
     ELSE \/ pc' = "upload" /\ framebuf' = TRUE /\ UNCHANGED result
          \/ /\ \E r \in {"IO", "UNSUPPORTED", "NO_MEM"} : Return(r)
             /\ UNCHANGED framebuf
  /\ UNCHANGED <<boots, attempts, sent, answer, audio, played, linkVars>>

UploadFrame(i) ==
  CASE i = 0 -> Msg("image_begin", boots, ImgChunks)
    [] i \in 1 .. ImgChunks -> Msg("chunk", boots, i - 1)
    [] OTHER -> Msg("image_end", Garbled, 0)

\* sd_msg_send_image hands over the next frame; after image_end the caller
\* releases the frame buffer and turns to listen.
Upload ==
  /\ pc = "upload"
  /\ SentByDevice(boots, UploadFrame(sent))
  /\ sent' = sent + 1
  /\ IF sent' < ImgChunks + 2
     THEN UNCHANGED <<pc, framebuf>>
     ELSE pc' = "await" /\ framebuf' = FALSE
  /\ UNCHANGED <<boots, attempts, answer, audio, played, result>>

\* Mutant: the early return comes before sd_camera_release.
UploadFailsKeepingFrame ==
  /\ pc = "upload"
  /\ \E r \in DeviceSendErrors(boots) : Return(r)
  /\ UNCHANGED <<boots, attempts, framebuf, sent, answer, audio, played, linkVars>>

\* A send fails, or the chunk buffer cannot be allocated once image_begin is
\* out: the caller releases the frame buffer before it looks at the error.
UploadFails ==
  /\ pc = "upload"
  /\ \E r \in DeviceSendErrors(boots) \cup (IF sent = 1 THEN {"NO_MEM"} ELSE {}) :
       Return(r)
  /\ framebuf' = FALSE
  /\ UNCHANGED <<boots, attempts, sent, answer, audio, played, linkVars>>

-----------------------------------------------------------------------------
(* sd_device_run_uplink: the reply loop *)

HeadDown == Head(down[boots])

RecvAnswer ==
  /\ pc = "await"
  /\ TakenByDevice(boots)
  /\ HeadDown.type = "ai_response"
  /\ answer' = HeadDown.of
  /\ UNCHANGED <<boots, pc, attempts, framebuf, sent, audio, played, result>>

\* play_audio_downlink mallocs a buffer of the announced size: bytes that nothing
\* in this boot has made the announced speech.
RecvAudioBegin ==
  /\ pc = "await"
  /\ TakenByDevice(boots)
  /\ HeadDown.type = "audio_begin"
  /\ pc' = "audio"
  /\ audio' = [NoAudio EXCEPT !.of = HeadDown.of, !.want = HeadDown.num,
                              !.size = HeadDown.len]
  /\ UNCHANGED <<boots, attempts, framebuf, sent, answer, played, result>>

RecvPlayAudio ==
  /\ pc = "await"
  /\ TakenByDevice(boots)
  /\ HeadDown.type = "play_audio"
  /\ Return("OK")
  /\ UNCHANGED <<boots, attempts, framebuf, sent, answer, audio, played>>

\* An error message, a binary frame outside an audio transfer, JSON without a
\* readable "type", or an audio_begin without its fields.
RecvRefused ==
  /\ pc = "await"
  /\ TakenByDevice(boots)
  /\ HeadDown.type \in {"error", "chunk", "malformed"}
  /\ Return("IO")
  /\ UNCHANGED <<boots, attempts, framebuf, sent, answer, audio, played>>

RecvIgnored ==
  /\ pc = "await"
  /\ TakenByDevice(boots)
  /\ HeadDown.type \notin {"ai_response", "audio_begin", "play_audio", "error",
                           "chunk", "malformed"}
  /\ UNCHANGED devVars

\* Mutant: a timeout is retried for ever.
RecvFailsNotOnTimeout ==
  /\ pc \in {"await", "audio"}
  /\ \E r \in DeviceRecvErrors(boots) \ {"TIMEOUT"} : Return(r)
  /\ UNCHANGED <<boots, attempts, framebuf, sent, answer, audio, played, linkVars>>

\* Mutant: the error is recorded, the loop not left.
RecvFailsAndGoesOn ==
  /\ pc \in {"await", "audio"}
  /\ \E r \in DeviceRecvErrors(boots) : result' = r
  /\ UNCHANGED <<boots, pc, attempts, framebuf, sent, answer, audio, played, linkVars>>

RecvFails ==
  /\ pc \in {"await", "audio"}
  /\ \E r \in DeviceRecvErrors(boots) \cup {"NO_MEM"} : Return(r)
  /\ UNCHANGED <<boots, attempts, framebuf, sent, answer, audio, played, linkVars>>

-----------------------------------------------------------------------------
(* sd_msg_recv_audio_body *)

\* Where in the buffer chunk f belongs, and whether it ends within it.
Span(f) == f.num * ChunkSize .. f.num * ChunkSize + f.len - 1
Fits(f) == f.num * ChunkSize + f.len <= audio.size

\* The memcpy of chunk f, of any length, into its place in the buffer.
Placed(f) ==
  [audio EXCEPT !.got = @ + 1,
                !.total = (@ + f.len) % SizeT,
                !.pcm = [p \in Places |-> IF p \in Span(f) THEN f.of ELSE audio.pcm[p]]]

\* One of exactly `want' binary frames.  One that would end outside the buffer (or
\* has no room for its number) ends the transfer; a repeated or an empty one counts.
RecvAudioChunk ==
  /\ pc = "audio"
  /\ audio.got < audio.want
  /\ TakenByDevice(boots)
  /\ \/ /\ Binary(HeadDown)
        /\ Fits(HeadDown)
        /\ audio' = Placed(HeadDown)
        /\ UNCHANGED <<pc, result>>
     \/ /\ Binary(HeadDown) => ~Fits(HeadDown)
        /\ Return("IO")
        /\ UNCHANGED audio
  /\ UNCHANGED <<boots, attempts, framebuf, sent, answer, played>>

\* What the first `size' bytes are, compared by SHA-256 with what was announced.
Speech ==
  IF \A p \in Places : p < audio.size => audio.pcm[p] = audio.of
  THEN audio.of ELSE Garbled

\* Mutant: the digest is not compared.
AudioUnverified == TRUE

\* Mutant: the bytes received are not compared with the bytes announced.
AudioUncounted == audio.of # Garbled /\ Speech = audio.of

AudioVerified == audio.total = audio.size /\ audio.of # Garbled /\ Speech = audio.of

\* The closing control frame, whatever its type; then size and digest are checked
\* and the speech played, unless the audio driver refuses.
RecvAudioEnd ==
  /\ pc = "audio"
  /\ audio.got = audio.want
  /\ TakenByDevice(boots)
  /\ \/ /\ ~Binary(HeadDown) /\ AudioVerified
        /\ \/ played' = Speech /\ Return("OK")
           \/ UNCHANGED played /\ \E r \in {"IO", "UNSUPPORTED", "INVALID"} : Return(r)
     \/ /\ AudioVerified => Binary(HeadDown)
        /\ UNCHANGED played
        /\ Return("IO")
  /\ UNCHANGED <<boots, attempts, framebuf, sent, answer, audio>>

-----------------------------------------------------------------------------
(* End of the turn, and loss of power *)

\* Mutant: the caller returns without sd_transport_close.
ForgetsToClose ==
  /\ pc = "closing"
  /\ pc' = "done"
  /\ UNCHANGED <<boots, attempts, framebuf, sent, answer, audio, played, result,
                 linkVars>>

CloseTransport ==
  /\ pc = "closing"
  /\ ClosedByDevice(boots)
  /\ pc' = "done"
  /\ UNCHANGED <<boots, attempts, framebuf, sent, answer, audio, played, result>>

\* RAM is lost: only the boot counter, which the model keeps, survives.
Forget ==
  /\ pc' = "off"
  /\ attempts' = 0
  /\ framebuf' = FALSE
  /\ sent' = 0
  /\ answer' = None
  /\ audio' = NoAudio
  /\ played' = None
  /\ result' = "none"
  /\ UNCHANGED boots

Connected == boots \in Conns /\ devEnd[boots] = "open"

\* The host build killed, or a reset of a chip whose radio says goodbye.
Crash ==
  /\ pc \in Running
  /\ Forget
  /\ IF Connected THEN ClosedByDevice(boots) ELSE UNCHANGED linkVars

\* The battery dies: no FIN.  Of the upload in flight a prefix has arrived.
PowerLoss ==
  /\ SilentLoss
  /\ pc \in Running
  /\ Connected
  /\ Forget
  /\ devEnd' = [devEnd EXCEPT ![boots] = "closed"]
  /\ \E i \in 0 .. Len(up[boots]) :
       up' = [up EXCEPT ![boots] = SubSeq(@, 1, i)]
  /\ radio' = [radio EXCEPT ![boots] =
                 IF down[boots] # << >> THEN "retrying" ELSE "lost"]
  /\ UNCHANGED <<down, phoneEnd, listening>>

DeviceSteps ==
  \/ StartNet \/ Connect \/ ConnectFails
  \/ Capture \/ Upload \/ UploadFails
  \/ RecvAnswer \/ RecvAudioBegin \/ RecvPlayAudio \/ RecvRefused \/ RecvIgnored
  \/ RecvFails \/ RecvAudioChunk \/ RecvAudioEnd
  \/ CloseTransport

DeviceNext == Boot \/ DeviceSteps \/ Crash \/ PowerLoss

-----------------------------------------------------------------------------
(* How far a turn has come: what TypeOKDevice rests on *)

ProgressInv ==
  /\ pc = "net" => attempts = 0
  /\ pc = "connect" => attempts < ConnectAttempts
  /\ pc \in {"net", "connect", "capture"} => sent = 0
  /\ pc = "upload" => sent < ImgChunks + 2

-----------------------------------------------------------------------------
(* What the device keeps to whatever is at the other end *)

\* The camera's single frame buffer is held exactly while the image is uploaded:
\* no error path keeps it, so no later capture finds it taken (SD_ERR_INVALID).
FrameBufferNeverLeaks == framebuf <=> pc = "upload"

\* A connection is open on the device only while its turn runs: no path through
\* the turn, however it fails, leaves a socket behind.
NoSocketLeaks ==
  \A c \in Conns : devEnd[c] = "open" =>
    c = boots /\ pc \in {"capture", "upload", "await", "audio", "closing"}

\* Once sd_device_run_uplink has returned, nothing that arrives late changes what
\* it returned, what it answered or what it played.
NothingAfterReturn ==
  [][result # "none" /\ boots' = boots /\ pc' # "off"
       => UNCHANGED <<result, answer, played>>]_devVars

\* A turn comes to an end whatever the phone does, if it exists at all: the
\* promise of the bounded waits of transport_tcp.c.  (The reply loop counts
\* nothing: a peer that never stops sending is the one that could prolong it.)
TurnEnds == pc \in Running ~> pc \in {"off", "done"}
=============================================================================
