-------------------------------- MODULE Phone -------------------------------
(***************************************************************************)
(* phone/server.py: one thread that accepts, serves a connection to its    *)
(* end, and accepts again; with the image reassembler of                   *)
(* protocol/messages.py and the outcomes of phone/pipeline.py and          *)
(* phone/audio/tts.py.                                                     *)
(***************************************************************************)
EXTENDS Link

VARIABLES
  stage,      \* where the server's thread stands
  serving,    \* the accepted connection (0: none)
  reasm,      \* the ImageReassembler of handle_connection, or NoTransfer
  job,        \* content of the image in _process_and_reply, or None
  replies     \* frames still to be passed to sendall

phoneVars == <<stage, serving, reasm, job, replies>>

Stages == {"stopped", "accept", "serve", "analyse", "reply"}

\* ImageReassembler: what image_begin announced, and the dict of chunks.  The
\* keys go one past those of a transfer the glasses send.
ChunkNos == 0 .. ImgChunks
NoChunks == [n \in ChunkNos |-> None]
Transfer(of, want) == [active |-> TRUE, of |-> of, want |-> want, chunks |-> NoChunks]
NoTransfer == [active |-> FALSE, of |-> Garbled, want |-> 0, chunks |-> NoChunks]
Transfers == [active : BOOLEAN, of : Content, want : Nat,
              chunks : [ChunkNos -> Content \cup {None}]]

TypeOKPhone ==
  /\ stage \in Stages
  /\ serving \in 0 .. MaxBoots
  /\ stage \in {"serve", "analyse", "reply"} => serving \in Conns
  /\ reasm \in Transfers
  /\ job \in Content \cup {None}
  /\ replies \in Seq(Frame)

InitPhone ==
  /\ stage = "stopped"
  /\ serving = 0
  /\ reasm = NoTransfer
  /\ job = None
  /\ replies = << >>

-----------------------------------------------------------------------------
(* serve *)

StartServer ==
  /\ stage = "stopped"
  /\ stage' = "accept"
  /\ listening' = TRUE
  /\ UNCHANGED <<serving, reasm, job, replies, up, down, devEnd, phoneEnd, radio>>

Oldest(c) == c \in Waiting /\ \A d \in Waiting : c <= d

Accept ==
  /\ stage = "accept"
  /\ \E c \in Conns :
       /\ Oldest(c)
       /\ phoneEnd' = [phoneEnd EXCEPT ![c] = "open"]
       /\ serving' = c
  /\ stage' = "serve"
  /\ UNCHANGED <<reasm, job, replies, up, down, devEnd, radio, listening>>

\* handle_connection returns, its locals die, and `with conn' closes the socket.
HangUp(unread) ==
  /\ ClosedByPhone(serving, unread)
  /\ stage' = "accept"
  /\ serving' = 0
  /\ reasm' = NoTransfer
  /\ job' = None
  /\ replies' = << >>

-----------------------------------------------------------------------------
(* handle_connection *)

HeadUp == Head(up[serving])

\* The next frame, and its type.
Serves(type) ==
  /\ stage = "serve"
  /\ up[serving] # << >>
  /\ HeadUp.type = type

\* recv_frame hands the frame over, and the loop goes on to the next one.
Consume == TakenByPhone(serving)

Reply(frames) == replies' = frames /\ stage' = "reply"

\* Mutant: image_begin keeps the chunks of the transfer it interrupts.
ServeBeginKeepingChunks ==
  /\ Serves("image_begin")
  /\ Consume
  /\ reasm' = [Transfer(HeadUp.of, HeadUp.num) EXCEPT !.chunks = reasm.chunks]
  /\ UNCHANGED <<stage, serving, job, replies>>

ServeBegin ==
  /\ Serves("image_begin")
  /\ Consume
  /\ reasm' = Transfer(HeadUp.of, HeadUp.num)
  /\ UNCHANGED <<stage, serving, job, replies>>

\* add_chunk: a dict, so a repeated number replaces what came before.
ServeChunk ==
  /\ Serves("chunk")
  /\ reasm.active
  /\ Consume
  /\ reasm' = [reasm EXCEPT !.chunks = [@ EXCEPT ![HeadUp.num] = HeadUp.of]]
  /\ UNCHANGED <<stage, serving, job, replies>>

\* Error 1002, "chunk before image_begin".
ServeStrayChunk ==
  /\ Serves("chunk")
  /\ ~reasm.active
  /\ Consume
  /\ Reply(<<Msg("error", Garbled, 0)>>)
  /\ UNCHANGED <<serving, reasm, job>>

\* finish(): as many distinct chunks as announced, possibly none, with 0..want-1
\* among them, and their concatenation has the announced size and SHA-256.
Complete(r) ==
  /\ r.want <= ImgChunks + 1
  /\ \A n \in ChunkNos : r.chunks[n] # None <=> n < r.want

Image(r) ==
  IF \A n \in ChunkNos : n < r.want => r.chunks[n] = r.of THEN r.of ELSE Garbled

\* Mutant: the digest is not compared.
WholeUnverified(r) == Complete(r)

Whole(r) == Complete(r) /\ r.of # Garbled /\ Image(r) = r.of

ServeEnd ==
  /\ Serves("image_end")
  /\ reasm.active
  /\ Whole(reasm)
  /\ Consume
  /\ job' = Image(reasm)
  /\ reasm' = NoTransfer
  /\ stage' = "analyse"
  /\ UNCHANGED <<serving, replies>>

ServeStrayEnd ==
  /\ Serves("image_end")
  /\ ~reasm.active
  /\ Consume
  /\ UNCHANGED phoneVars

\* ProtocolError: a transfer that is not whole, or undecodable JSON.  The frame
\* is consumed and the connection given up.
ServeProtocolError ==
  /\ \/ Serves("image_end") /\ reasm.active /\ ~Whole(reasm)
     \/ Serves("malformed")
  /\ HangUp(Tail(up[serving]))

ServeQuery ==
  /\ \E q \in {<<"ping", "pong">>, <<"device_info", "device_info">>,
               <<"other", "error">>} :
       /\ Serves(q[1])
       /\ Reply(<<Msg(q[2], Garbled, 0)>>)
  /\ Consume
  /\ UNCHANGED <<serving, reasm, job>>

\* Mutant: an empty recv() is not taken for the end of the stream.
ServeNeverHangsUp == FALSE

\* recv_frame meets end of stream, a reset, or a dead path its kernel gave up on.
ServeHangUp ==
  /\ stage = "serve"
  /\ PhoneRecvFails(serving)
  /\ HangUp(up[serving])

-----------------------------------------------------------------------------
(* _process_and_reply *)

SpeechBegin(k) == Sized("audio_begin", k, AudChunks, AudSize)
SpeechChunk(k, i) ==
  Sized("chunk", k, i - 1, IF i < AudChunks THEN ChunkSize ELSE LastChunk)

Utterance(k) ==
  <<SpeechBegin(k)>>
    \o [i \in 1 .. AudChunks |-> SpeechChunk(k, i)]
    \o <<Msg("audio_end", Garbled, 0)>>

\* Mutant: the speech is sent before the text.
AnalyseSpeakingFirst ==
  /\ stage = "analyse"
  /\ Reply(Utterance(job) \o <<Msg("ai_response", job, 0)>>)
  /\ job' = None
  /\ UNCHANGED <<serving, reasm, linkVars>>

\* Pipeline.run returns: the answer, then the speech if a TTS engine made a WAV.
Analyse ==
  /\ stage = "analyse"
  /\ \E wav \in BOOLEAN :
       Reply(<<Msg("ai_response", job, 0)>> \o (IF wav THEN Utterance(job) ELSE << >>))
  /\ job' = None
  /\ UNCHANGED <<serving, reasm, linkVars>>

\* Provider or TTS raises an OSError: taken for the end of this connection.
AnalyseHangUp ==
  /\ stage = "analyse"
  /\ HangUp(up[serving])

SendReply ==
  /\ stage = "reply"
  /\ SentByPhone(serving, Head(replies))
  /\ replies' = Tail(replies)
  /\ stage' = IF Len(replies) = 1 THEN "serve" ELSE "reply"
  /\ UNCHANGED <<serving, reasm, job>>

\* A send fails, or pcm_from_wav cannot read the WAV once the answer is out.
ReplyHangUp ==
  /\ stage = "reply"
  /\ PhoneSendFails(serving) \/ Head(replies).type = "audio_begin"
  /\ HangUp(up[serving])

-----------------------------------------------------------------------------
\* Any other exception of the provider or the TTS leaves handle_connection and
\* serve; or the process is stopped from outside.
ServerDies ==
  /\ stage # "stopped"
  /\ stage' = "stopped"
  /\ AllClosedByPhone
  /\ serving' = 0
  /\ reasm' = NoTransfer
  /\ job' = None
  /\ replies' = << >>

PhoneSteps ==
  \/ Accept
  \/ ServeBegin \/ ServeChunk \/ ServeStrayChunk \/ ServeEnd \/ ServeStrayEnd
  \/ ServeProtocolError \/ ServeQuery \/ ServeHangUp
  \/ Analyse \/ AnalyseHangUp \/ SendReply \/ ReplyHangUp

PhoneNext == StartServer \/ PhoneSteps \/ ServerDies

-----------------------------------------------------------------------------
(* What the thread holds at each stage: what TypeOKPhone rests on *)

Resting == stage \in {"stopped", "accept"}

ServingInv ==
  /\ Resting => serving = 0 /\ reasm = NoTransfer
  /\ job # None <=> stage = "analyse"
  /\ replies # << >> <=> stage = "reply"
=============================================================================
