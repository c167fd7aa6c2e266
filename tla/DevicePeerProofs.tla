-------------------------- MODULE DevicePeerProofs --------------------------
(***************************************************************************)
(* What the glasses keep to whatever is at the other end of the connection:*)
(* they give back the frame buffer and the socket, and play nothing that   *)
(* has not arrived whole.                                                  *)
(***************************************************************************)
EXTENDS DevicePeer, EndProofs, FiniteSetTheorems

\* Of what the glasses send nothing is asked here but that it is frames.
AnyFrames == [c \in Conns |-> Frame]
AnyReplies == [c \in Conns |-> AnyReply]

PeerInv ==
  /\ Intact(AnyFrames, AnyReplies)
  /\ DeviceTypes
  /\ FrameBufferNeverLeaks
  /\ NoSocketLeaks

\* A peer that lies about everything still sends frames.
LEMMA RepliesAreFrames == AnyReply \subseteq Frame
<1>1. Garbled \in Content /\ Conns \subseteq Content
  BY LinkAssumption DEF Content, Garbled, Conns
<1>2. /\ 0 .. AudChunks + 1 \subseteq Nat /\ 0 .. AudChunks \subseteq Nat
      /\ 0 .. AudSize \subseteq Nat /\ 0 .. ChunkSize \subseteq Nat /\ 0 \in Nat
  OBVIOUS
<1>3. /\ \A t \in FrameTypes, k \in Content, n, l \in Nat : Sized(t, k, n, l) \in Frame
      /\ \A t \in FrameTypes, k \in Content : Msg(t, k, 0) \in Frame
      /\ {"audio_end", "play_audio", "error", "pong", "malformed", "ai_response",
          "audio_begin", "chunk"} \subseteq FrameTypes
  BY <1>2, MsgIsFrame DEF FrameTypes, ControlTypes
<1> QED
  BY <1>1, <1>2, <1>3 DEF AnyReply

\* Both are sets of frames each connection may carry.
LEMMA AnyFramesType == AnyFrames \in FrameSets /\ AnyReplies \in FrameSets
BY RepliesAreFrames DEF AnyFrames, AnyReplies, FrameSets

\* What the upload loop sends is a frame, whatever part of the image it stands at.
LEMMA UploadIsFrame ==
  ASSUME DeviceTypes, pc = "upload"
  PROVE  UploadFrame(sent) \in AnyFrames[boots]
<1>1. boots \in Conns /\ boots \in Content /\ sent \in Nat /\ Garbled \in Content
  BY LinkAssumption DEF DeviceTypes, TypeOKDevice, Running, Conns, Content, Garbled
<1>2. /\ Msg("image_begin", boots, ImgChunks) \in Frame
      /\ sent \in 1 .. ImgChunks => Msg("chunk", boots, sent - 1) \in Frame
      /\ Msg("image_end", Garbled, 0) \in Frame
  BY <1>1, LinkAssumption, MsgIsFrame DEF FrameTypes, ControlTypes
<1> QED
  BY <1>1, <1>2 DEF UploadFrame, AnyFrames

\* A step of the peer, listening, sending, reading or closing, keeps the link
\* well formed and leaves the glasses alone.
LEMMA PeerStep ==
  ASSUME PeerInv, PeerListens \/ PeerSends \/ PeerReads \/ PeerCloses
  PROVE  Intact(AnyFrames, AnyReplies)' /\ UNCHANGED devEnd
<1>0. Intact(AnyFrames, AnyReplies) /\ AnyFrames \in FrameSets /\ AnyReplies \in FrameSets
  BY AnyFramesType DEF PeerInv
<1>1. CASE PeerListens
  BY <1>0, <1>1 DEF PeerListens, Intact, TypeOKLink
<1>2. CASE PeerSends
  <2>1. PICK c \in Conns, f \in AnyReply : SentByPhone(c, f)
    BY <1>2 DEF PeerSends
  <2>2. f \in AnyReplies[c]
    BY DEF AnyReplies
  <2> QED
    BY <1>0, <2>1, <2>2, SentByPhoneIntact DEF SentByPhone
<1>3. CASE PeerReads
  BY <1>0, <1>3, TakenByPhoneIntact DEF PeerReads, TakenByPhone
<1>4. CASE PeerCloses
  BY <1>0, <1>4, ClosedByPhoneIntact DEF PeerCloses, ClosedByPhone, Intact
<1> QED
  BY <1>1, <1>2, <1>3, <1>4

\* Power-on state: nothing is open and no frame buffer is held.
LEMMA PeerInvInit == Init => PeerInv
<1> SUFFICES ASSUME Init PROVE PeerInv
  OBVIOUS
<1>1. DeviceTypes
  BY DeviceTypesInit DEF Init
<1>2. Intact(AnyFrames, AnyReplies)
  BY EmptySeq DEF Init, InitLink, Intact, TypeOKLink, AnyFrames, AnyReplies
<1>3. FrameBufferNeverLeaks /\ NoSocketLeaks
  BY DEF Init, InitLink, InitDevice, FrameBufferNeverLeaks, NoSocketLeaks
<1> QED
  BY <1>1, <1>2, <1>3 DEF PeerInv

\* Each step of the glasses, the peer or the path keeps types, frames, the frame
\* buffer and the socket in order.
LEMMA PeerInvStep == PeerInv /\ [Next]_vars => PeerInv'
<1> SUFFICES ASSUME PeerInv, [Next]_vars PROVE PeerInv'
  OBVIOUS
<1>0. /\ Intact(AnyFrames, AnyReplies) /\ TypeOKLink /\ DeviceTypes
      /\ FrameBufferNeverLeaks /\ NoSocketLeaks
  BY DEF PeerInv, Intact
<1>1. CASE DeviceNext
  <2>1. Intact(AnyFrames, AnyReplies)'
    BY <1>0, <1>1, AnyFramesType, UploadIsFrame, DeviceNextIntact
  <2> QED
    BY <1>0, <1>1, <2>1, DeviceNextTypes, DeviceNextFrameBuffer, DeviceNextSocket
       DEF PeerInv
<1>2. CASE UNCHANGED devVars /\ (PeerListens \/ PeerSends \/ PeerReads \/ PeerCloses)
  BY <1>0, <1>2, PeerStep
     DEF PeerInv, devVars, DeviceTypes, TypeOKDevice, ProgressInv, FrameBufferNeverLeaks,
         NoSocketLeaks
<1>3. CASE UNCHANGED vars
  BY <1>0, <1>3
     DEF vars, devVars, linkVars, PeerInv, Intact, TypeOKLink, DeviceTypes, TypeOKDevice,
         ProgressInv, FrameBufferNeverLeaks, NoSocketLeaks
<1> QED
  BY <1>1, <1>2, <1>3 DEF Next, Finished

\* PeerInv holds throughout.
LEMMA PeerInvariance == Spec => []PeerInv
BY PeerInvInit, PeerInvStep, PTL DEF Spec

-----------------------------------------------------------------------------
(* Speech that arrived whole *)

Covered == {p \in Places : arrived[p] > 0}

\* Of a transfer under way the bytes written are no more than the chunks brought, and
\* fewer once one came twice; a byte not written is not what was announced; and the
\* total the code keeps is the true one while it has not wrapped.
CountsInv ==
  /\ Covered \subseteq 0 .. audio.size - 1
  /\ Cardinality(Covered) <= volume
  /\ (\E p \in Places : arrived[p] > 1) => Cardinality(Covered) < volume
  /\ \A p \in Places : arrived[p] = 0 => audio.pcm[p] = Garbled
  /\ volume < SizeT => audio.total = volume

ArrivalsInv ==
  /\ arrived \in [Places -> Nat]
  /\ volume \in Nat
  /\ audio.size <= AudSize
  /\ pc = "audio" => CountsInv
  /\ pc \notin {"closing", "done"} => played = None
  /\ PlayedBytesArrivedOnce

\* There are finitely many bytes.
LEMMA CoveredFinite ==
  ASSUME arrived \in [Places -> Nat]
  PROVE  IsFiniteSet(Covered) /\ Cardinality(Covered) \in Nat
<1>1. IsFiniteSet(0 .. AudSize - 1)
  BY AudSizeType, FS_Interval
<1> QED
  BY <1>1, FS_Subset, FS_CardinalityType DEF Covered, Places

\* A frame the device reads is one of those the peer may send.
LEMMA HeadDownIsReply ==
  ASSUME PeerInv, pc \in {"await", "audio"}, TakenByDevice(boots)
  PROVE  /\ HeadDown \in Frame
         /\ HeadDown.type = "audio_begin" => HeadDown.len <= AudSize
<1>1. boots \in Conns
  BY DEF PeerInv, DeviceTypes, TypeOKDevice, Running
<1>2. HeadDown \in AnyReply /\ HeadDown \in Frame
  BY <1>1, AnyFramesType, TakenByDeviceIntact DEF PeerInv, HeadDown, AnyReplies
<1>3. \A n \in 0 .. AudSize : n <= AudSize
  BY AudSizeType
<1> QED
  BY <1>2, <1>3 DEF AnyReply, Msg, Sized

\* A transfer begins with nothing written.
LEMMA ArrivalsBegin ==
  ASSUME PeerInv, ArrivalsInv, RecvAudioBegin, CountArrivals
  PROVE  ArrivalsInv'
<1>1. /\ audio' = [NoAudio EXCEPT !.of = HeadDown.of, !.want = HeadDown.num,
                                  !.size = HeadDown.len]
      /\ pc = "await" /\ pc' = "audio" /\ played' = None
  BY DEF RecvAudioBegin, ArrivalsInv
<1>2. HeadDown \in Frame /\ HeadDown.len <= AudSize
  BY HeadDownIsReply DEF RecvAudioBegin
<1>3. /\ audio'.got = 0 /\ audio'.size = HeadDown.len /\ audio'.total = 0
      /\ \A p \in Places : audio'.pcm[p] = Garbled
  BY <1>1 DEF NoAudio
<1>4. audio.got \in Nat
  BY DEF PeerInv, DeviceTypes, TypeOKDevice, AudioStates
<1>5. arrived' = NoneArrived /\ volume' = 0
  BY <1>1, <1>3, <1>4 DEF CountArrivals
<1>6. Covered' = {}
  BY <1>5 DEF Covered, NoneArrived
<1>7. Cardinality(Covered') = 0
  BY <1>6, FS_EmptySet
<1>8. CountsInv'
  BY <1>3, <1>5, <1>6, <1>7 DEF CountsInv, NoneArrived
<1> QED
  BY <1>1, <1>2, <1>3, <1>5, <1>8
     DEF ArrivalsInv, NoneArrived, PlayedBytesArrivedOnce

\* A chunk adds its bytes to those written; the ones it repeats are not new.
LEMMA CoveredGrows ==
  ASSUME NEW S \in SUBSET Places, NEW len \in Nat,
         IsFiniteSet(S), Cardinality(S) = len,
         arrived \in [Places -> Nat], volume \in Nat,
         Cardinality(Covered) <= volume,
         (\E p \in Places : arrived[p] > 1) => Cardinality(Covered) < volume,
         arrived' = [p \in Places |-> IF p \in S THEN arrived[p] + 1 ELSE arrived[p]]
  PROVE  /\ arrived' \in [Places -> Nat]
         /\ Covered' = Covered \cup S
         /\ Cardinality(Covered') <= volume + len
         /\ (\E p \in Places : arrived'[p] > 1) => Cardinality(Covered') < volume + len
<1>1. IsFiniteSet(Covered) /\ Cardinality(Covered) \in Nat
  BY CoveredFinite
<1>2. arrived' \in [Places -> Nat] /\ Covered' = Covered \cup S
  BY DEF Covered
<1>3. Cardinality(Covered') = Cardinality(Covered) + len - Cardinality(Covered \cap S)
  BY <1>1, <1>2, FS_Union
<1>4. IsFiniteSet(Covered \cap S) /\ Cardinality(Covered \cap S) \in Nat
  BY <1>1, FS_Intersection, FS_CardinalityType
<1>5. ASSUME NEW p \in Places, arrived'[p] > 1
      PROVE  Cardinality(Covered) < volume \/ Cardinality(Covered \cap S) > 0
  <2>1. CASE arrived[p] > 1
    BY <2>1
  <2>2. CASE ~(arrived[p] > 1)
    <3>1. p \in Covered \cap S
      BY <1>5, <2>2 DEF Covered
    <3>2. Cardinality(Covered \cap S) # 0
      BY <1>4, <3>1, FS_EmptySet
    <3> QED
      BY <1>4, <3>2
  <2> QED
    BY <2>1, <2>2
<1> DEFINE c == Cardinality(Covered)
           i == Cardinality(Covered \cap S)
<1>6. /\ c \in Nat /\ i \in Nat /\ c <= volume /\ Cardinality(Covered') = c + len - i
      /\ \A p \in Places : arrived'[p] > 1 => c < volume \/ i > 0
  BY <1>1, <1>3, <1>4, <1>5
<1> HIDE DEF c, i
<1>7. /\ Cardinality(Covered') <= volume + len
      /\ c < volume \/ i > 0 => Cardinality(Covered') < volume + len
  BY <1>6
<1> QED
  BY <1>2, <1>6, <1>7

\* A chunk that fits lies within the bytes announced, and the running total counts
\* its bytes modulo the width of size_t.
LEMMA ChunkFits ==
  ASSUME audio \in AudioStates, audio.size <= AudSize, volume \in Nat,
         volume < SizeT => audio.total = volume,
         HeadDown \in Frame, Fits(HeadDown)
  PROVE  /\ Span(HeadDown) \subseteq 0 .. audio.size - 1
         /\ Span(HeadDown) \in SUBSET Places
         /\ IsFiniteSet(Span(HeadDown))
         /\ Cardinality(Span(HeadDown)) = HeadDown.len
         /\ Placed(HeadDown).got = audio.got + 1
         /\ Placed(HeadDown).size = audio.size
         /\ volume + HeadDown.len < SizeT => Placed(HeadDown).total = volume + HeadDown.len
         /\ \A p \in Places : Placed(HeadDown).pcm[p] =
              IF p \in Span(HeadDown) THEN HeadDown.of ELSE audio.pcm[p]
<1> DEFINE o == HeadDown.num * ChunkSize
           l == HeadDown.len
<1>1. HeadDown.num \in Nat /\ l \in Nat /\ ChunkSize \in Nat
  BY LinkAssumption DEF Frame
<1>2. o \in Nat
  BY <1>1
<1>3. audio.size \in Nat /\ AudSize \in Nat
  BY AudSizeType DEF AudioStates
<1>4. Span(HeadDown) = o .. o + l - 1 /\ o + l <= audio.size
  BY DEF Span, Fits
<1>5. /\ Placed(HeadDown).got = audio.got + 1
      /\ Placed(HeadDown).size = audio.size
      /\ Placed(HeadDown).total = (audio.total + l) % SizeT
      /\ \A p \in Places : Placed(HeadDown).pcm[p] =
              IF p \in Span(HeadDown) THEN HeadDown.of ELSE audio.pcm[p]
  BY Zenon DEF Placed, AudioStates
<1> HIDE DEF o, l
<1>6. Span(HeadDown) \subseteq 0 .. audio.size - 1 /\ Span(HeadDown) \in SUBSET Places
  BY <1>1, <1>2, <1>3, <1>4 DEF Places
<1>7. IsFiniteSet(Span(HeadDown)) /\ Cardinality(Span(HeadDown)) = l
  <2> DEFINE e == o + l - 1
  <2>1. o \in Int /\ e \in Int /\ (IF o > e THEN 0 ELSE e - o + 1) = l
    BY <1>1, <1>2
  <2>2. Span(HeadDown) = o .. e
    BY <1>4
  <2> HIDE DEF e
  <2>3. IsFiniteSet(o .. e) /\ Cardinality(o .. e) = IF o > e THEN 0 ELSE e - o + 1
    BY <2>1, FS_Interval
  <2> QED
    BY <2>1, <2>2, <2>3
<1>8. volume + l < SizeT => (audio.total + l) % SizeT = volume + l
  BY <1>1, DeviceAssumption
<1> QED
  BY <1>5, <1>6, <1>7, <1>8 DEF l

\* A chunk writes bytes that no chunk had, or is counted for bytes another brought.
LEMMA ArrivalsChunk ==
  ASSUME PeerInv, ArrivalsInv, RecvAudioChunk, CountArrivals
  PROVE  ArrivalsInv'
<1>1. /\ pc = "audio" /\ CountsInv /\ played' = None /\ played = None
      /\ audio \in AudioStates /\ arrived \in [Places -> Nat] /\ volume \in Nat
      /\ audio.size <= AudSize
  BY DEF RecvAudioChunk, ArrivalsInv, PeerInv, DeviceTypes, TypeOKDevice
<1>2. HeadDown \in Frame
  BY <1>1, HeadDownIsReply DEF RecvAudioChunk
<1>3. audio.got \in Nat /\ HeadDown.len \in Nat
  BY <1>1, <1>2 DEF AudioStates, Frame
<1>4. CASE Fits(HeadDown) /\ audio' = Placed(HeadDown) /\ pc' = pc
  <2> DEFINE S == Span(HeadDown)
  <2>1. /\ S \subseteq 0 .. audio.size - 1 /\ S \in SUBSET Places
        /\ IsFiniteSet(S) /\ Cardinality(S) = HeadDown.len
        /\ audio'.got = audio.got + 1 /\ audio'.size = audio.size
        /\ volume + HeadDown.len < SizeT => audio'.total = volume + HeadDown.len
        /\ \A p \in Places :
             audio'.pcm[p] = IF p \in S THEN HeadDown.of ELSE audio.pcm[p]
    BY <1>1, <1>2, <1>4, ChunkFits DEF CountsInv
  <2>2. /\ arrived' = [p \in Places |-> IF p \in S THEN arrived[p] + 1 ELSE arrived[p]]
        /\ volume' = volume + HeadDown.len
    BY <1>3, <2>1 DEF CountArrivals
  <2> HIDE DEF S
  <2>3. /\ arrived' \in [Places -> Nat]
        /\ Covered' = Covered \cup S
        /\ Cardinality(Covered') <= volume'
        /\ (\E p \in Places : arrived'[p] > 1) => Cardinality(Covered') < volume'
    BY <1>1, <1>3, <2>1, <2>2, CoveredGrows DEF CountsInv
  <2>4. Covered' \subseteq 0 .. audio'.size - 1
    BY <1>1, <2>1, <2>3 DEF CountsInv
  <2>5. \A p \in Places : arrived'[p] = 0 => audio'.pcm[p] = Garbled
    BY <1>1, <2>1, <2>2 DEF CountsInv
  <2>6. CountsInv'
    BY <2>1, <2>2, <2>3, <2>4, <2>5 DEF CountsInv
  <2> QED
    BY <1>1, <1>3, <2>1, <2>2, <2>3, <2>6 DEF ArrivalsInv, PlayedBytesArrivedOnce
<1>5. CASE pc' = "closing" /\ audio' = audio
  <2>1. UNCHANGED history
    BY <1>1, <1>3, <1>5 DEF CountArrivals
  <2> QED
    BY <1>1, <1>5, <2>1 DEF history, ArrivalsInv, PlayedBytesArrivedOnce
<1> QED
  BY <1>4, <1>5 DEF RecvAudioChunk, Return

\* The digest vouches for every announced byte: each was written, and with as many
\* received as announced none can have come twice.
LEMMA ArrivalsEnd ==
  ASSUME PeerInv, ArrivalsInv, RecvAudioEnd, CountArrivals
  PROVE  ArrivalsInv'
<1>1. /\ pc = "audio" /\ pc' = "closing" /\ audio' = audio
      /\ CountsInv /\ audio \in AudioStates /\ arrived \in [Places -> Nat]
      /\ audio.size <= AudSize /\ volume \in Nat
  BY DEF RecvAudioEnd, Return, ArrivalsInv, PeerInv, DeviceTypes, TypeOKDevice
<1>2. audio.got \in Nat /\ audio.size \in Nat /\ AudSize \in Nat
  BY <1>1, AudSizeType DEF AudioStates
<1>3. arrived' = arrived /\ volume' = volume
  BY <1>1, <1>2 DEF CountArrivals, history
<1>4. ASSUME AudioVerified
      PROVE  \A p \in Places : p < audio.size =>
               arrived[p] >= 1 /\ (volume < SizeT => arrived[p] = 1)
  <2>1. \A p \in Places : p < audio.size => audio.pcm[p] # Garbled
    BY <1>4 DEF AudioVerified, Speech
  <2>2. \A p \in Places : p < audio.size => arrived[p] # 0
    BY <1>1, <2>1 DEF CountsInv
  <2>3. 0 .. audio.size - 1 \subseteq Covered
    BY <1>1, <1>2, <2>2 DEF Covered, Places
  <2>4. Covered = 0 .. audio.size - 1
    BY <1>1, <2>3 DEF CountsInv
  <2>5. Cardinality(Covered) = audio.size
    BY <1>2, <2>4, FS_Interval
  <2>6. volume < SizeT => ~\E p \in Places : arrived[p] > 1
    BY <1>1, <1>2, <1>4, <2>5 DEF CountsInv, AudioVerified
  <2> QED
    BY <1>1, <2>2, <2>6
<1>5. played' # None => AudioVerified
  <2>1. played = None
    BY <1>1 DEF ArrivalsInv
  <2> QED
    BY <2>1 DEF RecvAudioEnd
<1> QED
  BY <1>1, <1>3, <1>4, <1>5 DEF ArrivalsInv, PlayedBytesArrivedOnce

\* The other steps either end the turn or carry on with nothing played.
LEMMA ArrivalsOther ==
  ASSUME PeerInv, ArrivalsInv, DeviceNext, CountArrivals,
         ~RecvAudioBegin, ~RecvAudioChunk, ~RecvAudioEnd
  PROVE  ArrivalsInv'
<1>1. audio' = audio \/ audio' = NoAudio
  BY DEF DeviceNext, DeviceSteps, Boot, StartNet, Connect, ConnectFails, Capture, Upload,
         UploadFails, RecvAnswer, RecvPlayAudio, RecvRefused, RecvIgnored, RecvFails,
         CloseTransport, Crash, PowerLoss, Forget, devVars
<1>2. audio.got \in Nat /\ NoAudio.got = 0 /\ NoAudio.size = 0
  BY DEF PeerInv, DeviceTypes, TypeOKDevice, AudioStates, NoAudio
<1>3. audio'.size <= AudSize /\ ~(audio'.got > audio.got)
  BY <1>1, <1>2, AudSizeType DEF ArrivalsInv
<1>4. IF pc \in {"audio", "closing"} /\ pc' # "off"
      THEN arrived' = arrived /\ volume' = volume
      ELSE arrived' = NoneArrived /\ volume' = 0
  BY <1>3 DEF CountArrivals, history
<1>5. arrived' \in [Places -> Nat] /\ volume' \in Nat
  BY <1>4 DEF ArrivalsInv, NoneArrived
<1>6. /\ pc' # "audio"
      /\ played' = None \/ (pc = "closing" /\ pc' = "done" /\ played' = played /\ audio' = audio)
  BY DEF DeviceNext, DeviceSteps, Boot, StartNet, Connect, ConnectFails, Capture, Upload,
         UploadFails, RecvAnswer, RecvPlayAudio, RecvRefused, RecvIgnored, RecvFails,
         CloseTransport, Crash, PowerLoss, Forget, Return, devVars, ArrivalsInv
<1>7. PlayedBytesArrivedOnce'
  BY <1>4, <1>6 DEF ArrivalsInv, PlayedBytesArrivedOnce
<1> QED
  BY <1>3, <1>5, <1>6, <1>7 DEF ArrivalsInv

\* Arrivals are counted right throughout.
LEMMA ArrivalsInvariance == Spec => []ArrivalsInv
<1>1. Init => ArrivalsInv
  BY AudSizeType
     DEF Init, InitDevice, ArrivalsInv, NoneArrived, NoAudio, PlayedBytesArrivedOnce
<1>2. PeerInv /\ ArrivalsInv /\ [Next]_vars => ArrivalsInv'
  <2> SUFFICES ASSUME PeerInv, ArrivalsInv, [Next]_vars PROVE ArrivalsInv'
    OBVIOUS
  <2>1. CASE DeviceNext /\ CountArrivals
    BY <2>1, ArrivalsBegin, ArrivalsChunk, ArrivalsEnd, ArrivalsOther
  <2>2. CASE UNCHANGED <<devVars, history>>
    BY <2>2 DEF devVars, history, ArrivalsInv, CountsInv, Covered, PlayedBytesArrivedOnce
  <2> QED
    BY <2>1, <2>2 DEF Next, Finished, vars
<1> QED
  BY <1>1, <1>2, PeerInvariance, PTL DEF Spec

-----------------------------------------------------------------------------
(* After the return *)

\* A turn has no result before it ends.
ResultInv == pc \in Running \ {"closing"} => result = "none"

\* The result is written by the step that leaves for the close, or that gives up.
LEMMA ResultStep == ResultInv /\ [Next]_vars => ResultInv'
<1> SUFFICES ASSUME ResultInv, [Next]_vars PROVE ResultInv'
  OBVIOUS
<1> USE DEF ResultInv, Running
<1>1. CASE Boot \/ StartNet \/ Connect \/ ConnectFails
  BY <1>1 DEF Boot, StartNet, Connect, ConnectFails
<1>2. CASE Capture \/ Upload \/ UploadFails
  BY <1>2 DEF Capture, Upload, UploadFails, Return
<1>3. CASE RecvAnswer \/ RecvAudioBegin \/ RecvPlayAudio \/ RecvRefused \/ RecvIgnored
           \/ RecvFails
  BY <1>3 DEF RecvAnswer, RecvAudioBegin, RecvPlayAudio, RecvRefused, RecvIgnored,
              RecvFails, Return, devVars
<1>4. CASE RecvAudioChunk \/ RecvAudioEnd
  BY <1>4 DEF RecvAudioChunk, RecvAudioEnd, Return
<1>5. CASE CloseTransport \/ Crash \/ PowerLoss
  BY <1>5 DEF CloseTransport, Crash, PowerLoss, Forget
<1>6. CASE UNCHANGED devVars
  BY <1>6 DEF devVars
<1> QED
  BY <1>1, <1>2, <1>3, <1>4, <1>5, <1>6 DEF Next, DeviceNext, DeviceSteps, Finished, vars

\* Once there is a result only the close, a crash or the next boot are left to happen.
LEMMA ReturnedStep ==
  ASSUME DeviceTypes, ResultInv, [Next]_vars,
         result # "none", boots' = boots, pc' # "off"
  PROVE  UNCHANGED <<result, answer, played>>
<1>1. pc \notin Running \ {"closing"}
  BY DEF ResultInv
<1>2. ~Boot
  BY DEF Boot, DeviceTypes, TypeOKDevice
<1>3. CASE DeviceNext
  BY <1>1, <1>2, <1>3
     DEF DeviceNext, DeviceSteps, Running, StartNet, Connect, ConnectFails, Capture,
         Upload, UploadFails, RecvAnswer, RecvAudioBegin, RecvPlayAudio, RecvRefused,
         RecvIgnored, RecvFails, RecvAudioChunk, RecvAudioEnd, CloseTransport, Crash,
         PowerLoss, Forget
<1>4. CASE UNCHANGED devVars
  BY <1>4 DEF devVars
<1> QED
  BY <1>3, <1>4 DEF Next, Finished, vars

-----------------------------------------------------------------------------
(* The theorems *)

\* Nothing that arrives after the return changes what was returned, answered or
\* played: see NothingAfterReturn.
THEOREM ReturnIsFinal == Spec => NothingAfterReturn
<1>1. Init => ResultInv
  BY DEF Init, InitDevice, ResultInv, Running
<1>2. PeerInv => DeviceTypes
  BY DEF PeerInv
<1>3. DeviceTypes /\ ResultInv /\ [Next]_vars =>
        [result # "none" /\ boots' = boots /\ pc' # "off"
           => UNCHANGED <<result, answer, played>>]_devVars
  BY ReturnedStep
<1> QED
  BY <1>1, <1>2, <1>3, ResultStep, PeerInvariance, PTL DEF Spec, NothingAfterReturn

\* Every byte that is played has arrived, and once, from any peer and for any sizes
\* of chunk, transfer and size_t: see PlayedBytesArrivedOnce.
THEOREM BytesArrivedOnce == Spec => []PlayedBytesArrivedOnce
<1>1. ArrivalsInv => PlayedBytesArrivedOnce
  BY DEF ArrivalsInv
<1> QED
  BY <1>1, ArrivalsInvariance, PTL

\* No early return of the turn keeps the camera's only frame buffer: see
\* FrameBufferNeverLeaks.
THEOREM FrameBufferReturned == Spec => []FrameBufferNeverLeaks
<1>1. PeerInv => FrameBufferNeverLeaks
  BY DEF PeerInv
<1> QED
  BY <1>1, PeerInvariance, PTL

\* No path through the turn leaves its socket open: see NoSocketLeaks.
THEOREM SocketReturned == Spec => []NoSocketLeaks
<1>1. PeerInv => NoSocketLeaks
  BY DEF PeerInv
<1> QED
  BY <1>1, PeerInvariance, PTL
=============================================================================
