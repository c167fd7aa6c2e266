---------------------------- MODULE GlassesProofs ----------------------------
(***************************************************************************)
(* The whole turn: IInv is inductive, and with it what is answered, played *)
(* and analysed belongs to the turn it is taken for; and glasses, phone    *)
(* and network together implement the turn service.                        *)
(***************************************************************************)
EXTENDS Glasses, EndProofs

-----------------------------------------------------------------------------
(* The link: whose frames travel where *)

Upward == [c \in Conns |-> DeviceFrames(c)]
Downward == [c \in Conns |-> PhoneFrames(c)]

\* Both are families of frame sets that damage does not leave.
LEMMA Directions ==
  /\ Upward \in FrameSets /\ DamageClosed(Upward)
  /\ Downward \in FrameSets /\ DamageClosed(Downward)
<1>1. \A c \in Conns : DeviceFrames(c) \subseteq Frame /\ PhoneFrames(c) \subseteq Frame
  BY DEF DeviceFrames, PhoneFrames
<1>2. Upward \in FrameSets /\ Downward \in FrameSets
  BY <1>1 DEF Upward, Downward, FrameSets
<1>3. ASSUME NEW c \in Conns, NEW f \in DeviceFrames(c), NEW e \in Damages(f)
      PROVE  e \in DeviceFrames(c) /\ e \in PhoneFrames(c)
  <2>1. f \in Frame
    BY DEF DeviceFrames
  <2>2. e \in Frame /\ e.of = Garbled /\ e.type \notin {"ai_response", "play_audio"}
    BY <1>3, <2>1, DamagedFrame DEF Binary, Announces
  <2> QED
    BY <2>2 DEF DeviceFrames, PhoneFrames
<1>4. \A c \in Conns : PhoneFrames(c) \subseteq DeviceFrames(c)
  BY DEF PhoneFrames
<1> QED
  BY <1>2, <1>3, <1>4 DEF DamageClosed, Upward, Downward

\* What FramesInv says of the link, in the words of EndProofs.
LEMMA FramesIntact ==
  Intact(Upward, Downward) <=>
    /\ TypeOKLink
    /\ \A c \in Conns : up[c] \in Seq(DeviceFrames(c)) /\ down[c] \in Seq(PhoneFrames(c))
BY DEF Intact, Upward, Downward

\* The glasses upload frames of their own turn.
LEMMA UploadsOwnFrames ==
  ASSUME IInv, pc = "upload"
  PROVE  UploadFrame(sent) \in Upward[boots]
<1>1. boots \in Conns /\ boots \in Content /\ sent \in Nat
  BY LinkAssumption
     DEF IInv, TypeOK, TypeOKDevice, Running, Conns, Content
<1>2. Garbled \in Content
  BY LinkAssumption DEF Content, Garbled
<1>3. CASE sent = 0
  <2>1. Msg("image_begin", boots, ImgChunks) \in Frame
    BY <1>1, LinkAssumption, MsgIsFrame DEF FrameTypes, ControlTypes
  <2> QED
    BY <1>1, <1>3, <2>1 DEF UploadFrame, Upward, DeviceFrames, Msg, Sized
<1>4. CASE sent \in 1 .. ImgChunks
  <2>1. Msg("chunk", boots, sent - 1) \in Frame
    BY <1>1, <1>4, LinkAssumption, MsgIsFrame DEF FrameTypes, ControlTypes
  <2> QED
    BY <1>1, <1>4, <2>1 DEF UploadFrame, Upward, DeviceFrames, Msg, Sized
<1>5. CASE sent # 0 /\ sent \notin 1 .. ImgChunks
  <2>1. Msg("image_end", Garbled, 0) \in Frame
    BY <1>2, MsgIsFrame DEF FrameTypes, ControlTypes
  <2> QED
    BY <1>1, <1>5, <2>1 DEF UploadFrame, Upward, DeviceFrames, Msg, Sized
<1> QED
  BY <1>3, <1>4, <1>5

\* The server sends frames for the connection it serves.
LEMMA SendsServedFrames ==
  ASSUME IInv, stage = "reply"
  PROVE  /\ serving \in Conns
         /\ replies # << >>
         /\ Head(replies) \in Downward[serving]
         /\ Tail(replies) \in Seq(PhoneFrames(serving))
<1>1. serving \in Conns /\ replies # << >> /\ replies \in Seq(PhoneFrames(serving))
  BY DEF IInv, TypeOK, TypeOKPhone, ServingInv, FramesInv
<1> QED
  BY <1>1, HeadTailProperties DEF Downward

\* Whoever steps, each connection carries only frames its own two ends may send.
LEMMA LinkStep ==
  ASSUME IInv, [Next]_vars
  PROVE  Intact(Upward, Downward)'
<1>0. /\ Intact(Upward, Downward) /\ DeviceTypes /\ PhoneTypes
  BY FramesIntact DEF IInv, TypeOK, FramesInv, DeviceTypes, PhoneTypes
<1>1. CASE DeviceNext
  BY <1>0, <1>1, Directions, UploadsOwnFrames, DeviceNextIntact
<1>2. CASE PhoneNext
  BY <1>0, <1>2, Directions, SendsServedFrames, PhoneNextIntact
<1>3. CASE Environment
  <2>1. PICK c \in Conns : PathLost(c) \/ Damage(c)
    BY <1>3 DEF Environment
  <2> QED
    BY <1>0, <2>1, Directions, PathLostIntact, DamageIntact
<1>4. CASE UNCHANGED vars
  BY <1>0, <1>4 DEF vars, linkVars, Intact, TypeOKLink
<1> QED
  BY <1>1, <1>2, <1>3, <1>4 DEF Next, Finished

-----------------------------------------------------------------------------
(* Types *)

\* Each step keeps the types, and how far turn and connection have come.
LEMMA TypesStep ==
  ASSUME IInv, [Next]_vars
  PROVE  TypeOK' /\ ProgressInv' /\ ServingInv'
<1>0. TypeOKLink /\ DeviceTypes /\ PhoneTypes
  BY DEF IInv, TypeOK, DeviceTypes, PhoneTypes
<1>1. TypeOKLink'
  BY LinkStep DEF Intact
<1>2. DeviceTypes'
  <2>1. CASE DeviceNext
    BY <1>0, <2>1, DeviceNextTypes
  <2>2. CASE UNCHANGED devVars
    BY <1>0, <2>2 DEF devVars, DeviceTypes, TypeOKDevice, ProgressInv
  <2> QED
    BY <2>1, <2>2 DEF Next, Environment, Finished, vars
<1>3. PhoneTypes'
  <2>1. CASE PhoneNext
    BY <1>0, <2>1, PhoneNextTypes
  <2>2. CASE UNCHANGED phoneVars
    BY <1>0, <2>2 DEF phoneVars, PhoneTypes, TypeOKPhone, ServingInv, Resting
  <2> QED
    BY <2>1, <2>2 DEF Next, Environment, Finished, vars
<1> QED
  BY <1>1, <1>2, <1>3 DEF TypeOK, DeviceTypes, PhoneTypes

-----------------------------------------------------------------------------
(* FramesInv *)

\* What the server says about content k may go down the connection of turn k.
LEMMA OwnReplies ==
  ASSUME NEW k \in Content
  PROVE  /\ Msg("ai_response", k, 0) \in PhoneFrames(k)
         /\ SpeechBegin(k) \in PhoneFrames(k)
         /\ \A i \in 1 .. AudChunks : SpeechChunk(k, i) \in PhoneFrames(k)
         /\ Msg("audio_end", Garbled, 0) \in PhoneFrames(k)
         /\ \A t \in {"error", "pong", "device_info"} : Msg(t, Garbled, 0) \in PhoneFrames(k)
BY OwnFrames DEF PhoneFrames, DeviceFrames, Msg, Sized, SpeechBegin, SpeechChunk

\* What _process_and_reply still has to send stays about the image it serves.
LEMMA RepliesStep ==
  ASSUME IInv, [Next]_vars
  PROVE  (replies \in Seq(PhoneFrames(serving)))'
<1>0. /\ replies \in Seq(PhoneFrames(serving))
      /\ serving \in Content /\ Garbled \in Content
      /\ replies # << >> <=> stage = "reply"
  BY LinkAssumption
     DEF IInv, TypeOK, TypeOKPhone, FramesInv, ServingInv, Content, Garbled
<1>1. CASE UNCHANGED <<serving, replies>>
  BY <1>0, <1>1
<1>2. CASE replies' = << >>
  BY <1>2, EmptySeq
<1>3. CASE ServeStrayChunk \/ ServeQuery
  <2>1. PICK t \in {"error", "pong", "device_info"} : Reply(<<Msg(t, Garbled, 0)>>)
    BY <1>3 DEF ServeStrayChunk, ServeQuery
  <2>2. Msg(t, Garbled, 0) \in PhoneFrames(serving)
    BY <1>0, OwnReplies
  <2> QED
    BY <1>3, <2>1, <2>2 DEF ServeStrayChunk, ServeQuery, Reply
<1>4. CASE Analyse
  <2>1. job = serving
    BY <1>4 DEF Analyse, IInv, ServerInv, ServingInv, OnlyIntactImagesAnalysed
  <2>2. PICK wav \in BOOLEAN :
          Reply(<<Msg("ai_response", job, 0)>> \o (IF wav THEN Utterance(job) ELSE << >>))
    BY <1>4 DEF Analyse
  <2>3. replies' \in Seq(PhoneFrames(serving))
    BY <1>0, <2>1, <2>2, OwnReplies, ReplyOf DEF Reply
  <2> QED
    BY <1>4, <2>3 DEF Analyse
<1>5. CASE SendReply
  BY <1>5, SendsServedFrames DEF SendReply
<1>6. ASSUME PhoneNext PROVE (replies \in Seq(PhoneFrames(serving)))'
  <2>1. CASE Accept
    BY <1>0, <1>2, <2>1 DEF Accept
  <2>2. CASE ServeProtocolError \/ ServeHangUp \/ AnalyseHangUp \/ ReplyHangUp \/ ServerDies
    BY <1>2, <2>2
       DEF ServeProtocolError, ServeHangUp, AnalyseHangUp, ReplyHangUp, HangUp, ServerDies
  <2>3. CASE StartServer \/ ServeBegin \/ ServeChunk \/ ServeEnd \/ ServeStrayEnd
    BY <1>1, <2>3
       DEF StartServer, ServeBegin, ServeChunk, ServeEnd, ServeStrayEnd, phoneVars
  <2> QED
    BY <1>3, <1>4, <1>5, <1>6, <2>1, <2>2, <2>3 DEF PhoneNext, PhoneSteps
<1> QED
  BY <1>1, <1>6 DEF Next, Environment, Finished, vars, phoneVars

\* FramesInv is inductive relative to IInv.
LEMMA FramesStep ==
  ASSUME IInv, [Next]_vars
  PROVE  FramesInv'
BY LinkStep, RepliesStep, FramesIntact DEF FramesInv, Intact, Upward, Downward

-----------------------------------------------------------------------------
(* FreshInv *)

\* A step of the glasses keeps the connection of the current boot unused by any other.
LEMMA FreshDevice ==
  ASSUME IInv, DeviceNext
  PROVE  FreshInv'
<1> USE DEF FreshInv, InTurn
<1>0. /\ TypeOKLink /\ FreshInv
      /\ boots \in 0 .. MaxBoots
      /\ pc \in Running => boots \in Conns
  BY DEF IInv, TypeOK, TypeOKDevice
<1>1. CASE Boot \/ StartNet \/ ConnectFails \/ Capture \/ UploadFails \/ RecvFails
  BY <1>0, <1>1, LinkAssumption
     DEF Boot, StartNet, ConnectFails, Capture, UploadFails, RecvFails, Return, linkVars, Conns
<1>2. CASE Connect
  BY <1>0, <1>2 DEF Connect, OpenByDevice, TypeOKLink, Running
<1>3. CASE Upload
  BY <1>0, <1>3 DEF Upload, SentByDevice, TypeOKLink, Running
<1>4. ASSUME pc \in {"await", "audio"}, TakenByDevice(boots), boots' = boots,
             pc' \in {"await", "audio", "closing"}
      PROVE  FreshInv'
  BY <1>0, <1>4 DEF TakenByDevice, TypeOKLink, Running
<1>5. CASE \/ RecvAnswer \/ RecvAudioBegin \/ RecvPlayAudio \/ RecvRefused \/ RecvIgnored
           \/ RecvAudioChunk \/ RecvAudioEnd
  BY <1>4, <1>5
     DEF RecvAnswer, RecvAudioBegin, RecvPlayAudio, RecvRefused, RecvIgnored, devVars,
         RecvAudioChunk, RecvAudioEnd, Return
<1>6. CASE CloseTransport \/ Crash
  BY <1>0, <1>6
     DEF CloseTransport, Crash, Forget, Connected, ClosedByDevice, linkVars, TypeOKLink, Running
<1>7. CASE PowerLoss
  BY <1>0, <1>7 DEF PowerLoss, Forget, Connected, TypeOKLink
<1> QED
  BY <1>1, <1>2, <1>3, <1>5, <1>6, <1>7 DEF DeviceNext, DeviceSteps

\* At every stage that touches a connection, it is the one the server has open.
LEMMA ServedIsOpen ==
  ASSUME IInv, stage \in {"serve", "analyse", "reply"}
  PROVE  serving \in Conns /\ phoneEnd[serving] = "open"
BY DEF IInv, TypeOK, TypeOKPhone, ServerInv

\* A step of the server leaves the connections of boots to come untouched.
LEMMA FreshPhone ==
  ASSUME IInv, PhoneNext, UNCHANGED devVars
  PROVE  FreshInv'
<1> USE DEF FreshInv, InTurn, devVars
<1>0. /\ TypeOKLink /\ FreshInv
      /\ boots \in 0 .. MaxBoots
      /\ pc \in Running => boots \in Conns
  BY DEF IInv, TypeOK, TypeOKDevice
<1>1. CASE StartServer \/ Analyse
  BY <1>0, <1>1 DEF StartServer, Analyse, linkVars
<1>2. CASE Accept
  BY <1>0, <1>2, LinkAssumption DEF Accept, Oldest, Waiting, TypeOKLink, Running, Conns
<1>3. ASSUME stage = "serve", TakenByPhone(serving)
      PROVE  FreshInv'
  BY <1>0, <1>3, ServedIsOpen DEF TakenByPhone, TypeOKLink
<1>4. CASE \/ ServeBegin \/ ServeChunk \/ ServeStrayChunk \/ ServeEnd \/ ServeStrayEnd
           \/ ServeQuery
  BY <1>3, <1>4
     DEF ServeBegin, ServeChunk, ServeStrayChunk, ServeEnd, ServeStrayEnd, ServeQuery,
         Serves, Consume
<1>5. ASSUME NEW unread, stage \in {"serve", "analyse", "reply"}, HangUp(unread)
      PROVE  FreshInv'
  <2>1. serving \in Conns /\ phoneEnd[serving] = "open"
    BY <1>5, ServedIsOpen
  <2>2. /\ \A c \in Conns : phoneEnd'[c] = "none" <=> phoneEnd[c] = "none"
        /\ \A c \in Conns : phoneEnd[c] = "none" => c # serving
    BY <1>0, <1>5, <2>1 DEF HangUp, ClosedByPhone, TypeOKLink
  <2>3. /\ \A c \in Conns : c # serving => up'[c] = up[c] /\ down'[c] = down[c]
        /\ devEnd' = devEnd
    BY <1>0, <1>5 DEF HangUp, ClosedByPhone, TypeOKLink
  <2>4. \A c \in Conns : phoneEnd'[c] = "none" =>
          up'[c] = << >> /\ down'[c] = << >> /\ devEnd'[c] = "none"
    BY <1>0, <2>2, <2>3
  <2> QED
    BY <1>0, <2>2, <2>3, <2>4 DEF Running
<1>6. CASE ServeProtocolError \/ ServeHangUp \/ AnalyseHangUp \/ ReplyHangUp
  BY <1>5, <1>6
     DEF ServeProtocolError, ServeHangUp, AnalyseHangUp, ReplyHangUp, Serves
<1>7. CASE SendReply
  BY <1>0, <1>7, ServedIsOpen DEF SendReply, SentByPhone, TypeOKLink
<1>8. CASE ServerDies
  <2>1. \A c \in Conns : phoneEnd'[c] = "none" <=> phoneEnd[c] = "none"
    BY <1>8 DEF ServerDies, AllClosedByPhone
  <2>2. /\ \A c \in Conns : down[c] = << >> => down'[c] = << >>
        /\ UNCHANGED <<up, devEnd>>
    BY <1>8 DEF ServerDies, AllClosedByPhone
  <2>3. \A c \in Conns : phoneEnd'[c] = "none" =>
          up'[c] = << >> /\ down'[c] = << >> /\ devEnd'[c] = "none"
    BY <1>0, <2>1, <2>2
  <2> QED
    BY <1>0, <2>1, <2>2, <2>3 DEF Running
<1> QED
  BY <1>1, <1>2, <1>4, <1>6, <1>7, <1>8 DEF PhoneNext, PhoneSteps

\* FreshInv is inductive relative to IInv.
LEMMA FreshStep ==
  ASSUME IInv, [Next]_vars
  PROVE  FreshInv'
<1>1. CASE DeviceNext
  BY <1>1, FreshDevice
<1>2. CASE PhoneNext /\ UNCHANGED devVars
  BY <1>2, FreshPhone
<1>3. CASE Environment
  <2> USE DEF FreshInv, InTurn, devVars
  <2>0. TypeOKLink /\ FreshInv /\ UNCHANGED devVars
    BY <1>3 DEF IInv, TypeOK, Environment
  <2>1. PICK c \in Conns : PathLost(c) \/ Damage(c)
    BY <1>3 DEF Environment
  <2>2. CASE PathLost(c)
    BY <2>0, <2>2 DEF PathLost, TypeOKLink
  <2>3. CASE Damage(c)
    <3>1. \A e \in Conns : up[e] = << >> => DOMAIN up[e] = {}
      OBVIOUS
    <3>2. \A e \in Conns : down[e] = << >> => DOMAIN down[e] = {}
      OBVIOUS
    <3>3. /\ \A e \in Conns : up[e] = << >> => up'[e] = << >>
          /\ \A e \in Conns : down[e] = << >> => down'[e] = << >>
      BY <2>0, <2>3, <3>1, <3>2 DEF Damage, Damaged, TypeOKLink
    <3> QED
      BY <2>0, <2>3, <3>3 DEF Damage
  <2> QED
    BY <2>1, <2>2, <2>3
<1>4. CASE UNCHANGED vars
  BY <1>4 DEF vars, devVars, linkVars, IInv, FreshInv, InTurn
<1> QED
  BY <1>1, <1>2, <1>3, <1>4 DEF Next, Finished

-----------------------------------------------------------------------------
(* ServerInv *)

\* What the glasses do does not change what the server has reassembled.
LEMMA ServerDevice ==
  ASSUME IInv, DeviceNext, UNCHANGED phoneVars
  PROVE  ServerInv'
<1> USE DEF ServerInv, OnlyIntactImagesAnalysed, phoneVars
<1>0. /\ TypeOKLink /\ ServerInv /\ FreshInv
      /\ pc \in Running => boots \in Conns
  BY DEF IInv, TypeOK, TypeOKDevice
<1>1. CASE Connect
  BY <1>0, <1>1 DEF Connect, OpenByDevice, FreshInv, Running, TypeOKLink
<1>2. CASE UNCHANGED phoneEnd
  BY <1>0, <1>2
<1> QED
  BY <1>1, <1>2
     DEF DeviceNext, DeviceSteps, Boot, StartNet, ConnectFails, Capture, Upload, UploadFails,
         RecvAnswer, RecvAudioBegin, RecvPlayAudio, RecvRefused, RecvIgnored, RecvFails,
         RecvAudioChunk, RecvAudioEnd, CloseTransport, Crash, PowerLoss, linkVars,
         SentByDevice, TakenByDevice, ClosedByDevice

\* The server analyses an image only when all its chunks came from one turn intact.
LEMMA ServerPhone ==
  ASSUME IInv, PhoneNext
  PROVE  ServerInv'
<1> USE DEF ServerInv, OnlyIntactImagesAnalysed
<1>0. /\ TypeOKLink /\ ServerInv
      /\ ServingInv
  BY DEF IInv, TypeOK, TypeOKDevice
<1>1. CASE StartServer \/ Analyse \/ SendReply \/ ServeQuery \/ ServeStrayChunk \/ ServeStrayEnd
  BY <1>0, <1>1
     DEF StartServer, Analyse, SendReply, ServeQuery, ServeStrayChunk, ServeStrayEnd,
         phoneVars, linkVars, SentByPhone, Consume, TakenByPhone
<1>2. CASE Accept
  BY <1>0, <1>2 DEF Accept, ServingInv, Resting, TypeOKLink, NoTransfer
<1>3. CASE ServeBegin
  <2>1. HeadUp.of \in {Garbled, serving}
    <3>1. serving \in Conns /\ up[serving] \in Seq(DeviceFrames(serving)) /\ up[serving] # << >>
      BY <1>3, ServedIsOpen DEF ServeBegin, Serves, IInv, FramesInv
    <3>2. HeadUp \in DeviceFrames(serving)
      BY <3>1, HeadTailProperties DEF HeadUp
    <3> QED
      BY <3>2 DEF DeviceFrames
  <2> QED
    BY <1>0, <1>3, <2>1 DEF ServeBegin, Transfer, Consume, TakenByPhone
<1>4. CASE ServeChunk
  <2>1. reasm'.of = reasm.of
    BY <1>4 DEF ServeChunk, IInv, TypeOK, TypeOKPhone, Transfers
  <2> QED
    BY <1>0, <1>4, <2>1 DEF ServeChunk, Consume, TakenByPhone
<1>5. CASE ServeEnd
  BY <1>0, <1>5 DEF ServeEnd, Whole, NoTransfer, Consume, TakenByPhone
<1>6. CASE ServeProtocolError \/ ServeHangUp \/ AnalyseHangUp \/ ReplyHangUp \/ ServerDies
  BY <1>6, LinkAssumption
     DEF ServeProtocolError, ServeHangUp, AnalyseHangUp, ReplyHangUp, HangUp, ServerDies,
         NoTransfer, Conns
<1> QED
  BY <1>1, <1>2, <1>3, <1>4, <1>5, <1>6 DEF PhoneNext, PhoneSteps

\* ServerInv is inductive relative to IInv.
LEMMA ServerStep ==
  ASSUME IInv, [Next]_vars
  PROVE  ServerInv'
<1>1. CASE DeviceNext /\ UNCHANGED phoneVars
  BY <1>1, ServerDevice
<1>2. CASE PhoneNext
  BY <1>2, ServerPhone
<1>3. CASE Environment \/ UNCHANGED vars
  BY <1>3
     DEF Environment, PathLost, Damage, vars, phoneVars, linkVars, IInv, ServerInv,
         OnlyIntactImagesAnalysed
<1> QED
  BY <1>1, <1>2, <1>3 DEF Next, Finished

-----------------------------------------------------------------------------
(* DeviceInv *)

\* The next frame for the glasses is of their turn, or of none if it is neither an
\* answer nor the start of speech.
LEMMA HeadDownIsOwn ==
  ASSUME IInv, pc \in {"await", "audio"}, TakenByDevice(boots)
  PROVE  /\ boots \in Conns
         /\ down[boots] # << >>
         /\ down[boots] \in Seq(PhoneFrames(boots))
         /\ HeadDown \in PhoneFrames(boots)
<1>1. boots \in Conns /\ down[boots] \in Seq(PhoneFrames(boots)) /\ down[boots] # << >>
  BY DEF IInv, TypeOK, TypeOKDevice, Running, FramesInv, TakenByDevice
<1> QED
  BY <1>1, HeadTailProperties DEF HeadDown

\* What the glasses show, play and report stays that of the current turn.
LEMMA DeviceDevice ==
  ASSUME IInv, DeviceNext
  PROVE  DeviceInv'
<1> USE DEF DeviceInv, AnswerIsForThisTurn, SpeechIsForThisTurn, OkMeansAnsweredAndHeard,
            Running, Return
<1>0. DeviceInv
  BY DEF IInv
<1>1. CASE Boot
  BY <1>1 DEF Boot
<1>2. CASE StartNet \/ Connect \/ ConnectFails
  BY <1>0, <1>2 DEF StartNet, Connect, ConnectFails
<1>3. CASE Capture \/ Upload \/ UploadFails
  BY <1>0, <1>3 DEF Capture, Upload, UploadFails, DeviceSendErrors
<1>4. CASE RecvAnswer
  BY <1>0, <1>4, HeadDownIsOwn DEF RecvAnswer, PhoneFrames
<1>5. CASE RecvAudioBegin
  <2>1. pc = "await" /\ TakenByDevice(boots) /\ HeadDown.type = "audio_begin"
    BY <1>5 DEF RecvAudioBegin
  <2>2. HeadDown.of \in {Garbled, boots}
    BY <2>1, HeadDownIsOwn DEF PhoneFrames, DeviceFrames
  <2>3. answer = boots
    <3>1. Heralded(down[boots], answer = boots)
      BY <2>1 DEF IInv, OrderInv
    <3>2. 1 \in DOMAIN down[boots] /\ down[boots][1] = HeadDown
      BY <2>1, HeadDownIsOwn, EmptySeq, LenProperties DEF HeadDown
    <3> QED
      BY <2>1, <3>1, <3>2 DEF Heralded
  <2>4. audio'.of = HeadDown.of
    BY <1>5 DEF RecvAudioBegin, NoAudio
  <2> QED
    BY <1>0, <1>5, <2>2, <2>3, <2>4 DEF RecvAudioBegin
<1>6. CASE RecvPlayAudio
  BY <1>6, HeadDownIsOwn DEF RecvPlayAudio, PhoneFrames
<1>7. CASE RecvRefused \/ RecvIgnored \/ RecvFails
  BY <1>0, <1>7 DEF RecvRefused, RecvIgnored, devVars, RecvFails, DeviceRecvErrors
<1>8. CASE RecvAudioChunk
  <2>1. audio \in AudioStates
    BY DEF IInv, TypeOK, TypeOKDevice
  <2>2. Placed(HeadDown).of = audio.of
    BY <2>1, Zenon DEF Placed, AudioStates
  <2>3. audio'.of = audio.of
    BY <1>8, <2>2 DEF RecvAudioChunk
  <2> QED
    BY <1>0, <1>8, <2>3 DEF RecvAudioChunk
<1>9. CASE RecvAudioEnd
  BY <1>0, <1>9 DEF RecvAudioEnd, AudioVerified
<1>10. CASE CloseTransport
  BY <1>0, <1>10 DEF CloseTransport
<1>11. CASE Crash \/ PowerLoss
  BY <1>11 DEF Crash, PowerLoss, Forget
<1> QED
  BY <1>1, <1>2, <1>3, <1>4, <1>5, <1>6, <1>7, <1>8, <1>9, <1>10, <1>11
     DEF DeviceNext, DeviceSteps

\* DeviceInv is inductive relative to IInv.
LEMMA DeviceStep ==
  ASSUME IInv, [Next]_vars
  PROVE  DeviceInv'
<1>1. CASE DeviceNext
  BY <1>1, DeviceDevice
<1>2. CASE UNCHANGED devVars
  BY <1>2
     DEF devVars, IInv, DeviceInv, AnswerIsForThisTurn, SpeechIsForThisTurn,
         OkMeansAnsweredAndHeard
<1> QED
  BY <1>1, <1>2 DEF Next, Environment, Finished, vars

-----------------------------------------------------------------------------
(* OrderInv *)

\* A queue of no replies orders them.
LEMMA HeraldedEmpty ==
  ASSUME NEW a
  PROVE  Heralded(<< >>, a)
BY DEF Heralded

\* An answered turn needs no herald.
LEMMA HeraldedAnswered ==
  ASSUME NEW q, NEW a, a
  PROVE  Heralded(q, a)
BY DEF Heralded

\* A queue that loses its tail, as when the path dies, is still in order.
LEMMA HeraldedPrefix ==
  ASSUME NEW S, NEW q \in Seq(S), NEW a, Heralded(q, a), NEW i \in 0 .. Len(q)
  PROVE  Heralded(SubSeq(q, 1, i), a)
<1>1. /\ SubSeq(q, 1, i) \in Seq(S)
      /\ Len(SubSeq(q, 1, i)) = i
      /\ \A j \in 1 .. i : SubSeq(q, 1, i)[j] = q[j]
  BY PrefixOfQueue
<1>2. DOMAIN SubSeq(q, 1, i) = 1 .. i /\ DOMAIN q = 1 .. Len(q)
  BY <1>1, LenProperties
<1>3. Len(q) \in Nat /\ i \in Int
  BY LenProperties
<1> QED
  BY <1>1, <1>2, <1>3 DEF Heralded

\* Damage in transit leaves types as they were or makes frames malformed.
LEMMA HeraldedDamaged ==
  ASSUME NEW S, NEW q \in Seq(S), NEW T, NEW r \in Seq(T), Len(r) = Len(q),
         \A j \in 1 .. Len(q) : r[j].type \in {q[j].type, "malformed"}
  PROVE  /\ \A a \in BOOLEAN : Heralded(q, a) => Heralded(r, a)
         /\ Says(q) => Says(r)
<1>1. DOMAIN q = 1 .. Len(q) /\ DOMAIN r = 1 .. Len(q) /\ Len(q) \in Nat
  BY LenProperties
<1>2. \A j \in 1 .. Len(q) : Heralds(q[j]) => Heralds(r[j])
  BY DEF Heralds
<1>3. \A j \in 1 .. Len(q) : r[j].type = "audio_begin" => q[j].type = "audio_begin"
  OBVIOUS
<1> QED
  BY <1>1, <1>2, <1>3 DEF Heralded, Says

\* The head is taken: what it heralded is heralded by it having been there.
LEMMA HeraldedTail ==
  ASSUME NEW S, NEW q \in Seq(S), q # << >>, NEW a, Heralded(q, a)
  PROVE  Heralded(Tail(q), a \/ Heralds(Head(q)))
<1>1. /\ Tail(q) \in Seq(S) /\ Len(Tail(q)) = Len(q) - 1 /\ Head(q) = q[1]
      /\ \A i \in 1 .. Len(Tail(q)) : Tail(q)[i] = q[i + 1]
  BY HeadTailProperties
<1>2. DOMAIN q = 1 .. Len(q) /\ DOMAIN Tail(q) = 1 .. Len(q) - 1 /\ Len(q) \in Nat
  BY <1>1, LenProperties
<1> SUFFICES ASSUME NEW i \in 1 .. Len(q) - 1, Tail(q)[i].type = "audio_begin",
                    ~a, ~Heralds(Head(q))
             PROVE  \E j \in 1 .. i - 1 : Heralds(Tail(q)[j])
  BY <1>2 DEF Heralded
<1>3. PICK j \in 1 .. i : Heralds(q[j])
  <2>1. i + 1 \in DOMAIN q /\ q[i + 1].type = "audio_begin" /\ i + 1 - 1 = i
    BY <1>1, <1>2
  <2> QED
    BY <2>1 DEF Heralded
<1>4. j # 1
  BY <1>1, <1>3
<1>5. j - 1 \in 1 .. i - 1 /\ Tail(q)[j - 1] = q[j]
  BY <1>1, <1>2, <1>3, <1>4
<1> QED
  BY <1>3, <1>5

\* A frame joins the queue: speech only where an answer has gone before.
LEMMA HeraldedAppend ==
  ASSUME NEW S, NEW q \in Seq(S), NEW f \in S, NEW a, Heralded(q, a),
         f.type = "audio_begin" => a \/ Says(q)
  PROVE  /\ Heralded(Append(q, f), a)
         /\ Says(Append(q, f)) <=> Says(q) \/ Heralds(f)
<1>1. /\ Append(q, f) \in Seq(S) /\ Len(Append(q, f)) = Len(q) + 1
      /\ \A i \in 1 .. Len(q) : Append(q, f)[i] = q[i]
      /\ Append(q, f)[Len(q) + 1] = f
  BY AppendProperties
<1>2. DOMAIN q = 1 .. Len(q) /\ DOMAIN Append(q, f) = 1 .. Len(q) + 1 /\ Len(q) \in Nat
  BY <1>1, LenProperties
<1>3. ASSUME NEW i \in 1 .. Len(q) + 1, Append(q, f)[i].type = "audio_begin", ~a
      PROVE  \E j \in 1 .. i - 1 : Heralds(Append(q, f)[j])
  <2>1. CASE i \in 1 .. Len(q)
    BY <1>1, <1>2, <1>3, <2>1 DEF Heralded
  <2>2. CASE i = Len(q) + 1
    BY <1>1, <1>2, <1>3, <2>2 DEF Says
  <2> QED
    BY <1>2, <2>1, <2>2
<1> QED
  BY <1>1, <1>2, <1>3 DEF Heralded, Says

\* A single frame, or a reply that begins with the answer, needs no more.
LEMMA HeraldedReply ==
  ASSUME NEW S, NEW q \in Seq(S), NEW a, q[1].type # "audio_begin",
         Len(q) = 1 \/ Heralds(q[1])
  PROVE  Heralded(q, a)
<1>1. DOMAIN q = 1 .. Len(q) /\ Len(q) \in Nat
  BY LenProperties
<1> SUFFICES ASSUME NEW i \in 1 .. Len(q), q[i].type = "audio_begin"
             PROVE  \E j \in 1 .. i - 1 : Heralds(q[j])
  BY <1>1 DEF Heralded
<1>2. i # 1
  OBVIOUS
<1>3. 1 \in 1 .. i - 1 /\ Heralds(q[1])
  BY <1>1, <1>2
<1> QED
  BY <1>3

\* Taking frames from the queue, the glasses see the text before the speech.
LEMMA OrderDevice ==
  ASSUME IInv, DeviceNext, UNCHANGED phoneVars
  PROVE  OrderInv'
<1> USE DEF phoneVars
<1>0. /\ OrderInv /\ FreshInv /\ ServerInv
      /\ pc \in Running => boots \in Conns
  BY DEF IInv, TypeOK, TypeOKDevice
<1>1. CASE pc' \notin {"capture", "upload", "await"}
  BY <1>1 DEF OrderInv
<1>2. CASE Connect
  <2>1. down[boots] = << >> /\ down' = down /\ boots' = boots /\ serving # boots
    BY <1>0, <1>2 DEF Connect, OpenByDevice, FreshInv, ServerInv, Running
  <2> QED
    BY <2>1, HeraldedEmpty DEF OrderInv
<1>3. CASE Capture \/ Upload
  BY <1>0, <1>3 DEF Capture, Upload, Return, SentByDevice, linkVars, OrderInv
<1>4. CASE RecvAnswer
  <2>1. answer' = boots'
    BY <1>4, HeadDownIsOwn DEF RecvAnswer, PhoneFrames
  <2> QED
    BY <2>1, HeraldedAnswered DEF OrderInv
<1>5. CASE RecvIgnored
  <2>1. /\ pc = "await" /\ TakenByDevice(boots) /\ UNCHANGED devVars
        /\ HeadDown.type \notin {"ai_response", "audio_begin", "malformed"}
    BY <1>5 DEF RecvIgnored
  <2>2. /\ down[boots] \in Seq(PhoneFrames(boots)) /\ down[boots] # << >>
        /\ down'[boots] = Tail(down[boots])
        /\ UNCHANGED radio
    BY <2>1, HeadDownIsOwn DEF TakenByDevice, IInv, TypeOK, TypeOKLink
  <2>3. Heralded(Tail(down[boots]), answer = boots)
    <3>1. Heralded(down[boots], answer = boots)
      BY <1>0, <2>1 DEF OrderInv
    <3>2. Heralded(Tail(down[boots]), (answer = boots) \/ Heralds(Head(down[boots])))
      BY <2>2, <3>1, HeraldedTail
    <3> QED
      BY <2>1, <3>2 DEF Heralded, Heralds, HeadDown
  <2>4. Says(down[boots]) => Says(Tail(down[boots]))
    <3>1. /\ Len(Tail(down[boots])) = Len(down[boots]) - 1
          /\ Tail(down[boots]) \in Seq(PhoneFrames(boots))
          /\ HeadDown = down[boots][1]
          /\ \A i \in 1 .. Len(Tail(down[boots])) : Tail(down[boots])[i] = down[boots][i + 1]
      BY <2>2, HeadTailProperties DEF HeadDown
    <3>2. /\ DOMAIN down[boots] = 1 .. Len(down[boots]) /\ Len(down[boots]) \in Nat
          /\ DOMAIN Tail(down[boots]) = 1 .. Len(down[boots]) - 1
      BY <2>2, <3>1, LenProperties
    <3>3. ASSUME NEW j \in 1 .. Len(down[boots]), Heralds(down[boots][j])
          PROVE  /\ j - 1 \in 1 .. Len(down[boots]) - 1
                 /\ Tail(down[boots])[j - 1] = down[boots][j]
      BY <2>1, <3>1, <3>2, <3>3 DEF Heralds
    <3> QED
      BY <3>2, <3>3 DEF Says
  <2> QED
    BY <1>0, <2>1, <2>2, <2>3, <2>4 DEF OrderInv, devVars, Heralded
<1> QED
  BY <1>1, <1>2, <1>3, <1>4, <1>5
     DEF DeviceNext, DeviceSteps, Boot, StartNet, ConnectFails, UploadFails,
         RecvAudioBegin, RecvPlayAudio, RecvRefused, RecvFails,
         RecvAudioChunk, RecvAudioEnd, CloseTransport, Crash, PowerLoss, Forget, Return

\* The queue down to the glasses is unchanged or emptied, and the server holds no
\* reply for them, or one that heralds its own speech.
LEMMA OrderKept ==
  ASSUME IInv, UNCHANGED <<pc, boots, answer>>,
         pc \in {"capture", "upload", "await"} =>
           \/ down'[boots] = down[boots]
           \/ down'[boots] = << >> /\ serving' # boots,
         \/ serving' # boots
         \/ radio'[boots] # "up"
         \/ UNCHANGED <<serving, radio, replies>>
         \/ \A a \in BOOLEAN : Heralded(replies', a)
  PROVE  OrderInv'
<1>1. Heralded(<< >>, answer = boots)
  BY HeraldedEmpty
<1> QED
  BY <1>1 DEF IInv, OrderInv

\* The server sends the next of its replies behind those in flight, in order.
LEMMA OrderSend ==
  ASSUME IInv, SendReply, UNCHANGED devVars
  PROVE  OrderInv'
<1> SUFFICES ASSUME pc \in {"capture", "upload", "await"}
             PROVE  /\ Heralded(down'[boots], answer = boots)
                    /\ serving = boots /\ radio'[boots] = "up" =>
                         Heralded(replies', answer = boots \/ Says(down'[boots]))
  BY DEF OrderInv, devVars, SendReply
<1>0. /\ TypeOKLink /\ boots \in Conns /\ devEnd[boots] = "open"
      /\ Heralded(down[boots], answer = boots)
      /\ serving = boots /\ radio[boots] = "up" =>
           Heralded(replies, answer = boots \/ Says(down[boots]))
      /\ replies \in Seq(Frame) /\ replies # << >> /\ replies' = Tail(replies)
      /\ SentByPhone(serving, Head(replies))
  BY DEF IInv, TypeOK, TypeOKDevice, TypeOKPhone, Running, FreshInv, InTurn, OrderInv,
         ServingInv, SendReply
<1>1. CASE serving # boots
  BY <1>0, <1>1 DEF SentByPhone, TypeOKLink
<1>2. CASE serving = boots /\ radio[boots] # "up"
  BY <1>0, <1>2 DEF SentByPhone, TypeOKLink
<1>3. CASE serving = boots /\ radio[boots] = "up"
  <2> DEFINE f == Head(replies)
             answered == answer = boots
             said == answered \/ Says(down[boots])
  <2>1. down'[boots] = Append(down[boots], f)
    BY <1>0, <1>3 DEF SentByPhone, TypeOKLink
  <2>2. f \in Frame /\ f = replies[1] /\ down[boots] \in Seq(Frame) /\ 1 \in DOMAIN replies
    BY <1>0, HeadTailProperties, LenProperties, EmptySeq DEF TypeOKLink
  <2>3. f.type = "audio_begin" => said
    BY <1>0, <1>3, <2>2 DEF Heralded
  <2>4. Heralded(replies, said)
    BY <1>0, <1>3
  <2>5. Heralded(Tail(replies), said \/ Heralds(f))
    BY <1>0, <2>4, HeraldedTail
  <2>6. /\ Heralded(Append(down[boots], f), answered)
        /\ Says(Append(down[boots], f)) <=> Says(down[boots]) \/ Heralds(f)
    BY <1>0, <2>2, <2>3, HeraldedAppend
  <2> QED
    BY <1>0, <2>1, <2>5, <2>6 DEF Heralded
<1> QED
  BY <1>1, <1>2, <1>3

\* Each step of the server keeps text before speech.
LEMMA OrderPhone ==
  ASSUME IInv, PhoneNext, UNCHANGED devVars
  PROVE  OrderInv'
<1> USE DEF devVars
<1>0. /\ TypeOKLink /\ ServingInv
      /\ pc \in {"capture", "upload", "await"} => boots \in Conns
  BY DEF IInv, TypeOK, TypeOKDevice, Running
<1>1. CASE UNCHANGED <<down, radio, serving, replies>>
  BY <1>1, OrderKept
<1>2. CASE Accept
  <2>1. replies' = << >> /\ UNCHANGED down
    BY <1>0, <1>2 DEF Accept, ServingInv
  <2> QED
    BY <2>1, OrderKept, HeraldedEmpty
<1>3. CASE ServeStrayChunk \/ ServeQuery
  <2>1. PICK t \in {"error", "pong", "device_info"} : Reply(<<Msg(t, Garbled, 0)>>)
    BY <1>3 DEF ServeStrayChunk, ServeQuery
  <2>2. replies' = <<Msg(t, Garbled, 0)>> /\ UNCHANGED down
    BY <1>3, <2>1 DEF ServeStrayChunk, ServeQuery, Reply, Consume, TakenByPhone
  <2>3. \A a \in BOOLEAN : Heralded(replies', a)
    BY <2>2 DEF Heralded, Msg, Sized
  <2> QED
    BY <2>2, <2>3, OrderKept
<1>4. CASE Analyse
  <2>1. job \in Content /\ UNCHANGED down
    BY <1>4 DEF Analyse, linkVars, IInv, TypeOK, TypeOKPhone, ServingInv
  <2>2. PICK wav \in BOOLEAN :
          Reply(<<Msg("ai_response", job, 0)>> \o (IF wav THEN Utterance(job) ELSE << >>))
    BY <1>4 DEF Analyse
  <2>3. replies' \in Seq(Frame) /\ replies'[1] = Msg("ai_response", job, 0)
    BY <2>1, <2>2, OwnFrames, ReplyOf DEF Reply
  <2>4. replies'[1].type # "audio_begin" /\ Heralds(replies'[1])
    BY <2>3 DEF Heralds, Msg, Sized
  <2>5. \A a \in BOOLEAN : Heralded(replies', a)
    BY <2>3, <2>4, HeraldedReply
  <2> QED
    BY <2>1, <2>5, OrderKept
<1>5. CASE SendReply
  BY <1>5, OrderSend
<1>6. ASSUME NEW unread, HangUp(unread)
      PROVE  OrderInv'
  <2>1. /\ serving' = 0
        /\ \A c \in Conns : down'[c] = down[c] \/ down'[c] = << >>
    BY <1>0, <1>6 DEF HangUp, ClosedByPhone, TypeOKLink
  <2>2. boots \in Conns => serving' # boots
    BY <2>1 DEF Conns
  <2> QED
    BY <1>0, <2>1, <2>2, OrderKept DEF OrderInv
<1>7. CASE ServerDies
  <2>1. /\ serving' = 0
        /\ \A c \in Conns : down'[c] = down[c] \/ down'[c] = << >>
    BY <1>7 DEF ServerDies, AllClosedByPhone
  <2>2. boots \in Conns => serving' # boots
    BY <2>1 DEF Conns
  <2> QED
    BY <1>0, <2>1, <2>2, OrderKept DEF OrderInv
<1> QED
  BY <1>1, <1>2, <1>3, <1>4, <1>5, <1>6, <1>7
     DEF PhoneNext, PhoneSteps, StartServer, ServeBegin, ServeChunk, ServeEnd,
         ServeStrayEnd, Consume, TakenByPhone, phoneVars,
         ServeProtocolError, ServeHangUp, AnalyseHangUp, ReplyHangUp

\* Loss of the path and damage in transit keep text before speech.
LEMMA OrderEnvironment ==
  ASSUME IInv, Environment
  PROVE  OrderInv'
<1> USE DEF devVars, phoneVars
<1>0. /\ TypeOKLink
      /\ UNCHANGED <<devVars, phoneVars>>
      /\ pc \in {"capture", "upload", "await"} => boots \in Conns
  BY DEF IInv, TypeOK, TypeOKDevice, Running, Environment
<1>1. PICK c \in Conns : PathLost(c) \/ Damage(c)
  BY DEF Environment
<1>2. CASE c # boots \/ UNCHANGED <<down, radio>>
  <2>1. boots \in Conns => down'[boots] = down[boots] /\ radio'[boots] = radio[boots]
    BY <1>0, <1>1, <1>2 DEF PathLost, Damage, Damaged, TypeOKLink
  <2> QED
    BY <1>0, <2>1 DEF IInv, OrderInv
<1>3. CASE c = boots /\ PathLost(c)
  <2>1. PICK j \in 0 .. Len(down[boots]) :
          /\ down' = [down EXCEPT ![boots] = SubSeq(@, 1, j)]
          /\ radio' = [radio EXCEPT ![boots] = IF j < Len(down[boots]) THEN "retrying"
                                                                       ELSE "lost"]
    BY <1>3 DEF PathLost
  <2>2. down[boots] \in Seq(Frame) /\ down'[boots] = SubSeq(down[boots], 1, j)
    BY <1>0, <1>3, <2>1 DEF TypeOKLink
  <2>3. radio'[boots] # "up"
    BY <1>0, <1>3, <2>1 DEF TypeOKLink
  <2>4. pc \in {"capture", "upload", "await"} => Heralded(down'[boots], answer = boots)
    BY <2>2, HeraldedPrefix DEF IInv, OrderInv
  <2> QED
    BY <1>0, <2>3, <2>4 DEF OrderInv
<1>4. CASE c = boots /\ Damage(c)
  <2>1. CASE UNCHANGED down
    BY <1>2, <1>4, <2>1 DEF Damage
  <2>2. ASSUME NEW i \in DOMAIN down[boots], NEW f \in Damages(down[boots][i]),
               down' = [down EXCEPT ![boots][i] = f]
        PROVE  OrderInv'
    <3> DEFINE q == down[boots]
               r == [q EXCEPT ![i] = f]
    <3>1. q \in Seq(Frame) /\ i \in 1 .. Len(q) /\ down'[boots] = r
      BY <1>0, <1>4, <2>2, LenProperties DEF TypeOKLink
    <3>2. f \in Frame /\ f.type \in {q[i].type, "malformed"}
      BY <3>1, ElementOfSeq, DamagedFrame
    <3>3. /\ r \in Seq(Frame) /\ Len(r) = Len(q)
          /\ \A j \in 1 .. Len(q) : r[j] = IF j = i THEN f ELSE q[j]
      BY <3>1, <3>2, DamagedQueue
    <3>4. \A j \in 1 .. Len(q) : r[j].type \in {q[j].type, "malformed"}
      BY <3>2, <3>3
    <3> HIDE DEF q, r
    <3>5. /\ \A a \in BOOLEAN : Heralded(q, a) => Heralded(r, a)
          /\ Says(q) => Says(r)
      BY <3>1, <3>3, <3>4, HeraldedDamaged
    <3>6. UNCHANGED radio
      BY <1>4 DEF Damage
    <3> QED
      BY <1>0, <3>1, <3>5, <3>6 DEF OrderInv, IInv, q, Heralded
  <2> QED
    BY <1>4, <2>1, <2>2 DEF Damage, Damaged
<1> QED
  BY <1>1, <1>2, <1>3, <1>4

\* OrderInv is inductive relative to IInv.
LEMMA OrderStep ==
  ASSUME IInv, [Next]_vars
  PROVE  OrderInv'
<1>1. CASE DeviceNext /\ UNCHANGED phoneVars
  BY <1>1, OrderDevice
<1>2. CASE PhoneNext /\ UNCHANGED devVars
  BY <1>2, OrderPhone
<1>3. CASE Environment
  BY <1>3, OrderEnvironment
<1>4. CASE UNCHANGED vars
  BY <1>4 DEF vars, devVars, phoneVars, linkVars, IInv, OrderInv
<1> QED
  BY <1>1, <1>2, <1>3, <1>4 DEF Next, Finished

-----------------------------------------------------------------------------
(* The invariant, and what follows from it *)

\* Before the first boot nothing is in flight and nobody is served.
LEMMA IInvInit == Init => IInv
<1> SUFFICES ASSUME Init PROVE IInv
  OBVIOUS
<1>1. DeviceTypes /\ PhoneTypes
  BY DeviceTypesInit, PhoneTypesInit DEF Init
<1>2. TypeOKLink
  BY EmptySeq DEF Init, InitLink, TypeOKLink
<1>3. FramesInv
  BY EmptySeq DEF Init, InitLink, InitPhone, FramesInv
<1>4. FreshInv
  BY DEF Init, InitLink, InitDevice, FreshInv, InTurn
<1>5. ServerInv
  BY DEF Init, InitPhone, ServerInv, OnlyIntactImagesAnalysed, NoTransfer, Conns
<1>6. DeviceInv
  BY DEF Init, InitDevice, DeviceInv, AnswerIsForThisTurn, SpeechIsForThisTurn,
         OkMeansAnsweredAndHeard, Running
<1>7. OrderInv
  BY DEF Init, InitDevice, OrderInv
<1> QED
  BY <1>1, <1>2, <1>3, <1>4, <1>5, <1>6, <1>7
     DEF IInv, TypeOK, DeviceTypes, PhoneTypes

\* The inductive invariant is kept by every step.
LEMMA IInvStep == IInv /\ [Next]_vars => IInv'
BY TypesStep, FramesStep, FreshStep, ServerStep, DeviceStep, OrderStep DEF IInv

\* IInv holds throughout: the bookkeeping of frames, connections and stages that
\* the properties below rest on.
THEOREM Invariance == Spec => []IInv
<1>1. Init => IInv
  BY IInvInit
<1>2. IInv /\ [Next]_vars => IInv'
  BY IInvStep
<1> QED
  BY <1>1, <1>2, PTL DEF Spec

\* Device, phone and link only ever hold values of their types; in particular the
\* bounded connect retry of app_main never counts past ConnectAttempts.
THEOREM TypeCorrect == Spec => []TypeOK
<1>1. IInv => TypeOK
  BY DEF IInv
<1> QED
  BY <1>1, Invariance, PTL

\* However late an earlier reply is, however often the glasses were reset, and
\* whatever was damaged or lost: an answer in response_out is that of this turn.
THEOREM AnswerCorrect == Spec => []AnswerIsForThisTurn
<1>1. IInv => AnswerIsForThisTurn
  BY DEF IInv, DeviceInv
<1> QED
  BY <1>1, Invariance, PTL

\* What sd_audio_play_pcm was given is the whole, undamaged speech of this turn.
THEOREM SpeechCorrect == Spec => []SpeechIsForThisTurn
<1>1. IInv => SpeechIsForThisTurn
  BY DEF IInv, DeviceInv
<1> QED
  BY <1>1, Invariance, PTL

\* sd_device_run_uplink returns SD_OK only for a turn both answered and spoken.
THEOREM OkCorrect == Spec => []OkMeansAnsweredAndHeard
<1>1. IInv => OkMeansAnsweredAndHeard
  BY DEF IInv, DeviceInv
<1> QED
  BY <1>1, Invariance, PTL

\* The provider is only ever asked about the intact image of the client it serves.
THEOREM AnalysisCorrect == Spec => []OnlyIntactImagesAnalysed
<1>1. IInv => OnlyIntactImagesAnalysed
  BY DEF IInv, ServerInv
<1> QED
  BY <1>1, Invariance, PTL

-----------------------------------------------------------------------------
(* The turn service, which glasses, phone and network together implement.  Its
   liveness stays with the model checker. *)

\* A step of the glasses that shows the wearer nothing.
LEMMA SilentSteps ==
  ASSUME IInv,
         \/ Connect \/ Upload \/ RecvAudioBegin \/ RecvIgnored
         \/ RecvAudioChunk /\ pc' = "audio"
         \/ CloseTransport \/ UNCHANGED devVars
  PROVE  UNCHANGED Service!vars
<1> USE DEF Running
<1>1. DeviceInv
  BY DEF IInv
<1>2. CASE Connect \/ Upload \/ RecvAudioBegin
  BY <1>2 DEF Connect, Upload, RecvAudioBegin, Service!vars, Outcome
<1>3. CASE RecvIgnored \/ UNCHANGED devVars
  BY <1>3 DEF RecvIgnored, devVars, Service!vars, Outcome
<1>4. CASE RecvAudioChunk /\ pc' = "audio"
  BY <1>4 DEF RecvAudioChunk, Return, Service!vars, Outcome
<1>5. CASE CloseTransport
  BY <1>1, <1>5 DEF CloseTransport, DeviceInv, Service!vars, Outcome
<1> QED
  BY <1>2, <1>3, <1>4, <1>5

\* Each step of the glasses is a step of the turn service, or none: it answers, speaks
\* or ends a turn only as the service may.
LEMMA ServiceDevice ==
  ASSUME IInv, DeviceNext
  PROVE  [Service!Next]_Service!vars
<1> USE DEF Running, Return
<1>0. /\ DeviceInv
      /\ boots \in 0 .. MaxBoots
      /\ pc \in Running => boots \in Conns
  BY DEF IInv, TypeOK, TypeOKDevice
<1>1. CASE Boot
  <2>1. Service!Begin
    BY <1>1 DEF Boot, Service!Begin, Service!None, None, Outcome
  <2> QED
    BY <2>1 DEF Service!Next
<1>2. CASE pc \in Running \ {"closing"} /\ pc' \in {"closing", "done"} /\ result' \in Errors
           /\ UNCHANGED <<boots, answer, played>>
  <2>1. Service!Fail
    BY <1>0, <1>2 DEF DeviceInv, Errors, Service!Fail, Outcome
  <2> QED
    BY <2>1 DEF Service!Next
<1>3. CASE \/ Connect \/ Upload \/ RecvAudioBegin \/ RecvIgnored \/ CloseTransport
           \/ UNCHANGED devVars
  <2>1. UNCHANGED Service!vars
    BY <1>3, SilentSteps, Zenon
  <2> QED
    BY <2>1
<1>4. CASE StartNet \/ ConnectFails
  <2>1. CASE pc' = "done"
    BY <1>2, <1>4, <2>1 DEF StartNet, ConnectFails, Errors
  <2>2. CASE pc' # "done"
    <3>1. UNCHANGED <<boots, answer, played, result>> /\ pc \in {"net", "connect"}
          /\ pc' \in {"net", "connect"}
      BY <1>4, <2>2 DEF StartNet, ConnectFails
    <3> QED
      BY <3>1 DEF Service!vars, Outcome
  <2> QED
    BY <2>1, <2>2
<1>5. CASE Capture
  BY <1>0, <1>2, <1>5 DEF Capture, DeviceInv, Errors, Service!vars, Outcome
<1>6. CASE UploadFails \/ RecvRefused \/ RecvFails
  BY <1>2, <1>6
     DEF UploadFails, DeviceSendErrors, RecvRefused, RecvFails, DeviceRecvErrors, Errors
<1>7. CASE RecvAnswer
  <2>1. HeadDown.of = boots
    BY <1>7, HeadDownIsOwn DEF RecvAnswer, PhoneFrames
  <2>2. Service!Answer
    BY <1>0, <1>7, <2>1 DEF RecvAnswer, DeviceInv, Service!Answer, Outcome
  <2> QED
    BY <2>2 DEF Service!Next
<1>8. CASE RecvPlayAudio
  BY <1>8, HeadDownIsOwn DEF RecvPlayAudio, PhoneFrames
<1>9. CASE RecvAudioChunk
  BY <1>2, <1>9, SilentSteps DEF RecvAudioChunk, Errors
<1>10. CASE RecvAudioEnd
  <2>1. CASE result' = "OK"
    <3>1. Service!Speak
      BY <1>0, <1>10, <2>1
         DEF RecvAudioEnd, AudioVerified, DeviceInv, Service!Speak, Outcome
    <3> QED
      BY <3>1 DEF Service!Next
  <2>2. CASE result' # "OK"
    BY <1>2, <1>10, <2>2 DEF RecvAudioEnd, Errors
  <2> QED
    BY <2>1, <2>2
<1>11. CASE Crash \/ PowerLoss
  <2>1. Forget /\ boots > 0
    BY <1>0, <1>11 DEF Crash, PowerLoss, Conns
  <2>2. Service!Lose
    BY <2>1 DEF Forget, Service!Lose, Service!None, None, Outcome
  <2> QED
    BY <2>2 DEF Service!Next
<1> QED
  BY <1>1, <1>3, <1>4, <1>5, <1>6, <1>7, <1>8, <1>9, <1>10, <1>11
     DEF DeviceNext, DeviceSteps

\* The power-off state of the glasses is an initial state of the service.
LEMMA ServiceInit == Init => Service!Init
BY DEF Init, InitDevice, Service!Init, Service!None, None, Outcome, Running

\* Each step of the whole system is a step of the service, or none.
LEMMA ServiceStep == IInv /\ [Next]_vars => [Service!Next]_Service!vars
<1> SUFFICES ASSUME IInv, [Next]_vars
             PROVE  [Service!Next]_Service!vars
  OBVIOUS
<1>1. CASE DeviceNext
  BY <1>1, ServiceDevice
<1>2. CASE UNCHANGED devVars
  BY <1>2, SilentSteps
<1> QED
  BY <1>1, <1>2 DEF Next, Environment, Finished, vars

\* Every behaviour of glasses and phone, over a network that loses, damages and
\* delays, is one of the turn service: an answer and speech about this turn's
\* picture, in this order, and nothing changed once the turn is over.
THEOREM Refinement == Spec => ImplementsTurnService
<1>1. Init => Service!Init
  BY ServiceInit
<1>2. IInv /\ [Next]_vars => [Service!Next]_Service!vars
  BY ServiceStep
<1> QED
  BY <1>1, <1>2, Invariance, PTL DEF Spec, ImplementsTurnService, Service!Spec
=============================================================================
