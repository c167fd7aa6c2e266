------------------------------ MODULE EndProofs ------------------------------
(***************************************************************************)
(* What the operations of the link, the steps of the glasses and the steps *)
(* of the phone's server each preserve, whoever is at the other end: the   *)
(* types of the variables, and a set of admissible frames for each         *)
(* direction of each connection.                                           *)
(***************************************************************************)
EXTENDS Device, Phone, SequenceTheorems, TLAPS

-----------------------------------------------------------------------------
(***************************************************************************)
(* The link                                                                *)
(***************************************************************************)

\* For each connection, the frames it may carry.
FrameSets == [Conns -> SUBSET Frame]

\* Upward only frames of U are in flight, downward only frames of V.
Intact(U, V) ==
  /\ TypeOKLink
  /\ \A c \in Conns : up[c] \in Seq(U[c])
  /\ \A c \in Conns : down[c] \in Seq(V[c])

\* What damage makes of an admissible frame is admissible.
DamageClosed(U) ==
  \A c \in Conns : \A f \in U[c] : Damages(f) \subseteq U[c]

-----------------------------------------------------------------------------
(* Sequences: what taking, cutting and damaging do to a queue *)

\* A frame built by Msg or Sized is a frame.
LEMMA MsgIsFrame ==
  ASSUME NEW t \in FrameTypes, NEW k \in Content, NEW n \in Nat
  PROVE  /\ Msg(t, k, n) \in Frame
         /\ \A l \in Nat : Sized(t, k, n, l) \in Frame
BY DEF Msg, Sized, Frame

\* Damage makes of a frame a frame: malformed, or of the type it had, with content
\* that matches no digest.
LEMMA DamagedFrame ==
  ASSUME NEW f \in Frame, NEW e \in Damages(f)
  PROVE  /\ e \in Frame
         /\ e.of = Garbled
         /\ e.type = "malformed" \/ (e.type = f.type /\ (Binary(f) \/ Announces(f)))
<1>0. Garbled \in Content /\ 0 \in Nat
  BY LinkAssumption DEF Content, Garbled
<1>1. CASE e = Malformed
  BY <1>0, <1>1, MsgIsFrame DEF Malformed, Msg, Sized, FrameTypes, ControlTypes
<1>2. CASE Binary(f) \/ Announces(f)
  <2>1. CASE e = [f EXCEPT !.of = Garbled]
    BY <1>0, <1>2, <2>1 DEF Frame
  <2>2. CASE e = [f EXCEPT !.of = Garbled, !.num = @ + 1]
    <3>1. f.num + 1 \in Nat
      BY DEF Frame
    <3>2. e = [[f EXCEPT !.of = Garbled] EXCEPT !.num = f.num + 1]
      BY <2>2 DEF Frame
    <3> DEFINE n == f.num + 1
    <3> HIDE DEF n
    <3>3. e \in Frame /\ e.of = Garbled /\ e.type = f.type
      BY <1>0, <3>1, <3>2 DEF Frame, n
    <3> QED
      BY <1>2, <3>3
  <2> QED
    BY <1>1, <2>1, <2>2 DEF Damages
<1> QED
  BY <1>1, <1>2 DEF Damages

\* One queue of a family is replaced.
LEMMA QueueReplaced ==
  ASSUME NEW U \in FrameSets, NEW q \in [Conns -> Seq(Frame)],
         \A c \in Conns : q[c] \in Seq(U[c]),
         NEW d \in Conns, NEW s \in Seq(U[d])
  PROVE  /\ [q EXCEPT ![d] = s] \in [Conns -> Seq(Frame)]
         /\ \A c \in Conns : [q EXCEPT ![d] = s][c] \in Seq(U[c])
<1>1. U[d] \subseteq Frame
  BY DEF FrameSets
<1>2. s \in Seq(Frame)
  BY <1>1, SeqMonotonic
<1> QED
  BY <1>2

\* A prefix of a queue holds what the queue holds.
LEMMA PrefixOfQueue ==
  ASSUME NEW S, NEW s \in Seq(S), NEW i \in 0 .. Len(s)
  PROVE  /\ SubSeq(s, 1, i) \in Seq(S)
         /\ Len(SubSeq(s, 1, i)) = i
         /\ \A j \in 1 .. i : SubSeq(s, 1, i)[j] = s[j]
<1>1. Len(s) \in Nat /\ i \in Int
  BY LenProperties
<1>2. \A j \in 1 .. i : s[j] \in S
  BY <1>1, ElementOfSeq
<1>3. /\ SubSeq(s, 1, i) \in Seq(S)
      /\ Len(SubSeq(s, 1, i)) = IF 1 <= i THEN i - 1 + 1 ELSE 0
      /\ \A j \in 1 .. i - 1 + 1 : SubSeq(s, 1, i)[j] = s[1 + j - 1]
  BY <1>1, <1>2, SubSeqProperties
<1> QED
  BY <1>1, <1>3

\* A queue with one frame replaced by what damage has made of it.
LEMMA DamagedQueue ==
  ASSUME NEW S, NEW s \in Seq(S), NEW i \in DOMAIN s, NEW e \in S
  PROVE  /\ [s EXCEPT ![i] = e] \in Seq(S)
         /\ Len([s EXCEPT ![i] = e]) = Len(s)
         /\ \A j \in 1 .. Len(s) : [s EXCEPT ![i] = e][j] = IF j = i THEN e ELSE s[j]
<1>1. i \in 1 .. Len(s)
  BY LenProperties
<1> QED
  BY <1>1, ExceptSeq

-----------------------------------------------------------------------------
(* The operations, each for any admissible frames *)

\* Connecting puts nothing into a queue.
LEMMA OpenByDeviceIntact ==
  ASSUME NEW U \in FrameSets, NEW V \in FrameSets, Intact(U, V),
         NEW d \in Conns, OpenByDevice(d)
  PROVE  Intact(U, V)'
BY DEF Intact, TypeOKLink, OpenByDevice

\* Sending adds a frame the sender may send, or loses it.
LEMMA SentByDeviceIntact ==
  ASSUME NEW U \in FrameSets, NEW V \in FrameSets, Intact(U, V),
         NEW d \in Conns, NEW f \in U[d], SentByDevice(d, f)
  PROVE  Intact(U, V)'
<1>1. CASE UNCHANGED up
  BY <1>1 DEF Intact, TypeOKLink, SentByDevice
<1>2. CASE up' = [up EXCEPT ![d] = Append(@, f)]
  <2>1. Append(up[d], f) \in Seq(U[d])
    BY AppendProperties DEF Intact
  <2>2. /\ up' \in [Conns -> Seq(Frame)]
        /\ \A c \in Conns : up'[c] \in Seq(U[c])
    BY <1>2, <2>1, QueueReplaced DEF Intact, TypeOKLink
  <2> QED
    BY <2>2 DEF Intact, TypeOKLink, SentByDevice
<1> QED
  BY <1>1, <1>2 DEF SentByDevice

\* Receiving takes a frame the other end may have sent, and leaves such frames.
LEMMA TakenByDeviceIntact ==
  ASSUME NEW U \in FrameSets, NEW V \in FrameSets, Intact(U, V),
         NEW d \in Conns, TakenByDevice(d)
  PROVE  /\ Intact(U, V)'
         /\ Head(down[d]) \in V[d]
         /\ Head(down[d]) \in Frame
<1>1. Head(down[d]) \in V[d] /\ Tail(down[d]) \in Seq(V[d])
  BY HeadTailProperties DEF Intact, TakenByDevice
<1>2. /\ down' \in [Conns -> Seq(Frame)]
      /\ \A c \in Conns : down'[c] \in Seq(V[c])
  BY <1>1, QueueReplaced DEF Intact, TypeOKLink, TakenByDevice
<1>3. Intact(U, V)'
  BY <1>2 DEF Intact, TypeOKLink, TakenByDevice
<1> QED
  BY <1>1, <1>3 DEF FrameSets

\* Closing from the device leaves each queue as it was or empty.
LEMMA ClosedByDeviceIntact ==
  ASSUME NEW U \in FrameSets, NEW V \in FrameSets, Intact(U, V),
         NEW d \in Conns, ClosedByDevice(d)
  PROVE  Intact(U, V)'
<1>1. << >> \in Seq(U[d])
  BY EmptySeq
<1> DEFINE cut == [up EXCEPT ![d] = << >>]
<1>2. /\ cut \in [Conns -> Seq(Frame)]
      /\ \A c \in Conns : cut[c] \in Seq(U[c])
  BY <1>1, QueueReplaced DEF Intact, TypeOKLink
<1>3. up' = up \/ up' = cut
  BY DEF ClosedByDevice
<1> HIDE DEF cut
<1> QED
  BY <1>2, <1>3 DEF Intact, TypeOKLink, ClosedByDevice

\* The same, of the phone: sending adds a frame it may send, or loses it.
LEMMA SentByPhoneIntact ==
  ASSUME NEW U \in FrameSets, NEW V \in FrameSets, Intact(U, V),
         NEW d \in Conns, NEW f \in V[d], SentByPhone(d, f)
  PROVE  Intact(U, V)'
<1>1. CASE UNCHANGED down
  BY <1>1 DEF Intact, TypeOKLink, SentByPhone
<1>2. CASE down' = [down EXCEPT ![d] = Append(@, f)]
  <2>1. Append(down[d], f) \in Seq(V[d])
    BY AppendProperties DEF Intact
  <2>2. /\ down' \in [Conns -> Seq(Frame)]
        /\ \A c \in Conns : down'[c] \in Seq(V[c])
    BY <1>2, <2>1, QueueReplaced DEF Intact, TypeOKLink
  <2> QED
    BY <2>2 DEF Intact, TypeOKLink, SentByPhone
<1> QED
  BY <1>1, <1>2 DEF SentByPhone

\* The same, of the phone: it takes a frame the glasses may have sent.
LEMMA TakenByPhoneIntact ==
  ASSUME NEW U \in FrameSets, NEW V \in FrameSets, Intact(U, V),
         NEW d \in Conns, TakenByPhone(d)
  PROVE  /\ Intact(U, V)'
         /\ Head(up[d]) \in U[d]
         /\ Head(up[d]) \in Frame
<1>1. Head(up[d]) \in U[d] /\ Tail(up[d]) \in Seq(U[d])
  BY HeadTailProperties DEF Intact, TakenByPhone
<1>2. /\ up' \in [Conns -> Seq(Frame)]
      /\ \A c \in Conns : up'[c] \in Seq(U[c])
  BY <1>1, QueueReplaced DEF Intact, TypeOKLink, TakenByPhone
<1>3. Intact(U, V)'
  BY <1>2 DEF Intact, TypeOKLink, TakenByPhone
<1> QED
  BY <1>1, <1>3 DEF FrameSets

\* Closing from the phone discards what was unread, and may reset the other side.
LEMMA ClosedByPhoneIntact ==
  ASSUME NEW U \in FrameSets, NEW V \in FrameSets, Intact(U, V),
         NEW d \in Conns, NEW unread \in Seq(U[d]), ClosedByPhone(d, unread)
  PROVE  Intact(U, V)'
<1> DEFINE read == [up EXCEPT ![d] = unread]
           cut == [down EXCEPT ![d] = << >>]
<1>1. /\ read \in [Conns -> Seq(Frame)]
      /\ \A c \in Conns : read[c] \in Seq(U[c])
  BY QueueReplaced DEF Intact, TypeOKLink
<1>2. << >> \in Seq(V[d])
  BY EmptySeq
<1>3. /\ cut \in [Conns -> Seq(Frame)]
      /\ \A c \in Conns : cut[c] \in Seq(V[c])
  BY <1>2, QueueReplaced DEF Intact, TypeOKLink
<1>4. up' = read /\ (down' = down \/ down' = cut)
  BY DEF ClosedByPhone
<1> HIDE DEF read, cut
<1> QED
  BY <1>1, <1>3, <1>4 DEF Intact, TypeOKLink, ClosedByPhone

\* A dead server process closes every connection, with nothing new in a queue.
LEMMA AllClosedByPhoneIntact ==
  ASSUME NEW U \in FrameSets, NEW V \in FrameSets, Intact(U, V), AllClosedByPhone
  PROVE  Intact(U, V)'
<1>1. PICK reset \in SUBSET {c \in Conns : up[c] # << >>} :
        down' = [c \in Conns |-> IF c \in reset THEN << >> ELSE down[c]]
  BY DEF AllClosedByPhone
<1>2. /\ down' \in [Conns -> Seq(Frame)]
      /\ \A c \in Conns : down'[c] \in Seq(V[c])
  BY <1>1, EmptySeq DEF Intact, TypeOKLink
<1>3. phoneEnd' \in [Conns -> {"none", "backlog", "open", "closed"}]
  BY DEF Intact, TypeOKLink, AllClosedByPhone
<1> QED
  BY <1>2, <1>3 DEF Intact, TypeOKLink, AllClosedByPhone

\* A path that goes silent cuts its queues short.
LEMMA PathLostIntact ==
  ASSUME NEW U \in FrameSets, NEW V \in FrameSets, Intact(U, V),
         NEW d \in Conns, PathLost(d)
  PROVE  Intact(U, V)'
<1>1. PICK i \in 0 .. Len(up[d]), j \in 0 .. Len(down[d]) :
        /\ up' = [up EXCEPT ![d] = SubSeq(@, 1, i)]
        /\ down' = [down EXCEPT ![d] = SubSeq(@, 1, j)]
        /\ radio' = [radio EXCEPT ![d] = IF j < Len(down[d]) THEN "retrying"
                                                             ELSE "lost"]
  BY DEF PathLost
<1>2. SubSeq(up[d], 1, i) \in Seq(U[d]) /\ SubSeq(down[d], 1, j) \in Seq(V[d])
  BY PrefixOfQueue DEF Intact
<1>3. /\ up' \in [Conns -> Seq(Frame)]
      /\ \A c \in Conns : up'[c] \in Seq(U[c])
  BY <1>1, <1>2, QueueReplaced DEF Intact, TypeOKLink
<1>4. /\ down' \in [Conns -> Seq(Frame)]
      /\ \A c \in Conns : down'[c] \in Seq(V[c])
  BY <1>1, <1>2, QueueReplaced DEF Intact, TypeOKLink
<1>5. radio' \in [Conns -> {"up", "lost", "retrying"}]
  BY <1>1 DEF Intact, TypeOKLink
<1> QED
  BY <1>3, <1>4, <1>5 DEF Intact, TypeOKLink, PathLost

\* Damage in transit replaces a frame, where damaged frames are allowed for.
LEMMA DamageIntact ==
  ASSUME NEW U \in FrameSets, NEW V \in FrameSets, Intact(U, V),
         DamageClosed(U), DamageClosed(V), NEW d \in Conns, Damage(d)
  PROVE  Intact(U, V)'
<1>1. ASSUME NEW i \in DOMAIN up[d], NEW f \in Damages(up[d][i]), UNCHANGED down,
             up' = [up EXCEPT ![d][i] = f]
      PROVE  Intact(U, V)'
  <2> DEFINE s == [up[d] EXCEPT ![i] = f]
  <2>1. up[d] \in Seq(U[d]) /\ i \in 1 .. Len(up[d])
    BY LenProperties DEF Intact
  <2>2. f \in U[d]
    BY <2>1, ElementOfSeq DEF DamageClosed
  <2>3. s \in Seq(U[d])
    BY <2>1, <2>2, DamagedQueue
  <2>4. up' = [up EXCEPT ![d] = s]
    BY <1>1
  <2> HIDE DEF s
  <2>5. /\ up' \in [Conns -> Seq(Frame)]
        /\ \A c \in Conns : up'[c] \in Seq(U[c])
    BY <2>3, <2>4, QueueReplaced DEF Intact, TypeOKLink
  <2> QED
    BY <1>1, <2>5 DEF Intact, TypeOKLink, Damage
<1>2. ASSUME NEW i \in DOMAIN down[d], NEW f \in Damages(down[d][i]), UNCHANGED up,
             down' = [down EXCEPT ![d][i] = f]
      PROVE  Intact(U, V)'
  <2> DEFINE s == [down[d] EXCEPT ![i] = f]
  <2>1. down[d] \in Seq(V[d]) /\ i \in 1 .. Len(down[d])
    BY LenProperties DEF Intact
  <2>2. f \in V[d]
    BY <2>1, ElementOfSeq DEF DamageClosed
  <2>3. s \in Seq(V[d])
    BY <2>1, <2>2, DamagedQueue
  <2>4. down' = [down EXCEPT ![d] = s]
    BY <1>2
  <2> HIDE DEF s
  <2>5. /\ down' \in [Conns -> Seq(Frame)]
        /\ \A c \in Conns : down'[c] \in Seq(V[c])
    BY <2>3, <2>4, QueueReplaced DEF Intact, TypeOKLink
  <2> QED
    BY <1>2, <2>5 DEF Intact, TypeOKLink, Damage
<1> QED
  BY <1>1, <1>2 DEF Damage, Damaged

-----------------------------------------------------------------------------
(***************************************************************************)
(* The glasses                                                             *)
(***************************************************************************)

-----------------------------------------------------------------------------
(* Types *)

\* The frame sd_frame_recv hands to the glasses is a frame, with fields of their types.
LEMMA HeadDownIsFrame ==
  ASSUME TypeOKLink, boots \in Conns, TakenByDevice(boots)
  PROVE  /\ HeadDown \in Frame
         /\ HeadDown.type \in FrameTypes
         /\ HeadDown.of \in Content
         /\ HeadDown.num \in Nat
         /\ HeadDown.len \in Nat
<1>1. down[boots] \in Seq(Frame)
  BY DEF TypeOKLink
<1>2. HeadDown \in Frame
  BY <1>1, HeadTailProperties DEF HeadDown, TakenByDevice
<1> QED
  BY <1>2 DEF Frame

\* The utterance has a size.
LEMMA AudSizeType == AudSize \in Nat \ {0}
<1>1. AudChunks - 1 \in Nat /\ ChunkSize \in Nat /\ LastChunk \in Nat \ {0}
  BY LinkAssumption
<1>2. (AudChunks - 1) * ChunkSize \in Nat
  BY <1>1
<1> QED
  BY <1>1, <1>2 DEF AudSize

\* The state before any audio_begin is one play_audio_downlink can be in.
LEMMA NoAudioType == NoAudio \in AudioStates
<1>1. [p \in Places |-> Garbled] \in [Places -> Content]
  BY LinkAssumption DEF Content, Garbled
<1> QED
  BY <1>1, LinkAssumption DEF NoAudio, AudioStates, Content, Garbled

\* A value the device can hold, and how far the turn has come.
DeviceTypes == TypeOKDevice /\ ProgressInv

\* Power-off state of the glasses.
LEMMA DeviceTypesInit ==
  ASSUME InitDevice
  PROVE  DeviceTypes
<1>1. framebuf \in BOOLEAN
  BY DEF InitDevice
<1> QED
BY <1>1, NoAudioType, LinkAssumption, DeviceAssumption
   DEF InitDevice, DeviceTypes, TypeOKDevice, ProgressInv, Points, Running, None

USE DEF Return

\* Boot, network start and the bounded connect retry of app_main keep the types.
LEMMA BootingTypes ==
  ASSUME TypeOKLink, DeviceTypes, Boot \/ StartNet \/ Connect \/ ConnectFails
  PROVE  DeviceTypes'
<1>1. CASE Boot
  BY <1>1, NoAudioType, LinkAssumption, DeviceAssumption
     DEF Boot, DeviceTypes, TypeOKDevice, ProgressInv, Points, Running, Conns, None
<1>2. CASE StartNet
  BY <1>2, LinkAssumption, DeviceAssumption
     DEF StartNet, DeviceTypes, TypeOKDevice, ProgressInv, Points, Running, Errors
<1>3. CASE Connect
  BY <1>3 DEF Connect, DeviceTypes, TypeOKDevice, ProgressInv, Points, Running
<1>4. CASE ConnectFails
  BY <1>4, DeviceAssumption
     DEF ConnectFails, DeviceTypes, TypeOKDevice, ProgressInv, Points, Running, Errors
<1> QED
  BY <1>1, <1>2, <1>3, <1>4

\* Capture and upload keep the types, and reach "await" only with an image sent.
LEMMA UploadingTypes ==
  ASSUME TypeOKLink, DeviceTypes, Capture \/ Upload \/ UploadFails
  PROVE  DeviceTypes'
<1>1. CASE Capture
  <2>1. /\ pc = "capture"
        /\ pc' \in {"upload", "closing"}
        /\ framebuf' \in BOOLEAN
        /\ result' = result \/ result' \in Errors
        /\ UNCHANGED <<boots, attempts, sent, answer, audio, played>>
    BY <1>1, Zenon DEF Capture, Errors, DeviceTypes, TypeOKDevice
  <2> QED
    BY <2>1, LinkAssumption DEF DeviceTypes, TypeOKDevice, ProgressInv, Points, Running
<1>2. CASE Upload
  <2>1. framebuf' \in BOOLEAN
    BY <1>2, Zenon DEF Upload, DeviceTypes, TypeOKDevice
  <2> QED
    BY <1>2, <2>1, LinkAssumption
       DEF Upload, DeviceTypes, TypeOKDevice, ProgressInv, Points, Running
<1>3. CASE UploadFails
  BY <1>3
     DEF UploadFails, DeviceSendErrors, DeviceTypes, TypeOKDevice, ProgressInv, Points,
         Running, Errors
<1> QED
  BY <1>1, <1>2, <1>3

\* Each branch of the reply loop of sd_device_run_uplink keeps the types.
LEMMA ReplyLoopTypes ==
  ASSUME TypeOKLink, DeviceTypes,
         RecvAnswer \/ RecvAudioBegin \/ RecvPlayAudio \/ RecvRefused \/ RecvIgnored
           \/ RecvFails
  PROVE  DeviceTypes'
<1> USE DEF DeviceTypes, TypeOKDevice, ProgressInv, Points, Running, Errors
<1>0. pc = "await" => boots \in Conns
  OBVIOUS
<1>1. CASE RecvAnswer
  BY <1>0, <1>1, HeadDownIsFrame DEF RecvAnswer
<1>2. CASE RecvAudioBegin
  <2>1. audio' \in AudioStates
    BY <1>0, <1>2, HeadDownIsFrame, NoAudioType DEF RecvAudioBegin, AudioStates, NoAudio
  <2> QED
    BY <1>2, <2>1 DEF RecvAudioBegin
<1>3. CASE RecvPlayAudio
  BY <1>3 DEF RecvPlayAudio
<1>4. CASE RecvRefused
  BY <1>4 DEF RecvRefused
<1>5. CASE RecvIgnored
  BY <1>5 DEF RecvIgnored, devVars
<1>6. CASE RecvFails
  BY <1>6 DEF RecvFails, DeviceRecvErrors
<1> QED
  BY <1>1, <1>2, <1>3, <1>4, <1>5, <1>6

\* A chunk copied into the PCM buffer leaves a state of the reassembly.
LEMMA PlacedType ==
  ASSUME audio \in AudioStates, NEW f, f.of \in Content, f.len \in Nat
  PROVE  Placed(f) \in AudioStates
<1> DEFINE pcm == [p \in Places |-> IF p \in Span(f) THEN f.of ELSE audio.pcm[p]]
           total == (audio.total + f.len) % SizeT
<1>1. audio.got + 1 \in Nat
  BY DEF AudioStates
<1>2. pcm \in [Places -> Content]
  BY DEF AudioStates
<1>3. total \in Nat
  <2>1. SizeT \in Nat \ {0}
    BY DeviceAssumption, AudSizeType
  <2> QED
    BY <2>1 DEF AudioStates
<1>4. Placed(f) = [audio EXCEPT !.got = @ + 1, !.total = total, !.pcm = pcm]
  BY DEF Placed, AudioStates
<1> HIDE DEF pcm, total
<1> QED
  BY <1>1, <1>2, <1>3, <1>4 DEF AudioStates

\* sd_msg_recv_audio_body and what follows it keep the types.
LEMMA AudioTypes ==
  ASSUME TypeOKLink, DeviceTypes, RecvAudioChunk \/ RecvAudioEnd
  PROVE  DeviceTypes'
<1> USE DEF DeviceTypes, TypeOKDevice, ProgressInv, Points, Running, Errors
<1>0. pc = "audio" => boots \in Conns
  OBVIOUS
<1>1. CASE RecvAudioChunk
  <2>1. audio' \in AudioStates
    <3>1. HeadDown.of \in Content /\ HeadDown.len \in Nat
      BY <1>0, <1>1, HeadDownIsFrame DEF RecvAudioChunk
    <3>2. Placed(HeadDown) \in AudioStates
      BY <3>1, PlacedType
    <3>3. audio' = Placed(HeadDown) \/ audio' = audio
      BY <1>1, Zenon DEF RecvAudioChunk
    <3> QED
      BY <3>2, <3>3
  <2> QED
    BY <1>1, <2>1 DEF RecvAudioChunk
<1>2. CASE RecvAudioEnd
  <2>1. Speech \in Content
    BY LinkAssumption DEF Speech, AudioStates, Content, Garbled
  <2> QED
    BY <1>2, <2>1 DEF RecvAudioEnd
<1> QED
  BY <1>1, <1>2

\* Closing the transport, a reset and a loss of power keep the types.
LEMMA EndingTypes ==
  ASSUME TypeOKLink, DeviceTypes, CloseTransport \/ Crash \/ PowerLoss
  PROVE  DeviceTypes'
<1> USE DEF DeviceTypes, TypeOKDevice, ProgressInv, Points, Running
<1>1. CASE CloseTransport
  BY <1>1 DEF CloseTransport
<1>2. CASE Crash \/ PowerLoss
  <2>1. Forget
    BY <1>2 DEF Crash, PowerLoss
  <2> QED
    <3>1. framebuf' \in BOOLEAN
      BY <2>1 DEF Forget
    <3> QED
      BY <2>1, <3>1, NoAudioType, LinkAssumption, DeviceAssumption DEF Forget, None
<1> QED
  BY <1>1, <1>2

\* No step of the device gives one of its variables a value outside its type.
THEOREM DeviceNextTypes ==
  ASSUME TypeOKLink, DeviceTypes, DeviceNext
  PROVE  DeviceTypes'
BY BootingTypes, UploadingTypes, ReplyLoopTypes, AudioTypes, EndingTypes
   DEF DeviceNext, DeviceSteps

-----------------------------------------------------------------------------
(* The link, for any frames the two sides may send *)

\* A device that dies, with its socket closed by the host or left dangling, leaves
\* only frames in the queues that were there.
LEMMA CrashIntact ==
  ASSUME NEW U \in FrameSets, NEW V \in FrameSets, Intact(U, V), DeviceTypes,
         Crash \/ PowerLoss
  PROVE  Intact(U, V)'
<1>1. CASE Crash
  <2>1. CASE Connected
    BY <1>1, <2>1, ClosedByDeviceIntact DEF Crash, Connected
  <2>2. CASE ~Connected
    BY <1>1, <2>2 DEF Crash, linkVars, Intact, TypeOKLink
  <2> QED
    BY <2>1, <2>2
<1>2. CASE PowerLoss
  <2>1. boots \in Conns
    BY <1>2 DEF PowerLoss, Connected
  <2>2. PICK i \in 0 .. Len(up[boots]) :
          up' = [up EXCEPT ![boots] = SubSeq(@, 1, i)]
    BY <1>2 DEF PowerLoss
  <2>3. SubSeq(up[boots], 1, i) \in Seq(U[boots])
    BY <2>1, PrefixOfQueue DEF Intact
  <2>4. /\ up' \in [Conns -> Seq(Frame)]
        /\ \A c \in Conns : up'[c] \in Seq(U[c])
    BY <2>1, <2>2, <2>3, QueueReplaced DEF Intact, TypeOKLink
  <2>5. /\ devEnd' \in [Conns -> {"none", "open", "closed"}]
        /\ radio' \in [Conns -> {"up", "lost", "retrying"}]
        /\ UNCHANGED <<down, phoneEnd, listening>>
    BY <1>2, <2>1 DEF PowerLoss, Intact, TypeOKLink
  <2> QED
    BY <2>4, <2>5 DEF Intact, TypeOKLink
<1> QED
  BY <1>1, <1>2

\* The device's steps keep the link intact if the frames it uploads may go up.
THEOREM DeviceNextIntact ==
  ASSUME NEW U \in FrameSets, NEW V \in FrameSets, Intact(U, V), DeviceTypes,
         pc = "upload" => UploadFrame(sent) \in U[boots],
         DeviceNext
  PROVE  Intact(U, V)'
<1>0. pc \in Running => boots \in Conns
  BY DEF DeviceTypes, TypeOKDevice
<1>1. CASE UNCHANGED linkVars
  BY <1>1 DEF linkVars, Intact, TypeOKLink
<1>2. CASE Connect
  BY <1>0, <1>2, OpenByDeviceIntact DEF Connect, Running
<1>3. CASE Upload
  BY <1>0, <1>3, SentByDeviceIntact DEF Upload, Running
<1>4. CASE pc \in {"await", "audio"} /\ TakenByDevice(boots)
  BY <1>0, <1>4, TakenByDeviceIntact DEF Running
<1>5. CASE CloseTransport
  BY <1>0, <1>5, ClosedByDeviceIntact DEF CloseTransport, Running
<1>6. CASE Crash \/ PowerLoss
  BY <1>6, CrashIntact
<1> QED
  BY <1>1, <1>2, <1>3, <1>4, <1>5, <1>6
     DEF DeviceNext, DeviceSteps, Boot, StartNet, ConnectFails, Capture, UploadFails,
         RecvAnswer, RecvAudioBegin, RecvPlayAudio, RecvRefused, RecvIgnored, RecvFails,
         RecvAudioChunk, RecvAudioEnd

-----------------------------------------------------------------------------
(* Resources *)

\* The frame buffer is given back on every path: see FrameBufferNeverLeaks.
THEOREM DeviceNextFrameBuffer ==
  ASSUME FrameBufferNeverLeaks, DeviceNext
  PROVE  FrameBufferNeverLeaks'
<1> USE DEF FrameBufferNeverLeaks
<1>1. CASE Boot \/ StartNet \/ Connect \/ ConnectFails
  BY <1>1 DEF Boot, StartNet, Connect, ConnectFails
<1>2. CASE Capture
  BY <1>2 DEF Capture
<1>3. CASE Upload \/ UploadFails
  BY <1>3 DEF Upload, UploadFails
<1>4. CASE RecvAnswer \/ RecvAudioBegin \/ RecvPlayAudio \/ RecvRefused \/ RecvFails
  BY <1>4 DEF RecvAnswer, RecvAudioBegin, RecvPlayAudio, RecvRefused, RecvFails
<1>5. CASE RecvIgnored
  BY <1>5 DEF RecvIgnored, devVars
<1>6. CASE RecvAudioChunk \/ RecvAudioEnd
  BY <1>6 DEF RecvAudioChunk, RecvAudioEnd
<1>7. CASE CloseTransport \/ Crash \/ PowerLoss
  BY <1>7 DEF CloseTransport, Crash, PowerLoss, Forget
<1> QED
  BY <1>1, <1>2, <1>3, <1>4, <1>5, <1>6, <1>7 DEF DeviceNext, DeviceSteps

\* The socket is closed on every path: see NoSocketLeaks.
THEOREM DeviceNextSocket ==
  ASSUME TypeOKLink, DeviceTypes, NoSocketLeaks, DeviceNext
  PROVE  NoSocketLeaks'
<1> USE DEF NoSocketLeaks
<1>0. devEnd \in [Conns -> {"none", "open", "closed"}]
  BY DEF TypeOKLink
<1>1. CASE Boot \/ StartNet \/ ConnectFails
  BY <1>1 DEF Boot, StartNet, ConnectFails, linkVars
<1>2. CASE Connect
  BY <1>0, <1>2 DEF Connect, OpenByDevice
<1>3. CASE Capture \/ UploadFails \/ RecvFails
  BY <1>3 DEF Capture, UploadFails, RecvFails, linkVars
<1>4. CASE Upload
  BY <1>4 DEF Upload, SentByDevice
<1>5. CASE RecvAnswer \/ RecvAudioBegin \/ RecvPlayAudio \/ RecvRefused
  BY <1>5 DEF RecvAnswer, RecvAudioBegin, RecvPlayAudio, RecvRefused, TakenByDevice
<1>6. CASE RecvIgnored
  BY <1>6 DEF RecvIgnored, devVars, TakenByDevice
<1>7. CASE RecvAudioChunk \/ RecvAudioEnd
  BY <1>7 DEF RecvAudioChunk, RecvAudioEnd, TakenByDevice
<1>8. CASE CloseTransport
  BY <1>0, <1>8 DEF CloseTransport, ClosedByDevice
<1>9. CASE Crash
  BY <1>0, <1>9
     DEF Crash, Forget, Connected, ClosedByDevice, linkVars
<1>10. CASE PowerLoss
  BY <1>0, <1>10 DEF PowerLoss, Forget, Connected
<1> QED
  BY <1>1, <1>2, <1>3, <1>4, <1>5, <1>6, <1>7, <1>8, <1>9, <1>10
     DEF DeviceNext, DeviceSteps

-----------------------------------------------------------------------------
(***************************************************************************)
(* The phone's server                                                      *)
(***************************************************************************)

\* A value the server can hold, and what it holds at each stage.
PhoneTypes == TypeOKPhone /\ ServingInv

USE DEF Stages, Resting

-----------------------------------------------------------------------------
(* Values *)

\* What ImageReassembler is built from, and its absence.
LEMMA TransferType ==
  ASSUME NEW of \in Content, NEW want \in Nat
  PROVE  /\ Transfer(of, want) \in Transfers
         /\ NoTransfer \in Transfers
<1>1. NoChunks \in [ChunkNos -> Content \cup {None}]
  BY DEF NoChunks
<1>2. Garbled \in Content /\ 0 \in Nat
  BY LinkAssumption DEF Content, Garbled
<1>3. TRUE \in BOOLEAN /\ FALSE \in BOOLEAN
  OBVIOUS
<1> QED
  BY <1>1, <1>2, <1>3, Zenon DEF Transfers, Transfer, NoTransfer

\* Speech about k is made of frames of any set that has its begin, chunks and end.
LEMMA UtteranceOf ==
  ASSUME NEW S, NEW k,
         SpeechBegin(k) \in S,
         \A i \in 1 .. AudChunks : SpeechChunk(k, i) \in S,
         Msg("audio_end", Garbled, 0) \in S
  PROVE  Utterance(k) \in Seq(S)
<1> DEFINE body == [i \in 1 .. AudChunks |-> SpeechChunk(k, i)]
<1>1. body \in Seq(S)
  BY SeqDef, LinkAssumption
<1>2. <<SpeechBegin(k)>> \in Seq(S) /\ <<Msg("audio_end", Garbled, 0)>> \in Seq(S)
  OBVIOUS
<1>3. Utterance(k) = <<SpeechBegin(k)>> \o body \o <<Msg("audio_end", Garbled, 0)>>
  BY DEF Utterance
<1> HIDE DEF body
<1> QED
  BY <1>1, <1>2, <1>3, ConcatProperties

\* The reply to an image, with speech or without.
LEMMA ReplyOf ==
  ASSUME NEW S, NEW k, NEW wav \in BOOLEAN,
         Msg("ai_response", k, 0) \in S,
         SpeechBegin(k) \in S,
         \A i \in 1 .. AudChunks : SpeechChunk(k, i) \in S,
         Msg("audio_end", Garbled, 0) \in S
  PROVE  LET r == <<Msg("ai_response", k, 0)>> \o (IF wav THEN Utterance(k) ELSE << >>)
         IN  r \in Seq(S) /\ r # << >> /\ r[1] = Msg("ai_response", k, 0)
<1> DEFINE a == <<Msg("ai_response", k, 0)>>
           b == IF wav THEN Utterance(k) ELSE << >>
<1>1. a \in Seq(S) /\ Len(a) = 1 /\ a[1] = Msg("ai_response", k, 0)
  OBVIOUS
<1>2. b \in Seq(S)
  BY UtteranceOf, EmptySeq
<1> HIDE DEF a, b
<1>3. /\ a \o b \in Seq(S)
      /\ Len(a \o b) = Len(a) + Len(b)
      /\ \A i \in 1 .. Len(a) + Len(b) : (a \o b)[i] = IF i <= Len(a) THEN a[i] ELSE b[i - Len(a)]
  BY <1>1, <1>2, ConcatProperties
<1>4. Len(b) \in Nat
  BY <1>2, LenProperties
<1>5. a \o b # << >> /\ (a \o b)[1] = a[1]
  BY <1>1, <1>3, <1>4, EmptySeq
<1> QED
  BY <1>1, <1>3, <1>5 DEF a, b

\* The frame recv_frame hands to the server is a frame, with fields of their types.
LEMMA HeadUpIsFrame ==
  ASSUME TypeOKLink, serving \in Conns, up[serving] # << >>
  PROVE  /\ HeadUp \in Frame
         /\ HeadUp.type \in FrameTypes
         /\ HeadUp.of \in Content
         /\ HeadUp.num \in Nat
<1>1. up[serving] \in Seq(Frame)
  BY DEF TypeOKLink
<1>2. HeadUp \in Frame
  BY <1>1, HeadTailProperties DEF HeadUp
<1> QED
  BY <1>2 DEF Frame

-----------------------------------------------------------------------------
(* Types *)

\* The server starts with nothing in hand.
LEMMA PhoneTypesInit ==
  ASSUME InitPhone
  PROVE  PhoneTypes
<1>1. Garbled \in Content /\ 0 \in Nat
  BY LinkAssumption DEF Content, Garbled
<1>2. NoTransfer \in Transfers
  BY <1>1, TransferType
<1>3. << >> \in Seq(Frame)
  BY EmptySeq
<1> QED
  BY <1>2, <1>3, LinkAssumption DEF InitPhone, PhoneTypes, TypeOKPhone, ServingInv

\* An idle thread: what HangUp, ServerDies and StartServer leave behind.
LEMMA IdleTypes ==
  ASSUME stage' \in {"stopped", "accept"}, serving' = 0, reasm' = NoTransfer,
         job' = None, replies' = << >>
  PROVE  PhoneTypes'
<1>1. Garbled \in Content /\ 0 \in Nat
  BY LinkAssumption DEF Content, Garbled
<1>2. NoTransfer \in Transfers
  BY <1>1, TransferType
<1>3. << >> \in Seq(Frame)
  BY EmptySeq
<1> QED
  BY <1>2, <1>3, LinkAssumption DEF PhoneTypes, TypeOKPhone, ServingInv

\* Frames of the server's own making.
LEMMA OwnFrames ==
  ASSUME NEW k \in Content
  PROVE  /\ Msg("ai_response", k, 0) \in Frame
         /\ SpeechBegin(k) \in Frame
         /\ \A i \in 1 .. AudChunks : SpeechChunk(k, i) \in Frame
         /\ Msg("audio_end", Garbled, 0) \in Frame
         /\ \A t \in {"error", "pong", "device_info"} : Msg(t, Garbled, 0) \in Frame
<1>1. Garbled \in Content
  BY LinkAssumption DEF Content, Garbled
<1>2. SpeechBegin(k) \in Frame
  BY LinkAssumption, AudSizeType, MsgIsFrame DEF SpeechBegin, FrameTypes, ControlTypes
<1>3. ASSUME NEW i \in 1 .. AudChunks
      PROVE  SpeechChunk(k, i) \in Frame
  <2>1. (IF i < AudChunks THEN ChunkSize ELSE LastChunk) \in Nat /\ i - 1 \in Nat
    BY LinkAssumption
  <2> QED
    BY <2>1, MsgIsFrame DEF SpeechChunk, FrameTypes
<1> QED
  BY <1>1, <1>2, <1>3, LinkAssumption, MsgIsFrame DEF FrameTypes, ControlTypes

\* The transfer branches of handle_connection keep the types.
LEMMA ReassemblyTypes ==
  ASSUME TypeOKLink, PhoneTypes, ServeBegin \/ ServeChunk \/ ServeEnd \/ ServeStrayEnd
  PROVE  PhoneTypes'
<1>0. /\ stage = "serve" /\ serving \in Conns /\ up[serving] # << >>
      /\ reasm \in Transfers
  BY DEF PhoneTypes, TypeOKPhone, ServeBegin, ServeChunk, ServeEnd, ServeStrayEnd, Serves
<1>1. HeadUp.of \in Content /\ HeadUp.num \in Nat
  BY <1>0, HeadUpIsFrame
<1>2. CASE ServeBegin
  <2>1. reasm' \in Transfers
    BY <1>1, <1>2, TransferType DEF ServeBegin
  <2> QED
    BY <1>2, <1>0, <2>1 DEF ServeBegin, PhoneTypes, TypeOKPhone, ServingInv
<1>3. CASE ServeChunk
  <2>1. reasm' \in Transfers
    BY <1>0, <1>1, <1>3 DEF ServeChunk, Transfers
  <2> QED
    BY <1>3, <1>0, <2>1 DEF ServeChunk, PhoneTypes, TypeOKPhone, ServingInv
<1>4. CASE ServeEnd
  <2>1. job' \in Content /\ job' # None
    BY <1>0, <1>4, LinkAssumption
       DEF ServeEnd, Image, Transfers, Content, Garbled, None
  <2>2. NoTransfer \in Transfers
    BY <1>1, TransferType
  <2> QED
    BY <1>4, <1>0, <2>1, <2>2 DEF ServeEnd, PhoneTypes, TypeOKPhone, ServingInv
<1>5. CASE ServeStrayEnd
  BY <1>5 DEF ServeStrayEnd, phoneVars, PhoneTypes, TypeOKPhone, ServingInv
<1> QED
  BY <1>2, <1>3, <1>4, <1>5

\* Replies, queued or sent, keep the types.
LEMMA ReplyingTypes ==
  ASSUME TypeOKLink, PhoneTypes,
         ServeStrayChunk \/ ServeQuery \/ Analyse \/ SendReply
  PROVE  PhoneTypes'
<1> USE DEF PhoneTypes, TypeOKPhone, ServingInv
<1>1. CASE ServeStrayChunk \/ ServeQuery
  <2>1. PICK t \in {"error", "pong", "device_info"} : Reply(<<Msg(t, Garbled, 0)>>)
    BY <1>1 DEF ServeStrayChunk, ServeQuery
  <2>2. Garbled \in Content
    BY LinkAssumption DEF Content, Garbled
  <2>3. Msg(t, Garbled, 0) \in Frame
    BY <2>2, OwnFrames
  <2>4. stage = "serve" /\ UNCHANGED <<serving, reasm, job>>
    BY <1>1 DEF ServeStrayChunk, ServeQuery, Serves
  <2> QED
    BY <2>1, <2>3, <2>4 DEF Reply
<1>2. CASE Analyse
  <2>1. job \in Content
    BY <1>2 DEF Analyse
  <2>2. PICK wav \in BOOLEAN :
          Reply(<<Msg("ai_response", job, 0)>> \o (IF wav THEN Utterance(job) ELSE << >>))
    BY <1>2 DEF Analyse
  <2>3. replies' \in Seq(Frame) /\ replies' # << >>
    BY <2>1, <2>2, OwnFrames, ReplyOf DEF Reply
  <2> QED
    BY <1>2, <2>2, <2>3 DEF Analyse, Reply
<1>3. CASE SendReply
  <2>1. replies # << >>
    BY <1>3 DEF SendReply
  <2>2. Tail(replies) \in Seq(Frame) /\ Len(Tail(replies)) = Len(replies) - 1
    BY <2>1, HeadTailProperties
  <2>3. Len(replies) \in Nat /\ (Tail(replies) = << >> <=> Len(Tail(replies)) = 0)
    BY <2>2, LenProperties, EmptySeq
  <2> QED
    BY <1>3, <2>2, <2>3 DEF SendReply
<1> QED
  BY <1>1, <1>2, <1>3

\* No step of the server gives one of its variables a value outside its type, or
\* leaves the thread at a stage without what that stage works on.
THEOREM PhoneNextTypes ==
  ASSUME TypeOKLink, PhoneTypes, PhoneNext
  PROVE  PhoneTypes'
<1>1. CASE StartServer
  BY <1>1 DEF StartServer, PhoneTypes, TypeOKPhone, ServingInv
<1>2. CASE Accept
  BY <1>2 DEF Accept, PhoneTypes, TypeOKPhone, ServingInv, Oldest, Waiting, Conns
<1>3. CASE ServeBegin \/ ServeChunk \/ ServeEnd \/ ServeStrayEnd
  BY <1>3, ReassemblyTypes
<1>4. CASE ServeStrayChunk \/ ServeQuery \/ Analyse \/ SendReply
  BY <1>4, ReplyingTypes
<1>5. CASE ServeProtocolError \/ ServeHangUp \/ AnalyseHangUp \/ ReplyHangUp
  BY <1>5, IdleTypes
     DEF ServeProtocolError, ServeHangUp, AnalyseHangUp, ReplyHangUp, HangUp
<1>6. CASE ServerDies
  BY <1>6, IdleTypes DEF ServerDies
<1> QED
  BY <1>1, <1>2, <1>3, <1>4, <1>5, <1>6 DEF PhoneNext, PhoneSteps

-----------------------------------------------------------------------------
(* The link, for any frames the two sides may send *)

\* The server's steps keep the link intact if the frames it is about to send may
\* go down the connection it serves.
THEOREM PhoneNextIntact ==
  ASSUME NEW U \in FrameSets, NEW V \in FrameSets, Intact(U, V), PhoneTypes,
         stage = "reply" => Head(replies) \in V[serving],
         PhoneNext
  PROVE  Intact(U, V)'
<1>0. stage \in {"serve", "analyse", "reply"} => serving \in Conns
  BY DEF PhoneTypes, TypeOKPhone
<1>1. CASE StartServer \/ Accept
  BY <1>1 DEF StartServer, Accept, Intact, TypeOKLink
<1>2. CASE Analyse
  BY <1>2 DEF Analyse, linkVars, Intact, TypeOKLink
<1>3. CASE stage = "serve" /\ TakenByPhone(serving)
  BY <1>0, <1>3, TakenByPhoneIntact
<1>4. CASE SendReply
  BY <1>0, <1>4, SentByPhoneIntact DEF SendReply
<1>5. CASE ServeProtocolError
  <2>1. stage = "serve" /\ up[serving] # << >>
    BY <1>5 DEF ServeProtocolError, Serves
  <2>2. Tail(up[serving]) \in Seq(U[serving])
    BY <1>0, <2>1, HeadTailProperties DEF Intact
  <2> QED
    BY <1>0, <1>5, <2>1, <2>2, ClosedByPhoneIntact DEF ServeProtocolError, HangUp
<1>6. CASE ServeHangUp \/ AnalyseHangUp \/ ReplyHangUp
  <2>1. serving \in Conns /\ ClosedByPhone(serving, up[serving])
    BY <1>0, <1>6 DEF ServeHangUp, AnalyseHangUp, ReplyHangUp, HangUp
  <2> QED
    BY <2>1, ClosedByPhoneIntact DEF Intact
<1>7. CASE ServerDies
  BY <1>7, AllClosedByPhoneIntact DEF ServerDies
<1> QED
  BY <1>1, <1>2, <1>3, <1>4, <1>5, <1>6, <1>7
     DEF PhoneNext, PhoneSteps, ServeBegin, ServeChunk, ServeStrayChunk, ServeEnd,
         ServeStrayEnd, ServeQuery, Serves, Consume
=============================================================================
