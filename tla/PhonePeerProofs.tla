--------------------------- MODULE PhonePeerProofs ---------------------------
(***************************************************************************)
(* What the phone's server keeps to whatever its clients send: an image it *)
(* analyses is made of the chunks of one transfer.                         *)
(***************************************************************************)
EXTENDS PhonePeer, EndProofs

\* Upwards anything a client may send; of the replies nothing is asked but that they
\* are frames.
AnyRequests == [c \in Conns |-> AnyRequest]
AnyFrames == [c \in Conns |-> Frame]

\* The history is true of the dict: it holds the numbers received, and no others.
HeldIsTaken == reasm.active => taken = {n \in ChunkNos : reasm.chunks[n] # None}

ClientsInv ==
  /\ Intact(AnyRequests, AnyFrames)
  /\ PhoneTypes
  /\ HeldIsTaken

-----------------------------------------------------------------------------
(* Frames *)

\* Clients send frames, and number their chunks within ChunkNos.
LEMMA RequestsAreFrames ==
  ASSUME NEW c \in Conns
  PROVE  /\ AnyRequest \subseteq Frame
         /\ \A f \in AnyRequest : f.type = "chunk" => f.num \in ChunkNos
<1>1. Garbled \in Content /\ 1 \in Content /\ 0 \in Nat
  BY LinkAssumption DEF Content, Garbled, Conns
<1>2. ChunkNos \subseteq Nat
  BY LinkAssumption DEF ChunkNos
<1>3. ASSUME NEW f \in AnyRequest
      PROVE  f \in Frame /\ (f.type = "chunk" => f.num \in ChunkNos)
  <2>1. CASE f \in {Msg(t, Garbled, 0) : t \in {"image_end", "ping", "other", "malformed"}}
    BY <1>1, <2>1, MsgIsFrame DEF FrameTypes, ControlTypes, Msg, Sized
  <2>2. CASE f \in {Msg("image_begin", 1, n) : n \in 0 .. ImgChunks}
    BY <1>1, <1>2, <2>2, MsgIsFrame DEF FrameTypes, ControlTypes, Msg, Sized, ChunkNos
  <2>3. CASE f \in {Msg("chunk", k, n) : k \in {Garbled, 1}, n \in ChunkNos}
    BY <1>1, <1>2, <2>3, MsgIsFrame DEF FrameTypes, Msg, Sized
  <2> QED
    BY <2>1, <2>2, <2>3 DEF AnyRequest
<1> QED
  BY <1>3

\* Both are sets of frames each connection may carry.
LEMMA AnyFramesType == AnyRequests \in FrameSets /\ AnyFrames \in FrameSets
BY RequestsAreFrames DEF AnyRequests, AnyFrames, FrameSets

\* The chunk the server takes has a number the dict has room for, and is not None.
LEMMA ChunkServed ==
  ASSUME ClientsInv, Serves("chunk")
  PROVE  HeadUp.num \in ChunkNos /\ HeadUp.of # None
<1>1. serving \in Conns /\ up[serving] # << >> /\ up[serving] \in Seq(AnyRequest) /\ TypeOKLink
  BY DEF ClientsInv, PhoneTypes, TypeOKPhone, Serves, Intact, AnyRequests
<1>2. HeadUp \in AnyRequest
  BY <1>1, HeadTailProperties DEF HeadUp
<1>3. HeadUp.of \in Content
  BY <1>1, HeadUpIsFrame
<1> QED
  BY <1>1, <1>2, <1>3, RequestsAreFrames, LinkAssumption DEF Serves, Content, None

\* The reply the server is about to send is a frame.
LEMMA RepliesAreFrames ==
  ASSUME ClientsInv, stage = "reply"
  PROVE  Head(replies) \in AnyFrames[serving]
<1>1. replies \in Seq(Frame) /\ replies # << >> /\ serving \in Conns
  BY DEF ClientsInv, PhoneTypes, TypeOKPhone, ServingInv
<1> QED
  BY <1>1, HeadTailProperties DEF AnyFrames

-----------------------------------------------------------------------------
(* The clients *)

\* What is said of the server survives a step it takes no part in.
LEMMA IdleServer ==
  ASSUME PhoneTypes, HeldIsTaken, UNCHANGED <<phoneVars, taken>>
  PROVE  PhoneTypes' /\ HeldIsTaken'
<1>1. UNCHANGED <<stage, serving, reasm, job, replies, taken>>
  BY DEF phoneVars
<1>2. TypeOKPhone'
  BY <1>1 DEF PhoneTypes, TypeOKPhone
<1>3. ServingInv'
  BY <1>1 DEF PhoneTypes, ServingInv, Resting
<1>4. HeldIsTaken'
  BY <1>1 DEF HeldIsTaken
<1> QED
  BY <1>2, <1>3, <1>4 DEF PhoneTypes

\* A client that connects, sends, reads or closes leaves the server alone.
LEMMA ClientStep ==
  ASSUME ClientsInv, NEW c \in Conns, UNCHANGED <<phoneVars, taken>>,
         ClientConnects(c) \/ ClientSends(c) \/ ClientReads(c) \/ ClientCloses(c)
  PROVE  ClientsInv'
<1>0. Intact(AnyRequests, AnyFrames) /\ AnyRequests \in FrameSets /\ AnyFrames \in FrameSets
  BY AnyFramesType DEF ClientsInv
<1>1. ASSUME ClientConnects(c) PROVE Intact(AnyRequests, AnyFrames)'
  BY <1>0, <1>1, OpenByDeviceIntact DEF ClientConnects
<1>2. ASSUME ClientSends(c) PROVE Intact(AnyRequests, AnyFrames)'
  <2>1. PICK f \in AnyRequest : SentByDevice(c, f)
    BY <1>2 DEF ClientSends
  <2>2. f \in AnyRequests[c]
    BY DEF AnyRequests
  <2> QED
    BY <1>0, <2>1, <2>2, SentByDeviceIntact
<1>3. ASSUME ClientReads(c) PROVE Intact(AnyRequests, AnyFrames)'
  BY <1>0, <1>3, TakenByDeviceIntact DEF ClientReads
<1>4. ASSUME ClientCloses(c) PROVE Intact(AnyRequests, AnyFrames)'
  BY <1>0, <1>4, ClosedByDeviceIntact DEF ClientCloses
<1>5. Intact(AnyRequests, AnyFrames)'
  BY <1>1, <1>2, <1>3, <1>4
<1> QED
  BY <1>5, IdleServer DEF ClientsInv

-----------------------------------------------------------------------------
(* The server *)

\* An idle thread holds no transfer, and its history is empty.
LEMMA HungUpHolds ==
  ASSUME reasm' = NoTransfer
  PROVE  HeldIsTaken'
BY DEF HeldIsTaken, NoTransfer

\* A transfer begins with nothing held.
LEMMA BeginHolds ==
  ASSUME ClientsInv, ServeBegin, Remember
  PROVE  HeldIsTaken'
<1>1. reasm' = Transfer(HeadUp.of, HeadUp.num) /\ taken' = {}
  BY DEF ServeBegin, Remember
<1>2. {n \in ChunkNos : reasm'.chunks[n] # None} = {}
  BY <1>1 DEF Transfer, NoChunks
<1> QED
  BY <1>1, <1>2 DEF HeldIsTaken

\* A chunk is held under its number, for the first time or again.
LEMMA ChunkHolds ==
  ASSUME ClientsInv, ServeChunk, Remember
  PROVE  HeldIsTaken'
<1>1. /\ serving' = serving /\ serving \in Conns /\ reasm \in Transfers /\ reasm.active
      /\ Serves("chunk") /\ ~Serves("image_begin")
  BY DEF ServeChunk, ClientsInv, PhoneTypes, TypeOKPhone, Serves
<1>2. taken' = taken \cup {HeadUp.num}
  BY <1>1 DEF Remember, Conns
<1>3. HeadUp.num \in ChunkNos /\ HeadUp.of # None
  BY <1>1, ChunkServed
<1>4. taken = {n \in ChunkNos : reasm.chunks[n] # None}
  BY <1>1 DEF ClientsInv, HeldIsTaken
<1>5. reasm'.chunks = [reasm.chunks EXCEPT ![HeadUp.num] = HeadUp.of]
  BY <1>1 DEF ServeChunk, Transfers
<1>6. reasm.chunks \in [ChunkNos -> Content \cup {None}]
  BY <1>1 DEF Transfers
<1>7. \A n \in ChunkNos : reasm'.chunks[n] = IF n = HeadUp.num THEN HeadUp.of ELSE reasm.chunks[n]
  BY <1>3, <1>5, <1>6
<1> QED
  BY <1>2, <1>3, <1>4, <1>7 DEF HeldIsTaken

\* The other steps of a served connection take no chunk into the dict.
LEMMA OtherHolds ==
  ASSUME ClientsInv, PhoneNext, Remember, ~ServeBegin, ~ServeChunk
  PROVE  HeldIsTaken'
<1>1. CASE reasm' = NoTransfer
  BY <1>1, HungUpHolds
<1>2. CASE StartServer \/ Accept
  <2>1. reasm' = NoTransfer
    BY <1>2 DEF StartServer, Accept, ClientsInv, PhoneTypes, ServingInv, Resting
  <2> QED
    BY <2>1, HungUpHolds
<1>3. CASE ServeStrayChunk \/ ServeStrayEnd
  <2>1. ~reasm'.active
    BY <1>3 DEF ServeStrayChunk, ServeStrayEnd, phoneVars
  <2> QED
    BY <2>1 DEF HeldIsTaken
<1>4. CASE ServeQuery \/ Analyse \/ SendReply
  <2>1. /\ UNCHANGED <<serving, reasm>> /\ serving \in Conns
        /\ ~Serves("chunk") /\ ~Serves("image_begin")
    BY <1>4 DEF ServeQuery, Analyse, SendReply, Serves, ClientsInv, PhoneTypes, TypeOKPhone
  <2>2. taken' = taken
    BY <2>1 DEF Remember, Conns
  <2> QED
    BY <2>1, <2>2 DEF ClientsInv, HeldIsTaken
<1> QED
  BY <1>1, <1>2, <1>3, <1>4
     DEF PhoneNext, PhoneSteps, ServeEnd, ServeProtocolError, ServeHangUp, AnalyseHangUp,
         ReplyHangUp, HangUp, ServerDies

\* So does every step of the server keep the invariant.
LEMMA ServerStep ==
  ASSUME ClientsInv, PhoneNext, Remember
  PROVE  ClientsInv'
<1>0. Intact(AnyRequests, AnyFrames) /\ AnyRequests \in FrameSets /\ AnyFrames \in FrameSets
  BY AnyFramesType DEF ClientsInv
<1>1. Intact(AnyRequests, AnyFrames)'
  BY <1>0, RepliesAreFrames, PhoneNextIntact DEF ClientsInv
<1>2. PhoneTypes'
  BY PhoneNextTypes DEF ClientsInv, Intact
<1>3. HeldIsTaken'
  BY BeginHolds, ChunkHolds, OtherHolds
<1> QED
  BY <1>1, <1>2, <1>3 DEF ClientsInv

-----------------------------------------------------------------------------
(* The theorems *)

\* The dict of the reassembler and the numbers received agree at all times, in any
\* order of connections, transfers, repeats and interruptions.
THEOREM ClientsInvariance == Spec => []ClientsInv
<1>1. Init => ClientsInv
  <2> SUFFICES ASSUME Init PROVE ClientsInv
    OBVIOUS
  <2>1. PhoneTypes
    BY PhoneTypesInit DEF Init
  <2>2. Intact(AnyRequests, AnyFrames)
    BY EmptySeq DEF Init, InitLink, Intact, TypeOKLink, AnyRequests, AnyFrames
  <2>3. HeldIsTaken
    BY DEF Init, InitPhone, NoTransfer, HeldIsTaken
  <2> QED
    BY <2>1, <2>2, <2>3 DEF ClientsInv
<1>2. ClientsInv /\ [Next]_vars => ClientsInv'
  <2> SUFFICES ASSUME ClientsInv, [Next]_vars PROVE ClientsInv'
    OBVIOUS
  <2>1. CASE PhoneNext /\ Remember
    BY <2>1, ServerStep
  <2>2. ASSUME UNCHANGED <<phoneVars, taken>>, NEW c \in Conns,
               ClientConnects(c) \/ ClientSends(c) \/ ClientReads(c) \/ ClientCloses(c)
        PROVE  ClientsInv'
    BY <2>2, ClientStep
  <2>3. CASE UNCHANGED vars
    <3>1. Intact(AnyRequests, AnyFrames)'
      BY <2>3 DEF vars, linkVars, ClientsInv, Intact, TypeOKLink
    <3> QED
      BY <2>3, <3>1, IdleServer DEF vars, ClientsInv
  <2> QED
    BY <2>1, <2>2, <2>3 DEF Next
<1> QED
  BY <1>1, <1>2, PTL DEF Spec

\* The step that starts an analysis is the one that found the dict complete.
LEMMA AnalysisStep ==
  ASSUME ClientsInv, [Next]_vars, stage = "serve", stage' = "analyse"
  PROVE  taken = {n \in ChunkNos : n < reasm.want}
<1>1. ServeEnd
  BY DEF Next, PhoneNext, PhoneSteps, vars, phoneVars, StartServer, Accept, ServeBegin,
         ServeChunk, ServeStrayChunk, ServeStrayEnd, ServeProtocolError, ServeQuery, Reply,
         ServeHangUp, HangUp, Analyse, AnalyseHangUp, SendReply, ReplyHangUp, ServerDies
<1>2. Complete(reasm) /\ reasm.active
  BY <1>1 DEF ServeEnd, Whole
<1>3. taken = {n \in ChunkNos : reasm.chunks[n] # None}
  BY <1>2 DEF ClientsInv, HeldIsTaken
<1> QED
  BY <1>2, <1>3 DEF Complete

\* No chunk of an interrupted transfer or of an earlier connection is in an image that
\* goes to analysis, and none announced is missing: see AnalysedFromOneTransfer.
THEOREM OneTransfer == Spec => AnalysedFromOneTransfer
<1>1. ClientsInv /\ [Next]_vars =>
        [stage = "serve" /\ stage' = "analyse"
           => taken = {n \in ChunkNos : n < reasm.want}]_vars
  BY AnalysisStep
<1> QED
  BY <1>1, ClientsInvariance, PTL DEF Spec, AnalysedFromOneTransfer
=============================================================================
