------------------------------ MODULE Glasses -------------------------------
(***************************************************************************)
(* The whole turn: the glasses of module Device and the server of module   *)
(* Phone, over the connections of module Link.                             *)
(***************************************************************************)
EXTENDS Device, Phone

vars == <<devVars, phoneVars, linkVars>>

Init == InitLink /\ InitDevice /\ InitPhone

Environment ==
  /\ \E c \in Conns : PathLost(c) \/ Damage(c)
  /\ UNCHANGED <<devVars, phoneVars>>

\* Bound: a behaviour ends when the power-ons are used up and the last is over.
Finished ==
  /\ boots = MaxBoots
  /\ pc \in {"off", "done"}
  /\ UNCHANGED vars

Next ==
  \/ DeviceNext /\ UNCHANGED phoneVars
  \/ PhoneNext /\ UNCHANGED devVars
  \/ Environment
  \/ Finished

Spec == Init /\ [][Next]_vars

\* The device's task always runs on, for each of its waits has a timeout.
DeviceFair == WF_vars(DeviceSteps /\ UNCHANGED phoneVars)

\* The server's thread runs whenever a blocking call of its can return.
PhoneFair == WF_vars(PhoneSteps /\ UNCHANGED devVars)

SpecDeviceFair == Spec /\ DeviceFair
SpecFair == Spec /\ DeviceFair /\ PhoneFair

-----------------------------------------------------------------------------
(* Invariants *)

\* Every variable holds a value the code can give it.
TypeOK == TypeOKLink /\ TypeOKDevice /\ TypeOKPhone

\* sd_device_run_uplink hands the application the answer to the picture of this
\* turn or no answer: never one of an earlier turn, whose reply may be late, and
\* never one about bytes the SHA-256 of image_begin does not vouch for.
AnswerIsForThisTurn == answer \in {None, boots}

\* play_audio_downlink plays the whole, undamaged speech of this turn or nothing.
SpeechIsForThisTurn == played \in {None, boots}

\* SD_OK means the wearer has had both the text and the speech: over the real
\* phone, the reply loop cannot end well on a turn that was only half answered.
OkMeansAnsweredAndHeard == result = "OK" => answer = boots /\ played = boots

\* _process_and_reply only ever sees the image of the connection it serves, whole
\* and as the glasses took it, whatever was damaged or cut short on the way.
OnlyIntactImagesAnalysed == job \in {None, serving}

-----------------------------------------------------------------------------
(* Action properties *)

\* TRANSPORT.md, "Reply": after the analysis the phone sends two control frames,
\* the answer and the order to speak it.
ReplyOrdersPlayback ==
  [][stage = "analyse" /\ stage' = "reply" =>
       \E i \in DOMAIN replies' :
         replies'[i].type \in {"play_audio", "audio_begin"}]_vars

-----------------------------------------------------------------------------
(* Liveness *)

\* Unless a path is silently lost, every connection the kernel completed is
\* served or dropped: no client keeps the single-threaded server for ever, by a
\* turn it leaves open or by waiting for the server while the server waits for it.
EveryConnectionServed ==
  PhoneFair =>
    \A c \in Conns : phoneEnd[c] = "backlog" ~>
      phoneEnd[c] # "backlog" \/ \E d \in Conns : radio[d] = "lost"

\* server.py, handle_connection: a link the glasses drop (Wi-Fi loss) makes the
\* blocked receive or send fail, which ends the connection.
DroppedLinkEndsConnection ==
  \A c \in Conns : (serving = c /\ radio[c] # "up") ~> serving # c

-----------------------------------------------------------------------------
(* The turn service *)

Outcome ==
  CASE result = "none" -> "none" [] result = "OK" -> "ok" [] OTHER -> "failed"

Service == INSTANCE TurnService WITH
  Turns <- MaxBoots,
  turn <- boots,
  phase <- IF pc \in Running /\ result = "none" THEN "running" ELSE "idle",
  answer <- answer,
  spoken <- played,
  outcome <- Outcome

\* The composed system implements the turn service.
ImplementsTurnService == Service!Spec

\* And, the device's task being fair, its promise that every turn ends.
ImplementsFairTurnService == Service!FairSpec

-----------------------------------------------------------------------------
(* The inductive invariant behind the safety properties *)

InTurn == {"capture", "upload", "await", "audio", "closing"}

\* A frame belongs to the turn of the connection it travels on.
DeviceFrames(c) == {f \in Frame : f.of \in {Garbled, c}}
PhoneFrames(c) ==
  {f \in DeviceFrames(c) :
     /\ f.type = "ai_response" => f.of = c
     /\ f.type # "play_audio"}

FramesInv ==
  /\ \A c \in Conns : up[c] \in Seq(DeviceFrames(c)) /\ down[c] \in Seq(PhoneFrames(c))
  /\ replies \in Seq(PhoneFrames(serving))

\* A connection the current turn has not opened yet is untouched.
FreshInv ==
  /\ \A c \in Conns : phoneEnd[c] = "none" =>
       up[c] = << >> /\ down[c] = << >> /\ devEnd[c] = "none"
  /\ \A c \in Conns : c > boots => phoneEnd[c] = "none"
  /\ pc \in {"net", "connect"} => phoneEnd[boots] = "none"
  /\ pc \in InTurn => phoneEnd[boots] # "none" /\ devEnd[boots] = "open"

\* The server holds nothing of a connection it does not serve.
ServerInv ==
  /\ serving \in Conns => phoneEnd[serving] = "open"
  /\ reasm.of \in {Garbled, serving}
  /\ OnlyIntactImagesAnalysed

DeviceInv ==
  /\ AnswerIsForThisTurn
  /\ SpeechIsForThisTurn
  /\ pc = "audio" => audio.of \in {Garbled, boots} /\ answer = boots
  /\ OkMeansAnsweredAndHeard
  /\ pc \in Running => (result = "none" <=> pc # "closing")

\* On its way to a device that still waits, speech comes after the answer, or after
\* what damage has made of it: a frame that ends the turn.
Heralds(f) == f.type \in {"ai_response", "malformed"}
Says(q) == \E j \in DOMAIN q : Heralds(q[j])
Heralded(q, answered) ==
  \A i \in DOMAIN q : q[i].type = "audio_begin" =>
    answered \/ \E j \in 1 .. i - 1 : Heralds(q[j])

OrderInv ==
  pc \in {"capture", "upload", "await"} =>
    /\ Heralded(down[boots], answer = boots)
    /\ serving = boots /\ radio[boots] = "up" =>
         Heralded(replies, answer = boots \/ Says(down[boots]))

\* Holds in every reachable state and, taken alone, in every successor: what a
\* turn answers and plays rests on where each frame in flight comes from.
IInv ==
  /\ TypeOK
  /\ ProgressInv
  /\ ServingInv
  /\ FramesInv
  /\ FreshInv
  /\ ServerInv
  /\ DeviceInv
  /\ OrderInv
=============================================================================
