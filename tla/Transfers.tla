----------------------------- MODULE Transfers ------------------------------
(***************************************************************************)
(* A connection byte by byte in both directions: the image goes up, and    *)
(* once the phone has it, utterances come down and are played.  What goes  *)
(* up in later turns shares nothing with the channel they leave behind:    *)
(* only the first image taken is modelled, those lost before it included.  *)
(***************************************************************************)
EXTENDS Uplink, Downlink

vars == <<wireVars, upVars, audioVars, bodyVars>>

TypeOK == TypeOKWire /\ TypeOKUp /\ TypeOKBody

Init == InitWire /\ InitUp /\ InitAudio /\ InitBody

Upload == UplinkStep /\ UNCHANGED <<audioVars, bodyVars>>

\* The fields of an audio_begin, for speech of any length and format.
Reply ==
  /\ upload = "taken"
  /\ \E u \in Utterances : Announce(u) \/ Refuse(u)
  /\ UNCHANGED upVars

Playback == DownlinkStep /\ UNCHANGED upVars

Stream ==
  /\ SenderWrites \/ SenderStops \/ ByteDamaged
  /\ UNCHANGED <<upVars, audioVars, bodyVars>>

Next == Upload \/ Reply \/ Playback \/ Stream

Spec == Init /\ [][Next]_vars

-----------------------------------------------------------------------------
(* Properties *)

\* An image that arrived undamaged is refused by none of the checks of recv_frame,
\* handle_connection and ImageReassembler: not even an empty one.
UndamagedImageIsTaken ==
  [][upload = "sending" /\ damages = 0 /\ Full => upload' # "none"]_vars

\* An undamaged transfer is refused by none of the checks of sd_frame_recv and
\* sd_msg_recv_audio_body, for any size: none, a whole number of chunks, or not.
UndamagedIsTaken ==
  [][phase = "body" /\ damages = 0 /\ Full => phase' # "idle"]_vars
=============================================================================
