------------------------------- MODULE Answer -------------------------------
(***************************************************************************)
(* What a turn hands back: the glasses' side of device.c from sd_device_   *)
(* init to the text and the metrics of sd_device_run_uplink, the camera of *)
(* camera_esp.c under it, and Pipeline.run on the phone.  The frames get   *)
(* through whole or not at all; how they travel is for Link and Wire.      *)
(***************************************************************************)
EXTENDS JsonScan, ImageCheck

CONSTANTS
  Pictures,       \* what the camera may deliver
  Answers,        \* what the provider may answer: text, and never none
  TextCap,        \* 1024: sizeof(text) in sd_device_run_uplink
  ResponseCap,    \* 512: sizeof(response) in app_main
  ControlCap,     \* SD_MSG_RECV_CAP - 1
  Clock,          \* 2^32: what now_ms counts modulo
  Durations       \* bound: how long a stage may take, in milliseconds

ASSUME AnswerAssumption ==
  /\ TextCap \in Nat /\ ResponseCap \in 1 .. TextCap - 3
  /\ ControlCap \in Nat /\ Clock \in Nat \ {0}
  /\ Durations \subseteq Nat
  /\ \A text \in Answers : IsText(text) /\ text # << >>
  /\ \A p \in Pictures : IsPicture(p)

NoPicture == [media |-> "none", segments |-> << >>, cut |-> 0]
NoAnswer == << >>
Sorry == <<83>>       \* "Sorry, I couldn't read that image."
Garbage == <<-1>>     \* what was in the caller's buffer

VARIABLES
  s_inited,     \* the camera driver runs
  s_fb,         \* the one frame buffer, while the glasses hold it
  point,        \* where app_main or main stands
  now,          \* now_ms()
  timestamps,   \* t_start, t_capture_done, t_upload_done
  received,     \* the picture the phone has not judged yet
  answer,       \* what it sends: result.text
  response,     \* response_out up to its NUL
  metrics,      \* sd_uplink_metrics_t
  spent,        \* how long each finished stage of the turn really took
  code          \* what sd_device_run_uplink returned

cameraVars == <<s_inited, s_fb>>
phoneVars == <<received, answer>>
clockVars == <<now, timestamps, spent>>
vars == <<cameraVars, phoneVars, clockVars, point, response, metrics, code>>

Times == 0 .. Clock - 1
NoMetrics ==
  [capture_ms |-> 0, upload_ms |-> 0, response_ms |-> 0, total_ms |-> 0,
   response_bytes |-> 0]
Untimed == [capture |-> 0, upload |-> 0, response |-> 0]

Booting == {"off", "cycle", "status", "ready"}

\* The lengths in it are those of C strings that fit their buffers.
TypeOK ==
  /\ s_inited \in BOOLEAN
  /\ s_fb \in Pictures \cup {NoPicture}
  /\ point \in Booting \cup {"capture", "upload", "await", "play", "done"}
  /\ timestamps \in [start : Times, captured : Times, uploaded : Times] /\ now \in Times
  /\ received \in Pictures \cup {NoPicture}
  /\ answer \in Answers \cup {Sorry, NoAnswer}
  /\ \/ response = Garbage
     \/ response \in Seq(1 .. 255) /\ Len(response) < ResponseCap
  /\ metrics \in [capture_ms : Times, upload_ms : Times, response_ms : Times,
                  total_ms : Times, response_bytes : 0 .. TextCap - 1]
  /\ DOMAIN spent = DOMAIN Untimed /\ \A s \in DOMAIN spent : spent[s] \in Durations \cup {0}
  /\ code \in {"none", "OK", "IO", "TIMEOUT", "NO_MEM", "INVALID", "UNSUPPORTED"}

\* The clock may stand anywhere: on a host it counts from the boot of the machine.
Init ==
  /\ s_inited = FALSE /\ s_fb = NoPicture
  /\ point = "off"
  /\ now \in Times
  /\ timestamps = [start |-> 0, captured |-> 0, uploaded |-> 0]
  /\ received = NoPicture /\ answer = NoAnswer
  /\ response = Garbage
  /\ metrics = NoMetrics
  /\ spent = Untimed
  /\ code = "none"

-----------------------------------------------------------------------------
(* camera_esp.c *)

Started == s_inited' = TRUE /\ UNCHANGED s_fb

FrameTaken ==
  /\ s_inited /\ s_fb = NoPicture
  /\ s_fb' \in Pictures
  /\ UNCHANGED s_inited

\* Not started; a frame not released; no frame, or none in JPEG, from the driver.
CaptureError ==
  IF ~s_inited THEN "UNSUPPORTED" ELSE IF s_fb # NoPicture THEN "INVALID" ELSE "IO"

Released == s_fb' = NoPicture /\ UNCHANGED s_inited

-----------------------------------------------------------------------------
(* sd_device_init and sd_device_capture_cycle *)

\* Mutant: the status is filled, and the frame forgotten.
CycleForgets == point = "status" /\ point' = "ready" /\ UNCHANGED cameraVars

\* app_main goes on to the capture cycle whatever is returned, main only on SD_OK
\* and straight to its turn.
DeviceInit ==
  /\ point = "off"
  /\ \/ Started /\ point' \in {"cycle", "ready"}
     \/ UNCHANGED cameraVars /\ point' = "cycle"

\* No reading of the battery, or no capture.
CycleFails == point = "cycle" /\ point' = "ready" /\ UNCHANGED cameraVars

CycleCaptures == point = "cycle" /\ FrameTaken /\ point' = "status"

CycleReleases == point = "status" /\ point' = "ready" /\ Released

Boot ==
  /\ DeviceInit \/ CycleFails \/ CycleCaptures \/ CycleReleases
  /\ UNCHANGED <<phoneVars, clockVars, response, metrics, code>>

-----------------------------------------------------------------------------
(* sd_device_run_uplink *)

Since(t) == (now' - t) % Clock

Takes(stage) ==
  \E d \in Durations :
    /\ now' = (now + d) % Clock
    /\ spent' = [spent EXCEPT ![stage] = d]

Returns(c) == code' = c /\ point' = "done"

Begin ==
  /\ point = "ready"
  /\ response' = << >>
  /\ metrics' = NoMetrics
  /\ timestamps' = [timestamps EXCEPT !.start = now]
  /\ point' = "capture"
  /\ UNCHANGED <<cameraVars, phoneVars, now, spent, code>>

Capture ==
  /\ point = "capture"
  /\ FrameTaken
  /\ Takes("capture")
  /\ timestamps' = [timestamps EXCEPT !.captured = now']
  /\ metrics' = [metrics EXCEPT !.capture_ms = Since(timestamps.start)]
  /\ point' = "upload"
  /\ UNCHANGED <<phoneVars, response, code>>

CaptureFails ==
  /\ point = "capture"
  /\ Returns(CaptureError)
  /\ UNCHANGED <<cameraVars, phoneVars, clockVars, response, metrics>>

Upload ==
  /\ point = "upload"
  /\ received' = s_fb
  /\ Released
  /\ Takes("upload")
  /\ timestamps' = [timestamps EXCEPT !.uploaded = now']
  /\ metrics' = [metrics EXCEPT !.upload_ms = Since(timestamps.captured)]
  /\ point' = "await"
  /\ UNCHANGED <<answer, response, code>>

UploadFails ==
  /\ point = "upload"
  /\ Released
  /\ \E c \in {"IO", "TIMEOUT", "NO_MEM"} : Returns(c)
  /\ UNCHANGED <<phoneVars, clockVars, response, metrics>>

\* The message as it lies in buf; a word counts as one byte, as in TextCap.
Message == AnswerMessage(answer)
Oversize == 2 + Len(Message) + 3 * Cardinality({i \in DOMAIN Message : Message[i] < 0}) > ControlCap

\* sd_msg_recv returns SD_MSG_AI_RESPONSE with the text.
RecvAnswer ==
  /\ point = "await" /\ answer # NoAnswer
  /\ ~Oversize /\ HasString(Message, Type)
  /\ LET text == GetString(Message, Text, TextCap) IN
       /\ response' = SubSeq(text, 1, Min({Len(text), ResponseCap - 1}))
       /\ metrics' = [metrics EXCEPT !.response_bytes = Len(text)]
  /\ point' = "play"
  /\ UNCHANGED <<cameraVars, phoneVars, clockVars, code>>

RecvRefused ==
  /\ point = "await" /\ answer # NoAnswer
  /\ \/ Oversize /\ Returns("NO_MEM")
     \/ ~Oversize /\ ~HasString(Message, Type) /\ Returns("IO")
  /\ UNCHANGED <<cameraVars, phoneVars, clockVars, response, metrics>>

\* No further frame, or none that can be taken.
RecvFails ==
  /\ point \in {"await", "play"}
  /\ \E c \in {"IO", "TIMEOUT"} : Returns(c)
  /\ UNCHANGED <<cameraVars, phoneVars, clockVars, response, metrics>>

\* Mutant: the turn is taken to begin with the upload.
FinalizedFromCapture ==
  [metrics EXCEPT !.response_ms = Since(timestamps.uploaded),
                  !.total_ms = Since(timestamps.captured)]

\* finalize_metrics
Finalized ==
  [metrics EXCEPT !.response_ms = Since(timestamps.uploaded),
                  !.total_ms = Since(timestamps.start)]

\* play_audio_downlink, whatever it returns, or play_audio.
EndTurn ==
  /\ point = "play"
  /\ Takes("response")
  /\ metrics' = Finalized
  /\ \E c \in {"OK", "IO", "TIMEOUT", "NO_MEM", "INVALID"} : Returns(c)
  /\ UNCHANGED <<cameraVars, phoneVars, timestamps, response>>

-----------------------------------------------------------------------------
(* Pipeline.run *)

Analyse ==
  /\ received # NoPicture
  /\ IF Accepted(received) THEN answer' \in Answers ELSE answer' = Sorry
  /\ received' = NoPicture
  /\ UNCHANGED <<cameraVars, clockVars, point, response, metrics, code>>

\* The program is over: main returns, app_main has nothing left to do.
Finished == point = "done" /\ received = NoPicture /\ UNCHANGED vars

Next ==
  \/ Boot
  \/ Begin \/ Capture \/ CaptureFails \/ Upload \/ UploadFails
  \/ RecvAnswer \/ RecvRefused \/ RecvFails \/ EndTurn
  \/ Analyse
  \/ Finished

Spec == Init /\ [][Next]_vars

-----------------------------------------------------------------------------
(* Properties *)

InUtf8(s) == FlattenSeq([i \in DOMAIN s |-> Utf8(s[i])])

\* device.h: the text is handed back NUL-terminated and truncated to response_cap.
\* Escapes, surrogate pairs and the two truncations one after the other notwithstanding,
\* the wearer reads the first bytes the phone's text has in UTF-8, and all that fit; and
\* on no way out does the caller keep what was in the buffer before.
AnswerReadsBack ==
  /\ point \notin Booting => response # Garbage
  /\ point = "play" =>
       response = SubSeq(InUtf8(answer), 1, Min({Len(InUtf8(answer)), ResponseCap - 1}))

\* The one kind of answer the scanner stumbles over is the one that makes the word
\* type, with a quote on either side, appear before the key does.
OnlyTypeIsUnreadable ==
  point = "await" /\ answer # NoAnswer =>
    (HasString(Message, Type) <=>
       ~(\/ answer = <<Type>>
         \/ Len(answer) > 1 /\ SubSeq(answer, Len(answer) - 1, Len(answer)) = <<Quote, Type>>))

\* json.h: "the key is matched as the token "key" followed by ':'".
TypeIsFoundByItsColon == point = "await" /\ answer # NoAnswer => HasString(Message, Type)

\* The comment at now_ms: stage deltas stay correct across the 32-bit wrap.  So does
\* their sum, which is the total; and a turn that failed earlier has no total.
MetricsAreTrue ==
  point \notin Booting =>
    /\ metrics.capture_ms = spent.capture % Clock
    /\ metrics.upload_ms = spent.upload % Clock
    /\ metrics.response_ms = spent.response % Clock
    /\ metrics.total_ms \in {0, (spent.capture + spent.upload + spent.response) % Clock}
    /\ code = "OK" =>
         (metrics.capture_ms + metrics.upload_ms + metrics.response_ms - metrics.total_ms)
           % Clock = 0

\* The camera is never asked for a frame while the glasses hold its only buffer: the
\* cycle at boot and the turn each give it back, on all of their ways out.
CaptureFindsBufferFree == point \in {"cycle", "ready", "capture", "await", "done"} => s_fb = NoPicture

\* _jpeg_dimensions finds the frame header of every picture that has one it can use, past
\* headers of a thumbnail and tables with a similar marker, and of no other picture: what
\* is cut short before it never reaches the provider, what is cut later does.
SorryOnlyWhenUndecodable ==
  [][received # NoPicture /\ received' = NoPicture =>
       IF \/ received.cut = 0
          \/ received.media = "image/jpeg" /\ ~Decodable(received)
       THEN answer' = Sorry ELSE answer' \in Answers]_vars
=============================================================================
