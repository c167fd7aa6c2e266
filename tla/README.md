# Sudonit Glasses: a verification project

TLA+ models of the Sudonit smart-glasses firmware and of its phone companion, model-checked with
TLC and, for the core, proved with TLAPS. The reference is the code under `src/`; line numbers of
every definition are in `PROJECT.json`, under `map`.

## 1. The system

A pair of glasses (ESP32-S3 firmware in C, with a host build of the same application code) takes a
picture, uploads it over one TCP connection to a phone (a Python server), and gets back the text of an
answer and the speech that says it. Both ends frame their messages the same way: a kind byte, a
4-byte length, then JSON (control) or a sequence number and data (binary).

| Component | Code | State it keeps | Operations | Talks to |
|---|---|---|---|---|
| Turn application | `firmware/src/app/device.c`, `esp-idf/main/app_main.c`, `main_interop.c` | where the turn stands; answer; PCM buffer; metrics | boot and its capture cycle, bounded connect retry, capture, upload, reply loop, audio downlink, close | HALs by call, phone by frames |
| Phone server | `phone/server.py` | the connection served, its `ImageReassembler`, replies to send | accept, one branch per frame type, analyse and reply, hang up | glasses by frames, pipeline by call |
| Protocol | `firmware/components/protocol`, `protocol/*.py` | none (C), chunks of a transfer (Python) | send/receive frame, image and audio transfers, digests | transport |
| Transport HAL | `hal/host/transport_tcp.c`, `hal/esp32/transport_wifi.c` | one socket | connect, send, recv, close, each with a timeout | kernel / lwIP |
| Network bring-up | `hal/esp32/net_esp.c` | `s_started`, `s_retries`, the event group | start, stop, event handler | Wi-Fi driver, event task |
| Camera HAL | `hal/esp32/camera_esp.c` | the one frame buffer | init, capture, release | driver |
| Audio HAL | `hal/esp32/audio_esp.c` | the I2S channel and its cached format | init, play | driver |
| Configuration | `config/*.c` | stored blob | defaults, load, save, set/get field | file or NVS |
| Console, config CLI | `app/provisioning.c`, `app/main_config.c` | a copy of the configuration, dirty flag | set, save, reset | configuration |
| Pipeline, TTS, AI | `phone/pipeline.py`, `phone/image.py`, `phone/audio/tts.py`, `phone/ai/*` | none | check the image, analyse, speak | server by call |
| JSON scanner, SHA-256 | `components/protocol/src/{json,sha256}.c` | none | pure functions | protocol |

What makes it hard:

- **Two sequential programs, no shared clock.** Each end blocks in `send` and `recv`. The glasses give
  up after `SD_IO_TIMEOUT_MS` and may boot again while the server still works on the old
  connection; the server has no timeout of its own and one thread.
- **The path.** A device that loses power or radio range sends no FIN. A close with unread input turns
  into a reset that may overtake data. TCP's checksum can miss damage, which is why both directions
  carry a SHA-256.
- **Partial failure in C.** Every early return of `sd_device_run_uplink` must give back the camera's
  only frame buffer, the PCM buffer and, in the caller, the socket.
- **Counting.** `sd_msg_recv_audio_body` counts frames and bytes, not sequence numbers, into memory `malloc`
  did not clear, and takes chunk count, size and lengths from the peer each on its own. The length of what is played comes from a channel count rounded to 8 bits in one
  place and wrapped at 32 in another. Latencies are differences of a clock that wraps.
- **Text.** The answer is written by `json.dumps`, searched by `strstr`, unescaped, turned into UTF-8
  and cut twice, in buffers of different sizes.
- **An event task** under `sd_net_start`, and **two programs over one file** under the configuration.

What makes each component correct, in one line each: a turn's answer and speech are about its own
picture, the text is the text the phone sent, and the turn ends; a transfer that nothing damaged is
taken, in either direction; the server analyses only whole images of one transfer and serves everyone;
bring-up reports a link only when there is one, and always reports; the amplifier plays each
utterance in its format and nothing beyond it; an acknowledged save is there, and only valid
configurations are ever loaded. The full list of hazards, with lines, is in `PROJECT.json`.

## 2. Modules

```
TurnService            what the wearer is promised (abstract)
      ^ implemented by
   Glasses  = Device + Phone over Link          GlassesProofs
   DevicePeer = Device + any peer over Link     DevicePeerProofs
   PhonePeer  = Phone + any clients over Link   PhonePeerProofs
   Link, Device, Phone                          EndProofs
NetBringup             net_esp.c, its event task, the Wi-Fi driver      BootProofs
Config                 config.c and its stores, provisioning.c, main_config.c   BootProofs
Transfers              one connection byte by byte in both directions   TransfersProofs
  Uplink               the image: sd_msg_send_image to ImageReassembler
  Downlink             the speech: send_audio to sd_msg_recv_audio_body
  AudioOut             audio_esp.c with play_audio_downlink's arithmetic
  Wire                 the byte stream and the loops at its ends
  Widths               the integer widths of all of them
Answer                 what a turn hands back: picture, text, metrics   AnswerProofs
  JsonScan             json.dumps and sd_json_get_string
  ImageCheck           image.py on pictures cut anywhere
  MCAnswer             the pictures and texts TLC tries
SequenceLemmas         induction, and sequences joined, cut and compared (for TransfersProofs, AnswerProofs)
```

The names of NetBringup and of the parts of Glasses carry the part (`SpecNet`, `TypeOKLink`) where two modules meet in
one that has theorems about both.

**Link** is the transport seen from both ends: two queues of whole frames for each connection, the state of
either end, the listening socket, and whether the path is alive. A connection is named by the boot
that opened it, for the device opens at most one in each. The grain is a frame, because both receivers
take a whole frame or give the connection up. `DeviceSendErrors`, `DeviceRecvErrors`, `PhoneSendFails`
and `PhoneRecvFails` say which results a call may have in a state: `SO_RCVTIMEO` may strike
at any time; end of stream is heard only over a live path and after all data; the phone's calls fail
only on a reset, or when its kernel gives up retransmitting into a dead path (`radio = "retrying"`).
`PathLost` and `Damage` are the environment. A damaged frame cannot be read, or is a chunk of other data under its own
number or another, or announces something else than what follows (`Damages`).

**Device** has one action for each blocking step of `app_main` and `sd_device_run_uplink`; `pc` is where
the task stands. `Upload` is one frame of `sd_msg_send_image`; the reply loop has one action for each branch;
`RecvAudioChunk` and `RecvAudioEnd` are `sd_msg_recv_audio_body` and what `play_audio_downlink` does
with its result. The transfer is kept as the code keeps it: chunk count and size as announced, each on its own, the
frames consumed, the running total of their bytes (modulo `SizeT`, where a `size_t` wraps), and the buffer byte by byte, a
chunk of any length written where its number says. `framebuf` is the camera's `s_fb`. `Crash` is a reset or a killed host build, whose
kernel closes the socket; `PowerLoss` is one nobody closes.

**Phone** has one action for each branch of `handle_connection`, with `stage` for where the thread stands.
`HangUp` is the return of `handle_connection`, with the close it implies. `Analyse`, `AnalyseHangUp` and
`ServerDies` are the three things that can come out of the pipeline: an answer (with or without a
WAV), an `OSError`, which the handler takes for a lost connection, and any other exception, which
leaves `serve`.

**NetBringup** separates the application's task, the event task (one event at a time) and the driver.
**Config** has a program killed between `fopen("wb")` and `fclose`, failed reads and writes of either
store, several programs over one file, and blobs of other builds.

**Transfers** goes below the grain of Link. **Wire** is one direction of a connection in bytes: a sender
whose `send` takes what the kernel has room for, a path that cuts the stream anywhere and may damage a byte, and
the loops of `sd_transport_recv` and `_recv_exactly` that fill a header, then a payload. **Uplink** runs
`sd_msg_send_image` over it into `recv_frame`, `handle_connection` and the `ImageReassembler`; a control message is
there its type and its numbers. **Downlink** runs `send_audio` into `sd_msg_recv_audio_body` with its offsets
(`Copied` writes wherever the offset points, so that a write outside the buffer would show). **AudioOut** plays the
result on an I2S channel kept between turns. `Byte` and `Word` are the moduli of `uint8_t` and `uint32_t`, the latter
also of `size_t` on the ESP32. `UndamagedChunks`, `UndamagedPrefix`, `UndamagedImageIsTaken` and `UndamagedIsTaken`
are what entitles Link to whole frames.

**Answer** goes into the content that Link leaves abstract. The boot-time capture cycle and the turn share the
camera's only frame buffer (`s_fb`, `s_inited`), the picture may be cut short by it, and `Pipeline.run` answers or
apologises, depending on the marker scan of **ImageCheck**. **JsonScan** writes the answer as `json.dumps` does and
reads it as `sd_json_get_string` does, down to surrogate pairs and a buffer that is full; a character is its code
point, and the few words the scanner searches for are one character each. `now` is `now_ms()`, which wraps; `spent`
is a history of how long each stage really took.

Data are abstract where no property looks inside. *Content identity* stands for bytes and digests:
`k > 0` is whatever belongs to the picture of boot `k`; `0` (`Garbled`) is any byte string no announced
digest matches; so SHA-256 is taken as injective on what a behaviour can hold.

## 3. Runs

| Run | Module, configuration | Shows |
|---|---|---|
| `glasses` | Glasses, `MCGlasses` | the whole turn: safety, the inductive invariant `IInv`, refinement of `TurnService` with its liveness, and that no connection waits for ever unless a path goes silent |
| `device_peer` | DevicePeer, `MCDevicePeer` | the glasses against a peer that sends anything |
| `phone_peer` | PhonePeer, `MCPhonePeer` | the server against clients that send anything |
| `net_bringup` | NetBringup, `MCNetBringup` | `sd_net_start` against event task and driver |
| `config` | Config, `MCConfig` | configuration and console over the two stores |
| `transfers` | Transfers, `MCTransfers` | framing, reassembly and offsets of both directions, format cache and length arithmetic |
| `answer` | MCAnswer, `MCAnswer` | the text read back, the metrics, the frame buffer at boot, the image check |

Bounds, and why they are enough to be interesting:

- `MaxBoots` 2 lets a late answer of one turn meet the next, and a second client wait in a backlog of one while
  the first is served.
- Two chunks of an image (in `glasses` and `phone_peer`) allow one missing, one repeated, and one damaged among good
  ones. `SockBuf` 1 or 2 makes both senders block, against transfers of three or four frames. In `glasses` the speech is
  one chunk: the numbers of its chunks are the business of `device_peer`.
- In `device_peer` the speech of the phone would be two chunks of two bytes and one, and the peer announces up to three
  chunks and three bytes, in every combination, and sends chunks of 0 to 2 bytes: a whole chunk, the same again empty, and
  another; a chunk twice and one missing, adding up to the announced size. `SizeT` 4 is just above that size, so that the
  running total wraps to a size within it.
- `PeerFrames` and `ClientFrames` 5 are one more than the shortest complete transfer of two chunks in that run, so one
  frame can be wrong, extra or out of order anywhere.
- `MaxRetry` 2 with `MaxDrops` 5 exhausts the retries before and after an address was assigned; `MaxCalls` 4 is start,
  stop, start, stop.
- Two fields of two values show mixed configurations; two programs on a file, one on NVS, as deployed.
- 2- and 4-bit integers wrap in every way 8- and 32-bit ones do, for the same divisibility holds
  (`WidthsAssumption`); the announced counts include multiples of `Byte` and `Word / 2`.
- `Chunk` 2 with speech of 0, 1, 3 and 8 bytes and images of 0, 3 and 4: the empty transfer, one shorter than a chunk, a
  short last chunk, whole chunks. Four chunks have sequence numbers one damaged byte away from those whose offset wraps
  32 bits. `SockBytes` 3 is as long as a header and less than a payload; a buffer of `Digits + Chunk` = 4 below
  `MaxFrame` 8 lets each header check fail by itself. One damaged byte is enough to reach each check of either receiver.
  The first image taken ends the uploads of a behaviour: later ones share no state with it or with the channel.
- In `answer`, texts of up to three characters from nine: one to four bytes long in UTF-8, escaped in three ways, and
  the scanner's own quote, backslash and key words. Caps of 9 and 6 bytes cut in the middle of characters, `ControlCap`
  45 refuses the longest messages; a clock of 4 wraps within a stage and `Durations` 5 is longer than the clock.
  Pictures are five marker sequences, each cut after every byte, with frame headers of 0, of more than
  `MaxDimension` and in a thumbnail.

Fairness is on few actions and each from the code. `DeviceFair`: the device's task always runs on, for
each of its waits is bounded (`SO_RCVTIMEO`, `SO_SNDTIMEO`, the connect retries, `NET_TIMEOUT_MS`).
`PhoneFair`: the server's thread runs when a blocking call of its can return; nothing is assumed of a call
that cannot. `glasses` assumes the former only, for the refinement; the latter is the premise of
`EveryConnectionServed`. In NetBringup only the timed wait is fair. Booting, crashes, the path, the peer, the
access point and the starting of the server are never fair. Behaviours end when the boots (or calls)
are used up, where `Finished` stutters; deadlock is checked in every run.

### Disagreements of code and text

Five runs check what a text of the repository says and find it violated:

- `playback`: `TRANSPORT.md` promises a playback order after each answer; without a WAV the server sends none,
  and the glasses report a failed turn after a full timeout.
- `dropped`: a comment in `handle_connection` counts a lost link among the errors that end the connection; a
  silently lost one raises no error in `recv`, and the single-threaded server waits for ever.
- `net_twice`: `sd_net_start` repeated after a failure returns `SD_OK` without a link.
- `type_answer`: `json.h` says a key is matched with the colon behind it. The scanner takes the first place where the
  quoted word stands, so an answer that is the word `type` (or ends in a quote and that word) makes a well-formed
  message unreadable, and the turn fails. `OnlyTypeIsUnreadable` says that no other answer does.
- `config_file_saved`: the result of `fclose` is not looked at, so "ok: saved" may leave an empty file.

Two more were seen in reading and have no run: `sd_config_store_read` of the file store reports a file it
cannot open as a fresh device, where `config.h` promises `SD_ERR_IO` (no caller looks at the result; the model has what
either store leaves it with, the defaults); and `sd_net_start` copies 31 characters of an SSID for which
`config.h` allows 32.

## 4. Proofs

For every value of the constants, under the assumptions named in the modules that declare them
(`LinkAssumption`, `DeviceAssumption`, `PeerAssumption`, `ClientAssumption`, `NetAssumption`, `ConfigAssumption`,
`WidthsAssumption`, `WireAssumption`, `UplinkAssumption`, `AudioAssumption`, `AnswerAssumption`: naturals, positive where
the code has at least one, widths that divide each other, and caps in the order of those in the code):

- `GlassesProofs`: `Spec => []IInv`, and from it `TypeOK`, `AnswerIsForThisTurn`, `SpeechIsForThisTurn`,
  `OkMeansAnsweredAndHeard` and `OnlyIntactImagesAnalysed`; and `Spec => ImplementsTurnService`, the safety part of
  the refinement.
- `DevicePeerProofs`: against any peer, `FrameBufferNeverLeaks`, `NoSocketLeaks`, `PlayedBytesArrivedOnce` and
  `NothingAfterReturn`.
- `PhonePeerProofs`: against any clients, `AnalysedFromOneTransfer`.
- `BootProofs`: of NetBringup `TypeOKNet`, `GivesUpOnlyAfterRetries` and `WaitedOkMeansAddress`; of Config `TypeOK`,
  `CleanMeansUnchanged` and `NvsKeepsAckedOrTried`.
- `TransfersProofs`: all nine invariants of the `transfers` run, for integers of any width, any chunk and frame limits,
  and any pictures, utterances and announced formats.
- `AnswerProofs`: all five invariants of the `answer` run, for any pictures, any clock and all texts.

**The turn.** None of its properties is inductive: whether an answer is right depends on the frame that
brought it, that on what the server sent, that on what it reassembled, and that on what the glasses sent.
So `IInv` says it of each place in turn. `FramesInv`: a connection carries only frames of its own turn;
`play_audio` is never among them, for this server sends none. `FreshInv`: the connection a turn is about to
open is untouched. `ServerInv`: the server holds nothing of a connection but the one it serves.
`DeviceInv`: nor do the glasses of a turn but their own. `OrderInv`: on its way to a device that waits, speech
comes after the text (or after what damage has left of it, a frame that ends the turn), in the queue and in what the
server has still to send; this is what
`OkMeansAnsweredAndHeard` rests on, because `audio_begin` ends the turn whether or not a text came
before. `ProgressInv` and `ServingInv` tie counters and buffers to the program points.

`EndProofs` has what the operations of the link, the device and the phone each preserve, whoever is at the other end,
and does the frames once for all: `Intact(U, V)` says that connection `c` carries only frames of
`U[c]` upwards and `V[c]` downwards, and there is one lemma for each operation of Link that keeps it, whatever
the families. `GlassesProofs` uses it with the frames of the turn, `DevicePeerProofs` and `PhonePeerProofs` with
whatever a peer or a client may send.
Then there is one lemma for each conjunct of `IInv`, and in it one step for each action that can disturb it.

**Speech that arrived whole.** Chunk count, size and the length of each chunk are the peer's and need not agree, and
sequence numbers are not checked; so a byte that came twice must mean one that is missing. `CountsInv` puts it without
a sum: the bytes written (`Covered`) lie within the announced size, are no more than the chunks have brought (`volume`),
and fewer once one was written twice; a byte not written does not hold what was announced; and the code's running total
is `volume` as long as that is less than `SizeT`. If the digest matches, every announced byte was written; if the total
is the announced size too, as many were brought, so none was written twice. Beyond the wrap (2^32 bytes received on the
ESP32) only the former remains, and the property says no more.

**One transfer.** In `ClientsInv`, while a transfer is open the chunk numbers taken since its `image_begin` are exactly
those the `ImageReassembler` holds (`HeldIsTaken`), and a server that does not serve has neither.

**The retries.** `NetInv` counts the refusals `sd_net_start` has been told of together with those still in the event
queue: they are never more than the drops of this wait; so the last retry is refused only after all others were.

**The audio.** `sd_audio_play_pcm` is given `size / (2 * channels mod 2^32)` frames and writes each as
`channels mod 2^8` samples of two bytes. `CastBelowWrap` shows that twice the second is no more than the first,
because 2 * 2^8 divides 2^32, and `PiecesFit` that the product therefore is no more than `size`; a divisor of zero has a
cast count of zero, which `sd_audio_init` refuses. The format is right because the cached rate and count describe
the channel whenever there is one.

**The bytes.** `Typed` is the type invariant of streams and receivers. `Flowing` says of each direction that what the
receiver has of a frame, what is on the way and what the kernel has not yet accepted are, one behind the other, the
frames still to be taken: the loops over partial sends and receives reorder, repeat and lose nothing. `SpeechInv` and
`ImageInv` add how many frames have been taken and what is made of them, as long as nothing was damaged. A frame
taken whole is then the next one sent, so its sequence number is the count of those before it, its offset is where the
copying stands, and none of the checks of either receiver can fail. `WritesInBuffer` rests on none of this and holds for
damaged streams too.

**The answer.** `OrderInv` has where the picture, the frame buffer and the text can be at each point of a turn.
`ClockInv` has each latency and how far the stamps lie apart modulo the wrap. `ReadInv` ties the text handed out to the
answer, and rests on what the scanner makes of a message: `MessageChars` says where each part of it stands,
`EscapedIsRead` that each form in which `json.dumps` writes a character is read back as that character, `StringIsRead`
the same of the string as a whole, `CopiedAgrees` that what `append_utf8` puts into its buffer is the text as far as the
last character that might not have fitted, which is behind all that `ResponseCap` lets through, and `TypeMatches` where
the quoted word `type` can appear: no quote is written but behind a backslash, hence only where a text ends in it.

**Folds and recursion.** What a recursive function computes is shown by ordinary induction over a set of numbers: those up to
which the function is defined as its equation says, or those from which a string is read back (`SetInduction`). The
community modules' `FlattenSeq` is unfolded once, in `FlattenIsJoined`; everything about frames put together, messages
written and text in UTF-8 goes through it.

The answers are assumed to be text: no NUL, no half of a surrogate pair, and not empty, which `anthropic_provider.py`
sees to with a sentence of its own.

**The picture.** `FileLayout` says where each segment of a file stands and what the bytes there are; `Searched`, of what
the frame buffer holds of the file, that the loop of `_jpeg_dimensions` takes as much from the start of a segment that
heads no frame as from the start of the next, wherever the file was cut, and ends at a frame header; `DimensionsFound`
follows it from the first segment to the first header. `HeaderPlace` gives the place of that header as `Decodable` states
it, from the file's parts and not from what the search read. `IsPicture` assumes of the camera's files what JPEG says of
segments: a length of two bytes that is their own, and a frame header long enough for its dimensions.

**The configuration.** `ConfigInv` adds to the properties what ties them together: a session that saves and is not dirty
holds what it loaded, and over NVS no save has a second half. `NvsKeepsAckedOrTried` is inductive with them: a save that
is acknowledged stores what it acknowledges, and one that fails leaves the blob or replaces it by what it attempted. It
says nothing of the file, where `SavedIsStored` fails, and nothing of what an erased partition held.

Only model-checked: liveness (`TurnEnds`, `EveryConnectionServed`, the fair half of the refinement, `StartReturns`),
which is out of the prover's reach. Every other property of a passing run is a theorem.

## 5. What the models leave out

- Damage that nothing in the protocol guards against: a control frame that stays well-formed JSON and says something
  else, the text of an `ai_response` above all, which has no digest. `AnswerIsForThisTurn` and what rests on it assume
  that TCP catches that much. A damaged header, after which frames are misread until an end checks something, ends the
  connection in Link like a frame that never came; Transfers has it byte by byte.
- What a kill between `fopen("wb")` and `fclose` costs: the file is left empty and the credentials are gone. The step is
  in Config, and no text promises otherwise; `TypeOK` and `CleanMeansUnchanged` do not speak of it.
- A connect that fails leaves nothing behind at the phone (a SYN that times out at the device and is
  accepted later would be a connection closed at once).
- A peer that sends for ever can keep the reply loop of the glasses for ever; `PeerFrames` bounds it, and
  the phone's server is not such a peer.
- `main_interop.c` gives `sd_device_run_uplink` a buffer as long as the one the text is read into. There a text that
  fills it may lack a character of several bytes and go on with a shorter one; `AnswerAssumption` (`ResponseCap` at most
  `TextCap - 3`) is that of `app_main.c`, with 512 and 1024.
- `sd_json_get_uint`, which reads the decimal digits of `audio_begin`: its results are the inputs of AudioOut and
  Downlink. The self-test build of `app_main.c` is one ping and one reply, without state.
- Power loss after `fclose` and before the disk has the data; NVS is taken as atomic per blob.
- The splitting of console lines into tokens (of a line longer than the buffer, the tail too is a command: the actions
  of Config are the commands however they come about), and everything printed.
- Fill bytes between the segments of a JPEG file, assumed absent, and the coded image behind its segments: the frame
  header stands before it, where the search ends.
- PNG headers, which the glasses never send; the choice among speech engines.
- The pin map and the settings of the camera, microphone and battery (stubs), log and error text, the evaluation
  harness and the tools: no state of the product, or none that a property could be about.
- SHA-256 itself, and the AI providers: a fixed function, and calls to a service.

## 6. Plan

Done: the core (Link, Device, Phone, their compositions, TurnService), bring-up, configuration, both directions byte by
byte, the audio arithmetic, the text of the answer, the metrics and the image check, checked and proved. What could
follow:

1. Wire with the two receivers as an implementation of Link's whole frames, as a refinement instead of the
   `Undamaged...` properties.
2. The console's line splitting, should its commands ever depend on more than their tokens.
