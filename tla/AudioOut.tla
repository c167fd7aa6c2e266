------------------------------ MODULE AudioOut ------------------------------
(***************************************************************************)
(* One utterance after another, from the fields of its audio_begin frame   *)
(* (play_audio_downlink in device.c) to the I2S channel of audio_esp.c,    *)
(* which is kept between turns and rebuilt when the format changes.        *)
(***************************************************************************)
EXTENDS Widths

CONSTANTS
  Sizes,        \* announced sizes
  Rates,        \* announced sample rates
  Channels,     \* announced channel counts
  NoFormat,
  NoUtterance

ASSUME AudioAssumption ==
  /\ Sizes \subseteq 0 .. Word - 1
  /\ Rates \subseteq 0 .. Word - 1
  /\ Channels \subseteq 0 .. Word - 1

VARIABLES
  channel,      \* the format s_tx runs in, NoFormat while it is null
  rate,         \* s_rate
  channels,     \* s_channels
  last,         \* the utterance last announced
  result,       \* what play_audio_downlink returned for it
  written       \* bytes of it the I2S driver was given

audioVars == <<channel, rate, channels, last, result, written>>

Utterances == [size : Sizes, rate : Rates, channels : Channels]

\* What sd_audio_init is called with: the count is cast to uint8_t.
Wanted(u) == [rate |-> u.rate, channels |-> u.channels % Byte]

Formats == [rate : 1 .. Word - 1, channels : 1 .. 2]

\* The channel is only ever open in a format the amplifier has, and the cached one
\* is of the same kind once anything has been set up.
TypeOKAudio ==
  /\ channel \in Formats \cup {NoFormat}
  /\ rate \in 0 .. Word - 1
  /\ channels \in 0 .. 2
  /\ last \in Utterances \cup {NoUtterance}
  /\ result \in {"none", "OK", "IO", "TIMEOUT", "INVALID", "NO_MEM", "UNDEFINED"}
  /\ written \in 0 .. Word - 1

InitAudio ==
  /\ channel = NoFormat
  /\ rate = 0
  /\ channels = 0
  /\ last = NoUtterance
  /\ result = "none"
  /\ written = 0

-----------------------------------------------------------------------------
(* sd_audio_init *)

\* Mutant: only the count announced is looked at, not what the cast makes of it.
AcceptedBeforeCast(u) == u.rate # 0 /\ u.channels # 0

\* Mutant: the channel count is left out of the comparison.
SameRate(u) == channel # NoFormat /\ u.rate = rate

Accepted(u) == u.rate # 0 /\ Wanted(u).channels \in 1 .. 2

SameFormat(u) == channel # NoFormat /\ u.rate = rate /\ Wanted(u).channels = channels

\* The channel stands already.
KeepChannel(u) ==
  /\ SameFormat(u)
  /\ UNCHANGED <<channel, rate, channels>>

\* Torn down, created, set up and enabled.
RebuildChannel(u) ==
  /\ ~SameFormat(u)
  /\ channel' = Wanted(u)
  /\ rate' = u.rate
  /\ channels' = Wanted(u).channels

\* Torn down, and creating or setting up fails: the old format stays cached.
LoseChannel(u) ==
  /\ ~SameFormat(u)
  /\ channel' = NoFormat
  /\ UNCHANGED <<rate, channels>>

-----------------------------------------------------------------------------
(* play_audio_downlink *)

\* Mutant: bytes are taken for samples.
FramesOfBytes(u) == u.size \div 2

\* size / (2u * channels), in 32 bits.
Frames(u) == u.size \div ((2 * u.channels) % Word)

Divides(u) == (2 * u.channels) % Word # 0

Ends(u, code, bytes) ==
  /\ last' = u
  /\ result' = code
  /\ written' = bytes

\* No channels, or no memory for the speech or for a frame of it.
Rejected(u) ==
  /\ Ends(u, IF u.channels = 0 THEN "IO" ELSE "NO_MEM", 0)
  /\ UNCHANGED <<channel, rate, channels>>

InitRefuses(u) ==
  /\ u.channels # 0
  /\ ~Accepted(u)
  /\ Ends(u, "INVALID", 0)
  /\ UNCHANGED <<channel, rate, channels>>

InitFails(u) ==
  /\ u.channels # 0
  /\ Accepted(u)
  /\ LoseChannel(u)
  /\ Ends(u, "IO", 0)

\* sd_audio_play_pcm: frame_count * s_channels * sizeof(int16_t) bytes, of which the
\* driver takes all or some; undefined, if the divisor has wrapped to zero.
Played(u) ==
  LET bytes == Frames(u) * Wanted(u).channels * 2 IN
    IF ~Divides(u) THEN {<<"UNDEFINED", 0>>}
    ELSE {<<"OK", bytes>>} \cup (IF bytes = 0 THEN {} ELSE {"IO"} \X {0, bytes - 1})

Plays(u) ==
  /\ u.channels # 0
  /\ Accepted(u)
  /\ KeepChannel(u) \/ RebuildChannel(u)
  /\ \E outcome \in Played(u) : Ends(u, outcome[1], outcome[2])

-----------------------------------------------------------------------------
(* Properties *)

\* What was played was played at the rate and in the number of channels (as cast) its
\* audio_begin announced, whatever was played, and failed, in the turns before.
PlayedInItsFormat ==
  written > 0 => channel = [rate |-> last.rate, channels |-> last.channels % Byte]

\* sd_audio_play_pcm never reads past the end of the buffer the speech is in, though
\* the length is computed from two different roundings of the channel count.
ReadsOnlySpeech == written > 0 => written <= last.size

\* The 32-bit divisor 2u * channels wraps to zero for a count sd_audio_init refuses.
NeverDividesByZero == result # "UNDEFINED"
=============================================================================
