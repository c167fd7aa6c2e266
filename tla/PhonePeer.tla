----------------------------- MODULE PhonePeer ------------------------------
(***************************************************************************)
(* phone/server.py against clients that need not be the glasses: any       *)
(* sequence of frames, up to a bound, on any connection, cut off at will.  *)
(***************************************************************************)
EXTENDS Phone

CONSTANT ClientFrames   \* bound: frames the clients send in a behaviour

ASSUME ClientAssumption == ClientFrames \in Nat

VARIABLES
  chatter,              \* frames the clients have sent
  taken                 \* history: chunk numbers consumed since image_begin

vars == <<phoneVars, linkVars, chatter, taken>>

\* One announced digest is enough: another would differ from it only as Garbled
\* bytes do.
AnyRequest ==
  {Msg(t, Garbled, 0) : t \in {"image_end", "ping", "other", "malformed"}}
    \cup {Msg("image_begin", 1, n) : n \in 0 .. ImgChunks}
    \cup {Msg("chunk", k, n) : k \in {Garbled, 1}, n \in ChunkNos}

ClientConnects(c) == devEnd[c] = "none" /\ OpenByDevice(c) /\ UNCHANGED chatter

ClientSends(c) ==
  /\ chatter < ClientFrames
  /\ devEnd[c] = "open"
  /\ \E f \in AnyRequest : SentByDevice(c, f)
  /\ chatter' = chatter + 1

ClientReads(c) == devEnd[c] = "open" /\ TakenByDevice(c) /\ UNCHANGED chatter

ClientCloses(c) == devEnd[c] = "open" /\ ClosedByDevice(c) /\ UNCHANGED chatter

Init ==
  /\ InitLink
  /\ InitPhone
  /\ chatter = 0
  /\ taken = {}

\* image_begin starts a new set of chunk numbers, and so does a new connection.
Remember ==
  taken' = IF serving' = 0 \/ Serves("image_begin") THEN {}
           ELSE IF Serves("chunk") THEN taken \cup {HeadUp.num}
           ELSE taken

Next ==
  \/ PhoneNext /\ Remember /\ UNCHANGED chatter
  \/ /\ UNCHANGED <<phoneVars, taken>>
     /\ \E c \in Conns : \/ ClientConnects(c) \/ ClientSends(c)
                         \/ ClientReads(c) \/ ClientCloses(c)

Spec == Init /\ [][Next]_vars

\* ImageReassembler: the image that goes to analysis is made of exactly the chunks
\* received since the last image_begin of this connection; none is left over from
\* a transfer that was cut off, restarted, or met on an earlier connection.
AnalysedFromOneTransfer ==
  [][stage = "serve" /\ stage' = "analyse"
       => taken = {n \in ChunkNos : n < reasm.want}]_vars
=============================================================================
