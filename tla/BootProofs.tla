----------------------------- MODULE BootProofs -----------------------------
(***************************************************************************)
(* What the glasses rely on when they boot.  The configuration and its     *)
(* stores, for any number of programs, fields and values: what is loaded   *)
(* is a configuration, what is clean is what was loaded or saved, and NVS  *)
(* keeps what was acknowledged.  The bring-up of the network, for any      *)
(* number of retries, calls and drops of the access point: what            *)
(* sd_net_start returns after it has waited is what the event task saw,    *)
(* and the event task gives up only after its retries.                     *)
(***************************************************************************)
EXTENDS Config, NetBringup, SequenceTheorems, FiniteSetTheorems, TLAPS

-----------------------------------------------------------------------------
(***************************************************************************)
(* The configuration and its stores                                        *)
(***************************************************************************)

\* A session knows the flag only while it runs, and a save of it over NVS has no
\* second half.
ConfigInv ==
  /\ TypeOK
  /\ CleanMeansUnchanged
  /\ NvsKeepsAckedOrTried
  /\ \A p \in Programs : at[p] = "saving" /\ ~dirty[p] => cfg[p] = base[p]
  /\ backend = "nvs" => \A p \in Programs : at[p] \in {"down", "prompt"}

\* The defaults are a configuration, and so is whatever sd_config_load makes of the
\* medium: a blob that is whole holds one, and any other yields the defaults.
LEMMA LoadedIsConfig ==
  ASSUME TypeOK
  PROVE  Defaults \in Configs /\ Loads \subseteq Configs
<1>1. Defaults \in Configs
  BY ConfigAssumption DEF Defaults, Configs
<1>2. medium.kind = "whole" => medium.cfg \in Configs
  BY DEF TypeOK, Absent, Short, Foreign, Whole, Blob
<1> QED
  BY <1>1, <1>2 DEF Loads, Loaded

\* A field is set to a value it can hold, or left.
LEMMA FieldSetIsConfig ==
  ASSUME NEW c \in Configs, NEW k \in Keys, NEW v
  PROVE  FieldSet(c, k, v) \in Configs /\ (v \notin Values => FieldSet(c, k, v) = c)
BY DEF FieldSet, Configs

\* Before any program runs nothing is held, acknowledged or failed.
LEMMA ConfigInvInit == Init => ConfigInv
<1> SUFFICES ASSUME Init PROVE ConfigInv
  OBVIOUS
<1>1. Defaults \in Configs
  BY ConfigAssumption DEF Defaults, Configs
<1>2. TypeOK
  BY <1>1 DEF Init, TypeOK
<1> QED
  BY <1>2 DEF Init, ConfigInv, CleanMeansUnchanged, NvsKeepsAckedOrTried

\* A program comes up: what it works with is what it loaded.
LEMMA StartKeeps ==
  ASSUME ConfigInv, NEW p \in Programs, Start(p), backend' = backend
  PROVE  ConfigInv'
<1>0. TypeOK
  BY DEF ConfigInv
<1>1. PICK c \in Configs : cfg' = [cfg EXCEPT ![p] = c] /\ base' = [base EXCEPT ![p] = c]
  BY <1>0, LoadedIsConfig DEF Start
<1>2. TypeOK'
  BY <1>0, <1>1 DEF Start, TypeOK, history
<1>3. CleanMeansUnchanged' /\ NvsKeepsAckedOrTried'
  BY <1>0, <1>1
     DEF ConfigInv, Start, TypeOK, CleanMeansUnchanged, NvsKeepsAckedOrTried, history
<1>4. /\ (\A q \in Programs : at[q] = "saving" /\ ~dirty[q] => cfg[q] = base[q])'
      /\ (backend = "nvs" => \A q \in Programs : at[q] \in {"down", "prompt"})'
  BY <1>0, <1>1 DEF ConfigInv, Start, TypeOK
<1> QED
  BY <1>2, <1>3, <1>4 DEF ConfigInv

\* A field that takes its value makes the session dirty, one that refuses it changes
\* nothing; so does a reset of the fields.
LEMMA CommandKeeps ==
  ASSUME ConfigInv, NEW p \in Programs, Set(p) \/ Reset(p), backend' = backend
  PROVE  ConfigInv'
<1>0. TypeOK /\ Defaults \in Configs
  BY LoadedIsConfig DEF ConfigInv
<1>1. CASE Set(p)
  <2>1. PICK k \in Keys, v \in Values \cup {Garbage} :
          /\ cfg' = [cfg EXCEPT ![p] = FieldSet(cfg[p], k, v)]
          /\ dirty' = [dirty EXCEPT ![p] = dirty[p] \/ v \in Values]
    BY <1>1 DEF Set
  <2>2. FieldSet(cfg[p], k, v) \in Configs /\ (v \notin Values => FieldSet(cfg[p], k, v) = cfg[p])
    BY <1>0, FieldSetIsConfig DEF TypeOK
  <2>3. TypeOK'
    BY <1>0, <1>1, <2>1, <2>2 DEF Set, TypeOK, history
  <2>4. CleanMeansUnchanged'
    BY <1>0, <1>1, <2>1, <2>2 DEF ConfigInv, Set, TypeOK, CleanMeansUnchanged
  <2> QED
    BY <1>0, <1>1, <2>1, <2>3, <2>4
       DEF ConfigInv, Set, TypeOK, NvsKeepsAckedOrTried, history
<1>2. CASE Reset(p)
  <2>1. TypeOK'
    BY <1>0, <1>2 DEF Reset, TypeOK, history
  <2> QED
    BY <1>0, <1>2, <2>1
       DEF ConfigInv, Reset, TypeOK, CleanMeansUnchanged, NvsKeepsAckedOrTried, history
<1> QED
  BY <1>1, <1>2

\* device_config, which only exists over the file, stands before its save.
LEMMA CliKeeps ==
  ASSUME ConfigInv, NEW p \in Programs, CliSet(p), backend' = backend
  PROVE  ConfigInv'
<1>0. TypeOK
  BY DEF ConfigInv
<1>1. PICK c \in Configs, k \in Keys, v \in Values :
        /\ cfg' = [cfg EXCEPT ![p] = FieldSet(c, k, v)]
        /\ base' = [base EXCEPT ![p] = c]
  BY <1>0, LoadedIsConfig DEF CliSet
<1>2. c \in Configs /\ FieldSet(c, k, v) \in Configs
  BY <1>1, FieldSetIsConfig
<1>3. TypeOK'
  BY <1>0, <1>1, <1>2 DEF CliSet, TypeOK, history
<1> QED
  BY <1>0, <1>1, <1>3
     DEF ConfigInv, CliSet, TypeOK, CleanMeansUnchanged, NvsKeepsAckedOrTried, history

\* fopen and fclose: the file may be empty, short or whole, the session dirty or not.
LEMMA FileSaveKeeps ==
  ASSUME ConfigInv, NEW p \in Programs, OpenFile(p) \/ WriteAndClose(p), backend' = backend
  PROVE  ConfigInv'
<1>0. TypeOK /\ cfg[p] \in Configs
  BY DEF ConfigInv, TypeOK
<1>1. CASE OpenFile(p)
  <2>1. TypeOK'
    BY <1>0, <1>1 DEF OpenFile, Saves, SaveReturns, Attempt, TypeOK, history
  <2> QED
    BY <1>0, <1>1, <2>1
       DEF ConfigInv, OpenFile, Saves, SaveReturns, TypeOK, CleanMeansUnchanged,
           NvsKeepsAckedOrTried
<1>2. CASE WriteAndClose(p)
  <2>1. TypeOK'
    BY <1>0, <1>2 DEF WriteAndClose, Acknowledge, SaveReturns, Attempt, TypeOK
  <2>2. backend # "nvs"
    BY <1>2 DEF ConfigInv, WriteAndClose
  <2>3. CleanMeansUnchanged' /\ (\A q \in Programs : at[q] = "saving" /\ ~dirty[q] => cfg[q] = base[q])'
    BY <1>0, <1>2
       DEF ConfigInv, WriteAndClose, Acknowledge, SaveReturns, TypeOK, CleanMeansUnchanged
  <2> QED
    BY <2>1, <2>2, <2>3 DEF ConfigInv, NvsKeepsAckedOrTried
<1> QED
  BY <1>1, <1>2

\* nvs_set_blob and nvs_commit: what is there is what was acknowledged, or attempted since.
LEMMA NvsSaveKeeps ==
  ASSUME ConfigInv, NEW p \in Programs, SaveToNvs(p), backend' = backend
  PROVE  ConfigInv'
<1>0. TypeOK /\ cfg[p] \in Configs
  BY DEF ConfigInv, TypeOK
<1>1. TypeOK'
  BY <1>0 DEF SaveToNvs, Acknowledge, SaveReturns, Attempt, TypeOK
<1>2. CleanMeansUnchanged'
  BY <1>0 DEF ConfigInv, SaveToNvs, Acknowledge, SaveReturns, Saves, TypeOK, CleanMeansUnchanged
<1>3. NvsKeepsAckedOrTried'
  BY <1>0
     DEF ConfigInv, SaveToNvs, Acknowledge, Attempt, NvsKeepsAckedOrTried
<1>4. /\ (\A q \in Programs : at[q] = "saving" /\ ~dirty[q] => cfg[q] = base[q])'
      /\ (backend = "nvs" => \A q \in Programs : at[q] \in {"down", "prompt"})'
  BY <1>0 DEF ConfigInv, SaveToNvs, Acknowledge, SaveReturns, Saves, TypeOK
<1> QED
  BY <1>1, <1>2, <1>3, <1>4 DEF ConfigInv

\* A program that is killed, and a partition erased while none runs.
LEMMA EndingKeeps ==
  ASSUME ConfigInv, (\E p \in Programs : Stop(p)) \/ EraseNvs, backend' = backend
  PROVE  ConfigInv'
<1>0. TypeOK
  BY DEF ConfigInv
<1>1. TypeOK'
  BY <1>0 DEF Stop, EraseNvs, TypeOK, history
<1> QED
  BY <1>0, <1>1
     DEF ConfigInv, Stop, EraseNvs, TypeOK, CleanMeansUnchanged, NvsKeepsAckedOrTried, history

\* ConfigInv holds throughout.
THEOREM ConfigInvariance == Spec => []ConfigInv
<1>1. ConfigInv /\ [Next]_vars => ConfigInv'
  <2> SUFFICES ASSUME ConfigInv, [Next]_vars PROVE ConfigInv'
    OBVIOUS
  <2>1. CASE UNCHANGED vars
    BY <2>1 DEF vars, history, ConfigInv, TypeOK, CleanMeansUnchanged, NvsKeepsAckedOrTried
  <2>2. CASE Next
    BY <2>2, StartKeeps, CommandKeeps, CliKeeps, FileSaveKeeps, NvsSaveKeeps, EndingKeeps
       DEF Next
  <2> QED
    BY <2>1, <2>2
<1> QED
  BY <1>1, ConfigInvInit, PTL DEF Spec

\* Whatever build, save or kill left behind, a program works with values its fields can
\* hold: see TypeOK.
THEOREM OnlyConfigurationsLoaded == Spec => []TypeOK
<1>1. ConfigInv => TypeOK
  BY DEF ConfigInv
<1> QED
  BY <1>1, ConfigInvariance, PTL

\* The dirty flag of the console tells the truth: see CleanMeansUnchanged.
THEOREM DirtyFlagTrue == Spec => []CleanMeansUnchanged
<1>1. ConfigInv => CleanMeansUnchanged
  BY DEF ConfigInv
<1> QED
  BY <1>1, ConfigInvariance, PTL

\* On the device no failed save and no reset loses what was acknowledged to anything but
\* what was to replace it: see NvsKeepsAckedOrTried.
THEOREM NvsKeeps == Spec => []NvsKeepsAckedOrTried
<1>1. ConfigInv => NvsKeepsAckedOrTried
  BY DEF ConfigInv
<1> QED
  BY <1>1, ConfigInvariance, PTL

-----------------------------------------------------------------------------
(***************************************************************************)
(* The bring-up of the network                                             *)
(***************************************************************************)

\* The events by which the handler learns that the station was turned away.
Refusals(s) == {i \in 1 .. Len(s) : s[i] = "STA_DISCONNECTED"}

\* sd_net_start waits once at the most, with a driver nobody has used before: the
\* refusals it has been told of and those still to be told are drops of this wait, and
\* an address told is one assigned.
NetInv ==
  /\ TypeOKNet
  /\ ~eventLoop =>
       ~started /\ app = "idle" /\ station = "off" /\ events = << >> /\ retries = 0
  /\ app = "waiting" =>
       /\ retries + Cardinality(Refusals(events)) <= drops
       /\ "FAILED" \in bits => drops > MaxRetry
       /\ "CONNECTED" \in bits \/ (\E i \in 1 .. Len(events) : events[i] = "GOT_IP") => gotIp

\* The refusals in a sequence are finitely many.
LEMMA RefusalsFinite ==
  ASSUME NEW s \in Seq(Events)
  PROVE  IsFiniteSet(Refusals(s)) /\ Cardinality(Refusals(s)) \in Nat
<1>1. Len(s) \in Nat
  BY LenProperties
<1>2. IsFiniteSet(1 .. Len(s))
  BY <1>1, FS_Interval
<1>3. IsFiniteSet(Refusals(s))
  BY <1>2, FS_Subset DEF Refusals
<1> QED
  BY <1>3, FS_CardinalityType

\* Posting a refusal adds one, posting another event none.
LEMMA RefusalsAppended ==
  ASSUME NEW s \in Seq(Events), NEW e \in Events
  PROVE  Cardinality(Refusals(Append(s, e)))
           = Cardinality(Refusals(s)) + IF e = "STA_DISCONNECTED" THEN 1 ELSE 0
<1>1. /\ Len(s) \in Nat
      /\ Len(Append(s, e)) = Len(s) + 1
      /\ Append(s, e)[Len(s) + 1] = e
      /\ \A i \in 1 .. Len(s) : Append(s, e)[i] = s[i]
  BY LenProperties, AppendProperties
<1>2. CASE e = "STA_DISCONNECTED"
  <2>1. Refusals(Append(s, e)) = Refusals(s) \cup {Len(s) + 1}
    BY <1>1, <1>2 DEF Refusals
  <2>2. Len(s) + 1 \notin Refusals(s)
    BY <1>1 DEF Refusals
  <2> QED
    BY <1>2, <2>1, <2>2, RefusalsFinite, FS_AddElement
<1>3. CASE e # "STA_DISCONNECTED"
  <2>1. Refusals(Append(s, e)) = Refusals(s)
    BY <1>1, <1>3 DEF Refusals
  <2> QED
    BY <1>3, <2>1, RefusalsFinite
<1> QED
  BY <1>2, <1>3

\* Handling a refusal takes one away, handling another event none.
LEMMA RefusalsHandled ==
  ASSUME NEW s \in Seq(Events), s # << >>
  PROVE  Cardinality(Refusals(Tail(s)))
           <= Cardinality(Refusals(s)) - IF Head(s) = "STA_DISCONNECTED" THEN 1 ELSE 0
<1>1. /\ Len(s) \in Nat /\ Len(s) >= 1
      /\ Tail(s) \in Seq(Events) /\ Len(Tail(s)) = Len(s) - 1
      /\ Head(s) = s[1]
      /\ \A i \in 1 .. Len(Tail(s)) : Tail(s)[i] = s[i + 1]
  BY LenProperties, EmptySeq, HeadTailProperties
<1> DEFINE f == [i \in Refusals(Tail(s)) |-> i + 1]
<1>2. f \in Injection(Refusals(Tail(s)), Refusals(s) \ {1})
  <2>1. \A i \in Refusals(Tail(s)) : i \in Nat /\ f[i] \in Refusals(s) \ {1}
    BY <1>1 DEF Refusals
  <2> QED
    BY <2>1 DEF Injection, IsInjective
<1>3. IsFiniteSet(Refusals(s)) /\ Cardinality(Refusals(s)) \in Nat
  BY RefusalsFinite
<1>4. /\ IsFiniteSet(Refusals(s) \ {1})
      /\ Cardinality(Refusals(s) \ {1})
           = IF 1 \in Refusals(s) THEN Cardinality(Refusals(s)) - 1 ELSE Cardinality(Refusals(s))
  BY <1>3, FS_RemoveElement
<1>5. Cardinality(Refusals(Tail(s))) <= Cardinality(Refusals(s) \ {1})
  <2> HIDE DEF f
  <2> QED
    BY <1>2, <1>4, FS_Injection
<1>6. 1 \in Refusals(s) <=> Head(s) = "STA_DISCONNECTED"
  BY <1>1 DEF Refusals
<1> QED
  BY <1>1, <1>3, <1>4, <1>5, <1>6, RefusalsFinite

\* At the start of the program the driver has not been used.
LEMMA NetInvInit == InitNet => NetInv
<1> SUFFICES ASSUME InitNet PROVE NetInv
  OBVIOUS
<1>1. << >> \in Seq(Events)
  BY EmptySeq
<1>2. 0 \in 0 .. MaxRetry /\ 0 \in 0 .. MaxCalls /\ 0 \in 0 .. MaxDrops
  BY NetAssumption
<1>3. TypeOKNet
  BY <1>1, <1>2 DEF InitNet, TypeOKNet, Stations
<1> QED
  BY <1>3 DEF InitNet, NetInv

\* A call of sd_net_start that returns at once, and one of sd_net_stop, leave no wait
\* behind.
LEMMA CallsKeep ==
  ASSUME NetInv, StartRefused \/ StartAgain \/ StartFails \/ StopIdle \/ StopDisconnects
  PROVE  NetInv'
<1>0. TypeOKNet /\ app = "idle" /\ calls' \in 0 .. MaxCalls
  <2>1. TypeOKNet /\ Call
    BY DEF NetInv, StartRefused, StartAgain, StartFails, StopIdle, StopDisconnects, CallStart
  <2>2. calls \in Nat /\ calls < MaxCalls /\ calls' = calls + 1
    BY <2>1 DEF TypeOKNet, Call
  <2> QED
    BY <2>1, <2>2, NetAssumption DEF Call
<1>1. CASE StartRefused \/ StartAgain \/ StartFails \/ StopIdle
  <2>1. TypeOKNet'
    BY <1>0, <1>1
       DEF TypeOKNet, StartRefused, StartAgain, StartFails, StopIdle, CallStart, Call
  <2>2. app' = "idle" /\ UNCHANGED <<started, station, events, retries>>
    BY <1>0, <1>1 DEF StartRefused, StartAgain, StartFails, StopIdle
  <2>3. eventLoop => eventLoop'
    BY <1>1 DEF StartRefused, StartAgain, StartFails, StopIdle
  <2> QED
    BY <1>0, <2>1, <2>2, <2>3 DEF NetInv
<1>2. CASE StopDisconnects
  <2>1. events' \in Seq(Events)
    BY <1>0, <1>2, AppendProperties DEF StopDisconnects, LetGo, TypeOKNet, Events
  <2>2. TypeOKNet'
    BY <1>0, <1>2, <2>1 DEF TypeOKNet, StopDisconnects, Call, Stations
  <2> QED
    BY <1>0, <1>2, <2>2 DEF NetInv, StopDisconnects
<1> QED
  BY <1>1, <1>2

\* The wait begins with a clean event group, a fresh driver and no event but STA_START.
LEMMA StartWaitsKeeps ==
  ASSUME NetInv, StartWaits
  PROVE  NetInv'
<1>0. TypeOKNet /\ events = << >> /\ retries = 0 /\ calls' \in 0 .. MaxCalls
  BY NetAssumption DEF NetInv, TypeOKNet, StartWaits, CallStart, Call
<1>1. "STA_START" \in Events /\ << >> \in Seq(Events)
  BY EmptySeq DEF Events
<1>2. /\ events' \in Seq(Events)
      /\ Len(events') = 1 /\ events'[1] = "STA_START"
  BY <1>0, <1>1, AppendProperties, EmptySeq DEF StartWaits
<1>3. TypeOKNet'
  BY <1>0, <1>2 DEF TypeOKNet, StartWaits, CallStart, Call, Stations
<1>4. Cardinality(Refusals(events')) = 0
  <2>1. Refusals(events') = {}
    BY <1>2 DEF Refusals
  <2> QED
    BY <2>1, FS_EmptySet
<1> QED
  BY <1>0, <1>2, <1>3, <1>4, NetAssumption DEF NetInv, StartWaits, TypeOKNet

\* After the wait there is nothing left to keep but types.
LEMMA EndsKeep ==
  ASSUME NetInv, WaitEnds \/ StopEnds
  PROVE  NetInv'
<1>0. TypeOKNet /\ eventLoop /\ eventLoop' /\ app' = "idle"
  BY DEF NetInv, WaitEnds, StopEnds
<1>1. events' \in Seq(Events)
  BY <1>0, AppendProperties DEF WaitEnds, StopEnds, LetGo, TypeOKNet, Events
<1>2. TypeOKNet'
  BY <1>0, <1>1 DEF TypeOKNet, WaitEnds, StopEnds, Stations
<1> QED
  BY <1>0, <1>2 DEF NetInv

\* net_event_handler: a refusal is counted in the retries before it is forgotten, and
\* the bits say what the events said.
LEMMA EventTaskKeeps ==
  ASSUME NetInv, EventTask
  PROVE  NetInv'
<1>0. TypeOKNet /\ events # << >> /\ events' = Tail(events) /\ eventLoop' = eventLoop
      /\ app' = app /\ drops' = drops /\ gotIp' = gotIp
  BY DEF NetInv, EventTask, HandleStart, HandleDisconnected, HandleGotIp, Handles
<1>1. eventLoop
  BY <1>0 DEF NetInv
<1>2. /\ events' \in Seq(Events)
      /\ \A i \in 1 .. Len(events') : i + 1 \in 1 .. Len(events) /\ events'[i] = events[i + 1]
      /\ 1 \in 1 .. Len(events) /\ Head(events) = events[1]
  BY <1>0, LenProperties, EmptySeq, HeadTailProperties DEF TypeOKNet
<1>3. /\ Cardinality(Refusals(events)) \in Nat /\ Cardinality(Refusals(events')) \in Nat
      /\ Cardinality(Refusals(events'))
           <= Cardinality(Refusals(events)) - IF Head(events) = "STA_DISCONNECTED" THEN 1 ELSE 0
  BY <1>0, <1>2, RefusalsFinite, RefusalsHandled DEF TypeOKNet
<1>4. TypeOKNet'
  <2>1. retries' \in 0 .. MaxRetry
    BY <1>0, NetAssumption
       DEF TypeOKNet, EventTask, HandleStart, HandleDisconnected, HandleGotIp
  <2>2. station' \in Stations /\ bits' \subseteq {"CONNECTED", "FAILED"}
    BY <1>0
       DEF TypeOKNet, EventTask, HandleStart, HandleDisconnected, HandleGotIp, WifiConnect, Stations
  <2>3. UNCHANGED <<ssid, app, started, group, eventLoop, returned, gotIp, calls, drops>>
    BY DEF EventTask, HandleStart, HandleDisconnected, HandleGotIp
  <2> QED
    BY <1>0, <1>2, <2>1, <2>2, <2>3 DEF TypeOKNet
<1>5. ASSUME app = "waiting"
      PROVE  retries' + Cardinality(Refusals(events')) <= drops'
  <2>1. retries + Cardinality(Refusals(events)) <= drops /\ retries \in Nat /\ drops \in Nat
    BY <1>5, <1>0 DEF NetInv, TypeOKNet
  <2>2. CASE HandleStart \/ HandleGotIp
    BY <1>0, <1>3, <2>1, <2>2 DEF HandleStart, HandleGotIp, Handles
  <2>3. CASE HandleDisconnected
    BY <1>0, <1>3, <2>1, <2>3 DEF HandleDisconnected, Handles
  <2> QED
    BY <2>2, <2>3 DEF EventTask
<1>6. ASSUME app = "waiting", "FAILED" \in bits'
      PROVE  drops' > MaxRetry
  <2>1. CASE "FAILED" \in bits
    BY <1>0, <1>6, <2>1 DEF NetInv
  <2>2. CASE "FAILED" \notin bits
    <3>1. HandleDisconnected /\ ~(retries < MaxRetry) /\ Head(events) = "STA_DISCONNECTED"
      BY <1>6, <2>2 DEF EventTask, HandleStart, HandleDisconnected, HandleGotIp, Handles
    <3>2. retries + Cardinality(Refusals(events)) <= drops
      BY <1>6 DEF NetInv
    <3> QED
      BY <1>0, <1>3, <3>1, <3>2, NetAssumption DEF TypeOKNet
  <2> QED
    BY <2>1, <2>2
<1>7. ASSUME app = "waiting",
             "CONNECTED" \in bits' \/ \E i \in 1 .. Len(events') : events'[i] = "GOT_IP"
      PROVE  gotIp'
  <2>1. "CONNECTED" \in bits \/ \E i \in 1 .. Len(events) : events[i] = "GOT_IP"
    <3>1. CASE HandleGotIp
      BY <1>2, <3>1 DEF HandleGotIp, Handles
    <3>2. CASE HandleStart \/ HandleDisconnected
      BY <1>2, <1>7, <3>2 DEF HandleStart, HandleDisconnected
    <3> QED
      BY <3>1, <3>2 DEF EventTask
  <2> QED
    BY <1>0, <1>7, <2>1 DEF NetInv
<1> QED
  BY <1>0, <1>1, <1>4, <1>5, <1>6, <1>7 DEF NetInv

\* Every refusal posted by the driver is a drop of the access point's, and every address
\* posted has been assigned.
LEMMA DriverKeeps ==
  ASSUME NetInv, Driver
  PROVE  NetInv'
<1>0. /\ TypeOKNet /\ eventLoop /\ eventLoop' = eventLoop
      /\ app' = app /\ retries' = retries /\ bits' = bits
  BY DEF NetInv, Driver, Associates, AddressAssigned, Dropped
<1>1. CASE Associates
  <2>1. TypeOKNet'
    BY <1>0, <1>1 DEF TypeOKNet, Associates, Stations
  <2> QED
    BY <1>0, <1>1, <2>1 DEF NetInv, Associates
<1>2. CASE AddressAssigned
  <2>1. /\ events' \in Seq(Events)
        /\ Cardinality(Refusals(events')) = Cardinality(Refusals(events))
    BY <1>0, <1>2, AppendProperties, RefusalsAppended, RefusalsFinite
       DEF AddressAssigned, TypeOKNet, Events
  <2>2. TypeOKNet'
    BY <1>0, <1>2, <2>1 DEF TypeOKNet, AddressAssigned, Stations
  <2> QED
    BY <1>0, <1>2, <2>1, <2>2 DEF NetInv, AddressAssigned
<1>3. CASE Dropped
  <2>1. events' = Append(events, "STA_DISCONNECTED") /\ "STA_DISCONNECTED" \in Events
    BY <1>3 DEF Dropped, LetGo, Events
  <2>2. /\ events' \in Seq(Events) /\ Len(events) \in Nat
        /\ Len(events') = Len(events) + 1 /\ events'[Len(events) + 1] = "STA_DISCONNECTED"
        /\ \A i \in 1 .. Len(events) : events'[i] = events[i]
    BY <1>0, <2>1, LenProperties, AppendProperties DEF TypeOKNet
  <2>3. /\ Cardinality(Refusals(events')) = Cardinality(Refusals(events)) + 1
        /\ Cardinality(Refusals(events)) \in Nat
    BY <1>0, <2>1, RefusalsAppended, RefusalsFinite DEF TypeOKNet
  <2>4. drops \in Nat /\ drops' = drops + 1 /\ drops' \in 0 .. MaxDrops
        /\ retries \in Nat /\ gotIp' = gotIp
    BY <1>0, <1>3, NetAssumption DEF Dropped, TypeOKNet
  <2>5. TypeOKNet'
    BY <1>0, <1>3, <2>2, <2>4 DEF TypeOKNet, Dropped, Stations
  <2>6. (\E i \in 1 .. Len(events') : events'[i] = "GOT_IP")
          => \E i \in 1 .. Len(events) : events[i] = "GOT_IP"
    BY <2>2
  <2>7. ASSUME app = "waiting"
        PROVE  /\ retries + Cardinality(Refusals(events')) <= drops'
               /\ "FAILED" \in bits => drops' > MaxRetry
    BY <1>0, <2>3, <2>4, <2>7, NetAssumption DEF NetInv
  <2> QED
    BY <1>0, <2>4, <2>5, <2>6, <2>7 DEF NetInv
<1> QED
  BY <1>1, <1>2, <1>3 DEF Driver

\* NetInv holds throughout.
THEOREM NetInvariance == SpecNet => []NetInv
<1>1. NetInv /\ [NextNet]_netVars => NetInv'
  <2> SUFFICES ASSUME NetInv, [NextNet]_netVars PROVE NetInv'
    OBVIOUS
  <2>1. CASE UNCHANGED netVars
    BY <2>1 DEF netVars, NetInv, TypeOKNet
  <2>2. CASE NextNet
    BY <2>1, <2>2, CallsKeep, StartWaitsKeeps, EndsKeep, EventTaskKeeps, DriverKeeps
       DEF NextNet, Application, Finished
  <2> QED
    BY <2>1, <2>2
<1> QED
  BY <1>1, NetInvInit, PTL DEF SpecNet

\* Types, and the retry counter within its limit: see TypeOKNet.
THEOREM NetTypeCorrect == SpecNet => []TypeOKNet
<1>1. NetInv => TypeOKNet
  BY DEF NetInv
<1> QED
  BY <1>1, NetInvariance, PTL

\* The handler does not give up early, however its events are delayed: see
\* GivesUpOnlyAfterRetries.
THEOREM RetriesUsed == SpecNet => []GivesUpOnlyAfterRetries
<1>1. NetInv => GivesUpOnlyAfterRetries
  BY DEF NetInv, GivesUpOnlyAfterRetries
<1> QED
  BY <1>1, NetInvariance, PTL

\* SD_OK after a wait means an address: see WaitedOkMeansAddress.
THEOREM WaitedOkCorrect == SpecNet => WaitedOkMeansAddress
<1>1. NetInv /\ [NextNet]_netVars
        => [app = "waiting" /\ app' = "idle" /\ returned' = "OK" => gotIp]_netVars
  <2> SUFFICES ASSUME NetInv, NextNet, app = "waiting", app' = "idle", returned' = "OK"
               PROVE  gotIp
    OBVIOUS
  <2>1. WaitEnds
    BY DEF NextNet, Application, EventTask, Driver, Finished, StartRefused, StartAgain,
           StartFails, StartWaits, StopIdle, StopDisconnects, StopEnds, CallStart, Call,
           HandleStart, HandleDisconnected, HandleGotIp, Associates, AddressAssigned,
           Dropped, netVars
  <2> QED
    BY <2>1 DEF WaitEnds, NetInv
<1> QED
  BY <1>1, NetInvariance, PTL DEF SpecNet, WaitedOkMeansAddress
=============================================================================
