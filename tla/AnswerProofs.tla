---------------------------- MODULE AnswerProofs ----------------------------
(***************************************************************************)
(* A turn's answer, for any pictures, any answers the provider may give,   *)
(* any clock and any caps in the order of those in the code.  The camera's *)
(* buffer is free whenever a frame is asked for; the metrics are the times *)
(* that passed, across the wrap of the clock; the types are kept; and the  *)
(* wearer reads what the phone's text is in UTF-8.  For the last one the   *)
(* writer of messages.py and the scanner of json.c are followed character  *)
(* by character: where the parts of a message stand, that each escape is   *)
(* read back as what it was written for, and where the scanner finds keys. *)
(* A picture is followed segment by segment: the check of image.py finds   *)
(* the frame header that was written, wherever the file is cut.            *)
(***************************************************************************)
EXTENDS Answer, SequenceLemmas, FiniteSetTheorems

-----------------------------------------------------------------------------
(* A clock that wraps *)

\* Division with remainder.
LEMMA Remainder ==
  ASSUME NEW a \in Int, NEW b \in Nat, b > 0
  PROVE  /\ a \div b \in Int
         /\ a % b \in 0 .. b - 1
         /\ a = b * (a \div b) + (a % b)
BY SMT

\* A multiple more changes no remainder.
LEMMA RemainderOfMultiple ==
  ASSUME NEW k \in Int, NEW r \in Int, NEW b \in Nat, b > 0
  PROVE  (b * k + r) % b = r % b
<1> DEFINE q == r \div b
           m == r % b
<1>1. q \in Int /\ m \in 0 .. b - 1 /\ r = b * q + m
  BY Remainder
<1> HIDE DEF q, m
<1> DEFINE j == k + q
<1>2. j \in Int /\ b * k + r = b * j + m
  BY <1>1
<1> HIDE DEF j
<1>3. (b * j + m) % b = m
  BY <1>1, <1>2, SMT
<1> QED
  BY <1>2, <1>3 DEF m

\* Adding to what has wrapped is adding before it wraps.
LEMMA RemainderAbsorbed ==
  ASSUME NEW a \in Int, NEW x \in Int, NEW b \in Nat, b > 0
  PROVE  ((a % b) + x) % b = (a + x) % b
<1> DEFINE q == a \div b
           r == a % b
<1>1. q \in Int /\ r \in Int /\ a = b * q + r
  BY Remainder
<1> HIDE DEF q, r
<1>2. r + x \in Int /\ a + x = b * q + (r + x)
  BY <1>1
<1>3. (b * q + (r + x)) % b = (r + x) % b
  BY <1>1, <1>2, RemainderOfMultiple
<1> QED
  BY <1>2, <1>3 DEF r

\* The parts of a sum add up to it, but for whole turns of the clock.
LEMMA RemaindersAddUp ==
  ASSUME NEW x \in Nat, NEW y \in Nat, NEW z \in Nat, NEW b \in Nat, b > 0
  PROVE  ((x % b) + (y % b) + (z % b) - ((x + y + z) % b)) % b = 0
<1> DEFINE s == x + y + z
           i == x \div b
           j == y \div b
           k == z \div b
           l == s \div b
           n == l - (i + j + k)
<1>1. /\ i \in Int /\ x % b \in Int /\ x = b * i + (x % b)
      /\ j \in Int /\ y % b \in Int /\ y = b * j + (y % b)
      /\ k \in Int /\ z % b \in Int /\ z = b * k + (z % b)
  BY Remainder
<1>2. s \in Int /\ l \in Int /\ s % b \in Int /\ s = b * l + (s % b)
  BY Remainder
<1> HIDE DEF i, j, k, l
<1>3. n \in Int /\ (x % b) + (y % b) + (z % b) - (s % b) = b * n + 0
  BY <1>1, <1>2
<1> HIDE DEF n
<1>4. (b * n + 0) % b = 0 % b /\ 0 % b = 0
  BY <1>3, RemainderOfMultiple, SMT
<1> QED
  BY <1>3, <1>4

-----------------------------------------------------------------------------
(* The camera and the order of a turn *)

\* Where nothing of a turn has happened yet.
Ready == Booting \cup {"capture"}

\* Outside of the two places that hold it the frame buffer is free; and nothing comes from
\* the phone before the upload, nor twice.
OrderInv ==
  /\ point \in Booting \cup {"capture", "upload", "await", "play", "done"}
  /\ s_fb # NoPicture => point \in {"status", "upload"}
  /\ point \in Ready \cup {"upload"} => received = NoPicture /\ answer = NoAnswer
  /\ point \in Ready \cup {"upload", "await", "play"} => code = "none"
  /\ answer # NoAnswer => received = NoPicture
  /\ point = "play" => answer # NoAnswer

\* It is inductive: a frame is taken where none is held, and every way on from there
\* returns it; the phone gets its picture once.
THEOREM OrderInvariance == Spec => []OrderInv
<1>1. Init => OrderInv
  BY DEF Init, OrderInv, Ready, Booting
<1>2. OrderInv /\ [Next]_vars => OrderInv'
  <2> SUFFICES ASSUME OrderInv, [Next]_vars PROVE OrderInv'
    OBVIOUS
  <2> USE DEF OrderInv, Ready, Booting, cameraVars, phoneVars, clockVars, Returns, Takes, FrameTaken, Released
  <2>1. CASE Boot
    BY <2>1 DEF Boot, DeviceInit, Started, CycleFails, CycleCaptures, CycleReleases
  <2>2. CASE Begin
    BY <2>2 DEF Begin
  <2>3. CASE Capture
    BY <2>3 DEF Capture
  <2>4. CASE CaptureFails
    BY <2>4 DEF CaptureFails
  <2>5. CASE Upload
    BY <2>5 DEF Upload
  <2>6. CASE UploadFails
    BY <2>6 DEF UploadFails
  <2>7. CASE RecvAnswer
    BY <2>7 DEF RecvAnswer
  <2>8. CASE RecvRefused
    BY <2>8 DEF RecvRefused
  <2>9. CASE RecvFails
    BY <2>9 DEF RecvFails
  <2>10. CASE EndTurn
    BY <2>10 DEF EndTurn
  <2>11. CASE Analyse
    BY <2>11 DEF Analyse
  <2>12. CASE UNCHANGED vars
    BY <2>12 DEF vars
  <2> QED
    BY <2>1, <2>2, <2>3, <2>4, <2>5, <2>6, <2>7, <2>8, <2>9, <2>10, <2>11, <2>12
       DEF Next, Finished
<1> QED
  BY <1>1, <1>2, PTL DEF Spec

\* esp_camera_fb_get is never called while the only frame buffer is held: neither the cycle at
\* boot nor the turn goes on, on any way out, without having returned it.
THEOREM BufferIsFree == Spec => []CaptureFindsBufferFree
<1>1. OrderInv => CaptureFindsBufferFree
  BY DEF OrderInv, CaptureFindsBufferFree
<1> QED
  BY <1>1, OrderInvariance, PTL

-----------------------------------------------------------------------------
(* The metrics *)

\* The total, in a turn whose stages are known.
TotalIsTrue ==
  /\ metrics.total_ms \in {0, (spent.capture + spent.upload + spent.response) % Clock}
  /\ code = "OK" =>
       (metrics.capture_ms + metrics.upload_ms + metrics.response_ms - metrics.total_ms) % Clock = 0

\* Each stage in the metrics is the one that passed; the stamps lie as far apart as the stages
\* lasted, and the last one is from now.
ClockInv ==
  /\ now \in Times
  /\ timestamps \in [start : Times, captured : Times, uploaded : Times]
  /\ spent \in [capture : Durations \cup {0}, upload : Durations \cup {0}, response : Durations \cup {0}]
  /\ metrics \in [capture_ms : Times, upload_ms : Times, response_ms : Times,
                  total_ms : Times, response_bytes : {metrics.response_bytes}]
  /\ point \in Ready => spent = Untimed
  /\ point = "capture" => timestamps.start = now
  /\ point \in {"upload", "await", "play"} =>
       /\ timestamps.captured = (timestamps.start + spent.capture) % Clock
       /\ spent.response = 0
  /\ point = "upload" => spent.upload = 0 /\ timestamps.captured = now
  /\ point \in {"await", "play"} =>
       /\ timestamps.uploaded = (timestamps.captured + spent.upload) % Clock
       /\ timestamps.uploaded = now
  /\ point \in {"capture", "upload", "await", "play"} => metrics.total_ms = 0
  /\ point \notin Booting =>
       /\ metrics.capture_ms = spent.capture % Clock
       /\ metrics.upload_ms = spent.upload % Clock
       /\ metrics.response_ms = spent.response % Clock
  /\ point = "done" => TotalIsTrue

\* What the clock counts modulo, and what it shows.
LEMMA ClockNumbers ==
  /\ Clock \in Nat /\ Clock > 0
  /\ 0 \in Times /\ 0 % Clock = 0
  /\ \A t \in Times : t \in Int /\ t % Clock = t
  /\ \A a \in Int : a % Clock \in Times
  /\ \A d \in Durations : d \in Nat
<1>1. Clock \in Nat /\ Clock > 0 /\ \A d \in Durations : d \in Nat
  BY AnswerAssumption
<1>2. \A a \in Int : a % Clock \in Times
  BY <1>1, Remainder DEF Times
<1>3. ASSUME NEW t \in Times
      PROVE  t \in Int /\ t % Clock = t
  <2>1. t \in 0 .. Clock - 1
    BY DEF Times
  <2> QED
    BY <1>1, <2>1, SMT
<1>4. 0 \in Times
  BY <1>1 DEF Times
<1> QED
  BY <1>1, <1>2, <1>3, <1>4

\* The time a stage took, from a stamp taken when it began.
LEMMA Elapsed ==
  ASSUME NEW t \in Times, NEW d \in Nat
  PROVE  (((t + d) % Clock) - t) % Clock = d % Clock
<1>1. t \in Int /\ 0 - t \in Int /\ Clock \in Nat /\ Clock > 0
  BY ClockNumbers
<1> DEFINE a == t + d
           x == 0 - t
<1>2. a \in Int /\ x \in Int /\ a + x = d
  BY <1>1
<1>3. ((a % Clock) + x) % Clock = (a + x) % Clock
  BY <1>1, <1>2, RemainderAbsorbed
<1>4. (a % Clock) \in Int /\ (a % Clock) + x = (a % Clock) - t
  BY <1>1, <1>2, Remainder
<1> QED
  BY <1>2, <1>3, <1>4

\* The time the whole turn took, over the stamps of its stages.
LEMMA ElapsedInStages ==
  ASSUME NEW t \in Times, NEW x \in Nat, NEW y \in Nat, NEW z \in Nat
  PROVE  ((((((((t + x) % Clock) + y) % Clock) + z) % Clock) - t) % Clock) = (x + y + z) % Clock
<1> DEFINE a == (t + x) % Clock
           n == x + y + z
<1>1. t \in Int /\ t + x \in Int /\ x \in Int /\ y \in Int /\ z \in Int /\ y + z \in Int /\ n \in Nat
  BY ClockNumbers
<1>2. ASSUME NEW r \in Int, NEW s \in Int
      PROVE  r % Clock \in Int /\ ((r % Clock) + s) % Clock = (r + s) % Clock
  <2>1. Clock \in Nat /\ Clock > 0 /\ r % Clock \in Times /\ \A u \in Times : u \in Int
    BY ClockNumbers
  <2>2. ((r % Clock) + s) % Clock = (r + s) % Clock
    BY <2>1, RemainderAbsorbed, Zenon
  <2> QED
    BY <2>1, <2>2, Zenon
<1>3. a \in Int /\ (a + (y + z)) % Clock = ((t + x) + (y + z)) % Clock
  BY <1>1, <1>2
<1> HIDE DEF a
<1>4. a + y \in Int
  BY <1>1, <1>3
<1>5. (((a + y) % Clock) + z) % Clock = ((a + y) + z) % Clock
  BY <1>1, <1>2, <1>4
<1>6. (a + y) + z = a + (y + z) /\ (t + x) + (y + z) = t + n
  BY <1>1, <1>3
<1> HIDE DEF n
<1>7. (((t + n) % Clock) - t) % Clock = n % Clock
  BY <1>1, Elapsed
<1>8. (((a + y) % Clock) + z) % Clock = (t + n) % Clock
  BY <1>3, <1>5, <1>6
<1> QED
  BY <1>7, <1>8 DEF n, a

\* It is inductive: each step of sd_device_run_uplink that takes a stamp takes it from the
\* clock it leaves, and finalize_metrics subtracts the stamps of the turn it ends.
THEOREM ClockInvariance == Spec => []ClockInv
<1>1. Init => ClockInv
  BY ClockNumbers DEF Init, ClockInv, NoMetrics, Untimed, Ready, Booting
<1>2. OrderInv /\ ClockInv /\ [Next]_vars => ClockInv'
  <2> SUFFICES ASSUME OrderInv, ClockInv, [Next]_vars PROVE ClockInv'
    OBVIOUS
  <2>0. /\ now \in Times /\ spent \in [capture : Durations \cup {0}, upload : Durations \cup {0}, response : Durations \cup {0}]
        /\ timestamps \in [start : Times, captured : Times, uploaded : Times]
    BY DEF ClockInv
  <2>1. ASSUME UNCHANGED <<clockVars, metrics>>,
               (point \in Booting /\ point' \in Booting) \/ (UNCHANGED <<point, code>>)
                 \/ (point \in {"capture", "upload", "await", "play"} /\ point' = "done" /\ code' # "OK")
        PROVE  ClockInv'
    BY <2>1 DEF ClockInv, clockVars, TotalIsTrue, Ready, Booting
  <2>2. CASE Boot
    BY <2>1, <2>2 DEF Boot, DeviceInit, CycleFails, CycleCaptures, CycleReleases, Booting
  <2>3. CASE Begin
    <3>1. /\ point = "ready" /\ point' = "capture" /\ UNCHANGED <<now, spent>>
          /\ metrics' = NoMetrics /\ timestamps' = [timestamps EXCEPT !.start = now]
      BY <2>3 DEF Begin
    <3>2. spent = Untimed
      BY <3>1 DEF ClockInv, Ready, Booting
    <3>3. timestamps'.start = now /\ timestamps' \in [start : Times, captured : Times, uploaded : Times]
      BY <2>0, <3>1
    <3>4. /\ metrics' \in [capture_ms : Times, upload_ms : Times, response_ms : Times,
                          total_ms : Times, response_bytes : {metrics'.response_bytes}]
          /\ metrics'.capture_ms = 0 /\ metrics'.upload_ms = 0 /\ metrics'.response_ms = 0
          /\ metrics'.total_ms = 0
      BY <3>1, ClockNumbers DEF NoMetrics
    <3> QED
      BY <2>0, <3>1, <3>2, <3>3, <3>4, ClockNumbers DEF ClockInv, Untimed, Booting
  <2>4. CASE Capture
    <3>1. PICK d \in Durations : now' = (now + d) % Clock /\ spent' = [spent EXCEPT !.capture = d]
      BY <2>4 DEF Capture, Takes
    <3>2. /\ spent = Untimed /\ timestamps.start = now /\ metrics.total_ms = 0 /\ d \in Nat
          /\ metrics.upload_ms = 0 /\ metrics.response_ms = 0
      BY <2>4, ClockNumbers DEF Capture, ClockInv, Ready, Booting, Untimed
    <3>3. (now' - timestamps.start) % Clock = d % Clock /\ now' \in Times /\ d % Clock \in Times
      BY <2>0, <3>1, <3>2, Elapsed, ClockNumbers
    <3>4. /\ point' = "upload" /\ timestamps' = [timestamps EXCEPT !.captured = now']
          /\ metrics' = [metrics EXCEPT !.capture_ms = d % Clock]
      BY <2>4, <3>3 DEF Capture, Since
    <3> QED
      BY <2>0, <3>1, <3>2, <3>3, <3>4, ClockNumbers DEF ClockInv, Untimed, Ready, Booting
  <2>5. CASE Upload
    <3>1. PICK d \in Durations : now' = (now + d) % Clock /\ spent' = [spent EXCEPT !.upload = d]
      BY <2>5 DEF Upload, Takes
    <3>2. /\ timestamps.captured = now /\ spent.response = 0 /\ metrics.total_ms = 0 /\ d \in Nat
          /\ timestamps.captured = (timestamps.start + spent.capture) % Clock
          /\ metrics.capture_ms = spent.capture % Clock /\ metrics.response_ms = spent.response % Clock
      BY <2>5, ClockNumbers DEF Upload, ClockInv, Booting
    <3>3. (now' - timestamps.captured) % Clock = d % Clock /\ now' \in Times /\ d % Clock \in Times
      BY <2>0, <3>1, <3>2, Elapsed, ClockNumbers
    <3>4. /\ point' = "await" /\ timestamps' = [timestamps EXCEPT !.uploaded = now']
          /\ metrics' = [metrics EXCEPT !.upload_ms = d % Clock]
      BY <2>5, <3>3 DEF Upload, Since
    <3> QED
      BY <2>0, <3>1, <3>2, <3>3, <3>4, ClockNumbers DEF ClockInv, Ready, Booting
  <2>6. CASE RecvAnswer
    <3>1. /\ metrics' = [metrics EXCEPT !.response_bytes = metrics'.response_bytes]
          /\ point = "await" /\ point' = "play" /\ UNCHANGED <<clockVars, code>>
      BY <2>6 DEF RecvAnswer, ClockInv
    <3> QED
      BY <3>1 DEF ClockInv, clockVars, Ready, Booting
  <2>7. CASE EndTurn
    <3>1. PICK d \in Durations : now' = (now + d) % Clock /\ spent' = [spent EXCEPT !.response = d]
      BY <2>7 DEF EndTurn, Takes
    <3> DEFINE total == (spent.capture + spent.upload + d) % Clock
    <3>2. /\ timestamps.uploaded = now /\ d \in Nat /\ spent.capture \in Nat /\ spent.upload \in Nat
          /\ timestamps.captured = (timestamps.start + spent.capture) % Clock
          /\ timestamps.uploaded = (timestamps.captured + spent.upload) % Clock
          /\ metrics.capture_ms = spent.capture % Clock /\ metrics.upload_ms = spent.upload % Clock
      BY <2>0, <2>7, ClockNumbers DEF EndTurn, ClockInv, Booting
    <3>3. (now' - timestamps.uploaded) % Clock = d % Clock /\ now' \in Times /\ d % Clock \in Times
      BY <2>0, <3>1, <3>2, Elapsed, ClockNumbers
    <3>4. (now' - timestamps.start) % Clock = total
      BY <2>0, <3>1, <3>2, ElapsedInStages
    <3>5. total \in Times
      BY <3>2, ClockNumbers
    <3>6. ((spent.capture % Clock) + (spent.upload % Clock) + (d % Clock) - total) % Clock = 0
      BY <3>2, ClockNumbers, RemaindersAddUp
    <3>7. /\ point' = "done" /\ UNCHANGED timestamps
          /\ metrics' = [metrics EXCEPT !.response_ms = d % Clock, !.total_ms = total]
      BY <2>7, <3>3, <3>4 DEF EndTurn, Finalized, Since, Returns
    <3> HIDE DEF total
    <3>8. TotalIsTrue'
      BY <2>0, <3>1, <3>2, <3>6, <3>7 DEF TotalIsTrue, total, ClockInv
    <3> QED
      BY <2>0, <3>1, <3>2, <3>3, <3>5, <3>7, <3>8 DEF ClockInv, Ready, Booting
  <2>8. CASE CaptureFails \/ UploadFails \/ RecvRefused \/ RecvFails
    <3>1. point \in {"capture", "upload", "await", "play"} /\ point' = "done" /\ code' # "OK"
          /\ UNCHANGED <<clockVars, metrics>>
      BY <2>8 DEF CaptureFails, UploadFails, RecvRefused, RecvFails, Returns, CaptureError
    <3> QED
      BY <2>1, <3>1
  <2>9. CASE Analyse \/ UNCHANGED vars
    BY <2>1, <2>9 DEF Analyse, vars
  <2> QED
    BY <2>2, <2>3, <2>4, <2>5, <2>6, <2>7, <2>8, <2>9 DEF Next, Finished
<1> QED
  BY <1>1, <1>2, OrderInvariance, PTL DEF Spec

\* finalize_metrics and the deltas before it: whatever now_ms() shows when the turn begins, and
\* however often it wraps, the metrics are what each stage took, and their sum is the total.
THEOREM MetricsCorrect == Spec => []MetricsAreTrue
<1>1. OrderInv /\ ClockInv => MetricsAreTrue
  BY DEF OrderInv, ClockInv, MetricsAreTrue, TotalIsTrue, Ready
<1> QED
  BY <1>1, OrderInvariance, ClockInvariance, PTL

-----------------------------------------------------------------------------
(* Reading a string *)

\* The recursion of Characters.
IsReader(json, f) == f = [i \in Nat |-> Reads(json, f, i)]

\* What is read from each place of a message.
Reader(json) == CHOOSE f : IsReader(json, f)

\* It has a solution: what is read from a place depends on later places only, and there is
\* nothing behind the NUL.
LEMMA ReaderExists ==
  ASSUME NEW json, Len(json) \in Nat, DOMAIN json = 1 .. Len(json)
  PROVE  IsReader(json, Reader(json))
<1> DEFINE last == Len(json) + 1
           Solves(f, n) == /\ f = [i \in Nat |-> f[i]]
                           /\ \A i \in Nat : i + n >= last => f[i] = Reads(json, f, i)
           S == {n \in Nat : n <= last => \E f : Solves(f, n)}
<1>1. 0 \in S
  <2> DEFINE f == [i \in Nat |-> << >>]
  <2>1. ASSUME NEW i \in Nat, i + 0 >= last
        PROVE  f[i] = Reads(json, f, i)
    <3>1. i \notin DOMAIN json
      BY <2>1
    <3>2. CharAt(json, i) = 0
      BY <3>1 DEF CharAt
    <3>3. Reads(json, f, i) = << >>
      <4>1. CharAt(json, i) \in {0, Quote}
        BY <3>2
      <4> HIDE DEF f
      <4> QED
        BY <4>1 DEF Reads
    <3> QED
      BY <3>3
  <2>2. f = [i \in Nat |-> f[i]]
    OBVIOUS
  <2>3. Solves(f, 0)
    BY <2>1, <2>2
  <2> QED
    BY <2>3
<1>2. ASSUME NEW n \in Nat, n \in S
      PROVE  n + 1 \in S
  <2>1. CASE n + 1 <= last
    <3>1. PICK f : Solves(f, n)
      BY <1>2, <2>1
    <3>2. PICK m \in Nat : m + (n + 1) = last
      <4>1. last - (n + 1) \in Nat /\ (last - (n + 1)) + (n + 1) = last
        BY <2>1
      <4> QED
        BY <4>1
    <3> DEFINE g == [i \in Nat |-> IF i = m THEN Reads(json, f, m) ELSE f[i]]
    <3>3. ASSUME NEW i \in Nat, i >= m
          PROVE  Reads(json, g, i) = Reads(json, f, i)
      <4>1. \A k \in {1, 2, 3, 6} : i + k \in Nat /\ i + k # m
        BY <3>3
      <4>2. \A k \in {1, 2, 3, 6} : g[i + k] = f[i + k]
        BY <4>1
      <4> HIDE DEF g
      <4>3. g[i + 1] = f[i + 1] /\ g[i + 2] = f[i + 2] /\ g[i + 3] = f[i + 3] /\ g[i + 6] = f[i + 6]
        BY <4>2
      <4> QED
        BY <4>3 DEF Reads
    <3>4. ASSUME NEW i \in Nat, i + (n + 1) >= last
          PROVE  g[i] = Reads(json, g, i)
      <4>1. i >= m
        BY <3>2, <3>4
      <4>2. CASE i = m
        BY <3>3, <4>1, <4>2
      <4>3. CASE i # m
        <5>1. i + n >= last
          BY <3>2, <4>1, <4>3
        <5>2. f[i] = Reads(json, f, i)
          BY <3>1, <5>1
        <5> QED
          BY <3>3, <4>1, <4>3, <5>2
      <4> QED
        BY <4>2, <4>3
    <3>5. g = [i \in Nat |-> g[i]]
      OBVIOUS
    <3> HIDE DEF g
    <3>6. Solves(g, n + 1)
      BY <3>4, <3>5
    <3>7. n + 1 \in Nat /\ \E h : Solves(h, n + 1)
      BY <3>6
    <3> HIDE DEF Solves
    <3> QED
      BY <3>7, Zenon
  <2> QED
    BY <2>1
<1> HIDE DEF S
<1>3. Nat \subseteq S
  BY <1>1, <1>2, SetInduction
<1>4. last \in Nat
  OBVIOUS
<1>5. PICK f : Solves(f, last)
  <2> HIDE DEF Solves, last
  <2>1. last \in S /\ last <= last
    BY <1>3, <1>4
  <2> QED
    BY <2>1 DEF S
<1>6. IsReader(json, f)
  <2>1. \A i \in Nat : f[i] = Reads(json, f, i)
    BY <1>4, <1>5
  <2>2. f = [i \in Nat |-> f[i]]
    BY <1>5
  <2>3. [i \in Nat |-> f[i]] = [i \in Nat |-> Reads(json, f, i)]
    BY <2>1
  <2> QED
    BY <2>2, <2>3, Zenon DEF IsReader
<1> QED
  BY <1>6, Zenon DEF Reader

\* What the definition of Characters says.
LEMMA CharactersDef ==
  ASSUME NEW json, NEW start
  PROVE  Characters(json, start) = Reader(json)[start]
BY DEF Characters, Reader, IsReader

-----------------------------------------------------------------------------
(* What stands where *)

\* The part stands in json, from i on.
HasAt(json, i, part) ==
  /\ i \in Nat \ {0}
  /\ i + Len(part) <= Len(json) + 1
  /\ \A k \in 1 .. Len(part) : json[i + k - 1] = part[k]

\* It stays there when something is written behind it, and moves when it is written before it.
LEMMA HasAtConcat ==
  ASSUME NEW a \in Seq(Int), NEW b \in Seq(Int), NEW p \in Seq(Int), NEW i \in Nat
  PROVE  /\ HasAt(a, i, p) => HasAt(a \o b, i, p)
         /\ HasAt(b, i, p) => HasAt(a \o b, Len(a) + i, p)
<1> DEFINE c == a \o b
           m == Len(a)
           n == Len(b)
           l == Len(p)
<1>1. /\ m \in Nat /\ n \in Nat /\ l \in Nat
      /\ Len(c) = m + n
      /\ \A k \in 1 .. m + n : c[k] = IF k <= m THEN a[k] ELSE b[k - m]
  BY LenProperties, ConcatProperties
<1> HIDE DEF c, m, n, l
<1>2. ASSUME i \in Nat \ {0}, i + l <= m + 1, \A k \in 1 .. l : a[i + k - 1] = p[k]
      PROVE  i + l <= Len(c) + 1 /\ \A k \in 1 .. l : c[i + k - 1] = p[k]
  <2>1. ASSUME NEW k \in 1 .. l
        PROVE  c[i + k - 1] = p[k]
    <3> DEFINE j == i + k - 1
    <3>1. j \in 1 .. m + n /\ j <= m
      BY <1>1, <1>2
    <3> HIDE DEF j
    <3>2. c[j] = a[j]
      BY <1>1, <3>1
    <3> QED
      BY <1>2, <3>2 DEF j
  <2> QED
    BY <1>1, <1>2, <2>1
<1>3. ASSUME i \in Nat \ {0}, i + l <= n + 1, \A k \in 1 .. l : b[i + k - 1] = p[k]
      PROVE  /\ m + i \in Nat \ {0} /\ (m + i) + l <= Len(c) + 1
             /\ \A k \in 1 .. l : c[(m + i) + k - 1] = p[k]
  <2>1. ASSUME NEW k \in 1 .. l
        PROVE  c[(m + i) + k - 1] = p[k]
    <3> DEFINE j == (m + i) + k - 1
    <3>1. j \in 1 .. m + n /\ ~(j <= m) /\ j - m = i + k - 1
      BY <1>1, <1>3
    <3> HIDE DEF j
    <3>2. c[j] = b[j - m]
      BY <1>1, <3>1
    <3>3. c[j] = p[k]
      BY <1>3, <3>1, <3>2
    <3> QED
      BY <3>3 DEF j
  <2> QED
    BY <1>1, <1>3, <2>1
<1> QED
  BY <1>2, <1>3 DEF HasAt, c, m, n, l

\* What is in a part of it is in the whole.
LEMMA HasAtWithin ==
  ASSUME NEW json \in Seq(Int), NEW p \in Seq(Int), NEW q \in Seq(Int), NEW i \in Nat, NEW j \in Nat,
         HasAt(json, i, p), HasAt(p, j, q)
  PROVE  HasAt(json, i + j - 1, q)
<1>1. Len(json) \in Nat /\ Len(p) \in Nat /\ Len(q) \in Nat
  BY LenProperties
<1>2. i > 0 /\ j > 0 /\ i + Len(p) <= Len(json) + 1 /\ j + Len(q) <= Len(p) + 1
  BY DEF HasAt
<1>3. ASSUME NEW k \in 1 .. Len(q)
      PROVE  json[(i + j - 1) + k - 1] = q[k]
  <2> DEFINE l == j + k - 1
  <2>1. l \in 1 .. Len(p) /\ (i + j - 1) + k - 1 = i + l - 1
    BY <1>1, <1>2
  <2>2. p[l] = q[k]
    BY DEF HasAt
  <2> HIDE DEF l
  <2>3. json[i + l - 1] = p[l]
    BY <2>1 DEF HasAt
  <2> QED
    BY <2>1, <2>2, <2>3
<1> QED
  BY <1>1, <1>2, <1>3 DEF HasAt

\* Everything is at its own beginning.
LEMMA HasAtStart ==
  ASSUME NEW p \in Seq(Int)
  PROVE  HasAt(p, 1, p)
<1>1. Len(p) \in Nat
  BY LenProperties
<1>2. \A k \in 1 .. Len(p) : 1 + k - 1 = k
  BY <1>1
<1> QED
  BY <1>1, <1>2 DEF HasAt

\* The characters of a part, one by one.
LEMMA CharsAt ==
  ASSUME NEW json \in Seq(Int), NEW i \in Nat, NEW p \in Seq(Int), HasAt(json, i, p)
  PROVE  /\ i > 0
         /\ \A k \in 0 .. Len(p) - 1 :
              /\ i + k \in DOMAIN json
              /\ json[i + k] = p[k + 1]
              /\ CharAt(json, i + k) = p[k + 1]
<1>1. Len(json) \in Nat /\ DOMAIN json = 1 .. Len(json) /\ Len(p) \in Nat
  BY LenProperties
<1>2. i > 0 /\ i + Len(p) <= Len(json) + 1
  BY DEF HasAt
<1>3. ASSUME NEW k \in 0 .. Len(p) - 1
      PROVE  i + k \in 1 .. Len(json) /\ json[i + k] = p[k + 1]
  <2> DEFINE j == k + 1
  <2>1. j \in 1 .. Len(p) /\ i + j - 1 = i + k /\ i + k \in 1 .. Len(json)
    BY <1>1, <1>2
  <2> HIDE DEF j
  <2>2. json[i + j - 1] = p[j]
    BY <2>1 DEF HasAt
  <2> QED
    BY <2>1, <2>2 DEF j
<1> QED
  BY <1>1, <1>2, <1>3 DEF CharAt

-----------------------------------------------------------------------------
(* What json.dumps writes for a character *)

\* A \u escape.
Escape16(unit) == <<Backslash, LetterU, Hex(unit)>>

\* The ways a character is written.
LEMMA EscapedForms ==
  ASSUME NEW c, IsLetter(c)
  PROVE  \/ c \notin {0, Quote, Backslash} /\ Escaped(c) = <<c>>
         \/ \E e \in DOMAIN ShortEscapes : ShortEscapes[e] = c /\ Escaped(c) = <<Backslash, e>>
         \/ /\ c \in Nat /\ c \notin HighSurrogates
            /\ Escaped(c) = Escape16(c)
         \/ \E hi \in HighSurrogates, lo \in LowSurrogates :
              Combined(hi, lo) = c /\ Escaped(c) = Escape16(hi) \o Escape16(lo)
<1>1. c \in Nat /\ c > 0 /\ c <= 1114111 /\ c \notin HighSurrogates
  BY DEF IsLetter
<1>2. CASE c \in {Quote, Backslash}
  <2>1. c \notin {8, 9, 10, 12, 13} /\ c \notin 32 .. 126 \ {Quote, Backslash}
    BY <1>2 DEF Quote, Backslash
  <2>2. Escaped(c) = <<Backslash, c>>
    BY <1>2, <2>1 DEF Escaped
  <2>3. c \in DOMAIN ShortEscapes /\ ShortEscapes[c] = c
    BY <1>2 DEF ShortEscapes, Quote, Backslash
  <2> QED
    BY <2>2, <2>3
<1>3. CASE c \in {8, 9, 10, 12, 13}
  <2>1. c \notin {Quote, Backslash} /\ c \notin 32 .. 126 \ {Quote, Backslash}
    BY <1>3 DEF Quote, Backslash
  <2> DEFINE e == CHOOSE e \in DOMAIN ShortEscapes : ShortEscapes[e] = c
  <2>2. Escaped(c) = <<Backslash, e>>
    BY <1>3, <2>1 DEF Escaped
  <2>3. \E d \in DOMAIN ShortEscapes : ShortEscapes[d] = c
    <3>1. ShortEscapes[98] = 8 /\ ShortEscapes[102] = 12 /\ ShortEscapes[110] = 10
          /\ ShortEscapes[114] = 13 /\ ShortEscapes[116] = 9
          /\ {98, 102, 110, 114, 116} \subseteq DOMAIN ShortEscapes
      BY DEF ShortEscapes
    <3> QED
      BY <1>3, <3>1
  <2>4. e \in DOMAIN ShortEscapes /\ ShortEscapes[e] = c
    BY <2>3
  <2> QED
    BY <2>2, <2>4
<1>4. CASE c \in 32 .. 126 \ {Quote, Backslash}
  <2>1. c \notin {Quote, Backslash} /\ c \notin {8, 9, 10, 12, 13}
    BY <1>4
  <2>2. Escaped(c) = <<c>>
    BY <1>4, <2>1 DEF Escaped
  <2> QED
    BY <1>1, <1>4, <2>2
<1>5. CASE c \notin {Quote, Backslash} /\ c \notin {8, 9, 10, 12, 13}
           /\ c \notin 32 .. 126 \ {Quote, Backslash}
  <2> DEFINE parts == [k \in DOMAIN Utf16(c) |-> <<Backslash, LetterU, Hex(Utf16(c)[k])>>]
  <2>1. Escaped(c) = FlattenSeq(parts)
    BY <1>5 DEF Escaped
  <2>2. CASE c < 65536
    <3>1. DOMAIN Utf16(c) = 1 .. 1 /\ Utf16(c)[1] = c
      BY <2>2 DEF Utf16
    <3>2. Escape16(c) \in Seq(Int)
      BY <1>1 DEF Escape16, Hex, Backslash, LetterU
    <3>3. parts = [k \in 1 .. 1 |-> Escape16(c)]
      BY <3>1 DEF Escape16
    <3>4. parts \in Seq(Seq(Int)) /\ Len(parts) = 1 /\ parts[1] = Escape16(c)
      <4> DEFINE x == Escape16(c)
      <4> HIDE DEF x, parts
      <4> QED
        BY <3>2, <3>3 DEF x
    <3> HIDE DEF parts
    <3>5. FlattenSeq(parts) = Escape16(c)
      BY <3>4, FlattenFew
    <3> QED
      BY <1>1, <2>1, <3>5
  <2>3. CASE ~(c < 65536)
    <3> DEFINE q == (c - 65536) \div 1024
               r == (c - 65536) % 1024
               hi == 55296 + q
               lo == 56320 + r
    <3>1. q \in 0 .. 1023 /\ r \in 0 .. 1023 /\ c - 65536 = 1024 * q + r
      BY <1>1, <2>3
    <3>2. Utf16(c) = <<hi, lo>>
      BY <2>3 DEF Utf16
    <3> HIDE DEF q, r
    <3>3. hi \in HighSurrogates /\ lo \in LowSurrogates /\ Combined(hi, lo) = c
      BY <1>1, <3>1 DEF HighSurrogates, LowSurrogates, Combined
    <3>4. hi \in Nat /\ lo \in Nat
      BY <3>1
    <3> HIDE DEF hi, lo
    <3>5. DOMAIN Utf16(c) = 1 .. 2 /\ Utf16(c)[1] = hi /\ Utf16(c)[2] = lo
      BY <3>2
    <3>6. Escape16(hi) \in Seq(Int) /\ Escape16(lo) \in Seq(Int)
      BY <3>4 DEF Escape16, Hex, Backslash, LetterU
    <3>7. parts \in Seq(Seq(Int)) /\ Len(parts) = 2 /\ parts[1] = Escape16(hi) /\ parts[2] = Escape16(lo)
      <4>1. parts = [k \in 1 .. 2 |-> Escape16(Utf16(c)[k])]
        BY <3>5 DEF Escape16
      <4> DEFINE e(k) == Escape16(Utf16(c)[k])
      <4>2. \A k \in 1 .. 2 : e(k) \in Seq(Int)
        BY <3>5, <3>6
      <4>3. e(1) = Escape16(hi) /\ e(2) = Escape16(lo)
        BY <3>5
      <4>4. parts = [k \in 1 .. 2 |-> e(k)]
        BY <4>1
      <4> HIDE DEF parts, e
      <4>5. parts \in [1 .. 2 -> Seq(Int)]
        BY <4>2, <4>4
      <4> QED
        BY <4>3, <4>4, <4>5
    <3> HIDE DEF parts
    <3>8. FlattenSeq(parts) = Escape16(hi) \o Escape16(lo)
      BY <3>7, FlattenFew
    <3> QED
      BY <2>1, <3>3, <3>8
  <2> QED
    BY <2>2, <2>3
<1> QED
  BY <1>2, <1>3, <1>4, <1>5

\* What is written for a character is text, and some.
LEMMA EscapedType ==
  ASSUME NEW c, IsLetter(c)
  PROVE  Escaped(c) \in Seq(Int) /\ c \in Int
<1>1. c \in Int
  BY DEF IsLetter
<1>2. DOMAIN ShortEscapes \subseteq Int
  BY DEF ShortEscapes, Quote, Backslash
<1>3. Backslash \in Int /\ LetterU \in Int
  BY DEF Backslash, LetterU
<1>4. ASSUME NEW unit \in Nat
      PROVE  Escape16(unit) \in Seq(Int)
  BY <1>3 DEF Escape16, Hex
<1>5. HighSurrogates \subseteq Nat /\ LowSurrogates \subseteq Nat
  BY DEF HighSurrogates, LowSurrogates
<1>6. CASE Escaped(c) = <<c>>
  BY <1>1, <1>6
<1>7. CASE \E e \in DOMAIN ShortEscapes : Escaped(c) = <<Backslash, e>>
  <2>1. PICK e \in DOMAIN ShortEscapes : Escaped(c) = <<Backslash, e>>
    BY <1>7
  <2>2. e \in Int
    BY <1>2
  <2> QED
    BY <1>1, <1>3, <2>1, <2>2
<1>8. CASE c \in Nat /\ Escaped(c) = Escape16(c)
  BY <1>4, <1>8
<1>9. CASE \E hi \in HighSurrogates, lo \in LowSurrogates : Escaped(c) = Escape16(hi) \o Escape16(lo)
  <2>1. PICK hi \in HighSurrogates, lo \in LowSurrogates : Escaped(c) = Escape16(hi) \o Escape16(lo)
    BY <1>9
  <2>2. Escape16(hi) \in Seq(Int) /\ Escape16(lo) \in Seq(Int)
    BY <1>4, <1>5
  <2> QED
    BY <1>1, <2>1, <2>2, ConcatProperties
<1> QED
  BY <1>1, <1>6, <1>7, <1>8, <1>9, EscapedForms

\* sd_json_get_string undoes json.dumps, character by character.
LEMMA EscapedIsRead ==
  ASSUME NEW json \in Seq(Int), NEW c, IsLetter(c), NEW i \in Nat, HasAt(json, i, Escaped(c))
  PROVE  Reader(json)[i] = <<c>> \o Reader(json)[i + Len(Escaped(c))]
<1> DEFINE f == Reader(json)
           p == Escaped(c)
<1>1. p \in Seq(Int) /\ Len(p) \in Nat /\ c \in Nat /\ c > 0 /\ c < 1114112
  BY EscapedType, LenProperties DEF IsLetter
<1>2. i > 0 /\ \A k \in 0 .. Len(p) - 1 : json[i + k] = p[k + 1] /\ CharAt(json, i + k) = p[k + 1]
  BY <1>1, CharsAt
<1>3. f[i] = Reads(json, f, i)
  <2>1. Len(json) \in Nat /\ DOMAIN json = 1 .. Len(json)
    BY LenProperties
  <2>2. IsReader(json, f)
    BY <2>1, ReaderExists
  <2> HIDE DEF f
  <2> QED
    BY <2>2 DEF IsReader
<1>forms. \/ c \notin {0, Quote, Backslash} /\ p = <<c>>
          \/ \E e \in DOMAIN ShortEscapes : ShortEscapes[e] = c /\ p = <<Backslash, e>>
          \/ c \in Nat /\ c \notin HighSurrogates /\ p = Escape16(c)
          \/ \E hi \in HighSurrogates, lo \in LowSurrogates :
               Combined(hi, lo) = c /\ p = Escape16(hi) \o Escape16(lo)
  BY EscapedForms
<1> SUFFICES f[i] = <<c>> \o f[i + Len(p)]
  OBVIOUS
<1> HIDE DEF f, p
<1>4. CASE c \notin {0, Quote, Backslash} /\ p = <<c>>
  <2>1. Len(p) = 1 /\ p[1] = c
    BY <1>4
  <2>2. CharAt(json, i) = c /\ json[i] = c
    <3>1. 0 \in 0 .. Len(p) - 1 /\ i + 0 = i /\ 0 + 1 = 1
      BY <2>1
    <3> QED
      BY <1>2, <2>1, <3>1, Zenon
  <2> QED
    BY <1>3, <1>4, <2>1, <2>2 DEF Reads
<1>5. CASE \E e \in DOMAIN ShortEscapes : ShortEscapes[e] = c /\ p = <<Backslash, e>>
  <2>1. PICK e \in DOMAIN ShortEscapes : ShortEscapes[e] = c /\ p = <<Backslash, e>>
    BY <1>5
  <2>2. Len(p) = 2 /\ p[1] = Backslash /\ p[2] = e
    BY <2>1
  <2>3. e # LetterU
    BY DEF ShortEscapes, LetterU, Quote, Backslash
  <2>4. CharAt(json, i) = Backslash /\ CharAt(json, i + 1) = e /\ json[i + 1] = e
    <3>1. 0 \in 0 .. Len(p) - 1 /\ i + 0 = i /\ 0 + 1 = 1 /\ 1 \in 0 .. Len(p) - 1 /\ 1 + 1 = 2
      BY <2>2
    <3> QED
      BY <1>2, <2>2, <3>1, Zenon
  <2>5. ~UnicodeAt(json, i) /\ ~PairAt(json, i)
    BY <2>3, <2>4 DEF UnicodeAt, PairAt
  <2>6. CharAt(json, i) \notin {0, Quote}
    BY <2>4 DEF Backslash, Quote
  <2> QED
    BY <1>3, <2>1, <2>2, <2>4, <2>5, <2>6 DEF Reads
<1>6. CASE c \in Nat /\ c \notin HighSurrogates /\ p = Escape16(c)
  <2>1. Len(p) = 3 /\ p[1] = Backslash /\ p[2] = LetterU /\ p[3] = Hex(c)
    BY <1>6 DEF Escape16
  <2>2. CharAt(json, i) = Backslash /\ CharAt(json, i + 1) = LetterU
        /\ CharAt(json, i + 2) = Hex(c) /\ json[i + 2] = Hex(c)
    <3>1. 0 \in 0 .. Len(p) - 1 /\ i + 0 = i /\ 0 + 1 = 1 /\ 1 \in 0 .. Len(p) - 1 /\ 1 + 1 = 2
          /\ 2 \in 0 .. Len(p) - 1 /\ 2 + 1 = 3
      BY <2>1
    <3> QED
      BY <1>2, <2>1, <3>1, Zenon
  <2>3. Hex(c) < 0 /\ Unit(Hex(c)) = c
    BY <1>1 DEF Hex, Unit
  <2>4. UnicodeAt(json, i) /\ ~PairAt(json, i)
    BY <1>6, <2>2, <2>3 DEF UnicodeAt, PairAt
  <2>5. CharAt(json, i) \notin {0, Quote}
    BY <2>2 DEF Backslash, Quote
  <2> QED
    BY <1>3, <2>1, <2>2, <2>3, <2>4, <2>5 DEF Reads
<1>7. CASE \E hi \in HighSurrogates, lo \in LowSurrogates :
             Combined(hi, lo) = c /\ p = Escape16(hi) \o Escape16(lo)
  <2>1. PICK hi \in HighSurrogates, lo \in LowSurrogates :
               Combined(hi, lo) = c /\ p = Escape16(hi) \o Escape16(lo)
    BY <1>7
  <2>2. hi \in Nat /\ lo \in Nat
    BY DEF HighSurrogates, LowSurrogates
  <2>4. /\ Len(p) = 6 /\ p[1] = Backslash /\ p[2] = LetterU /\ p[3] = Hex(hi)
        /\ p[4] = Backslash /\ p[5] = LetterU /\ p[6] = Hex(lo)
    <3> DEFINE u == Escape16(hi)
               v == Escape16(lo)
    <3>1. /\ u \in Seq(Int) /\ Len(u) = 3 /\ u[1] = Backslash /\ u[2] = LetterU /\ u[3] = Hex(hi)
          /\ v \in Seq(Int) /\ Len(v) = 3 /\ v[1] = Backslash /\ v[2] = LetterU /\ v[3] = Hex(lo)
      BY <2>2 DEF Escape16, Hex, Backslash, LetterU
    <3> HIDE DEF u, v
    <3>2. /\ Len(u \o v) = Len(u) + Len(v)
          /\ \A k \in 1 .. Len(u) + Len(v) : (u \o v)[k] = IF k <= Len(u) THEN u[k] ELSE v[k - Len(u)]
      BY <3>1, ConcatProperties
    <3>3. p = u \o v
      BY <2>1 DEF u, v
    <3> QED
      BY <3>1, <3>2, <3>3
  <2>5. /\ CharAt(json, i) = Backslash /\ CharAt(json, i + 1) = LetterU
        /\ CharAt(json, i + 2) = Hex(hi) /\ json[i + 2] = Hex(hi)
        /\ CharAt(json, i + 3) = Backslash /\ CharAt(json, i + 4) = LetterU
        /\ CharAt(json, i + 5) = Hex(lo) /\ json[i + 5] = Hex(lo)
    <3>1. /\ 0 \in 0 .. Len(p) - 1 /\ i + 0 = i /\ 0 + 1 = 1 /\ 1 \in 0 .. Len(p) - 1 /\ 1 + 1 = 2
          /\ 2 \in 0 .. Len(p) - 1 /\ 2 + 1 = 3 /\ 3 \in 0 .. Len(p) - 1 /\ 3 + 1 = 4
          /\ 4 \in 0 .. Len(p) - 1 /\ 4 + 1 = 5 /\ 5 \in 0 .. Len(p) - 1 /\ 5 + 1 = 6
      BY <2>4
    <3> QED
      BY <1>2, <2>4, <3>1, Zenon
  <2>6. Hex(hi) < 0 /\ Unit(Hex(hi)) = hi /\ Hex(lo) < 0 /\ Unit(Hex(lo)) = lo
    BY <2>2 DEF Hex, Unit
  <2>7. i + 3 + 1 = i + 4 /\ i + 3 + 2 = i + 5
    OBVIOUS
  <2>8. PairAt(json, i)
    BY <2>5, <2>6, <2>7 DEF UnicodeAt, PairAt
  <2>9. CharAt(json, i) \notin {0, Quote}
    BY <2>5 DEF Backslash, Quote
  <2> QED
    BY <1>3, <2>1, <2>4, <2>5, <2>6, <2>8, <2>9 DEF Reads
<1> QED
  BY <1>4, <1>5, <1>6, <1>7, <1>forms

\* The characters of a text as json.dumps writes them.
EscapedAll(s) == [k \in DOMAIN s |-> Escaped(s[k])]

\* They are written one after another, and what is written is a string.
LEMMA EscapedAllType ==
  ASSUME NEW s, IsText(s)
  PROVE  /\ EscapedAll(s) \in Seq(Seq(Int)) /\ Len(EscapedAll(s)) = Len(s)
         /\ Len(s) \in Nat /\ DOMAIN s = 1 .. Len(s)
         /\ \A k \in 1 .. Len(s) : IsLetter(s[k]) /\ s[k] \in Int /\ EscapedAll(s)[k] = Escaped(s[k])
         /\ FlattenSeq(EscapedAll(s)) = JoinedFirst(EscapedAll(s))[Len(s)]
         /\ FlattenSeq(EscapedAll(s)) \in Seq(Int)
<1> DEFINE n == Len(s)
           e == EscapedAll(s)
<1>1. s \in Seq(Int) /\ n \in Nat /\ DOMAIN s = 1 .. n
  BY LenProperties DEF IsText
<1>2. \A k \in 1 .. n : IsLetter(s[k]) /\ s[k] \in Int /\ Escaped(s[k]) \in Seq(Int)
  BY <1>1, EscapedType DEF IsText
<1>3. e = [k \in 1 .. n |-> Escaped(s[k])]
  BY <1>1 DEF EscapedAll
<1> HIDE DEF e, n
<1>4. e \in Seq(Seq(Int)) /\ Len(e) = n
  <2>1. e \in [1 .. n -> Seq(Int)]
    BY <1>2, <1>3
  <2> QED
    BY <1>1, <1>3, <2>1
<1>5. FlattenSeq(e) = JoinedFirst(e)[n]
  BY <1>4, FlattenIsJoined
<1>6. FlattenSeq(e) \in Seq(Int)
  <2>1. n \in 0 .. Len(e)
    BY <1>1, <1>4
  <2>2. JoinedFirst(e)[n] \in Seq(Int)
    BY <1>4, <2>1, JoinedProperties
  <2> QED
    BY <1>5, <2>2
<1> QED
  BY <1>1, <1>2, <1>3, <1>4, <1>5, <1>6 DEF e, n

\* What begins a part stands where the part stands.
LEMMA HasAtBegins ==
  ASSUME NEW json \in Seq(Int), NEW p \in Seq(Int), NEW q \in Seq(Int), NEW i \in Nat,
         HasAt(json, i, p), Begins(q, p)
  PROVE  HasAt(json, i, q)
<1>1. Len(json) \in Nat /\ Len(p) \in Nat /\ Len(q) \in Nat
  BY LenProperties
<1>2. i \in Nat \ {0} /\ i + Len(p) <= Len(json) + 1 /\ Len(q) <= Len(p)
  BY DEF HasAt, Begins
<1>3. ASSUME NEW k \in 1 .. Len(q)
      PROVE  json[i + k - 1] = q[k]
  <2>1. k \in 1 .. Len(p)
    BY <1>1, <1>2
  <2>2. q[k] = p[k] /\ json[i + k - 1] = p[k]
    BY <2>1 DEF HasAt, Begins
  <2> QED
    BY <2>2
<1>4. i + Len(q) <= Len(json) + 1
  BY <1>1, <1>2
<1> QED
  BY <1>2, <1>3, <1>4 DEF HasAt

\* The characters up to the closing quote are those of the text that was written.
LEMMA StringIsRead ==
  ASSUME NEW json \in Seq(Int), NEW s, IsText(s), NEW i \in Nat,
         HasAt(json, i, FlattenSeq(EscapedAll(s))),
         CharAt(json, i + Len(FlattenSeq(EscapedAll(s)))) = Quote
  PROVE  Reader(json)[i] = s
<1> DEFINE n == Len(s)
           e == EscapedAll(s)
           f == JoinedFirst(e)
           r == Reader(json)
           T == {m \in Nat : \A k \in Nat : k + m = n => r[i + Len(f[k])] = SubSeq(s, k + 1, n)}
<1>1. /\ e \in Seq(Seq(Int)) /\ Len(e) = n
      /\ n \in Nat /\ \A k \in 1 .. n : IsLetter(s[k]) /\ s[k] \in Int /\ e[k] = Escaped(s[k])
      /\ FlattenSeq(e) = f[n] /\ s \in Seq(Int)
  BY EscapedAllType DEF IsText
<1>2. IsReader(json, r)
  <2>1. Len(json) \in Nat /\ DOMAIN json = 1 .. Len(json)
    BY LenProperties
  <2> QED
    BY <2>1, ReaderExists
<1>3. HasAt(json, i, f[n]) /\ CharAt(json, i + Len(f[n])) = Quote
  BY <1>1
<1>4. /\ f[0] = << >>
      /\ \A k \in 1 .. n : f[k] = f[k - 1] \o e[k]
      /\ \A k \in 0 .. n : f[k] \in Seq(Int)
  BY <1>1, JoinedProperties
<1>5. \A k \in 0 .. n : HasAt(json, i, f[k])
  <2> SUFFICES ASSUME NEW k \in 0 .. n PROVE HasAt(json, i, f[k])
    OBVIOUS
  <2>1. Begins(f[k], f[n])
    BY <1>1, JoinedBegins
  <2>2. f[k] \in Seq(Int) /\ f[n] \in Seq(Int)
    BY <1>1, <1>4
  <2> HIDE DEF f
  <2> QED
    BY <1>3, <2>1, <2>2, HasAtBegins
<1> SUFFICES r[i] = s
  OBVIOUS
<1> HIDE DEF e, f, r, n
<1>6. 0 \in T
  <2>1. ASSUME NEW k \in Nat, k + 0 = n
        PROVE  r[i + Len(f[k])] = SubSeq(s, k + 1, n)
    <3>1. k = n /\ n \in 0 .. n
      BY <1>1, <2>1
    <3> DEFINE j == i + Len(f[n])
    <3>2. j \in Nat
      BY <1>4, <3>1, LenProperties
    <3>3. CharAt(json, j) \in {0, Quote}
      BY <1>3
    <3> HIDE DEF j
    <3>4. r[j] = << >>
      BY <1>2, <3>2, <3>3 DEF IsReader, Reads
    <3>5. SubSeq(s, n + 1, n) = << >>
      BY <1>1, SubSeqEmpty
    <3> QED
      BY <3>1, <3>4, <3>5 DEF j
  <2> QED
    BY <2>1
<1>7. ASSUME NEW m \in Nat, m \in T
      PROVE  m + 1 \in T
  <2>1. ASSUME NEW k \in Nat, k + (m + 1) = n
        PROVE  r[i + Len(f[k])] = SubSeq(s, k + 1, n)
    <3> DEFINE l == k + 1
    <3>1. l \in Nat /\ l + m = n /\ l \in 1 .. n /\ l \in 0 .. n /\ k \in 0 .. n /\ l - 1 = k
      BY <1>1, <2>1
    <3>2. r[i + Len(f[l])] = SubSeq(s, l + 1, n)
      BY <1>7, <3>1
    <3> HIDE DEF l, T
    <3> DEFINE a == f[k]
               b == e[l]
               c == s[l]
    <3>3. f[l] = a \o b /\ a \in Seq(Int) /\ b \in Seq(Int) /\ b = Escaped(c) /\ IsLetter(c) /\ c \in Int
      <4>1. e[l] \in Seq(Int)
        BY <1>1, <3>1, ElementOfSeq
      <4> QED
        BY <1>1, <1>4, <3>1, <4>1
    <3>4. HasAt(json, i, f[l])
      BY <1>5, <3>1
    <3> HIDE DEF a, b, c
    <3>5. /\ Len(a) \in Nat /\ Len(b) \in Nat /\ Len(f[l]) = Len(a) + Len(b)
          /\ a \o b \in Seq(Int)
      BY <3>3, LenProperties, ConcatProperties
    <3> DEFINE j == i + Len(a)
    <3>6. HasAt(json, j, b)
      <4>1. HasAt(a \o b, Len(a) + 1, b)
        BY <3>3, HasAtConcat, HasAtStart
      <4>2. Len(a) + 1 \in Nat /\ i + (Len(a) + 1) - 1 = j
        BY <3>5
      <4> HIDE DEF j
      <4>3. HasAt(json, i + (Len(a) + 1) - 1, b)
        BY <3>3, <3>4, <3>5, <4>1, <4>2, HasAtWithin
      <4> QED
        BY <4>2, <4>3
    <3>7. j \in Nat /\ j + Len(b) = i + Len(f[l])
      BY <3>5
    <3> HIDE DEF j
    <3>8. r[j] = <<c>> \o r[j + Len(b)]
      BY <3>3, <3>6, <3>7, EscapedIsRead DEF r
    <3>9. SubSeq(s, l, n) = <<c>> \o SubSeq(s, l + 1, n)
      <4>1. l \in 1 .. Len(s) /\ n \in l .. Len(s) /\ s \in Seq(Int)
        BY <1>1, <3>1 DEF n
      <4> QED
        BY <4>1, SubSeqRecursiveFirst DEF c
    <3> QED
      BY <3>2, <3>7, <3>8, <3>9 DEF j, a, l
  <2>2. m + 1 \in Nat
    OBVIOUS
  <2> QED
    BY <2>1, <2>2
<1> HIDE DEF T
<1>8. Nat \subseteq T
  BY <1>6, <1>7, SetInduction
<1>9. r[i + Len(f[0])] = SubSeq(s, 0 + 1, n)
  <2>1. 0 \in Nat /\ 0 + n = n /\ n \in T
    BY <1>1, <1>8
  <2> QED
    BY <2>1, Zenon DEF T
<1>10. Len(f[0]) = 0 /\ i + 0 = i /\ 0 + 1 = 1
  BY <1>4
<1>11. SubSeq(s, 1, n) = s
  BY <1>1, SubSeqFull DEF n
<1> QED
  BY <1>9, <1>10, <1>11

\* Where everything of a message stands.
Written(text) == FlattenSeq(EscapedAll(text))

\* A string that is all of one word is the word between quotes.
LEMMA WordQuoted ==
  ASSUME NEW w \in {Text, Type, AiResponse}
  PROVE  /\ IsText(<<w>>) /\ Written(<<w>>) = <<w>>
         /\ Quoted(<<w>>) = (<<Quote>> \o <<w>>) \o <<Quote>>
<1>1. w \in Int /\ w > 64 /\ w < 89
  BY DEF Text, Type, AiResponse
<1>2. Escaped(w) = <<w>>
  <2>1. w \notin {Quote, Backslash} /\ w \notin {8, 9, 10, 12, 13}
        /\ w \in 32 .. 126 \ {Quote, Backslash}
    BY <1>1 DEF Quote, Backslash
  <2> QED
    BY <2>1 DEF Escaped
<1>3. IsText(<<w>>)
  <2>1. IsLetter(w)
    BY <1>1, SMT DEF IsLetter, HighSurrogates, LowSurrogates
  <2>2. <<w>> \in Seq(Int) /\ DOMAIN <<w>> = 1 .. 1 /\ <<w>>[1] = w
    BY <1>1
  <2> QED
    BY <2>1, <2>2 DEF IsText
<1>4. Written(<<w>>) = <<w>>
  <2> DEFINE e == EscapedAll(<<w>>)
  <2>1. e \in Seq(Seq(Int)) /\ Len(e) = 1 /\ e[1] = <<w>>
    <3>1. Len(<<w>>) = 1 /\ <<w>>[1] = w
      OBVIOUS
    <3>2. 1 \in 1 .. Len(<<w>>)
      OBVIOUS
    <3> QED
      BY <1>2, <1>3, <3>1, <3>2, EscapedAllType
  <2> HIDE DEF e
  <2>2. FlattenSeq(e) = <<w>>
    BY <2>1, FlattenFew
  <2> QED
    BY <2>2 DEF Written, e
<1>5. Quoted(<<w>>) = (<<Quote>> \o Written(<<w>>)) \o <<Quote>>
  BY DEF Quoted, Written, EscapedAll
<1> QED
  BY <1>3, <1>4, <1>5

\* A string in its quotes.
LEMMA QuotedLayout ==
  ASSUME NEW s, IsText(s)
  PROVE  LET w == Written(s)
             q == Quoted(s)
         IN  /\ w \in Seq(Int) /\ q \in Seq(Int) /\ Len(w) \in Nat /\ Len(q) = Len(w) + 2
             /\ HasAt(q, 1, <<Quote>>) /\ HasAt(q, 2, w) /\ HasAt(q, Len(w) + 2, <<Quote>>)
<1> DEFINE w == Written(s)
           o == <<Quote>>
<1>1. w \in Seq(Int)
  BY EscapedAllType DEF Written
<1>2. o \in Seq(Int) /\ Len(o) = 1
  BY DEF Quote
<1>3. Quoted(s) = (o \o w) \o o
  BY DEF Quoted, Written, EscapedAll
<1> SUFFICES /\ w \in Seq(Int) /\ Quoted(s) \in Seq(Int) /\ Len(w) \in Nat /\ Len(Quoted(s)) = Len(w) + 2
             /\ HasAt(Quoted(s), 1, o) /\ HasAt(Quoted(s), 2, w) /\ HasAt(Quoted(s), Len(w) + 2, o)
  OBVIOUS
<1> HIDE DEF w, o
<1>4. Len(w) \in Nat
  BY <1>1, LenProperties
<1> DEFINE ow == o \o w
<1>5. ow \in Seq(Int) /\ Len(ow) = 1 + Len(w)
  BY <1>1, <1>2, ConcatProperties
<1>6. HasAt(o, 1, o) /\ HasAt(w, 1, w)
  BY <1>1, <1>2, HasAtStart
<1>7. HasAt(ow, 1, o)
  BY <1>1, <1>2, <1>6, HasAtConcat
<1>8. HasAt(ow, Len(o) + 1, w)
  BY <1>1, <1>2, <1>6, HasAtConcat
<1>9. Len(o) + 1 = 2 /\ Len(ow) + 1 = Len(w) + 2
  BY <1>2, <1>4, <1>5
<1> HIDE DEF ow
<1>10. ow \o o \in Seq(Int) /\ Len(ow \o o) = Len(w) + 2
  <2>1. ow \o o \in Seq(Int) /\ Len(ow \o o) = Len(ow) + Len(o)
    BY <1>2, <1>5, ConcatProperties
  <2>2. Len(ow) + Len(o) = Len(w) + 2
    BY <1>2, <1>4, <1>5
  <2> QED
    BY <2>1, <2>2
<1>11. HasAt(ow \o o, 1, o)
  BY <1>2, <1>5, <1>7, HasAtConcat
<1>12. HasAt(ow \o o, 2, w)
  BY <1>1, <1>2, <1>5, <1>8, <1>9, HasAtConcat
<1>13. HasAt(ow \o o, Len(ow) + 1, o)
  BY <1>2, <1>5, <1>6, HasAtConcat
<1>14. Quoted(s) = ow \o o
  BY <1>3 DEF ow
<1> QED
  BY <1>1, <1>4, <1>9, <1>10, <1>11, <1>12, <1>13, <1>14

\* Where the parts of a message stand.
LEMMA MessageLayout ==
  ASSUME NEW s, IsText(s)
  PROVE  LET m == AnswerMessage(s)
             k == Len(Written(s))
         IN  /\ m \in Seq(Int) /\ k \in Nat /\ Len(m) = k + 14
             /\ HasAt(m, 1, Quoted(<<Text>>)) /\ HasAt(m, 4, <<Colon>>) /\ HasAt(m, 5, Quoted(s))
             /\ HasAt(m, k + 7, <<Comma>>) /\ HasAt(m, k + 8, Quoted(<<Type>>))
             /\ HasAt(m, k + 11, <<Colon>>) /\ HasAt(m, k + 12, Quoted(<<AiResponse>>))
<1> DEFINE k == Len(Written(s))
           a1 == Quoted(<<Text>>)
           a2 == <<Colon>>
           a3 == Quoted(s)
           a4 == <<Comma>>
           a5 == Quoted(<<Type>>)
           a7 == Quoted(<<AiResponse>>)
<1>1. \A w \in {Text, Type, AiResponse} : Quoted(<<w>>) \in Seq(Int) /\ Len(Quoted(<<w>>)) = 3
  <2> SUFFICES ASSUME NEW w \in {Text, Type, AiResponse}
               PROVE  Quoted(<<w>>) \in Seq(Int) /\ Len(Quoted(<<w>>)) = 3
    OBVIOUS
  <2>1. IsText(<<w>>) /\ Written(<<w>>) = <<w>> /\ Len(<<w>>) = 1
    BY WordQuoted
  <2>2. Quoted(<<w>>) \in Seq(Int) /\ Len(Quoted(<<w>>)) = Len(Written(<<w>>)) + 2
    BY <2>1, QuotedLayout, Zenon
  <2>3. Len(Written(<<w>>)) = 1
    BY <2>1, Zenon
  <2>4. 1 + 2 = 3
    OBVIOUS
  <2> QED
    BY <2>2, <2>3, <2>4, Zenon
<1>2. /\ a1 \in Seq(Int) /\ Len(a1) = 3
      /\ a2 \in Seq(Int) /\ Len(a2) = 1
      /\ a3 \in Seq(Int) /\ Len(a3) = k + 2
      /\ a4 \in Seq(Int) /\ Len(a4) = 1
      /\ a5 \in Seq(Int) /\ Len(a5) = 3
      /\ a7 \in Seq(Int) /\ Len(a7) = 3
      /\ k \in Nat
  BY <1>1, QuotedLayout DEF Colon, Comma
<1> DEFINE m == AnswerMessage(s)
<1>3. m = (((((a1 \o a2) \o a3) \o a4) \o a5) \o a2) \o a7
  BY DEF AnswerMessage
<1> SUFFICES /\ m \in Seq(Int) /\ k \in Nat /\ Len(m) = k + 14
             /\ HasAt(m, 1, a1) /\ HasAt(m, 4, a2) /\ HasAt(m, 5, a3)
             /\ HasAt(m, k + 7, a4) /\ HasAt(m, k + 8, a5)
             /\ HasAt(m, k + 11, a2) /\ HasAt(m, k + 12, a7)
  OBVIOUS
<1> HIDE DEF k, a1, a2, a3, a4, a5, a7, m
<1>4. HasAt(a1, 1, a1) /\ HasAt(a2, 1, a2) /\ HasAt(a3, 1, a3) /\ HasAt(a4, 1, a4) /\ HasAt(a5, 1, a5)
      /\ HasAt(a7, 1, a7)
  BY <1>2, HasAtStart
<1> DEFINE b2 == a1 \o a2
           b3 == b2 \o a3
           b4 == b3 \o a4
           b5 == b4 \o a5
           b6 == b5 \o a2
           b7 == b6 \o a7
<1>5. m = b7
  BY <1>3
<1> HIDE DEF b7
<1>b2. b2 \in Seq(Int) /\ Len(b2) = 4 /\ HasAt(b2, 1, a1) /\ HasAt(b2, 4, a2)
  <2>1. b2 \in Seq(Int) /\ Len(b2) = Len(a1) + Len(a2)
    BY <1>2, ConcatProperties
  <2>2. HasAt(b2, 1, a1) /\ HasAt(b2, Len(a1) + 1, a2)
    BY <1>2, <1>4, HasAtConcat
  <2>3. Len(a1) + 1 = 4 /\ Len(a1) + Len(a2) = 4
    BY <1>2
  <2> QED
    BY <2>1, <2>2, <2>3
<1> HIDE DEF b2
<1>b3. b3 \in Seq(Int) /\ Len(b3) = k + 6 /\ HasAt(b3, 1, a1) /\ HasAt(b3, 4, a2) /\ HasAt(b3, 5, a3)
  <2>1. b3 \in Seq(Int) /\ Len(b3) = Len(b2) + Len(a3)
    BY <1>2, <1>b2, ConcatProperties
  <2>2. HasAt(b3, 1, a1) /\ HasAt(b3, 4, a2)
    BY <1>2, <1>b2, HasAtConcat
  <2>3. HasAt(b3, Len(b2) + 1, a3)
    BY <1>2, <1>b2, <1>4, HasAtConcat
  <2>4. Len(b2) + 1 = 5 /\ Len(b2) + Len(a3) = k + 6
    BY <1>2, <1>b2
  <2> QED
    BY <2>1, <2>2, <2>3, <2>4
<1> HIDE DEF b3
<1>b4. /\ b4 \in Seq(Int) /\ Len(b4) = k + 7 /\ HasAt(b4, 1, a1) /\ HasAt(b4, 4, a2) /\ HasAt(b4, 5, a3)
       /\ HasAt(b4, k + 7, a4)
  <2>1. b4 \in Seq(Int) /\ Len(b4) = Len(b3) + Len(a4)
    BY <1>2, <1>b3, ConcatProperties
  <2>2. HasAt(b4, 1, a1) /\ HasAt(b4, 4, a2) /\ HasAt(b4, 5, a3)
    BY <1>2, <1>b3, HasAtConcat
  <2>3. HasAt(b4, Len(b3) + 1, a4)
    BY <1>2, <1>b3, <1>4, HasAtConcat
  <2>4. Len(b3) + 1 = k + 7 /\ Len(b3) + Len(a4) = k + 7
    BY <1>2, <1>b3
  <2> QED
    BY <2>1, <2>2, <2>3, <2>4
<1> HIDE DEF b4
<1>b5. /\ b5 \in Seq(Int) /\ Len(b5) = k + 10 /\ HasAt(b5, 1, a1) /\ HasAt(b5, 4, a2) /\ HasAt(b5, 5, a3)
       /\ HasAt(b5, k + 7, a4) /\ HasAt(b5, k + 8, a5)
  <2>1. b5 \in Seq(Int) /\ Len(b5) = Len(b4) + Len(a5)
    BY <1>2, <1>b4, ConcatProperties
  <2>0. k + 7 \in Nat
    BY <1>2
  <2>2. HasAt(b5, 1, a1) /\ HasAt(b5, 4, a2) /\ HasAt(b5, 5, a3) /\ HasAt(b5, k + 7, a4)
    BY <1>2, <1>b4, <2>0, HasAtConcat
  <2>3. HasAt(b5, Len(b4) + 1, a5)
    BY <1>2, <1>b4, <1>4, HasAtConcat
  <2>4. Len(b4) + 1 = k + 8 /\ Len(b4) + Len(a5) = k + 10
    BY <1>2, <1>b4
  <2> QED
    BY <2>1, <2>2, <2>3, <2>4
<1> HIDE DEF b5
<1>b6. /\ b6 \in Seq(Int) /\ Len(b6) = k + 11 /\ HasAt(b6, 1, a1) /\ HasAt(b6, 4, a2) /\ HasAt(b6, 5, a3)
       /\ HasAt(b6, k + 7, a4) /\ HasAt(b6, k + 8, a5) /\ HasAt(b6, k + 11, a2)
  <2>1. b6 \in Seq(Int) /\ Len(b6) = Len(b5) + Len(a2)
    BY <1>2, <1>b5, ConcatProperties
  <2>0. k + 7 \in Nat /\ k + 8 \in Nat
    BY <1>2
  <2>2. HasAt(b6, 1, a1) /\ HasAt(b6, 4, a2) /\ HasAt(b6, 5, a3) /\ HasAt(b6, k + 7, a4) /\ HasAt(b6, k + 8, a5)
    BY <1>2, <1>b5, <2>0, HasAtConcat
  <2>3. HasAt(b6, Len(b5) + 1, a2)
    BY <1>2, <1>b5, <1>4, HasAtConcat
  <2>4. Len(b5) + 1 = k + 11 /\ Len(b5) + Len(a2) = k + 11
    BY <1>2, <1>b5
  <2> QED
    BY <2>1, <2>2, <2>3, <2>4
<1> HIDE DEF b6
<1>b7. /\ b7 \in Seq(Int) /\ Len(b7) = k + 14 /\ HasAt(b7, 1, a1) /\ HasAt(b7, 4, a2) /\ HasAt(b7, 5, a3)
       /\ HasAt(b7, k + 7, a4) /\ HasAt(b7, k + 8, a5) /\ HasAt(b7, k + 11, a2) /\ HasAt(b7, k + 12, a7)
  <2>1. b7 \in Seq(Int) /\ Len(b7) = Len(b6) + Len(a7)
    BY <1>2, <1>b6, ConcatProperties DEF b7
  <2>0. k + 7 \in Nat /\ k + 8 \in Nat /\ k + 11 \in Nat
    BY <1>2
  <2>2. /\ HasAt(b7, 1, a1) /\ HasAt(b7, 4, a2) /\ HasAt(b7, 5, a3) /\ HasAt(b7, k + 7, a4)
        /\ HasAt(b7, k + 8, a5) /\ HasAt(b7, k + 11, a2)
    BY <1>2, <1>b6, <2>0, HasAtConcat DEF b7
  <2>3. HasAt(b7, Len(b6) + 1, a7)
    BY <1>2, <1>b6, <1>4, HasAtConcat DEF b7
  <2>4. Len(b6) + 1 = k + 12 /\ Len(b6) + Len(a7) = k + 14
    BY <1>2, <1>b6
  <2> QED
    BY <2>1, <2>2, <2>3, <2>4
<1> QED
  BY <1>2, <1>5, <1>b7

\* One character in its place.
LEMMA HasOne ==
  ASSUME NEW json \in Seq(Int), NEW i \in Nat, NEW c \in Int, HasAt(json, i, <<c>>)
  PROVE  i \in 1 .. Len(json) /\ json[i] = c /\ CharAt(json, i) = c
<1>1. <<c>> \in Seq(Int) /\ Len(<<c>>) = 1 /\ <<c>>[1] = c
  OBVIOUS
<1>2. Len(json) \in Nat /\ DOMAIN json = 1 .. Len(json)
  BY LenProperties
<1>3. 0 \in 0 .. Len(<<c>>) - 1 /\ i + 0 = i /\ 0 + 1 = 1
  BY <1>1
<1>4. i + 0 \in DOMAIN json /\ json[i + 0] = <<c>>[0 + 1] /\ CharAt(json, i + 0) = <<c>>[0 + 1]
  BY <1>1, <1>3, CharsAt, Zenon
<1> QED
  BY <1>1, <1>2, <1>3, <1>4, Zenon

\* A word in its quotes.
LEMMA WordAt ==
  ASSUME NEW json \in Seq(Int), NEW i \in Nat, NEW w \in {Text, Type, AiResponse},
         HasAt(json, i, Quoted(<<w>>))
  PROVE  /\ i \in 1 .. Len(json) - 2
         /\ CharAt(json, i) = Quote /\ CharAt(json, i + 1) = w /\ CharAt(json, i + 2) = Quote
         /\ json[i] = Quote /\ json[i + 1] = w /\ json[i + 2] = Quote
<1> DEFINE q == Quoted(<<w>>)
<1>1. IsText(<<w>>) /\ Written(<<w>>) = <<w>> /\ Len(<<w>>) = 1
  BY WordQuoted
<1>2. /\ q \in Seq(Int)
      /\ HasAt(q, 1, <<Quote>>) /\ HasAt(q, 2, <<w>>) /\ HasAt(q, Len(<<w>>) + 2, <<Quote>>)
  BY <1>1, QuotedLayout, Zenon
<1> HIDE DEF q
<1>3. Quote \in Int /\ w \in Int /\ <<Quote>> \in Seq(Int) /\ <<w>> \in Seq(Int)
  BY DEF Quote, Text, Type, AiResponse
<1>4. HasAt(json, i, q)
  BY DEF q
<1>5. 1 + 2 = 3 /\ i + 1 - 1 = i /\ i + 2 - 1 = i + 1 /\ i + 3 - 1 = i + 2 /\ i + 1 \in Nat /\ i + 2 \in Nat
      /\ 1 \in Nat /\ 2 \in Nat /\ 3 \in Nat
  OBVIOUS
<1>6. HasAt(q, 3, <<Quote>>)
  BY <1>1, <1>2, <1>5, Zenon
<1>7. HasAt(json, i + 1 - 1, <<Quote>>) /\ HasAt(json, i + 2 - 1, <<w>>) /\ HasAt(json, i + 3 - 1, <<Quote>>)
  BY <1>2, <1>3, <1>4, <1>5, <1>6, HasAtWithin
<1>8. HasAt(json, i, <<Quote>>) /\ HasAt(json, i + 1, <<w>>) /\ HasAt(json, i + 2, <<Quote>>)
  BY <1>5, <1>7, Zenon
<1>9. /\ i \in 1 .. Len(json) /\ json[i] = Quote /\ CharAt(json, i) = Quote
      /\ i + 1 \in 1 .. Len(json) /\ json[i + 1] = w /\ CharAt(json, i + 1) = w
      /\ i + 2 \in 1 .. Len(json) /\ json[i + 2] = Quote /\ CharAt(json, i + 2) = Quote
  BY <1>3, <1>5, <1>8, HasOne
<1>10. i \in 1 .. Len(json) - 2
  <2>1. Len(json) \in Nat
    BY LenProperties
  <2> QED
    BY <1>9, <2>1
<1> QED
  BY <1>9, <1>10

\* The characters of a message, one by one.
LEMMA MessageChars ==
  ASSUME NEW s, IsText(s)
  PROVE  LET m == AnswerMessage(s)
             k == Len(Written(s))
         IN  /\ m \in Seq(Int) /\ k \in Nat /\ Len(m) = k + 14 /\ Written(s) \in Seq(Int)
             /\ m[1] = Quote /\ m[2] = Text /\ m[3] = Quote /\ m[4] = Colon /\ m[5] = Quote
             /\ HasAt(m, 6, Written(s))
             /\ m[k + 6] = Quote /\ m[k + 7] = Comma
             /\ m[k + 8] = Quote /\ m[k + 9] = Type /\ m[k + 10] = Quote /\ m[k + 11] = Colon
             /\ m[k + 12] = Quote /\ HasAt(m, k + 13, Written(<<AiResponse>>)) /\ m[k + 14] = Quote
<1> DEFINE m == AnswerMessage(s)
           k == Len(Written(s))
           w == Written(s)
           q == Quoted(s)
<1>1. /\ m \in Seq(Int) /\ k \in Nat /\ Len(m) = k + 14
      /\ HasAt(m, 1, Quoted(<<Text>>)) /\ HasAt(m, 4, <<Colon>>) /\ HasAt(m, 5, q)
      /\ HasAt(m, k + 7, <<Comma>>) /\ HasAt(m, k + 8, Quoted(<<Type>>))
      /\ HasAt(m, k + 11, <<Colon>>) /\ HasAt(m, k + 12, Quoted(<<AiResponse>>))
  BY MessageLayout
<1>2. /\ w \in Seq(Int) /\ q \in Seq(Int)
      /\ HasAt(q, 1, <<Quote>>) /\ HasAt(q, 2, w) /\ HasAt(q, k + 2, <<Quote>>)
  BY QuotedLayout
<1> SUFFICES /\ m \in Seq(Int) /\ k \in Nat /\ Len(m) = k + 14 /\ w \in Seq(Int)
             /\ m[1] = Quote /\ m[2] = Text /\ m[3] = Quote /\ m[4] = Colon /\ m[5] = Quote
             /\ HasAt(m, 6, w)
             /\ m[k + 6] = Quote /\ m[k + 7] = Comma
             /\ m[k + 8] = Quote /\ m[k + 9] = Type /\ m[k + 10] = Quote /\ m[k + 11] = Colon
             /\ m[k + 12] = Quote /\ HasAt(m, k + 13, Written(<<AiResponse>>)) /\ m[k + 14] = Quote
  OBVIOUS
<1> HIDE DEF m, k, w, q
<1>3. Quote \in Int /\ Colon \in Int /\ Comma \in Int /\ <<Quote>> \in Seq(Int)
  BY DEF Quote, Colon, Comma
<1>4. m[1] = Quote /\ m[1 + 1] = Text /\ m[1 + 2] = Quote
  BY <1>1, WordAt
<1>5. k + 8 \in Nat /\ k + 12 \in Nat /\ k + 7 \in Nat /\ k + 11 \in Nat /\ k + 2 \in Nat
  BY <1>1
<1>6. m[k + 8] = Quote /\ m[k + 8 + 1] = Type /\ m[k + 8 + 2] = Quote
  BY <1>1, <1>5, WordAt
<1>7. m[k + 12] = Quote /\ m[k + 12 + 2] = Quote
  BY <1>1, <1>5, WordAt
<1>8. m[4] = Colon /\ m[k + 7] = Comma /\ m[k + 11] = Colon
  BY <1>1, <1>3, <1>5, HasOne
<1>9. HasAt(m, 5 + 1 - 1, <<Quote>>) /\ HasAt(m, 5 + 2 - 1, w) /\ HasAt(m, 5 + (k + 2) - 1, <<Quote>>)
  BY <1>1, <1>2, <1>3, <1>5, HasAtWithin
<1>10. /\ 5 + 1 - 1 = 5 /\ 5 + 2 - 1 = 6 /\ 5 + (k + 2) - 1 = k + 6 /\ k + 6 \in Nat /\ 1 + 1 = 2 /\ 1 + 2 = 3
       /\ k + 8 + 1 = k + 9 /\ k + 8 + 2 = k + 10 /\ k + 12 + 2 = k + 14 /\ k + 12 + 2 - 1 = k + 13
  BY <1>1
<1>11. HasAt(m, 5, <<Quote>>) /\ HasAt(m, 6, w) /\ HasAt(m, k + 6, <<Quote>>)
  BY <1>9, <1>10, Zenon
<1>12. m[5] = Quote /\ m[k + 6] = Quote
  <2>1. ASSUME NEW i \in Nat, HasAt(m, i, <<Quote>>)
        PROVE  m[i] = Quote
    BY <1>1, <1>3, <2>1, HasOne
  <2>2. 5 \in Nat
    OBVIOUS
  <2> QED
    BY <1>10, <1>11, <2>1, <2>2, Zenon
<1>13. HasAt(m, k + 12 + 2 - 1, Written(<<AiResponse>>))
  <2> DEFINE a == <<AiResponse>>
  <2>1. IsText(a)
    BY WordQuoted
  <2> HIDE DEF a
  <2>2. Quoted(a) \in Seq(Int) /\ Written(a) \in Seq(Int) /\ HasAt(Quoted(a), 2, Written(a))
    BY <2>1, QuotedLayout
  <2>3. HasAt(m, k + 12, Quoted(a))
    BY <1>1 DEF a
  <2>4. HasAt(m, k + 12 + 2 - 1, Written(a))
    BY <1>1, <1>5, <2>2, <2>3, HasAtWithin
  <2> QED
    BY <2>4 DEF a
<1> QED
  BY <1>1, <1>2, <1>4, <1>6, <1>7, <1>8, <1>10, <1>11, <1>12, <1>13, Zenon

\* Where there are no blanks, none are passed over.
LEMMA NoBlanks ==
  ASSUME NEW json \in Seq(Int), NEW i \in 1 .. Len(json), json[i] \notin {9, 32}
  PROVE  PastBlanks(json, i) = i
<1> DEFINE S == {k \in i .. Len(json) + 1 : CharAt(json, k) \notin {9, 32}}
<1>1. Len(json) \in Nat /\ DOMAIN json = 1 .. Len(json)
  BY LenProperties
<1>2. CharAt(json, i) = json[i]
  BY <1>1 DEF CharAt
<1>3. S \in SUBSET Int /\ i \in S /\ \A y \in S : i <= y
  BY <1>1, <1>2
<1> HIDE DEF S
<1>4. Min(S) = i
  BY <1>3, MinIs
<1> QED
  BY <1>4 DEF PastBlanks, S

\* A key in its quotes stands where its three characters do.
LEMMA KeyMatches ==
  ASSUME NEW json \in Seq(Int), NEW key \in Int, NEW i \in Int
  PROVE  i \in Matches(json, key) <=>
           /\ i \in 1 .. Len(json) - 2
           /\ json[i] = Quote /\ json[i + 1] = key /\ json[i + 2] = Quote
<1>1. CASE i \in 1 .. Len(json) - 2
  <2> DEFINE j == i + 2
             u == SubSeq(json, i, j)
             v == <<Quote, key, Quote>>
  <2>1. i \in Int /\ j \in Int /\ i <= j /\ j - i + 1 = 3 /\ \A l \in i .. j : json[l] \in Int
    <3>1. \A l \in i .. j : l \in 1 .. Len(json)
      BY <1>1, LenProperties
    <3>2. \A l \in 1 .. Len(json) : json[l] \in Int
      BY ElementOfSeq
    <3> QED
      BY <1>1, <3>1, <3>2
  <2>2. i + 1 - 1 = i /\ i + 2 - 1 = i + 1 /\ i + 3 - 1 = i + 2
    BY <1>1
  <2> HIDE DEF j
  <2>3. /\ u \in Seq(Int) /\ Len(u) = (IF i <= j THEN j - i + 1 ELSE 0)
        /\ \A l \in 1 .. j - i + 1 : u[l] = json[i + l - 1]
    BY <2>1, SubSeqProperties
  <2> HIDE DEF u
  <2>4. u \in Seq(Int) /\ Len(u) = 3 /\ \A l \in 1 .. 3 : u[l] = json[i + l - 1]
    BY <2>1, <2>3
  <2>5. u[1] = json[i] /\ u[2] = json[i + 1] /\ u[3] = json[i + 2]
    BY <2>2, <2>4
  <2>6. v \in Seq(Int) /\ Len(v) = 3 /\ v[1] = Quote /\ v[2] = key /\ v[3] = Quote
    BY DEF Quote
  <2> HIDE DEF v
  <2>7. u = v <=> u[1] = v[1] /\ u[2] = v[2] /\ u[3] = v[3]
    <3>1. ASSUME u[1] = v[1], u[2] = v[2], u[3] = v[3]
          PROVE  u = v
      <4>1. \A l \in 1 .. 3 : u[l] = v[l]
        BY <3>1
      <4> QED
        BY <2>4, <2>6, <4>1, SeqEqual
    <3> QED
      BY <3>1
  <2>8. i \in Matches(json, key) <=> u = v
    BY <1>1 DEF Matches, u, v, j
  <2> QED
    BY <1>1, <2>5, <2>6, <2>7, <2>8, Zenon
<1>2. CASE i \notin 1 .. Len(json) - 2
  BY <1>2 DEF Matches
<1> QED
  BY <1>1, <1>2

\* The text of the message is found, and read.
LEMMA TextIsFound ==
  ASSUME NEW s, IsText(s), NEW cap
  PROVE  GetString(AnswerMessage(s), Text, cap) = Copied(s, cap)
<1> DEFINE m == AnswerMessage(s)
           k == Len(Written(s))
           w == Written(s)
           S == Matches(m, Text)
<1>1. /\ m \in Seq(Int) /\ k \in Nat /\ Len(m) = k + 14
      /\ m[1] = Quote /\ m[2] = Text /\ m[3] = Quote /\ m[4] = Colon /\ m[5] = Quote
      /\ HasAt(m, 6, w) /\ m[k + 6] = Quote
  BY MessageChars
<1> SUFFICES GetString(m, Text, cap) = Copied(s, cap)
  OBVIOUS
<1> HIDE DEF m
<1>2. 1 \in S
  <2>1. 1 \in 1 .. Len(m) - 2 /\ 1 + 1 = 2 /\ 1 + 2 = 3 /\ 1 \in Int /\ Text \in Int
    BY <1>1 DEF Text
  <2> QED
    BY <1>1, <2>1, KeyMatches
<1>3. AfterKey(m, Text) = 4
  <2>1. 1 \in S /\ S \in SUBSET Int /\ \A y \in S : 1 <= y
    <3>1. \A i \in 1 .. Len(m) - 2 : i \in Int /\ 1 <= i
      BY <1>1
    <3> QED
      BY <1>2, <3>1 DEF Matches
  <2> HIDE DEF S
  <2>2. Min(S) = 1
    BY <2>1, MinIs
  <2>3. 4 \in 1 .. Len(m) /\ m[4] \notin {9, 32} /\ 1 + 3 = 4
    BY <1>1 DEF Colon
  <2>4. PastBlanks(m, 4) = 4
    BY <1>1, <2>3, NoBlanks
  <2> QED
    BY <2>2, <2>3, <2>4, Zenon DEF AfterKey, S
<1>4. ValueAt(m, Text) = 5
  <2>1. 5 \in 1 .. Len(m) /\ m[5] \notin {9, 32} /\ 4 + 1 = 5
    BY <1>1 DEF Quote
  <2>2. PastBlanks(m, 5) = 5
    BY <1>1, <2>1, NoBlanks
  <2> QED
    BY <1>3, <2>1, <2>2, Zenon DEF ValueAt
<1>5. Reader(m)[6] = s
  <2>1. DOMAIN m = 1 .. Len(m) /\ k + 6 \in 1 .. Len(m) /\ 6 + k = k + 6
    BY <1>1, LenProperties
  <2>2. CharAt(m, 6 + k) = Quote
    BY <1>1, <2>1 DEF CharAt
  <2>3. HasAt(m, 6, FlattenSeq(EscapedAll(s))) /\ CharAt(m, 6 + Len(FlattenSeq(EscapedAll(s)))) = Quote
    BY <1>1, <2>2 DEF Written
  <2> QED
    BY <1>1, <2>3, StringIsRead
<1>6. Characters(m, ValueAt(m, Text) + 1) = s
  <2>1. 5 + 1 = 6
    OBVIOUS
  <2> QED
    BY <1>4, <1>5, <2>1, CharactersDef, Zenon
<1> QED
  BY <1>6 DEF GetString

-----------------------------------------------------------------------------
(* What append_utf8 makes of the text *)

\* They are bytes, and none of them is NUL.
LEMMA Utf8Bytes ==
  ASSUME NEW c, IsLetter(c)
  PROVE  /\ Utf8(c) \in Seq(1 .. 255) /\ Len(Utf8(c)) = Utf8Length(c)
         /\ Utf8Length(c) \in 1 .. 4
<1> DEFINE n == Utf8Length(c)
           b(k) == IF k = 1 THEN LeadBits[n] + c \div Shifts[n]
                   ELSE 128 + ((c \div Shifts[n - k + 1]) % 64)
<1>1. c \in Nat /\ c > 0 /\ c < 1114112
  BY SMT DEF IsLetter
<1>2. LeadBits[1] = 0 /\ LeadBits[2] = 192 /\ LeadBits[3] = 224 /\ LeadBits[4] = 240
  BY DEF LeadBits
<1>3. Shifts[1] = 1 /\ Shifts[2] = 64 /\ Shifts[3] = 4096 /\ Shifts[4] = 262144
  BY SMT DEF Shifts
<1>4. n \in 1 .. 4 /\ LeadBits[n] + c \div Shifts[n] \in 1 .. 255
  <2>1. CASE c < 128
    <3>1. n = 1
      BY <1>1, <2>1, SMT DEF Utf8Length
    <3>2. 0 + c \div 1 \in 1 .. 255
      BY <1>1, <2>1, SMT
    <3> HIDE DEF n
    <3> QED
      BY <1>2, <1>3, <3>1, <3>2, SMT
  <2>2. CASE ~(c < 128) /\ c < 2048
    <3>1. n = 2
      BY <1>1, <2>2, SMT DEF Utf8Length
    <3>2. 192 + c \div 64 \in 1 .. 255
      BY <1>1, <2>2, SMT
    <3> HIDE DEF n
    <3> QED
      BY <1>2, <1>3, <3>1, <3>2, SMT
  <2>3. CASE ~(c < 2048) /\ c < 65536
    <3>1. n = 3
      BY <1>1, <2>3, SMT DEF Utf8Length
    <3>2. 224 + c \div 4096 \in 1 .. 255
      BY <1>1, <2>3, SMT
    <3> HIDE DEF n
    <3> QED
      BY <1>2, <1>3, <3>1, <3>2, SMT
  <2>4. CASE ~(c < 65536)
    <3>1. n = 4
      BY <1>1, <2>4, SMT DEF Utf8Length
    <3>2. 240 + c \div 262144 \in 1 .. 255
      BY <1>1, <2>4, SMT
    <3> HIDE DEF n
    <3> QED
      BY <1>2, <1>3, <3>1, <3>2, SMT
  <2> HIDE DEF n
  <2> QED
    BY <1>1, <2>1, <2>2, <2>3, <2>4, SMT
<1>5. Utf8(c) = [k \in 1 .. n |-> b(k)]
  BY DEF Utf8
<1> SUFFICES Utf8(c) \in Seq(1 .. 255) /\ Len(Utf8(c)) = n /\ n \in 1 .. 4
  OBVIOUS
<1> HIDE DEF n
<1>6. ASSUME NEW k \in 1 .. n
      PROVE  b(k) \in 1 .. 255
  <2>1. CASE k = 1
    BY <1>4, <2>1
  <2>2. CASE k # 1
    <3> DEFINE m == n - k + 1
    <3>1. m \in 1 .. 4
      BY <1>4, <2>2
    <3> HIDE DEF m
    <3>2. Shifts[m] \in {1, 64, 4096, 262144}
      BY <1>3, <3>1, SMT
    <3> DEFINE q == c \div Shifts[m]
    <3>3. q \in Int
      BY <1>1, <3>2, SMT
    <3> HIDE DEF q
    <3>4. 128 + (q % 64) \in 1 .. 255
      BY <3>3
    <3> QED
      BY <2>2, <3>4 DEF q, m
  <2> QED
    BY <2>1, <2>2
<1> HIDE DEF b
<1>7. Utf8(c) \in [1 .. n -> 1 .. 255]
  BY <1>5, <1>6
<1>8. n \in Nat
  BY <1>4
<1> QED
  BY <1>4, <1>7, <1>8

\* The recursion of Copied.
IsCopied(f, s, cap, n) ==
  f = [i \in 0 .. n |-> IF i = 0 THEN << >> ELSE Appended(f[i - 1], s[i], cap)]

\* It has a solution, whatever the text.
LEMMA CopiedExists ==
  ASSUME NEW s, NEW cap
  PROVE  \A n \in Nat : \E f : IsCopied(f, s, cap, n)
<1> DEFINE S == {n \in Nat : \E f : IsCopied(f, s, cap, n)}
<1>1. 0 \in S
  <2>1. IsCopied([i \in 0 .. 0 |-> << >>], s, cap, 0)
    BY DEF IsCopied
  <2> QED
    BY <2>1
<1>2. ASSUME NEW n \in Nat, n \in S
      PROVE  n + 1 \in S
  <2>1. PICK f : IsCopied(f, s, cap, n)
    BY <1>2
  <2> DEFINE g == [i \in 0 .. n + 1 |-> IF i \in 0 .. n THEN f[i] ELSE Appended(f[n], s[n + 1], cap)]
  <2>2. ASSUME NEW i \in 0 .. n + 1
        PROVE  g[i] = IF i = 0 THEN << >> ELSE Appended(g[i - 1], s[i], cap)
    BY <2>1 DEF IsCopied
  <2>3. IsCopied(g, s, cap, n + 1)
    BY <2>2 DEF IsCopied
  <2> QED
    BY <2>3
<1> HIDE DEF S
<1>3. Nat \subseteq S
  BY <1>1, <1>2, SetInduction
<1> QED
  BY <1>3 DEF S

\* The first bytes are those of the whole text, as many of them as fit and three fewer.
Agree(a, b, n) ==
  \/ a = b
  \/ Len(a) >= n /\ Len(b) >= n /\ \A k \in 1 .. n : a[k] = b[k]

\* append_utf8 leaves out what does not fit, yet goes on: what sd_json_get_string copies fits
\* its buffer, and agrees with the text as far as the last character that might not fit.
LEMMA CopiedAgrees ==
  ASSUME NEW s, IsText(s), NEW cap \in Nat, cap > 3
  PROVE  /\ Copied(s, cap) \in Seq(1 .. 255) /\ Len(Copied(s, cap)) < cap
         /\ InUtf8(s) \in Seq(1 .. 255)
         /\ Agree(Copied(s, cap), InUtf8(s), cap - 4)
<1> DEFINE n == Len(s)
           u == [i \in DOMAIN s |-> Utf8(s[i])]
           B == 1 .. 255
           j == JoinedFirst(u)
           o == CHOOSE f : IsCopied(f, s, cap, n)
<1>1. n \in Nat /\ DOMAIN s = 1 .. n /\ \A k \in 1 .. n : IsLetter(s[k])
  BY EscapedAllType
<1>2. \A k \in 1 .. n : Utf8(s[k]) \in Seq(B) /\ Len(Utf8(s[k])) = Utf8Length(s[k]) /\ Utf8Length(s[k]) \in 1 .. 4
  BY <1>1, Utf8Bytes
<1>3. /\ u \in Seq(Seq(B)) /\ Len(u) = n /\ \A k \in 1 .. n : u[k] = Utf8(s[k])
  <2>1. u = [i \in 1 .. n |-> Utf8(s[i])]
    BY <1>1
  <2> HIDE DEF u, n, B
  <2>2. u \in [1 .. n -> Seq(B)]
    BY <1>2, <2>1
  <2> QED
    BY <1>1, <2>1, <2>2
<1>4. InUtf8(s) = j[n]
  <2>1. InUtf8(s) = FlattenSeq(u)
    BY DEF InUtf8
  <2> HIDE DEF u, B
  <2> QED
    BY <1>3, <2>1, FlattenIsJoined
<1>5. /\ j[0] = << >>
      /\ \A k \in 1 .. n : j[k] = j[k - 1] \o u[k]
      /\ \A k \in 0 .. n : j[k] \in Seq(B)
  <2> HIDE DEF u, B
  <2> QED
    BY <1>3, JoinedProperties
<1>6. IsCopied(o, s, cap, n)
  BY <1>1, CopiedExists, Zenon
<1>7. Copied(s, cap) = o[n]
  BY DEF Copied, IsCopied
<1> HIDE DEF o, u, j, n, B
<1>8. \A i \in 0 .. n : o[i] = IF i = 0 THEN << >> ELSE Appended(o[i - 1], s[i], cap)
  BY <1>6 DEF IsCopied
<1> DEFINE T == {i \in Nat : i <= n => /\ o[i] \in Seq(B) /\ Len(o[i]) < cap
                                       /\ Agree(o[i], j[i], cap - 4)}
<1>9. 0 \in T
  <2>1. o[0] = << >> /\ j[0] = << >>
    BY <1>1, <1>5, <1>8
  <2>2. << >> \in Seq(B) /\ Len(<< >>) < cap
    BY EmptySeq
  <2> QED
    BY <2>1, <2>2 DEF Agree
<1>10. ASSUME NEW i \in Nat, i \in T
       PROVE  i + 1 \in T
  <2>1. CASE i + 1 <= n
    <3> DEFINE l == i + 1
               a == o[i]
               b == j[i]
               x == Utf8(s[l])
    <3>1. l \in 0 .. n /\ l # 0 /\ l - 1 = i /\ l \in 1 .. n /\ i <= n /\ i \in 0 .. n
      BY <1>1, <2>1
    <3>2. a \in Seq(B) /\ Len(a) < cap /\ Agree(a, b, cap - 4)
      BY <1>10, <3>1
    <3> HIDE DEF T, l
    <3>3. o[l] = Appended(a, s[l], cap)
      BY <1>8, <3>1
    <3>4. j[l] = b \o x /\ b \in Seq(B)
      BY <1>3, <1>5, <3>1
    <3>5. x \in Seq(B) /\ Len(x) = Utf8Length(s[l]) /\ Utf8Length(s[l]) \in 1 .. 4
      BY <1>2, <3>1
    <3>6. o[l] = IF Len(a) + Len(x) < cap THEN a \o x ELSE a
      BY <3>3, <3>5 DEF Appended
    <3> HIDE DEF a, b, x
    <3>7. Len(a) \in Nat /\ Len(b) \in Nat /\ Len(x) \in 1 .. 4
      BY <3>2, <3>4, <3>5, LenProperties
    <3>8. /\ a \o x \in Seq(B) /\ Len(a \o x) = Len(a) + Len(x)
          /\ \A k \in 1 .. Len(a) + Len(x) : (a \o x)[k] = IF k <= Len(a) THEN a[k] ELSE x[k - Len(a)]
      BY <3>2, <3>5, ConcatProperties
    <3>9. /\ b \o x \in Seq(B) /\ Len(b \o x) = Len(b) + Len(x)
          /\ \A k \in 1 .. Len(b) + Len(x) : (b \o x)[k] = IF k <= Len(b) THEN b[k] ELSE x[k - Len(b)]
      BY <3>4, <3>5, ConcatProperties
    <3>10. o[l] \in Seq(B) /\ Len(o[l]) < cap
      BY <3>2, <3>6, <3>8
    <3>11. CASE Len(a) >= cap - 4 /\ Len(b) >= cap - 4 /\ \A k \in 1 .. cap - 4 : a[k] = b[k]
      <4> DEFINE ax == a \o x
                 bx == b \o x
                 c == cap - 4
      <4>0. c \in Int
        OBVIOUS
      <4> HIDE DEF c, ax, bx
      <4>1. Len(bx) >= c /\ Len(ax) >= c
        BY <3>7, <3>8, <3>9, <3>11, <4>0 DEF c, ax, bx
      <4>2. ASSUME NEW k \in 1 .. c
            PROVE  ax[k] = a[k] /\ bx[k] = b[k] /\ a[k] = b[k]
        <5>1. k \in 1 .. Len(a) + Len(x) /\ k <= Len(a) /\ k \in 1 .. Len(b) + Len(x) /\ k <= Len(b)
          BY <3>7, <3>11, <4>0 DEF c
        <5>2. ax[k] = a[k] /\ bx[k] = b[k]
          BY <3>8, <3>9, <5>1 DEF ax, bx
        <5> QED
          BY <3>11, <5>2 DEF c
      <4>3. o[l] = ax \/ o[l] = a
        BY <3>6 DEF ax
      <4>4. Agree(ax, bx, c)
        BY <4>1, <4>2 DEF Agree
      <4>5. Agree(a, bx, c)
        <5>1. Len(a) >= c
          BY <3>11 DEF c
        <5> QED
          BY <4>1, <4>2, <5>1 DEF Agree
      <4>6. Agree(o[l], bx, c)
        BY <4>3, <4>4, <4>5
      <4>7. Agree(o[l], j[l], cap - 4)
        BY <3>4, <4>6 DEF bx, c
      <4> QED
        BY <3>10, <4>7 DEF T, l
    <3>12. CASE a = b
      <4>1. CASE Len(a) + Len(x) < cap
        <5>1. o[l] = j[l]
          BY <3>4, <3>6, <3>12, <4>1
        <5>2. Agree(o[l], j[l], cap - 4)
          BY <5>1 DEF Agree
        <5> QED
          BY <3>10, <5>2 DEF T, l
      <4>2. CASE ~(Len(a) + Len(x) < cap)
        <5> DEFINE bx == b \o x
                   c == cap - 4
        <5>0. c \in Int /\ Len(a) >= c
          <6> DEFINE la == Len(a)
                     lx == Len(x)
          <6>1. la \in Nat /\ lx \in 1 .. 4 /\ ~(la + lx < cap)
            BY <3>7, <4>2
          <6> HIDE DEF la, lx
          <6>2. la >= cap - 4
            BY <6>1
          <6> QED
            BY <6>2 DEF la
        <5> HIDE DEF bx, c
        <5>1. Len(bx) >= c
          BY <3>7, <3>9, <3>12, <5>0 DEF bx
        <5>2. ASSUME NEW k \in 1 .. c
              PROVE  a[k] = bx[k]
          <6>1. k \in 1 .. Len(b) + Len(x) /\ k <= Len(b)
            BY <3>7, <3>12, <5>0
          <6> QED
            BY <3>9, <3>12, <6>1 DEF bx
        <5>3. Agree(a, bx, c)
          BY <5>0, <5>1, <5>2 DEF Agree
        <5>4. Agree(o[l], j[l], cap - 4)
          BY <3>4, <3>6, <4>2, <5>3 DEF bx, c
        <5> QED
          BY <3>10, <5>4 DEF T, l
      <4> QED
        BY <4>1, <4>2
    <3> QED
      BY <3>2, <3>11, <3>12 DEF Agree
  <2> QED
    BY <2>1
<1> HIDE DEF T
<1>11. Nat \subseteq T
  BY <1>9, <1>10, SetInduction
<1>12. o[n] \in Seq(B) /\ Len(o[n]) < cap /\ Agree(o[n], j[n], cap - 4)
  BY <1>1, <1>11 DEF T
<1>13. j[n] \in Seq(B)
  BY <1>1, <1>5
<1> QED
  BY <1>4, <1>7, <1>12, <1>13 DEF B

-----------------------------------------------------------------------------
(* The text the wearer gets *)

\* What RecvAnswer hands out of the text it read: the first bytes, as far as they fit.
HandedOut(bytes) == SubSeq(bytes, 1, Min({Len(bytes), ResponseCap - 1}))

\* They are bytes of a C string that fits its buffer.
LEMMA HandedOutFits ==
  ASSUME NEW bytes \in Seq(1 .. 255)
  PROVE  /\ Min({Len(bytes), ResponseCap - 1}) \in 0 .. Len(bytes)
         /\ Len(bytes) < ResponseCap => Min({Len(bytes), ResponseCap - 1}) = Len(bytes)
         /\ Len(bytes) >= ResponseCap - 1 => Min({Len(bytes), ResponseCap - 1}) = ResponseCap - 1
         /\ HandedOut(bytes) \in Seq(1 .. 255)
         /\ Len(HandedOut(bytes)) = Min({Len(bytes), ResponseCap - 1})
         /\ Len(HandedOut(bytes)) < ResponseCap
         /\ \A i \in 1 .. Len(HandedOut(bytes)) : HandedOut(bytes)[i] = bytes[i]
<1> DEFINE r == ResponseCap - 1
           l == Len(bytes)
           m == Min({l, r})
           B == 1 .. 255
<1>1. l \in Nat /\ r \in Nat /\ ResponseCap = r + 1
  BY AnswerAssumption, LenProperties
<1> HIDE DEF l, r
<1>2. l <= r => m = l
  <2> SUFFICES ASSUME l <= r PROVE m = l
    OBVIOUS
  <2> DEFINE S == {l, r}
  <2>1. S \in SUBSET Int /\ l \in S /\ \A z \in S : l <= z
    BY <1>1
  <2> HIDE DEF S
  <2>2. Min(S) = l
    BY <2>1, MinIs
  <2> QED
    BY <2>2 DEF S
<1>3. r <= l => m = r
  <2> SUFFICES ASSUME r <= l PROVE m = r
    OBVIOUS
  <2> DEFINE S == {l, r}
  <2>1. S \in SUBSET Int /\ r \in S /\ \A z \in S : r <= z
    BY <1>1
  <2> HIDE DEF S
  <2>2. Min(S) = r
    BY <2>1, MinIs
  <2> QED
    BY <2>2 DEF S
<1>4. m \in 0 .. l /\ m \in 0 .. r /\ (l < ResponseCap => m = l) /\ (l >= r => m = r)
  BY <1>1, <1>2, <1>3
<1> HIDE DEF m, B
<1>5. m \in 0 .. Len(bytes) /\ bytes \in Seq(B)
  BY <1>4 DEF l, B
<1>6. /\ SubSeq(bytes, 1, m) \in Seq(B) /\ Len(SubSeq(bytes, 1, m)) = m
      /\ \A i \in 1 .. m : SubSeq(bytes, 1, m)[i] = bytes[i]
  BY <1>5, Cut
<1>7. HandedOut(bytes) = SubSeq(bytes, 1, m)
  BY DEF HandedOut, m, l, r
<1>8. m < ResponseCap
  BY <1>1, <1>4
<1> QED
  BY <1>4, <1>6, <1>7, <1>8 DEF m, l, r, B

\* The bytes that agree far enough are handed out alike.
LEMMA HandedOutAlike ==
  ASSUME NEW a \in Seq(1 .. 255), NEW b \in Seq(1 .. 255), Agree(a, b, TextCap - 4)
  PROVE  HandedOut(a) = HandedOut(b)
<1>1. CASE a = b
  BY <1>1
<1>2. CASE /\ Len(a) >= TextCap - 4 /\ Len(b) >= TextCap - 4
           /\ \A k \in 1 .. TextCap - 4 : a[k] = b[k]
  <2> DEFINE r == ResponseCap - 1
             x == HandedOut(a)
             y == HandedOut(b)
  <2>1. r \in Nat /\ r <= TextCap - 4 /\ TextCap \in Int
    BY AnswerAssumption
  <2>2. Len(a) >= r /\ Len(b) >= r
    BY <1>2, <2>1, LenProperties
  <2> HIDE DEF x, y
  <2>3. /\ x \in Seq(1 .. 255) /\ Len(x) = r /\ \A i \in 1 .. Len(x) : x[i] = a[i]
        /\ y \in Seq(1 .. 255) /\ Len(y) = r /\ \A i \in 1 .. Len(y) : y[i] = b[i]
    BY <2>2, HandedOutFits DEF x, y
  <2> HIDE DEF r
  <2>4. \A i \in 1 .. r : x[i] = y[i]
    <3>1. \A i \in 1 .. r : i \in 1 .. TextCap - 4
      BY <2>1
    <3> QED
      BY <1>2, <2>3, <3>1
  <2>5. x = y
    BY <2>3, <2>4, SeqEqual
  <2> QED
    BY <2>5 DEF x, y
<1> QED
  BY <1>1, <1>2 DEF Agree

\* What a turn has to say is text.
LEMMA AnswersAreText ==
  ASSUME NEW s \in (Answers \cup {Sorry, NoAnswer}) \ {NoAnswer}
  PROVE  IsText(s)
<1>1. CASE s \in Answers
  BY <1>1, AnswerAssumption
<1>2. CASE s = Sorry
  <2>1. IsLetter(83)
    BY SMT DEF IsLetter, HighSurrogates, LowSurrogates
  <2>2. Sorry \in Seq(Int) /\ DOMAIN Sorry = 1 .. 1 /\ Sorry[1] = 83
    BY DEF Sorry
  <2> QED
    BY <1>2, <2>1, <2>2 DEF IsText
<1> QED
  BY <1>1, <1>2

\* The answer is one the phone gives, and while the turn goes on with it the wearer's text is
\* what it has in UTF-8, as far as that fits.
ReadInv ==
  /\ answer \in Answers \cup {Sorry, NoAnswer}
  /\ point = "play" => response = HandedOut(InUtf8(answer))
  /\ point \in Booting => response = Garbage
  /\ point \notin Booting => response \in Seq(1 .. 255) /\ Len(response) < ResponseCap
  /\ metrics.response_bytes \in 0 .. TextCap - 1

\* sd_msg_recv and the copy in sd_device_run_uplink, for a text the phone sent.
LEMMA ReceivedText ==
  ASSUME NEW s \in (Answers \cup {Sorry, NoAnswer}) \ {NoAnswer}
  PROVE  LET text == GetString(AnswerMessage(s), Text, TextCap)
         IN  /\ HandedOut(text) = HandedOut(InUtf8(s))
             /\ HandedOut(text) \in Seq(1 .. 255) /\ Len(HandedOut(text)) < ResponseCap
             /\ Len(text) \in 0 .. TextCap - 1
<1> DEFINE text == GetString(AnswerMessage(s), Text, TextCap)
<1>1. IsText(s)
  BY AnswersAreText
<1>2. text = Copied(s, TextCap)
  BY <1>1, TextIsFound
<1>3. TextCap \in Nat /\ TextCap > 3
  BY AnswerAssumption
<1>4. text \in Seq(1 .. 255) /\ Len(text) < TextCap /\ InUtf8(s) \in Seq(1 .. 255)
      /\ Agree(text, InUtf8(s), TextCap - 4)
  BY <1>1, <1>2, <1>3, CopiedAgrees
<1> HIDE DEF text
<1>5. HandedOut(text) = HandedOut(InUtf8(s))
  BY <1>4, HandedOutAlike
<1>6. HandedOut(text) \in Seq(1 .. 255) /\ Len(HandedOut(text)) < ResponseCap
  BY <1>4, HandedOutFits
<1>7. Len(text) \in 0 .. TextCap - 1
  BY <1>3, <1>4, LenProperties
<1> QED
  BY <1>5, <1>6, <1>7 DEF text

\* It is inductive: the one step that writes the text is RecvAnswer, and after it the answer
\* stays, since the phone gets no second picture.
THEOREM ReadInvariance == Spec => []ReadInv
<1>0. ResponseCap > 0 /\ TextCap > 0 /\ ResponseCap \in Nat /\ TextCap \in Nat
  BY AnswerAssumption
<1>1. Init => ReadInv
  BY <1>0 DEF Init, ReadInv, NoMetrics, Booting
<1>2. OrderInv /\ ClockInv /\ ReadInv /\ [Next]_vars => ReadInv'
  <2> SUFFICES ASSUME OrderInv, ClockInv, ReadInv, [Next]_vars PROVE ReadInv'
    OBVIOUS
  <2>1. ASSUME UNCHANGED <<answer, response>>, metrics'.response_bytes = metrics.response_bytes,
               \/ point \in Booting /\ point' \in Booting
               \/ point \notin Booting /\ point' \notin Booting /\ point' \in {point, "upload", "await", "done"}
        PROVE  ReadInv'
    BY <2>1 DEF ReadInv, Booting
  <2>m. \A t : /\ [metrics EXCEPT !.capture_ms = t].response_bytes = metrics.response_bytes
               /\ [metrics EXCEPT !.upload_ms = t].response_bytes = metrics.response_bytes
               /\ \A u : [metrics EXCEPT !.response_ms = t, !.total_ms = u].response_bytes = metrics.response_bytes
    BY DEF ClockInv
  <2>2. CASE Boot
    BY <2>1, <2>2 DEF Boot, DeviceInit, CycleFails, CycleCaptures, CycleReleases, Booting, phoneVars
  <2>3. CASE Begin
    <3>1. /\ point' = "capture" /\ response' = << >> /\ metrics' = NoMetrics /\ UNCHANGED answer
      BY <2>3 DEF Begin, phoneVars
    <3>2. << >> \in Seq(1 .. 255) /\ Len(<< >>) < ResponseCap
      BY <1>0, EmptySeq
    <3>3. metrics'.response_bytes \in 0 .. TextCap - 1
      BY <1>0, <3>1 DEF NoMetrics
    <3> QED
      BY <3>1, <3>2, <3>3 DEF ReadInv, Booting
  <2>4. CASE Capture
    <3>1. point = "capture" /\ point' = "upload" /\ UNCHANGED <<answer, response>>
          /\ metrics'.response_bytes = metrics.response_bytes
      BY <2>4, <2>m DEF Capture, phoneVars
    <3> QED
      BY <2>1, <3>1 DEF Booting
  <2>5. CASE Upload
    <3>1. point = "upload" /\ point' = "await" /\ UNCHANGED <<answer, response>>
          /\ metrics'.response_bytes = metrics.response_bytes
      BY <2>5, <2>m DEF Upload, phoneVars
    <3> QED
      BY <2>1, <3>1 DEF Booting
  <2>6. CASE EndTurn
    <3>1. point = "play" /\ point' = "done" /\ UNCHANGED <<answer, response>>
          /\ metrics'.response_bytes = metrics.response_bytes
      BY <2>6, <2>m DEF EndTurn, Returns, Finalized, phoneVars
    <3> QED
      BY <2>1, <3>1 DEF Booting
  <2>7. CASE CaptureFails \/ UploadFails \/ RecvRefused \/ RecvFails
    <3>1. point \in {"capture", "upload", "await", "play"} /\ point' = "done"
          /\ UNCHANGED <<answer, response, metrics>>
      BY <2>7 DEF CaptureFails, UploadFails, RecvRefused, RecvFails, Returns, phoneVars
    <3> QED
      BY <2>1, <3>1 DEF Booting
  <2>8. CASE RecvAnswer
    <3> DEFINE text == GetString(AnswerMessage(answer), Text, TextCap)
    <3>1. /\ point' = "play" /\ UNCHANGED answer
          /\ answer \in (Answers \cup {Sorry, NoAnswer}) \ {NoAnswer}
          /\ response' = HandedOut(text)
          /\ metrics' = [metrics EXCEPT !.response_bytes = Len(text)]
      BY <2>8 DEF RecvAnswer, Message, phoneVars, HandedOut, ReadInv
    <3>2. /\ HandedOut(text) = HandedOut(InUtf8(answer))
          /\ HandedOut(text) \in Seq(1 .. 255) /\ Len(HandedOut(text)) < ResponseCap
          /\ Len(text) \in 0 .. TextCap - 1
      BY <3>1, ReceivedText
    <3> HIDE DEF text
    <3>3. metrics'.response_bytes = Len(text)
      BY <3>1 DEF ClockInv
    <3>4. answer' \in Answers \cup {Sorry, NoAnswer}
      BY <3>1
    <3>5. response' = HandedOut(InUtf8(answer'))
      BY <3>1, <3>2
    <3>6. point' \notin Booting /\ response' \in Seq(1 .. 255) /\ Len(response') < ResponseCap
      BY <3>1, <3>2 DEF Booting
    <3> QED
      BY <3>2, <3>3, <3>4, <3>5, <3>6 DEF ReadInv
  <2>9. CASE Analyse
    <3>1. answer' \in Answers \cup {Sorry} /\ UNCHANGED <<point, response, metrics>> /\ received # NoPicture
      BY <2>9 DEF Analyse
    <3>2. point # "play"
      BY <3>1 DEF OrderInv
    <3> QED
      BY <3>1, <3>2 DEF ReadInv
  <2>10. CASE UNCHANGED vars
    BY <2>1, <2>10 DEF vars, phoneVars, ReadInv
  <2> QED
    BY <2>2, <2>3, <2>4, <2>5, <2>6, <2>7, <2>8, <2>9, <2>10 DEF Next, Finished
<1> QED
  BY <1>1, <1>2, OrderInvariance, ClockInvariance, PTL DEF Spec

\* No sequence of bytes is what was in the caller's buffer.
LEMMA NoGarbage ==
  ASSUME NEW u \in Seq(1 .. 255)
  PROVE  u # Garbage
<1> SUFFICES ASSUME u = Garbage PROVE FALSE
  OBVIOUS
<1>1. Len(u) = 1 /\ u[1] = -1 /\ 1 \in 1 .. Len(u)
  BY DEF Garbage
<1>2. u[1] \in 1 .. 255
  <2> DEFINE B == 1 .. 255
  <2> HIDE DEF B
  <2>1. u \in Seq(B)
    BY DEF B
  <2>2. u[1] \in B
    BY <1>1, <2>1, ElementOfSeq, Zenon
  <2> QED
    BY <2>2 DEF B
<1> QED
  BY <1>1, <1>2

\* The wearer reads the first bytes the phone's text has in UTF-8, and all that fit, through
\* the escapes of json.dumps and the two truncations of the firmware; what was in the
\* caller's buffer before is gone once the turn has begun.
THEOREM ReadsBack == Spec => []AnswerReadsBack
<1>1. ReadInv => AnswerReadsBack
  BY NoGarbage DEF ReadInv, AnswerReadsBack, HandedOut
<1> QED
  BY <1>1, ReadInvariance, PTL

\* What the other invariants leave open.
TypeInv ==
  /\ s_inited \in BOOLEAN
  /\ s_fb \in Pictures \cup {NoPicture}
  /\ received \in Pictures \cup {NoPicture}
  /\ code \in {"none", "OK", "IO", "TIMEOUT", "NO_MEM", "INVALID", "UNSUPPORTED"}

\* It is inductive.
THEOREM TypeInvariance == Spec => []TypeInv
<1>1. Init => TypeInv
  BY DEF Init, TypeInv
<1>2. TypeInv /\ [Next]_vars => TypeInv'
  <2> SUFFICES ASSUME TypeInv, [Next]_vars PROVE TypeInv'
    OBVIOUS
  <2> USE DEF TypeInv, cameraVars, phoneVars, Returns, FrameTaken, Released
  <2>1. CASE Boot
    BY <2>1 DEF Boot, DeviceInit, Started, CycleFails, CycleCaptures, CycleReleases
  <2>2. CASE Begin \/ Analyse \/ UNCHANGED vars
    BY <2>2 DEF Begin, Analyse, vars
  <2>3. CASE Capture
    BY <2>3 DEF Capture
  <2>4. CASE CaptureFails
    BY <2>4 DEF CaptureFails, CaptureError
  <2>5. CASE Upload
    BY <2>5 DEF Upload
  <2>6. CASE UploadFails
    BY <2>6 DEF UploadFails
  <2>7. CASE RecvAnswer
    BY <2>7 DEF RecvAnswer
  <2>8. CASE RecvRefused
    BY <2>8 DEF RecvRefused
  <2>9. CASE RecvFails
    BY <2>9 DEF RecvFails
  <2>10. CASE EndTurn
    BY <2>10 DEF EndTurn
  <2> QED
    BY <2>1, <2>2, <2>3, <2>4, <2>5, <2>6, <2>7, <2>8, <2>9, <2>10 DEF Next, Finished
<1> QED
  BY <1>1, <1>2, PTL DEF Spec

\* Every variable of a turn holds a value the code can give it: the texts are C strings that
\* fit their buffers, and the times are those of the clock.
THEOREM TypesKept == Spec => []TypeOK
<1>1. OrderInv /\ ClockInv /\ ReadInv /\ TypeInv => TypeOK
  <2> SUFFICES ASSUME OrderInv, ClockInv, ReadInv, TypeInv PROVE TypeOK
    OBVIOUS
  <2>1. point \in Booting \cup {"capture", "upload", "await", "play", "done"}
    BY DEF OrderInv
  <2>2. /\ timestamps \in [start : Times, captured : Times, uploaded : Times] /\ now \in Times
        /\ DOMAIN spent = DOMAIN Untimed /\ \A s \in DOMAIN spent : spent[s] \in Durations \cup {0}
    BY DEF ClockInv, Untimed
  <2>3. metrics \in [capture_ms : Times, upload_ms : Times, response_ms : Times,
                     total_ms : Times, response_bytes : 0 .. TextCap - 1]
    BY DEF ClockInv, ReadInv
  <2> QED
    BY <2>1, <2>2, <2>3 DEF TypeOK, ReadInv, TypeInv
<1> QED
  BY <1>1, OrderInvariance, ClockInvariance, ReadInvariance, TypeInvariance, PTL

-----------------------------------------------------------------------------
(* The keys the scanner finds *)

\* No quote is written but behind a backslash, and nothing else is written like the word type.
LEMMA EscapedQuotes ==
  ASSUME NEW c, IsLetter(c)
  PROVE  LET e == Escaped(c)
         IN  /\ e \in Seq(Int) /\ Len(e) \in Nat /\ Len(e) >= 1 /\ e[1] # Quote
             /\ \A l \in 1 .. Len(e) : e[l] = Quote => c = Quote /\ l = 2 /\ Len(e) = 2
             /\ e[1] = Type => c = Type /\ Len(e) = 1
             /\ c = Quote => Len(e) = 2 /\ e[2] = Quote
             /\ c = Type => Len(e) = 1 /\ e[1] = Type
<1> DEFINE e == Escaped(c)
<1>0. e \in Seq(Int) /\ c \in Int
  BY EscapedType
<1>forms. \/ c \notin {0, Quote, Backslash} /\ e = <<c>>
          \/ \E d \in DOMAIN ShortEscapes : ShortEscapes[d] = c /\ e = <<Backslash, d>>
          \/ c \in Nat /\ c \notin HighSurrogates /\ e = Escape16(c)
          \/ \E hi \in HighSurrogates, lo \in LowSurrogates :
               Combined(hi, lo) = c /\ e = Escape16(hi) \o Escape16(lo)
  BY EscapedForms
<1>chars. /\ Quote # Backslash /\ Quote # Type /\ Backslash # Type /\ Quote # LetterU
          /\ Quote \in Int /\ Backslash \in Int /\ LetterU \in Int /\ Type \in Int
  BY DEF Quote, Backslash, Type, LetterU
<1>q. c = Quote => e = <<Backslash, Quote>>
  <2>1. Quote \in {Quote, Backslash} /\ Quote \notin {8, 9, 10, 12, 13}
        /\ Quote \notin 32 .. 126 \ {Quote, Backslash}
    BY DEF Quote
  <2> QED
    BY <2>1 DEF Escaped
<1>t. c = Type => e = <<Type>>
  <2>1. Type \notin {Quote, Backslash} /\ Type \notin {8, 9, 10, 12, 13}
        /\ Type \in 32 .. 126 \ {Quote, Backslash}
    BY DEF Type, Quote, Backslash
  <2> QED
    BY <2>1 DEF Escaped
<1> DEFINE Claim == /\ Len(e) \in Nat /\ Len(e) >= 1 /\ e[1] # Quote
                    /\ \A l \in 1 .. Len(e) : e[l] = Quote => c = Quote /\ l = 2 /\ Len(e) = 2
                    /\ e[1] = Type => c = Type /\ Len(e) = 1
<1> HIDE DEF e
<1>1. CASE c \notin {0, Quote, Backslash} /\ e = <<c>>
  <2>1. Len(e) = 1 /\ e[1] = c
    BY <1>1
  <2> QED
    BY <1>1, <2>1, <1>q, <1>t, <1>0, <1>chars DEF e
<1>2. CASE \E d \in DOMAIN ShortEscapes : ShortEscapes[d] = c /\ e = <<Backslash, d>>
  <2>1. PICK d \in DOMAIN ShortEscapes : ShortEscapes[d] = c /\ e = <<Backslash, d>>
    BY <1>2
  <2>2. Len(e) = 2 /\ e[1] = Backslash /\ e[2] = d
    BY <2>1
  <2>3. d = Quote => c = Quote
    BY <2>1 DEF ShortEscapes, Quote, Backslash
  <2>4. Claim
    BY <2>2, <2>3, <1>chars
  <2> QED
    BY <2>4, <1>q, <1>t, <1>0, <1>chars DEF e
<1>hex. \A u \in Nat : Hex(u) \in Int /\ Hex(u) # Quote
  BY DEF Hex, Quote
<1>3. CASE c \in Nat /\ c \notin HighSurrogates /\ e = Escape16(c)
  <2>1. Len(e) = 3 /\ e[1] = Backslash /\ e[2] = LetterU /\ e[3] = Hex(c)
    BY <1>3 DEF Escape16
  <2>2. e[3] # Quote
    BY <1>3, <1>hex, <2>1
  <2>3. Claim
    BY <2>1, <2>2, <1>chars
  <2> QED
    BY <2>3, <1>q, <1>t, <1>0, <1>chars DEF e
<1>4. CASE \E hi \in HighSurrogates, lo \in LowSurrogates :
             Combined(hi, lo) = c /\ e = Escape16(hi) \o Escape16(lo)
  <2>1. PICK hi \in HighSurrogates, lo \in LowSurrogates : e = Escape16(hi) \o Escape16(lo)
    BY <1>4
  <2>2. hi \in Nat /\ lo \in Nat
    BY DEF HighSurrogates, LowSurrogates
  <2> DEFINE u == Escape16(hi)
             v == Escape16(lo)
  <2>3. /\ u \in Seq(Int) /\ Len(u) = 3 /\ u[1] = Backslash /\ u[2] = LetterU /\ u[3] # Quote
        /\ v \in Seq(Int) /\ Len(v) = 3 /\ v[1] = Backslash /\ v[2] = LetterU /\ v[3] # Quote
    BY <2>2, <1>hex, <1>chars DEF Escape16
  <2>4. e = u \o v
    BY <2>1
  <2> HIDE DEF u, v
  <2>5. /\ Len(e) = Len(u) + Len(v)
        /\ \A l \in 1 .. Len(u) + Len(v) : e[l] = IF l <= Len(u) THEN u[l] ELSE v[l - Len(u)]
    BY <2>3, <2>4, ConcatProperties
  <2>6. Len(e) = 6 /\ e[1] = Backslash
    BY <2>3, <2>5
  <2>7. ASSUME NEW l \in 1 .. Len(e)
        PROVE  e[l] # Quote
    <3>1. \A j \in 1 .. 3 : u[j] # Quote /\ v[j] # Quote
      BY <2>3, <1>chars
    <3>2. CASE l <= 3
      BY <2>3, <2>5, <2>6, <3>1, <3>2
    <3>3. CASE ~(l <= 3)
      <4>1. l - 3 \in 1 .. 3
        BY <2>6, <3>3
      <4> QED
        BY <2>3, <2>5, <2>6, <3>1, <3>3, <4>1
    <3> QED
      BY <3>2, <3>3
  <2>8. Claim
    BY <2>6, <2>7, <1>chars
  <2> QED
    BY <2>8, <1>q, <1>t, <1>0, <1>chars DEF e
<1> QED
  BY <1>1, <1>2, <1>3, <1>4, <1>forms

\* How much of the text is written before the j-th character is done.
Before(s, j) == Len(JoinedFirst(EscapedAll(s))[j])

\* Where the characters of the text are in what is written of it.
LEMMA WrittenPlaces ==
  ASSUME NEW s, IsText(s)
  PROVE  LET n == Len(s)
             w == Written(s)
         IN  /\ n \in Nat /\ Before(s, 0) = 0 /\ Before(s, n) = Len(w)
             /\ \A j \in 0 .. n : Before(s, j) \in Nat
             /\ \A j \in 1 .. n :
                  /\ IsLetter(s[j])
                  /\ Before(s, j) = Before(s, j - 1) + Len(Escaped(s[j]))
                  /\ \A l \in 1 .. Len(Escaped(s[j])) :
                       /\ Before(s, j - 1) + l \in 1 .. Len(w)
                       /\ w[Before(s, j - 1) + l] = Escaped(s[j])[l]
             /\ \A p \in 1 .. Len(w) :
                  \E j \in 1 .. n : \E l \in 1 .. Len(Escaped(s[j])) : p = Before(s, j - 1) + l
<1> DEFINE n == Len(s)
           w == Written(s)
           e == EscapedAll(s)
           f == JoinedFirst(e)
<1>1. /\ e \in Seq(Seq(Int)) /\ Len(e) = n /\ n \in Nat
      /\ \A k \in 1 .. n : IsLetter(s[k]) /\ e[k] = Escaped(s[k])
      /\ w = f[n]
  BY EscapedAllType DEF Written
<1>2. /\ Len(f[0]) = 0
      /\ \A i \in 0 .. Len(e) : Len(f[i]) \in Nat
      /\ \A i \in 1 .. Len(e) : Len(f[i]) = Len(f[i - 1]) + Len(e[i])
      /\ \A i \in 1 .. Len(e) : \A l \in 1 .. Len(e[i]) :
           Len(f[i - 1]) + l \in 1 .. Len(f[Len(e)]) /\ f[Len(e)][Len(f[i - 1]) + l] = e[i][l]
      /\ \A p \in 1 .. Len(f[Len(e)]) :
           \E i \in 1 .. Len(e) : \E l \in 1 .. Len(e[i]) : p = Len(f[i - 1]) + l
  <2> HIDE DEF e
  <2> QED
    BY <1>1, JoinedPlaces
<1>3. \A j : Before(s, j) = Len(f[j])
  BY DEF Before
<1> SUFFICES /\ n \in Nat /\ Before(s, 0) = 0 /\ Before(s, n) = Len(w)
             /\ \A j \in 0 .. n : Before(s, j) \in Nat
             /\ \A j \in 1 .. n :
                  /\ IsLetter(s[j])
                  /\ Before(s, j) = Before(s, j - 1) + Len(Escaped(s[j]))
                  /\ \A l \in 1 .. Len(Escaped(s[j])) :
                       /\ Before(s, j - 1) + l \in 1 .. Len(w)
                       /\ w[Before(s, j - 1) + l] = Escaped(s[j])[l]
             /\ \A p \in 1 .. Len(w) :
                  \E j \in 1 .. n : \E l \in 1 .. Len(Escaped(s[j])) : p = Before(s, j - 1) + l
  OBVIOUS
<1> HIDE DEF n, w, e, f
<1>4. n \in Nat /\ Before(s, 0) = 0 /\ Before(s, n) = Len(w) /\ \A j \in 0 .. n : Before(s, j) \in Nat
  BY <1>1, <1>2, <1>3
<1>5. ASSUME NEW j \in 1 .. n
      PROVE  /\ IsLetter(s[j])
             /\ Before(s, j) = Before(s, j - 1) + Len(Escaped(s[j]))
             /\ \A l \in 1 .. Len(Escaped(s[j])) :
                  /\ Before(s, j - 1) + l \in 1 .. Len(w)
                  /\ w[Before(s, j - 1) + l] = Escaped(s[j])[l]
  <2>1. e[j] = Escaped(s[j]) /\ IsLetter(s[j]) /\ j \in 1 .. Len(e)
    BY <1>1
  <2>2. /\ Len(f[j]) = Len(f[j - 1]) + Len(e[j])
        /\ \A l \in 1 .. Len(e[j]) :
             Len(f[j - 1]) + l \in 1 .. Len(w) /\ w[Len(f[j - 1]) + l] = e[j][l]
    BY <1>1, <1>2, <2>1
  <2> QED
    BY <1>3, <2>1, <2>2, Zenon
<1>6. \A p \in 1 .. Len(w) :
        \E j \in 1 .. n : \E l \in 1 .. Len(Escaped(s[j])) : p = Before(s, j - 1) + l
  <2>1. \A p \in 1 .. Len(w) : \E j \in 1 .. n : \E l \in 1 .. Len(e[j]) : p = Len(f[j - 1]) + l
    BY <1>1, <1>2
  <2> SUFFICES ASSUME NEW p \in 1 .. Len(w)
               PROVE  \E j \in 1 .. n : \E l \in 1 .. Len(Escaped(s[j])) : p = Before(s, j - 1) + l
    OBVIOUS
  <2>2. PICK j \in 1 .. n : \E l \in 1 .. Len(e[j]) : p = Len(f[j - 1]) + l
    BY <2>1
  <2>3. e[j] = Escaped(s[j]) /\ Len(f[j - 1]) = Before(s, j - 1)
    BY <1>1, <1>3
  <2>4. \E l \in 1 .. Len(Escaped(s[j])) : p = Before(s, j - 1) + l
    BY <2>2, <2>3, Zenon
  <2> QED
    BY <2>4
<1> QED
  BY <1>4, <1>5, <1>6, Zenon

\* What makes the scanner stumble.
EndsInType(s) ==
  \/ s = <<Type>>
  \/ Len(s) > 1 /\ SubSeq(s, Len(s) - 1, Len(s)) = <<Quote, Type>>

\* It is about the last two characters.
LEMMA EndsInTypeDef ==
  ASSUME NEW s \in Seq(Int), Len(s) > 0
  PROVE  EndsInType(s) <=>
           /\ s[Len(s)] = Type
           /\ Len(s) > 1 => s[Len(s) - 1] = Quote
<1> DEFINE n == Len(s)
<1>1. n \in Nat /\ n > 0 /\ \A i \in 1 .. n : s[i] \in Int
  BY LenProperties, ElementOfSeq
<1>2. Quote \in Int /\ Type \in Int
  BY DEF Quote, Type
<1> SUFFICES EndsInType(s) <=> s[n] = Type /\ (n > 1 => s[n - 1] = Quote)
  OBVIOUS
<1>3. CASE n = 1
  <2>1. s = <<Type>> <=> s[1] = Type
    <3>1. ASSUME s[1] = Type
          PROVE  s = <<Type>>
      <4> DEFINE v == <<Type>>
      <4>1. v \in Seq(Int) /\ Len(v) = 1 /\ v[1] = Type
        BY <1>2
      <4> HIDE DEF v
      <4>2. \A i \in 1 .. 1 : s[i] = v[i]
        BY <3>1, <4>1
      <4>3. s = v
        BY <1>3, <4>1, <4>2, SeqEqual
      <4> QED
        BY <4>3 DEF v
    <3>2. <<Type>>[1] = Type
      OBVIOUS
    <3> QED
      BY <3>1, <3>2
  <2>2. ~(n > 1) /\ s[n] = s[1]
    BY <1>3
  <2> QED
    BY <2>1, <2>2, Zenon DEF EndsInType, n
<1>4. CASE n > 1
  <2> DEFINE m == n - 1
             u == SubSeq(s, m, n)
             v == <<Quote, Type>>
  <2>1. m \in 1 .. n /\ n \in 1 .. n /\ m \in Int /\ m <= n /\ n - m + 1 = 2 /\ m + 1 - 1 = m /\ m + 2 - 1 = n
    BY <1>1, <1>4
  <2>2. \A i \in m .. n : s[i] \in Int
    <3>1. \A i \in m .. n : i \in 1 .. n
      BY <1>1, <2>1
    <3> QED
      BY <1>1, <3>1
  <2> HIDE DEF m, n
  <2>3. n \in Int
    BY <1>1
  <2>4. /\ u \in Seq(Int) /\ Len(u) = (IF m <= n THEN n - m + 1 ELSE 0)
        /\ \A i \in 1 .. n - m + 1 : u[i] = s[m + i - 1]
    BY <2>1, <2>2, <2>3, SubSeqProperties
  <2> HIDE DEF u
  <2>5. Len(u) = 2 /\ \A i \in 1 .. 2 : u[i] = s[m + i - 1]
    BY <2>1, <2>4
  <2>6. u[1] = s[m] /\ u[2] = s[n]
    BY <2>1, <2>5
  <2>7. v \in Seq(Int) /\ Len(v) = 2 /\ v[1] = Quote /\ v[2] = Type
    BY <1>2
  <2> HIDE DEF v
  <2>8. u = v <=> u[1] = v[1] /\ u[2] = v[2]
    <3>1. ASSUME u[1] = v[1], u[2] = v[2]
          PROVE  u = v
      <4>1. \A i \in 1 .. 2 : u[i] = v[i]
        BY <3>1
      <4> QED
        BY <2>4, <2>5, <2>7, <4>1, SeqEqual
    <3> QED
      BY <3>1
  <2>9. s # <<Type>>
    <3>1. Len(<<Type>>) = 1 /\ n # 1
      BY <1>4
    <3> QED
      BY <3>1 DEF n
  <2>10. EndsInType(s) <=> u = v
    BY <1>4, <2>9 DEF EndsInType, u, v, m, n
  <2> QED
    BY <1>4, <2>6, <2>7, <2>8, <2>10, Zenon DEF m
<1> QED
  <2> HIDE DEF n
  <2> QED
    BY <1>1, <1>3, <1>4

\* Where the word type appears in its quotes: as the key, and where a text that ends in it does.
LEMMA TypeMatches ==
  ASSUME NEW s, IsText(s), s # << >>
  PROVE  LET k == Len(Written(s))
             M == Matches(AnswerMessage(s), Type)
         IN  /\ k + 8 \in M
             /\ EndsInType(s) => k + 4 \in M
             /\ \A i \in M : i = k + 8 \/ (i = k + 4 /\ EndsInType(s))
<1> DEFINE m == AnswerMessage(s)
           w == Written(s)
           k == Len(w)
           n == Len(s)
           M == Matches(m, Type)
<1>1. /\ m \in Seq(Int) /\ k \in Nat /\ Len(m) = k + 14 /\ w \in Seq(Int)
      /\ m[1] = Quote /\ m[2] = Text /\ m[3] = Quote /\ m[4] = Colon /\ m[5] = Quote
      /\ HasAt(m, 6, w)
      /\ m[k + 6] = Quote /\ m[k + 7] = Comma
      /\ m[k + 8] = Quote /\ m[k + 9] = Type /\ m[k + 10] = Quote /\ m[k + 11] = Colon
      /\ m[k + 12] = Quote /\ HasAt(m, k + 13, Written(<<AiResponse>>))
  BY MessageChars
<1>2. m[k + 13] = AiResponse
  <2>1. Written(<<AiResponse>>) = <<AiResponse>> /\ AiResponse \in Int
    BY WordQuoted DEF AiResponse
  <2>2. k + 13 \in Nat
    BY <1>1
  <2>3. HasAt(m, k + 13, <<AiResponse>>)
    BY <1>1, <2>1, Zenon
  <2> HIDE DEF m, k
  <2> QED
    BY <1>1, <2>1, <2>2, <2>3, HasOne
<1>3. /\ n \in Nat /\ Before(s, 0) = 0 /\ Before(s, n) = k
      /\ \A j \in 0 .. n : Before(s, j) \in Nat
      /\ \A j \in 1 .. n :
           /\ IsLetter(s[j])
           /\ Before(s, j) = Before(s, j - 1) + Len(Escaped(s[j]))
           /\ \A l \in 1 .. Len(Escaped(s[j])) :
                /\ Before(s, j - 1) + l \in 1 .. k
                /\ w[Before(s, j - 1) + l] = Escaped(s[j])[l]
      /\ \A p \in 1 .. k :
           \E j \in 1 .. n : \E l \in 1 .. Len(Escaped(s[j])) : p = Before(s, j - 1) + l
  BY WrittenPlaces
<1>4. s \in Seq(Int) /\ n > 0
  BY <1>3, EmptySeq DEF IsText
<1>5. EndsInType(s) <=> s[n] = Type /\ (n > 1 => s[n - 1] = Quote)
  BY <1>4, EndsInTypeDef
<1>6. \A i \in Int : i \in M <=>
        /\ i \in 1 .. Len(m) - 2
        /\ m[i] = Quote /\ m[i + 1] = Type /\ m[i + 2] = Quote
  <2>1. Type \in Int
    BY DEF Type
  <2> HIDE DEF m
  <2> QED
    BY <1>1, <2>1, KeyMatches
<1>7. \A p \in 1 .. k : m[p + 5] = w[p]
  <2>1. \A p \in 1 .. k : 6 + p - 1 = p + 5
    BY <1>1
  <2>2. \A p \in 1 .. k : m[6 + p - 1] = w[p]
    BY <1>1 DEF HasAt
  <2> QED
    BY <2>1, <2>2
<1>8. /\ Quote # Text /\ Quote # Colon /\ Quote # Comma /\ Quote # Type
      /\ Type # Text /\ Type # Colon /\ Type # Comma /\ Type # AiResponse
  BY DEF Quote, Text, Colon, Comma, Type, AiResponse
<1> SUFFICES /\ k + 8 \in M
             /\ EndsInType(s) => k + 4 \in M
             /\ \A i \in M : i = k + 8 \/ (i = k + 4 /\ EndsInType(s))
  OBVIOUS
<1> HIDE DEF m, w, k, n, M
\* The beginning of each character.
<1>9. ASSUME NEW j \in 1 .. n
      PROVE  /\ Before(s, j - 1) \in Nat /\ Before(s, j - 1) + 1 \in 1 .. k
             /\ w[Before(s, j - 1) + 1] # Quote
             /\ w[Before(s, j - 1) + 1] = Type => s[j] = Type /\ Before(s, j) = Before(s, j - 1) + 1
             /\ s[j] = Type => w[Before(s, j - 1) + 1] = Type /\ Before(s, j) = Before(s, j - 1) + 1
             /\ s[j] = Quote => w[Before(s, j)] = Quote /\ Before(s, j) \in 1 .. k
  <2> DEFINE b == Before(s, j - 1)
             e == Escaped(s[j])
  <2>1. /\ IsLetter(s[j]) /\ Before(s, j) = b + Len(e) /\ b \in Nat
        /\ \A l \in 1 .. Len(e) : b + l \in 1 .. k /\ w[b + l] = e[l]
    <3>1. j - 1 \in 0 .. n
      BY <1>3
    <3> QED
      BY <1>3, <3>1
  <2>2. /\ e \in Seq(Int) /\ Len(e) \in Nat /\ Len(e) >= 1 /\ e[1] # Quote
        /\ e[1] = Type => s[j] = Type /\ Len(e) = 1
        /\ s[j] = Quote => Len(e) = 2 /\ e[2] = Quote
        /\ s[j] = Type => Len(e) = 1 /\ e[1] = Type
    BY <2>1, EscapedQuotes
  <2> HIDE DEF e, b
  <2>3. 1 \in 1 .. Len(e)
    BY <2>2
  <2>4. b + 1 \in 1 .. k /\ w[b + 1] = e[1]
    BY <2>1, <2>3
  <2>5. s[j] = Quote => w[b + 2] = Quote /\ b + 2 \in 1 .. k /\ Before(s, j) = b + 2
    <3>1. Len(e) = 2 => 2 \in 1 .. Len(e)
      OBVIOUS
    <3> QED
      BY <2>1, <2>2, <3>1
  <2> QED
    BY <2>1, <2>2, <2>4, <2>5 DEF b
\* The quotes in the text.
<1>10. ASSUME NEW p \in 1 .. k, w[p] = Quote
       PROVE  \E j \in 1 .. n : s[j] = Quote /\ p = Before(s, j)
  <2>1. PICK j \in 1 .. n : \E l \in 1 .. Len(Escaped(s[j])) : p = Before(s, j - 1) + l
    BY <1>3
  <2>2. PICK l \in 1 .. Len(Escaped(s[j])) : p = Before(s, j - 1) + l
    BY <2>1
  <2>3. IsLetter(s[j]) /\ Before(s, j) = Before(s, j - 1) + Len(Escaped(s[j])) /\ w[p] = Escaped(s[j])[l]
    BY <1>3, <2>2
  <2>4. s[j] = Quote /\ l = 2 /\ Len(Escaped(s[j])) = 2
    BY <1>10, <2>3, EscapedQuotes
  <2> QED
    BY <2>2, <2>3, <2>4
\* Behind a character comes the next, or the end.
<1>11. \A j \in 0 .. n : IF j = n THEN Before(s, j) = k ELSE j + 1 \in 1 .. n /\ (j + 1) - 1 = j
  BY <1>3
<1>12. k + 8 \in M
  <2>1. k + 8 \in Int /\ k + 8 \in 1 .. Len(m) - 2 /\ k + 8 + 1 = k + 9 /\ k + 8 + 2 = k + 10
    BY <1>1
  <2> QED
    BY <1>1, <1>6, <2>1
<1>13. ASSUME EndsInType(s)
       PROVE  k + 4 \in M
  <2>1. n \in 1 .. n /\ s[n] = Type
    BY <1>3, <1>4, <1>5, <1>13
  <2> DEFINE b == Before(s, n - 1)
  <2>2. b \in Nat /\ k = b + 1 /\ w[b + 1] = Type /\ b + 1 \in 1 .. k
    BY <1>3, <1>9, <2>1
  <2>3. m[b + 5] = Quote
    <3>1. CASE n = 1
      <4>1. b = 0
        <5>1. n - 1 = 0
          BY <3>1
        <5> QED
          BY <1>3, <5>1
      <4> HIDE DEF b
      <4>2. b + 5 = 5
        BY <4>1
      <4> QED
        BY <1>1, <4>2
    <3>2. CASE n > 1
      <4>1. n - 1 \in 1 .. n /\ s[n - 1] = Quote
        BY <1>3, <1>5, <1>13, <3>2
      <4>2. w[b] = Quote /\ b \in 1 .. k
        BY <1>9, <4>1
      <4> QED
        BY <1>7, <4>2
    <3> QED
      BY <1>3, <1>4, <3>1, <3>2
  <2> HIDE DEF b
  <2>4. m[b + 6] = Type
    <3>1. m[(b + 1) + 5] = Type /\ (b + 1) + 5 = b + 6
      BY <1>7, <2>2
    <3> QED
      BY <3>1
  <2>5. b + 5 = k + 4 /\ b + 6 = k + 4 + 1 /\ k + 4 + 2 = k + 6 /\ k + 4 \in Int /\ k + 4 \in 1 .. Len(m) - 2
    BY <1>1, <2>2
  <2> QED
    BY <1>1, <1>6, <2>3, <2>4, <2>5
<1>14. ASSUME NEW i \in M
       PROVE  i = k + 8 \/ (i = k + 4 /\ EndsInType(s))
  <2>0. i \in Int
    BY DEF M, Matches
  <2>1. i \in 1 .. Len(m) - 2 /\ m[i] = Quote /\ m[i + 1] = Type /\ m[i + 2] = Quote
    BY <1>6, <2>0
  \* Behind a character that ends at p the word type is the whole rest.
  <2>2. ASSUME NEW j \in 0 .. n, i = Before(s, j) + 5, j > 0 => s[j] = Quote
        PROVE  i = k + 4 /\ EndsInType(s)
    <3> DEFINE p == Before(s, j)
    <3>0. p \in Nat
      BY <1>3
    <3>1. CASE j = n
      <4>1. i + 1 = k + 6
        BY <1>1, <1>11, <2>2, <3>1
      <4> QED
        BY <1>1, <1>8, <2>1, <4>1
    <3>2. CASE j # n
      <4> DEFINE l == j + 1
      <4>1. l \in 1 .. n /\ l - 1 = j
        BY <1>11, <3>2
      <4> HIDE DEF l, p
      <4>2. /\ p + 1 \in 1 .. k
            /\ w[p + 1] = Type => s[l] = Type /\ Before(s, l) = p + 1
        BY <1>9, <4>1 DEF p
      <4>3. i + 1 = (p + 1) + 5
        BY <2>2, <3>0 DEF p
      <4>4. s[l] = Type /\ Before(s, l) = p + 1
        BY <1>7, <2>1, <4>2, <4>3
      <4>5. l = n
        <5> SUFFICES ASSUME l # n PROVE FALSE
          OBVIOUS
        <5> DEFINE o == l + 1
        <5>1. o \in 1 .. n /\ o - 1 = l
          <6>1. l \in 0 .. n
            BY <4>1
          <6> QED
            BY <1>11, <6>1
        <5> HIDE DEF o
        <5>2. w[(p + 1) + 1] # Quote /\ (p + 1) + 1 \in 1 .. k
          BY <1>9, <4>4, <5>1
        <5>3. i + 2 = ((p + 1) + 1) + 5
          BY <3>0, <4>3, <2>0
        <5> QED
          BY <1>7, <2>1, <5>2, <5>3
      <4>6. k = p + 1 /\ s[n] = Type
        BY <1>3, <4>4, <4>5
      <4>7. i = k + 4
        BY <2>2, <3>0, <4>6 DEF p
      <4>8. n > 1 => s[n - 1] = Quote
        BY <1>3, <2>2, <4>1, <4>5
      <4> QED
        BY <1>5, <4>6, <4>7, <4>8
    <3> QED
      BY <3>1, <3>2
  <2>3. CASE i < 5
    <3>1. i \in {1, 2, 3, 4}
      BY <2>0, <2>1, <2>3
    <3>2. 1 + 1 = 2 /\ 3 + 1 = 4
      OBVIOUS
    <3> QED
      BY <1>1, <1>8, <2>1, <3>1, <3>2
  <2>4. CASE i = 5
    <3>1. 0 \in 0 .. n /\ i = Before(s, 0) + 5 /\ ~(0 > 0)
      BY <1>3, <2>4
    <3> QED
      BY <2>2, <3>1
  <2>5. CASE i \in 6 .. k + 5
    <3> DEFINE p == i - 5
    <3>1. p \in 1 .. k /\ i = p + 5
      BY <1>1, <2>5
    <3> HIDE DEF p
    <3>2. w[p] = Quote
      BY <1>7, <2>1, <3>1
    <3>3. PICK j \in 1 .. n : s[j] = Quote /\ p = Before(s, j)
      BY <1>10, <3>1, <3>2
    <3>4. j \in 0 .. n
      BY <1>3
    <3> QED
      BY <2>2, <3>1, <3>3, <3>4
  <2>6. CASE i > k + 5
    <3>1. i \in {k + 6, k + 7, k + 8, k + 9, k + 10, k + 11, k + 12}
      BY <1>1, <2>0, <2>1, <2>6
    <3>2. k + 6 + 1 = k + 7 /\ k + 10 + 1 = k + 11 /\ k + 12 + 1 = k + 13
      BY <1>1
    <3>3. m[k + 6 + 1] # Type /\ m[k + 7] # Quote /\ m[k + 9] # Quote /\ m[k + 10 + 1] # Type
          /\ m[k + 11] # Quote /\ m[k + 12 + 1] # Type
      BY <1>1, <1>2, <1>8, <3>2
    <3>4. i = k + 8
      BY <2>1, <3>1, <3>3, Zenon
    <3> QED
      BY <3>4
  <2> QED
    BY <1>1, <2>0, <2>3, <2>4, <2>5, <2>6
<1> QED
  BY <1>12, <1>13, <1>14

\* The message is taken for an answer, unless its text ends in the word type.
LEMMA KeyIsRead ==
  ASSUME NEW s, IsText(s), s # << >>
  PROVE  HasString(AnswerMessage(s), Type) <=> ~EndsInType(s)
<1> DEFINE m == AnswerMessage(s)
           k == Len(Written(s))
           M == Matches(m, Type)
           a == <<AiResponse>>
<1>1. /\ m \in Seq(Int) /\ k \in Nat /\ Len(m) = k + 14
      /\ m[k + 7] = Comma /\ m[k + 11] = Colon /\ m[k + 12] = Quote
      /\ HasAt(m, k + 13, Written(a)) /\ m[k + 14] = Quote
  BY MessageChars
<1>2. /\ k + 8 \in M
      /\ EndsInType(s) => k + 4 \in M
      /\ \A i \in M : i = k + 8 \/ (i = k + 4 /\ EndsInType(s))
  BY TypeMatches
<1>3. IsText(a) /\ Written(a) = a /\ Len(a) = 1 /\ a[1] = AiResponse
  BY WordQuoted
<1> SUFFICES HasString(m, Type) <=> ~EndsInType(s)
  OBVIOUS
<1> HIDE DEF m, k, a
<1>4. M \in SUBSET Int
  <2>1. \A i \in 1 .. Len(m) - 2 : i \in Int
    OBVIOUS
  <2> QED
    BY <2>1 DEF Matches
<1>5. AfterKey(m, Type) = PastBlanks(m, Min(M) + 3)
  BY DEF AfterKey
<1>6. M # {}
  BY <1>2
<1>7. HasKey(m, Type) <=> CharAt(m, AfterKey(m, Type)) = Colon
  BY <1>6 DEF HasKey
<1> HIDE DEF M
<1>8. DOMAIN m = 1 .. Len(m)
  BY <1>1, LenProperties
<1>9. CASE EndsInType(s)
  <2>1. k + 4 \in M /\ \A i \in M : k + 4 <= i
    BY <1>1, <1>2, <1>9
  <2>2. Min(M) = k + 4
    BY <1>4, <2>1, MinIs
  <2>3. k + 4 + 3 = k + 7 /\ k + 7 \in 1 .. Len(m) /\ m[k + 7] \notin {9, 32}
    BY <1>1 DEF Comma
  <2>4. PastBlanks(m, k + 7) = k + 7
    BY <1>1, <2>3, NoBlanks
  <2>5. AfterKey(m, Type) = k + 7
    BY <1>5, <2>2, <2>3, <2>4, Zenon
  <2>6. CharAt(m, k + 7) = Comma
    BY <1>1, <1>8, <2>3 DEF CharAt
  <2>7. ~HasKey(m, Type)
    BY <1>7, <2>5, <2>6 DEF Comma, Colon
  <2> QED
    BY <1>9, <2>7 DEF HasString
<1>10. CASE ~EndsInType(s)
  <2>1. k + 8 \in M /\ \A i \in M : k + 8 <= i
    BY <1>1, <1>2, <1>10
  <2>2. Min(M) = k + 8
    BY <1>4, <2>1, MinIs
  <2>3. k + 8 + 3 = k + 11 /\ k + 11 \in 1 .. Len(m) /\ m[k + 11] \notin {9, 32}
    BY <1>1 DEF Colon
  <2>4. PastBlanks(m, k + 11) = k + 11
    BY <1>1, <2>3, NoBlanks
  <2>5. AfterKey(m, Type) = k + 11
    BY <1>5, <2>2, <2>3, <2>4, Zenon
  <2>6. CharAt(m, k + 11) = Colon
    BY <1>1, <1>8, <2>3 DEF CharAt
  <2>7. HasKey(m, Type)
    BY <1>7, <2>5, <2>6
  <2>8. k + 11 + 1 = k + 12 /\ k + 12 \in 1 .. Len(m) /\ m[k + 12] \notin {9, 32}
    BY <1>1 DEF Quote
  <2>9. PastBlanks(m, k + 12) = k + 12
    BY <1>1, <2>8, NoBlanks
  <2>10. ValueAt(m, Type) = k + 12
    BY <2>5, <2>8, <2>9, Zenon DEF ValueAt
  <2>11. CharAt(m, k + 12) = Quote
    BY <1>1, <1>8, <2>8 DEF CharAt
  <2>12. Reader(m)[k + 13] = a
    <3> DEFINE i == k + 13
    <3>1. i \in Nat /\ i + 1 = k + 14 /\ k + 14 \in 1 .. Len(m)
      BY <1>1
    <3>2. CharAt(m, i + 1) = Quote
      BY <1>1, <1>8, <3>1 DEF CharAt
    <3>3. HasAt(m, i, FlattenSeq(EscapedAll(a))) /\ Len(FlattenSeq(EscapedAll(a))) = 1
      BY <1>1, <1>3, Zenon DEF Written
    <3> HIDE DEF i
    <3>4. CharAt(m, i + Len(FlattenSeq(EscapedAll(a)))) = Quote
      BY <3>2, <3>3, Zenon
    <3>5. Reader(m)[i] = a
      BY <1>1, <1>3, <3>1, <3>3, <3>4, StringIsRead
    <3> QED
      BY <3>5 DEF i
  <2>13. Characters(m, ValueAt(m, Type) + 1) = a
    <3>1. k + 12 + 1 = k + 13
      BY <1>1
    <3> QED
      BY <2>10, <2>12, <3>1, CharactersDef, Zenon
  <2>14. ~Contains(a, Malformed)
    <3>1. AiResponse # Malformed
      BY SMT DEF AiResponse, Malformed
    <3>2. \A i \in 1 .. 1 : a[i] = AiResponse
      BY <1>3
    <3> QED
      BY <1>3, <3>1, <3>2, Zenon DEF Contains
  <2> QED
    BY <1>10, <2>7, <2>10, <2>11, <2>13, <2>14, Zenon DEF HasString
<1> QED
  BY <1>9, <1>10

\* sd_msg_recv takes every answer for one, except the kind that puts the word type in quotes
\* before the key: strstr finds that first, and no colon behind it.
THEOREM TypeUnreadable == Spec => []OnlyTypeIsUnreadable
<1>1. ReadInv => OnlyTypeIsUnreadable
  <2> SUFFICES ASSUME ReadInv, answer # NoAnswer
               PROVE  HasString(Message, Type) <=> ~EndsInType(answer)
    BY Zenon DEF OnlyTypeIsUnreadable, EndsInType
  <2>1. answer \in (Answers \cup {Sorry, NoAnswer}) \ {NoAnswer}
    BY DEF ReadInv
  <2>2. IsText(answer) /\ answer # << >>
    BY <2>1, AnswersAreText DEF NoAnswer
  <2>3. HasString(AnswerMessage(answer), Type) <=> ~EndsInType(answer)
    BY <2>2, KeyIsRead
  <2> QED
    BY <2>3, Zenon DEF Message
<1> QED
  BY <1>1, ReadInvariance, PTL

-----------------------------------------------------------------------------
(* The check of a picture *)

\* The recursion of JpegDimensions.
IsScan(s, f) == f = [i \in Nat |-> DimensionsAt(s, f, i)]

\* What is found from each place on.
Scan(s) == CHOOSE f : IsScan(s, f)

\* It has a solution: the search goes forward only, and ends with the file.
LEMMA ScanExists ==
  ASSUME NEW s \in Seq(0 .. 255)
  PROVE  IsScan(s, Scan(s))
<1> DEFINE last == Len(s)
           Solves(f, n) == /\ f = [i \in Nat |-> f[i]]
                           /\ \A i \in Nat : i + n >= last => f[i] = DimensionsAt(s, f, i)
           S == {n \in Nat : n <= last => \E f : Solves(f, n)}
<1>0. last \in Nat /\ \A i \in 1 .. last : s[i] \in Nat
  <2>1. Len(s) \in Nat /\ \A i \in 1 .. Len(s) : s[i] \in 0 .. 255
    BY LenProperties, ElementOfSeq
  <2>2. \A b \in 0 .. 255 : b \in Nat
    OBVIOUS
  <2> QED
    BY <2>1, <2>2, Zenon
<1> HIDE DEF last
<1>1. 0 \in S
  <2> DEFINE f == [i \in Nat |-> Invalid]
  <2>1. ASSUME NEW i \in Nat, i + 0 >= last
        PROVE  f[i] = DimensionsAt(s, f, i)
    <3>1. i + 1 > Len(s) /\ f[i] = Invalid
      BY <1>0, <2>1 DEF last
    <3> HIDE DEF f
    <3> QED
      BY <3>1 DEF DimensionsAt
  <2>2. Solves(f, 0)
    BY <2>1
  <2> QED
    BY <2>2
<1>2. ASSUME NEW n \in Nat, n \in S
      PROVE  n + 1 \in S
  <2>1. CASE n + 1 <= last
    <3>1. PICK f : Solves(f, n)
      BY <1>0, <1>2, <2>1
    <3>2. PICK m \in Nat : m + (n + 1) = last
      <4>1. last - (n + 1) \in Nat /\ (last - (n + 1)) + (n + 1) = last
        BY <1>0, <2>1
      <4> QED
        BY <4>1
    <3> DEFINE g == [i \in Nat |-> IF i = m THEN DimensionsAt(s, f, m) ELSE f[i]]
    <3>3. ASSUME NEW i \in Nat, i >= m
          PROVE  DimensionsAt(s, g, i) = DimensionsAt(s, f, i)
      <4>1. i + 1 \in Nat /\ i + 1 # m /\ i + 2 \in Nat /\ i + 2 # m
        BY <3>3
      <4>2. g[i + 1] = f[i + 1] /\ g[i + 2] = f[i + 2]
        BY <4>1
      <4>3. ASSUME ~(i + 1 > Len(s)), s[i] = Marker, ~(i + 3 > Len(s)), ~(Word16(s, i + 2) < 2)
            PROVE  g[NextAfter(s, i)] = f[NextAfter(s, i)]
        <5>1. s[i + 2] \in Nat /\ s[i + 2 + 1] \in Nat
          BY <1>0, <4>3 DEF last
        <5> DEFINE w == Word16(s, i + 2)
        <5>2. w \in Nat
          BY <5>1 DEF Word16
        <5> HIDE DEF w
        <5>3. i + 2 + w \in Nat /\ i + 2 + w # m
          BY <3>3, <5>2
        <5> QED
          BY <5>3 DEF NextAfter, w
      <4> HIDE DEF g
      <4> QED
        BY <4>2, <4>3 DEF DimensionsAt
    <3>4. ASSUME NEW i \in Nat, i + (n + 1) >= last
          PROVE  g[i] = DimensionsAt(s, g, i)
      <4>1. i >= m
        BY <3>2, <3>4
      <4>2. CASE i = m
        BY <3>3, <4>1, <4>2
      <4>3. CASE i # m
        <5>1. i + n >= last
          BY <3>2, <4>1, <4>3
        <5>2. f[i] = DimensionsAt(s, f, i)
          BY <3>1, <5>1
        <5> QED
          BY <3>3, <4>1, <4>3, <5>2
      <4> QED
        BY <4>2, <4>3
    <3>5. g = [i \in Nat |-> g[i]]
      OBVIOUS
    <3> HIDE DEF g
    <3>6. Solves(g, n + 1)
      BY <3>4, <3>5
    <3>7. n + 1 \in Nat /\ \E h : Solves(h, n + 1)
      BY <3>6
    <3> HIDE DEF Solves
    <3> QED
      BY <3>7, Zenon
  <2> QED
    BY <1>0, <2>1
<1> HIDE DEF S
<1>3. Nat \subseteq S
  BY <1>1, <1>2, SetInduction
<1>5. PICK f : Solves(f, last)
  <2> HIDE DEF Solves
  <2>1. last \in S /\ last <= last
    BY <1>0, <1>3
  <2> QED
    BY <2>1 DEF S
<1>6. IsScan(s, f)
  <2>1. \A i \in Nat : f[i] = DimensionsAt(s, f, i)
    BY <1>0, <1>5
  <2>2. f = [i \in Nat |-> f[i]]
    BY <1>5
  <2>3. [i \in Nat |-> f[i]] = [i \in Nat |-> DimensionsAt(s, f, i)]
    BY <2>1
  <2> QED
    BY <2>2, <2>3, Zenon DEF IsScan
<1> QED
  BY <1>6, Zenon DEF Scan

\* What the definition of JpegDimensions says.
LEMMA JpegDimensionsDef ==
  ASSUME NEW s
  PROVE  JpegDimensions(s) =
           IF Len(s) < 2 \/ SubSeq(s, 1, 2) # <<Marker, Soi>> THEN Invalid ELSE Scan(s)[3]
BY DEF JpegDimensions, Scan, IsScan

\* The length of a segment, in two bytes.
LEMMA Bytes16Value ==
  ASSUME NEW n \in Nat, n < 65536
  PROVE  /\ Bytes16(n) \in Seq(0 .. 255) /\ Len(Bytes16(n)) = 2
         /\ Bytes16(n)[1] * 256 + Bytes16(n)[2] = n
<1> DEFINE q == n \div 256
           r == n % 256
<1>1. q \in Int /\ r \in 0 .. 255 /\ n = 256 * q + r
  BY Remainder
<1> HIDE DEF q, r
<1>2. q \in 0 .. 255 /\ q * 256 + r = n
  BY <1>1, SMT
<1> HIDE DEF q, r
<1> DEFINE u == <<q, r>>
           t == Bytes16(n)
<1>3. u \in Seq(0 .. 255) /\ Len(u) = 2 /\ u[1] = q /\ u[2] = r
  BY <1>1, <1>2
<1>4. t = u
  BY DEF Bytes16, q, r
<1> HIDE DEF t, u
<1>5. t \in Seq(0 .. 255) /\ Len(t) = 2 /\ t[1] = q /\ t[2] = r
  BY <1>3, <1>4
<1>6. t[1] * 256 + t[2] = n
  BY <1>2, <1>5
<1> QED
  BY <1>5, <1>6 DEF t

\* What stands in a segment.
LEMMA SegmentLayout ==
  ASSUME NEW s \in Segment
  PROVE  LET b == SegmentBytes(s)
             n == Len(s.payload)
         IN  /\ n \in Nat /\ b \in Seq(0 .. 255) /\ Len(b) = n + 4
             /\ b[1] = Marker /\ b[2] = s.marker /\ b[3] * 256 + b[4] = n + 2
             /\ \A k \in 1 .. n : b[k + 4] = s.payload[k]
<1> DEFINE n == Len(s.payload)
           B == 0 .. 255
           a == <<Marker, s.marker>>
           l == Bytes16(n + 2)
           p == s.payload
           c == a \o l
           b == c \o p
<1>1. s.marker \in 2 .. 254 /\ p \in Seq(0 .. 255) /\ n + 2 < 65536
  BY DEF Segment
<1>2. n \in Nat /\ Len(p) = n
  BY <1>1, LenProperties
<1>3. a \in Seq(B) /\ Len(a) = 2 /\ a[1] = Marker /\ a[2] = s.marker
  BY <1>1, SMT DEF Marker
<1>4. l \in Seq(B) /\ Len(l) = 2 /\ l[1] * 256 + l[2] = n + 2
  BY <1>1, <1>2, Bytes16Value
<1>5. p \in Seq(B)
  BY <1>1
<1> HIDE DEF a, l, B
<1>6. /\ c \in Seq(B) /\ Len(c) = 2 + 2
      /\ \A k \in 1 .. 2 : c[k] = a[k]
      /\ \A k \in 1 .. 2 : c[2 + k] = l[k]
  <2>1. a \in Seq(B) /\ l \in Seq(B)
    BY <1>3, <1>4
  <2>2. /\ c \in Seq(B) /\ Len(c) = Len(a) + Len(l)
        /\ \A k \in 1 .. Len(a) + Len(l) : c[k] = IF k <= Len(a) THEN a[k] ELSE l[k - Len(a)]
    BY <2>1, ConcatProperties
  <2> HIDE DEF c
  <2> QED
    BY <1>3, <1>4, <2>2
<1> HIDE DEF c
<1>7. Len(c) = 4 /\ c[1] = a[1] /\ c[2] = a[2] /\ c[3] = l[1] /\ c[4] = l[2]
  BY <1>6
<1> HIDE DEF p, n
<1>8. /\ b \in Seq(B) /\ Len(b) = 4 + n
      /\ \A k \in 1 .. 4 : b[k] = c[k]
      /\ \A k \in 1 .. n : b[4 + k] = p[k]
  <2>1. /\ b \in Seq(B) /\ Len(b) = Len(c) + Len(p)
        /\ \A k \in 1 .. Len(c) + Len(p) : b[k] = IF k <= Len(c) THEN c[k] ELSE p[k - Len(c)]
    BY <1>5, <1>6, ConcatProperties
  <2> HIDE DEF b
  <2>2. \A k \in 1 .. 4 + n : b[k] = IF k <= 4 THEN c[k] ELSE p[k - 4]
    BY <1>2, <1>7, <2>1
  <2>3. ASSUME NEW k \in 1 .. n
        PROVE  b[4 + k] = p[k]
    <3>1. 4 + k \in 1 .. 4 + n /\ ~(4 + k <= 4) /\ 4 + k - 4 = k
      BY <1>2
    <3> QED
      BY <2>2, <3>1
  <2> QED
    BY <1>2, <1>7, <2>1, <2>2, <2>3
<1> HIDE DEF b
<1>9. b[1] = c[1] /\ b[2] = c[2] /\ b[3] = c[3] /\ b[4] = c[4]
  BY <1>8
<1>10. \A k \in 1 .. n : b[k + 4] = p[k]
  <2> TAKE k \in 1 .. n
  <2>1. 4 + k = k + 4
    OBVIOUS
  <2> QED
    BY <1>8, <2>1
<1>11. SegmentBytes(s) = b
  BY DEF SegmentBytes, b, c, a, l, p, n
<1>12. Len(b) = n + 4 /\ b[1] = Marker /\ b[2] = s.marker /\ b[3] * 256 + b[4] = n + 2
  BY <1>2, <1>3, <1>4, <1>7, <1>8, <1>9
<1> QED
  BY <1>1, <1>2, <1>8, <1>10, <1>11, <1>12 DEF n, p, B

\* Sequences that begin alike are joined alike.
LEMMA JoinedAlike ==
  ASSUME NEW S, NEW a \in Seq(Seq(S)), NEW b \in Seq(Seq(S)), NEW m \in Nat,
         m <= Len(a), m <= Len(b), \A i \in 1 .. m : a[i] = b[i]
  PROVE  JoinedFirst(a)[m] = JoinedFirst(b)[m]
<1> DEFINE f == JoinedFirst(a)
           g == JoinedFirst(b)
           T == {k \in Nat : k <= m => f[k] = g[k]}
<1>1. /\ f[0] = << >> /\ \A i \in 1 .. Len(a) : f[i] = f[i - 1] \o a[i]
      /\ g[0] = << >> /\ \A i \in 1 .. Len(b) : g[i] = g[i - 1] \o b[i]
  BY JoinedProperties
<1>2. Len(a) \in Nat /\ Len(b) \in Nat
  BY LenProperties
<1> HIDE DEF f, g
<1>3. 0 \in T
  BY <1>1
<1>4. ASSUME NEW k \in Nat, k \in T
      PROVE  k + 1 \in T
  <2> SUFFICES ASSUME k + 1 <= m PROVE f[k + 1] = g[k + 1]
    OBVIOUS
  <2> DEFINE j == k + 1
  <2>1. j \in 1 .. Len(a) /\ j \in 1 .. Len(b) /\ j \in 1 .. m /\ j - 1 = k /\ f[k] = g[k]
    BY <1>2, <1>4
  <2> HIDE DEF j
  <2>2. f[j] = f[k] \o a[j] /\ g[j] = g[k] \o b[j] /\ a[j] = b[j] /\ f[k] = g[k]
    BY <1>1, <2>1
  <2> QED
    BY <2>2 DEF j
<1> HIDE DEF T
<1>5. m \in T
  BY <1>3, <1>4, SetInduction
<1> QED
  BY <1>5 DEF T, f, g

\* The segments of a file as it is written, and where each of them starts.
Parts(segments) == [i \in DOMAIN segments |-> SegmentBytes(segments[i])]
MarkerAt(segments, i) == 3 + Len(JoinedFirst(Parts(segments))[i - 1])

\* They are strings of bytes.
LEMMA PartsType ==
  ASSUME NEW g \in Seq(Segment)
  PROVE  /\ Parts(g) \in Seq(Seq(0 .. 255)) /\ Len(Parts(g)) = Len(g) /\ Len(g) \in Nat
         /\ \A i \in 1 .. Len(g) : g[i] \in Segment /\ Parts(g)[i] = SegmentBytes(g[i])
         /\ JpegBytes(g) = <<Marker, Soi>> \o JoinedFirst(Parts(g))[Len(g)]
<1> DEFINE B == 0 .. 255
           n == Len(g)
           q == Parts(g)
<1>1. n \in Nat /\ DOMAIN g = 1 .. n /\ \A i \in 1 .. n : g[i] \in Segment
  BY LenProperties, ElementOfSeq
<1>2. q = [i \in 1 .. n |-> SegmentBytes(g[i])]
  BY <1>1 DEF Parts
<1>3. \A i \in 1 .. n : SegmentBytes(g[i]) \in Seq(B)
  BY <1>1, SegmentLayout
<1> HIDE DEF B, n, q
<1>4. q \in Seq(Seq(B)) /\ Len(q) = n
  <2>1. q \in [1 .. n -> Seq(B)]
    BY <1>2, <1>3
  <2> QED
    BY <1>1, <1>2, <2>1
<1>5. FlattenSeq(q) = JoinedFirst(q)[n]
  BY <1>4, FlattenIsJoined
<1>6. JpegBytes(g) = <<Marker, Soi>> \o FlattenSeq(q)
  BY DEF JpegBytes, q, Parts
<1> QED
  BY <1>1, <1>2, <1>4, <1>5, <1>6 DEF B, n, q

\* What stands where in a file.
LEMMA FileLayout ==
  ASSUME NEW g \in Seq(Segment)
  PROVE  LET f == JpegBytes(g)
             n == Len(g)
         IN  /\ n \in Nat /\ f \in Seq(0 .. 255) /\ Len(f) = MarkerAt(g, n + 1) - 1
             /\ Len(f) \in Nat /\ Len(f) > 1 /\ f[1] = Marker /\ f[2] = Soi
             /\ MarkerAt(g, 1) = 3
             /\ \A i \in 1 .. n + 1 : MarkerAt(g, i) \in Nat /\ MarkerAt(g, i) > 2
             /\ \A i \in 1 .. n :
                  LET at == MarkerAt(g, i)
                      m == Len(g[i].payload)
                  IN  /\ m \in Nat /\ MarkerAt(g, i + 1) = at + m + 4 /\ at + m + 3 <= Len(f)
                      /\ f[at] = Marker /\ f[at + 1] = g[i].marker
                      /\ Word16(f, at + 2) = m + 2
                      /\ \A k \in 1 .. m : f[at + 3 + k] = g[i].payload[k]
<1> DEFINE f == JpegBytes(g)
           n == Len(g)
           B == 0 .. 255
           q == Parts(g)
           j == JoinedFirst(q)
           e == <<Marker, Soi>>
<1>1. /\ q \in Seq(Seq(B)) /\ Len(q) = n /\ n \in Nat /\ f = e \o j[n]
      /\ \A i \in 1 .. n : g[i] \in Segment /\ q[i] = SegmentBytes(g[i])
  BY PartsType
<1>2. e \in Seq(B) /\ Len(e) = 2 /\ e[1] = Marker /\ e[2] = Soi
  BY DEF Marker, Soi
<1>3. /\ j[0] = << >> /\ Len(j[0]) = 0
      /\ \A i \in 0 .. n : j[i] \in Seq(B) /\ Len(j[i]) \in Nat
      /\ \A i \in 1 .. n : Len(j[i]) = Len(j[i - 1]) + Len(q[i])
      /\ \A i \in 1 .. n : \A l \in 1 .. Len(q[i]) :
           Len(j[i - 1]) + l \in 1 .. Len(j[n]) /\ j[n][Len(j[i - 1]) + l] = q[i][l]
  <2>1. q \in Seq(Seq(B)) /\ Len(q) = n
    BY <1>1
  <2> HIDE DEF q, B, n
  <2>2. /\ Len(j[0]) = 0
        /\ \A i \in 0 .. n : Len(j[i]) \in Nat
        /\ \A i \in 1 .. n : Len(j[i]) = Len(j[i - 1]) + Len(q[i])
        /\ \A i \in 1 .. n : \A l \in 1 .. Len(q[i]) :
             Len(j[i - 1]) + l \in 1 .. Len(j[n]) /\ j[n][Len(j[i - 1]) + l] = q[i][l]
    <3>1. /\ Len(j[0]) = 0
          /\ \A i \in 0 .. Len(q) : Len(j[i]) \in Nat
          /\ \A i \in 1 .. Len(q) : Len(j[i]) = Len(j[i - 1]) + Len(q[i])
          /\ \A i \in 1 .. Len(q) : \A l \in 1 .. Len(q[i]) :
               Len(j[i - 1]) + l \in 1 .. Len(j[Len(q)]) /\ j[Len(q)][Len(j[i - 1]) + l] = q[i][l]
      BY <2>1, JoinedPlaces, Zenon
    <3> HIDE DEF j
    <3> QED
      BY <2>1, <3>1, Zenon
  <2>3. j[0] = << >> /\ \A i \in 0 .. n : j[i] \in Seq(B)
    BY <2>1, JoinedProperties
  <2> QED
    BY <2>2, <2>3
<1> DEFINE t == j[n]
           w == Len(t)
<1>4. t \in Seq(B) /\ w \in Nat
  BY <1>1, <1>3
<1> HIDE DEF e, t, B
<1>5. /\ e \o t \in Seq(B) /\ Len(e \o t) = 2 + w
      /\ \A k \in 1 .. 2 + w : (e \o t)[k] = IF k <= 2 THEN e[k] ELSE t[k - 2]
  <2> DEFINE c == e \o t
  <2>1. /\ c \in Seq(B) /\ Len(c) = Len(e) + Len(t)
        /\ \A k \in 1 .. Len(e) + Len(t) : c[k] = IF k <= Len(e) THEN e[k] ELSE t[k - Len(e)]
    BY <1>2, <1>4, ConcatProperties
  <2> HIDE DEF c
  <2>2. /\ c \in Seq(B) /\ Len(c) = 2 + w
        /\ \A k \in 1 .. 2 + w : c[k] = IF k <= 2 THEN e[k] ELSE t[k - 2]
    BY <1>2, <2>1
  <2> QED
    BY <2>2 DEF c
<1>6. f = e \o t
  BY <1>1 DEF t
<1> HIDE DEF f, w
<1>7. f \in Seq(B) /\ Len(f) = 2 + w /\ f[1] = Marker /\ f[2] = Soi
  <2>1. 1 \in 1 .. 2 + w /\ 2 \in 1 .. 2 + w
    BY <1>4
  <2> QED
    BY <1>2, <1>5, <1>6, <2>1
<1>8. ASSUME NEW x \in 1 .. w
      PROVE  f[2 + x] = t[x]
  <2>1. 2 + x \in 1 .. 2 + w /\ ~(2 + x <= 2) /\ 2 + x - 2 = x
    BY <1>4
  <2> QED
    BY <1>5, <1>6, <2>1
<1>9. \A i \in 1 .. n + 1 : MarkerAt(g, i) = 3 + Len(j[i - 1]) /\ i - 1 \in 0 .. n
  BY <1>1 DEF MarkerAt, j, q
<1>10. MarkerAt(g, 1) = 3 /\ MarkerAt(g, n + 1) = 3 + w
  <2>1. 1 \in 1 .. n + 1 /\ n + 1 \in 1 .. n + 1 /\ 1 - 1 = 0 /\ n + 1 - 1 = n
    BY <1>1
  <2> HIDE DEF j
  <2>2. MarkerAt(g, 1) = 3 + Len(j[0]) /\ MarkerAt(g, n + 1) = 3 + Len(j[n])
    BY <1>9, <2>1
  <2> QED
    BY <1>3, <2>2 DEF t, w
<1>11. \A i \in 1 .. n + 1 : MarkerAt(g, i) \in Nat /\ MarkerAt(g, i) > 2
  <2> HIDE DEF j
  <2> TAKE i \in 1 .. n + 1
  <2>1. MarkerAt(g, i) = 3 + Len(j[i - 1]) /\ Len(j[i - 1]) \in Nat
    BY <1>3, <1>9
  <2> QED
    BY <2>1
<1>12. ASSUME NEW i \in 1 .. n
       PROVE  LET at == MarkerAt(g, i)
                  m == Len(g[i].payload)
              IN  /\ m \in Nat /\ MarkerAt(g, i + 1) = at + m + 4 /\ at + m + 3 <= Len(f)
                  /\ f[at] = Marker /\ f[at + 1] = g[i].marker
                  /\ Word16(f, at + 2) = m + 2
                  /\ \A k \in 1 .. m : f[at + 3 + k] = g[i].payload[k]
  <2> HIDE DEF j, q
  <2> DEFINE at == MarkerAt(g, i)
             m == Len(g[i].payload)
             b == q[i]
             o == Len(j[i - 1])
  <2>1. /\ m \in Nat /\ b \in Seq(B) /\ Len(b) = m + 4
        /\ b[1] = Marker /\ b[2] = g[i].marker /\ b[3] * 256 + b[4] = m + 2
        /\ \A k \in 1 .. m : b[k + 4] = g[i].payload[k]
    <3> DEFINE r == g[i]
    <3>1. r \in Segment /\ b = SegmentBytes(r)
      BY <1>1
    <3> HIDE DEF r
    <3>2. LET c == SegmentBytes(r)
              k == Len(r.payload)
          IN  /\ k \in Nat /\ c \in Seq(B) /\ Len(c) = k + 4
              /\ c[1] = Marker /\ c[2] = r.marker /\ c[3] * 256 + c[4] = k + 2
              /\ \A l \in 1 .. k : c[l + 4] = r.payload[l]
      BY <3>1, SegmentLayout DEF B
    <3> HIDE DEF b
    <3> QED
      BY <3>1, <3>2 DEF r
  <2>2. i \in 1 .. n + 1 /\ i + 1 \in 1 .. n + 1 /\ i + 1 - 1 = i /\ i - 1 \in 0 .. n
    BY <1>1
  <2>3. at = 3 + o /\ MarkerAt(g, i + 1) = 3 + Len(j[i]) /\ o \in Nat
    BY <1>3, <1>9, <2>2
  <2>4. Len(j[i]) = o + Len(b)
    BY <1>3
  <2>5. ASSUME NEW l \in 1 .. Len(b)
        PROVE  o + l \in 1 .. w /\ t[o + l] = b[l]
    BY <1>3, <2>5 DEF t, w
  <2> HIDE DEF b, m, o, at
  <2>6. ASSUME NEW l \in 1 .. m + 4
        PROVE  f[at + l - 1] = b[l] /\ o + l <= w
    <3>1. o + l \in 1 .. w /\ t[o + l] = b[l]
      BY <2>1, <2>5
    <3>2. at + l - 1 = 2 + (o + l)
      BY <2>1, <2>3
    <3> QED
      BY <1>4, <1>8, <3>1, <3>2
  <2>7. m + 4 \in 1 .. m + 4 /\ 1 \in 1 .. m + 4 /\ 2 \in 1 .. m + 4 /\ 3 \in 1 .. m + 4 /\ 4 \in 1 .. m + 4
    BY <2>1
  <2>8. /\ at + 1 - 1 = at /\ at + 2 - 1 = at + 1 /\ at + 3 - 1 = at + 2 /\ at + 4 - 1 = at + 2 + 1
    BY <2>3
  <2>9. f[at] = b[1] /\ f[at + 1] = b[2] /\ f[at + 2] = b[3] /\ f[at + 2 + 1] = b[4]
    BY <2>6, <2>7, <2>8
  <2>10. o + (m + 4) <= w
    BY <2>6, <2>7
  <2>11. ASSUME NEW k \in 1 .. m
         PROVE  f[at + 3 + k] = g[i].payload[k]
    <3>1. k + 4 \in 1 .. m + 4 /\ at + (k + 4) - 1 = at + 3 + k
      BY <2>1, <2>3
    <3> QED
      BY <2>1, <2>6, <3>1
  <2>12. Word16(f, at + 2) = m + 2
    BY <2>1, <2>9 DEF Word16
  <2>13. MarkerAt(g, i + 1) = at + m + 4 /\ at + m + 3 <= Len(f)
    BY <1>4, <1>7, <2>1, <2>3, <2>4, <2>10
  <2> QED
    BY <2>1, <2>9, <2>11, <2>12, <2>13 DEF at, m
<1>13. Len(f) = MarkerAt(g, n + 1) - 1 /\ Len(f) \in Nat /\ Len(f) > 1
  BY <1>4, <1>7, <1>10
<1> QED
  BY <1>1, <1>7, <1>10, <1>11, <1>12, <1>13 DEF f, B

\* The search in what the frame buffer holds of a file: past a segment that heads no
\* frame it goes on with the next, and at a frame header it ends.
LEMMA Searched ==
  ASSUME NEW g \in Seq(Segment), NEW c \in 0 .. Len(JpegBytes(g))
  PROVE  LET s == SubSeq(JpegBytes(g), 1, c)
             n == Len(g)
         IN  /\ Scan(s)[MarkerAt(g, n + 1)] = Invalid
             /\ \A i \in 1 .. n :
                  g[i].marker \notin FrameHeaders =>
                    Scan(s)[MarkerAt(g, i)] = Scan(s)[MarkerAt(g, i + 1)]
             /\ \A i \in 1 .. n :
                  g[i].marker \in FrameHeaders =>
                    Scan(s)[MarkerAt(g, i)] =
                      IF MarkerAt(g, i) + 8 > c THEN Invalid
                      ELSE <<Word16(g[i].payload, 2), Word16(g[i].payload, 4)>>
<1> DEFINE f == JpegBytes(g)
           s == SubSeq(f, 1, c)
           F == Scan(s)
           n == Len(g)
<1>1. f \in Seq(0 .. 255) /\ Len(f) \in Nat /\ n \in Nat /\ Len(f) = MarkerAt(g, n + 1) - 1
      /\ \A i \in 1 .. n + 1 : MarkerAt(g, i) \in Nat
  BY FileLayout
<1>2. s \in Seq(0 .. 255) /\ Len(s) = c /\ c \in Nat /\ \A k \in 1 .. c : s[k] = f[k]
  BY <1>1, Cut
<1> HIDE DEF s
<1>3. \A i \in Nat : F[i] = DimensionsAt(s, F, i)
  <2>1. F = [i \in Nat |-> DimensionsAt(s, F, i)]
    BY <1>2, ScanExists DEF IsScan
  <2> HIDE DEF F
  <2> QED
    BY <2>1
<1> HIDE DEF F
<1>4. ASSUME NEW x \in Nat, x + 1 > c
      PROVE  F[x] = Invalid
  BY <1>2, <1>3, <1>4 DEF DimensionsAt
<1>5. F[MarkerAt(g, n + 1)] = Invalid
  <2>1. n + 1 \in 1 .. n + 1
    BY <1>1
  <2>2. MarkerAt(g, n + 1) \in Nat /\ MarkerAt(g, n + 1) + 1 > c
    BY <1>1, <2>1
  <2> QED
    BY <1>4, <2>2
<1>6. ASSUME NEW i \in 1 .. n
      PROVE  /\ g[i].marker \notin FrameHeaders => F[MarkerAt(g, i)] = F[MarkerAt(g, i + 1)]
             /\ g[i].marker \in FrameHeaders =>
                  F[MarkerAt(g, i)] =
                    IF MarkerAt(g, i) + 8 > c THEN Invalid
                    ELSE <<Word16(g[i].payload, 2), Word16(g[i].payload, 4)>>
  <2> DEFINE at == MarkerAt(g, i)
             next == MarkerAt(g, i + 1)
             m == Len(g[i].payload)
             mk == g[i].marker
             p == g[i].payload
  <2>1. /\ m \in Nat /\ next = at + m + 4 /\ at + m + 3 <= Len(f)
        /\ f[at] = Marker /\ f[at + 1] = mk /\ Word16(f, at + 2) = m + 2
        /\ \A k \in 1 .. m : f[at + 3 + k] = p[k]
    BY FileLayout
  <2>2. mk \notin Standalone /\ (mk \in FrameHeaders => m > 4)
    <3> DEFINE r == g[i]
    <3>1. r \in Segment
      BY ElementOfSeq
    <3> HIDE DEF r
    <3>2. r.marker \notin Standalone /\ (r.marker \in FrameHeaders => Len(r.payload) > 4)
      BY <3>1 DEF Segment
    <3> QED
      BY <3>2 DEF r
  <2>3. at \in Nat /\ at > 2
    BY <1>1, FileLayout
  <2> HIDE DEF at, next, m, mk, p, f, n
  <2>0. Len(s) = c /\ c \in Nat
    BY <1>2
  <2>4. ASSUME at + 1 <= c
        PROVE  s[at] = Marker /\ s[at + 1] = mk
    <3>1. at \in 1 .. c /\ at + 1 \in 1 .. c
      BY <2>3, <2>4, <2>0
    <3>2. s[at] = f[at] /\ s[at + 1] = f[at + 1]
      BY <1>2, <3>1
    <3> QED
      BY <2>1, <3>2
  <2>5. CASE at + 3 > c
    <3>1. F[at] = DimensionsAt(s, F, at)
      BY <1>3, <2>3
    <3>2. F[at] = Invalid
      <4>1. CASE at + 1 > c
        BY <1>4, <2>3, <4>1
      <4>2. CASE at + 1 <= c
        <5>1. ~(at + 1 > Len(s)) /\ s[at] = Marker /\ s[at + 1] = mk /\ at + 3 > Len(s)
          BY <2>3, <2>4, <2>5, <2>0, <4>2
        <5> QED
          BY <2>2, <3>1, <5>1, Zenon DEF DimensionsAt
      <4> QED
        BY <2>3, <2>0, <4>1, <4>2
    <3>3. next \in Nat /\ next + 1 > c /\ at + 8 > c
      <4>1. m \in Nat /\ next = at + m + 4
        BY <2>1
      <4> QED
        BY <2>3, <2>5, <2>0, <4>1
    <3>4. F[next] = Invalid
      BY <1>4, <3>3
    <3> QED
      BY <3>2, <3>3, <3>4 DEF at, next, mk
  <2>6. CASE ~(at + 3 > c)
    <3>1. F[at] = DimensionsAt(s, F, at)
      BY <1>3, <2>3
    <3>2. s[at] = Marker /\ s[at + 1] = mk
      BY <1>2, <2>3, <2>4, <2>6
    <3>3. Word16(s, at + 2) = m + 2
      <4>1. at + 2 \in 1 .. c /\ at + 2 + 1 \in 1 .. c
        BY <1>2, <2>3, <2>6
      <4>2. s[at + 2] = f[at + 2] /\ s[at + 2 + 1] = f[at + 2 + 1]
        BY <1>2, <4>1
      <4> QED
        BY <2>1, <4>2 DEF Word16
    <3>4. ~(at + 1 > Len(s)) /\ ~(at + 3 > Len(s) \/ Word16(s, at + 2) < 2)
      <4>1. ~(at + 1 > Len(s)) /\ ~(at + 3 > Len(s))
        BY <2>3, <2>6, <2>0
      <4>2. m \in Nat
        BY <2>1
      <4>3. ~(m + 2 < 2)
        BY <4>2
      <4> QED
        BY <3>3, <4>1, <4>3, Zenon
    <3>5. NextAfter(s, at) = next
      BY <2>1, <2>3, <3>3 DEF NextAfter
    <3>6. F[at] = IF mk \notin FrameHeaders THEN F[NextAfter(s, at)]
                  ELSE IF at + 8 > Len(s) THEN Invalid
                  ELSE <<Word16(s, at + 5), Word16(s, at + 7)>>
      BY <2>2, <3>1, <3>2, <3>4 DEF DimensionsAt
    <3>7. ASSUME mk \in FrameHeaders, ~(at + 8 > c)
          PROVE  Word16(s, at + 5) = Word16(p, 2) /\ Word16(s, at + 7) = Word16(p, 4)
      <4>1. ASSUME NEW k \in 2 .. 5
            PROVE  s[at + 3 + k] = p[k]
        <5>1. k \in 1 .. m /\ at + 3 + k \in 1 .. c
          BY <1>2, <2>1, <2>2, <2>3, <3>7
        <5> QED
          BY <1>2, <2>1, <5>1
      <4>2. /\ at + 3 + 2 = at + 5 /\ at + 3 + 3 = at + 5 + 1
            /\ at + 3 + 4 = at + 7 /\ at + 3 + 5 = at + 7 + 1
        BY <2>3
      <4>3. s[at + 5] = p[2] /\ s[at + 5 + 1] = p[2 + 1] /\ s[at + 7] = p[4] /\ s[at + 7 + 1] = p[4 + 1]
        BY <4>1, <4>2
      <4> QED
        BY <4>3 DEF Word16
    <3> QED
      BY <1>2, <3>5, <3>6, <3>7 DEF at, next, mk, p
  <2> QED
    BY <2>5, <2>6
<1> QED
  BY <1>5, <1>6 DEF F, s, f, n

\* The places of a file's frame headers.
Headers(g) == {i \in 1 .. Len(g) : IsFrameHeader(g[i])}

\* What the decoder's side finds first.
LEMMA FirstHeader ==
  ASSUME NEW g \in Seq(Segment)
  PROVE  \/ Headers(g) = {} /\ SelectInSeq(g, IsFrameHeader) = 0
         \/ \E h \in Headers(g) : /\ SelectInSeq(g, IsFrameHeader) = h
                                  /\ \A i \in Headers(g) : h <= i
<1> DEFINE H == Headers(g)
<1>1. SelectInSeq(g, IsFrameHeader) = IF H # {} THEN Min(H) ELSE 0
  BY DEF SelectInSeq, Headers
<1>2. Len(g) \in Nat /\ H \subseteq Nat /\ H \in SUBSET Int
  BY LenProperties DEF Headers
<1> HIDE DEF H
<1>3. CASE H = {}
  BY <1>1, <1>3 DEF H
<1>4. CASE H # {}
  <2>1. PICK h \in H : \A y \in H : ~(<<y, h>> \in OpToRel(<, Nat))
    BY <1>2, <1>4, NatLessThanWellFounded, WFMin
  <2>2. ASSUME NEW i \in H
        PROVE  h <= i
    <3>1. i \in Nat /\ h \in Nat /\ ~(<<i, h>> \in OpToRel(<, Nat))
      BY <1>2, <2>1
    <3>2. i < h => <<i, h>> \in OpToRel(<, Nat)
      BY <3>1 DEF OpToRel
    <3>3. ~(i < h)
      BY <3>1, <3>2, Zenon
    <3>4. i \in Nat /\ h \in Nat
      BY <3>1
    <3> QED
      BY <3>3, <3>4, SMT
  <2>3. Min(H) = h
    BY <1>2, <2>2, MinIs
  <2> QED
    BY <1>1, <1>4, <2>2, <2>3 DEF H
<1> QED
  BY <1>3, <1>4

\* Where the dimensions of a frame header end, put together from the segments before it.
LEMMA HeaderPlace ==
  ASSUME NEW g \in Seq(Segment), NEW h \in 1 .. Len(g)
  PROVE  Len(JpegBytes(SubSeq(g, 1, h - 1))) + 9 = MarkerAt(g, h) + 8
<1> DEFINE k == h - 1
           r == SubSeq(g, 1, k)
<1>1. Len(g) \in Nat /\ k \in 0 .. Len(g) /\ h \in Nat /\ k + 1 = h
  BY LenProperties
<1> HIDE DEF k
<1>2. r \in Seq(Segment) /\ Len(r) = k /\ \A i \in 1 .. k : r[i] = g[i]
  BY <1>1, Cut
<1> HIDE DEF r
<1>3. Len(JpegBytes(r)) = MarkerAt(r, h) - 1
  BY <1>1, <1>2, FileLayout
<1> DEFINE a == Parts(r)
           b == Parts(g)
           B == 0 .. 255
<1>4. /\ a \in Seq(Seq(B)) /\ Len(a) = k /\ b \in Seq(Seq(B)) /\ Len(b) = Len(g)
      /\ \A i \in 1 .. k : a[i] = SegmentBytes(r[i])
      /\ \A i \in 1 .. Len(g) : b[i] = SegmentBytes(g[i])
  BY <1>2, PartsType
<1> HIDE DEF a, b, B
<1>5. \A i \in 1 .. k : a[i] = b[i]
  BY <1>1, <1>2, <1>4
<1>6. k \in Nat /\ k <= Len(a) /\ k <= Len(b)
  BY <1>1, <1>4
<1>7. JoinedFirst(a)[k] = JoinedFirst(b)[k]
  BY <1>4, <1>5, <1>6, JoinedAlike
<1>8. MarkerAt(r, h) = MarkerAt(g, h)
  BY <1>7 DEF MarkerAt, a, b, k
<1>9. MarkerAt(g, h) \in Nat
  <2>1. h \in 1 .. Len(g) + 1
    BY <1>1
  <2> QED
    BY <2>1, FileLayout
<1> QED
  BY <1>3, <1>8, <1>9 DEF r, k

\* What _jpeg_dimensions finds: the numbers in the first frame header, if the frame buffer
\* holds them.
LEMMA DimensionsFound ==
  ASSUME NEW g \in Seq(Segment), NEW c \in 0 .. Len(JpegBytes(g))
  PROVE  LET s == SubSeq(JpegBytes(g), 1, c)
         IN  /\ Headers(g) = {} => JpegDimensions(s) = Invalid
             /\ \A h \in Headers(g) :
                  (\A i \in Headers(g) : h <= i) =>
                    JpegDimensions(s) =
                      IF MarkerAt(g, h) + 8 > c THEN Invalid
                      ELSE <<Word16(g[h].payload, 2), Word16(g[h].payload, 4)>>
<1> DEFINE f == JpegBytes(g)
           s == SubSeq(f, 1, c)
           F == Scan(s)
           n == Len(g)
           H == Headers(g)
           P(i) == MarkerAt(g, i)
<1>1. f \in Seq(0 .. 255) /\ Len(f) \in Nat /\ n \in Nat /\ f[1] = Marker /\ f[2] = Soi
      /\ P(1) = 3 /\ \A i \in 1 .. n + 1 : P(i) \in Nat /\ P(i) > 2
  BY FileLayout
<1>2. s \in Seq(0 .. 255) /\ Len(s) = c /\ c \in Nat /\ \A k \in 1 .. c : s[k] = f[k]
  <2>1. f \in Seq(0 .. 255) /\ c \in 0 .. Len(f) /\ Len(f) \in Nat
    BY <1>1
  <2>2. ASSUME NEW S, NEW r \in Seq(S), NEW k \in 0 .. Len(r)
        PROVE  SubSeq(r, 1, k) \in Seq(S) /\ Len(SubSeq(r, 1, k)) = k
               /\ \A i \in 1 .. k : SubSeq(r, 1, k)[i] = r[i]
    BY <2>2, Cut
  <2> HIDE DEF f
  <2>3. s \in Seq(0 .. 255) /\ Len(s) = c /\ \A k \in 1 .. c : s[k] = f[k]
    BY <2>1, <2>2
  <2> QED
    BY <2>1, <2>3
<1>3. /\ F[P(n + 1)] = Invalid
      /\ \A i \in 1 .. n : g[i].marker \notin FrameHeaders => F[P(i)] = F[P(i + 1)]
      /\ \A i \in 1 .. n :
           g[i].marker \in FrameHeaders =>
             F[P(i)] = IF P(i) + 8 > c THEN Invalid
                       ELSE <<Word16(g[i].payload, 2), Word16(g[i].payload, 4)>>
  BY Searched
<1> HIDE DEF s, F, P, f
<1>4. \A i \in 1 .. n : i \in H <=> g[i].marker \in FrameHeaders
  BY DEF Headers, IsFrameHeader
<1>5. H \subseteq 1 .. n
  BY DEF Headers
<1> HIDE DEF H, n
<1>6. ASSUME NEW m \in 1 .. n + 1, \A i \in 1 .. m - 1 : i \notin H
      PROVE  F[P(m)] = F[3]
  <2> DEFINE T == {k \in Nat : k + 1 <= m => F[P(k + 1)] = F[3]}
  <2>1. 0 \in T
    BY <1>1
  <2>2. ASSUME NEW k \in Nat, k \in T
        PROVE  k + 1 \in T
    <3> SUFFICES ASSUME k + 1 + 1 <= m PROVE F[P(k + 1 + 1)] = F[3]
      OBVIOUS
    <3> DEFINE j == k + 1
    <3>1. j \in 1 .. n /\ j \in 1 .. m - 1 /\ j <= m
      BY <1>1, <1>6
    <3>2. F[P(j)] = F[3]
      BY <2>2, <3>1
    <3> HIDE DEF j
    <3>3. F[P(j)] = F[P(j + 1)]
      BY <1>3, <1>4, <1>6, <3>1
    <3> QED
      BY <3>2, <3>3 DEF j
  <2> HIDE DEF T
  <2>3. Nat \subseteq T
    BY <2>1, <2>2, SetInduction
  <2>4. m - 1 \in T /\ m - 1 + 1 = m /\ m <= m
    BY <1>1, <2>3
  <2> QED
    BY <2>4 DEF T
<1>7. c >= 2 => SubSeq(s, 1, 2) = <<Marker, Soi>>
  <2> SUFFICES ASSUME c >= 2 PROVE SubSeq(s, 1, 2) = <<Marker, Soi>>
    OBVIOUS
  <2> DEFINE a == SubSeq(s, 1, 2)
             e == <<Marker, Soi>>
             two == 2
             B == 0 .. 255
  <2>1. two \in 0 .. Len(s)
    BY <1>2
  <2>2. s \in Seq(B)
    BY <1>2
  <2>3. e \in Seq(B) /\ Len(e) = 2 /\ e[1] = Marker /\ e[2] = Soi
    BY DEF Marker, Soi
  <2> HIDE DEF B
  <2>4. SubSeq(s, 1, two) \in Seq(B) /\ Len(SubSeq(s, 1, two)) = two
        /\ \A i \in 1 .. two : SubSeq(s, 1, two)[i] = s[i]
    <3> HIDE DEF two
    <3> QED
      BY <2>1, <2>2, Cut
  <2> HIDE DEF a
  <2>5. a \in Seq(B) /\ Len(a) = 2 /\ \A i \in 1 .. 2 : a[i] = s[i]
    BY <2>4 DEF a
  <2>6. s[1] = Marker /\ s[2] = Soi
    BY <1>1, <1>2
  <2> HIDE DEF e
  <2>7. Len(a) = Len(e)
    BY <2>3, <2>5
  <2>8. \A i \in 1 .. Len(a) : a[i] = e[i]
    BY <2>3, <2>5, <2>6
  <2>9. a = e
    BY <2>3, <2>5, <2>7, <2>8, SeqEqual
  <2> QED
    BY <2>9 DEF a, e
<1>8. JpegDimensions(s) = IF c < 2 THEN Invalid ELSE F[3]
  <2>1. ~(c < 2) => c >= 2
    BY <1>2
  <2> QED
    BY <1>2, <1>7, <2>1, JpegDimensionsDef DEF F
<1>9. H = {} => JpegDimensions(s) = Invalid
  <2> SUFFICES ASSUME H = {} PROVE JpegDimensions(s) = Invalid
    OBVIOUS
  <2>1. n + 1 \in 1 .. n + 1
    BY <1>1
  <2>2. F[P(n + 1)] = F[3]
    BY <1>6, <2>1
  <2> QED
    BY <1>3, <1>8, <2>2
<1>10. ASSUME NEW h \in H, \A i \in H : h <= i
       PROVE  JpegDimensions(s) = IF P(h) + 8 > c THEN Invalid
                                  ELSE <<Word16(g[h].payload, 2), Word16(g[h].payload, 4)>>
  <2>1. h \in 1 .. n /\ h \in 1 .. n + 1 /\ \A i \in 1 .. h - 1 : i \notin H
    BY <1>1, <1>5, <1>10
  <2>2. F[P(h)] = F[3]
    BY <1>6, <2>1
  <2>3. F[P(h)] = IF P(h) + 8 > c THEN Invalid
                  ELSE <<Word16(g[h].payload, 2), Word16(g[h].payload, 4)>>
    BY <1>3, <1>4, <2>1
  <2>4. c < 2 => P(h) + 8 > c
    BY <1>1, <1>2, <2>1
  <2> QED
    BY <1>8, <2>2, <2>3, <2>4
<1> QED
  BY <1>9, <1>10 DEF H, s, f, P

\* The check of image.py and the decoder agree.
LEMMA AcceptedIsDecodable ==
  ASSUME NEW p \in Pictures
  PROVE  Accepted(p) <=> p.cut > 0 /\ (p.media = "image/jpeg" => Decodable(p))
<1> DEFINE g == p.segments
           c == p.cut
           d == JpegDimensions(Data(p))
           h == SelectInSeq(g, IsFrameHeader)
           D == 1 .. MaxDimension
<1>1. g \in Seq(Segment) /\ c \in 0 .. Len(JpegBytes(g))
  BY AnswerAssumption DEF IsPicture
<1>2. Data(p) = SubSeq(JpegBytes(g), 1, c)
  BY DEF Data
<1>3. (\A k \in 1 .. 2 : d[k] \in D) <=> d[1] \in D /\ d[2] \in D
  <2> HIDE DEF d, D
  <2>1. \A k : k \in 1 .. 2 <=> k = 1 \/ k = 2
    OBVIOUS
  <2> QED
    BY <2>1, Zenon
<1>4. (\A k \in 1 .. 2 : d[k] \in D) <=> Decodable(p)
  <2>0. Decodable(p) <=> /\ h # 0 /\ HeaderEnd(p) <= c
                         /\ Word16(g[h].payload, 2) \in D /\ Word16(g[h].payload, 4) \in D
    BY DEF Decodable
  <2>1. CASE Headers(g) = {} /\ h = 0
    <3>1. d = Invalid
      BY <1>1, <1>2, <2>1, DimensionsFound
    <3>2. d[1] \notin D
      BY <3>1 DEF Invalid
    <3> QED
      BY <1>3, <2>0, <2>1, <3>2, Zenon
  <2>2. CASE h \in Headers(g) /\ \A i \in Headers(g) : h <= i
    <3>1. d = IF MarkerAt(g, h) + 8 > c THEN Invalid
              ELSE <<Word16(g[h].payload, 2), Word16(g[h].payload, 4)>>
      BY <1>1, <1>2, <2>2, DimensionsFound
    <3>2. h \in 1 .. Len(g)
      BY <2>2 DEF Headers
    <3>3. HeaderEnd(p) = MarkerAt(g, h) + 8
      <4>1. HeaderEnd(p) = Len(JpegBytes(SubSeq(g, 1, h - 1))) + 9
        BY DEF HeaderEnd
      <4> HIDE DEF h, g
      <4> QED
        BY <1>1, <3>2, <4>1, HeaderPlace
    <3>4. MarkerAt(g, h) \in Nat /\ c \in Nat /\ h # 0
      <4> HIDE DEF h, g, c
      <4>1. Len(g) \in Nat /\ Len(JpegBytes(g)) \in Nat
        BY <1>1, FileLayout
      <4>2. h \in 1 .. Len(g) + 1
        BY <3>2, <4>1
      <4> QED
        BY <1>1, <4>1, <4>2, FileLayout
    <3> HIDE DEF d, h, g, c
    <3>5. CASE MarkerAt(g, h) + 8 > c
      <4>1. d[1] \notin D
        BY <3>1, <3>5 DEF Invalid
      <4>2. ~(HeaderEnd(p) <= c)
        BY <3>3, <3>4, <3>5
      <4> QED
        BY <1>3, <2>0, <4>1, <4>2, Zenon
    <3>6. CASE ~(MarkerAt(g, h) + 8 > c)
      <4>1. d[1] = Word16(g[h].payload, 2) /\ d[2] = Word16(g[h].payload, 4)
        BY <3>1, <3>6
      <4>2. HeaderEnd(p) <= c
        BY <3>3, <3>4, <3>6
      <4> QED
        BY <1>3, <2>0, <3>4, <4>1, <4>2, Zenon
    <3> QED
      BY <3>5, <3>6
  <2> QED
    BY <1>1, <2>1, <2>2, FirstHeader
<1> QED
  BY <1>4 DEF Accepted

\* The wearer is told that the picture could not be read exactly when it has no frame header
\* the phone could use, whatever segments stand before that header and wherever the frame
\* buffer cut the file: the search of _jpeg_dimensions, which steps from marker to marker by
\* the lengths it reads, finds what a decoder would.
THEOREM SorryCorrect == Spec => SorryOnlyWhenUndecodable
<1> DEFINE Step == received # NoPicture /\ received' = NoPicture =>
                     IF \/ received.cut = 0
                        \/ received.media = "image/jpeg" /\ ~Decodable(received)
                     THEN answer' = Sorry ELSE answer' \in Answers
<1>1. OrderInv /\ TypeInv /\ [Next]_vars => [Step]_vars
  <2> SUFFICES ASSUME OrderInv, TypeInv, [Next]_vars, received # NoPicture, received' = NoPicture
               PROVE  IF \/ received.cut = 0
                         \/ received.media = "image/jpeg" /\ ~Decodable(received)
                      THEN answer' = Sorry ELSE answer' \in Answers
    OBVIOUS
  <2>1. Analyse
    <3>1. point \notin Ready \cup {"upload"}
      BY DEF OrderInv
    <3>2. received' # received
      OBVIOUS
    <3> QED
      BY <3>1, <3>2 DEF Next, Boot, DeviceInit, CycleFails, CycleCaptures, CycleReleases, Begin,
         Capture, CaptureFails, Upload, UploadFails, RecvAnswer, RecvRefused, RecvFails, EndTurn,
         Finished, Returns, Ready, phoneVars, vars
  <2>2. received \in Pictures
    BY DEF TypeInv
  <2>3. Accepted(received) <=> received.cut > 0 /\ (received.media = "image/jpeg" => Decodable(received))
    BY <2>2, AcceptedIsDecodable
  <2>4. received.cut > 0 <=> ~(received.cut = 0)
    <3>1. received.segments \in Seq(Segment) /\ received.cut \in 0 .. Len(JpegBytes(received.segments))
      BY <2>2, AnswerAssumption DEF IsPicture
    <3> QED
      BY <3>1, FileLayout
  <2>5. IF Accepted(received) THEN answer' \in Answers ELSE answer' = Sorry
    BY <2>1 DEF Analyse
  <2> QED
    BY <2>3, <2>4, <2>5
<1>2. SorryOnlyWhenUndecodable <=> [][Step]_vars
  BY DEF SorryOnlyWhenUndecodable
<1> QED
  BY <1>1, <1>2, OrderInvariance, TypeInvariance, PTL DEF Spec
=============================================================================
