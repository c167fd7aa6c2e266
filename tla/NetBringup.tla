----------------------------- MODULE NetBringup -----------------------------
(***************************************************************************)
(* net_esp.c: sd_net_start and sd_net_stop on the application's task, the  *)
(* event handler on the task of the default event loop, and the Wi-Fi      *)
(* driver between them.                                                    *)
(***************************************************************************)
EXTENDS Integers, Sequences, FiniteSets

CONSTANTS
  MaxRetry,     \* NET_MAX_RETRY
  MaxCalls,     \* bound: calls of sd_net_start and sd_net_stop
  MaxDrops      \* bound: times the access point drops or refuses the station

ASSUME NetAssumption == MaxRetry \in Nat /\ MaxCalls \in Nat /\ MaxDrops \in Nat

VARIABLES
  ssid,         \* is an SSID configured?
  app,          \* the application's task: "idle", "waiting" in sd_net_start, or
                \* "stopping" between the two driver calls of sd_net_stop
  started,      \* s_started
  retries,      \* s_retries
  bits,         \* of s_net_events
  group,        \* is s_net_events a live event group?
  eventLoop,    \* has the default event loop been created?
  station,      \* the driver: "off", "idle", "connecting", "associated", "up"
  events,       \* posted to the event loop, not yet handled
  returned,     \* last result of sd_net_start ("none" before the first)
  gotIp,        \* history: has an address been assigned since the driver was started?
  calls, drops  \* against the bounds

netVars == <<ssid, app, started, retries, bits, group, eventLoop, station, events, returned,
             gotIp, calls, drops>>

Stations == {"off", "idle", "connecting", "associated", "up"}
Events == {"STA_START", "STA_DISCONNECTED", "GOT_IP"}

\* Every variable holds a value net_esp.c can give it: above all, the retry counter
\* never passes NET_MAX_RETRY.
TypeOKNet ==
  /\ ssid \in BOOLEAN
  /\ app \in {"idle", "waiting", "stopping"}
  /\ started \in BOOLEAN
  /\ retries \in 0 .. MaxRetry
  /\ bits \subseteq {"CONNECTED", "FAILED"}
  /\ group \in BOOLEAN
  /\ eventLoop \in BOOLEAN
  /\ station \in Stations
  /\ events \in Seq(Events)
  /\ returned \in {"none", "OK", "IO", "INVALID", "NO_MEM"}
  /\ gotIp \in BOOLEAN
  /\ calls \in 0 .. MaxCalls
  /\ drops \in 0 .. MaxDrops

InitNet ==
  /\ ssid \in BOOLEAN
  /\ app = "idle"
  /\ started = FALSE
  /\ retries = 0
  /\ bits = {}
  /\ group = FALSE
  /\ eventLoop = FALSE
  /\ station = "off"
  /\ events = << >>
  /\ returned = "none"
  /\ gotIp = FALSE
  /\ calls = 0
  /\ drops = 0

-----------------------------------------------------------------------------
(* The application's task *)

Call ==
  /\ app = "idle"
  /\ calls < MaxCalls
  /\ calls' = calls + 1
  /\ UNCHANGED ssid

\* sd_net_start with an SSID configured.
CallStart == Call /\ ssid

\* No SSID is configured, which is looked at before anything else; or no memory
\* for the event group, whose handle then is null.
StartRefused ==
  /\ \/ Call /\ ~ssid /\ returned' = "INVALID" /\ UNCHANGED <<group, bits>>
     \/ CallStart /\ ~started /\ returned' = "NO_MEM" /\ group' = FALSE /\ bits' = {}
  /\ UNCHANGED <<app, started, retries, eventLoop, station, events, gotIp, drops>>

\* The guard against repeated initialization.
StartAgain ==
  /\ CallStart
  /\ started
  /\ returned' = "OK"
  /\ UNCHANGED <<app, started, retries, bits, group, eventLoop, station, events, gotIp, drops>>

\* A fresh event group, then a step of the set-up fails: esp_netif_init, or
\* esp_event_loop_create_default, which refuses once the loop exists; or, with the
\* loop created, one of the Wi-Fi calls after it.
StartFails ==
  /\ CallStart
  /\ ~started
  /\ group' = TRUE
  /\ bits' = {}
  /\ eventLoop' \in {eventLoop, TRUE}
  /\ returned' = "IO"
  /\ UNCHANGED <<app, started, retries, station, events, gotIp, drops>>

\* Every step succeeds: the driver runs and posts STA_START, and the task waits.
StartWaits ==
  /\ CallStart
  /\ ~started
  /\ ~eventLoop
  /\ group' = TRUE
  /\ bits' = {}
  /\ eventLoop' = TRUE
  /\ started' = TRUE
  /\ station' = "idle"
  /\ events' = Append(events, "STA_START")
  /\ gotIp' = FALSE
  /\ app' = "waiting"
  /\ UNCHANGED <<retries, returned, drops>>

\* Mutant: any bit is taken for success.
WaitEndsOnAnyBit ==
  /\ app = "waiting"
  /\ app' = "idle"
  /\ returned' = IF bits # {} THEN "OK" ELSE "IO"
  /\ UNCHANGED <<ssid, started, retries, bits, group, eventLoop, station, events, gotIp, calls, drops>>

\* Mutant: the wait has no timeout.
WaitEndsOnBitsOnly ==
  /\ app = "waiting"
  /\ bits # {}
  /\ app' = "idle"
  /\ returned' = IF "CONNECTED" \in bits THEN "OK" ELSE "IO"
  /\ UNCHANGED <<ssid, started, retries, bits, group, eventLoop, station, events, gotIp, calls, drops>>

\* xEventGroupWaitBits returns: a bit is set, or NET_TIMEOUT_MS have passed.
WaitEnds ==
  /\ app = "waiting"
  /\ app' = "idle"
  /\ returned' = IF "CONNECTED" \in bits THEN "OK" ELSE "IO"
  /\ UNCHANGED <<ssid, started, retries, bits, group, eventLoop, station, events, gotIp, calls, drops>>

\* sd_net_stop does nothing unless started.
StopIdle ==
  /\ Call
  /\ ~started
  /\ UNCHANGED <<app, started, retries, bits, group, eventLoop, station, events, returned,
                 gotIp, drops>>

\* The driver lets go of the access point, and posts that it has.
LetGo ==
  events' = IF station \in {"connecting", "associated", "up"}
            THEN Append(events, "STA_DISCONNECTED") ELSE events

\* sd_net_stop, up to esp_wifi_disconnect.  The handler may run before the task
\* goes on, and reconnect.
StopDisconnects ==
  /\ Call
  /\ started
  /\ LetGo
  /\ station' = "idle"
  /\ app' = "stopping"
  /\ UNCHANGED <<started, retries, bits, group, eventLoop, returned, gotIp, drops>>

\* esp_wifi_stop; events still pending will find the driver off.
StopEnds ==
  /\ app = "stopping"
  /\ LetGo
  /\ station' = "off"
  /\ started' = FALSE
  /\ app' = "idle"
  /\ UNCHANGED <<ssid, retries, bits, group, eventLoop, returned, gotIp, calls, drops>>

-----------------------------------------------------------------------------
(* The event task: net_event_handler, one event at a time *)

Handles(event) ==
  /\ events # << >>
  /\ Head(events) = event
  /\ events' = Tail(events)

\* esp_wifi_connect, whose result nobody looks at.
WifiConnect == station' = IF station = "idle" THEN "connecting" ELSE station

HandleStart ==
  /\ Handles("STA_START")
  /\ WifiConnect
  /\ UNCHANGED <<ssid, app, started, retries, bits, group, eventLoop, returned, gotIp, calls, drops>>

\* Mutant: the retry that makes MaxRetry is not the last.
HandleDisconnectedLate ==
  /\ Handles("STA_DISCONNECTED")
  /\ IF retries <= MaxRetry
     THEN retries' = retries + 1 /\ WifiConnect /\ UNCHANGED bits
     ELSE bits' = bits \cup {"FAILED"} /\ UNCHANGED <<retries, station>>
  /\ UNCHANGED <<ssid, app, started, group, eventLoop, returned, gotIp, calls, drops>>

\* Mutant: one retry fewer.
HandleDisconnectedEarly ==
  /\ Handles("STA_DISCONNECTED")
  /\ IF retries + 1 < MaxRetry
     THEN retries' = retries + 1 /\ WifiConnect /\ UNCHANGED bits
     ELSE bits' = bits \cup {"FAILED"} /\ UNCHANGED <<retries, station>>
  /\ UNCHANGED <<ssid, app, started, group, eventLoop, returned, gotIp, calls, drops>>

HandleDisconnected ==
  /\ Handles("STA_DISCONNECTED")
  /\ IF retries < MaxRetry
     THEN retries' = retries + 1 /\ WifiConnect /\ UNCHANGED bits
     ELSE bits' = bits \cup {"FAILED"} /\ UNCHANGED <<retries, station>>
  /\ UNCHANGED <<ssid, app, started, group, eventLoop, returned, gotIp, calls, drops>>

HandleGotIp ==
  /\ Handles("GOT_IP")
  /\ retries' = 0
  /\ bits' = bits \cup {"CONNECTED"}
  /\ UNCHANGED <<ssid, app, started, group, eventLoop, station, returned, gotIp, calls, drops>>

-----------------------------------------------------------------------------
(* The driver and the access point *)

Associates ==
  /\ station = "connecting"
  /\ station' = "associated"
  /\ UNCHANGED <<ssid, app, started, retries, bits, group, eventLoop, events, returned, gotIp,
                 calls, drops>>

AddressAssigned ==
  /\ station = "associated"
  /\ station' = "up"
  /\ events' = Append(events, "GOT_IP")
  /\ gotIp' = TRUE
  /\ UNCHANGED <<ssid, app, started, retries, bits, group, eventLoop, returned, calls, drops>>

\* Refused, out of range, or dropped.
Dropped ==
  /\ drops < MaxDrops
  /\ station \in {"connecting", "associated", "up"}
  /\ LetGo
  /\ station' = "idle"
  /\ drops' = drops + 1
  /\ UNCHANGED <<ssid, app, started, retries, bits, group, eventLoop, returned, gotIp, calls>>

Application ==
  \/ StartRefused \/ StartAgain \/ StartFails \/ StartWaits \/ WaitEnds
  \/ StopIdle \/ StopDisconnects \/ StopEnds

EventTask == HandleStart \/ HandleDisconnected \/ HandleGotIp

Driver == Associates \/ AddressAssigned \/ Dropped

\* Bound: a behaviour may end when the calls are used up.
Finished == app = "idle" /\ calls = MaxCalls /\ UNCHANGED netVars

NextNet == Application \/ EventTask \/ Driver \/ Finished

\* The wait is over after NET_TIMEOUT_MS at the latest.
SpecNet == InitNet /\ [][NextNet]_netVars /\ WF_netVars(WaitEnds)

-----------------------------------------------------------------------------
(* Properties *)

\* sd_net_start that had to wait returns SD_OK only if the access point assigned
\* an address meanwhile, whatever the event task did around the end of the wait.
WaitedOkMeansAddress ==
  [][app = "waiting" /\ app' = "idle" /\ returned' = "OK" => gotIp]_netVars

\* net_event_handler gives up on a waiting sd_net_start only after the access
\* point has turned the station away more than MaxRetry times.
GivesUpOnlyAfterRetries ==
  app = "waiting" /\ "FAILED" \in bits => drops > MaxRetry

\* sd_net_start returns, be the access point silent for ever.
StartReturns == app = "waiting" ~> app # "waiting"

\* hal/net.h, of every call of sd_net_start: it blocks until an address is
\* assigned or fails, and SD_OK means that a connection can be attempted.
OkMeansAddress ==
  [][calls' # calls /\ returned' = "OK" /\ returned # "OK" => gotIp']_netVars
=============================================================================
