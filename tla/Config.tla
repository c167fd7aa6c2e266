------------------------------- MODULE Config -------------------------------
(***************************************************************************)
(* The stored configuration and the programs that read and write it: the   *)
(* provisioning console (provisioning.c), device_config (main_config.c)    *)
(* and the firmware, over a file that several of them may have open        *)
(* (config_store_host.c) or over NVS (config_store_nvs.c).                 *)
(***************************************************************************)
EXTENDS Integers, FiniteSets

CONSTANTS
  Programs,     \* running side by side on a host; one at a time on the device
  Keys,         \* fields of sd_config_t
  Values,       \* values a field can hold
  BuiltIn,      \* the one sd_config_defaults gives it
  Garbage,      \* a value no field can hold, and bytes no save of this build wrote
  NoConfig

ASSUME ConfigAssumption ==
  /\ BuiltIn \in Values
  /\ Garbage \notin Values

VARIABLES
  backend,      \* which store is built in: "file" or "nvs"
  medium,       \* what the file or the NVS key holds
  at,           \* where each program stands
  cfg,          \* its sd_config_t
  base,         \* history: its sd_config_t when last loaded or saved
  dirty,        \* the session's flag
  acked,        \* history: what the last save to succeed acknowledged
  tried         \* history: what later saves have begun to store, or failed to

history == <<acked, tried>>
vars == <<backend, medium, at, cfg, base, dirty, history>>

Configs == [Keys -> Values]
Defaults == [k \in Keys |-> BuiltIn]

\* "short": truncated, or cut off; "foreign": of another version, or too large.
Blob(kind, c) == [kind |-> kind, cfg |-> c]
Whole(c) == Blob("whole", c)
Absent == Blob("absent", Defaults)
Short == Blob("short", [k \in Keys |-> Garbage])
Foreign == Blob("foreign", [k \in Keys |-> Garbage])

\* Types, and with them that a program only ever works with, and stores, values its
\* fields can hold: whatever another build, a save cut short or a save of another
\* program has left behind, sd_config_load yields a configuration or the defaults.
TypeOK ==
  /\ backend \in {"file", "nvs"}
  /\ medium \in {Absent, Short, Foreign} \cup {Whole(c) : c \in Configs}
  /\ at \in [Programs -> {"down", "prompt", "cli", "saving", "cliSaving"}]
  /\ cfg \in [Programs -> Configs]
  /\ base \in [Programs -> Configs]
  /\ dirty \in [Programs -> BOOLEAN]
  /\ acked \in Configs \cup {NoConfig}
  /\ tried \in SUBSET Configs

\* A fresh device, one provisioned before, or one left by another build.
Init ==
  /\ backend \in {"file", "nvs"}
  /\ medium \in {Absent, Foreign} \cup {Whole(c) : c \in Configs}
  /\ at = [p \in Programs |-> "down"]
  /\ cfg = [p \in Programs |-> Defaults]
  /\ base = cfg
  /\ dirty = [p \in Programs |-> FALSE]
  /\ acked = NoConfig
  /\ tried = {}

-----------------------------------------------------------------------------
(* sd_config_load *)

\* Mutant: the version is not compared.
LoadedAnyVersion == IF medium.kind \in {"whole", "foreign"} THEN medium.cfg ELSE Defaults

\* Nothing stored, too little, too much, or another version: the defaults.
Loaded == IF medium.kind = "whole" THEN medium.cfg ELSE Defaults

\* What a caller is left with, none of which looks at the result: what is stored, or the
\* defaults where the store cannot be read.
Loads == {Loaded, Defaults}

\* sd_provision_init, app_main.
Start(p) ==
  /\ at[p] = "down"
  /\ backend = "nvs" => \A q \in Programs : at[q] = "down"
  /\ \E c \in Loads :
       /\ cfg' = [cfg EXCEPT ![p] = c]
       /\ base' = [base EXCEPT ![p] = c]
  /\ at' = [at EXCEPT ![p] = "prompt"]
  /\ dirty' = [dirty EXCEPT ![p] = FALSE]
  /\ UNCHANGED <<medium, history>>

-----------------------------------------------------------------------------
(* Commands *)

\* sd_config_set_field: what the field cannot hold leaves it as it was.
FieldSet(c, k, v) == IF v \in Values THEN [c EXCEPT ![k] = v] ELSE c

Set(p) ==
  /\ at[p] = "prompt"
  /\ \E k \in Keys, v \in Values \cup {Garbage} :
       /\ cfg' = [cfg EXCEPT ![p] = FieldSet(@, k, v)]
       /\ dirty' = [dirty EXCEPT ![p] = @ \/ v \in Values]
  /\ UNCHANGED <<medium, at, base, history>>

\* Mutant: the flag is not set.
ResetSilently(p) ==
  /\ at[p] = "prompt"
  /\ cfg' = [cfg EXCEPT ![p] = Defaults]
  /\ UNCHANGED <<medium, at, base, dirty, history>>

Reset(p) ==
  /\ at[p] = "prompt"
  /\ cfg' = [cfg EXCEPT ![p] = Defaults]
  /\ dirty' = [dirty EXCEPT ![p] = TRUE]
  /\ UNCHANGED <<medium, at, base, history>>

\* device_config set, a host program: load, one field, and on to the save, which ends it.
CliSet(p) ==
  /\ backend = "file"
  /\ at[p] = "down"
  /\ \E c \in Loads, k \in Keys, v \in Values :
       /\ cfg' = [cfg EXCEPT ![p] = FieldSet(c, k, v)]
       /\ base' = [base EXCEPT ![p] = c]
  /\ at' = [at EXCEPT ![p] = "cli"]
  /\ dirty' = [dirty EXCEPT ![p] = FALSE]
  /\ UNCHANGED <<medium, history>>

-----------------------------------------------------------------------------
(* sd_config_save *)

Saves(p) == at[p] \in {"prompt", "cli"}

\* Back to the prompt, or out of device_config.
SaveReturns(p) ==
  at' = [at EXCEPT ![p] = IF at[p] \in {"cli", "cliSaving"} THEN "down" ELSE "prompt"]

\* "ok: saved".
Acknowledge(p) ==
  /\ acked' = cfg[p]
  /\ tried' = {}
  /\ base' = [base EXCEPT ![p] = cfg[p]]
  /\ dirty' = [dirty EXCEPT ![p] = FALSE]
  /\ SaveReturns(p)

\* No success is reported of what may now be stored, or partly stored.
Attempt(p) == tried' = tried \cup {cfg[p]} /\ UNCHANGED acked

\* fopen(path, "wb") fails, or has emptied the file.
OpenFile(p) ==
  /\ backend = "file"
  /\ Saves(p)
  /\ \/ SaveReturns(p) /\ UNCHANGED <<medium, history>>
     \/ /\ at' = [at EXCEPT ![p] = IF @ = "cli" THEN "cliSaving" ELSE "saving"]
        /\ medium' = Short
        /\ Attempt(p)
  /\ UNCHANGED <<cfg, base, dirty>>

\* fwrite fills the stream's buffer, fclose writes it out, or part of it, or nothing
\* of it over what another program has written.  A failure of the first is reported;
\* one of the second is not.
WriteAndClose(p) ==
  /\ at[p] \in {"saving", "cliSaving"}
  /\ \/ Acknowledge(p) /\ medium' \in {Whole(cfg[p]), Short, medium}
     \/ SaveReturns(p) /\ Attempt(p) /\ medium' \in {Short, medium} /\ UNCHANGED <<base, dirty>>
  /\ UNCHANGED cfg

\* Mutant: the results of nvs_set_blob and nvs_commit are not looked at.
SaveToNvsUnchecked(p) ==
  /\ backend = "nvs"
  /\ Saves(p)
  /\ Acknowledge(p)
  /\ medium' \in {medium, Whole(cfg[p])}
  /\ UNCHANGED cfg

\* NVS replaces a blob as a whole or not at all.  After a failure of nvs_commit
\* the new one may nevertheless be there.
SaveToNvs(p) ==
  /\ backend = "nvs"
  /\ Saves(p)
  /\ \/ Acknowledge(p) /\ medium' = Whole(cfg[p])
     \/ /\ SaveReturns(p)
        /\ Attempt(p)
        /\ medium' \in {medium, Whole(cfg[p])}
        /\ UNCHANGED <<base, dirty>>
  /\ UNCHANGED cfg

-----------------------------------------------------------------------------
\* End of input, a reset of the device, or a program killed anywhere.
Stop(p) ==
  /\ at[p] # "down"
  /\ at' = [at EXCEPT ![p] = "down"]
  /\ UNCHANGED <<medium, cfg, base, dirty, history>>

\* app_main: nvs_flash_init finds the partition unusable, and it is erased.
EraseNvs ==
  /\ backend = "nvs"
  /\ \A p \in Programs : at[p] = "down"
  /\ medium' = Absent
  /\ acked' = NoConfig
  /\ tried' = {}
  /\ UNCHANGED <<at, cfg, base, dirty>>

Next ==
  /\ \/ \E p \in Programs :
          \/ Start(p) \/ Set(p) \/ Reset(p) \/ CliSet(p)
          \/ OpenFile(p) \/ WriteAndClose(p) \/ SaveToNvs(p) \/ Stop(p)
     \/ EraseNvs
  /\ UNCHANGED backend

Spec == Init /\ [][Next]_vars

-----------------------------------------------------------------------------
(* Properties *)

\* provisioning.h, of the flag: unsaved changes since load or save.  A session that
\* is not dirty works with what it last loaded or saved, failed saves included.
CleanMeansUnchanged ==
  \A p \in Programs : at[p] = "prompt" /\ ~dirty[p] => cfg[p] = base[p]

\* test_provisioning.c, test_save_persists: after "ok: saved" a fresh load sees
\* what was saved, no other save having begun.  (config_store.h: the write replaces
\* any previous blob.)
SavedIsStored == acked # NoConfig /\ tried = {} => medium = Whole(acked)

\* As far as the device goes: whatever saves fail, sessions end and resets strike after
\* an "ok: saved", NVS holds that configuration or one that a later save attempted,
\* never nothing and never one of before.  (Until the partition is erased.)
NvsKeepsAckedOrTried ==
  backend = "nvs" /\ acked # NoConfig =>
    \E c \in tried \cup {acked} : medium = Whole(c)
=============================================================================
