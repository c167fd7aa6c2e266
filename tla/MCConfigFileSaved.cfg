SPECIFICATION Spec
CONSTANTS
  Programs = {console}
  Keys = {host, ssid}
  Values = {unset, v1}
  BuiltIn = unset
  Garbage = garbage
  NoConfig = NoConfig
INVARIANTS SavedIsStored
