SPECIFICATION Spec
CONSTANTS
  Programs = {console, cli}
  Keys = {host, ssid}
  Values = {unset, v1}
  BuiltIn = unset
  Garbage = garbage
  NoConfig = NoConfig
INVARIANTS TypeOK CleanMeansUnchanged NvsKeepsAckedOrTried
