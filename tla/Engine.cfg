CONSTANTS
  MaxOut = 2
  MaxIn = 1
  MaxRuns = 1
  MaxSignals = 1
  Persistent = TRUE
  Events = TRUE
  Native = FALSE
  Modes = {"default", "half", "split"}
  KnownGateway = {FALSE}
  SuffixForms = {"none", "plain"}
  MaxAcks = 1
  MaxFault = 2
  PKT_BUF_SZ = 16
  FromPppd <- Packets
  ToPppd <- Packets
  FramesUp = 2
  FramesDown = 3
  Flags = 2
SPECIFICATION MCSpec
CHECK_DEADLOCK FALSE
INVARIANTS ThreadsSound HostSound FramingSound
PROPERTIES BackendsSound LinkSound
