SPECIFICATION Spec
CONSTANTS
  Configs <- OneReceiver
  SubMax = 2
  None = None
INVARIANT NonZeroMeansStartup
