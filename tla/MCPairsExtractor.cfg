CONSTANTS
  Path <- MCPath
  Configs <- MCConfigs
  MayFail <- Calls

SPECIFICATION Spec

INVARIANTS
  ReleasedOnce
  SuccessMeansWritten

PROPERTY
  LifecycleObeyed
