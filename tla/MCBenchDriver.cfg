CONSTANTS
  Reference = "CFL_adv"
  Adapters = {"CFL_adv", "CFL"}
  Options <- MCOptions
  Value = {"n", "m"}
  MayFail <- Calls

SPECIFICATION Spec

INVARIANTS
  TypeOK
  RoundsSavedOnce
  VerdictsHonest
  NothingHeldAtReturn

PROPERTIES
  LifecycleObeyed
  Terminates
