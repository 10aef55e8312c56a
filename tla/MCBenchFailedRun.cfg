CONSTANTS
  Reference = "CFL_adv"
  Adapters = {"CFL_adv", "CFL"}
  Options <- MCOptions
  Value = {"n"}
  MayFail = {"run"}

SPECIFICATION Spec

INVARIANT
  SavedResultsValid
