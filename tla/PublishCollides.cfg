CONSTANTS
  MayFail = {"poll"}
  MaxChanges = 4

SPECIFICATION Spec

INVARIANT CallbackReadsLivePid
