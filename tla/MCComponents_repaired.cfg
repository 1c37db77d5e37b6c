SPECIFICATION ComponentSpec
\* The bound on installations stops the model.
CHECK_DEADLOCK FALSE
CONSTANTS
  Fabrics = {f1}
  NeoForges = {n1}
  Libraries = {x1}
  Needs <- MCNeeds
  MaxAttempts = 2
  MaxRemovals = 0
  MaxInstalls = 3
PROPERTIES BaseIsRepaired
