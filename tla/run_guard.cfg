CONSTANTS
  a = a
  b = b
  w = w
  t1 = t1
  t2 = t2
  Run = {a, b}
  Workflow = {w}
  WorkflowOf <- OneWorkflow
  Kind <- Gated
  Slot = {t1, t2}
  MaxRetries = 0
  MaxShocks = 1
SPECIFICATION Spec
SYMMETRY RunSymmetry
INVARIANTS OneActivePerWorkflow
CHECK_DEADLOCK FALSE
