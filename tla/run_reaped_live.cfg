CONSTANTS
  a = a
  b = b
  w = w
  t1 = t1
  t2 = t2
  Run = {a}
  Workflow = {w}
  WorkflowOf <- OneWorkflow
  Kind <- WorkOnly
  Slot = {t1}
  MaxRetries = 0
  MaxShocks = 0
SPECIFICATION Spec
PROPERTIES ReaperSparesLive
CHECK_DEADLOCK FALSE
