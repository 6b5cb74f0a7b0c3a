CONSTANTS
  a = a
  b = b
  w = w
  t1 = t1
  t2 = t2
  Run = {a}
  Workflow = {w}
  WorkflowOf <- OneWorkflow
  Kind <- Gated
  Slot = {t1}
  MaxRetries = 1
  MaxShocks = 2
SPECIFICATION FairSpec
INVARIANTS TypeOK
PROPERTIES ActiveRunsSettle TickEnds
CHECK_DEADLOCK FALSE
