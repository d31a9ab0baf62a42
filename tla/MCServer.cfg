SPECIFICATION Spec
CONSTANTS
  Modulus = 4
  MaxTime = 5
  MaxTasks = 3
  Clients = {c1, c2}
  Servers = {r1}
  Descriptors = 5
  Delays = {0, 2}
  Budgets <- CallBudgets
INVARIANTS
  TypeOK
  TasksConserved
  NeverEarly
  ListenerDescriptors
PROPERTIES
  ImmediateTasksRun
  DueTasksRun
  ClientsAccepted
CHECK_DEADLOCK FALSE
