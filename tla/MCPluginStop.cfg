SPECIFICATION LifecycleSpec
CONSTANTS
  MaxSessions = 2
  Grace = 1
  Settings <- MCSettings
  Budgets <- MCBudgets
INVARIANTS
  StopDisconnects
