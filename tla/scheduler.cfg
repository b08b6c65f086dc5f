\* Mail that is urgent, normal or on hold, two setbacks; two nodes, and two
\* mailers, with normal mail and one setback.
SPECIFICATION MCSpec
CONSTANTS
  Part = {"live", "nodes", "two"}
  n1 = n1
  n2 = n2
  mailer1 = mailer1
  mailer2 = mailer2
  Node <- MCNode
  Mailer <- MCMailer
  Ext = {".clo", ".hlo", ".flo"}
  MaxDialAttempts = 2
  MaxSetbacks = 2
  Env = {"crash", "incoming", "suspend", "edit"}
  None = None
INVARIANTS
  SuspendAfterMax
  NoBusyLeft
PROPERTIES
  RetryDelay
  DueMailCalled
