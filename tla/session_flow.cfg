\* A flow file with two files, and a connection that is cut.
SPECIFICATION MCSpec
CONSTANTS
  Part = {"sending"}
  alpha = alpha
  beta = beta
  f1 = f1
  f2 = f2
  f3 = f3
  g1 = g1
  n1 = n1
  n2 = n2
  n3 = n3
  m1 = m1
  None = None
  Node <- MCNode
  Peer <- MCPeer
  File <- MCFile
  Name <- MCName
  Size <- MCSize
  NameOf <- MCNameOf
  Spool <- FlowOnlySpool
  Netmail <- FlowOnlyNetmail
  Flow <- FlowOnlyFlow
  Refuse = {}
  Window = 4
  MaxSessions = 1
  Faults = {"cut"}
INVARIANTS
  FlowOutlivesFailure
