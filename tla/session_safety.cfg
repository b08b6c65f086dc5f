\* Mail both ways, two sessions: cuts; crashes; and a beta that refuses to send,
\* with every fault.
SPECIFICATION MCSpec
CONSTANTS
  Part = {"sending", "crashing", "refusing"}
  alpha = alpha
  beta = beta
  f1 = f1
  f2 = f2
  f3 = f3
  g1 = g1
  n1 = n1
  n2 = n2
  n3 = n3
  m1 = m1
  None = None
  Node <- MCNode
  Peer <- MCPeer
  File <- MCFile
  Name <- MCName
  Size <- MCSize
  NameOf <- MCNameOf
  Spool <- DuplexSpool
  Netmail <- DuplexNetmail
  Flow <- DuplexFlow
  Refuse = {}
  Window = 2
  MaxSessions = 2
  Faults = {"cut"}
INVARIANTS
  TypeOK
  DeletedOnlyIfDelivered
  InboundComplete
  EobAfterFiles
  RefusingKeepsMail
PROPERTIES
  ImplementsStoreAndForward
