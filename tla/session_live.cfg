\* Every pair of links with two passwords, mail or none on each side; and a
\* batch of five blocks through a TCP buffer of one frame.
SPECIFICATION MCSpec
CONSTANTS
  Client = Client
  Server = Server
  p1 = p1
  p2 = p2
  Password <- MCPassword
  NoPassword = NoPassword
  Unknown = Unknown
  Impatient = FALSE
  f1 = f1
  f2 = f2
  f3 = f3
  g1 = g1
  n1 = n1
  n2 = n2
  n3 = n3
  m1 = m1
  None = None
INVARIANTS
  PasswordProtects
  NoTransferFrameDropped
PROPERTIES
  MatchingSidesExchange
  HandshakesEnd
  TransfersEnd
