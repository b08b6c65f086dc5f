\* Two peers with names of their own, two cuts; a cut or a crash and what comes
\* of it; and the requests of one session.  Nothing is left to do when all
\* files have arrived and the sessions are over.
SPECIFICATION MCSpec
CONSTANTS
  Part = {"peers", "recovery", "requests"}
  p1 = p1
  p2 = p2
  s1 = s1
  s2 = s2
  f1 = f1
  f2 = f2
  f3 = f3
  na = na
  nb = nb
  nc = nc
  pub1 = pub1
  pub2 = pub2
  out1 = out1
  out2 = out2
  gone = gone
  Public <- MCPublic
  Mail <- MCMail
  Partial <- MCPartial
  Asked <- MCAsked
  Vanish <- MCVanish
  None = None
  Secure = {p1}
  Peer <- MCPeer
  Slot <- MCSlot
  PeerOf <- MCPeerOf
  File <- MCFile
  Name <- MCName
  NameOf <- MCNameOf
  Size <- MCSize
  Files <- MCFiles
  Later = {nb}
  Env = {}
  MaxCuts = 2
INVARIANTS
  InboundWhole
  ConfirmedKept
  EarlyAnswered
PROPERTIES
  InboundNotWritten
  RecoveredFilesTaken
CHECK_DEADLOCK FALSE
