\* A peer that goes on from where its connection broke.
SPECIFICATION MCSpec
CONSTANTS
  Part = {"peers"}
  p1 = p1
  p2 = p2
  s1 = s1
  s2 = s2
  f1 = f1
  f2 = f2
  f3 = f3
  na = na
  nb = nb
  nc = nc
  pub1 = pub1
  pub2 = pub2
  out1 = out1
  out2 = out2
  gone = gone
  Public <- MCPublic
  Mail <- MCMail
  Partial <- MCPartial
  Asked <- MCAsked
  Vanish <- MCVanish
  None = None
  Secure = {p1}
  Peer <- OnePeer
  Slot <- OneSlot
  PeerOf <- OnePeerOf
  File <- OneFile
  Name <- OneName
  NameOf <- OneNameOf
  Size <- OneSize
  Files <- OneFiles
  Later = {}
  Env = {"resume"}
  MaxCuts = 1
INVARIANTS
  InboundWhole
CHECK_DEADLOCK FALSE
