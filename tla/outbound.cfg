\* Two mails in flow files of two flavours, two setbacks; and names of eight
\* addresses in a directory of two files.  Nothing is left to do when all the
\* mail is sent and no setback may come any more.
SPECIFICATION MCSpec
CONSTANTS
  Part = {"calls", "edits", "names"}
  m1 = m1
  m2 = m2
  call = call
  incoming = incoming
  Mail <- MCMail
  Flavors <- MCFlavors
  Session <- MCSession
  Calling <- MCCalling
  Edits = {"queue_poll", "flavor", "delete"}
  Faults = {"scan"}
  MaxSetbacks = 2
  None = None
  Addr <- MCAddr
  Foreign <- MCForeign
  DefaultZone = 2
  PollFlavor = {"normal", "hold", "crash", "direct"}
  MaxFiles = 2
INVARIANTS
  PollsQueued
  OneAddressee
PROPERTIES
  CallsForgetOnlyUnread
  QueueDrains
CHECK_DEADLOCK FALSE
