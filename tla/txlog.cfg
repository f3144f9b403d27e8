SPECIFICATION FairSpec
CONSTANTS
  m1 = m1
  m2 = m2
  m3 = m3
  r1 = r1
  r2 = r2
  ann = ann
  bob = bob
  Messages = {m1, m2, m3}
  NoMessage = NoMessage
  Requests = {r1, r2}
  MessagesOf <- MCMessagesOf
  Recipient <- MCRecipient
  Email = {m1, m3}
  Workers = {w1, w2}
  Bounces = {b1}
  QueueCap = 1
  MaxFaults = 1
  MaxCrashes = 1
INVARIANTS TypeOK StatusIsTrue ToldOncePerChange
PROPERTIES NotMovedBack QueuedSettles
CHECK_DEADLOCK FALSE
