CONSTANTS
  B = B
  M = M
  L = L
  S = S
  NoNode = NoNode
  Node = {B, M, L}
  Broker = B
  Inviter <- Line
  Eager = {M}
  Talks = {}
  MaxEvents = 0
  Mergers = {}
  Offered = {}
  Mortal = {}
  MaxDeaths = 1
SPECIFICATION FairSpec
PROPERTIES InviteesAccepted
CHECK_DEADLOCK FALSE
