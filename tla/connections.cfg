CONSTANTS
  B = B
  M = M
  L = L
  S = S
  NoNode = NoNode
  Node = {B, M, L, S}
  Broker = B
  Inviter <- Family
  Eager = {}
  Talks <- Siblings
  MaxEvents = 1
  Mergers = {L, S}
  Offered = {L}
  Mortal = {L, M}
  MaxDeaths = 1
SPECIFICATION FairSpec
INVARIANTS QueuedIsAwaited PeersAgree LostMeansDead
PROPERTIES EventsArrive MergeSettles InviteesAccepted
CHECK_DEADLOCK FALSE
