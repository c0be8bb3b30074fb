\* Two players and room for one conversation: two challenges, two wallets, an
\* NFT that changes hands, two matches.
SPECIFICATION Spec
CONSTANTS
  Users = {alice, bob}
  Wallets = {w1, w2}
  Mints = {m1}
  Nonces = {n1, n2}
  Tokens = {s1, s2}
  MaxUsers = 1
  MaxMatches = 2
  None = None
  Starter = Starter
SYMMETRY Interchangeable
INVARIANTS
  StoreIsBounded
  ArmedCanPay
PROPERTIES
  FightsOnlyWhatItHolds
  OnlyTheLastChallengeConnects
