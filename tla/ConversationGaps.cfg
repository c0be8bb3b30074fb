\* One player: a second match beside the board of the first, a roster listed again,
\* and a session store that fails.
\* The code does not keep these: leave one in to see how.
SPECIFICATION Spec
CONSTANTS
  Users = {alice}
  Wallets = {w1, w2}
  Mints = {m1, m2}
  Nonces = {n1}
  Tokens = {s1}
  MaxUsers = 1
  MaxMatches = 2
  None = None
  Starter = Starter
SYMMETRY Interchangeable
INVARIANT
  WholeMatchIsOneMessage
PROPERTIES
  PickIsWhatWasShown
  DisconnectEndsTheSession
