\* A chain of two providers that may both be down, pages that overlap, a session that
\* ends within a command, and a crash within the saving of the key.
\* The code does not keep these: leave one in to see how.
SPECIFICATION Spec
CONSTANTS
  w1 = w1
  w2 = w2
  Wallets <- MCWallets
  LastAsset = 2
  OddAssets = {}
  MaxPage = 3
  MaxPages = 10
  MaxRoster = 3
  Settings <- MCFailover
  Holdings <- MCHoldings
  None = None
  Processes = {1, 2}
  Earlier <- MCEarlier
  Named <- MCNamed
  MaxTokens = 2
  Commands = {"connect", "key", "play", "whoami", "wallet", "disconnect"}
  KeyWallets <- MCKeyWallets
  Limits = {3}
  Wanted = {1}
  MaxCommands = 2
  MaxMishaps = 1
CHECK_DEADLOCK FALSE
INVARIANTS
  KeyCanBeLoaded
  WhoAmIIsCaught
  OutageIsNotAnEmptyRoster
  RosterListsEachOnce
