\* Two processes, two commands, two wallets and three NFTs, one of which the
\* indexer describes oddly, and one sale, crash or record that fails.
SPECIFICATION FairSpec
CONSTANTS
  w1 = w1
  w2 = w2
  Wallets <- MCWallets
  LastAsset = 3
  OddAssets = {2}
  MaxPage = 3
  MaxPages = 2
  MaxRoster = 2
  Settings <- MCSettings
  Holdings <- MCHoldings
  None = None
  Processes = {1, 2}
  Earlier <- MCEarlier
  Named <- MCNamed
  MaxTokens = 2
  Commands = {"connect", "key", "play", "whoami", "wallet", "disconnect"}
  KeyWallets <- MCKeyWallets
  Limits = {3}
  Wanted = {1}
  MaxCommands = 2
  MaxMishaps = 1
INVARIANTS
  TypeOK
  GrantsAreEarned
  AnswersAreHonest
  AuditBalances
PROPERTY
  CommandsEnd
CHECK_DEADLOCK FALSE
