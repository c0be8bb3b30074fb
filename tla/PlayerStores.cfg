\* Two threads on one adapter, two players and one wallet, three calls of two
\* attempts each, over a database that comes and goes; or the memory store.
SPECIFICATION Spec
CONSTANTS
  p1 = p1
  p2 = p2
  Players <- MCPlayers
  Wallets = {w1}
  Tokens = {s1}
  Threads = {t1, t2}
  Backends = {"postgres", "memory"}
  Statements <- MCStatements
  Attempts = 2
  MaxPoints = 1
  MaxCalls = 3
  None = None
INVARIANTS
  TablesAreSound
  EveryResultIsAccountedFor
\* Of this instance the code does not keep these; each can be put in the place of
\* those above:
\*   ResultsCountOnce             a statement whose answer was lost is sent again
\*   RowsCanBeLoaded              results add up beyond MAX_POINTS
\*   WalletsAreUniqueEverywhere   the memory store lets two players share a wallet
