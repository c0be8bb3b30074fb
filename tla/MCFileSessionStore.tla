-------------------------- MODULE MCFileSessionStore --------------------------
\* Small instances of FileSessionStore: tokens, wallets and processes are
\* interchangeable.
EXTENDS FileSessionStore, TLC

Interchangeable == Permutations(Tokens) \cup Permutations(Wallets) \cup Permutations(Processes)
=============================================================================
