---------------------------- MODULE MCConversation ----------------------------
\* Small instances of Conversation.  Mints are listed in an order, so they are
\* not interchangeable.
EXTENDS Conversation, TLC

Interchangeable ==
  Permutations(Users) \cup Permutations(Wallets)
    \cup Permutations(Nonces) \cup Permutations(Tokens)
=============================================================================
