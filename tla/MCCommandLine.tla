---------------------------- MODULE MCCommandLine ----------------------------
(* CommandLine for TLC: one wallet holds everything at first, verification is *)
(* on with a chain of two providers, or off and forced on by a command.       *)
EXTENDS CommandLine

CONSTANTS w1, w2

MCWallets == {w1, w2}
MCHoldings == {[a \in Assets |-> w1]}
MCSettings ==
  {[on |-> TRUE, failover |-> TRUE, chain |-> <<"null", "das">>],
   [on |-> FALSE, failover |-> FALSE, chain |-> <<"das">>]}
\* Another: a chain whose providers may all be down.
MCFailover == {[on |-> TRUE, failover |-> TRUE, chain |-> <<"das", "das">>]}
MCEarlier == {w1}
MCNamed == {w1}
MCKeyWallets == {w2}
=============================================================================
