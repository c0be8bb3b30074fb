--------------------------- MODULE WalletProviders ---------------------------
(***************************************************************************)
(* Who holds which NFT, and how the providers of plugins/adapters.py read  *)
(* it: the Metaplex DAS provider page by page, the null provider not at    *)
(* all, and the failover chain one provider after another.  A look is one  *)
(* call of a provider chain, "owns" or "list", and is kept in the frame of *)
(* the command that makes it.  A page is read at one moment, or its        *)
(* retried call raises; assets move between two pages.                     *)
(***************************************************************************)
EXTENDS Integers, FiniteSets, SequencesExt

CONSTANTS Wallets,
          LastAsset,   \* assets are numbers: a wallet's are listed in their order
          OddAssets,   \* those whose item _to_nft cannot map
          MaxPage,     \* MAX_PAGE
          MaxPages,    \* the pages one listing reads at most
          MaxRoster,   \* MAX_ROSTER
          Settings,    \* the configurations of a run: see Configured
          None

Assets == 1 .. LastAsset
ASSUME ProvidersAreValid ==
  /\ LastAsset \in Nat /\ OddAssets \subseteq Assets
  /\ {MaxPage, MaxPages, MaxRoster} \subseteq Nat \ {0}
  /\ None \notin Wallets

\* The wallet_verification toggle, and the provider: one, or a failover chain.
Configured(s) ==
  /\ s.on \in BOOLEAN /\ s.failover \in BOOLEAN
  /\ Len(s.chain) \in 1 .. 4 /\ ToSet(s.chain) \subseteq {"das", "null"}
  /\ ~s.failover => Len(s.chain) = 1
ASSUME SettingsAreValid == \A s \in Settings : Configured(s)

VARIABLES settings,
          owner       \* asset -> the wallet that holds it, or None

Held(w, own) == {a \in Assets : own[a] = w}
\* Where an asset stands in the list of what its wallet holds.
Place(a) == Cardinality({b \in Held(owner[a], owner) : b <= a})
Lesser(i, j) == IF i < j THEN i ELSE j

\* The chain a command asks: the null provider when verification is off.
Chain(on) == IF on THEN settings.chain ELSE <<"null">>
IsChainOn(on) == on /\ settings.failover

LookLimit(look) == IF look.purpose = "owns" THEN MaxPage ELSE look.limit
PageSize(look) == Lesser(LookLimit(look) - look.many, MaxPage)

\* What the indexer answers to "page p of this size".
Listing(w, first, last) == {a \in Held(w, owner) : Place(a) \in first .. last}
PageOfZeroBased(w, page, size) == Listing(w, page * size + 1, (page + 1) * size)
PageOf(w, page, size) == Listing(w, (page - 1) * size + 1, page * size)

\* A page is no longer than was asked for, so the limit never cuts one short;
\* pages may overlap, so what has been found is counted apart.
Mapped(items) == items \ OddAssets
Collected(look, items) == look.found \cup Mapped(items)
Counted(look, items) == look.many + Cardinality(Mapped(items))

\* The page moves on although every item of it may have been skipped.
NextPage(look) == look.page + 1

IsListedUnbounded(look, items) == items = {} \/ Counted(look, items) >= LookLimit(look)
\* The loop's own end: an empty page, enough found, or too many pages.
IsListed(look, items) ==
  \/ items = {}
  \/ Counted(look, items) >= LookLimit(look)
  \/ NextPage(look) > MaxPages

\* An answer of one provider.
Unavailable == [kind |-> "unavailable"]
Raised == [kind |-> "raised"]
Listed(found, many) == [kind |-> "listed", found |-> found, many |-> many]
OwnedOrNot(look, found) == IF look.want \in found THEN [kind |-> "owned"] ELSE [kind |-> "not_owned"]

\* verify_ownership turns a provider's failure into "unavailable".
AnswerIsNo(look) == IF look.purpose = "owns" THEN [kind |-> "not_owned"] ELSE Raised
AnswerOfFailure(look) == IF look.purpose = "owns" THEN Unavailable ELSE Raised
AnswerOfPages(look, items) ==
  IF look.purpose = "owns" THEN OwnedOrNot(look, Collected(look, items))
  ELSE Listed(Collected(look, items), Counted(look, items))
AnswerOfNull(look) == IF look.purpose = "owns" THEN Unavailable ELSE Listed({}, 0)

\* The chain asks its next provider unless it was given a real answer.
FallsThrough(look, answer) ==
  /\ IsChainOn(look.on) /\ look.k < Len(Chain(look.on))
  /\ \/ answer.kind \in {"unavailable", "raised"}
     \/ answer.kind = "listed" /\ answer.found = {}

\* What the whole chain says when this answer is its last.
ChainSays(look, answer) ==
  IF IsChainOn(look.on) /\ answer.kind = "raised" THEN Listed({}, 0) ELSE answer

FirstLook(look) == [look EXCEPT !.k = 1, !.page = 1, !.found = {}, !.many = 0, !.answer = None]
NextLookAtTheSame(look) == [FirstLook(look) EXCEPT !.k = look.k]
NextLook(look) == [FirstLook(look) EXCEPT !.k = look.k + 1]
=============================================================================
