--------------------------- MODULE ProposerSelection ---------------------------
(***************************************************************************)
(* How the shared `proposer` context value is chosen on a workgroup page.  *)
(*                                                                         *)
(*   - PageContainer (LayoutDefault.tsx) holds the value.  Its effect sets *)
(*     a LocalWalletProposer whenever the wallet context changes and a     *)
(*     public key is connected.                                            *)
(*   - WorkGroupStatus (and RegisterDeviceButtonActive on the nodes page)  *)
(*     run the react-query query ["governance", group, wallet].  Its       *)
(*     onSuccess sets a RealmsProposer when the governance lookup finds    *)
(*     the DAO whose treasury is the group authority and the wallet is not *)
(*     the authority itself.                                               *)
(*   - realmsGovernanceFromWorkgroup (governanceHelpers.ts) is the lookup. *)
(*                                                                         *)
(* react-query semantics used (defaults set in pages/_app.tsx): a query is *)
(* cached per key; switching to a key whose data is fresh starts no fetch; *)
(* onSuccess runs only when a fetch of the observed key succeeds; retry is *)
(* off; data goes stale after staleTime; unobserved stale data is dropped *)
(* after cacheTime; a stale active query refetches on network reconnect.   *)
(* The page's workgroup is fixed for a page load                          *)
(* (switching workgroup is a full navigation).                             *)
(***************************************************************************)
EXTENDS Integers, Sequences, FiniteSets, FiniteSetsExt

CONSTANTS
    Wallets,          \* wallet public keys the user may connect
    MintAuth,         \* mint authorities of tokens a wallet may hold
    MintAuthorities,  \* MintAuthorities[w]: those of w's token accounts, in RPC order
    GroupAuthority,   \* the page's group.groupAuthority
    NoKey,            \* wallet.publicKey when disconnected
    Undefined         \* the lookup found no governance

VARIABLES
    key,        \* wallet.publicKey
    proposer,   \* the ProposerContext value
    loaded,     \* the workgroup query has returned the group
    query       \* react-query state of each governance query key

vars == <<key, proposer, loaded, query>>

(* getNativeTreasuryAddress: a PDA of the governance, so injective.       *)
Treasury(m) == <<"treasury", m>>

Keys == BOOLEAN \X (Wallets \cup {NoKey})
Cur == <<loaded, key>>

Local(w) == [kind |-> "local", gov |-> Undefined, w |-> w]
Realms(gov, w) == [kind |-> "realms", gov |-> gov, w |-> w]
NoProposer == [kind |-> "none", gov |-> Undefined, w |-> NoKey]

(* realmsGovernanceFromWorkgroup: the first mint authority among the       *)
(* wallet's token accounts whose native treasury is the group authority.   *)
GovLookup(w) ==
    LET ms == MintAuthorities[w]
        hits == {i \in 1..Len(ms) : Treasury(ms[i]) = GroupAuthority}
    IN IF hits = {} THEN Undefined ELSE ms[Min(hits)]

(* The query function's result for a key: undefined until the group has   *)
(* loaded and a wallet is connected.                                      *)
QueryData(k) == IF k[1] /\ k[2] # NoKey THEN GovLookup(k[2]) ELSE Undefined

(* A render that observes query key k starts a fetch unless its data is   *)
(* fresh or a fetch is already running.                                   *)
Observe(k) ==
    query' = IF query[k] \in {"idle", "stale"}
             THEN [query EXCEPT ![k] = "fetching"] ELSE query

-----------------------------------------------------------------------------

(* PageContainer's useEffect on [connection, setProposer, wallet]: a      *)
(* LocalWalletProposer for a connected wallet.  React flushes a commit's  *)
(* passive effects before it handles any later update, so the effect is   *)
(* part of the step that changes the wallet.                              *)
(* Mutant: the effect without its `if (wallet.publicKey)` check.          *)
PageContainerEffectUnchecked(w) == Local(w)

PageContainerEffect(w) == IF w # NoKey THEN Local(w) ELSE proposer

(* The wallet adapter connects, switches account or disconnects.  The new *)
(* wallet context re-renders the page: PageContainer's effect runs and    *)
(* the governance query's key changes.                                    *)
WalletChange(w) ==
    /\ w # key
    /\ key' = w
    /\ proposer' = PageContainerEffect(w)
    /\ Observe(<<loaded, w>>)
    /\ UNCHANGED loaded

(* The ["workgroup", key] query returns the group.                        *)
GroupLoaded ==
    /\ ~loaded
    /\ loaded' = TRUE
    /\ Observe(<<TRUE, key>>)
    /\ UNCHANGED <<key, proposer>>

(* onSuccess, with the wallet and group of the current render.            *)
OnSuccess(governance) ==
    IF governance # Undefined /\ key # NoKey /\ loaded /\ key # GroupAuthority
    THEN Realms(governance, key) ELSE proposer

(* Mutant: onSuccess also runs for a key the page no longer observes.     *)
GovernanceResolvedAnyKey(k) ==
    /\ query[k] = "fetching"
    /\ query' = [query EXCEPT ![k] = "fresh"]
    /\ proposer' = OnSuccess(QueryData(k))
    /\ UNCHANGED <<key, loaded>>

(* The governance fetch for key k succeeds.  Only the key the page        *)
(* observes delivers onSuccess; others just fill the cache.               *)
GovernanceResolved(k) ==
    /\ query[k] = "fetching"
    /\ query' = [query EXCEPT ![k] = "fresh"]
    /\ proposer' = IF k = Cur THEN OnSuccess(QueryData(k)) ELSE proposer
    /\ UNCHANGED <<key, loaded>>

(* An RPC of the lookup fails (retry is off); the error is only logged.   *)
GovernanceFailed(k) ==
    /\ query[k] = "fetching"
    /\ query' = [query EXCEPT ![k] = "stale"]
    /\ UNCHANGED <<key, proposer, loaded>>

(* staleTime passes for cached data.                                      *)
GoStale(k) ==
    /\ query[k] = "fresh"
    /\ query' = [query EXCEPT ![k] = "stale"]
    /\ UNCHANGED <<key, proposer, loaded>>

(* cacheTime passes for a stale query no render observes: it is removed  *)
(* from the cache, so observing it again starts a fetch.                  *)
GarbageCollect(k) ==
    /\ k # Cur
    /\ query[k] = "stale"
    /\ query' = [query EXCEPT ![k] = "idle"]
    /\ UNCHANGED <<key, proposer, loaded>>

(* The browser comes back online: the observed stale query refetches.     *)
Reconnect ==
    /\ query[Cur] = "stale"
    /\ query' = [query EXCEPT ![Cur] = "fetching"]
    /\ UNCHANGED <<key, proposer, loaded>>

Init ==
    /\ key = NoKey
    /\ proposer = NoProposer
    /\ loaded = FALSE
    /\ query = [k \in Keys |-> IF k = <<FALSE, NoKey>> THEN "fetching" ELSE "idle"]

Next ==
    \/ \E w \in Wallets \cup {NoKey} : WalletChange(w)
    \/ GroupLoaded
    \/ \E k \in Keys : GovernanceResolved(k) \/ GovernanceFailed(k) \/ GoStale(k)
                       \/ GarbageCollect(k)
    \/ Reconnect

Spec == Init /\ [][Next]_vars

-----------------------------------------------------------------------------
Proposers == {NoProposer} \cup {Local(w) : w \in Wallets}
             \cup {Realms(m, w) : m \in MintAuth, w \in Wallets}

TypeOK ==
    /\ key \in Wallets \cup {NoKey}
    /\ proposer \in Proposers
    /\ loaded \in BOOLEAN
    /\ query \in [Keys -> {"idle", "fetching", "fresh", "stale"}]

(* A RealmsProposer, while a wallet is connected, is the governance the   *)
(* lookup finds for the connected wallet, holding that                    *)
(* wallet's provider: a lookup started for an earlier wallet never        *)
(* installs its governance for a later one (WorkGroupStatus onSuccess).   *)
RealmsProposerOfConnectedWallet ==
    (proposer.kind = "realms" /\ key # NoKey)
        => proposer = Realms(GovLookup(key), key)

(* Whenever the page has settled (group loaded, the observed              *)
(* governance query holding fresh data), the proposer is the one the code *)
(* means for this wallet and group: the DAO's RealmsProposer when the     *)
(* lookup finds one and the wallet is not itself the authority, otherwise *)
(* the wallet's own LocalWalletProposer.                                  *)
Intended ==
    IF GovLookup(key) # Undefined /\ key # GroupAuthority
    THEN Realms(GovLookup(key), key) ELSE Local(key)

SettledProposerIsIntended ==
    (loaded /\ key # NoKey /\ query[Cur] = "fresh")
        => proposer = Intended
====
