--------------------------- MODULE OnboardingWizard ---------------------------
(***************************************************************************)
(* The "Create Workgroup" wizard (components/OnBoardingWizard.tsx) and the *)
(* proposer context it shares with PageContainer (LayoutDefault.tsx).      *)
(*                                                                         *)
(* The checkTokens effect reads the license-token accounts of              *)
(* proposer.payer() each time the proposer changes, and stores whatever   *)
(* response arrives, with no check that it belongs to the current payer.  *)
(* handleCreateWorkGroup deposits the first of the stored accounts into    *)
(* the new group, whose authority is the current proposer's payer.         *)
(***************************************************************************)
EXTENDS Integers, FiniteSets

CONSTANTS
    Wallets,      \* wallet public keys
    Govs,         \* governance keys a user may paste
    HasAccount,   \* owners holding a license-token account
    Licensed,     \* owners whose first license-token account is non-empty
    NoKey,        \* wallet.publicKey when disconnected
    Undefined     \* an unset React state value

VARIABLES
    key,            \* wallet.publicKey
    proposer,       \* the ProposerContext value
    mode,           \* workgroupCreateMode: "", "solo" or "dao"
    daoKey,         \* the pasted governance key, or ""
    licenseTokens,  \* owner of the stored getParsedTokenAccountsByOwner response
    inflight,       \* payers whose checkTokens request has not answered
    sent            \* createWorkgroup operations the wizard has sent

vars == <<key, proposer, mode, daoKey, licenseTokens, inflight, sent>>

(* getNativeTreasuryAddress: a PDA of the governance, so injective.       *)
Treasury(g) == <<"treasury", g>>
Owners == Wallets \cup {Treasury(g) : g \in Govs}

Local(w) == [kind |-> "local", payer |-> w]
Realms(g) == [kind |-> "realms", payer |-> Treasury(g)]

(* checkTokens, run by the effect on [licenseMint, proposer, connection]: *)
(* nothing without a proposer, otherwise a request for its payer.         *)
CheckTokens(p) ==
    inflight' = IF p = Undefined THEN inflight ELSE inflight \cup {p.payer}

(* tokenCount: the first account's uiAmount, 0 without a response.        *)
TokenCount == IF licenseTokens # Undefined /\ licenseTokens \in Licensed THEN 1 ELSE 0

(* Mutant: the effect without its `if (wallet.publicKey)` check.          *)
PageContainerEffectUnchecked(w) == Local(w)

(* PageContainer's effect: a LocalWalletProposer for a connected wallet.  *)
PageContainerEffect(w) == IF w # NoKey THEN Local(w) ELSE proposer

(* The wallet connects, switches or disconnects; PageContainer's effect   *)
(* sets a new LocalWalletProposer object, which re-runs checkTokens.      *)
WalletChange(w) ==
    /\ w # key
    /\ key' = w
    /\ proposer' = PageContainerEffect(w)
    /\ IF w # NoKey THEN CheckTokens(proposer') ELSE UNCHANGED inflight
    /\ UNCHANGED <<mode, daoKey, licenseTokens, sent>>

(* The "Group Type" select.                                               *)
SelectMode(m) ==
    /\ key # NoKey
    /\ mode' = m
    /\ UNCHANGED <<key, proposer, daoKey, licenseTokens, inflight, sent>>

(* onPaste on the governance field (DAO form).                            *)
PasteGovernance(g) ==
    /\ key # NoKey /\ mode = "dao"
    /\ licenseTokens' = Undefined
    /\ daoKey' = g
    /\ proposer' = Realms(g)
    /\ CheckTokens(Realms(g))
    /\ UNCHANGED <<key, mode, sent>>

(* onPaste with text that is not a public key: setLicenseTokens and      *)
(* setDAOKey are already queued when `new PublicKey` throws, so they are  *)
(* applied and the proposer is left as it was.                            *)
InvalidPaste ==
    /\ key # NoKey /\ mode = "dao"
    /\ licenseTokens' = Undefined
    /\ daoKey' = "invalid"
    /\ UNCHANGED <<key, proposer, mode, inflight, sent>>

(* onClick on the governance field (DAO form) clears the key and the      *)
(* proposer; the effect then returns early.                               *)
ClickGovernanceField ==
    /\ key # NoKey /\ mode = "dao"
    /\ daoKey' = "" /\ proposer' = Undefined
    /\ UNCHANGED <<key, mode, licenseTokens, inflight, sent>>

(* A getParsedTokenAccountsByOwner response arrives and is stored.        *)
TokensAnswered(o) ==
    /\ o \in inflight
    /\ inflight' = inflight \ {o}
    /\ licenseTokens' = o
    /\ UNCHANGED <<key, proposer, mode, daoKey, sent>>

(* The request fails: checkTokens' promise rejects and nothing is stored. *)
TokensFailed(o) ==
    /\ o \in inflight
    /\ inflight' = inflight \ {o}
    /\ UNCHANGED <<key, proposer, mode, daoKey, licenseTokens, sent>>

(* handleCreateWorkGroup: sends createWorkgroup with the current proposer *)
(* and the first stored license-token account.                           *)
HandleCreate ==
    /\ licenseTokens # Undefined /\ proposer # Undefined
    /\ licenseTokens \in HasAccount
    /\ sent' = sent \cup {[wallet |-> key, mode |-> mode, daoKey |-> daoKey,
                           proposer |-> proposer, deposit |-> licenseTokens]}
    /\ UNCHANGED <<key, proposer, mode, daoKey, licenseTokens, inflight>>

(* The Create button of the solo form (shown for mode "" too) and the     *)
(* Propose Create button of the DAO form, each only when tokenCount > 0.  *)
CreateButton ==
    /\ key # NoKey
    /\ TokenCount > 0
    /\ mode = "dao" => daoKey # ""
    /\ HandleCreate

Init ==
    /\ key = NoKey
    /\ proposer = Undefined
    /\ mode = ""
    /\ daoKey = ""
    /\ licenseTokens = Undefined
    /\ inflight = {}
    /\ sent = {}

Next ==
    \/ \E w \in Wallets \cup {NoKey} : WalletChange(w)
    \/ \E m \in {"solo", "dao"} : SelectMode(m)
    \/ \E g \in Govs : PasteGovernance(g)
    \/ InvalidPaste
    \/ ClickGovernanceField
    \/ \E o \in Owners : TokensAnswered(o) \/ TokensFailed(o)
    \/ CreateButton

Spec == Init /\ [][Next]_vars

-----------------------------------------------------------------------------
Proposers == {Local(w) : w \in Wallets} \cup {Realms(g) : g \in Govs}

TypeOK ==
    /\ key \in Wallets \cup {NoKey}
    /\ proposer \in Proposers \cup {Undefined}
    /\ mode \in {"", "solo", "dao"}
    /\ daoKey \in Govs \cup {"", "invalid"}
    /\ licenseTokens \in Owners \cup {Undefined}
    /\ inflight \subseteq Owners
    /\ sent \subseteq [wallet : Wallets, mode : {"", "solo", "dao"},
                      daoKey : Govs \cup {"", "invalid"},
                      proposer : Proposers, deposit : Owners]

(* What handleCreateWorkGroup sends is what the form shows.  The Solo     *)
(* form creates "a cluster controlled by only one private key" with the    *)
(* wallet's LocalWalletProposer; the DAO form proposes through the pasted  *)
(* governance's RealmsProposer; and the license tokens deposited are the   *)
(* ones shown as "This wallet/governance has N license token(s)", those of *)
(* the proposer's payer, the new group's authority.                        *)
CreateAsShown ==
    \A c \in sent :
        /\ c.proposer = IF c.mode = "dao" THEN Realms(c.daoKey) ELSE Local(c.wallet)
        /\ c.deposit = c.proposer.payer
====
