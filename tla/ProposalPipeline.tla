-------------------------- MODULE ProposalPipeline --------------------------
(***************************************************************************)
(* The transaction-proposal pipeline of the DAOnetes client              *)
(* (src/app/src/worknet/createWorkgroup.ts and displays.tsx).            *)
(*                                                                         *)
(* Each operation o (a click on "Register Device", "Schedule", ...) builds *)
(* its worknet instructions, hands them to the Proposer and signs the     *)
(* result.  A LocalWalletProposer wraps them in one transaction D; a      *)
(* RealmsProposer reads the ledger (token owner record, proposal count)   *)
(* and builds two transactions: A creates a proposal and adds the wallet  *)
(* as signatory, B inserts every instruction into the proposal and signs  *)
(* it off.  toastAndSendProposedTransactions then sends A, awaits its     *)
(* confirmation, and only then sends B.                                   *)
(*                                                                         *)
(* Several operations of the same wallet run concurrently: the handlers   *)
(* do not wait for one another, and every await is a point where another  *)
(* operation, another DAO member or the ledger may move.  The ledger side *)
(* (spl-governance's create-proposal, insert-transaction and sign-off     *)
(* checks, blockhash expiry) is modelled from the spec: it is not code of *)
(* this repository.                                                        *)
(***************************************************************************)
EXTENDS Integers, Sequences, FiniteSets, Functions

CONSTANTS
    Ops,          \* the user operations started in this session
    DaoOps,       \* operations issued while the proposer is a RealmsProposer
    Operation,    \* Operation[o]: which instruction builder o runs
    Other,        \* the token owner record of another DAO member
    Validity,     \* blocks a blockhash stays valid for
    MaxHeight,    \* bound on the ledger's block height
    MaxProposals, \* bound on the proposals of the governance
    TORAtStart    \* whether the wallet may hold a token owner record at the start

ASSUME DaoOps \subseteq Ops /\ Other \notin Ops
ASSUME Validity \in Nat /\ MaxHeight \in Nat /\ MaxProposals \in Nat

VARIABLES
    pc,         \* pc[o]: where operation o's handler is
    stage,      \* stage[o]: the transaction o is sending or awaiting
    needTOR,    \* needTOR[o]: o found no token owner record and creates one in A
    pidx,       \* pidx[o]: the proposal index o computed
    order,      \* order[o]: insert slots of B, in the order they were pushed
    bh,         \* bh[o]: block height of the blockhash stamped on o's transactions
    res,        \* res[o][k]: the confirmation outcome of o's transaction k
    net,        \* transactions sent and not yet landed or expired
    tor,        \* the wallet's token owner record exists on the ledger
    proposals,  \* the governance's proposals, proposal index i at position i+1
    landed,     \* transactions that executed successfully
    height      \* the ledger's block height

client == <<pc, stage, needTOR, pidx, order, bh, res>>
ledger == <<net, tor, proposals, landed, height>>
vars == <<client, ledger>>

Kinds == {"A", "B", "D"}
Terminal == {"done", "failed", "aborted"}

\* registerDevice proposes a transfer and the registration; every other
\* builder proposes exactly one instruction.  An instruction is <<o, k>>.
Instructions(o) ==
    [k \in 1..(IF Operation[o] = "registerDevice" THEN 2 ELSE 1) |-> <<o, k>>]

\* Mutants of InsertOrders: the insert loop stops one instruction short.
InsertOrdersDroppingLast(n) == {[j \in 1..(n - 1) |-> j]}

\* or the slots taken 0-based, as the map index i is.
InsertOrdersZeroBased(n) == {[j \in 1..n |-> j - 1]}

\* The order in which the concurrent withInsertTransaction calls of
\* Promise.all push their instruction: each awaits its own address
\* derivation first, so any resolution order of the n calls can occur.
InsertOrders(n) == Bijection(1..n, 1..n)

-----------------------------------------------------------------------------
(* Ledger checks and effects (spl-governance program, spec-modelled).     *)

\* A creates the token owner record iff the operation saw none, and the
\* proposal address is derived from the governance's current proposal count.
ValidA(o) ==
    /\ needTOR[o] = ~tor
    /\ pidx[o] = Len(proposals)

ApplyA(o) ==
    /\ tor' = TRUE
    /\ proposals' = Append(proposals,
                           [creator |-> o, state |-> "Draft", txs |-> <<>>])

\* B addresses proposal pidx[o]: it must be a Draft owned by this wallet,
\* and every insert must fill the next free slot.
ValidB(o) ==
    LET i == pidx[o] + 1
    IN  /\ i <= Len(proposals)
        /\ proposals[i].creator \in Ops
        /\ proposals[i].state = "Draft"
        /\ \A j \in DOMAIN order[o] : order[o][j] = Len(proposals[i].txs) + j

ApplyB(o) ==
    /\ proposals' = [proposals EXCEPT ![pidx[o] + 1] =
                        [txs   |-> @.txs \o [j \in DOMAIN order[o] |->
                                                Instructions(o)[order[o][j]]],
                         state |-> "Voting",
                         creator |-> @.creator]]
    /\ UNCHANGED tor

\* D executes worknet instructions; whether the worknet program accepts them
\* is that program's business, so it may go either way.
Valid(o, k) == CASE k = "A" -> ValidA(o)
                 [] k = "B" -> ValidB(o)
                 [] k = "D" -> TRUE

MayReject(o, k) == ~Valid(o, k) \/ k = "D"

Apply(o, k) == CASE k = "A" -> ApplyA(o)
                 [] k = "B" -> ApplyB(o)
                 [] k = "D" -> UNCHANGED <<tor, proposals>>

Fresh(o) == height <= bh[o] + Validity

\* What a failed sendAndConfirmRawTransaction rejects with (web3.js): a
\* failed preflight simulation is a SendTransactionError carrying the
\* simulation's logs; a transaction that executes and fails is an Error
\* naming its signature and status; a confirmation wait that gives up is a
\* timeout error.  Only the first carries logs.
SendError(r) == [logs |-> r = "simErr"]

\* transactionError's render function: it reads data.logs.filter(...)
\* before it looks at data.message, so an error without logs makes the
\* render throw instead of showing a message.
ErrorToastRenders(e) == e.logs

-----------------------------------------------------------------------------
(* The client.                                                            *)

\* RealmsProposer.proposeTxn up to its first ledger read: getGovernance,
\* then getAccountInfo of the wallet's token owner record.
ReadTokenOwnerRecord(o) ==
    /\ pc[o] = "idle" /\ o \in DaoOps
    /\ needTOR' = [needTOR EXCEPT ![o] = ~tor]
    /\ pc' = [pc EXCEPT ![o] = "list"]
    /\ UNCHANGED <<stage, pidx, order, bh, res, ledger>>

\* getAllProposals; the proposal index is the length of this governance's list.
ListProposals(o) ==
    /\ pc[o] = "list"
    /\ pidx' = [pidx EXCEPT ![o] = Len(proposals)]
    /\ pc' = [pc EXCEPT ![o] = "build"]
    /\ UNCHANGED <<stage, needTOR, order, bh, res, ledger>>

\* Build A and B, then stamp both with the latest blockhash.
BuildProposal(o) ==
    /\ pc[o] = "build"
    /\ \E ord \in InsertOrders(Len(Instructions(o))) :
          order' = [order EXCEPT ![o] = ord]
    /\ bh' = [bh EXCEPT ![o] = height]
    /\ pc' = [pc EXCEPT ![o] = "sign"]
    /\ UNCHANGED <<stage, needTOR, pidx, res, ledger>>

\* LocalWalletProposer.proposeTxn: one transaction with the latest blockhash.
BuildDirect(o) ==
    /\ pc[o] = "idle" /\ o \notin DaoOps
    /\ bh' = [bh EXCEPT ![o] = height]
    /\ pc' = [pc EXCEPT ![o] = "sign"]
    /\ UNCHANGED <<stage, needTOR, pidx, order, res, ledger>>

\* An RPC call inside proposeTxn rejects: the builder throws, nothing is sent.
RpcFail(o) ==
    /\ pc[o] \in {"list", "build"}
    /\ pc' = [pc EXCEPT ![o] = "aborted"]
    /\ UNCHANGED <<stage, needTOR, pidx, order, bh, res, ledger>>

\* signAllTransactions: the user approves (the first transaction to send is
\* A or D) or rejects, which throws before toastAndSend is called.
Sign(o) ==
    /\ pc[o] = "sign"
    /\ \/ /\ pc' = [pc EXCEPT ![o] = "send"]
          /\ stage' = [stage EXCEPT ![o] = IF o \in DaoOps THEN "A" ELSE "D"]
       \/ /\ pc' = [pc EXCEPT ![o] = "aborted"]
          /\ UNCHANGED stage
    /\ UNCHANGED <<needTOR, pidx, order, bh, res, ledger>>

\* sendAndConfirmRawTransaction: the RPC node simulates the transaction
\* first; a failed simulation rejects at once, otherwise it is in flight.
Send(o) ==
    LET k == stage[o] IN
    /\ pc[o] = "send"
    /\ \/ /\ Valid(o, k) /\ Fresh(o)
          /\ net' = net \cup {<<o, k>>}
          /\ pc' = [pc EXCEPT ![o] = "await"]
          /\ UNCHANGED res
       \/ /\ MayReject(o, k) \/ ~Fresh(o)
          /\ res' = [res EXCEPT ![o][k] = "simErr"]
          /\ pc' = [pc EXCEPT ![o] = "failed"]
          /\ UNCHANGED net
    /\ UNCHANGED <<stage, needTOR, pidx, order, bh, tor, proposals, landed, height>>

\* Mutants of Confirm: a rejected A treated as confirmed, and a handler that
\* returns after the first transaction of a DAO operation.
ConfirmIgnoringOutcome(o) ==
    LET k == stage[o] IN
    /\ pc[o] = "await"
    /\ res[o][k] # "none"
    /\ IF k = "A" \/ res[o][k] = "ok"
         THEN IF k = "A"
                THEN /\ pc' = [pc EXCEPT ![o] = "send"]
                     /\ stage' = [stage EXCEPT ![o] = "B"]
                ELSE /\ pc' = [pc EXCEPT ![o] = "done"]
                     /\ UNCHANGED stage
         ELSE /\ pc' = [pc EXCEPT ![o] = "failed"]
              /\ UNCHANGED stage
    /\ UNCHANGED <<needTOR, pidx, order, bh, res, ledger>>

ConfirmSkippingB(o) ==
    /\ pc[o] = "await"
    /\ res[o][stage[o]] # "none"
    /\ pc' = [pc EXCEPT ![o] = IF res[o][stage[o]] = "ok" THEN "done" ELSE "failed"]
    /\ UNCHANGED <<stage, needTOR, pidx, order, bh, res, ledger>>

\* The confirmation arrives; only a confirmed A lets B be sent.
Confirm(o) ==
    LET k == stage[o] IN
    /\ pc[o] = "await"
    /\ res[o][k] # "none"
    /\ IF res[o][k] = "ok"
         THEN IF k = "A"
                THEN /\ pc' = [pc EXCEPT ![o] = "send"]
                     /\ stage' = [stage EXCEPT ![o] = "B"]
                ELSE /\ pc' = [pc EXCEPT ![o] = "done"]
                     /\ UNCHANGED stage
         ELSE /\ pc' = [pc EXCEPT ![o] = "failed"]
              /\ UNCHANGED stage
    /\ UNCHANGED <<needTOR, pidx, order, bh, res, ledger>>

\* The confirmation wait gives up before the outcome is known.
Timeout(o) ==
    /\ pc[o] = "await"
    /\ res[o][stage[o]] = "none"
    /\ pc' = [pc EXCEPT ![o] = "failed"]
    /\ UNCHANGED <<stage, needTOR, pidx, order, bh, res, ledger>>

-----------------------------------------------------------------------------
(* The ledger and the rest of the DAO.                                    *)

Land(o, k) ==
    /\ <<o, k>> \in net
    /\ Fresh(o)
    /\ net' = net \ {<<o, k>>}
    /\ \/ /\ Valid(o, k)
          /\ Apply(o, k)
          /\ landed' = landed \cup {<<o, k>>}
          /\ res' = [res EXCEPT ![o][k] = "ok"]
       \/ /\ MayReject(o, k)
          /\ res' = [res EXCEPT ![o][k] = "err"]
          /\ UNCHANGED <<tor, proposals, landed>>
    /\ UNCHANGED <<pc, stage, needTOR, pidx, order, bh, height>>

Expire(o, k) ==
    /\ <<o, k>> \in net
    /\ ~Fresh(o)
    /\ net' = net \ {<<o, k>>}
    /\ UNCHANGED <<client, tor, proposals, landed, height>>

Tick ==
    /\ height < MaxHeight
    /\ height' = height + 1
    /\ UNCHANGED <<client, net, tor, proposals, landed>>

OtherPropose ==
    /\ Len(proposals) < MaxProposals
    /\ proposals' = Append(proposals,
                           [creator |-> Other, state |-> "Draft", txs |-> <<>>])
    /\ UNCHANGED <<client, net, tor, landed, height>>

\* Every operation has finished; the session has nothing left to do.
Finished ==
    /\ \A o \in Ops : pc[o] \in Terminal
    /\ net = {}
    /\ UNCHANGED vars

-----------------------------------------------------------------------------

Init ==
    /\ pc = [o \in Ops |-> "idle"]
    /\ stage = [o \in Ops |-> "none"]
    /\ needTOR = [o \in Ops |-> FALSE]
    /\ pidx = [o \in Ops |-> 0]
    /\ order = [o \in Ops |-> <<>>]
    /\ bh = [o \in Ops |-> 0]
    /\ res = [o \in Ops |-> [k \in Kinds |-> "none"]]
    /\ net = {}
    /\ tor \in TORAtStart
    /\ proposals = <<>>
    /\ landed = {}
    /\ height = 0

Next ==
    \/ \E o \in Ops :
          \/ ReadTokenOwnerRecord(o) \/ ListProposals(o) \/ BuildProposal(o)
          \/ BuildDirect(o) \/ RpcFail(o) \/ Sign(o) \/ Send(o)
          \/ Confirm(o) \/ Timeout(o)
    \/ \E o \in Ops, k \in Kinds : Land(o, k) \/ Expire(o, k)
    \/ Tick \/ OtherPropose \/ Finished

Spec == Init /\ [][Next]_vars

-----------------------------------------------------------------------------
(* Properties.                                                            *)

Proposal == [creator : Ops \cup {Other}, state : {"Draft", "Voting"},
             txs : Seq(Ops \X {1, 2})]

TypeOK ==
    /\ pc \in [Ops -> {"idle", "list", "build", "sign", "send", "await"} \cup Terminal]
    /\ stage \in [Ops -> Kinds \cup {"none"}]
    /\ needTOR \in [Ops -> BOOLEAN]
    /\ pidx \in [Ops -> 0..(MaxProposals + Cardinality(Ops))]
    /\ order \in [Ops -> UNION {[1..n -> 1..2] : n \in 0..2}]
    /\ bh \in [Ops -> 0..MaxHeight]
    /\ res \in [Ops -> [Kinds -> {"none", "ok", "err", "simErr"}]]
    /\ net \subseteq Ops \X Kinds
    /\ tor \in BOOLEAN
    /\ proposals \in Seq(Proposal) /\ Len(proposals) <= MaxProposals + Cardinality(Ops)
    /\ landed \subseteq Ops \X Kinds
    /\ height \in 0..MaxHeight

\* A proposal only ever holds instructions of the operation that created
\* it: B, which targets the proposal index the operation computed, never
\* lands in the proposal of a concurrent operation of the same wallet
\* (toastAndSendProposedTransactions sends B only after A is confirmed).
OwnProposalOnly ==
    \A i \in 1..Len(proposals) :
        \A j \in DOMAIN proposals[i].txs :
            proposals[i].txs[j][1] = proposals[i].creator

\* A signed-off proposal holds exactly its creator's instructions, in the
\* order the builder passed them to proposeTxn: sign-off never happens on
\* a partial or reordered set of inserts.
SignedOffComplete ==
    \A i \in 1..Len(proposals) :
        proposals[i].state = "Voting" =>
            proposals[i].txs = Instructions(proposals[i].creator)

\* A success toast for the last transaction of an operation means the
\* operation took effect: a DAO operation's instructions sit, complete,
\* in a signed-off proposal it created; a direct operation's transaction
\* executed.
SuccessIsReal ==
    \A o \in Ops : pc[o] = "done" =>
        IF o \in DaoOps
          THEN \E i \in 1..Len(proposals) :
                  /\ proposals[i].creator = o
                  /\ proposals[i].state = "Voting"
                  /\ proposals[i].txs = Instructions(o)
          ELSE <<o, "D">> \in landed

\* Spec section 8: transaction B holds one insert per caller instruction,
\* "inserted in caller-supplied order" (the order proposeTxn was given).
InsertsInCallerOrder ==
    \A o \in DaoOps : order[o] = [j \in DOMAIN order[o] |-> j]

\* Every failure toastAndSendProposedTransactions reports is shown: the
\* error toast's render (transactionError) succeeds for the error the
\* failed send rejected with.
FailureToastRenders ==
    \A o \in Ops : pc[o] = "failed" =>
        ErrorToastRenders(SendError(res[o][stage[o]]))

=============================================================================
