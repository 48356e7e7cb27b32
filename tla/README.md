# TLA+ models of the DAOnetes client

This directory holds TLA+ models of the browser client in `src/app/src`. The
client manages a DAOnetes "workgroup" on Solana. Every change a user makes
becomes one or more signed ledger transactions. The transactions are built by
the instruction builders in `worknet/createWorkgroup.ts`. They are wrapped by a
Proposer: either the user's own wallet, or an SPL-governance ("Realms") DAO.
They are then sent by `toastAndSendProposedTransactions` in
`worknet/displays.tsx`.

## 1. Inventory

### Components

| Component | Source | State it keeps | Operations |
|---|---|---|---|
| Address derivation | `createWorkgroup.ts` (every `findProgramAddress`) | none (pure) | derive an account address from seed byte strings |
| Instruction builders | `createWorkgroup.ts:319-779` | none locally; reads ledger accounts | `createWorkgroup`, `closeWorkGroup`, `createSpec` (fetches the spec URL and hashes it), `closeSpec`, `createDeployment`, `closeDeployment`, `registerDevice` (a transfer and then the registration), `scheduleDeployment` |
| Proposer: `LocalWalletProposer` | `createWorkgroup.ts:65-91` | provider | `payer`, `dao` (false), `proposeTxn`: one transaction with the latest blockhash |
| Proposer: `RealmsProposer` | `createWorkgroup.ts:93-317` | governance key, cached treasury | `payer` (the treasury, cached), `dao` (true), `proposeTxn`: reads the token owner record (TOR) and the proposal list. It builds transaction A (create TOR if missing, create proposal, add signatory) and transaction B (insert each instruction, then sign off) |
| Submission pipeline | `displays.tsx:83-146` | toasts | DAO path: send A, await confirmation, then send B. Direct path: send the single transaction. Both use `sendAndConfirmRawTransaction` with "confirmed" commitment |
| Error display | `displays.tsx:11-81` | none | success toast with explorer and proposal links; error toast that classifies `0x23c` and `0x20b` and otherwise filters log lines |
| Proposer selection | `LayoutDefault.tsx:220-236`, `WorkGroupStatus.tsx:37-53`, `pages/nodes.tsx:59-74`, `OnBoardingWizard.tsx:240-265`, `hooks/proposer.tsx` | the shared React context value `proposer` | an effect sets a `LocalWalletProposer` whenever the wallet or connection changes. The governance query's `onSuccess` sets a `RealmsProposer`. The onboarding form sets or clears one |
| Governance lookup | `governanceHelpers.ts:24-76` | none | finds the governance whose treasury is the workgroup's authority, by walking the mint authorities of the wallet's token accounts |
| Onboarding license check | `OnBoardingWizard.tsx:50-120` | `licenseTokens` | an effect reads the license-token accounts of `proposer.payer()`. `handleCreateWorkGroup` deposits the first of them |
| Ledger reads | `worknet.ts:91-189` | none (react-query caches their results on each page) | `getWorknetGroup`, `getDevice`, `getSpec`, `getDeployment`, `getAttachedTokenMints`, `getWorknets` |
| UI handlers | `components/*.tsx`, `pages/*.tsx` | form state | each button calls a builder with the current `proposer` and passes the result to `toastAndSendProposedTransactions`. Most do not await the send, so several operations can run at once |
| Worknet on-chain program | not in `src/` (only its tests, `src/tests/worknet.ts`) | workgroups, specs, devices, deployments, deployment tokens | the instructions named above |
| SPL governance program, wallet, RPC node | external | proposals, TORs, blockhashes | create proposal, insert transaction, sign off; sign; simulate, send, confirm |
| Device agent HTTP, mesh info | `hooks/localhostDevice.ts`, `hooks/meshInfo.ts` | none | read-only fetches of a localhost agent |
| Workgroup page | `WorkGroupStatus.tsx`, `SpecsList.tsx`, `SpecView.tsx`, `DeploymentList.tsx`, `DeploymentToDevice.tsx`, `DeviceList.tsx` | react-query data of the group, each spec, each device; each deployment row's token balance | lists what the handlers act on; decides which buttons are shown |
| Program test suite | `src/tests/worknet.ts` | the ledger of a local validator | twelve mocha `it()` blocks run in order against the worknet program |
| Views | remaining components and pages | view state | rendering only |

### How the parts interact

A click handler calls a builder such as `registerDevice(provider, proposer, ...)`. The
builder derives addresses, builds the instruction(s), calls
`proposer.proposeTxn` and then `provider.wallet.signAllTransactions`. The handler
passes the `ProposalDetails` to `toastAndSendProposedTransactions`. That function
switches on `proposer.dao()`. Every `await` hands control back to the browser's
event loop. At each of them, other operations of the same user, other DAO
members and the ledger can move. The proposer is a shared context value that
effects and query callbacks overwrite asynchronously.

### What is hard

- **Interleaving at awaits.** `RealmsProposer.proposeTxn` reads the TOR
  (`createWorkgroup.ts:149-150`) and the proposal count (`:164-179`). Both are
  used later, when A lands. Two operations of one wallet, or another DAO member,
  can make either read stale.
- **Ordering inside one operation.** The `withInsertTransaction` calls run
  concurrently under `Promise.all` (`:251-268`). Each one pushes its instruction
  only after its own address derivation resolves.
- **Two-transaction sequence with partial failure.** A can land while B fails,
  or A can be reported failed and still land later (confirmation timeout).
- **Timeouts.** A and B carry one blockhash that is fetched before the signing
  prompt (`:303-310`). B is sent only after A is confirmed, so its blockhash may
  have expired.
- **Shared mutable proposer and stale async results in React effects.** See the
  proposer selection and onboarding rows above.

### What makes each component correct

- Submission pipeline and Realms proposer:
  - A proposal only ever holds the instructions of the operation that created it.
  - A signed-off proposal holds exactly its operation's instructions, in order.
  - A success toast means the operation took effect.
  - A reported failure had no effect.
  - B's inserts are in caller order.
- Instruction builders and the worknet program:
  - A deployment's scheduled replicas never exceed its declared count.
  - Specs and deployments are addressed by name, so closing or re-creating a
    name changes what later operations address.
  - The recorded spec digest is the digest of the spec's content.
- Proposer selection: a DAO-owned workgroup is only ever acted on through a
  `RealmsProposer` whose treasury is the group authority.
- Address derivation: distinct accounts never share seeds, and every seed a UI
  input can produce fits the 32-byte seed limit.
- Error display: each error is classified as the spec says, and rendering never
  throws.

## 2. Plan and status

| Module | Models | Status |
|---|---|---|
| `ProposalPipeline` | `proposeTxn` of both proposers, signing, the submission pipeline, the governance program's checks | done |
| `Worknet` | the instruction builders, the workgroup page and its handlers, the worknet program (spec-modelled) | done |
| mocha suite | `src/tests/worknet.ts`: not modelled, since the program model is built from it (see Not modelled) | not modelled |
| `ProposerSelection` | the `PageContainer` effect, the governance query and its `onSuccess`, react-query's cache | done |
| `OnboardingWizard` | the Create Workgroup wizard: `checkTokens`, pastes, clicks, the Create buttons | done |
| `ProposalAbstract` | an operation takes effect at most once and as a whole; `ProposalPipeline` shown to refine it | planned |
| `AddressDerivation` | the seed lists of every builder and `findProgramAddress`'s concatenation and 32-byte limit; instanced by `Worknet` | done |
| error display | whether `transactionError`'s render survives the error it gets; modelled inside `ProposalPipeline` | done (classification wording left out) |

The project is held to twelve runs. Each run asks one question; the
violations are the disagreements between the code and the spec, its comments
or its dialogs met while modelling (see `findings` in `PROJECT.json`).

## 3. Modules and runs

### `ProposalPipeline` (`MCProposalPipeline`)

State:

| Variable | Code it stands for |
|---|---|
| `pc[o]`, `stage[o]` | where operation `o`'s handler is: reading, building, signing, sending or awaiting transaction A, B or D (the direct path's single transaction), or finished |
| `needTOR[o]` | `!tokenOwnerRecordInfo` (`createWorkgroup.ts:152`) |
| `pidx[o]` | `proposalIndex` (`:173-179`) |
| `order[o]` | the order in which B's insert instructions were pushed (`:251-268`) |
| `bh[o]` | the blockhash stamped on the transactions (`:84-86`, `:303-310`) |
| `res[o][k]` | the outcome `sendAndConfirmRawTransaction` reports for transaction `k` |
| `net`, `tor`, `proposals`, `landed`, `height` | the ledger: in-flight transactions, the wallet's TOR, the governance's proposals, executed transactions, block height (spec-modelled) |

Actions:

- `ReadTokenOwnerRecord`, `ListProposals`, `BuildProposal`: the three stretches
  of `RealmsProposer.proposeTxn` between ledger reads.
- `BuildDirect`: `LocalWalletProposer.proposeTxn`.
- `RpcFail`: any RPC rejection inside `proposeTxn`.
- `Sign`: `signAllTransactions`, approved or rejected.
- `Send`: `sendAndConfirmRawTransaction`'s preflight simulation and submission.
- `Confirm`, `Timeout`: the end of the confirmation wait.
- `Land`, `Expire`: the ledger executes a transaction or drops it once its
  blockhash is too old.
- `Tick`: a new block.
- `OtherPropose`: another DAO member creates a proposal.

Instructions are abstract tokens `<<o, k>>`. Addresses, names, URLs and toast
text are left out: no property tells them apart.

Bounds (`ProposalPipeline.cfg`):

- Operations: two DAO operations (`registerDevice`, two instructions;
  `createSpec`, one) and one direct operation. Two DAO operations are the least
  that can race for a proposal index or the TOR. Two instructions are the least
  that can be reordered.
- `MaxProposals = 1` other member's proposal. This is enough to make a read
  index stale without any of the user's own operations.
- `Validity = 1` and `MaxHeight = 2`, so a blockhash can expire between A and B.
- `TORAtStart = {FALSE}`: the wallet starts without a token owner record, so
  both DAO operations race to create it. A wallet that already has one only
  removes that race; leaving it out halves the states, which keeps the
  liveness run under five minutes.

`SendError` models what `sendAndConfirmRawTransaction` rejects with in
web3.js 1.x: a preflight failure is a `SendTransactionError` carrying the
simulation `logs` (`res = "simErr"`); a transaction that executes and fails
(`"err"`) or a confirmation timeout is a plain error without `logs`.
`ErrorToastRenders` is `transactionError`'s render, which calls
`data.logs.filter` before it reads `data.message`.

Runs:

| Run | Expect | Shows |
|---|---|---|
| `pipeline` | pass | `OwnProposalOnly`, `SignedOffComplete` and `SuccessIsReal` hold under every interleaving of the operations, the other member, timeouts and expiry (about 930 K states, under 3 minutes) |
| `insert_order` | violation | `InsertsInCallerOrder`: `Promise.all` lets B's inserts be pushed out of caller order. The ledger then rejects the whole of B, so a DAO `registerDevice` can fail after its proposal was created |
| `failure_toast` | violation | `FailureToastRenders`: a direct operation is signed and sent, and its confirmation times out. The rejection carries no `logs`, so the error toast's render throws a `TypeError` and the failure is never shown. The same holds for a transaction that lands and fails |

A DAO operation whose A lands after its confirmation timed out leaves an empty
draft proposal; `OwnProposalOnly` and `SignedOffComplete` show that no other
operation fills or signs it off. It is listed as a hazard, not a run.


### `Worknet` (`MCWorknet`)

The worknet objects' lifecycle, from a click on the workgroup page to the
ledger. The worknet program is not in `src/`; its checks (`Valid`) and effects
(`Step`) are written from the spec (sections 3 and 4.2) and from the program's
tests, and a transaction is atomic (`RunTxn`).

State:

| Variable | Code it stands for |
|---|---|
| `chain` | the program's accounts: groups with their spec, deployment and device lists; spec records (URL, digest); deployments (spec, replicas, tokens moved to each device); device accounts and whether `updateDevice` has written a hostname; lamports sent to each device key |
| `pending` | transactions handed to `toastAndSendProposedTransactions` that the ledger has not executed or dropped |
| `view` | the workgroup page's react-query data (`["workgroup", key]`, `["spec", key]`, `["device", key]`): the ledger as it was at the page's last fetch |
| `rows` | the deployment rows that have mounted, with the token balance each read (`replicaTokenAmount`) |
| `ops` | operations started, bounded by `MaxOps` |

Actions:

- One per handler that sends an operation: `OnboardingCreate`,
  `NewSpecRegister`, `DeviceAddRegister`, `DeploymentCreate`,
  `DeploymentSchedule`, `DeploymentClose`, `SpecClose`, `DeviceClose`,
  `WorkgroupClose`, and the Nodes page's `NodesRegister` and `NodesRemove`
  (NodeSettings' Remove device, which closes a row of the mesh table,
  `MeshDevices`, in the workgroup the agent reports for that device rather than
  in the page's group). Each calls its builder (`createSpecTxn`,
  `registerDeviceTxn`, ...) and `Propose`. Its inputs come from what the page
  lists:
  - `ListedSpecs`: specs whose query has data.
  - `ListedDevices`: devices other than the placeholder.
  - `OfferedDevices`: devices with a hostname, the only ones
    `DeviceOption` renders.
  - `ActionableDeployments`: rows whose balance is above 0, the only
    ones that render Schedule and Close Deployment.
- `Refetch`: the page's queries fetch again. Nothing in the client
  invalidates them after an operation, so this happens independently of
  the operations. The new deployments query starts with no rows.
- `RowAppears(d)`: one `getDeployment` of SpecsList's un-awaited `map`
  resolves, and its row mounts and reads the balance.
- `NodesRegister(k)`: the Nodes page offers Register Device for the local
  agent's key only while `AgentDeviceInfo(k)` (the agent's `/device` answer)
  reports the all-ones key as its authority or workgroup
  (`NodesOffersRegister`). The answer is part of the page's last fetch, so
  after a registration lands the button stays until a refetch, and a second
  registration is sent. It fails on the ledger as a whole, transfer included,
  which `FundedWithRegistration` checks.
- `ImportSpec(e)`: the spec library's Import Spec (`SpecLibraryItem`). It
  calls `createSpec` with the entry's name and `spec.url`, the entry's project
  page. The compose file the card links to (`spec.spec`) is not passed. The
  library (`specs.json`) is the constant `Library`: entry name to its project
  URL and compose-file URL.
- `DeviceReport(k)`: the device agent's `updateDevice`, signed by the device
  key. It is outside the client but decides which devices can be scheduled.
- `Execute(n)`, `Drop(n)`: the ledger runs a pending transaction, or the
  transaction never lands.

Bounds (`Worknet.cfg`):

- One group, spec name, deployment name and device. Every object kind is
  present, and objects are independent across names.
- Three URLs: `u1` serves the compose file, `u2` answers 404 with an error
  page, and `u3` is a project's web page (status 200, not a compose file).
  A user types `u1` or `u2` into NewSpec (`TypedUrls`). The library has one
  entry, with project page `u3` and compose file `u1`.
- `MaxReplicas = 2`: a deployment can be partly and fully scheduled.
- `MaxOps = 7`: this reaches group, spec, deployment, device, schedule and a
  close, with one operation to spare. The run has 1,387,586 distinct states and
  takes about a minute and a half.

The page's queries are taken as refetched together. Their separate staleness
only changes which objects are listed, and the handlers accept any listed
object.

| Run | Expect | Shows |
|---|---|---|
| `worknet` | pass | `FundedWithRegistration`: under the direct proposer, every ledger step that funds a device key also registers it, and the reverse. `AccountAddressesDistinct`: no two accounts the ledger holds at once derive the same address, although the spec and the deployment are both named `web` |
| `spec_content` | violation | `SpecRecordsItsContent`: TLC's trace is the library's Import Spec, which records the project's web page (and its HTML's digest) as the spec's content. With the library emptied, the same run finds NewSpec recording the digest of a 404 page, because `createSpec` never checks the status |
| `orphan_close` | violation | `ClosedGroupLeavesNoAccounts`: closing a group that still has a spec leaves the spec account behind, although the dialog says all associated accounts are closed |
| `unclosable_deployment` | violation | `DeploymentsStayClosable`: once every replica is scheduled, the row's balance is 0 and Close Deployment is not rendered, so the deployment cannot be closed from the client |
| `orphan_deployment` | violation | `DeploymentsReferenceLiveSpecs`: Close Spec is offered and accepted while a deployment of the spec exists; the deployment outlives its spec, is no longer rendered under any SpecView, and its Close Deployment is never offered again |

With `Governed = TRUE`, `Propose` splits registerDevice into two proposal
transactions. `FundedWithRegistration` then fails: the transfer lands and the
registration is dropped. The spec does not require the pair to be atomic, so
this is recorded as a hazard, not a run.

### `AddressDerivation` (instanced by `Worknet` as `AD`)

`Worknet` keys its accounts by kind and names: a group by its ID, a spec or
deployment by (group, name), a device by its key. That is sound only if the
builders' seed lists give distinct accounts distinct addresses.
`AddressDerivation` holds one operator per seed list, as
`createWorkgroup.ts` writes it (`GroupSeeds`, `SpecSeeds`, `DeploymentSeeds`,
...). `Address` is what `findProgramAddress` does:

- it hashes the seeds one after another with no separator, so with a
  collision-free hash two seed lists share an address exactly when their
  concatenated bytes are equal (the bump is decided by the same bytes);
- it throws when a seed is over 32 bytes.

`Bytes(str)` is `Buffer.from(str)`, one byte per ASCII character. A public
key's `toBuffer()` is an opaque 32-byte block.

`Worknet` computes every account's address once per model (`AddressOf`, from
the constant `Text`, which gives each model-value name its string), and
`AccountAddressesDistinct` checks in every state that no two accounts held at
once share an address. `MCText` names the spec and the deployment both `web`,
the case where only the discriminators (`"spec"`, `"deployment"`) tell them
apart. Its mutant, the deployment seeds copied from the spec's with the
`"spec"` discriminator, makes the two collide. A device key that is itself
the bytes of a group's seeds (see hazards) is outside the model, because keys
are opaque.

### `ProposerSelection` (`MCProposerSelection`)

- `key`: the wallet.
- `proposer`: the context value.
- `loaded`: whether the workgroup query has returned.
- `query[k]`: the react-query state (idle, fetching, fresh, stale) of each
  governance query key `<<loaded, wallet>>`.

Actions:

- `WalletChange`: it includes `PageContainerEffect`, because React flushes
  the effect with the commit.
- `GroupLoaded`.
- `GovernanceResolved`: it delivers `onSuccess` only for the key the page
  observes.
- `GovernanceFailed`: retry is off.
- `GoStale`: staleTime.
- `GarbageCollect`: cacheTime, for unobserved keys.
- `Reconnect`: `refetchOnReconnect`.

`GovLookup` is `realmsGovernanceFromWorkgroup`: the first mint authority whose
treasury is the group authority.

Bounds: two wallets and two governances.

- `w1` holds tokens of `gB` and then `gA`, so the lookup must skip a miss.
- `w2` holds only `gB`.

| Run | Expect | Shows |
|---|---|---|
| `proposer_selection` | pass | `RealmsProposerOfConnectedWallet`: a RealmsProposer always belongs to the connected wallet (18,639 states) |
| `stale_cached_governance` | violation | `SettledProposerIsIntended`: switching away and back within staleTime gives fresh cached data but no `onSuccess`, so a DAO member keeps a LocalWalletProposer |

### `OnboardingWizard` (`MCOnboardingWizard`)

State:

- `key`, `proposer`, `mode`, `daoKey`.
- `licenseTokens`: whose token accounts the last stored
  `checkTokens` response holds.
- `inflight`: requests not yet answered.
- `sent`: the `createWorkgroup` calls made.

Actions:

- `WalletChange`, with PageContainer's effect and the `checkTokens` effect.
- `SelectMode`.
- `PasteGovernance` and `InvalidPaste`: in the invalid case, `new PublicKey`
  throws after two state updates are queued.
- `ClickGovernanceField`.
- `TokensAnswered`, `TokensFailed`.
- `CreateButton`: the `tokenCount > 0` rendering guard and
  `handleCreateWorkGroup`.

| Run | Expect | Shows |
|---|---|---|
| `onboarding_license` | pass | `TypeOK` under every order of wallet changes, pastes, mode switches, clicks and `checkTokens` answers; the run that fires every wizard action (one wallet holds tokens; 262,157 states) |
| `wizard_create_as_shown` | violation | `CreateAsShown`: a response for an earlier wallet is stored for the current one, so the deposit and the authority differ; the Solo form after a paste, and an invalid paste, send a proposer other than the one the form shows |

### Fairness

No run checks a liveness property, so no fairness is assumed. The one
candidate, that every wait for a confirmation ends, would follow from the
timer `confirmTransaction` races the signature subscription against, and a
weak-fairness condition on `Confirm \/ Timeout` would only restate that
timer. Nothing else in the code forces progress: the user may stop at any
point, and RPC answers, landing, new blocks, refetches and the device agent's
reports come when they come, with no timer or retry behind them.

### Not modelled (yet), and why

- The program's mocha suite (`src/tests/worknet.ts`): the worknet program is
  not under `src/`, and `Worknet`'s model of it is built from this suite's
  assertions, so checking the model against them would show nothing. Its
  fragilities (blocks that depend on the ledger earlier blocks and runs leave,
  an assertion only inside a `catch`) are listed as hazards.

- Views, routing and styling: no state a property is about. This covers the
  Services dashboard (`dashboard.tsx`), the workgroup lists
  (`WorkgroupsList.tsx`), the header and footer of `LayoutDefault.tsx` (its
  `PageContainer` effect is in `ProposerSelection`) and `about.tsx`. They
  only read queries and render; none sends a transaction or writes a cache
  another component acts on.
- `getAttachedTokenMints` (`worknet.ts:159-183`) and `ScheduledDeployments`: a
  read-only list under each device that no operation depends on.
- The device agent's mesh info, endpoints and the mesh status table
  (`meshInfo.ts`, most of `nodes.tsx`): read-only I/O and display. Only the
  agent's `/device` answer about its own key is modelled (`AgentDeviceInfo`),
  because it decides whether the Nodes page offers registration.
- The worknet and SPL-governance programs' internal account layouts: only the
  checks the client depends on are modelled, from the spec.
- Wallet internals. The hazard that `signAllTransactions`' return value is
  discarded (`createWorkgroup.ts:362`) depends on the wallet adapter. It is
  listed as a hazard.
- The bytes of public keys. Keys are opaque 32-byte blocks in
  `AddressDerivation`, so a typed device key that spells a group's seeds is
  not checked. Writing keys out byte by byte is out of TLC's reach next to
  the `Worknet` state space. It is listed as a hazard.
- Seeds over 32 bytes: `Address` throws for them, but a throw stops a
  handler before it sends anything, so no ledger state shows it. The model's
  names are short.
- Further operations: every handler in `src/app` that sends a transaction is
  an action of `Worknet`, `OnboardingWizard` or `ProposalPipeline`. The other
  click handlers (Waitlist's cookies and Intercom update, PublicKeyView's
  clipboard copy, SpecImportFromLibraryPopup's show/hide) change no state a
  property is about. What is left only reads and renders.
