------------------------------- MODULE Worknet -------------------------------
(***************************************************************************)
(* The worknet objects' lifecycle: the instruction builders of             *)
(* src/app/src/worknet/createWorkgroup.ts, the UI handlers that call them, *)
(* and the on-chain worknet program that executes the instructions.        *)
(*                                                                         *)
(* The program is not under src/; its effects are modelled from the spec   *)
(* (sections 3 and 4.2) and from its tests in src/tests/worknet.ts.        *)
(* Accounts are keyed by the seeds the builders derive them from: a group  *)
(* by its groupID, a spec or deployment by (group, name), a device by its  *)
(* key.  How a transaction reaches the ledger (proposal, signing,          *)
(* confirmation) is the subject of ProposalPipeline; here a sent           *)
(* transaction is pending until the ledger executes or rejects it.         *)
(***************************************************************************)
EXTENDS Integers, Sequences, FiniteSets, SequencesExt

CONSTANTS
    GroupIDs,     \* workgroup identifiers the user may type
    SpecNames,    \* spec names
    DepNames,     \* deployment names
    DeviceKeys,   \* device public keys
    Urls,         \* spec URLs
    Serve,        \* Serve[u]: the HTTP response to fetch(u), [status, body]
    ComposeFiles, \* the bodies that are docker-compose files
    TypedUrls,    \* the URLs a user types into NewSpec
    Library,      \* the spec library: entry name -> [url, spec] (specs.json)
    Text,         \* Text[x]: the string a group ID, spec or deployment name is
    Placeholder,  \* SystemProgram.programId, left in a group's device list
    NoAccount,    \* an address with no account behind it
    None,         \* an unused instruction field
    Governed,     \* TRUE when the proposer is a RealmsProposer
    MaxReplicas,  \* largest replica count a user enters
    MaxOps,       \* bound on the number of operations the user starts
    Page          \* the workgroup of the page (its URL's workgroup parameter)

VARIABLES
    chain,    \* the worknet program's accounts
    pending,  \* sent transactions the ledger has not yet executed
    ops,      \* operations started so far
    view,     \* the workgroup page's query data: the ledger as last fetched
    rows      \* rows[d]: deployment d's row and its token balance, or NoAccount

vars == <<chain, pending, ops, view, rows>>

Bodies == {Serve[u].body : u \in Urls}

(* sha256Digest: a collision-free hash, so a digest identifies its text.  *)
sha256Digest(body) == <<"sha256", body>>

(* One worknet or system instruction.  a and x carry its arguments.       *)
Ins(op, g, a, x) == [op |-> op, g |-> g, a |-> a, x |-> x]

-----------------------------------------------------------------------------
(* Ledger: the worknet program.                                            *)

GroupRec == [specs : SUBSET SpecNames, deps : SUBSET DepNames,
             devices : Seq(DeviceKeys \cup {Placeholder})]
SpecRec == [url : Urls, digest : {sha256Digest(b) : b \in Bodies}]
DepRec == [spec : SpecNames, replicas : 1..MaxReplicas,
           tokens : [DeviceKeys -> 0..MaxReplicas]]

ChainType == [group : [GroupIDs -> GroupRec \cup {NoAccount}],
              spec : [GroupIDs \X SpecNames -> SpecRec \cup {NoAccount}],
              dep : [GroupIDs \X DepNames -> DepRec \cup {NoAccount}],
              device : [DeviceKeys -> GroupIDs \cup {NoAccount}],
              info : [DeviceKeys -> BOOLEAN],  \* updateDevice wrote ipv4, hostname, status
              funded : [DeviceKeys -> 0..MaxOps]]

Live(c, g) == c.group[g] # NoAccount

(* The addresses the builders derive; an account's address is the one its *)
(* builder passes in the instruction's accounts.                          *)
AD == INSTANCE AddressDerivation
          WITH MaxSeedLength <- 32, KeyLength <- 32, NoAddress <- NoAccount

(* Computed once per model: each account kind's address by its names.   *)
GroupAddress == [g \in GroupIDs |-> AD!Address(AD!GroupSeeds(Text[g]))]

DeploymentAddress ==
    [p \in GroupIDs \X DepNames |-> AD!Address(AD!DeploymentSeeds(GroupAddress[p[1]], Text[p[2]]))]

AddressOf ==
    [group |-> GroupAddress,
     licenseTokens |-> [g \in GroupIDs |-> AD!Address(AD!LicenseTokensSeeds(GroupAddress[g]))],
     spec |-> [p \in GroupIDs \X SpecNames |->
                 AD!Address(AD!SpecSeeds(GroupAddress[p[1]], Text[p[2]]))],
     deployment |-> DeploymentAddress,
     deploymentMint |-> [p \in GroupIDs \X DepNames |->
                           AD!Address(AD!DeploymentMintSeeds(DeploymentAddress[p]))],
     deploymentTokens |-> [p \in GroupIDs \X DepNames |->
                             AD!Address(AD!DeploymentTokensSeeds(DeploymentAddress[p]))],
     device |-> [k \in DeviceKeys |-> AD!Address(AD!DeviceSeeds(k))]]

AccountKeys == UNION {{<<kind, x>> : x \in DOMAIN AddressOf[kind]} : kind \in DOMAIN AddressOf}

Addr(a) == AddressOf[a[1]][a[2]]

(* Pairs of accounts that derive the same address.                       *)
SharedAddresses == {{a, b} : a, b \in AccountKeys} \ {{a} : a \in AccountKeys}
Clashing == {pair \in SharedAddresses : \A a, b \in pair : Addr(a) = Addr(b)}

(* Whether ledger c holds account a.                                      *)
Holds(c, a) ==
    CASE a[1] \in {"group", "licenseTokens"} -> Live(c, a[2])
      [] a[1] = "spec"                       -> c.spec[a[2]] # NoAccount
      [] a[1] = "device"                     -> c.device[a[2]] # NoAccount
      [] OTHER                               -> c.dep[a[2]] # NoAccount

(* Tokens of a deployment already moved to device token accounts.        *)
Scheduled(dp) == SumFunction(dp.tokens)

(* Mutant: closeDevice removes the key from the group's device list.     *)
ClosedDeviceListRemoving(devices, k) == SelectSeq(devices, LAMBDA x : x # k)

(* closeDevice leaves SystemProgram.programId where the key was.          *)
ClosedDeviceList(devices, k) == ReplaceAll(devices, k, Placeholder)

(* registerDevice inits the device account derived from the key alone,   *)
(* so the key must not have one yet.                                      *)
Unregistered(c, k) == c.device[k] = NoAccount

(* The program's checks on an instruction.  Every instruction that takes *)
(* the workGroup account needs it to exist; init accounts must not.       *)
(* updateDevice is signed by the device key itself (the device agent), so *)
(* no builder of the client produces it; the program's tests call it.     *)
Valid(c, i) ==
    CASE i.op = "createWorkGroup"  -> ~Live(c, i.g)
      [] i.op = "createWorkSpec"   -> Live(c, i.g) /\ c.spec[i.g, i.a] = NoAccount
      [] i.op = "createDeployment" -> /\ Live(c, i.g)
                                      /\ c.spec[i.g, i.x.spec] # NoAccount
                                      /\ c.dep[i.g, i.a] = NoAccount
      [] i.op = "transfer"         -> TRUE
      [] i.op = "registerDevice"   -> Live(c, i.g) /\ Unregistered(c, i.a)
      [] i.op = "updateDevice"     -> c.device[i.a] # NoAccount
      [] i.op = "schedule"         -> /\ Live(c, i.g)
                                      /\ c.dep[i.g, i.a] # NoAccount
                                      /\ c.device[i.x] # NoAccount
                                      /\ Scheduled(c.dep[i.g, i.a])
                                            < c.dep[i.g, i.a].replicas
      [] i.op = "closeDeployment"  -> Live(c, i.g) /\ c.dep[i.g, i.a] # NoAccount
      [] i.op = "closeWorkSpec"    -> Live(c, i.g) /\ c.spec[i.g, i.a] # NoAccount
      [] i.op = "closeDevice"      -> Live(c, i.g) /\ c.device[i.a] = i.g
      [] i.op = "closeWorkGroup"   ->
            /\ Live(c, i.g)
            /\ \/ i.x
               \/ /\ c.group[i.g].specs = {} /\ c.group[i.g].deps = {}
                  /\ ToSet(c.group[i.g].devices) \subseteq {Placeholder}

(* The program's effect of a valid instruction.                           *)
Step(c, i) ==
    CASE i.op = "createWorkGroup" ->
            [c EXCEPT !.group[i.g] = [specs |-> {}, deps |-> {}, devices |-> <<>>]]
      [] i.op = "createWorkSpec" ->
            [c EXCEPT !.spec[i.g, i.a] = i.x,
                      !.group[i.g].specs = @ \cup {i.a}]
      [] i.op = "createDeployment" ->
            [c EXCEPT !.dep[i.g, i.a] = [spec |-> i.x.spec, replicas |-> i.x.replicas,
                                         tokens |-> [k \in DeviceKeys |-> 0]],
                      !.group[i.g].deps = @ \cup {i.a}]
      [] i.op = "transfer" -> [c EXCEPT !.funded[i.a] = @ + 1]
      [] i.op = "registerDevice" ->
            [c EXCEPT !.device[i.a] = i.g, !.info[i.a] = FALSE,
                      !.group[i.g].devices = Append(@, i.a)]
      [] i.op = "updateDevice" -> [c EXCEPT !.info[i.a] = TRUE]
      [] i.op = "schedule" ->
            [c EXCEPT !.dep[i.g, i.a].tokens[i.x] = @ + 1]
      [] i.op = "closeDeployment" ->
            [c EXCEPT !.dep[i.g, i.a] = NoAccount,
                      !.group[i.g].deps = @ \ {i.a}]
      [] i.op = "closeWorkSpec" ->
            [c EXCEPT !.spec[i.g, i.a] = NoAccount,
                      !.group[i.g].specs = @ \ {i.a}]
      [] i.op = "closeDevice" ->
            [c EXCEPT !.device[i.a] = NoAccount, !.info[i.a] = FALSE,
                      !.group[i.g].devices = ClosedDeviceList(@, i.a)]
      [] i.op = "closeWorkGroup" -> [c EXCEPT !.group[i.g] = NoAccount]

(* A transaction is atomic: its instructions run in order, and if one of  *)
(* them fails the ledger keeps none of their effects.                     *)
RunTxn(c, txn) ==
    FoldLeft(LAMBDA r, i : IF r.ok /\ Valid(r.chain, i)
                           THEN [ok |-> TRUE, chain |-> Step(r.chain, i)]
                           ELSE [ok |-> FALSE, chain |-> c],
             [ok |-> TRUE, chain |-> c], txn)

-----------------------------------------------------------------------------
(* Instruction builders (createWorkgroup.ts).  Each returns the           *)
(* instructions it hands to proposer.proposeTxn.                          *)

createWorkgroupTxn(g) == <<Ins("createWorkGroup", g, None, None)>>

closeDeploymentTxn(g, d) == <<Ins("closeDeployment", g, d, None)>>

closeSpecTxn(g, s) == <<Ins("closeWorkSpec", g, s, None)>>

closeDeviceTxn(g, k) == <<Ins("closeDevice", g, k, None)>>

(* closeWorkGroup passes force = true and only the group's own accounts.  *)
closeWorkGroupTxn(g) == <<Ins("closeWorkGroup", g, None, TRUE)>>

(* Mutant: hashes the URL string instead of the fetched body.             *)
createSpecTxnHashingUrl(g, s, u) ==
    <<Ins("createWorkSpec", g, s, [url |-> u, digest |-> sha256Digest(u)])>>

(* createSpec fetches the URL and hashes the body; the status of the      *)
(* response is never looked at.                                           *)
createSpecTxn(g, s, u) ==
    LET response == Serve[u] IN
    <<Ins("createWorkSpec", g, s, [url |-> u, digest |-> sha256Digest(response.body)])>>

createDeploymentTxn(g, s, d, r) ==
    <<Ins("createDeployment", g, d, [spec |-> s, replicas |-> r])>>

(* Mutant: the registration without the funding transfer.                 *)
registerDeviceTxnWithoutTransfer(g, k) == <<Ins("registerDevice", g, k, None)>>

(* registerDevice: fund the device from the payer, then register it.      *)
registerDeviceTxn(g, k) ==
    <<Ins("transfer", None, k, None), Ins("registerDevice", g, k, None)>>

scheduleDeploymentTxn(g, d, k) == <<Ins("schedule", g, d, k)>>

(* proposeTxn: the direct proposer puts all instructions into one         *)
(* transaction.  The Realms proposer inserts each into the proposal as a  *)
(* transaction of its own, which the governance program executes on its  *)
(* own once the vote passes.                                              *)
Propose(txn) ==
    pending' = IF Governed
               THEN pending \o [j \in 1..Len(txn) |-> <<txn[j]>>]
               ELSE Append(pending, txn)

-----------------------------------------------------------------------------
(* The workgroup page (WorkGroupStatus) and what it lists.  Its react-    *)
(* query data (the group, each spec and each device) is view, the ledger  *)
(* as of the page's last fetch; nothing invalidates it after an operation.*)
(* SpecsList fills the deployment list with an un-awaited map, so a       *)
(* deployment row appears some time after the list was fetched, and its   *)
(* replica-token balance is read when the row mounts.  rows[d] is that    *)
(* balance, or NoAccount while no row is shown.                           *)

NoRows == [d \in DepNames |-> NoAccount]

PageGroup == view.group[Page]
PageLoaded == PageGroup # NoAccount

(* The balance of a deployment's token account: the replicas not yet      *)
(* moved to a device.                                                     *)
Unscheduled(dp) == dp.replicas - Scheduled(dp)

(* SpecView renders a spec once its ["spec", key] query has data.         *)
ListedSpecs == IF PageLoaded THEN {s \in PageGroup.specs : view.spec[Page, s] # NoAccount}
               ELSE {}

(* DeviceList: the group's device keys without the placeholder whose      *)
(* ["device", key] query has data.                                        *)
ListedDevices ==
    IF PageLoaded
    THEN {k \in ToSet(PageGroup.devices) \ {Placeholder} : view.device[k] # NoAccount}
    ELSE {}

(* DeploymentToDevice: a DeviceOption renders only for a device with a    *)
(* hostname, which the device agent writes with updateDevice.             *)
OfferedDevices == {k \in ListedDevices : view.info[k]}

(* Deployment: Schedule and Close Deployment render only while the        *)
(* deployment token account holds tokens.                                 *)
ActionableDeployments == {d \in DepNames : rows[d] \in 1..MaxReplicas}

(* The page's queries fetch again (a reload, a reconnect, or a remount    *)
(* after staleTime); the deployments query returns a new, empty array.    *)
Refetch ==
    /\ view' = chain
    /\ rows' = NoRows
    /\ UNCHANGED <<chain, pending, ops>>

(* One getDeployment of SpecsList's map resolves, its row mounts under    *)
(* its spec's SpecView, and the row's effect reads the token balance.     *)
RowAppears(d) ==
    /\ PageLoaded
    /\ d \in PageGroup.deps
    /\ rows[d] = NoAccount
    /\ chain.dep[Page, d] # NoAccount
    /\ chain.dep[Page, d].spec \in ListedSpecs
    /\ rows' = [rows EXCEPT ![d] = Unscheduled(chain.dep[Page, d])]
    /\ UNCHANGED <<chain, pending, ops, view>>

-----------------------------------------------------------------------------
(* UI handlers.  Each builds one operation and sends it; its inputs are   *)
(* what the page lists, or what the user types.                           *)

Start == ops < MaxOps /\ ops' = ops + 1

Sends(txn) == Start /\ Propose(txn) /\ UNCHANGED <<chain, view, rows>>

(* OnBoardingWizard handleCreateWorkGroup; createWorkgroup throws when    *)
(* the group name has two characters or fewer.                            *)
OnboardingCreate(g, nameLen) ==
    /\ nameLen > 2
    /\ Sends(createWorkgroupTxn(g))

(* NewSpec, DeviceAdd: typed names and keys, on a loaded page.            *)
NewSpecRegister(s, u) ==
    /\ PageLoaded
    /\ Sends(createSpecTxn(Page, s, u))

(* SpecLibraryItem's Import Spec: createSpec with the entry's name and    *)
(* spec.url, the project's web page; the compose file the card links to   *)
(* (spec.spec, resolved against specs.json) is not passed.  The onClick    *)
(* only returns early without a workgroup key or a proposer.              *)
ImportSpec(e) ==
    /\ e \in DOMAIN Library
    /\ Sends(createSpecTxn(Page, e, Library[e].url))

DeviceAddRegister(k) ==
    /\ PageLoaded
    /\ Sends(registerDeviceTxn(Page, k))

(* getLocalhostDeviceInfo: the local agent's /device answer about its    *)
(* key k, as last fetched.  For a key with no device account the agent    *)
(* reports the all-ones key (SystemProgram.programId) as authority and    *)
(* workgroup.                                                             *)
AgentDeviceInfo(k) ==
    IF view.device[k] = NoAccount
    THEN [DeviceAuthority |-> Placeholder, WorkGroup |-> Placeholder]
    ELSE [DeviceAuthority |-> k, WorkGroup |-> view.device[k]]

(* The Nodes page offers RegisterDeviceButton for the agent's own key     *)
(* only while the agent reports it unregistered or in no workgroup.       *)
NodesOffersRegister(k) ==
    \/ AgentDeviceInfo(k).DeviceAuthority = Placeholder
    \/ AgentDeviceInfo(k).WorkGroup = Placeholder

(* RegisterDeviceButtonActive's onClick throws when the ["workgroup", key] *)
(* query has no data; otherwise it registers the agent's key k.           *)
NodesRegister(k) ==
    /\ NodesOffersRegister(k)
    /\ PageLoaded
    /\ Sends(registerDeviceTxn(Page, k))

(* DeploymentButton, shown in each listed spec.                           *)
DeploymentCreate(s, d, r) ==
    /\ s \in ListedSpecs
    /\ Sends(createDeploymentTxn(Page, s, d, r))

DeploymentSchedule(d, k) ==
    /\ d \in ActionableDeployments
    /\ k \in OfferedDevices
    /\ Sends(scheduleDeploymentTxn(Page, d, k))

DeploymentClose(d) ==
    /\ d \in ActionableDeployments
    /\ Sends(closeDeploymentTxn(Page, d))

SpecClose(s) ==
    /\ s \in ListedSpecs
    /\ Sends(closeSpecTxn(Page, s))

DeviceClose(k) ==
    /\ k \in ListedDevices
    /\ Sends(closeDeviceTxn(Page, k))

(* The rows of the Nodes page's mesh table: the devices the agent proxies, *)
(* each with the device account the agent read; abstracted to the devices *)
(* with an account in the page's last fetch.                              *)
MeshDevices == {k \in DeviceKeys : view.device[k] # NoAccount}

(* NodeSettings' "Remove device": the row's Info.DeviceAuthority is a set *)
(* key, so the guard passes; it closes that key's device PDA in the row's *)
(* Info.WorkGroup, not in the group the page shows.                       *)
NodesRemove(k) ==
    /\ k \in MeshDevices
    /\ Sends(closeDeviceTxn(AgentDeviceInfo(k).WorkGroup, AgentDeviceInfo(k).DeviceAuthority))

(* WorkgroupSettings: sent only when the pasted key is the group's key;   *)
(* otherwise the handler shows an error toast and changes nothing.        *)
WorkgroupClose(pasted) ==
    /\ PageLoaded
    /\ pasted = Page
    /\ Sends(closeWorkGroupTxn(Page))

(* The device agent reports its hostname and address with updateDevice,  *)
(* signed by the device key.                                              *)
DeviceReport(k) ==
    /\ chain.device[k] # NoAccount
    /\ ~chain.info[k]
    /\ chain' = RunTxn(chain, <<Ins("updateDevice", None, k, None)>>).chain
    /\ UNCHANGED <<pending, ops, view, rows>>

-----------------------------------------------------------------------------
(* Ledger steps.                                                           *)

(* The ledger executes pending transaction n: all of it or none of it.    *)
Execute(n) ==
    LET out == RunTxn(chain, pending[n]) IN
    /\ chain' = out.chain
    /\ pending' = RemoveAt(pending, n)
    /\ UNCHANGED <<ops, view, rows>>

(* A transaction never lands: its blockhash expires, or the DAO vote on   *)
(* the proposal holding it fails.                                         *)
Drop(n) ==
    /\ pending' = RemoveAt(pending, n)
    /\ UNCHANGED <<chain, ops, view, rows>>

(* The user has stopped and every transaction has been decided.           *)
Finished ==
    /\ ops = MaxOps /\ pending = <<>>
    /\ UNCHANGED vars

GroupNameLens == {2, 3}

(* A ledger on which the program holds no accounts yet.                  *)
EmptyChain ==
    [group |-> [g \in GroupIDs |-> NoAccount],
     spec |-> [p \in GroupIDs \X SpecNames |-> NoAccount],
     dep |-> [p \in GroupIDs \X DepNames |-> NoAccount],
     device |-> [k \in DeviceKeys |-> NoAccount],
     info |-> [k \in DeviceKeys |-> FALSE],
     funded |-> [k \in DeviceKeys |-> 0]]

Init ==
    /\ chain = EmptyChain
    /\ pending = <<>>
    /\ ops = 0
    /\ view = EmptyChain
    /\ rows = NoRows

Next ==
    \/ \E g \in GroupIDs, len \in GroupNameLens : OnboardingCreate(g, len)
    \/ \E s \in SpecNames, u \in TypedUrls : NewSpecRegister(s, u)
    \/ \E e \in DOMAIN Library : ImportSpec(e)
    \/ \E s \in SpecNames, d \in DepNames, r \in 1..MaxReplicas : DeploymentCreate(s, d, r)
    \/ \E k \in DeviceKeys : DeviceAddRegister(k)
    \/ \E k \in DeviceKeys : NodesRegister(k)
    \/ \E d \in DepNames, k \in DeviceKeys : DeploymentSchedule(d, k)
    \/ \E d \in DepNames : DeploymentClose(d)
    \/ \E s \in SpecNames : SpecClose(s)
    \/ \E k \in DeviceKeys : DeviceClose(k)
    \/ \E k \in DeviceKeys : NodesRemove(k)
    \/ \E pasted \in GroupIDs : WorkgroupClose(pasted)
    \/ \E k \in DeviceKeys : DeviceReport(k)
    \/ Refetch
    \/ \E d \in DepNames : RowAppears(d)
    \/ \E n \in 1..Len(pending) : Execute(n) \/ Drop(n)
    \/ Finished

Spec == Init /\ [][Next]_vars

-----------------------------------------------------------------------------
(* Properties.                                                             *)

(* Every instruction a builder can produce.                               *)
Instructions ==
    {Ins("createWorkGroup", g, None, None) : g \in GroupIDs}
    \cup {Ins("createWorkSpec", g, s, x) : g \in GroupIDs, s \in SpecNames,
                                           x \in SpecRec \cup [url : Urls, digest : {sha256Digest(u) : u \in Urls}]}
    \cup {Ins("createDeployment", g, d, x) : g \in GroupIDs, d \in DepNames,
                                             x \in [spec : SpecNames, replicas : 1..MaxReplicas]}
    \cup {Ins("transfer", None, k, None) : k \in DeviceKeys}
    \cup {Ins(o, g, k, None) : o \in {"registerDevice", "closeDevice"},
                               g \in GroupIDs, k \in DeviceKeys}
    \cup {Ins("schedule", g, d, k) : g \in GroupIDs, d \in DepNames, k \in DeviceKeys}
    \cup {Ins("closeDeployment", g, d, None) : g \in GroupIDs, d \in DepNames}
    \cup {Ins("closeWorkSpec", g, s, None) : g \in GroupIDs, s \in SpecNames}
    \cup {Ins("closeWorkGroup", g, None, f) : g \in GroupIDs, f \in BOOLEAN}

(* Every account has the shape the program gives it, and every pending    *)
(* transaction is a non-empty sequence of instructions.                   *)
TypeOK ==
    /\ chain \in ChainType
    /\ \A n \in 1..Len(pending) :
          pending[n] # <<>> /\ ToSet(pending[n]) \subseteq Instructions
    /\ ops \in 0..MaxOps
    /\ view \in ChainType
    /\ rows \in [DepNames -> 0..MaxReplicas \cup {NoAccount}]

(* registerDevice sends "a funding transfer (fixed amount) to the new     *)
(* device's own address, then the registration instruction itself"       *)
(* (spec 4.2), so that a registered device can pay its own fees.  Every   *)
(* ledger step that funds a device key also creates its device account,  *)
(* and every step that creates a device account funds it.                 *)
FundedWithRegistration ==
    [][\A k \in DeviceKeys :
          chain'.funded[k] > chain.funded[k]
              <=> (chain.device[k] = NoAccount /\ chain'.device[k] # NoAccount)]_vars

(* A spec's content reference is its compose file, and createSpec records *)
(* the digest of that content; a fetch with a non-success status must     *)
(* fail the operation (spec 3, 4.2).  Whichever handler created it         *)
(* (NewSpec or the library's Import Spec), every spec account's URL        *)
(* serves a compose file with status 200 and its digest is that file's.   *)
SpecRecordsItsContent ==
    \A p \in GroupIDs \X SpecNames :
        chain.spec[p] # NoAccount =>
            LET served == Serve[chain.spec[p].url] IN
            /\ served.status = 200
            /\ served.body \in ComposeFiles
            /\ chain.spec[p].digest = sha256Digest(served.body)

(* WorkgroupSettings tells the user that closing "will close the          *)
(* workgroup and all associated accounts": once a group is gone, no spec, *)
(* deployment or device account of it is left behind.                     *)
ClosedGroupLeavesNoAccounts ==
    \A g \in GroupIDs : ~Live(chain, g) =>
        /\ \A s \in SpecNames : chain.spec[g, s] = NoAccount
        /\ \A d \in DepNames : chain.dep[g, d] = NoAccount
        /\ \A k \in DeviceKeys : chain.device[k] # g

(* A deployment row offers Schedule and Close Deployment only while its   *)
(* token account holds tokens (Deployment in DeploymentList.tsx), and     *)
(* closeDeployment is the only way the client destroys a deployment       *)
(* (spec 3).  Once the page has refetched and a deployment's row has      *)
(* mounted, the row offers Close Deployment for every deployment that     *)
(* still exists.                                                          *)
DeploymentsStayClosable ==
    \A d \in DepNames :
        (view = chain /\ rows[d] # NoAccount /\ chain.dep[Page, d] # NoAccount)
            => d \in ActionableDeployments

(* Spec 3: a deployment references a spec.  SpecView offers Close Spec   *)
(* whatever deployments reference the spec, and DeploymentList renders a  *)
(* deployment only under a spec the page lists (RowAppears), so its       *)
(* Close Deployment is reachable only while the spec exists.  Every live  *)
(* deployment of a live group references a spec account that exists.     *)
DeploymentsReferenceLiveSpecs ==
    \A g \in GroupIDs, d \in DepNames :
        (Live(chain, g) /\ chain.dep[g, d] # NoAccount)
            => chain.spec[g, chain.dep[g, d].spec] # NoAccount

(* The ledger is modelled with accounts keyed by kind and names, which is *)
(* sound only if the builders' seed lists give every account its own      *)
(* address: findProgramAddress concatenates the seeds with no separator,  *)
(* and a user may give a spec and a deployment the same name.  No two     *)
(* accounts the ledger holds at once share an address.                    *)
AccountAddressesDistinct ==
    \A pair \in Clashing : \E a \in pair : ~Holds(chain, a)
====
