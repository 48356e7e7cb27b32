-------------------------- MODULE AddressDerivation --------------------------
(***************************************************************************)
(* The worknet accounts' addresses: the seed lists the builders of         *)
(* src/app/src/worknet/createWorkgroup.ts pass to                          *)
(* PublicKey.findProgramAddress, and what findProgramAddress does with     *)
(* them.  It hashes the seeds one after the other with no separator or     *)
(* length, then the bump and the program id; the bump is the first one     *)
(* from 255 down that gives an off-curve point, so it too is decided by    *)
(* the concatenated bytes.  With a collision-free hash, two seed lists     *)
(* give one address exactly when their concatenations are equal.  A seed   *)
(* longer than MAX_SEED_LENGTH bytes makes it throw.                       *)
(***************************************************************************)
EXTENDS Integers, Sequences, SequencesExt, FiniteSetsExt

CONSTANTS
    MaxSeedLength,  \* MAX_SEED_LENGTH of web3.js: 32
    KeyLength,      \* bytes of a public key's toBuffer(): 32
    NoAddress       \* findProgramAddress threw

(* Buffer.from(str): the UTF-8 bytes of an ASCII string, one per char.   *)
Bytes(str) == [i \in 1..Len(str) |-> [chr |-> SubSeq(str, i, i)]]

(* key.toBuffer(): the KeyLength bytes of a public key, kept as one       *)
(* opaque block; a device key and a derived address are both keys.        *)
ToBuffer(key) == <<[key |-> key]>>

SeedLength(seed) ==
    Len(seed) + (KeyLength - 1) * Quantify(DOMAIN seed, LAMBDA i : "key" \in DOMAIN seed[i])

(* findProgramAddress(seeds, programId)[0].                               *)
Address(seeds) ==
    IF \E i \in DOMAIN seeds : SeedLength(seeds[i]) > MaxSeedLength
    THEN NoAddress
    ELSE [pda |-> FlattenSeq(seeds)]

(* The seed lists, one per account kind, as the builders write them.      *)
GroupSeeds(groupID) == <<Bytes(groupID), Bytes("work_group")>>

LicenseTokensSeeds(group) == <<ToBuffer(group), Bytes("license_tokens")>>

SpecSeeds(group, specName) == <<ToBuffer(group), Bytes(specName), Bytes("spec")>>

(* Mutant: the deployment's seeds copied from the spec's, discriminator   *)
(* included.                                                              *)
DeploymentSeedsAsSpec(group, deploymentName) ==
    <<ToBuffer(group), Bytes(deploymentName), Bytes("spec")>>

DeploymentSeeds(group, deploymentName) ==
    <<ToBuffer(group), Bytes(deploymentName), Bytes("deployment")>>

DeploymentMintSeeds(deployment) == <<ToBuffer(deployment), Bytes("deployment_mint")>>

DeploymentTokensSeeds(deployment) == <<ToBuffer(deployment), Bytes("deployment_tokens")>>

DeviceSeeds(deviceKey) == <<ToBuffer(deviceKey)>>
====
