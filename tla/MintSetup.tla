------------------------------- MODULE MintSetup -------------------------------
(***************************************************************************)
(* The transaction of create-m-mint (services/cli/main.ts): instructions   *)
(* that create the M mint with its extensions and hand its authorities     *)
(* over, executed as a whole or not at all.                                *)
(*                                                                         *)
(* External: Token-2022's rules on the order of these instructions and on  *)
(* who signs them.  The transaction is signed by the payer and the mint.   *)
(***************************************************************************)
EXTENDS Integers, Sequences

CONSTANTS
  payer,           \* PAYER_KEYPAIR
  vault,           \* SQUADS_VAULT
  owner,           \* the key given with --owner
  token_authority, \* the portal program's address of the seed "token_authority"
  earn_global,     \* the address the earn program signs with
  NoKey

\* The programs' addresses are no one's keys; --owner may give any key.
ASSUME AuthoritiesAssumption ==
  /\ NoKey \notin {payer, vault, owner, token_authority, earn_global}
  /\ payer \notin {vault, token_authority, earn_global}

Roles == {"pointer", "hook", "scaledUi", "delegate", "mint", "freeze", "metadata"}
NoMint == [phase |-> "none", accounts |-> "open", uri |-> "", auth |-> [r \in Roles |-> NoKey]]

\* An instruction, the authorities it sets, and the role that signs for it.
Ix(op, sets, by) == [op |-> op, sets |-> sets, by |-> by]

\* Extensions come between the account and InitializeMint, metadata after.
CanExecute(mint, ix) ==
  /\ mint.phase = CASE ix.op = "CreateAccount" -> "none"
                    [] ix.op \in {"InitializeExtension", "InitializeDefaultAccountState",
                                  "InitializeMint"} -> "created"
                    [] OTHER -> "ready"
  /\ ix.by \in Roles => mint.auth[ix.by] = payer
Executed(mint, ix) ==
  [phase |-> CASE ix.op = "CreateAccount" -> "created"
               [] ix.op = "InitializeMint" -> "ready"
               [] OTHER -> mint.phase,
   accounts |-> IF ix.op = "InitializeDefaultAccountState" THEN "frozen" ELSE mint.accounts,
   uri |-> IF ix.op = "InitializeMetadata" THEN "M_METADATA" ELSE mint.uri,
   auth |-> [r \in Roles |-> IF r \in DOMAIN ix.sets THEN ix.sets[r] ELSE mint.auth[r]]]

\* A failing instruction takes the whole transaction back.
Reverted == [NoMint EXCEPT !.phase = "reverted"]
Execute(mint, ix) == IF CanExecute(mint, ix) THEN Executed(mint, ix) ELSE Reverted
AfterTransaction(mint, ixs) ==
  LET state[n \in 0..Len(ixs)] ==
        IF n = 0 THEN mint ELSE Execute(state[n - 1], ixs[n])
  IN  IF state[Len(ixs)].phase = "reverted" THEN mint ELSE state[Len(ixs)]

Prepare(globalAuth, extensionsAuthority) ==
  <<Ix("CreateAccount", <<>>, "payer"),
    Ix("InitializeExtension", [pointer |-> extensionsAuthority], "none"),
    Ix("InitializeExtension", [hook |-> extensionsAuthority], "none"),
    Ix("InitializeExtension", [scaledUi |-> globalAuth], "none"),
    Ix("InitializeDefaultAccountState", <<>>, "none"),
    Ix("InitializeExtension", [delegate |-> globalAuth], "none"),
    Ix("InitializeMint", [mint |-> payer, freeze |-> globalAuth], "none"),
    Ix("InitializeMetadata", [metadata |-> payer], "mint")>>

\* The payer signs for the new mint's authorities, and gives them away last.
UpdateAuthority(to) == Ix("UpdateAuthority", [metadata |-> to], "metadata")
SetAuthority(to) == Ix("SetAuthority", [mint |-> to], "mint")
HandOverMetadata(mintAuthority, extensionsAuthority) == <<UpdateAuthority(extensionsAuthority)>>
HandOver(mintAuthority, extensionsAuthority) ==
  <<UpdateAuthority(extensionsAuthority), SetAuthority(mintAuthority)>>

createToken2022Mint(mint, mintAuthority, globalAuth, extensionsAuthority) ==
  AfterTransaction(mint, Prepare(globalAuth, extensionsAuthority)
                           \o HandOver(mintAuthority, extensionsAuthority))

\* create-m-mint: who the authorities are.
CreateMMint(mint, ownerGiven, SQUADS_VAULT) ==
  createToken2022Mint(mint,
    IF ownerGiven THEN owner ELSE token_authority,
    IF ownerGiven THEN owner ELSE earn_global,
    IF SQUADS_VAULT THEN vault ELSE payer)
=============================================================================
