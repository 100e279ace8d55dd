------------------------------ MODULE OperatorCli ------------------------------
(***************************************************************************)
(* The operator's commands (services/cli/main.ts) on top of the message    *)
(* path: create-m-mint, update-mint-uri, initialize-earn,                  *)
(* update-portal-authority and add-registrar-earner, one at a time, each   *)
(* of which reads Ethereum and Solana one call after the other and then    *)
(* sends a transaction, or prints it for the multisig that holds           *)
(* SQUADS_VAULT, which may execute it at any later time.  The earn program *)
(* below them is that of EarnProgram.                                      *)
(***************************************************************************)
EXTENDS CrossChainIndex, MintSetup, TLC

CONSTANTS
  EarnerAta,    \* the associated account of each earner
  MaxPrinted    \* bound: transactions waiting for the multisig

\* Portals are addresses of the seed "authority", the one of state.rs: the
\* address that create-m-mint derives for minting is none of them.
ASSUME CliAssumption ==
  /\ MaxPrinted \in Nat
  /\ token_authority \notin Portals
  /\ payer \in Users /\ vault \in Users
  /\ \A list \in EarnerLists : \A earner \in list : EarnerAta[earner] \in Accounts

VARIABLES
  mint,       \* the M mint's authorities and metadata
  createdBy,  \* history: the options create-m-mint succeeded with
  cli,        \* the command under way, and what it has read
  printed     \* transactions printed for the multisig

cliVars == <<mint, createdBy, cli, printed>>
systemVars == <<allVars, cliVars>>

Idle == [at |-> "idle"]

\* Nothing is on the chain yet but the program.
CliInit ==
  /\ multiplier = IndexScale /\ supply = 0
  /\ tokens = [a \in Accounts |-> NoAccount]
  /\ global = [admin |-> DefaultKey, portal_authority |-> DefaultKey,
               earner_merkle_root |-> ZeroRoot]
  /\ PORTAL_PROGRAM \in Portals
  /\ events = <<>> /\ seen = {} /\ grants = [a \in Accounts |-> NoGrant]
  /\ hub \in [index : {IndexScale}, earners : EarnerLists]
  /\ messages = {} /\ rootSeq = 0
  /\ mint = NoMint /\ createdBy = <<>> /\ cli = Idle /\ printed = {}

Read(next) == cli' = next /\ UNCHANGED <<allVars, mint, createdBy, printed>>

\* A read may throw, and so may the sending of a transaction that does not
\* verify or that the node refuses: the command ends.
Fail == cli # Idle /\ Read(Idle)

-----------------------------------------------------------------------------
CreateMint(ownerGiven, SQUADS_VAULT) ==
  /\ cli = Idle
  /\ mint = NoMint
  /\ mint' = CreateMMint(mint, ownerGiven, SQUADS_VAULT)
  /\ createdBy' = [owner |-> ownerGiven, vault |-> SQUADS_VAULT]
  /\ UNCHANGED <<allVars, cli, printed>>

\* The program signs for the scale and for the thaw of accounts that are
\* frozen by default.
ProgramControlsMint == mint.auth.scaledUi = earn_global /\ mint.auth.freeze = earn_global

Call(tx) ==
  /\ tx.call = "initialize" =>
       ProgramControlsMint /\ ~Migrate /\ Initialize(tx.admin, tx.index, ZeroRoot)
  /\ tx.call = "update_portal_authority" => UpdatePortalAuthority(tx.admin)
  /\ tx.call = "update_field" => mint.auth.metadata = tx.admin /\ UNCHANGED allVars
  /\ mint' = IF tx.call = "update_field" THEN [mint EXCEPT !.uri = "updated"] ELSE mint
  /\ UNCHANGED <<hubVars, rootSeq>>

\* The admin is the payer, who sends the transaction, or the vault.
Submit(tx) ==
  IF tx.admin = vault
  THEN /\ Cardinality(printed) < MaxPrinted
       /\ printed' = printed \cup {tx}
       /\ UNCHANGED <<allVars, mint>>
  ELSE Call(tx) /\ UNCHANGED printed

\* initialize-earn: the index is read from Ethereum, the transaction built on it.
GetCurrentIndex ==
  /\ cli = Idle
  /\ Read([at |-> "initialize-earn", index |-> hub.index])
InitializeEarn ==
  /\ cli.at = "initialize-earn"
  /\ \E admin \in {payer, vault} :
       Submit([call |-> "initialize", admin |-> admin, index |-> cli.index])
  /\ cli' = Idle
  /\ UNCHANGED createdBy

UpdatePortal ==
  /\ cli = Idle
  /\ \E admin \in {payer, vault} :
       Submit([call |-> "update_portal_authority", admin |-> admin, index |-> 0])
  /\ UNCHANGED <<createdBy, cli>>

\* update-mint-uri is always for the vault.
UpdateMintUri ==
  /\ cli = Idle
  /\ Submit([call |-> "update_field", admin |-> vault, index |-> 0])
  /\ UNCHANGED <<createdBy, cli>>

Approve(tx) ==
  /\ Call(tx)
  /\ printed' = printed \ {tx}
  /\ UNCHANGED <<createdBy, cli>>

-----------------------------------------------------------------------------
(* add-registrar-earner: the list from Ethereum, then the root stored on    *)
(* Solana, then the root on Ethereum, while both may change.                *)

GetEarners(earner) ==
  /\ cli = Idle
  /\ Read([at |-> "fetchGlobal", earner |-> earner, list |-> hub.earners])
FetchGlobal ==
  /\ cli.at = "fetchGlobal"
  /\ Initialized
  /\ Read([cli EXCEPT !.at = "getMerkleRoot"] @@ [root |-> global.earner_merkle_root])

\* A mismatch throws.
MatchesWithoutPrefix(expectedRoot) == FALSE
Matches(expectedRoot) == cli.root = expectedRoot
GetMerkleRoot ==
  /\ cli.at = "getMerkleRoot"
  /\ Read(IF Matches(RootOf(hub.earners))
          THEN [at |-> "addRegistrarEarner", earner |-> cli.earner, list |-> cli.list]
          ELSE Idle)

\* The proof is made from the list read first, and verifies against the root in
\* force if that is the list's; with the earner not in the list none is made.
AddRegistrarEarnerCommand ==
  /\ cli.at = "addRegistrarEarner"
  /\ cli.earner \in cli.list
  /\ RootOf(cli.list) = global.earner_merkle_root
  /\ AddRegistrarEarner(EarnerAta[cli.earner], cli.earner)
  /\ cli' = Idle
  /\ UNCHANGED <<hubVars, rootSeq, mint, createdBy, printed>>

-----------------------------------------------------------------------------
\* An earner opens its account; anyone freezes one the root does not list.
\* Upgrades to another portal are in EarnProgram.
OpenAccount(earner) ==
  /\ mint # NoMint
  /\ CreateTokenAccount(EarnerAta[earner], earner, TRUE)
  /\ UNCHANGED <<global, PORTAL_PROGRAM, events, seen, grants, hubVars, rootSeq, cliVars>>
RemoveDelisted(a) ==
  /\ RemoveRegistrarEarner(a)
  /\ UNCHANGED <<hubVars, rootSeq, cliVars>>

Earners == UNION EarnerLists

CliNext ==
  \/ \E ownerGiven, SQUADS_VAULT \in BOOLEAN : CreateMint(ownerGiven, SQUADS_VAULT)
  \/ GetCurrentIndex \/ InitializeEarn \/ UpdatePortal \/ UpdateMintUri
  \/ \E earner \in Earners : GetEarners(earner)
  \/ FetchGlobal \/ GetMerkleRoot \/ AddRegistrarEarnerCommand
  \/ Fail
  \/ \E tx \in printed : Approve(tx)
EnvironmentNext ==
  \/ /\ \/ Accrue \/ SendFromHub \/ SendFromSpoke
        \/ \E list \in EarnerLists : ChangeEarners(list)
        \/ \E m \in messages : Deliver(m)
     /\ UNCHANGED cliVars
  \/ \E earner \in Earners : OpenAccount(earner)
  \/ \E a \in Accounts : RemoveDelisted(a)

\* A command ends, and the operator repeats add-registrar-earner: no read fails
\* forever for want of an answer.
CliSpec == CliInit /\ [][CliNext \/ EnvironmentNext]_systemVars
CliFairness ==
  /\ \A earner \in Earners : SF_systemVars(GetEarners(earner))
  /\ SF_systemVars(FetchGlobal) /\ SF_systemVars(GetMerkleRoot)
  /\ SF_systemVars(AddRegistrarEarnerCommand)
  /\ WF_systemVars(Fail)
FairCliSpec == CliSpec /\ CliFairness

-----------------------------------------------------------------------------
\* After create-m-mint, whatever its options, the mint exists with accounts
\* frozen by default and no role unassigned; the payer keeps at most what the
\* vault would have had, unless --owner names it.  Without --owner the earn
\* program controls the multiplier and the freezing, and minting is for the
\* portal program's address of the seed "token_authority" (main.ts:98).  That is
\* not the address of the seed "authority", which state.rs and print-addresses
\* give as the portal's token authority: so the portal authority that the earn
\* program takes index updates from is not one that can mint.  The metadata
\* change again only through the vault they were given to.
MintIsHandedOver ==
  createdBy # <<>> =>
    /\ mint.phase = "ready" /\ mint.accounts = "frozen"
    /\ \A r \in Roles :
         /\ mint.auth[r] # NoKey
         /\ mint.auth[r] = payer =>
              \/ ~createdBy.vault /\ r \in {"pointer", "hook", "metadata"}
              \/ createdBy.owner /\ owner = payer
    /\ ~createdBy.owner =>
         /\ ProgramControlsMint
         /\ mint.auth.mint = token_authority /\ mint.auth.mint \notin Portals
    /\ mint.uri = "M_METADATA" \/ createdBy.vault

\* If the hub's list and its root on Solana settle with an earner on it whose
\* account is open, the repeated add-registrar-earner thaws the account, though
\* its three reads and its transaction see different states meanwhile.
ListedEarnerIsAdded ==
  \A earner \in Earners :
    <>[](/\ earner \in hub.earners
         /\ global.earner_merkle_root = RootOf(hub.earners)
         /\ Exists(EarnerAta[earner]))
    => <>IsThawed(EarnerAta[earner])
=============================================================================
