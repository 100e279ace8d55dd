------------------------------- MODULE Token2022 -------------------------------
(***************************************************************************)
(* The part of the SPL Token-2022 program the earn program relies on: the  *)
(* M mint with its ScaledUiAmount multiplier, and the token accounts of    *)
(* that mint.  It is external code, modelled from the calls the earn       *)
(* program makes (utils/token.rs, utils/conversion.rs) and the mint set-up *)
(* its Initialize instruction insists on: new accounts start Frozen, and   *)
(* the earn program's global PDA is the freeze authority, the permanent    *)
(* delegate and the scaled-ui authority.                                   *)
(***************************************************************************)
EXTENDS Integers

CONSTANTS
  Accounts,     \* addresses at which token accounts of the M mint can live
  Users,        \* wallets
  Portals,      \* token-authority PDAs of the deployed portal programs
  ExtSwap,      \* the extension swap program's global PDA
  DefaultKey,   \* Pubkey::default(), what an account that does not exist holds
  Ata,          \* custodian -> the address of its associated token account
  MaxSupply     \* bound: minting stops here (principal, in base units)

Custodians == Portals \cup {ExtSwap}
Owners == Users \cup Custodians \cup {DefaultKey}

ASSUME KeysAssumption ==
  /\ DefaultKey \notin Users \cup Custodians
  /\ Users \cap Custodians = {}
  /\ ExtSwap \notin Portals
  /\ Portals # {}

ASSUME AtaAssumption ==
  /\ Ata \in [Custodians -> Accounts]
  /\ \A c, d \in Custodians : c # d => Ata[c] # Ata[d]

ASSUME SupplyAssumption == MaxSupply \in Nat

VARIABLES
  multiplier,   \* the mint's new_multiplier, as the index it stands for
  supply,       \* the mint's supply of principal
  tokens        \* the token account at each address

tokenVars == <<multiplier, supply, tokens>>

AccountState == {"Uninitialized", "Initialized", "Frozen"}
TokenAccount ==
  [state : AccountState, owner : Owners, immutable : BOOLEAN, amount : Nat]

NoAccount ==
  [state |-> "Uninitialized", owner |-> DefaultKey, immutable |-> FALSE, amount |-> 0]

\* The default account state of the mint is Frozen.
NewAccount(owner, immutable) ==
  [state |-> "Frozen", owner |-> owner, immutable |-> immutable, amount |-> 0]

Exists(a) == tokens[a].state # "Uninitialized"
IsFrozen(a) == tokens[a].state = "Frozen"
IsThawed(a) == tokens[a].state = "Initialized"

-----------------------------------------------------------------------------
(* Effects of the calls the earn program makes, on a map t of accounts.     *)

Freeze(t, a) == [t EXCEPT ![a].state = "Frozen"]
Thaw(t, a) == [t EXCEPT ![a].state = "Initialized"]
Move(t, a, b, n) == [t EXCEPT ![a].amount = @ - n, ![b].amount = @ + n]

-----------------------------------------------------------------------------
(* Calls other parties make directly on the token program.                  *)

\* Anyone can open an account for any owner; at an associated address the
\* owner is fixed and the ImmutableOwner extension is always present.
CreateTokenAccount(a, owner, immutable) ==
  /\ ~Exists(a)
  /\ \A c \in Custodians : Ata[c] = a => owner = c /\ immutable
  /\ tokens' = [tokens EXCEPT ![a] = NewAccount(owner, immutable)]
  /\ UNCHANGED <<multiplier, supply>>

\* Closing needs an empty account, frozen or not.  The portal and swap
\* programs never close theirs.
CloseTokenAccount(a) ==
  /\ Exists(a)
  /\ tokens[a].owner \in Users
  /\ tokens[a].amount = 0
  /\ tokens' = [tokens EXCEPT ![a] = NoAccount]
  /\ UNCHANGED <<multiplier, supply>>

SetOwner(a, owner) ==
  /\ IsThawed(a)
  /\ tokens[a].owner \in Users
  /\ ~tokens[a].immutable
  /\ tokens' = [tokens EXCEPT ![a].owner = owner]
  /\ UNCHANGED <<multiplier, supply>>

Transfer(a, b, n) ==
  /\ a # b
  /\ IsThawed(a) /\ IsThawed(b)
  /\ tokens[a].owner # DefaultKey
  /\ n <= tokens[a].amount
  /\ tokens' = Move(tokens, a, b, n)
  /\ UNCHANGED <<multiplier, supply>>

MintTo(a, n) ==
  /\ IsThawed(a)
  /\ supply + n <= MaxSupply
  /\ tokens' = [tokens EXCEPT ![a].amount = @ + n]
  /\ supply' = supply + n
  /\ UNCHANGED multiplier

Burn(a, n) ==
  /\ IsThawed(a)
  /\ tokens[a].owner # DefaultKey
  /\ n <= tokens[a].amount /\ n <= supply
  /\ tokens' = [tokens EXCEPT ![a].amount = @ - n]
  /\ supply' = supply - n
  /\ UNCHANGED multiplier
=============================================================================
