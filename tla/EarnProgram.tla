------------------------------ MODULE EarnProgram ------------------------------
(***************************************************************************)
(* The earn program (programs/earn/src): every instruction of lib.rs as an *)
(* action over the EarnGlobal account and the M mint, with Token-2022 and  *)
(* its users as environment.  A transaction is atomic, so an instruction   *)
(* that returns an error is simply not enabled.                            *)
(*                                                                         *)
(* A merkle root is abstracted to the set of keys it commits to.  The      *)
(* module MerkleProof justifies that: it models the verifier itself.  The  *)
(* all-zero root commits to nothing, and no proof verifies against it.     *)
(*                                                                         *)
(* An operator just before another of the same parameters, such as         *)
(* AlwaysFresh before IsFresh, is a plausible mistake in the code: each    *)
(* property is shown to fail when the mistake replaces the operator.       *)
(***************************************************************************)
EXTENDS Token2022, Sequences

CONSTANTS
  Indices,      \* the M indices an instruction can carry
  Roots,        \* the merkle roots an instruction can carry
  IndexScale,   \* the index of multiplier 1.0 (INDEX_SCALE)
  Inexact,      \* the indices that f64 gives back one lower
  Testing,      \* cargo feature "testing"
  Migrate,      \* cargo feature "migrate"
  OldGlobals,   \* what the v1 program's global account may hold when migrating
  OldSupply     \* the supply of the v1 M mint

ZeroRoot == {}

ASSUME InputAssumption ==
  /\ Indices \subseteq Nat \ {0}
  /\ Roots \subseteq SUBSET Owners
  /\ IndexScale \in Nat \ {0}
  /\ Testing \in BOOLEAN /\ Migrate \in BOOLEAN
  /\ Inexact \subseteq Nat \ {0}
  /\ OldGlobals \subseteq [index : Nat \ {0}, earner_merkle_root : SUBSET Owners]
  /\ OldSupply \in Nat

VARIABLES
  global,          \* the EarnGlobal account
  PORTAL_PROGRAM,  \* the portal compiled into the deployed build
  events,          \* IndexUpdateV2 events emitted so far
  seen,            \* history: index updates the program has authorised
  grants           \* history: why each thawed account was thawed, and for whom

vars == <<tokenVars, global, PORTAL_PROGRAM, events, seen, grants>>

EarnGlobal ==
  [admin : Users \cup {DefaultKey},
   portal_authority : Portals \cup {DefaultKey},
   earner_merkle_root : SUBSET Owners]
Update == [index : Nat, root : SUBSET Owners]
IndexUpdateV2 == [index : Nat, current_multiplier : Nat]
Grant == [why : {"none", "custody", "proof", "recovery"}, owner : Owners]
NoGrant == [why |-> "none", owner |-> DefaultKey]

Initialized == global.admin # DefaultKey

\* The owners RemoveRegistrarEarner refuses to freeze.
CustodyPortalOnly == {global.portal_authority}
Custody == {global.portal_authority, ExtSwap}

HasAnyOwner(a) == TRUE
HasImmutableOwner(a) == tokens[a].immutable

VerifyInTree(root, key) == root # ZeroRoot /\ key \in root
VerifyNotInTreeOneLeaf(root, key) ==
  root # ZeroRoot /\ (key \notin root \/ root = {key})
VerifyNotInTree(root, key) == root # ZeroRoot /\ key \notin root

\* The multiplier, index / IndexScale in f64, times the scale and truncated.
Truncated(index) == IF index \in Inexact THEN index - 1 ELSE index

\* principal_to_amount_up: the UI amount of a principal, rounded up.
PrincipalToAmountUp(principal, index) ==
  IF index = IndexScale THEN principal
  ELSE (Truncated(index) * principal + IndexScale - 1) \div IndexScale

\* update_multiplier: the mint's multiplier only ever grows, and an index that
\* does not raise it is dropped without an error.
Raised(index) == IF index > multiplier THEN index ELSE multiplier

\* That silence is wrong for a first index, so Initialize refuses it up front.
AnyMultiplier(index) == TRUE
RaisesMultiplier(index) == multiplier < index
ValidMultiplier(index) == multiplier <= index

\* When migrating, the amount the new mint is found to be worth may not exceed
\* the supply of the old one.
BackedBeforeUpdate(index) ==
  PrincipalToAmountUp(supply, multiplier) <= OldSupply
BackedByOldMint(index) ==
  PrincipalToAmountUp(supply, Raised(index)) <= OldSupply

-----------------------------------------------------------------------------
\* The mint exists before the program: its multiplier is some index, and one
\* account may hold principal issued before the freeze authority was handed over.
GenesisAccount(owner, n) ==
  [state |-> "Frozen", owner |-> owner, immutable |-> FALSE, amount |-> n]

Init ==
  /\ multiplier \in Indices
  /\ \E a \in Accounts, owner \in Users, n \in 0..MaxSupply :
       /\ \A c \in Custodians : Ata[c] # a
       /\ supply = n
       /\ tokens = [b \in Accounts |->
                      IF b = a THEN GenesisAccount(owner, n) ELSE NoAccount]
  /\ global = [admin |-> DefaultKey, portal_authority |-> DefaultKey,
               earner_merkle_root |-> ZeroRoot]
  /\ PORTAL_PROGRAM \in Portals
  /\ events = <<>>
  /\ seen = {}
  /\ grants = [a \in Accounts |-> NoGrant]

\* init_if_needed on a custodian's associated account, then the thaw if frozen.
AtaInitIfNeeded(t, c) ==
  IF t[Ata[c]].state = "Uninitialized"
  THEN [t EXCEPT ![Ata[c]] = NewAccount(c, TRUE)] ELSE t
OpenCustody(t, c) == Thaw(AtaInitIfNeeded(t, c), Ata[c])
CustodyGrant(c) == [why |-> "custody", owner |-> c]

\* Initialize: the first signer becomes the admin.
Initialize(signer, index, root) ==
  /\ ~Initialized
  /\ ValidMultiplier(index)
  /\ Migrate => BackedByOldMint(index)
  /\ global' = [admin |-> signer, portal_authority |-> PORTAL_PROGRAM,
                earner_merkle_root |-> root]
  /\ multiplier' = Raised(index)
  /\ tokens' = OpenCustody(OpenCustody(tokens, PORTAL_PROGRAM), ExtSwap)
  /\ grants' = [grants EXCEPT ![Ata[PORTAL_PROGRAM]] = CustodyGrant(PORTAL_PROGRAM),
                              ![Ata[ExtSwap]] = CustodyGrant(ExtSwap)]
  /\ seen' = {[index |-> index, root |-> root]}
  /\ UNCHANGED <<supply, PORTAL_PROGRAM, events>>

InitializeFresh ==
  /\ ~Migrate
  /\ \E signer \in Users, current_index \in Indices :
       Initialize(signer, current_index, ZeroRoot)

InitializeMigrated ==
  /\ Migrate
  /\ \E signer \in Users, old \in OldGlobals :
       Initialize(signer, old.index, old.earner_merkle_root)

\* PropagateIndex: stale updates succeed and change nothing.
MayPropagate(signer) ==
  \/ signer = global.portal_authority
  \/ Testing /\ signer = global.admin

AlwaysFresh(new_index) == TRUE
IsStrictlyFresh(new_index) == new_index > multiplier
IsFresh(new_index) == new_index >= multiplier

NextRoot(new_index, root) ==
  IF IsFresh(new_index) /\ root # ZeroRoot THEN root ELSE global.earner_merkle_root

\* The IndexUpdateV2 event of a strictly larger index.
IndexUpdate(new_index) == [index |-> new_index, current_multiplier |-> multiplier]
EmittedWhenFresh(new_index) ==
  IF IsFresh(new_index) THEN Append(events, IndexUpdate(new_index)) ELSE events
Emitted(new_index) ==
  IF new_index > multiplier THEN Append(events, IndexUpdate(new_index)) ELSE events

PropagateUnordered(signer, new_index, root) ==
  /\ Initialized
  /\ MayPropagate(signer)
  /\ seen' = seen \cup {[index |-> new_index, root |-> root]}
  /\ global' = [global EXCEPT !.earner_merkle_root = NextRoot(new_index, root)]
  /\ multiplier' = new_index
  /\ events' = Emitted(new_index)
  /\ UNCHANGED <<supply, tokens, PORTAL_PROGRAM, grants>>

PropagateIndex(signer, new_index, root) ==
  /\ Initialized
  /\ MayPropagate(signer)
  /\ seen' = seen \cup {[index |-> new_index, root |-> root]}
  /\ global' = [global EXCEPT !.earner_merkle_root = NextRoot(new_index, root)]
  /\ multiplier' = Raised(new_index)
  /\ events' = Emitted(new_index)
  /\ UNCHANGED <<supply, tokens, PORTAL_PROGRAM, grants>>

UpdatePortalAuthority(signer) ==
  /\ Initialized
  /\ signer = global.admin
  /\ global' = [global EXCEPT !.portal_authority = PORTAL_PROGRAM]
  /\ tokens' = OpenCustody(tokens, PORTAL_PROGRAM)
  /\ grants' = [grants EXCEPT ![Ata[PORTAL_PROGRAM]] = CustodyGrant(PORTAL_PROGRAM)]
  /\ UNCHANGED <<multiplier, supply, PORTAL_PROGRAM, events, seen>>

\* AddRegistrarEarner: anyone may call it.
AddRegistrarEarner(a, user) ==
  /\ Initialized
  /\ IsFrozen(a)
  /\ tokens[a].owner = user
  /\ HasImmutableOwner(a)
  /\ user # DefaultKey
  /\ VerifyInTree(global.earner_merkle_root, user)
  /\ tokens' = Thaw(tokens, a)
  /\ grants' = [grants EXCEPT ![a] = [why |-> "proof", owner |-> user]]
  /\ UNCHANGED <<multiplier, supply, global, PORTAL_PROGRAM, events, seen>>

\* RemoveRegistrarEarner: anyone may call it.
RemoveRegistrarEarner(a) ==
  /\ Initialized
  /\ IsThawed(a)
  /\ VerifyNotInTree(global.earner_merkle_root, tokens[a].owner)
  /\ tokens[a].owner \notin Custody
  /\ tokens' = Freeze(tokens, a)
  /\ grants' = [grants EXCEPT ![a] = NoGrant]
  /\ UNCHANGED <<multiplier, supply, global, PORTAL_PROGRAM, events, seen>>

\* RecoverM: thaw the source, thaw the destination if it is frozen, move,
\* freeze the source.  With one account as both, the second thaw fails.
HasAnyBalance(a, n) == TRUE
HasBalance(a, n) == n <= tokens[a].amount

RecoveredStillThawed(source, destination, amount) ==
  Move(Thaw(Thaw(tokens, source), destination), source, destination, amount)
Recovered(source, destination, amount) ==
  Freeze(Move(Thaw(Thaw(tokens, source), destination), source, destination, amount),
         source)

RecoverM(signer, source, destination, amount) ==
  /\ Initialized
  /\ signer = global.admin
  /\ IsFrozen(source)
  /\ Exists(destination) /\ destination # source
  /\ HasBalance(source, amount)
  /\ tokens' = Recovered(source, destination, amount)
  /\ grants' = IF IsFrozen(destination)
               THEN [grants EXCEPT ![destination] =
                       [why |-> "recovery", owner |-> tokens[destination].owner]]
               ELSE grants
  /\ UNCHANGED <<multiplier, supply, global, PORTAL_PROGRAM, events, seen>>

-----------------------------------------------------------------------------
\* A new build of the program is deployed with another portal compiled in.
UpgradeProgram(p) ==
  /\ PORTAL_PROGRAM' = p
  /\ UNCHANGED <<tokenVars, global, events, seen, grants>>

TokenProgramCall ==
  /\ \/ \E a \in Accounts, owner \in Owners, immutable \in BOOLEAN :
          CreateTokenAccount(a, owner, immutable) /\ UNCHANGED grants
     \/ \E a \in Accounts :
          CloseTokenAccount(a) /\ grants' = [grants EXCEPT ![a] = NoGrant]
     \/ \E a \in Accounts, owner \in Owners : SetOwner(a, owner) /\ UNCHANGED grants
     \/ \E a, b \in Accounts, n \in 1..MaxSupply : Transfer(a, b, n) /\ UNCHANGED grants
     \/ \E a \in Accounts, n \in 1..MaxSupply :
          (MintTo(a, n) \/ Burn(a, n)) /\ UNCHANGED grants
  /\ UNCHANGED <<global, PORTAL_PROGRAM, events, seen>>

EarnCall ==
  \/ InitializeFresh
  \/ InitializeMigrated
  \/ \E signer \in Owners, new_index \in Indices, root \in Roots :
       PropagateIndex(signer, new_index, root)
  \/ \E signer \in Users : UpdatePortalAuthority(signer)
  \/ \E a \in Accounts, user \in Owners : AddRegistrarEarner(a, user)
  \/ \E a \in Accounts : RemoveRegistrarEarner(a)
  \/ \E signer \in Users, source, destination \in Accounts, amount \in 0..MaxSupply :
       RecoverM(signer, source, destination, amount)

Next ==
  \/ EarnCall
  \/ TokenProgramCall
  \/ \E p \in Portals : UpgradeProgram(p)

Spec == Init /\ [][Next]_vars

-----------------------------------------------------------------------------
\* Every variable holds a value of the kind the program's account structs and
\* the token program give it.
TypeOK ==
  /\ multiplier \in Nat
  /\ supply \in Nat
  /\ tokens \in [Accounts -> TokenAccount]
  /\ global \in EarnGlobal
  /\ PORTAL_PROGRAM \in Portals
  /\ events \in Seq(IndexUpdateV2)
  /\ seen \subseteq Update
  /\ grants \in [Accounts -> Grant]

\* Whatever the order, repetition or staleness of the index updates that
\* PropagateIndex authorises, the mint's multiplier is the largest of them
\* and of the index the program was initialised with.
MultiplierIsNewestSeen ==
  Initialized =>
    /\ \E m \in seen : m.index = multiplier
    /\ \A m \in seen : m.index <= multiplier

\* PropagateIndex keeps a merkle root that no later index supersedes: an
\* authorised update that carries a root and a larger index was ignored only
\* because an update without a root had already pushed the index past it.
RootIsNewestUnlessOvertaken ==
  Initialized =>
    \E r \in seen :
      /\ r.root = global.earner_merkle_root
      /\ \A m \in seen :
           m.root # ZeroRoot /\ m.index > r.index =>
             \E z \in seen : z.root = ZeroRoot /\ z.index > m.index

\* The IndexUpdateV2 events are a gapless history of the multiplier: each one
\* starts where the one before it ended, and the last one ends at the
\* multiplier of the mint, so an indexer can rebuild it from them.
EventsAreMultiplierHistory ==
  /\ \A i \in 1..Len(events) : events[i].current_multiplier < events[i].index
  /\ \A i \in 1..Len(events) - 1 : events[i].index = events[i + 1].current_multiplier
  /\ events # <<>> => events[Len(events)].index = multiplier

\* Once initialised, the portal and the extension swap can always move M:
\* the associated account of each current custodian is open, thawed and its
\* own, whatever proofs, recoveries and upgrades came before.
CustodyAccountsUsable ==
  Initialized =>
    \A c \in {global.portal_authority, ExtSwap} :
      /\ IsThawed(Ata[c])
      /\ tokens[Ata[c]].owner = c

\* An account thawed by AddRegistrarEarner still belongs, and can only belong,
\* to the earner whose inclusion was proven: a real key that some authorised
\* root listed.
ProvenOwnerIsFixed ==
  \A a \in Accounts :
    grants[a].why = "proof" =>
      /\ tokens[a].immutable
      /\ tokens[a].owner = grants[a].owner
      /\ tokens[a].owner # DefaultKey
      /\ \E m \in seen : tokens[a].owner \in m.root

\* The multiplier, and with it every holder's balance, never decreases.
MultiplierNeverDecreases == [][multiplier' >= multiplier]_vars

\* Only accounts of owners that the current root excludes are ever frozen:
\* a listed earner and the current custodians keep their access.
OnlyNonEarnersAreFrozen ==
  [][\A a \in Accounts :
       IsThawed(a) /\ IsFrozen(a)' =>
         /\ tokens[a].owner \notin global.earner_merkle_root
         /\ tokens[a].owner \notin {global.portal_authority, ExtSwap}]_vars

\* Principal leaves a frozen account only into another account, and the
\* account it left is still frozen afterwards.
RecoveryKeepsSourceFrozen ==
  [][\A a \in Accounts :
       IsFrozen(a) /\ tokens'[a].amount < tokens[a].amount =>
         /\ IsFrozen(a)'
         /\ supply' = supply
         /\ \E b \in Accounts :
              tokens'[b].amount - tokens[b].amount = tokens[a].amount - tokens'[a].amount]_vars

\* The migrating build starts at an index of the old program, and takes over
\* only a mint whose whole supply, at that index, the old mint covers.  Where f64
\* gives the index back one lower, the check of initialize.rs values the supply
\* one lower too, and lets it exceed the old mint by up to a unit of M for every
\* IndexScale units of principal, and by no more.
MigrationIsBacked ==
  [][~Initialized /\ Initialized' /\ Migrate =>
       LET lost == IF multiplier' \in Inexact THEN supply' ELSE 0
       IN  /\ \E old \in OldGlobals : multiplier' = old.index
           /\ supply' * multiplier' <= OldSupply * IndexScale + lost]_vars

\* The program implements IndexFeed: seen from outside it is an index that only
\* rises and a log with one entry for each rise, whatever stale, repeated or
\* unauthorised updates PropagateIndex meets in between.
PublishedIndices == [i \in 1..Len(events) |-> events[i].index]
Feed == INSTANCE IndexFeed WITH
  started <- Initialized, index <- multiplier,
  root <- global.earner_merkle_root, log <- PublishedIndices
ImplementsIndexFeed == Feed!FeedSpec
=============================================================================
