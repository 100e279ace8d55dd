---------------------------- MODULE OperatorCliProofs ---------------------------
(***************************************************************************)
(* Machine-checked proofs about MintSetup and OperatorCli: what the        *)
(* transaction of create-m-mint makes of the mint for any keys and         *)
(* options, and what any later commands, approvals and steps of the chains *)
(* leave of it.                                                            *)
(***************************************************************************)
EXTENDS OperatorCli, WellFoundedInduction, TLAPS

USE AuthoritiesAssumption

-----------------------------------------------------------------------------
(* A transaction, instruction by instruction.                                *)

\* r has the results of the first m instructions.
Results(r, before, ixs, m) ==
  r = [n \in 0..m |-> IF n = 0 THEN before
                      ELSE Execute(r[n - 1], ixs[n])]

\* The first result is the start, and each next one that of an instruction.
LEMMA Steps ==
  ASSUME NEW before, NEW ixs, NEW m \in Nat, NEW r, Results(r, before, ixs, m)
  PROVE  /\ r[0] = before
         /\ \A n \in 1..m : r[n] = Execute(r[n - 1], ixs[n])
<1>. DEFINE next(n) == IF n = 0 THEN before
                       ELSE Execute(r[n - 1], ixs[n])
<1>1. r = [n \in 0..m |-> next(n)]
  BY DEF Results
<1>2. \A n \in 1..m : next(n) = Execute(r[n - 1], ixs[n])
  OBVIOUS
<1>3. next(0) = before
  OBVIOUS
<1>. HIDE DEF next
<1>4. \A n \in 0..m : r[n] = next(n)
  BY <1>1
<1>5. \A n \in 1..m : n \in 0..m
  OBVIOUS
<1>6. ASSUME NEW n \in 1..m  PROVE r[n] = Execute(r[n - 1], ixs[n])
  <2>1. r[n] = next(n)
    BY <1>4, <1>5
  <2>2. next(n) = Execute(r[n - 1], ixs[n])
    BY <1>2
  <2>. QED  BY <2>1, <2>2
<1>7. r[0] = before
  <2>1. 0 \in 0..m
    OBVIOUS
  <2>. QED  BY <1>3, <1>4, <2>1
<1>. QED  BY <1>6, <1>7

\* What follows an instruction is the result of executing it.
LEMMA ResultsExtend ==
  ASSUME NEW before, NEW ixs, NEW m \in Nat, NEW r, Results(r, before, ixs, m)
  PROVE  \E s : Results(s, before, ixs, m + 1)
<1>. DEFINE s == [n \in 0..(m + 1) |-> IF n = m + 1 THEN Execute(r[m], ixs[m + 1])
                                       ELSE r[n]]
<1>1. /\ r[0] = before
      /\ \A n \in 1..m : r[n] = Execute(r[n - 1], ixs[n])
  <2>. HIDE DEF s
  <2>. QED  BY Steps
<1>4. \A n \in 0..(m + 1) : s[n] = IF n = 0 THEN before
                                  ELSE Execute(s[n - 1], ixs[n])
  <2>. SUFFICES ASSUME NEW n \in 0..(m + 1)
                PROVE  s[n] = IF n = 0 THEN before
                              ELSE Execute(s[n - 1], ixs[n])
    OBVIOUS
  <2>1. CASE n = 0
    BY <1>1, <2>1
  <2>2. CASE n \in 1..m
    <3>1. s[n] = r[n] /\ s[n - 1] = r[n - 1]
      BY <2>2
    <3>. QED  BY <1>1, <2>2, <3>1
  <2>3. CASE n = m + 1
    <3>1. s[n] = Execute(r[m], ixs[m + 1]) /\ s[n - 1] = r[m]
      BY <2>3
    <3>. QED  BY <2>3, <3>1
  <2>. QED  BY <2>1, <2>2, <2>3
<1>5. s = [n \in 0..(m + 1) |-> s[n]]
  OBVIOUS
<1>. HIDE DEF s
<1>. QED  BY <1>4, <1>5 DEF Results

\* Every list of instructions has results: the recursive definition in
\* AfterTransaction is not vacuous.
LEMMA ResultsExist ==
  ASSUME NEW before, NEW ixs, NEW m \in Nat
  PROVE  \E r : Results(r, before, ixs, m)
<1>. DEFINE T == {k \in Nat : ~ \E r : Results(r, before, ixs, k)}
<1>1. SUFFICES T = {}
  OBVIOUS
<1>2. SUFFICES ASSUME T # {}  PROVE FALSE
  OBVIOUS
<1>3. T \subseteq Nat
  OBVIOUS
<1>4. PICK k \in T : \A j \in T : ~ (<<j, k>> \in OpToRel(<, Nat))
  <2>. HIDE DEF T
  <2>. QED  BY <1>2, <1>3, NatLessThanWellFounded, WFMin
<1>5. \A j \in T : ~ (j < k)
  BY <1>3, <1>4 DEF OpToRel
<1>6. CASE k = 0
  <2>. DEFINE s == [n \in 0..0 |-> before]
  <2>1. Results(s, before, ixs, 0)
    BY DEF Results
  <2>. QED  BY <1>4, <1>6, <2>1
<1>7. CASE k # 0
  <2>1. k - 1 \in Nat /\ k - 1 \notin T /\ (k - 1) + 1 = k
    BY <1>3, <1>5, <1>7
  <2>2. PICK r : Results(r, before, ixs, k - 1)
    BY <2>1
  <2>3. \E s : Results(s, before, ixs, (k - 1) + 1)
    BY <2>1, <2>2, ResultsExtend
  <2>. QED  BY <1>4, <2>1, <2>3
<1>. QED  BY <1>6, <1>7

\* So the mint after a transaction is the last of these, unless one is reverted.
LEMMA AfterTransactionIsLast ==
  ASSUME NEW before, NEW ixs, Len(ixs) \in Nat
  PROVE  \E r : /\ Results(r, before, ixs, Len(ixs))
                /\ r[Len(ixs)].phase # "reverted" => AfterTransaction(before, ixs) = r[Len(ixs)]
<1>. DEFINE r == CHOOSE r : r = [n \in 0..Len(ixs) |->
                    IF n = 0 THEN before ELSE Execute(r[n - 1], ixs[n])]
<1>1. \E s : Results(s, before, ixs, Len(ixs))
  BY ResultsExist
<1>2. Results(r, before, ixs, Len(ixs))
  BY <1>1 DEF Results
<1>3. AfterTransaction(before, ixs) = IF r[Len(ixs)].phase = "reverted" THEN before ELSE r[Len(ixs)]
  BY DEF AfterTransaction
<1>. HIDE DEF r
<1>. QED  BY <1>2, <1>3

-----------------------------------------------------------------------------
(* The transaction of create-m-mint.                                         *)

\* A mint in a phase, its accounts frozen by default or not, with metadata or without.
IsMint(m, phase, accounts, uri) ==
  /\ m.phase = phase /\ m.accounts = accounts /\ m.uri = uri
  /\ DOMAIN m = {"phase", "accounts", "uri", "auth"}

\* The authorities that are a key's.
Held(m, roles, key) == \A role \in roles : m.auth[role] = key

\* No mint yet.
LEMMA Fresh ==
  ASSUME NEW m, m = NoMint
  PROVE  IsMint(m, "none", "open", "")
BY DEF IsMint, NoMint

\* What an instruction that can be executed makes of the mint.
Becomes(m, op, sets, next) ==
  /\ DOMAIN next = {"phase", "accounts", "uri", "auth"}
  /\ next.phase = CASE op = "CreateAccount" -> "created"
                    [] op = "InitializeMint" -> "ready"
                    [] OTHER -> m.phase
  /\ next.accounts = IF op = "InitializeDefaultAccountState" THEN "frozen" ELSE m.accounts
  /\ next.uri = IF op = "InitializeMetadata" THEN "M_METADATA" ELSE m.uri
  /\ \A role \in Roles : next.auth[role] = IF role \in DOMAIN sets THEN sets[role]
                                           ELSE m.auth[role]

LEMMA AfterInstruction ==
  ASSUME NEW m, NEW op, NEW sets, NEW by, NEW next, next = Executed(m, Ix(op, sets, by))
  PROVE  Becomes(m, op, sets, next)
<1>. DEFINE ix == Ix(op, sets, by)
<1>1. ix.op = op /\ ix.sets = sets
  BY DEF Ix
<1>2. next = Executed(m, ix)
  OBVIOUS
<1>. HIDE DEF ix
<1>3. next.phase = CASE op = "CreateAccount" -> "created"
                     [] op = "InitializeMint" -> "ready"
                     [] OTHER -> m.phase
  BY <1>1, <1>2 DEF Executed
<1>4. next.accounts = IF op = "InitializeDefaultAccountState" THEN "frozen" ELSE m.accounts
  BY <1>1, <1>2 DEF Executed
<1>5. next.uri = IF op = "InitializeMetadata" THEN "M_METADATA" ELSE m.uri
  BY <1>1, <1>2 DEF Executed
<1>6. \A role \in Roles : next.auth[role] = IF role \in DOMAIN sets THEN sets[role]
                                            ELSE m.auth[role]
  BY <1>1, <1>2 DEF Executed
<1>7. DOMAIN next = {"phase", "accounts", "uri", "auth"}
  BY <1>2 DEF Executed
<1>. QED  BY <1>3, <1>4, <1>5, <1>6, <1>7 DEF Becomes

\* The ten instructions execute: the payer holds what it signs for, and in the
\* end each authority has its place.
LEMMA MintCreated ==
  ASSUME NEW mintAuthority, NEW globalAuth, NEW extensionsAuthority, NEW new,
         new = createToken2022Mint(NoMint, mintAuthority, globalAuth, extensionsAuthority)
  PROVE  /\ IsMint(new, "ready", "frozen", "M_METADATA")
         /\ Held(new, {"pointer", "hook", "metadata"}, extensionsAuthority)
         /\ Held(new, {"scaledUi", "delegate", "freeze"}, globalAuth)
         /\ Held(new, {"mint"}, mintAuthority)
<1>. DEFINE ixs == Prepare(globalAuth, extensionsAuthority)
                     \o HandOver(mintAuthority, extensionsAuthority)
<1>0. new = AfterTransaction(NoMint, ixs)
  BY DEF createToken2022Mint
<1>1. /\ Len(ixs) = 10
      /\ ixs[1] = Ix("CreateAccount", <<>>, "payer")
      /\ ixs[2] = Ix("InitializeExtension", [pointer |-> extensionsAuthority], "none")
      /\ ixs[3] = Ix("InitializeExtension", [hook |-> extensionsAuthority], "none")
      /\ ixs[4] = Ix("InitializeExtension", [scaledUi |-> globalAuth], "none")
      /\ ixs[5] = Ix("InitializeDefaultAccountState", <<>>, "none")
      /\ ixs[6] = Ix("InitializeExtension", [delegate |-> globalAuth], "none")
      /\ ixs[7] = Ix("InitializeMint", [mint |-> payer, freeze |-> globalAuth], "none")
      /\ ixs[8] = Ix("InitializeMetadata", [metadata |-> payer], "mint")
      /\ ixs[9] = UpdateAuthority(extensionsAuthority)
      /\ ixs[10] = SetAuthority(mintAuthority)
  BY DEF Prepare, HandOver
<1>. HIDE DEF ixs
<1>2. Len(ixs) \in Nat
  BY <1>1
<1>3. PICK r : /\ Results(r, NoMint, ixs, Len(ixs))
               /\ r[Len(ixs)].phase # "reverted" => AfterTransaction(NoMint, ixs) = r[Len(ixs)]
  BY <1>2, AfterTransactionIsLast
<1>4. r[0] = NoMint /\ \A n \in 1..Len(ixs) : r[n] = Execute(r[n - 1], ixs[n])
  <2>. DEFINE m == Len(ixs)
  <2>1. m \in Nat /\ Results(r, NoMint, ixs, m)
    BY <1>2, <1>3
  <2>. HIDE DEF m
  <2>2. r[0] = NoMint /\ \A n \in 1..m : r[n] = Execute(r[n - 1], ixs[n])
    BY <2>1, Steps
  <2>. QED  BY <2>2 DEF m
<1>5. r[10].phase # "reverted" => new = r[10]
  BY <1>0, <1>1, <1>3
<1>6. IsMint(r[0], "none", "open", "")
  BY <1>4, Fresh
<1>7. /\ IsMint(r[1], "created", "open", "")
  <2>. DEFINE ix == ixs[1]
  <2>1. ix = Ix("CreateAccount", <<>>, "payer")
    BY <1>1
  <2>2. r[1] = Execute(r[0], ix)
    BY <1>1, <1>4
  <2>. HIDE DEF ix
  <2>3. CanExecute(r[0], ix)
    BY <1>6, <2>1 DEF CanExecute, Ix, IsMint, Held, Roles
  <2>4. r[1] = Executed(r[0], ix)
    BY <2>2, <2>3 DEF Execute
  <2>5. Becomes(r[0], "CreateAccount", <<>>, r[1])
    BY <2>1, <2>4, AfterInstruction
  <2>6. \A role \in Roles : role \notin DOMAIN <<>>
    BY DEF Roles
  <2>. QED  BY <1>6, <2>5, <2>6 DEF Becomes, IsMint, Held, Roles
<1>8. /\ IsMint(r[2], "created", "open", "")
      /\ Held(r[2], {"pointer"}, extensionsAuthority)
  <2>. DEFINE ix == ixs[2]
  <2>1. ix = Ix("InitializeExtension", [pointer |-> extensionsAuthority], "none")
    BY <1>1
  <2>2. r[2] = Execute(r[1], ix)
    BY <1>1, <1>4
  <2>. HIDE DEF ix
  <2>3. CanExecute(r[1], ix)
    BY <1>7, <2>1 DEF CanExecute, Ix, IsMint, Held, Roles
  <2>4. r[2] = Executed(r[1], ix)
    BY <2>2, <2>3 DEF Execute
  <2>5. Becomes(r[1], "InitializeExtension", [pointer |-> extensionsAuthority], r[2])
    BY <2>1, <2>4, AfterInstruction
  <2>. QED  BY <1>7, <2>5 DEF Becomes, IsMint, Held, Roles
<1>9. /\ IsMint(r[3], "created", "open", "")
      /\ Held(r[3], {"pointer", "hook"}, extensionsAuthority)
  <2>. DEFINE ix == ixs[3]
  <2>1. ix = Ix("InitializeExtension", [hook |-> extensionsAuthority], "none")
    BY <1>1
  <2>2. r[3] = Execute(r[2], ix)
    BY <1>1, <1>4
  <2>. HIDE DEF ix
  <2>3. CanExecute(r[2], ix)
    BY <1>8, <2>1 DEF CanExecute, Ix, IsMint, Held, Roles
  <2>4. r[3] = Executed(r[2], ix)
    BY <2>2, <2>3 DEF Execute
  <2>5. Becomes(r[2], "InitializeExtension", [hook |-> extensionsAuthority], r[3])
    BY <2>1, <2>4, AfterInstruction
  <2>. QED  BY <1>8, <2>5 DEF Becomes, IsMint, Held, Roles
<1>10. /\ IsMint(r[4], "created", "open", "")
      /\ Held(r[4], {"pointer", "hook"}, extensionsAuthority)
      /\ Held(r[4], {"scaledUi"}, globalAuth)
  <2>. DEFINE ix == ixs[4]
  <2>1. ix = Ix("InitializeExtension", [scaledUi |-> globalAuth], "none")
    BY <1>1
  <2>2. r[4] = Execute(r[3], ix)
    BY <1>1, <1>4
  <2>. HIDE DEF ix
  <2>3. CanExecute(r[3], ix)
    BY <1>9, <2>1 DEF CanExecute, Ix, IsMint, Held, Roles
  <2>4. r[4] = Executed(r[3], ix)
    BY <2>2, <2>3 DEF Execute
  <2>5. Becomes(r[3], "InitializeExtension", [scaledUi |-> globalAuth], r[4])
    BY <2>1, <2>4, AfterInstruction
  <2>. QED  BY <1>9, <2>5 DEF Becomes, IsMint, Held, Roles
<1>11. /\ IsMint(r[5], "created", "frozen", "")
      /\ Held(r[5], {"pointer", "hook"}, extensionsAuthority)
      /\ Held(r[5], {"scaledUi"}, globalAuth)
  <2>. DEFINE ix == ixs[5]
  <2>1. ix = Ix("InitializeDefaultAccountState", <<>>, "none")
    BY <1>1
  <2>2. r[5] = Execute(r[4], ix)
    BY <1>1, <1>4
  <2>. HIDE DEF ix
  <2>3. CanExecute(r[4], ix)
    BY <1>10, <2>1 DEF CanExecute, Ix, IsMint, Held, Roles
  <2>4. r[5] = Executed(r[4], ix)
    BY <2>2, <2>3 DEF Execute
  <2>5. Becomes(r[4], "InitializeDefaultAccountState", <<>>, r[5])
    BY <2>1, <2>4, AfterInstruction
  <2>6. \A role \in Roles : role \notin DOMAIN <<>>
    BY DEF Roles
  <2>. QED  BY <1>10, <2>5, <2>6 DEF Becomes, IsMint, Held, Roles
<1>12. /\ IsMint(r[6], "created", "frozen", "")
      /\ Held(r[6], {"pointer", "hook"}, extensionsAuthority)
      /\ Held(r[6], {"scaledUi", "delegate"}, globalAuth)
  <2>. DEFINE ix == ixs[6]
  <2>1. ix = Ix("InitializeExtension", [delegate |-> globalAuth], "none")
    BY <1>1
  <2>2. r[6] = Execute(r[5], ix)
    BY <1>1, <1>4
  <2>. HIDE DEF ix
  <2>3. CanExecute(r[5], ix)
    BY <1>11, <2>1 DEF CanExecute, Ix, IsMint, Held, Roles
  <2>4. r[6] = Executed(r[5], ix)
    BY <2>2, <2>3 DEF Execute
  <2>5. Becomes(r[5], "InitializeExtension", [delegate |-> globalAuth], r[6])
    BY <2>1, <2>4, AfterInstruction
  <2>. QED  BY <1>11, <2>5 DEF Becomes, IsMint, Held, Roles
<1>13. /\ IsMint(r[7], "ready", "frozen", "")
      /\ Held(r[7], {"pointer", "hook"}, extensionsAuthority)
      /\ Held(r[7], {"scaledUi", "delegate", "freeze"}, globalAuth)
      /\ Held(r[7], {"mint"}, payer)
  <2>. DEFINE ix == ixs[7]
  <2>1. ix = Ix("InitializeMint", [mint |-> payer, freeze |-> globalAuth], "none")
    BY <1>1
  <2>2. r[7] = Execute(r[6], ix)
    BY <1>1, <1>4
  <2>. HIDE DEF ix
  <2>3. CanExecute(r[6], ix)
    BY <1>12, <2>1 DEF CanExecute, Ix, IsMint, Held, Roles
  <2>4. r[7] = Executed(r[6], ix)
    BY <2>2, <2>3 DEF Execute
  <2>5. Becomes(r[6], "InitializeMint", [mint |-> payer, freeze |-> globalAuth], r[7])
    BY <2>1, <2>4, AfterInstruction
  <2>. QED  BY <1>12, <2>5 DEF Becomes, IsMint, Held, Roles
<1>14. /\ IsMint(r[8], "ready", "frozen", "M_METADATA")
      /\ Held(r[8], {"pointer", "hook"}, extensionsAuthority)
      /\ Held(r[8], {"scaledUi", "delegate", "freeze"}, globalAuth)
      /\ Held(r[8], {"mint", "metadata"}, payer)
  <2>. DEFINE ix == ixs[8]
  <2>1. ix = Ix("InitializeMetadata", [metadata |-> payer], "mint")
    BY <1>1
  <2>2. r[8] = Execute(r[7], ix)
    BY <1>1, <1>4
  <2>. HIDE DEF ix
  <2>3. CanExecute(r[7], ix)
    BY <1>13, <2>1 DEF CanExecute, Ix, IsMint, Held, Roles
  <2>4. r[8] = Executed(r[7], ix)
    BY <2>2, <2>3 DEF Execute
  <2>5. Becomes(r[7], "InitializeMetadata", [metadata |-> payer], r[8])
    BY <2>1, <2>4, AfterInstruction
  <2>. QED  BY <1>13, <2>5 DEF Becomes, IsMint, Held, Roles
<1>15. /\ IsMint(r[9], "ready", "frozen", "M_METADATA")
      /\ Held(r[9], {"pointer", "hook", "metadata"}, extensionsAuthority)
      /\ Held(r[9], {"scaledUi", "delegate", "freeze"}, globalAuth)
      /\ Held(r[9], {"mint"}, payer)
  <2>. DEFINE ix == ixs[9]
  <2>1. ix = UpdateAuthority(extensionsAuthority)
    BY <1>1
  <2>2. r[9] = Execute(r[8], ix)
    BY <1>1, <1>4
  <2>. HIDE DEF ix
  <2>3. CanExecute(r[8], ix)
    BY <1>14, <2>1 DEF CanExecute, Ix, IsMint, Held, Roles, UpdateAuthority
  <2>4. r[9] = Executed(r[8], ix)
    BY <2>2, <2>3 DEF Execute
  <2>5. Becomes(r[8], "UpdateAuthority", [metadata |-> extensionsAuthority], r[9])
    BY <2>1, <2>4, AfterInstruction DEF UpdateAuthority
  <2>. QED  BY <1>14, <2>5 DEF Becomes, IsMint, Held, Roles
<1>16. /\ IsMint(r[10], "ready", "frozen", "M_METADATA")
      /\ Held(r[10], {"pointer", "hook", "metadata"}, extensionsAuthority)
      /\ Held(r[10], {"scaledUi", "delegate", "freeze"}, globalAuth)
      /\ Held(r[10], {"mint"}, mintAuthority)
  <2>. DEFINE ix == ixs[10]
  <2>1. ix = SetAuthority(mintAuthority)
    BY <1>1
  <2>2. r[10] = Execute(r[9], ix)
    BY <1>1, <1>4
  <2>. HIDE DEF ix
  <2>3. CanExecute(r[9], ix)
    BY <1>15, <2>1 DEF CanExecute, Ix, IsMint, Held, Roles, SetAuthority
  <2>4. r[10] = Executed(r[9], ix)
    BY <2>2, <2>3 DEF Execute
  <2>5. Becomes(r[9], "SetAuthority", [mint |-> mintAuthority], r[10])
    BY <2>1, <2>4, AfterInstruction DEF SetAuthority
  <2>. QED  BY <1>15, <2>5 DEF Becomes, IsMint, Held, Roles
<1>. QED  BY <1>5, <1>16 DEF IsMint, Held

-----------------------------------------------------------------------------
(* The commands, the multisig and the chains.                                *)

\* The authorities create-m-mint was asked for, and what the metadata is: as
\* written, or what the vault made of it.
HandedOver ==
  createdBy # <<>> =>
    \E ownerGiven, SQUADS_VAULT \in BOOLEAN :
      /\ createdBy = [owner |-> ownerGiven, vault |-> SQUADS_VAULT]
      /\ mint.phase = "ready" /\ mint.accounts = "frozen"
      /\ Held(mint, {"pointer", "hook", "metadata"}, IF SQUADS_VAULT THEN vault ELSE payer)
      /\ Held(mint, {"scaledUi", "delegate", "freeze"},
              IF ownerGiven THEN owner ELSE earn_global)
      /\ Held(mint, {"mint"}, IF ownerGiven THEN owner ELSE token_authority)
      /\ mint.uri = "M_METADATA" \/ SQUADS_VAULT = TRUE

MintInv ==
  /\ DOMAIN mint = {"phase", "accounts", "uri", "auth"}
  /\ \A tx \in printed : tx.admin = vault
  /\ HandedOver

\* What the promise of create-m-mint follows from.
LEMMA HandedOverPromise == MintInv => MintIsHandedOver
<1>. SUFFICES ASSUME MintInv, createdBy # <<>>  PROVE MintIsHandedOver
  BY DEF MintIsHandedOver
<1>1. PICK ownerGiven \in BOOLEAN, SQUADS_VAULT \in BOOLEAN :
        /\ createdBy = [owner |-> ownerGiven, vault |-> SQUADS_VAULT]
        /\ mint.phase = "ready" /\ mint.accounts = "frozen"
        /\ Held(mint, {"pointer", "hook", "metadata"}, IF SQUADS_VAULT THEN vault ELSE payer)
        /\ Held(mint, {"scaledUi", "delegate", "freeze"},
                IF ownerGiven THEN owner ELSE earn_global)
        /\ Held(mint, {"mint"}, IF ownerGiven THEN owner ELSE token_authority)
        /\ mint.uri = "M_METADATA" \/ SQUADS_VAULT = TRUE
  BY DEF MintInv, HandedOver
<1>2. createdBy.owner = ownerGiven /\ createdBy.vault = SQUADS_VAULT
  BY <1>1
<1>3. ASSUME NEW role \in Roles
      PROVE  /\ mint.auth[role] # NoKey
             /\ mint.auth[role] = payer =>
                  \/ SQUADS_VAULT = FALSE /\ role \in {"pointer", "hook", "metadata"}
                  \/ ownerGiven = TRUE /\ owner = payer
  <2>1. CASE role \in {"pointer", "hook", "metadata"}
    BY <1>1, <2>1 DEF Held
  <2>2. CASE role \in {"scaledUi", "delegate", "freeze"}
    BY <1>1, <2>2 DEF Held
  <2>3. CASE role = "mint"
    BY <1>1, <2>3 DEF Held
  <2>. QED  BY <2>1, <2>2, <2>3 DEF Roles
<1>4. ownerGiven = FALSE =>
        /\ ProgramControlsMint
        /\ mint.auth.mint = token_authority /\ mint.auth.mint \notin Portals
  BY <1>1, CliAssumption DEF Held, ProgramControlsMint
<1>. QED  BY <1>1, <1>2, <1>3, <1>4 DEF MintIsHandedOver

LEMMA MintInvInit == CliInit => MintInv
<1>. SUFFICES ASSUME mint = NoMint, createdBy = <<>>, printed = {}  PROVE MintInv
  BY DEF CliInit
<1>1. DOMAIN mint = {"phase", "accounts", "uri", "auth"}
  BY Fresh DEF IsMint
<1>. QED  BY <1>1 DEF MintInv, HandedOver

\* create-m-mint.
LEMMA CreateMintKeeps ==
  ASSUME MintInv, NEW ownerGiven \in BOOLEAN, NEW SQUADS_VAULT \in BOOLEAN,
         CreateMint(ownerGiven, SQUADS_VAULT)
  PROVE  MintInv'
<1>. DEFINE mintAuthority == IF ownerGiven THEN owner ELSE token_authority
            globalAuth == IF ownerGiven THEN owner ELSE earn_global
            extensionsAuthority == IF SQUADS_VAULT THEN vault ELSE payer
<1>1. mint' = createToken2022Mint(NoMint, mintAuthority, globalAuth, extensionsAuthority)
  BY DEF CreateMint, CreateMMint
<1>. HIDE DEF mintAuthority, globalAuth, extensionsAuthority
<1>2. /\ IsMint(mint', "ready", "frozen", "M_METADATA")
      /\ Held(mint', {"pointer", "hook", "metadata"}, extensionsAuthority)
      /\ Held(mint', {"scaledUi", "delegate", "freeze"}, globalAuth)
      /\ Held(mint', {"mint"}, mintAuthority)
  BY <1>1, MintCreated
<1>3. HandedOver'
  <2>1. createdBy' = [owner |-> ownerGiven, vault |-> SQUADS_VAULT]
    BY DEF CreateMint
  <2>. QED  BY <1>2, <2>1 DEF HandedOver, IsMint, mintAuthority, globalAuth, extensionsAuthority
<1>4. printed' = printed
  BY DEF CreateMint
<1>. QED  BY <1>2, <1>3, <1>4 DEF MintInv, IsMint

\* A transaction for the vault, or another one that leaves the metadata alone.
LEMMA CallKeeps ==
  ASSUME MintInv, NEW tx, tx.call = "update_field" => tx.admin = vault, Call(tx),
         createdBy' = createdBy, \A t \in printed' : t.admin = vault
  PROVE  MintInv'
<1>1. CASE tx.call = "update_field"
  <2>1. mint.auth["metadata"] = vault /\ mint' = [mint EXCEPT !.uri = "updated"]
    BY <1>1 DEF Call
  <2>2. /\ DOMAIN mint' = DOMAIN mint /\ mint'.phase = mint.phase
        /\ mint'.accounts = mint.accounts /\ mint'.auth = mint.auth
    BY <2>1 DEF MintInv
  <2>3. HandedOver'
    <3>. SUFFICES ASSUME createdBy # <<>>  PROVE HandedOver'
      BY DEF HandedOver
    <3>1. PICK ownerGiven \in BOOLEAN, SQUADS_VAULT \in BOOLEAN :
            /\ createdBy = [owner |-> ownerGiven, vault |-> SQUADS_VAULT]
            /\ mint.phase = "ready" /\ mint.accounts = "frozen"
            /\ Held(mint, {"pointer", "hook", "metadata"}, IF SQUADS_VAULT THEN vault ELSE payer)
            /\ Held(mint, {"scaledUi", "delegate", "freeze"},
                    IF ownerGiven THEN owner ELSE earn_global)
            /\ Held(mint, {"mint"}, IF ownerGiven THEN owner ELSE token_authority)
      BY DEF MintInv, HandedOver
    <3>2. SQUADS_VAULT = TRUE
      BY <2>1, <3>1 DEF Held
    <3>. QED  BY <2>2, <3>1, <3>2 DEF HandedOver, Held
  <2>. QED  BY <2>2, <2>3 DEF MintInv
<1>2. CASE tx.call # "update_field"
  <2>1. mint' = mint
    BY <1>2 DEF Call
  <2>. QED  BY <2>1 DEF MintInv, HandedOver
<1>. QED  BY <1>1, <1>2

LEMMA SubmitKeeps ==
  ASSUME MintInv, NEW tx, tx.call = "update_field" => tx.admin = vault, Submit(tx),
         createdBy' = createdBy
  PROVE  MintInv'
<1>1. CASE tx.admin = vault
  <2>1. printed' = printed \cup {tx} /\ mint' = mint
    BY <1>1 DEF Submit
  <2>. QED  BY <1>1, <2>1 DEF MintInv, HandedOver
<1>2. CASE tx.admin # vault
  <2>1. Call(tx) /\ printed' = printed
    BY <1>2 DEF Submit
  <2>. QED  BY <2>1, CallKeeps DEF MintInv
<1>. QED  BY <1>1, <1>2

LEMMA MintInvStep == MintInv /\ [CliNext \/ EnvironmentNext]_systemVars => MintInv'
<1>. SUFFICES ASSUME MintInv, [CliNext \/ EnvironmentNext]_systemVars  PROVE MintInv'
  OBVIOUS
<1>1. ASSUME UNCHANGED <<mint, createdBy, printed>>  PROVE MintInv'
  BY <1>1 DEF MintInv, HandedOver
<1>2. ASSUME NEW ownerGiven \in BOOLEAN, NEW SQUADS_VAULT \in BOOLEAN,
             CreateMint(ownerGiven, SQUADS_VAULT)
      PROVE  MintInv'
  BY <1>2, CreateMintKeeps
<1>3. CASE GetCurrentIndex \/ FetchGlobal \/ GetMerkleRoot \/ Fail
           \/ \E earner \in Earners : GetEarners(earner)
  BY <1>1, <1>3 DEF GetCurrentIndex, FetchGlobal, GetMerkleRoot, Fail, GetEarners, Read
<1>4. CASE InitializeEarn
  <2>1. PICK admin \in {payer, vault} :
          Submit([call |-> "initialize", admin |-> admin, index |-> cli.index])
    BY <1>4 DEF InitializeEarn
  <2>2. createdBy' = createdBy
    BY <1>4 DEF InitializeEarn
  <2>. QED  BY <2>1, <2>2, SubmitKeeps
<1>5. CASE UpdatePortal
  <2>1. PICK admin \in {payer, vault} :
          Submit([call |-> "update_portal_authority", admin |-> admin, index |-> 0])
    BY <1>5 DEF UpdatePortal
  <2>2. createdBy' = createdBy
    BY <1>5 DEF UpdatePortal
  <2>. QED  BY <2>1, <2>2, SubmitKeeps
<1>6. CASE UpdateMintUri
  <2>1. /\ Submit([call |-> "update_field", admin |-> vault, index |-> 0])
        /\ createdBy' = createdBy
    BY <1>6 DEF UpdateMintUri
  <2>. QED  BY <2>1, SubmitKeeps
<1>7. CASE AddRegistrarEarnerCommand
  BY <1>1, <1>7 DEF AddRegistrarEarnerCommand
<1>8. ASSUME NEW tx \in printed, Approve(tx)  PROVE MintInv'
  <2>1. Call(tx) /\ printed' = printed \ {tx} /\ createdBy' = createdBy
    BY <1>8 DEF Approve
  <2>2. tx.admin = vault /\ \A t \in printed' : t.admin = vault
    BY <2>1 DEF MintInv
  <2>. QED  BY <2>1, <2>2, CallKeeps
<1>9. CASE EnvironmentNext
  BY <1>1, <1>9 DEF EnvironmentNext, OpenAccount, RemoveDelisted, cliVars
<1>10. CASE UNCHANGED systemVars
  BY <1>1, <1>10 DEF systemVars, cliVars
<1>. QED  BY <1>2, <1>3, <1>4, <1>5, <1>6, <1>7, <1>8, <1>9, <1>10 DEF CliNext

\* After create-m-mint the mint has the authorities that were asked for and
\* accounts frozen by default, whichever commands, approvals and steps of the
\* chains follow; main.ts, createToken2022Mint.
THEOREM MintStaysHandedOver == CliSpec => []MintIsHandedOver
<1>1. CliInit => MintInv
  BY MintInvInit
<1>2. MintInv /\ [CliNext \/ EnvironmentNext]_systemVars => MintInv'
  BY MintInvStep
<1>3. MintInv => MintIsHandedOver
  BY HandedOverPromise
<1>. QED  BY <1>1, <1>2, <1>3, PTL DEF CliSpec
=============================================================================
