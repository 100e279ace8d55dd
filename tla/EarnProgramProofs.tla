--------------------------- MODULE EarnProgramProofs ---------------------------
(***************************************************************************)
(* Machine-checked proofs about EarnProgram, for any number of accounts,   *)
(* users and portals, any indices and roots, and either value of each      *)
(* cargo feature: first about the index, the root and the events, then     *)
(* about the accounts it freezes and thaws, the feed it implements, and    *)
(* what its steps may never do to the backing of the supply and to a       *)
(* frozen account's principal.                                             *)
(***************************************************************************)
EXTENDS EarnProgram, TLAPS

USE KeysAssumption, AtaAssumption, SupplyAssumption, InputAssumption

-----------------------------------------------------------------------------
(* What the effects of token calls keep, whatever map of accounts they act on. *)

LEMMA NewAccountType ==
  ASSUME NEW owner \in Owners, NEW immutable \in BOOLEAN
  PROVE  NewAccount(owner, immutable) \in TokenAccount
BY DEF NewAccount, TokenAccount, AccountState

LEMMA ThawType ==
  ASSUME NEW t \in [Accounts -> TokenAccount], NEW a \in Accounts
  PROVE  /\ Thaw(t, a) \in [Accounts -> TokenAccount]
         /\ Freeze(t, a) \in [Accounts -> TokenAccount]
BY DEF Thaw, Freeze, TokenAccount, AccountState

LEMMA MoveType ==
  ASSUME NEW t \in [Accounts -> TokenAccount], NEW a \in Accounts, NEW b \in Accounts,
         a # b, NEW n \in Nat, n <= t[a].amount
  PROVE  Move(t, a, b, n) \in [Accounts -> TokenAccount]
BY DEF Move, TokenAccount, AccountState

LEMMA OwnerType ==
  ASSUME NEW t \in [Accounts -> TokenAccount], NEW a \in Accounts, NEW o \in Owners
  PROVE  [t EXCEPT ![a].owner = o] \in [Accounts -> TokenAccount]
BY DEF TokenAccount, AccountState

LEMMA CreditType ==
  ASSUME NEW t \in [Accounts -> TokenAccount], NEW a \in Accounts, NEW n \in Nat
  PROVE  [t EXCEPT ![a].amount = @ + n] \in [Accounts -> TokenAccount]
BY DEF TokenAccount, AccountState

LEMMA DebitType ==
  ASSUME NEW t \in [Accounts -> TokenAccount], NEW a \in Accounts, NEW n \in Nat,
         n <= t[a].amount
  PROVE  [t EXCEPT ![a].amount = @ - n] \in [Accounts -> TokenAccount]
BY DEF TokenAccount, AccountState

LEMMA OpenCustodyType ==
  ASSUME NEW t \in [Accounts -> TokenAccount], NEW c \in Custodians
  PROVE  OpenCustody(t, c) \in [Accounts -> TokenAccount]
<1>1. Ata[c] \in Accounts
  OBVIOUS
<1>2. NewAccount(c, TRUE) \in TokenAccount
  BY NewAccountType DEF Owners
<1>3. AtaInitIfNeeded(t, c) \in [Accounts -> TokenAccount]
  BY <1>1, <1>2 DEF AtaInitIfNeeded
<1> QED
  BY <1>1, <1>3, ThawType DEF OpenCustody

-----------------------------------------------------------------------------
\* Every variable keeps its type through every instruction and every direct call
\* on the token program.
THEOREM TypeCorrect == Spec => []TypeOK
<1>1. Init => TypeOK
  <2> SUFFICES ASSUME Init PROVE TypeOK
    OBVIOUS
  <2>1. tokens \in [Accounts -> TokenAccount] /\ supply \in Nat
    BY DEF Init, GenesisAccount, NoAccount, TokenAccount, AccountState, Owners
  <2>2. global \in EarnGlobal
    BY DEF Init, EarnGlobal, ZeroRoot
  <2>3. grants \in [Accounts -> Grant]
    BY DEF Init, Grant, NoGrant, Owners
  <2>4. events \in Seq(IndexUpdateV2)
    BY DEF Init
  <2> QED
    BY <2>1, <2>2, <2>3, <2>4 DEF Init, TypeOK
<1>2. TypeOK /\ [Next]_vars => TypeOK'
  <2> SUFFICES ASSUME TypeOK, [Next]_vars PROVE TypeOK'
    OBVIOUS
  <2> USE DEF TypeOK
  <2>1. ASSUME NEW signer \in Users, NEW index \in Nat, NEW root \in SUBSET Owners,
               Initialize(signer, index, root)
        PROVE  TypeOK'
    <3>1. tokens' \in [Accounts -> TokenAccount]
      BY <2>1, OpenCustodyType DEF Initialize, Custodians
    <3>2. global' \in EarnGlobal /\ multiplier' \in Nat
      BY <2>1 DEF Initialize, EarnGlobal, Raised
    <3>3. grants' \in [Accounts -> Grant]
      BY <2>1 DEF Initialize, Grant, CustodyGrant, Owners, Custodians
    <3> QED
      BY <2>1, <3>1, <3>2, <3>3 DEF Initialize, Update
  <2>2. ASSUME NEW signer \in Owners, NEW index \in Indices, NEW root \in Roots,
               PropagateIndex(signer, index, root)
        PROVE  TypeOK'
    <3>1. global' \in EarnGlobal /\ multiplier' \in Nat
      BY <2>2 DEF PropagateIndex, EarnGlobal, Raised, NextRoot
    <3>2. events' \in Seq(IndexUpdateV2)
      <4>1. IndexUpdate(index) \in IndexUpdateV2
        BY DEF IndexUpdate, IndexUpdateV2
      <4> QED
        BY <2>2, <4>1 DEF PropagateIndex, Emitted
    <3> QED
      BY <2>2, <3>1, <3>2 DEF PropagateIndex, Update
  <2>3. ASSUME NEW signer \in Users, UpdatePortalAuthority(signer)
        PROVE  TypeOK'
    <3>1. tokens' \in [Accounts -> TokenAccount]
      BY <2>3, OpenCustodyType DEF UpdatePortalAuthority, Custodians
    <3>2. global' \in EarnGlobal
      BY <2>3 DEF UpdatePortalAuthority, EarnGlobal
    <3>3. grants' \in [Accounts -> Grant]
      BY <2>3 DEF UpdatePortalAuthority, Grant, CustodyGrant, Owners, Custodians
    <3> QED
      BY <2>3, <3>1, <3>2, <3>3 DEF UpdatePortalAuthority
  <2>4. ASSUME NEW a \in Accounts, NEW user \in Owners, AddRegistrarEarner(a, user)
        PROVE  TypeOK'
    <3>1. grants' \in [Accounts -> Grant]
      BY <2>4 DEF AddRegistrarEarner, Grant
    <3> QED
      BY <2>4, <3>1, ThawType DEF AddRegistrarEarner
  <2>5. ASSUME NEW a \in Accounts, RemoveRegistrarEarner(a)
        PROVE  TypeOK'
    <3>1. grants' \in [Accounts -> Grant]
      BY <2>5 DEF RemoveRegistrarEarner, Grant, NoGrant, Owners
    <3> QED
      BY <2>5, <3>1, ThawType DEF RemoveRegistrarEarner
  <2>6. ASSUME NEW signer \in Users, NEW source \in Accounts, NEW destination \in Accounts,
               NEW amount \in 0..MaxSupply,
               RecoverM(signer, source, destination, amount)
        PROVE  TypeOK'
    <3>1. Thaw(Thaw(tokens, source), destination) \in [Accounts -> TokenAccount]
      BY ThawType
    <3>2. Thaw(Thaw(tokens, source), destination)[source].amount = tokens[source].amount
      BY DEF Thaw, TokenAccount
    <3>3. tokens' \in [Accounts -> TokenAccount]
      <4> DEFINE opened == Thaw(Thaw(tokens, source), destination)
      <4>1. Move(opened, source, destination, amount) \in [Accounts -> TokenAccount]
        <5>1. destination # source /\ amount <= opened[source].amount /\ amount \in Nat
          BY <2>6, <3>2 DEF RecoverM, HasBalance
        <5> HIDE DEF opened
        <5>2. opened \in [Accounts -> TokenAccount]
          BY <3>1 DEF opened
        <5> QED
          BY <5>1, <5>2, MoveType
      <4>2. tokens' = Freeze(Move(opened, source, destination, amount), source)
        BY <2>6 DEF RecoverM, Recovered
      <4> QED
        BY <4>1, <4>2, ThawType
    <3>4. grants' \in [Accounts -> Grant]
      BY <2>6 DEF RecoverM, Grant, TokenAccount
    <3> QED
      BY <2>6, <3>3, <3>4 DEF RecoverM
  <2>7. CASE TokenProgramCall
    <3>1. ASSUME NEW a \in Accounts, NEW owner \in Owners, NEW immutable \in BOOLEAN,
                 CreateTokenAccount(a, owner, immutable), UNCHANGED grants
          PROVE  TypeOK'
      BY <2>7, <3>1, NewAccountType DEF CreateTokenAccount, TokenProgramCall
    <3>2. ASSUME NEW a \in Accounts, CloseTokenAccount(a),
                 grants' = [grants EXCEPT ![a] = NoGrant]
          PROVE  TypeOK'
      <4>1. NoAccount \in TokenAccount /\ NoGrant \in Grant
        BY DEF NoAccount, TokenAccount, AccountState, Owners, NoGrant, Grant
      <4> QED
        BY <2>7, <3>2, <4>1 DEF CloseTokenAccount, TokenProgramCall
    <3>3. ASSUME NEW a \in Accounts, NEW owner \in Owners, SetOwner(a, owner),
                 UNCHANGED grants
          PROVE  TypeOK'
      <4>1. tokens' \in [Accounts -> TokenAccount]
        BY <3>3, OwnerType DEF SetOwner
      <4> QED
        BY <2>7, <3>3, <4>1 DEF SetOwner, TokenProgramCall
    <3>4. ASSUME NEW a \in Accounts, NEW b \in Accounts, NEW n \in 1..MaxSupply,
                 Transfer(a, b, n), UNCHANGED grants
          PROVE  TypeOK'
      <4>1. tokens' \in [Accounts -> TokenAccount]
        BY <3>4, MoveType DEF Transfer
      <4> QED
        BY <2>7, <3>4, <4>1 DEF Transfer, TokenProgramCall
    <3>5. ASSUME NEW a \in Accounts, NEW n \in 1..MaxSupply, MintTo(a, n),
                 UNCHANGED grants
          PROVE  TypeOK'
      <4>1. n \in Nat
        OBVIOUS
      <4>2. tokens' \in [Accounts -> TokenAccount]
        BY <3>5, <4>1, CreditType DEF MintTo
      <4>3. supply' \in Nat
        BY <3>5 DEF MintTo
      <4> QED
        BY <2>7, <3>5, <4>2, <4>3 DEF MintTo, TokenProgramCall
    <3>6. ASSUME NEW a \in Accounts, NEW n \in 1..MaxSupply, Burn(a, n),
                 UNCHANGED grants
          PROVE  TypeOK'
      <4>1. tokens' \in [Accounts -> TokenAccount]
        <5>1. n \in Nat /\ n <= tokens[a].amount
          BY <3>6 DEF Burn
        <5> QED
          BY <3>6, <5>1, DebitType DEF Burn
      <4>2. supply' \in Nat
        BY <3>6 DEF Burn
      <4> QED
        BY <2>7, <3>6, <4>1, <4>2 DEF Burn, TokenProgramCall
    <3> QED
      BY <2>7, <3>1, <3>2, <3>3, <3>4, <3>5, <3>6 DEF TokenProgramCall
  <2>8. ASSUME NEW p \in Portals, UpgradeProgram(p)
        PROVE  TypeOK'
    BY <2>8 DEF UpgradeProgram, tokenVars
  <2>9. CASE UNCHANGED vars
    BY <2>9 DEF vars, tokenVars
  <2> QED
    <3>1. ASSUME InitializeFresh \/ InitializeMigrated PROVE TypeOK'
      <4>1. ZeroRoot \in SUBSET Owners
        BY DEF ZeroRoot
      <4> QED
        BY <2>1, <3>1, <4>1 DEF InitializeFresh, InitializeMigrated
    <3> QED
      BY <2>2, <2>3, <2>4, <2>5, <2>6, <2>7, <2>8, <2>9, <3>1 DEF Next, EarnCall
<1> QED
  BY <1>1, <1>2, PTL DEF Spec

-----------------------------------------------------------------------------
(* The index side: only Initialize and PropagateIndex touch it.             *)

LEMMA IndexStep ==
  ASSUME TypeOK, [Next]_vars
  PROVE  \/ \E signer \in Users, index \in Nat, root \in SUBSET Owners :
              Initialize(signer, index, root)
         \/ \E signer \in Owners, index \in Nat, root \in SUBSET Owners :
              PropagateIndex(signer, index, root)
         \/ /\ UNCHANGED <<multiplier, seen, events>>
            /\ global'.earner_merkle_root = global.earner_merkle_root
            /\ global'.admin = global.admin
<1>1. CASE InitializeFresh \/ InitializeMigrated
  <2>1. ZeroRoot \in SUBSET Owners
    BY DEF ZeroRoot
  <2> QED
    BY <1>1, <2>1 DEF InitializeFresh, InitializeMigrated
<1>2. ASSUME NEW signer \in Owners, NEW index \in Indices, NEW root \in Roots,
             PropagateIndex(signer, index, root)
      PROVE  \E s \in Owners, i \in Nat, r \in SUBSET Owners : PropagateIndex(s, i, r)
  BY <1>2
<1>3. ASSUME NEW signer \in Users, UpdatePortalAuthority(signer)
      PROVE  /\ UNCHANGED <<multiplier, seen, events>>
             /\ global'.earner_merkle_root = global.earner_merkle_root
             /\ global'.admin = global.admin
  BY <1>3 DEF UpdatePortalAuthority, TypeOK, EarnGlobal
<1>4. ASSUME NEW a \in Accounts, NEW user \in Owners, AddRegistrarEarner(a, user)
      PROVE  UNCHANGED <<multiplier, seen, events, global>>
  BY <1>4 DEF AddRegistrarEarner
<1>5. ASSUME NEW a \in Accounts, RemoveRegistrarEarner(a)
      PROVE  UNCHANGED <<multiplier, seen, events, global>>
  BY <1>5 DEF RemoveRegistrarEarner
<1>6. ASSUME NEW signer \in Users, NEW source \in Accounts, NEW destination \in Accounts,
             NEW amount \in 0..MaxSupply,
             RecoverM(signer, source, destination, amount)
      PROVE  UNCHANGED <<multiplier, seen, events, global>>
  BY <1>6 DEF RecoverM
<1>7. CASE TokenProgramCall
  <2>1. UNCHANGED <<seen, events, global>>
    BY <1>7 DEF TokenProgramCall
  <2>2. UNCHANGED multiplier
    BY <1>7 DEF TokenProgramCall, CreateTokenAccount, CloseTokenAccount, SetOwner,
                Transfer, MintTo, Burn
  <2> QED
    BY <2>1, <2>2
<1>8. ASSUME NEW p \in Portals, UpgradeProgram(p)
      PROVE  UNCHANGED <<multiplier, seen, events, global>>
  BY <1>8 DEF UpgradeProgram, tokenVars
<1>9. CASE UNCHANGED vars
  BY <1>9 DEF vars, tokenVars
<1> QED
  BY <1>1, <1>2, <1>3, <1>4, <1>5, <1>6, <1>7, <1>8, <1>9 DEF Next, EarnCall

\* Before initialisation nothing has been authorised and no event emitted.
NothingSeenBefore == ~Initialized => seen = {} /\ events = <<>>

IndexInv ==
  /\ NothingSeenBefore
  /\ MultiplierIsNewestSeen
  /\ RootIsNewestUnlessOvertaken
  /\ EventsAreMultiplierHistory

LEMMA IndexInvInit == Init => IndexInv
BY DEF Init, IndexInv, NothingSeenBefore, MultiplierIsNewestSeen,
       RootIsNewestUnlessOvertaken, EventsAreMultiplierHistory, Initialized

LEMMA InitializeKeepsIndexInv ==
  ASSUME TypeOK, IndexInv, NEW signer \in Users, NEW index \in Nat,
         NEW root \in SUBSET Owners, Initialize(signer, index, root)
  PROVE  IndexInv'
<1>1. /\ ~Initialized /\ events = <<>> /\ events' = <<>>
      /\ multiplier' = index
      /\ seen' = {[index |-> index, root |-> root]}
      /\ global'.earner_merkle_root = root
      /\ Initialized'
  BY DEF Initialize, IndexInv, NothingSeenBefore, ValidMultiplier, Raised, TypeOK,
         Initialized
<1>2. MultiplierIsNewestSeen' /\ NothingSeenBefore'
  BY <1>1 DEF MultiplierIsNewestSeen, NothingSeenBefore
<1>3. RootIsNewestUnlessOvertaken'
  BY <1>1 DEF RootIsNewestUnlessOvertaken
<1>4. EventsAreMultiplierHistory'
  BY <1>1 DEF EventsAreMultiplierHistory
<1> QED
  BY <1>2, <1>3, <1>4 DEF IndexInv

LEMMA PropagateKeepsNewestSeen ==
  ASSUME TypeOK, IndexInv, NEW signer \in Owners, NEW index \in Nat,
         NEW root \in SUBSET Owners, PropagateIndex(signer, index, root)
  PROVE  MultiplierIsNewestSeen'
<1> DEFINE new == [index |-> index, root |-> root]
<1>1. /\ Initialized
      /\ seen' = seen \cup {new}
      /\ multiplier' = IF index > multiplier THEN index ELSE multiplier
  BY DEF PropagateIndex, Raised
<1>2. PICK top \in seen : top.index = multiplier
  BY <1>1 DEF IndexInv, MultiplierIsNewestSeen
<1>3. \A m \in seen : m.index \in Nat /\ m.index <= multiplier
  BY <1>1 DEF IndexInv, MultiplierIsNewestSeen, TypeOK, Update
<1>4. \E m \in seen' : m.index = multiplier'
  <2>1. CASE index > multiplier
    <3>1. new \in seen' /\ new.index = multiplier'
      BY <1>1, <2>1
    <3> HIDE DEF new
    <3> QED
      BY <3>1
  <2>2. CASE ~(index > multiplier)
    BY <1>1, <1>2, <2>2
  <2> QED
    BY <2>1, <2>2
<1>5. \A m \in seen' : m.index <= multiplier'
  BY <1>1, <1>3 DEF TypeOK
<1> QED
  BY <1>4, <1>5 DEF MultiplierIsNewestSeen

\* The witness is the new update when its root is taken; otherwise it stays the
\* old one, and what overtook the ignored update also overtakes it.
LEMMA PropagateKeepsNewestRoot ==
  ASSUME TypeOK, IndexInv, NEW signer \in Owners, NEW index \in Nat,
         NEW root \in SUBSET Owners, PropagateIndex(signer, index, root)
  PROVE  RootIsNewestUnlessOvertaken'
<1> DEFINE new == [index |-> index, root |-> root]
           Overtaken(m, S) == \E z \in S : z.root = ZeroRoot /\ z.index > m.index
           Newest(r, S) == \A m \in S :
                             m.root # ZeroRoot /\ m.index > r.index => Overtaken(m, S)
<1>1. /\ Initialized
      /\ seen' = seen \cup {new}
      /\ global'.earner_merkle_root = NextRoot(index, root)
  BY DEF PropagateIndex, TypeOK, EarnGlobal
<1>2. PICK top \in seen : top.index = multiplier
  BY <1>1 DEF IndexInv, MultiplierIsNewestSeen
<1>3. \A m \in seen : m.index \in Nat /\ m.index <= multiplier
  BY <1>1 DEF IndexInv, MultiplierIsNewestSeen, TypeOK, Update
<1>4. PICK r \in seen : r.root = global.earner_merkle_root /\ Newest(r, seen)
  BY <1>1 DEF IndexInv, RootIsNewestUnlessOvertaken
<1>5. multiplier \in Nat
  BY DEF TypeOK
<1>6. CASE IsFresh(index) /\ root # ZeroRoot
  <2>1. new.root = global'.earner_merkle_root
    BY <1>1, <1>6 DEF NextRoot
  <2>2. \A m \in seen' : m.index <= index
    BY <1>1, <1>3, <1>5, <1>6 DEF IsFresh
  <2>3. Newest(new, seen')
    BY <1>1, <1>3, <2>2
  <2> QED
    BY <1>1, <2>1, <2>3 DEF RootIsNewestUnlessOvertaken
<1>7. CASE root = ZeroRoot
  <2>1. r.root = global'.earner_merkle_root
    BY <1>1, <1>4, <1>7 DEF NextRoot
  <2>2. Newest(r, seen')
    BY <1>1, <1>4, <1>7
  <2> QED
    BY <1>1, <1>4, <2>1, <2>2 DEF RootIsNewestUnlessOvertaken
<1>8. CASE ~IsFresh(index) /\ root # ZeroRoot
  <2>1. r.root = global'.earner_merkle_root
    BY <1>1, <1>4, <1>8 DEF NextRoot
  <2>2. top.index > index
    BY <1>2, <1>5, <1>8 DEF IsFresh
  <2>3. index > r.index => Overtaken(new, seen')
    <3>1. CASE top.root = ZeroRoot
      BY <1>1, <1>2, <2>2, <3>1
    <3>2. CASE top.root # ZeroRoot /\ index > r.index
      <4>1. top.index > r.index
        BY <1>2, <1>3, <1>4, <2>2, <3>2
      <4>2. Overtaken(top, seen)
        BY <1>2, <1>4, <3>2, <4>1
      <4> QED
        BY <1>1, <1>2, <1>3, <2>2, <4>2
    <3> QED
      BY <3>1, <3>2
  <2>4. Newest(r, seen')
    BY <1>1, <1>4, <2>3
  <2> QED
    BY <1>1, <1>4, <2>1, <2>4 DEF RootIsNewestUnlessOvertaken
<1> QED
  BY <1>6, <1>7, <1>8

LEMMA PropagateKeepsHistory ==
  ASSUME TypeOK, IndexInv, NEW signer \in Owners, NEW index \in Nat,
         NEW root \in SUBSET Owners, PropagateIndex(signer, index, root)
  PROVE  EventsAreMultiplierHistory'
<1>1. multiplier \in Nat /\ events \in Seq(IndexUpdateV2)
  BY DEF TypeOK
<1>2. CASE index > multiplier
  <2> DEFINE e == [index |-> index, current_multiplier |-> multiplier]
  <2>1. events' = Append(events, e) /\ multiplier' = index
    BY <1>2 DEF PropagateIndex, Emitted, IndexUpdate, Raised
  <2>2. EventsAreMultiplierHistory
    BY DEF IndexInv
  <2>3. e \in IndexUpdateV2
    BY <1>1 DEF IndexUpdateV2
  <2>4. /\ Len(events') = Len(events) + 1
        /\ \A i \in 1..Len(events) : events'[i] = events[i]
        /\ events'[Len(events) + 1] = e
        /\ Len(events) \in Nat
    BY <1>1, <2>1, <2>3
  <2>5. \A i \in 1..Len(events') : events'[i].current_multiplier < events'[i].index
    <3> TAKE i \in 1..Len(events')
    <3>1. CASE i = Len(events) + 1
      <4>1. events'[i] = e
        BY <2>4, <3>1
      <4> QED
        BY <1>2, <4>1
    <3>2. CASE i # Len(events) + 1
      <4>1. i \in 1..Len(events) /\ events'[i] = events[i]
        BY <2>4, <3>2
      <4> QED
        BY <2>2, <4>1 DEF EventsAreMultiplierHistory
    <3> QED
      BY <3>1, <3>2
  <2>6. \A i \in 1..Len(events') - 1 :
          events'[i].index = events'[i + 1].current_multiplier
    <3> TAKE i \in 1..Len(events') - 1
    <3>1. CASE i = Len(events)
      <4>1. events # <<>>
        BY <2>4, <3>1
      <4> QED
        BY <2>2, <2>4, <3>1, <4>1 DEF EventsAreMultiplierHistory
    <3>2. CASE i # Len(events)
      BY <2>2, <2>4, <3>2 DEF EventsAreMultiplierHistory
    <3> QED
      BY <3>1, <3>2
  <2>7. events'[Len(events')].index = multiplier'
    BY <2>1, <2>4
  <2> QED
    BY <2>5, <2>6, <2>7 DEF EventsAreMultiplierHistory
<1>3. CASE ~(index > multiplier)
  BY <1>3 DEF PropagateIndex, Emitted, Raised, IndexInv, EventsAreMultiplierHistory
<1> QED
  BY <1>2, <1>3

LEMMA IndexInvInductive == TypeOK /\ IndexInv /\ [Next]_vars => IndexInv'
<1> SUFFICES ASSUME TypeOK, IndexInv, [Next]_vars PROVE IndexInv'
  OBVIOUS
<1>1. ASSUME NEW signer \in Users, NEW index \in Nat, NEW root \in SUBSET Owners,
             Initialize(signer, index, root)
      PROVE  IndexInv'
  BY <1>1, InitializeKeepsIndexInv
<1>2. ASSUME NEW signer \in Owners, NEW index \in Nat, NEW root \in SUBSET Owners,
             PropagateIndex(signer, index, root)
      PROVE  IndexInv'
  <2>1. NothingSeenBefore'
    BY <1>2 DEF PropagateIndex, NothingSeenBefore, Initialized, TypeOK, EarnGlobal
  <2> QED
    BY <1>2, <2>1, PropagateKeepsNewestSeen, PropagateKeepsNewestRoot,
       PropagateKeepsHistory DEF IndexInv
<1>3. ASSUME UNCHANGED <<multiplier, seen, events>>,
             global'.earner_merkle_root = global.earner_merkle_root,
             global'.admin = global.admin
      PROVE  IndexInv'
  BY <1>3 DEF IndexInv, NothingSeenBefore, MultiplierIsNewestSeen,
              RootIsNewestUnlessOvertaken, EventsAreMultiplierHistory, Initialized
<1> QED
  BY <1>1, <1>2, <1>3, IndexStep

LEMMA IndexInvAlways == Spec => []IndexInv
BY TypeCorrect, IndexInvInit, IndexInvInductive, PTL DEF Spec

\* The multiplier is the maximum of the indices PropagateIndex authorised,
\* whatever their order.
THEOREM MultiplierIsMaximum == Spec => []MultiplierIsNewestSeen
<1>1. IndexInv => MultiplierIsNewestSeen
  BY DEF IndexInv
<1> QED
  BY <1>1, IndexInvAlways, PTL

\* No update with a root and a larger index was passed over by PropagateIndex,
\* save one already overtaken by an index that came without a root.
THEOREM RootIsNewest == Spec => []RootIsNewestUnlessOvertaken
<1>1. IndexInv => RootIsNewestUnlessOvertaken
  BY DEF IndexInv
<1> QED
  BY <1>1, IndexInvAlways, PTL

\* The IndexUpdateV2 events chain from one multiplier to the next without a gap.
THEOREM EventsAreGapless == Spec => []EventsAreMultiplierHistory
<1>1. IndexInv => EventsAreMultiplierHistory
  BY DEF IndexInv
<1> QED
  BY <1>1, IndexInvAlways, PTL

\* update_multiplier never lowers the multiplier, in any step of the program.
THEOREM MultiplierIsMonotone == Spec => MultiplierNeverDecreases
<1>1. TypeOK /\ [Next]_vars => [multiplier' >= multiplier]_vars
  <2> SUFFICES ASSUME TypeOK, [Next]_vars PROVE multiplier' >= multiplier
    OBVIOUS
  <2> QED
    BY IndexStep DEF Initialize, PropagateIndex, Raised, TypeOK
<1> QED
  BY <1>1, TypeCorrect, PTL DEF Spec, MultiplierNeverDecreases

-----------------------------------------------------------------------------
(* The inductive invariant: what the properties of the accounts rest on.    *)

\* A custodian's associated account, once opened by anyone, is its own for good.
AtaOwned ==
  \A c \in Custodians :
    Exists(Ata[c]) => tokens[Ata[c]].owner = c /\ tokens[Ata[c]].immutable

PortalKnown == Initialized => global.portal_authority \in Portals

\* A proven account still exists, and none was proven before initialisation.
ProvenExists == \A a \in Accounts : grants[a].why = "proof" => Exists(a) /\ Initialized

AccountInv ==
  /\ AtaOwned
  /\ PortalKnown
  /\ ProvenExists
  /\ CustodyAccountsUsable
  /\ ProvenOwnerIsFixed

-----------------------------------------------------------------------------
(* Every step but Initialize and UpdatePortalAuthority treats each account   *)
(* in one of a few ways.                                                     *)

SameHolder(a) ==
  /\ tokens'[a].owner = tokens[a].owner
  /\ tokens'[a].immutable = tokens[a].immutable

Kept(a) ==
  /\ SameHolder(a)
  /\ tokens'[a].state = tokens[a].state
  /\ grants'[a] = grants[a]
Proven(a) ==
  /\ Initialized
  /\ Exists(a) /\ tokens[a].immutable
  /\ tokens[a].owner # DefaultKey
  /\ tokens[a].owner \in global.earner_merkle_root
  /\ SameHolder(a)
  /\ tokens'[a].state = "Initialized"
  /\ grants'[a] = [why |-> "proof", owner |-> tokens[a].owner]
Removed(a) ==
  /\ Initialized
  /\ Exists(a)
  /\ tokens[a].owner \notin {global.portal_authority, ExtSwap}
  /\ tokens[a].owner \notin global.earner_merkle_root
  /\ SameHolder(a)
  /\ tokens'[a].state = "Frozen"
  /\ grants'[a] = NoGrant
Recipient(a) ==
  /\ Exists(a)
  /\ SameHolder(a)
  /\ tokens'[a].state = "Initialized"
  /\ grants'[a].why = "recovery"
Opened(a) ==
  /\ ~Exists(a)
  /\ \A c \in Custodians : Ata[c] = a => tokens'[a].owner = c /\ tokens'[a].immutable
  /\ grants'[a] = grants[a]
Closed(a) ==
  /\ tokens[a].owner \in Users
  /\ tokens'[a] = NoAccount
  /\ grants'[a] = NoGrant
Handed(a) ==
  /\ tokens[a].owner \in Users
  /\ ~tokens[a].immutable
  /\ Exists(a)
  /\ tokens'[a].state = tokens[a].state
  /\ grants'[a] = grants[a]

AccountStep(a) ==
  \/ Kept(a) \/ Proven(a) \/ Removed(a) \/ Recipient(a)
  \/ Opened(a) \/ Closed(a) \/ Handed(a)

SameGlobal ==
  /\ global'.admin = global.admin
  /\ global'.portal_authority = global.portal_authority
  /\ seen \subseteq seen'

\* A step that changes no account at all.
LEMMA QuietStep ==
  ASSUME UNCHANGED <<tokens, grants>>
  PROVE  \A a \in Accounts : Kept(a)
BY DEF Kept, SameHolder

LEMMA AddStep ==
  ASSUME TypeOK, NEW a \in Accounts, NEW user \in Owners, AddRegistrarEarner(a, user)
  PROVE  SameGlobal /\ \A b \in Accounts : AccountStep(b)
<1>1. SameGlobal
  BY DEF AddRegistrarEarner, SameGlobal
<1>2. Proven(a)
  <2>1. tokens'[a] = [tokens[a] EXCEPT !.state = "Initialized"]
    BY DEF AddRegistrarEarner, Thaw, TypeOK
  <2>2. tokens[a] \in TokenAccount /\ tokens[a].state = "Frozen"
    BY DEF AddRegistrarEarner, IsFrozen, TypeOK
  <2>3. /\ tokens'[a].state = "Initialized"
        /\ SameHolder(a)
    BY <2>1, <2>2 DEF TokenAccount, SameHolder
  <2>4. grants'[a] = [why |-> "proof", owner |-> tokens[a].owner]
    BY DEF AddRegistrarEarner, TypeOK
  <2> QED
    BY <2>2, <2>3, <2>4 DEF AddRegistrarEarner, Proven, Exists, HasImmutableOwner,
                            VerifyInTree
<1>3. ASSUME NEW b \in Accounts, b # a PROVE Kept(b)
  BY <1>3 DEF AddRegistrarEarner, Thaw, TypeOK, Kept, SameHolder
<1> QED
  BY <1>1, <1>2, <1>3 DEF AccountStep

LEMMA RemoveStep ==
  ASSUME TypeOK, NEW a \in Accounts, RemoveRegistrarEarner(a)
  PROVE  SameGlobal /\ \A b \in Accounts : AccountStep(b)
<1>1. SameGlobal
  BY DEF RemoveRegistrarEarner, SameGlobal
<1>2. Removed(a)
  <2>1. tokens'[a] = [tokens[a] EXCEPT !.state = "Frozen"]
    BY DEF RemoveRegistrarEarner, Freeze, TypeOK
  <2>2. tokens[a] \in TokenAccount /\ tokens[a].state = "Initialized"
    BY DEF RemoveRegistrarEarner, IsThawed, TypeOK
  <2>3. tokens'[a].state = "Frozen" /\ SameHolder(a)
    BY <2>1, <2>2 DEF TokenAccount, SameHolder
  <2>4. grants'[a] = NoGrant
    BY DEF RemoveRegistrarEarner, TypeOK
  <2> QED
    BY <2>2, <2>3, <2>4 DEF RemoveRegistrarEarner, Removed, Exists, Custody,
                            VerifyNotInTree
<1>3. ASSUME NEW b \in Accounts, b # a PROVE Kept(b)
  BY <1>3 DEF RemoveRegistrarEarner, Freeze, TypeOK, Kept, SameHolder
<1> QED
  BY <1>1, <1>2, <1>3 DEF AccountStep

\* What a recovery leaves: only states and amounts change, and only two accounts.
LEMMA RecoveredEffect ==
  ASSUME TypeOK, NEW source \in Accounts, NEW destination \in Accounts,
         source # destination, NEW n \in Nat
  PROVE  LET t == Recovered(source, destination, n)
         IN  /\ t[source].state = "Frozen"
             /\ t[destination].state = "Initialized"
             /\ t[source].owner = tokens[source].owner
             /\ t[source].immutable = tokens[source].immutable
             /\ t[destination].owner = tokens[destination].owner
             /\ t[destination].immutable = tokens[destination].immutable
             /\ \A b \in Accounts \ {source, destination} : t[b] = tokens[b]
<1>1. tokens \in [Accounts -> TokenAccount]
  BY DEF TypeOK
<1>2. /\ tokens[source] = [state |-> tokens[source].state, owner |-> tokens[source].owner,
           immutable |-> tokens[source].immutable, amount |-> tokens[source].amount]
      /\ tokens[destination] = [state |-> tokens[destination].state,
           owner |-> tokens[destination].owner,
           immutable |-> tokens[destination].immutable,
           amount |-> tokens[destination].amount]
  BY <1>1 DEF TokenAccount
<1> QED
  BY <1>1, <1>2 DEF Recovered, Freeze, Thaw, Move

LEMMA RecoverStep ==
  ASSUME TypeOK, NEW signer \in Users, NEW source \in Accounts,
         NEW destination \in Accounts, NEW amount \in 0..MaxSupply,
         RecoverM(signer, source, destination, amount)
  PROVE  SameGlobal /\ \A b \in Accounts : AccountStep(b)
<1>1. SameGlobal
  BY DEF RecoverM, SameGlobal
<1>2. /\ source # destination
      /\ tokens[source].state = "Frozen"
      /\ Exists(destination)
      /\ tokens' = Recovered(source, destination, amount)
      /\ amount \in Nat
  BY DEF RecoverM, IsFrozen
<1>3. /\ tokens'[source].state = "Frozen" /\ SameHolder(source)
      /\ tokens'[destination].state = "Initialized" /\ SameHolder(destination)
      /\ \A b \in Accounts \ {source, destination} : tokens'[b] = tokens[b]
  BY <1>2, RecoveredEffect DEF SameHolder
<1>4. \A b \in Accounts \ {destination} : grants'[b] = grants[b]
  BY DEF RecoverM, TypeOK
<1>5. Kept(source)
  BY <1>2, <1>3, <1>4 DEF Kept
<1>6. Kept(destination) \/ Recipient(destination)
  <2>1. CASE IsFrozen(destination)
    <3>1. grants'[destination].why = "recovery"
      BY <2>1 DEF RecoverM, TypeOK
    <3> QED
      BY <1>2, <1>3, <3>1 DEF Recipient
  <2>2. CASE ~IsFrozen(destination)
    <3>1. grants' = grants
      BY <2>2 DEF RecoverM
    <3>2. tokens[destination].state = "Initialized"
      <4>1. tokens[destination].state \in AccountState
        BY DEF TypeOK, TokenAccount
      <4> QED
        BY <1>2, <2>2, <4>1 DEF IsFrozen, Exists, AccountState
    <3> QED
      BY <1>3, <3>1, <3>2 DEF Kept
  <2> QED
    BY <2>1, <2>2
<1>7. ASSUME NEW b \in Accounts, b # source, b # destination PROVE Kept(b)
  BY <1>3, <1>4, <1>7 DEF Kept, SameHolder
<1> QED
  BY <1>1, <1>5, <1>6, <1>7 DEF AccountStep

\* Crediting or debiting an account changes neither its state nor its holder.
LEMMA AmountStep ==
  ASSUME TypeOK, NEW a \in Accounts, NEW n \in Int,
         tokens' = [tokens EXCEPT ![a].amount = n], grants' = grants
  PROVE  \A b \in Accounts : Kept(b)
<1>1. tokens'[a] = [tokens[a] EXCEPT !.amount = n]
  BY DEF TypeOK
<1>2. tokens[a] \in TokenAccount
  BY DEF TypeOK
<1>3. SameHolder(a) /\ tokens'[a].state = tokens[a].state
  BY <1>1, <1>2 DEF SameHolder, TokenAccount
<1>4. ASSUME NEW b \in Accounts, b # a PROVE tokens'[b] = tokens[b]
  BY <1>4 DEF TypeOK
<1> QED
  BY <1>3, <1>4 DEF Kept, SameHolder

LEMMA TransferStep ==
  ASSUME TypeOK, NEW a \in Accounts, NEW b \in Accounts, NEW n \in 1..MaxSupply,
         Transfer(a, b, n), grants' = grants
  PROVE  \A c \in Accounts : Kept(c)
<1>1. /\ a # b
      /\ tokens \in [Accounts -> TokenAccount]
      /\ tokens' = Move(tokens, a, b, n)
  BY DEF Transfer, TypeOK
<1>2. /\ tokens'[a] = [tokens[a] EXCEPT !.amount = @ - n]
      /\ tokens'[b] = [tokens[b] EXCEPT !.amount = @ + n]
      /\ \A c \in Accounts \ {a, b} : tokens'[c] = tokens[c]
  BY <1>1 DEF Move
<1>3. /\ tokens'[a].state = tokens[a].state /\ SameHolder(a)
      /\ tokens'[b].state = tokens[b].state /\ SameHolder(b)
  BY <1>1, <1>2 DEF SameHolder, TokenAccount
<1> QED
  BY <1>2, <1>3 DEF Kept, SameHolder

LEMMA TokenCallStep ==
  ASSUME TypeOK, TokenProgramCall
  PROVE  SameGlobal /\ \A b \in Accounts : AccountStep(b)
<1>1. SameGlobal
  BY DEF TokenProgramCall, SameGlobal
<1>2. ASSUME NEW a \in Accounts, NEW owner \in Owners, NEW immutable \in BOOLEAN,
             CreateTokenAccount(a, owner, immutable), UNCHANGED grants
      PROVE  \A b \in Accounts : AccountStep(b)
  <2>1. tokens' = [tokens EXCEPT ![a] = NewAccount(owner, immutable)]
    BY <1>2 DEF CreateTokenAccount
  <2>2. tokens'[a].owner = owner /\ tokens'[a].immutable = immutable
    BY <2>1 DEF NewAccount, TypeOK
  <2>3. Opened(a)
    BY <1>2, <2>2 DEF CreateTokenAccount, Opened
  <2>4. ASSUME NEW b \in Accounts, b # a PROVE Kept(b)
    BY <1>2, <2>1, <2>4 DEF TypeOK, Kept, SameHolder
  <2> QED
    BY <2>3, <2>4 DEF AccountStep
<1>3. ASSUME NEW a \in Accounts, CloseTokenAccount(a),
             grants' = [grants EXCEPT ![a] = NoGrant]
      PROVE  \A b \in Accounts : AccountStep(b)
  <2>1. Closed(a)
    BY <1>3 DEF CloseTokenAccount, Closed, TypeOK
  <2>2. ASSUME NEW b \in Accounts, b # a PROVE Kept(b)
    BY <1>3, <2>2 DEF CloseTokenAccount, TypeOK, Kept, SameHolder
  <2> QED
    BY <2>1, <2>2 DEF AccountStep
<1>4. ASSUME NEW a \in Accounts, NEW owner \in Owners, SetOwner(a, owner),
             UNCHANGED grants
      PROVE  \A b \in Accounts : AccountStep(b)
  <2>1. tokens'[a] = [tokens[a] EXCEPT !.owner = owner]
    BY <1>4 DEF SetOwner, TypeOK
  <2>2. tokens[a] \in TokenAccount
    BY DEF TypeOK
  <2>3. tokens'[a].state = tokens[a].state
    BY <2>1, <2>2 DEF TokenAccount
  <2>4. Handed(a)
    BY <1>4, <2>3 DEF SetOwner, Handed, IsThawed, Exists
  <2>5. ASSUME NEW b \in Accounts, b # a PROVE Kept(b)
    BY <1>4, <2>5 DEF SetOwner, TypeOK, Kept, SameHolder
  <2> QED
    BY <2>4, <2>5 DEF AccountStep
<1>5. ASSUME NEW a \in Accounts, NEW b \in Accounts, NEW n \in 1..MaxSupply,
             Transfer(a, b, n), UNCHANGED grants
      PROVE  \A c \in Accounts : AccountStep(c)
  BY <1>5, TransferStep DEF AccountStep
<1>6. ASSUME NEW a \in Accounts, NEW n \in 1..MaxSupply, MintTo(a, n) \/ Burn(a, n),
             UNCHANGED grants
      PROVE  \A b \in Accounts : AccountStep(b)
  <2>1. tokens[a].amount \in Nat
    BY DEF TypeOK, TokenAccount
  <2>2. PICK k \in Int : tokens' = [tokens EXCEPT ![a].amount = k]
    <3>1. n \in Nat /\ tokens[a].amount + n \in Int /\ tokens[a].amount - n \in Int
      BY <2>1
    <3>2. CASE MintTo(a, n)
      BY <3>1, <3>2 DEF MintTo
    <3>3. CASE Burn(a, n)
      BY <3>1, <3>3 DEF Burn
    <3> QED
      BY <1>6, <3>2, <3>3
  <2> QED
    BY <1>6, <2>2, AmountStep DEF AccountStep
<1> QED
  BY <1>1, <1>2, <1>3, <1>4, <1>5, <1>6 DEF TokenProgramCall

\* Opening a custodian's associated account, whether or not it exists already.
LEMMA OpenCustodyEffect ==
  ASSUME NEW t \in [Accounts -> TokenAccount], NEW c \in Custodians,
         t[Ata[c]].state # "Uninitialized" =>
           t[Ata[c]].owner = c /\ t[Ata[c]].immutable
  PROVE  /\ OpenCustody(t, c)[Ata[c]].state = "Initialized"
         /\ OpenCustody(t, c)[Ata[c]].owner = c
         /\ OpenCustody(t, c)[Ata[c]].immutable
         /\ \A b \in Accounts \ {Ata[c]} : OpenCustody(t, c)[b] = t[b]
<1> DEFINE s == AtaInitIfNeeded(t, c)
<1>1. Ata[c] \in Accounts
  OBVIOUS
<1>2. /\ s \in [Accounts -> TokenAccount]
      /\ s[Ata[c]].owner = c /\ s[Ata[c]].immutable
      /\ \A b \in Accounts \ {Ata[c]} : s[b] = t[b]
  <2>1. NewAccount(c, TRUE) \in TokenAccount
    BY NewAccountType DEF Owners
  <2>2. NewAccount(c, TRUE).owner = c /\ NewAccount(c, TRUE).immutable
    BY DEF NewAccount
  <2> HIDE DEF NewAccount
  <2> QED
    BY <1>1, <2>1, <2>2 DEF AtaInitIfNeeded
<1> HIDE DEF s
<1>3. /\ Thaw(s, Ata[c])[Ata[c]] = [s[Ata[c]] EXCEPT !.state = "Initialized"]
      /\ \A b \in Accounts \ {Ata[c]} : Thaw(s, Ata[c])[b] = s[b]
  BY <1>1, <1>2 DEF Thaw
<1>4. s[Ata[c]] \in TokenAccount
  BY <1>1, <1>2
<1>5. /\ Thaw(s, Ata[c])[Ata[c]].state = "Initialized"
      /\ Thaw(s, Ata[c])[Ata[c]].owner = c
      /\ Thaw(s, Ata[c])[Ata[c]].immutable
  BY <1>2, <1>3, <1>4 DEF TokenAccount
<1>6. OpenCustody(t, c) = Thaw(s, Ata[c])
  BY DEF OpenCustody, s
<1> QED
  BY <1>2, <1>3, <1>5, <1>6

-----------------------------------------------------------------------------
(* The invariant is inductive.                                              *)

LEMMA AccountInvInit == Init => AccountInv
<1> SUFFICES ASSUME Init PROVE AccountInv
  OBVIOUS
<1>1. \A c \in Custodians : tokens[Ata[c]] = NoAccount
  BY DEF Init
<1>2. AtaOwned
  BY <1>1 DEF AtaOwned, Exists, NoAccount
<1>3. \A a \in Accounts : grants[a].why # "proof"
  BY DEF Init, NoGrant
<1>4. ~Initialized
  BY DEF Init, Initialized
<1> QED
  BY <1>2, <1>3, <1>4 DEF AccountInv, PortalKnown, ProvenExists, CustodyAccountsUsable,
                          ProvenOwnerIsFixed

\* The root in force came with some authorised update.
LEMMA RootWasSeen ==
  ASSUME IndexInv, Initialized
  PROVE  \E m \in seen : m.root = global.earner_merkle_root
BY DEF IndexInv, RootIsNewestUnlessOvertaken

LEMMA OrdinaryStepKeepsAccountInv ==
  ASSUME TypeOK, IndexInv, AccountInv, SameGlobal, \A a \in Accounts : AccountStep(a)
  PROVE  AccountInv'
<1> USE DEF AccountStep, SameHolder
<1>1. Initialized' = Initialized
  BY DEF SameGlobal, Initialized
<1>2. AtaOwned'
  <2> SUFFICES ASSUME NEW c \in Custodians, Exists(Ata[c])'
               PROVE  tokens'[Ata[c]].owner = c /\ tokens'[Ata[c]].immutable
    BY DEF AtaOwned
  <2>1. AccountStep(Ata[c]) /\ Ata[c] \in Accounts
    OBVIOUS
  <2>2. Exists(Ata[c]) => tokens[Ata[c]].owner = c /\ tokens[Ata[c]].immutable
    BY DEF AccountInv, AtaOwned
  <2>3. CASE Kept(Ata[c])
    BY <2>2, <2>3 DEF Kept, Exists
  <2>4. CASE Proven(Ata[c]) \/ Removed(Ata[c]) \/ Recipient(Ata[c])
    BY <2>2, <2>4 DEF Proven, Removed, Recipient
  <2>5. CASE Opened(Ata[c])
    BY <2>5 DEF Opened
  <2>6. CASE Closed(Ata[c])
    BY <2>6 DEF Closed, NoAccount, Exists
  <2>7. CASE Handed(Ata[c])
    BY <2>2, <2>7 DEF Handed
  <2> QED
    BY <2>1, <2>3, <2>4, <2>5, <2>6, <2>7
<1>3. PortalKnown'
  BY <1>1 DEF AccountInv, PortalKnown, SameGlobal
<1>4. ProvenExists'
  <2> SUFFICES ASSUME NEW a \in Accounts, grants'[a].why = "proof"
               PROVE  Exists(a)' /\ Initialized'
    BY DEF ProvenExists
  <2>1. AccountStep(a)
    OBVIOUS
  <2>2. grants[a].why = "proof" => Exists(a) /\ Initialized
    BY DEF AccountInv, ProvenExists
  <2>3. CASE Kept(a) \/ Handed(a)
    BY <1>1, <2>2, <2>3 DEF Kept, Handed, Exists
  <2>4. CASE Proven(a)
    BY <1>1, <2>4 DEF Proven, Exists
  <2>5. CASE Removed(a) \/ Recipient(a) \/ Closed(a)
    BY <2>5 DEF Removed, Recipient, Closed, NoGrant
  <2>6. CASE Opened(a)
    BY <2>2, <2>6 DEF Opened
  <2> QED
    BY <2>1, <2>3, <2>4, <2>5, <2>6
<1>5. CustodyAccountsUsable'
  <2> SUFFICES ASSUME Initialized',
                      NEW c \in {global'.portal_authority, ExtSwap}
               PROVE  IsThawed(Ata[c])' /\ tokens'[Ata[c]].owner = c
    BY DEF CustodyAccountsUsable
  <2>1. Initialized /\ c \in {global.portal_authority, ExtSwap}
    BY <1>1 DEF SameGlobal
  <2>2. c \in Custodians /\ Ata[c] \in Accounts
    BY <2>1 DEF AccountInv, PortalKnown, Custodians
  <2>3. IsThawed(Ata[c]) /\ tokens[Ata[c]].owner = c
    BY <2>1 DEF AccountInv, CustodyAccountsUsable
  <2>4. c \notin Users
    BY <2>2
  <2>5. AccountStep(Ata[c])
    BY <2>2
  <2>6. CASE Kept(Ata[c]) \/ Proven(Ata[c]) \/ Recipient(Ata[c])
    BY <2>3, <2>6 DEF Kept, Proven, Recipient, IsThawed
  <2>7. ~Removed(Ata[c]) /\ ~Opened(Ata[c]) /\ ~Closed(Ata[c]) /\ ~Handed(Ata[c])
    BY <2>1, <2>3, <2>4 DEF Removed, Opened, Closed, Handed, IsThawed, Exists
  <2> QED
    BY <2>5, <2>6, <2>7
<1>6. ProvenOwnerIsFixed'
  <2> SUFFICES ASSUME NEW a \in Accounts, grants'[a].why = "proof"
               PROVE  /\ tokens'[a].immutable
                      /\ tokens'[a].owner = grants'[a].owner
                      /\ tokens'[a].owner # DefaultKey
                      /\ \E m \in seen' : tokens'[a].owner \in m.root
    BY DEF ProvenOwnerIsFixed
  <2>1. AccountStep(a)
    OBVIOUS
  <2>2. grants[a].why = "proof" =>
          /\ Exists(a)
          /\ tokens[a].immutable
          /\ tokens[a].owner = grants[a].owner
          /\ tokens[a].owner # DefaultKey
          /\ \E m \in seen : tokens[a].owner \in m.root
    BY DEF AccountInv, ProvenExists, ProvenOwnerIsFixed
  <2>3. CASE Kept(a)
    BY <2>2, <2>3 DEF Kept, SameGlobal
  <2>4. CASE Proven(a)
    BY <2>4, RootWasSeen DEF Proven, SameGlobal
  <2>5. CASE Removed(a) \/ Recipient(a) \/ Closed(a)
    BY <2>5 DEF Removed, Recipient, Closed, NoGrant
  <2>6. CASE Opened(a) \/ Handed(a)
    BY <2>2, <2>6 DEF Opened, Handed
  <2> QED
    BY <2>1, <2>3, <2>4, <2>5, <2>6
<1> QED
  BY <1>2, <1>3, <1>4, <1>5, <1>6 DEF AccountInv

LEMMA InitializeKeepsAccountInv ==
  ASSUME TypeOK, AccountInv, NEW signer \in Users, NEW index \in Nat,
         NEW root \in SUBSET Owners, Initialize(signer, index, root)
  PROVE  AccountInv'
<1> DEFINE p == PORTAL_PROGRAM
           opened == OpenCustody(tokens, p)
<1>1. /\ tokens \in [Accounts -> TokenAccount]
      /\ p \in Portals /\ p \in Custodians /\ ExtSwap \in Custodians /\ p # ExtSwap
      /\ Ata[p] \in Accounts /\ Ata[ExtSwap] \in Accounts /\ Ata[p] # Ata[ExtSwap]
  BY DEF TypeOK, Custodians
<1>2. \A c \in Custodians :
        tokens[Ata[c]].state # "Uninitialized" =>
          tokens[Ata[c]].owner = c /\ tokens[Ata[c]].immutable
  BY DEF AccountInv, AtaOwned, Exists
<1>3. /\ opened \in [Accounts -> TokenAccount]
      /\ opened[Ata[p]].state = "Initialized"
      /\ opened[Ata[p]].owner = p /\ opened[Ata[p]].immutable
      /\ \A b \in Accounts \ {Ata[p]} : opened[b] = tokens[b]
  BY <1>1, <1>2, OpenCustodyType, OpenCustodyEffect
<1> HIDE DEF opened
<1>4. opened[Ata[ExtSwap]].state # "Uninitialized" =>
        opened[Ata[ExtSwap]].owner = ExtSwap /\ opened[Ata[ExtSwap]].immutable
  BY <1>1, <1>2, <1>3
<1>5. tokens' = OpenCustody(opened, ExtSwap)
  BY DEF Initialize, opened
<1>6. /\ tokens'[Ata[ExtSwap]].state = "Initialized"
      /\ tokens'[Ata[ExtSwap]].owner = ExtSwap /\ tokens'[Ata[ExtSwap]].immutable
      /\ \A b \in Accounts \ {Ata[ExtSwap]} : tokens'[b] = opened[b]
  BY <1>1, <1>3, <1>4, <1>5, OpenCustodyEffect
<1>7. /\ ~Initialized
      /\ global'.portal_authority = p
      /\ \A a \in Accounts : grants'[a].why \in {grants[a].why, "custody"}
  BY DEF Initialize, TypeOK, CustodyGrant
<1>8. \A a \in Accounts : grants'[a].why # "proof"
  BY <1>7 DEF AccountInv, ProvenExists
<1>9. AtaOwned'
  <2> SUFFICES ASSUME NEW c \in Custodians, Exists(Ata[c])'
               PROVE  tokens'[Ata[c]].owner = c /\ tokens'[Ata[c]].immutable
    BY DEF AtaOwned
  <2>1. CASE c \in {p, ExtSwap}
    BY <1>1, <1>3, <1>6, <2>1
  <2>2. CASE c \notin {p, ExtSwap}
    <3>1. tokens'[Ata[c]] = tokens[Ata[c]]
      BY <1>1, <1>3, <1>6, <2>2
    <3> QED
      BY <1>2, <3>1 DEF Exists
  <2> QED
    BY <2>1, <2>2
<1>10. CustodyAccountsUsable'
  BY <1>1, <1>3, <1>6, <1>7 DEF CustodyAccountsUsable, IsThawed
<1> QED
  BY <1>1, <1>7, <1>8, <1>9, <1>10 DEF AccountInv, PortalKnown, ProvenExists,
                                      ProvenOwnerIsFixed

LEMMA UpdatePortalKeepsAccountInv ==
  ASSUME TypeOK, AccountInv, NEW signer \in Users, UpdatePortalAuthority(signer)
  PROVE  AccountInv'
<1> DEFINE p == PORTAL_PROGRAM
<1>1. /\ tokens \in [Accounts -> TokenAccount]
      /\ p \in Portals /\ p \in Custodians /\ ExtSwap \in Custodians /\ p # ExtSwap
      /\ Ata[p] \in Accounts /\ Ata[ExtSwap] \in Accounts /\ Ata[p] # Ata[ExtSwap]
  BY DEF TypeOK, Custodians
<1>2. \A c \in Custodians :
        tokens[Ata[c]].state # "Uninitialized" =>
          tokens[Ata[c]].owner = c /\ tokens[Ata[c]].immutable
  BY DEF AccountInv, AtaOwned, Exists
<1>3. tokens' = OpenCustody(tokens, p)
  BY DEF UpdatePortalAuthority
<1>4. /\ tokens'[Ata[p]].state = "Initialized"
      /\ tokens'[Ata[p]].owner = p /\ tokens'[Ata[p]].immutable
      /\ \A b \in Accounts \ {Ata[p]} : tokens'[b] = tokens[b]
  BY <1>1, <1>2, <1>3, OpenCustodyEffect
<1>5. /\ Initialized /\ Initialized'
      /\ global'.portal_authority = p
      /\ seen' = seen
      /\ grants'[Ata[p]].why = "custody"
      /\ \A a \in Accounts \ {Ata[p]} : grants'[a] = grants[a]
  BY <1>1 DEF UpdatePortalAuthority, TypeOK, EarnGlobal, CustodyGrant, Initialized
<1>6. AtaOwned'
  <2> SUFFICES ASSUME NEW c \in Custodians, Exists(Ata[c])'
               PROVE  tokens'[Ata[c]].owner = c /\ tokens'[Ata[c]].immutable
    BY DEF AtaOwned
  <2>1. CASE c = p
    BY <1>4, <2>1
  <2>2. CASE c # p
    <3>1. tokens'[Ata[c]] = tokens[Ata[c]]
      BY <1>1, <1>4, <2>2
    <3> QED
      BY <1>2, <3>1 DEF Exists
  <2> QED
    BY <2>1, <2>2
<1>7. CustodyAccountsUsable'
  <2>1. IsThawed(Ata[ExtSwap]) /\ tokens[Ata[ExtSwap]].owner = ExtSwap
    BY <1>5 DEF AccountInv, CustodyAccountsUsable
  <2>2. IsThawed(Ata[ExtSwap])' /\ tokens'[Ata[ExtSwap]].owner = ExtSwap
    BY <1>1, <1>4, <2>1 DEF IsThawed
  <2> QED
    BY <1>1, <1>4, <1>5, <2>2 DEF CustodyAccountsUsable, IsThawed
<1>8. ProvenExists' /\ ProvenOwnerIsFixed'
  <2> SUFFICES ASSUME NEW a \in Accounts, grants'[a].why = "proof"
               PROVE  /\ Exists(a)' /\ Initialized'
                      /\ tokens'[a].immutable
                      /\ tokens'[a].owner = grants'[a].owner
                      /\ tokens'[a].owner # DefaultKey
                      /\ \E m \in seen' : tokens'[a].owner \in m.root
    BY DEF ProvenExists, ProvenOwnerIsFixed
  <2>1. a # Ata[p] /\ grants'[a] = grants[a] /\ tokens'[a] = tokens[a]
    BY <1>4, <1>5
  <2> QED
    BY <1>5, <2>1 DEF AccountInv, ProvenExists, ProvenOwnerIsFixed, Exists
<1> QED
  BY <1>1, <1>5, <1>6, <1>7, <1>8 DEF AccountInv, PortalKnown

LEMMA AccountInvInductive == TypeOK /\ IndexInv /\ AccountInv /\ [Next]_vars => AccountInv'
<1> SUFFICES ASSUME TypeOK, IndexInv, AccountInv, [Next]_vars PROVE AccountInv'
  OBVIOUS
<1>1. CASE InitializeFresh \/ InitializeMigrated
  <2>1. ZeroRoot \in SUBSET Owners
    BY DEF ZeroRoot
  <2> QED
    BY <1>1, <2>1, InitializeKeepsAccountInv DEF InitializeFresh, InitializeMigrated
<1>2. ASSUME NEW signer \in Users, UpdatePortalAuthority(signer) PROVE AccountInv'
  BY <1>2, UpdatePortalKeepsAccountInv
<1>3. ASSUME NEW signer \in Owners, NEW index \in Indices, NEW root \in Roots,
             PropagateIndex(signer, index, root)
      PROVE  AccountInv'
  <2>1. SameGlobal
    BY <1>3 DEF PropagateIndex, SameGlobal, TypeOK, EarnGlobal
  <2>2. \A a \in Accounts : AccountStep(a)
    BY <1>3, QuietStep DEF PropagateIndex, AccountStep
  <2> QED
    BY <2>1, <2>2, OrdinaryStepKeepsAccountInv
<1>4. ASSUME UNCHANGED <<tokens, grants, global, seen>> PROVE AccountInv'
  <2>1. SameGlobal /\ \A a \in Accounts : AccountStep(a)
    BY <1>4, QuietStep DEF AccountStep, SameGlobal
  <2> QED
    BY <2>1, OrdinaryStepKeepsAccountInv
<1>5. ASSUME NEW a \in Accounts, NEW user \in Owners, AddRegistrarEarner(a, user)
      PROVE  AccountInv'
  BY <1>5, AddStep, OrdinaryStepKeepsAccountInv
<1>6. ASSUME NEW a \in Accounts, RemoveRegistrarEarner(a) PROVE AccountInv'
  BY <1>6, RemoveStep, OrdinaryStepKeepsAccountInv
<1>7. ASSUME NEW signer \in Users, NEW source \in Accounts, NEW destination \in Accounts,
             NEW amount \in 0..MaxSupply,
             RecoverM(signer, source, destination, amount)
      PROVE  AccountInv'
  BY <1>7, RecoverStep, OrdinaryStepKeepsAccountInv
<1>8. CASE TokenProgramCall
  BY <1>8, TokenCallStep, OrdinaryStepKeepsAccountInv
<1>9. CASE UNCHANGED vars \/ \E q \in Portals : UpgradeProgram(q)
  BY <1>4, <1>9 DEF vars, tokenVars, UpgradeProgram
<1> QED
  BY <1>1, <1>2, <1>3, <1>5, <1>6, <1>7, <1>8, <1>9 DEF Next, EarnCall

LEMMA AccountInvAlways == Spec => []AccountInv
BY TypeCorrect, IndexInvAlways, AccountInvInit, AccountInvInductive, PTL DEF Spec

-----------------------------------------------------------------------------
\* The portal and the extension swap can always move M: no proof, recovery,
\* upgrade or call by anyone leaves their associated accounts frozen or lost.
THEOREM CustodyIsUsable == Spec => []CustodyAccountsUsable
<1>1. AccountInv => CustodyAccountsUsable
  BY DEF AccountInv
<1> QED
  BY <1>1, AccountInvAlways, PTL

\* An account AddRegistrarEarner thawed stays the proven earner's own.
THEOREM ProvenOwnerNeverChanges == Spec => []ProvenOwnerIsFixed
<1>1. AccountInv => ProvenOwnerIsFixed
  BY DEF AccountInv
<1> QED
  BY <1>1, AccountInvAlways, PTL

-----------------------------------------------------------------------------
(* What a step may never do.                                                *)

LEMMA OpeningThaws ==
  ASSUME NEW t \in [Accounts -> TokenAccount], NEW c \in Custodians, NEW b \in Accounts
  PROVE  OpenCustody(t, c)[b].state = "Initialized" \/ OpenCustody(t, c)[b] = t[b]
<1> DEFINE s == AtaInitIfNeeded(t, c)
<1>1. Ata[c] \in Accounts /\ NewAccount(c, TRUE) \in TokenAccount
  BY NewAccountType DEF Owners
<1>2. s \in [Accounts -> TokenAccount] /\ (b # Ata[c] => s[b] = t[b])
  BY <1>1 DEF AtaInitIfNeeded
<1> HIDE DEF s
<1>3. OpenCustody(t, c) = Thaw(s, Ata[c])
  BY DEF OpenCustody, s
<1>4. CASE b = Ata[c]
  <2>1. Thaw(s, Ata[c])[b] = [s[b] EXCEPT !.state = "Initialized"] /\ s[b] \in TokenAccount
    BY <1>1, <1>2, <1>4 DEF Thaw
  <2>2. Thaw(s, Ata[c])[b].state = "Initialized"
    BY <2>1 DEF TokenAccount
  <2> QED
    BY <1>3, <2>2
<1>5. CASE b # Ata[c]
  BY <1>1, <1>2, <1>3, <1>5 DEF Thaw
<1> QED
  BY <1>4, <1>5

\* RemoveRegistrarEarner is the only instruction that freezes a thawed account,
\* and it freezes only accounts of owners that the current root excludes and
\* that are no custodians.
THEOREM EarnersKeepAccess == Spec => OnlyNonEarnersAreFrozen
<1> DEFINE Allowed(a) == IsThawed(a) /\ IsFrozen(a)' =>
                           /\ tokens[a].owner \notin global.earner_merkle_root
                           /\ tokens[a].owner \notin {global.portal_authority, ExtSwap}
<1>1. ASSUME TypeOK, [Next]_vars, NEW a \in Accounts PROVE Allowed(a)
  <2>1. AccountStep(a) => Allowed(a)
    BY DEF AccountStep, Kept, Proven, Removed, Recipient, Opened, Closed, Handed,
           NoAccount, IsThawed, IsFrozen, Exists
  <2>2. ASSUME tokens'[a].state = "Initialized" \/ tokens'[a] = tokens[a]
        PROVE  Allowed(a)
    BY <2>2 DEF IsThawed, IsFrozen
  <2>3. CASE InitializeFresh \/ InitializeMigrated
    <3>1. PICK signer \in Users, index \in Nat, root \in SUBSET Owners :
            Initialize(signer, index, root)
      <4>1. ZeroRoot \in SUBSET Owners
        BY DEF ZeroRoot
      <4> QED
        BY <2>3, <4>1 DEF InitializeFresh, InitializeMigrated
    <3> DEFINE opened == OpenCustody(tokens, PORTAL_PROGRAM)
    <3>2. opened \in [Accounts -> TokenAccount]
      BY <1>1, OpenCustodyType DEF TypeOK, Custodians
    <3>3. opened[a].state = "Initialized" \/ opened[a] = tokens[a]
      BY <1>1, OpeningThaws DEF TypeOK, Custodians
    <3>4. tokens' = OpenCustody(opened, ExtSwap)
      BY <3>1 DEF Initialize
    <3> HIDE DEF opened
    <3>5. tokens'[a].state = "Initialized" \/ tokens'[a] = opened[a]
      BY <3>2, <3>4, OpeningThaws DEF Custodians
    <3> QED
      BY <2>2, <3>3, <3>5
  <2>4. ASSUME NEW signer \in Users, UpdatePortalAuthority(signer) PROVE Allowed(a)
    <3>1. tokens'[a].state = "Initialized" \/ tokens'[a] = tokens[a]
      BY <1>1, <2>4, OpeningThaws DEF UpdatePortalAuthority, TypeOK, Custodians
    <3> QED
      BY <2>2, <3>1
  <2>5. ASSUME NEW signer \in Owners, NEW index \in Indices, NEW root \in Roots,
               PropagateIndex(signer, index, root)
        PROVE  Allowed(a)
    BY <2>2, <2>5 DEF PropagateIndex
  <2>6. ASSUME NEW b \in Accounts, NEW user \in Owners, AddRegistrarEarner(b, user)
        PROVE  Allowed(a)
    BY <1>1, <2>1, <2>6, AddStep
  <2>7. ASSUME NEW b \in Accounts, RemoveRegistrarEarner(b) PROVE Allowed(a)
    BY <1>1, <2>1, <2>7, RemoveStep
  <2>8. ASSUME NEW signer \in Users, NEW source \in Accounts,
               NEW destination \in Accounts, NEW amount \in 0..MaxSupply,
               RecoverM(signer, source, destination, amount)
        PROVE  Allowed(a)
    BY <1>1, <2>1, <2>8, RecoverStep
  <2>9. CASE TokenProgramCall
    BY <1>1, <2>1, <2>9, TokenCallStep
  <2>10. CASE UNCHANGED vars \/ \E q \in Portals : UpgradeProgram(q)
    BY <2>2, <2>10 DEF vars, tokenVars, UpgradeProgram
  <2> QED
    BY <1>1, <2>3, <2>4, <2>5, <2>6, <2>7, <2>8, <2>9, <2>10 DEF Next, EarnCall
<1>2. TypeOK /\ [Next]_vars => [\A a \in Accounts : Allowed(a)]_vars
  BY <1>1
<1> QED
  BY <1>2, TypeCorrect, PTL DEF Spec, OnlyNonEarnersAreFrozen

-----------------------------------------------------------------------------
(* The program implements the feed.                                         *)

\* An event appended is an index published.
LEMMA PublishedAppend ==
  ASSUME events \in Seq(IndexUpdateV2), NEW e \in IndexUpdateV2,
         events' = Append(events, e)
  PROVE  PublishedIndices' = Append(PublishedIndices, e.index)
<1>1. /\ Len(events) \in Nat
      /\ Len(events') = Len(events) + 1
      /\ \A i \in 1..Len(events) : events'[i] = events[i]
      /\ events'[Len(events) + 1] = e
  OBVIOUS
<1>2. PublishedIndices \in Seq(Nat) /\ Len(PublishedIndices) = Len(events)
  <2>1. ASSUME NEW i \in 1..Len(events) PROVE events[i].index \in Nat
    <3>1. events[i] \in IndexUpdateV2
      OBVIOUS
    <3> QED
      BY <3>1 DEF IndexUpdateV2
  <2> DEFINE n == Len(events)
             indices == [i \in 1..n |-> events[i].index]
  <2>2. n \in Nat /\ indices \in [1..n -> Nat]
    BY <1>1, <2>1
  <2>3. PublishedIndices = indices
    BY DEF PublishedIndices
  <2> HIDE DEF n, indices
  <2>4. indices \in Seq(Nat) /\ Len(indices) = n
    BY <2>2
  <2> QED
    BY <2>3, <2>4 DEF n
<1>3. PublishedIndices' = [i \in 1..(Len(events) + 1) |-> events'[i].index]
  BY <1>1 DEF PublishedIndices
<1>4. e.index \in Nat
  BY DEF IndexUpdateV2
<1>5. Append(PublishedIndices, e.index)
        = [i \in 1..(Len(events) + 1) |->
             IF i = Len(events) + 1 THEN e.index ELSE PublishedIndices[i]]
  BY <1>1, <1>2, <1>4
<1>6. \A i \in 1..Len(events) : PublishedIndices[i] = events'[i].index
  BY <1>1 DEF PublishedIndices
<1> QED
  BY <1>1, <1>3, <1>5, <1>6

LEMMA PublishedUnchanged ==
  ASSUME UNCHANGED events
  PROVE  UNCHANGED PublishedIndices
BY DEF PublishedIndices

\* An instruction that authorises an index publishes it, replaces at most the
\* root, or, when it is stale, leaves the feed alone.
LEMMA PropagateImplementsFeed ==
  ASSUME TypeOK, NEW signer \in Owners, NEW index \in Nat,
         NEW root \in SUBSET Owners, PropagateIndex(signer, index, root)
  PROVE  Feed!Publish \/ Feed!ReplaceRoot
<1>1. Initialized /\ Initialized'
  BY DEF PropagateIndex, Initialized, TypeOK, EarnGlobal
<1>2. CASE index > multiplier
  <2>1. IndexUpdate(index) \in IndexUpdateV2 /\ IndexUpdate(index).index = index
    BY DEF IndexUpdate, IndexUpdateV2, TypeOK
  <2>2. multiplier' = index /\ events' = Append(events, IndexUpdate(index))
    BY <1>2 DEF PropagateIndex, Raised, Emitted
  <2>3. PublishedIndices' = Append(PublishedIndices, multiplier')
    BY <2>1, <2>2, PublishedAppend DEF TypeOK
  <2> QED
    BY <1>1, <1>2, <2>2, <2>3 DEF Feed!Publish
<1>3. CASE ~(index > multiplier)
  <2>1. UNCHANGED <<multiplier, events>>
    BY <1>3 DEF PropagateIndex, Raised, Emitted
  <2> QED
    BY <1>1, <2>1, PublishedUnchanged DEF Feed!ReplaceRoot
<1> QED
  BY <1>2, <1>3

LEMMA StepImplementsFeed ==
  ASSUME TypeOK, [Next]_vars
  PROVE  [Feed!FeedNext]_(Feed!feedVars)
<1>1. ASSUME NEW signer \in Users, NEW index \in Nat, NEW root \in SUBSET Owners,
             Initialize(signer, index, root)
      PROVE  Feed!Start
  <2>1. ~Initialized /\ Initialized'
    BY <1>1 DEF Initialize, Initialized
  <2>2. multiplier' >= multiplier
    BY <1>1 DEF Initialize, Raised, TypeOK
  <2>3. UNCHANGED PublishedIndices
    BY <1>1, PublishedUnchanged DEF Initialize
  <2> QED
    BY <2>1, <2>2, <2>3 DEF Feed!Start
<1>2. ASSUME UNCHANGED <<multiplier, seen, events>>,
             global'.earner_merkle_root = global.earner_merkle_root,
             global'.admin = global.admin
      PROVE  UNCHANGED Feed!feedVars
  BY <1>2, PublishedUnchanged DEF Feed!feedVars, Initialized
<1> QED
  BY <1>1, <1>2, PropagateImplementsFeed, IndexStep DEF Feed!FeedNext

\* Whatever is stale, repeated, unauthorised or upgraded in between, the program
\* is an index that only rises and a log with one entry for each rise.
THEOREM ProgramImplementsFeed == Spec => ImplementsIndexFeed
<1>1. Init => Feed!FeedInit
  <2> SUFFICES ASSUME Init PROVE Feed!FeedInit
    OBVIOUS
  <2>1. Initialized = FALSE
    BY DEF Init, Initialized
  <2>2. multiplier \in Nat
    BY DEF Init
  <2>3. PublishedIndices = <<>>
    BY DEF Init, PublishedIndices
  <2> QED
    BY <2>1, <2>2, <2>3 DEF Feed!FeedInit
<1>2. TypeOK /\ [Next]_vars => [Feed!FeedNext]_(Feed!feedVars)
  BY StepImplementsFeed
<1> QED
  BY <1>1, <1>2, TypeCorrect, PTL DEF Spec, ImplementsIndexFeed, Feed!FeedSpec

-----------------------------------------------------------------------------
(* Migration.                                                               *)

LEMMA Divided ==
  ASSUME NEW a \in Nat, NEW d \in Nat \ {0}
  PROVE  a \div d \in Nat /\ a < d * (a \div d) + d
OBVIOUS

LEMMA ProductMonotone ==
  ASSUME NEW a \in Nat, NEW b \in Nat, NEW d \in Nat, a <= b
  PROVE  a * d <= b * d
OBVIOUS

\* Rounding up covers the whole principal at the index that f64 gives back, so an
\* amount that fits is short of at most one unit of the index.
LEMMA RoundedUpCovers ==
  ASSUME NEW principal \in Nat, NEW index \in Nat \ {0}, NEW n \in Nat,
         PrincipalToAmountUp(principal, index) <= n
  PROVE  principal * index <= n * IndexScale + (IF index \in Inexact THEN principal ELSE 0)
<1>. DEFINE read == Truncated(index)
<1>1. CASE index = IndexScale
  <2>1. principal * index <= n * IndexScale /\ n * IndexScale \in Nat
    BY <1>1, ProductMonotone DEF PrincipalToAmountUp
  <2>. QED  BY <2>1
<1>2. CASE index # IndexScale
  <2>. DEFINE a == read * principal + IndexScale - 1
              q == a \div IndexScale
  <2>1. read \in Nat /\ index = read + IF index \in Inexact THEN 1 ELSE 0
    BY DEF Truncated
  <2>. HIDE DEF read
  <2>2. read * principal \in Nat /\ a \in Nat
    BY <2>1
  <2>3. q \in Nat /\ a < IndexScale * q + IndexScale
    BY <2>2, Divided
  <2>4. q * IndexScale <= n * IndexScale /\ n * IndexScale \in Nat
    BY <1>2, <2>3, ProductMonotone DEF PrincipalToAmountUp, read
  <2>5. q * IndexScale = IndexScale * q
    BY <2>3
  <2>. HIDE DEF q
  <2>6. read * principal <= n * IndexScale
    BY <2>2, <2>3, <2>4, <2>5
  <2>7. \A r \in Nat : principal * r = r * principal /\ principal * (r + 1) = r * principal + principal
    OBVIOUS
  <2>8. principal * index = read * principal + IF index \in Inexact THEN principal ELSE 0
    BY <2>1, <2>7
  <2>. QED  BY <2>2, <2>4, <2>6, <2>8
<1>. QED
  BY <1>1, <1>2

\* Every instruction but Initialize needs an initialised program.
LEMMA OnlyInitializeStarts ==
  ASSUME [Next]_vars, ~Initialized, Initialized'
  PROVE  InitializeFresh \/ InitializeMigrated
<1>1. EarnCall => InitializeFresh \/ InitializeMigrated
  BY DEF EarnCall, PropagateIndex, UpdatePortalAuthority, AddRegistrarEarner,
         RemoveRegistrarEarner, RecoverM
<1>2. ~TokenProgramCall
  BY DEF TokenProgramCall, Initialized
<1>3. ~UNCHANGED vars /\ \A p \in Portals : ~UpgradeProgram(p)
  BY DEF vars, UpgradeProgram, Initialized
<1> QED
  BY <1>1, <1>2, <1>3 DEF Next

\* Initialize with the migrate feature starts at an index of the old program, and
\* never takes over a mint worth more than the old one at that index, but for the
\* unit of the index that principal_to_amount_up may lose in f64.
THEOREM MigrationIsAlwaysBacked == Spec => MigrationIsBacked
<1>. DEFINE Lost == IF multiplier' \in Inexact THEN supply' ELSE 0
            Backed == /\ \E old \in OldGlobals : multiplier' = old.index
                      /\ supply' * multiplier' <= OldSupply * IndexScale + Lost
<1>1. ASSUME TypeOK, [Next]_vars, ~Initialized, Initialized', Migrate
      PROVE  Backed
  <2>1. PICK signer \in Users, old \in OldGlobals :
          Initialize(signer, old.index, old.earner_merkle_root)
    BY <1>1, OnlyInitializeStarts DEF InitializeFresh, InitializeMigrated
  <2>2. old.index \in Nat \ {0}
    BY InputAssumption
  <2>3. Raised(old.index) = old.index /\ multiplier' = old.index
    BY <1>1, <2>1, <2>2 DEF Initialize, ValidMultiplier, Raised, TypeOK
  <2>4. supply' = supply /\ PrincipalToAmountUp(supply, old.index) <= OldSupply
    BY <1>1, <2>1, <2>3 DEF Initialize, BackedByOldMint
  <2>5. supply * old.index <= OldSupply * IndexScale
                                + (IF old.index \in Inexact THEN supply ELSE 0)
    BY <1>1, <2>2, <2>4, RoundedUpCovers DEF TypeOK
  <2> QED
    BY <2>3, <2>4, <2>5
<1>2. TypeOK /\ [Next]_vars => [~Initialized /\ Initialized' /\ Migrate => Backed]_vars
  BY <1>1
<1> QED
  BY <1>2, TypeCorrect, PTL DEF Spec, MigrationIsBacked

-----------------------------------------------------------------------------
(* The principal of a frozen account.                                       *)

Drained(a) == IsFrozen(a) /\ tokens'[a].amount < tokens[a].amount

LEMMA SameAmount ==
  ASSUME TypeOK, NEW a \in Accounts, tokens'[a].amount = tokens[a].amount
  PROVE  ~Drained(a)
BY DEF Drained, TypeOK, TokenAccount

\* Opening a custodian's account keeps what every existing account holds.
LEMMA OpeningKeepsAmounts ==
  ASSUME NEW t \in [Accounts -> TokenAccount], NEW c \in Custodians,
         NEW b \in Accounts, t[b].state # "Uninitialized"
  PROVE  /\ OpenCustody(t, c)[b].amount = t[b].amount
         /\ OpenCustody(t, c)[b].state # "Uninitialized"
<1> DEFINE s == AtaInitIfNeeded(t, c)
<1>1. Ata[c] \in Accounts /\ NewAccount(c, TRUE) \in TokenAccount
  BY NewAccountType DEF Owners
<1>2. s \in [Accounts -> TokenAccount] /\ s[b] = t[b]
  BY <1>1 DEF AtaInitIfNeeded
<1> HIDE DEF s
<1>3. OpenCustody(t, c)[b] = s[b] \/ OpenCustody(t, c)[b] = [s[b] EXCEPT !.state = "Initialized"]
  BY <1>1, <1>2 DEF OpenCustody, Thaw, s
<1>4. s[b] \in TokenAccount
  BY <1>2
<1> QED
  BY <1>2, <1>3, <1>4 DEF TokenAccount

\* A recovery moves the amount, all of it and nothing else.
LEMMA RecoveredAmounts ==
  ASSUME TypeOK, NEW source \in Accounts, NEW destination \in Accounts,
         source # destination, NEW n \in Nat
  PROVE  LET t == Recovered(source, destination, n)
         IN  /\ t[source].amount = tokens[source].amount - n
             /\ t[destination].amount = tokens[destination].amount + n
             /\ \A b \in Accounts \ {source, destination} : t[b] = tokens[b]
<1>1. tokens \in [Accounts -> TokenAccount]
  BY DEF TypeOK
<1>2. /\ tokens[source] = [state |-> tokens[source].state, owner |-> tokens[source].owner,
           immutable |-> tokens[source].immutable, amount |-> tokens[source].amount]
      /\ tokens[destination] = [state |-> tokens[destination].state,
           owner |-> tokens[destination].owner,
           immutable |-> tokens[destination].immutable,
           amount |-> tokens[destination].amount]
  BY <1>1 DEF TokenAccount
<1> QED
  BY <1>1, <1>2 DEF Recovered, Freeze, Thaw, Move

LEMMA RecoveryMoves ==
  ASSUME TypeOK, NEW signer \in Users, NEW source \in Accounts,
         NEW destination \in Accounts, NEW amount \in 0..MaxSupply,
         RecoverM(signer, source, destination, amount),
         NEW a \in Accounts, Drained(a)
  PROVE  /\ IsFrozen(a)'
         /\ supply' = supply
         /\ \E b \in Accounts :
              tokens'[b].amount - tokens[b].amount = tokens[a].amount - tokens'[a].amount
<1>1. /\ source # destination
      /\ amount \in Nat
      /\ tokens' = Recovered(source, destination, amount)
      /\ supply' = supply
  BY DEF RecoverM
<1>2. /\ tokens'[source].amount = tokens[source].amount - amount
      /\ tokens'[destination].amount = tokens[destination].amount + amount
      /\ \A b \in Accounts \ {source, destination} : tokens'[b] = tokens[b]
  BY <1>1, RecoveredAmounts
<1>3. tokens[source].amount \in Nat /\ tokens[destination].amount \in Nat
  BY DEF TypeOK, TokenAccount
<1>4. a = source
  <2>1. tokens'[a].amount # tokens[a].amount
    BY SameAmount
  <2>2. a # destination
    BY <1>1, <1>2, <1>3 DEF Drained
  <2> QED
    BY <1>2, <2>1, <2>2
<1>5. IsFrozen(a)'
  BY <1>1, <1>4, RecoveredEffect DEF IsFrozen
<1> QED
  BY <1>1, <1>2, <1>3, <1>4, <1>5

LEMMA TokenCallsDrainNoFrozenAccount ==
  ASSUME TypeOK, TokenProgramCall, NEW a \in Accounts
  PROVE  ~Drained(a)
<1>1. ASSUME NEW b \in Accounts, NEW owner \in Owners, NEW immutable \in BOOLEAN,
             CreateTokenAccount(b, owner, immutable)
      PROVE  ~Drained(a)
  BY <1>1, SameAmount DEF CreateTokenAccount, Drained, IsFrozen, Exists, TypeOK
<1>2. ASSUME NEW b \in Accounts, CloseTokenAccount(b) PROVE ~Drained(a)
  <2>1. CASE a = b
    BY <1>2, <2>1, SameAmount DEF CloseTokenAccount, NoAccount, TypeOK
  <2>2. CASE a # b
    BY <1>2, <2>2, SameAmount DEF CloseTokenAccount, TypeOK
  <2> QED
    BY <2>1, <2>2
<1>3. ASSUME NEW b \in Accounts, NEW owner \in Owners, SetOwner(b, owner)
      PROVE  ~Drained(a)
  <2>1. tokens'[a] = tokens[a] \/ tokens'[a] = [tokens[a] EXCEPT !.owner = owner]
    BY <1>3 DEF SetOwner, TypeOK
  <2>2. tokens[a] \in TokenAccount
    BY DEF TypeOK
  <2> QED
    BY <2>1, <2>2, SameAmount DEF TokenAccount
<1>4. ASSUME NEW b \in Accounts, NEW c \in Accounts, NEW n \in 1..MaxSupply,
             Transfer(b, c, n)
      PROVE  ~Drained(a)
  <2>1. CASE a \in {b, c}
    BY <1>4, <2>1 DEF Transfer, Drained, IsThawed, IsFrozen
  <2>2. CASE a \notin {b, c}
    BY <1>4, <2>2, SameAmount DEF Transfer, Move, TypeOK
  <2> QED
    BY <2>1, <2>2
<1>5. ASSUME NEW b \in Accounts, NEW n \in 1..MaxSupply, MintTo(b, n) \/ Burn(b, n)
      PROVE  ~Drained(a)
  <2>1. CASE a = b
    BY <1>5, <2>1 DEF MintTo, Burn, Drained, IsThawed, IsFrozen
  <2>2. CASE a # b
    BY <1>5, <2>2, SameAmount DEF MintTo, Burn, TypeOK
  <2> QED
    BY <2>1, <2>2
<1> QED
  BY <1>1, <1>2, <1>3, <1>4, <1>5 DEF TokenProgramCall

LEMMA OpeningsDrainNothing ==
  ASSUME TypeOK, NEW a \in Accounts,
         InitializeFresh \/ InitializeMigrated
           \/ \E signer \in Users : UpdatePortalAuthority(signer)
  PROVE  ~Drained(a)
<1> SUFFICES ASSUME IsFrozen(a) PROVE tokens'[a].amount = tokens[a].amount
  BY SameAmount DEF Drained
<1> DEFINE opened == OpenCustody(tokens, PORTAL_PROGRAM)
<1>1. /\ tokens \in [Accounts -> TokenAccount]
      /\ PORTAL_PROGRAM \in Custodians /\ ExtSwap \in Custodians
      /\ tokens[a].state # "Uninitialized"
  BY DEF TypeOK, Custodians, IsFrozen
<1>2. opened \in [Accounts -> TokenAccount]
  BY <1>1, OpenCustodyType
<1>3. opened[a].amount = tokens[a].amount /\ opened[a].state # "Uninitialized"
  BY <1>1, OpeningKeepsAmounts
<1>4. tokens' = opened \/ tokens' = OpenCustody(opened, ExtSwap)
  BY DEF InitializeFresh, InitializeMigrated, Initialize, UpdatePortalAuthority
<1> HIDE DEF opened
<1>5. OpenCustody(opened, ExtSwap)[a].amount = opened[a].amount
  BY <1>1, <1>2, <1>3, OpeningKeepsAmounts
<1> QED
  BY <1>3, <1>4, <1>5

LEMMA ThawsKeepAmounts ==
  ASSUME TypeOK, NEW a \in Accounts, NEW b \in Accounts,
         tokens' = Thaw(tokens, b) \/ tokens' = Freeze(tokens, b)
  PROVE  ~Drained(a)
<1>1. tokens[a] \in TokenAccount /\ tokens \in [Accounts -> TokenAccount]
  BY DEF TypeOK
<1>2. PICK frozen : tokens' = [tokens EXCEPT ![b].state = frozen]
  BY DEF Thaw, Freeze
<1>3. tokens'[a].amount = tokens[a].amount
  BY <1>1, <1>2 DEF TokenAccount
<1> QED
  BY <1>3, SameAmount

\* Only RecoverM takes principal out of a frozen account: the account is frozen
\* again afterwards, another account gained exactly what it lost, and nothing
\* was minted or burnt.
THEOREM FrozenPrincipalIsOnlyMoved == Spec => RecoveryKeepsSourceFrozen
<1> DEFINE Moved(a) == /\ IsFrozen(a)'
                       /\ supply' = supply
                       /\ \E b \in Accounts :
                            tokens'[b].amount - tokens[b].amount
                              = tokens[a].amount - tokens'[a].amount
<1>1. ASSUME TypeOK, [Next]_vars, NEW a \in Accounts, Drained(a)
      PROVE  Moved(a)
  <2>1. ASSUME UNCHANGED tokens PROVE FALSE
    BY <1>1, <2>1, SameAmount
  <2>2. ~InitializeFresh /\ ~InitializeMigrated
        /\ \A signer \in Users : ~UpdatePortalAuthority(signer)
    BY <1>1, OpeningsDrainNothing
  <2>3. \A signer \in Owners, index \in Indices, root \in Roots :
          ~PropagateIndex(signer, index, root)
    BY <2>1 DEF PropagateIndex
  <2>4. \A b \in Accounts :
          ~RemoveRegistrarEarner(b) /\ \A user \in Owners : ~AddRegistrarEarner(b, user)
    BY <1>1, ThawsKeepAmounts DEF AddRegistrarEarner, RemoveRegistrarEarner
  <2>5. ~TokenProgramCall
    BY <1>1, TokenCallsDrainNoFrozenAccount
  <2>6. ~UNCHANGED vars /\ \A q \in Portals : ~UpgradeProgram(q)
    BY <2>1 DEF vars, tokenVars, UpgradeProgram
  <2>7. PICK signer \in Users, source \in Accounts, destination \in Accounts,
             amount \in 0..MaxSupply : RecoverM(signer, source, destination, amount)
    BY <1>1, <2>2, <2>3, <2>4, <2>5, <2>6 DEF Next, EarnCall
  <2> QED
    BY <1>1, <2>7, RecoveryMoves
<1>2. TypeOK /\ [Next]_vars =>
        [\A a \in Accounts :
           IsFrozen(a) /\ tokens'[a].amount < tokens[a].amount => Moved(a)]_vars
  BY <1>1 DEF Drained
<1> QED
  BY <1>2, TypeCorrect, PTL DEF Spec, RecoveryKeepsSourceFrozen
=============================================================================
