--------------------------- MODULE CrossChainProofs ---------------------------
(***************************************************************************)
(* A machine-checked proof about the order in which CrossChainIndex takes  *)
(* messages: for any number of them, any earner lists, and any delivery.   *)
(***************************************************************************)
EXTENDS CrossChainIndex, FiniteSetTheorems, TLAPS

USE KeysAssumption, InputAssumption, HubAssumption

-----------------------------------------------------------------------------
(* The inductive invariant: messages are numbered as they are sent, those   *)
(* with a root carry indices that never decrease, and the root in force is  *)
(* that of a message whose index the multiplier has reached.                *)

HubType ==
  /\ multiplier \in Nat /\ global \in EarnGlobal /\ PORTAL_PROGRAM \in Portals
  /\ hub \in [index : Nat, earners : SUBSET Users]
  /\ messages \subseteq Message /\ IsFiniteSet(messages)
  /\ rootSeq \in Nat

Numbered == \A m \in messages : m.seq <= Cardinality(messages)

SentInOrder ==
  /\ \A m \in messages : m.index <= hub.index
  /\ \A m, n \in messages :
       m.seq < n.seq /\ n.root # ZeroRoot => m.index <= n.index

InForce(m) ==
  m.seq = rootSeq /\ m.root # ZeroRoot /\ Initialized /\ m.index <= multiplier

OrderInv ==
  /\ HubType /\ Numbered /\ SentInOrder
  /\ rootSeq # 0 => \E m \in messages : InForce(m)

-----------------------------------------------------------------------------
LEMMA RootOfList ==
  ASSUME NEW list \in SUBSET Users
  PROVE  RootOf(list) \in SUBSET Owners
BY DEF RootOf, Owners

LEMMA OrderInit == HubInit => OrderInv
<1> SUFFICES ASSUME HubInit PROVE OrderInv
  OBVIOUS
<1>1. global \in EarnGlobal
  BY DEF HubInit, Init, EarnGlobal, ZeroRoot
<1>2. hub \in [index : Nat, earners : SUBSET Users]
  BY DEF HubInit
<1>3. IsFiniteSet(messages)
  BY FS_EmptySet DEF HubInit
<1> QED
  BY <1>1, <1>2, <1>3
     DEF HubInit, Init, OrderInv, HubType, Numbered, SentInOrder

\* A message sent with the hub's index, or sent with no root and an index the hub
\* has had, is the last of its order.
LEMMA SendKeeps ==
  ASSUME OrderInv, NEW index \in Nat, NEW root \in SUBSET Owners, Send(index, root),
         index = hub.index \/ (root = ZeroRoot /\ index <= hub.index)
  PROVE  OrderInv'
<1> DEFINE c == Cardinality(messages)
           m0 == [seq |-> 1 + c, index |-> index, root |-> root]
<1>1. c \in Nat
  BY FS_CardinalityType DEF OrderInv, HubType
<1>2. /\ messages' = messages \cup {m0}
      /\ UNCHANGED <<multiplier, global, PORTAL_PROGRAM, hub, rootSeq>>
  BY DEF Send, vars, tokenVars
<1>3. m0 \in Message
  BY <1>1 DEF Message
<1> HIDE DEF c
<1>4. m0 \notin messages
  <2>1. m0.seq = 1 + c
    OBVIOUS
  <2>2. \A m \in messages : m.seq <= c
    BY DEF OrderInv, Numbered, c
  <2> QED
    BY <1>1, <2>1, <2>2
<1>5. Cardinality(messages') = c + 1 /\ IsFiniteSet(messages')
  BY <1>2, <1>4, FS_AddElement DEF OrderInv, HubType, c
<1>6. HubType'
  BY <1>2, <1>3, <1>5 DEF OrderInv, HubType
<1>7. \A m \in messages : m.seq \in Nat /\ m.index \in Nat /\ m.seq <= c
  BY DEF OrderInv, HubType, Message, Numbered, c
<1>8. Numbered'
  BY <1>1, <1>2, <1>5, <1>7 DEF Numbered
<1>9. SentInOrder'
  <2>1. \A m \in messages' : m.index <= hub'.index
    BY <1>2 DEF OrderInv, SentInOrder, HubType
  <2>2. ASSUME NEW m \in messages', NEW n \in messages', m.seq < n.seq, n.root # ZeroRoot
        PROVE  m.index <= n.index
    <3>1. CASE m \in messages /\ n \in messages
      BY <2>2, <3>1 DEF OrderInv, SentInOrder
    <3>2. CASE n = m0
      BY <2>1, <2>2, <3>2, <1>2
    <3>3. CASE m = m0 /\ n \in messages
      BY <1>1, <1>7, <2>2, <3>3
    <3> QED
      BY <1>2, <3>1, <3>2, <3>3
  <2> QED
    BY <2>1, <2>2 DEF SentInOrder
<1>10. rootSeq' # 0 => \E m \in messages' : InForce(m)'
  BY <1>2 DEF OrderInv, InForce, Initialized
<1> QED
  BY <1>6, <1>8, <1>9, <1>10 DEF OrderInv

\* A delivery raises the multiplier to the index of the root it brings into force.
LEMMA DeliverKeeps ==
  ASSUME OrderInv, NEW m \in messages, Deliver(m)
  PROVE  OrderInv'
<1>1. m.index \in Nat /\ m.root \in SUBSET Owners /\ m.seq \in Nat
  BY DEF OrderInv, HubType, Message
<1>2. /\ Initialized /\ multiplier' = Raised(m.index)
      /\ global' = [global EXCEPT !.earner_merkle_root = NextRoot(m.index, m.root)]
      /\ UNCHANGED <<PORTAL_PROGRAM, hub, messages>>
  BY DEF Deliver, PropagateIndex, hubVars
<1>3. NextRoot(m.index, m.root) \in SUBSET Owners
  BY <1>1 DEF NextRoot, OrderInv, HubType, EarnGlobal
<1>4. global' \in EarnGlobal /\ Initialized'
  BY <1>2, <1>3 DEF OrderInv, HubType, EarnGlobal, Initialized
<1>5. multiplier' \in Nat /\ multiplier' >= multiplier /\ multiplier' >= m.index
  BY <1>1, <1>2 DEF Raised, OrderInv, HubType
<1>6. \/ rootSeq' = rootSeq
      \/ rootSeq' = m.seq /\ m.root # ZeroRoot
  BY DEF Deliver
<1>7. HubType'
  BY <1>1, <1>2, <1>4, <1>5, <1>6 DEF OrderInv, HubType
<1>8. Numbered' /\ SentInOrder'
  BY <1>2 DEF OrderInv, Numbered, SentInOrder
<1>9. ASSUME rootSeq' # 0 PROVE \E n \in messages' : InForce(n)'
  <2>1. CASE rootSeq' = rootSeq
    <3>1. PICK n \in messages : InForce(n)
      BY <1>9, <2>1 DEF OrderInv
    <3>2. n.index \in Nat
      BY DEF OrderInv, HubType, Message
    <3>3. n.index <= multiplier'
      BY <3>1, <3>2, <1>5 DEF InForce, OrderInv, HubType
    <3> QED
      BY <1>2, <1>4, <2>1, <3>1, <3>3 DEF InForce
  <2>2. CASE rootSeq' = m.seq /\ m.root # ZeroRoot
    BY <1>1, <1>2, <1>4, <1>5, <2>2 DEF InForce
  <2> QED
    BY <1>6, <2>1, <2>2
<1> QED
  BY <1>7, <1>8, <1>9 DEF OrderInv

\* The program is set up before any root is in force.
LEMMA SetupKeeps == OrderInv /\ Setup => OrderInv'
<1> SUFFICES ASSUME OrderInv, Setup PROVE OrderInv'
  OBVIOUS
<1>1. PICK signer \in Users, index \in IndexScale..hub.index :
        Initialize(signer, index, ZeroRoot)
  BY DEF Setup
<1>2. UNCHANGED <<hub, messages, rootSeq, PORTAL_PROGRAM>>
  BY <1>1 DEF Setup, hubVars, Initialize
<1>3. index \in Nat
  BY DEF OrderInv, HubType
<1>4. multiplier' \in Nat /\ global' \in EarnGlobal
  BY <1>1, <1>3 DEF Initialize, Raised, EarnGlobal, ZeroRoot, OrderInv, HubType
<1>5. rootSeq = 0
  BY <1>1 DEF Initialize, OrderInv, InForce
<1> QED
  BY <1>2, <1>4, <1>5 DEF OrderInv, HubType, Numbered, SentInOrder

\* The hub's index only grows, and what it sent before stays as it was.
LEMMA HubKeeps ==
  ASSUME OrderInv, Accrue \/ (\E list \in EarnerLists : ChangeEarners(list))
  PROVE  OrderInv'
<1>1. UNCHANGED <<multiplier, global, PORTAL_PROGRAM, messages, rootSeq>>
  BY DEF Accrue, ChangeEarners, vars, tokenVars
<1>2. /\ hub' \in [index : Nat, earners : SUBSET Users]
      /\ hub'.index >= hub.index
  BY DEF Accrue, ChangeEarners, OrderInv, HubType
<1>3. \A m \in messages : m.index \in Nat
  BY DEF OrderInv, HubType, Message
<1>4. SentInOrder'
  BY <1>1, <1>2, <1>3 DEF OrderInv, HubType, SentInOrder
<1>5. rootSeq' # 0 => \E m \in messages' : InForce(m)'
  BY <1>1 DEF OrderInv, InForce, Initialized
<1> QED
  BY <1>1, <1>2, <1>4, <1>5 DEF OrderInv, HubType, Numbered

LEMMA OrderInductive == OrderInv /\ [HubNext]_allVars => OrderInv'
<1> SUFFICES ASSUME OrderInv, [HubNext]_allVars PROVE OrderInv'
  OBVIOUS
<1>1. hub.index \in Nat /\ hub.earners \in SUBSET Users
  BY DEF OrderInv, HubType
<1>2. CASE SendFromHub
  BY <1>1, <1>2, RootOfList, SendKeeps DEF SendFromHub
<1>3. CASE SendFromSpoke
  <2>1. PICK index \in IndexScale..hub.index : Send(index, ZeroRoot)
    BY <1>3 DEF SendFromSpoke
  <2>2. index \in Nat /\ index <= hub.index /\ ZeroRoot \in SUBSET Owners
    BY <1>1 DEF ZeroRoot
  <2> QED
    BY <2>1, <2>2, SendKeeps
<1>4. CASE UNCHANGED allVars
  BY <1>4 DEF allVars, vars, tokenVars, OrderInv, HubType, Numbered, SentInOrder,
              InForce, Initialized
<1> QED
  BY <1>2, <1>3, <1>4, DeliverKeeps, SetupKeeps, HubKeeps DEF HubNext

-----------------------------------------------------------------------------
\* A delivery puts an older root back in force only if both messages carry the
\* same index, however many messages there are and however they are delivered.
THEOREM RootRevertsOnlyWithinAnIndex == HubSpec => RootRevertsOnlyAtSameIndex
<1>1. ASSUME OrderInv, [HubNext]_allVars, rootSeq' < rootSeq
      PROVE  \E m, n \in messages : m.seq = rootSeq' /\ n.seq = rootSeq /\ m.index = n.index
  <2>1. rootSeq' # rootSeq
    BY <1>1 DEF OrderInv, HubType
  <2>2. PICK m \in messages : Deliver(m)
    BY <1>1, <2>1 DEF HubNext, Accrue, ChangeEarners, SendFromHub, SendFromSpoke, Send,
                      Setup, allVars
  <2>3. rootSeq' = m.seq /\ m.root # ZeroRoot /\ m.index >= multiplier
    BY <2>1, <2>2 DEF Deliver, IsFresh
  <2>4. m.seq \in Nat /\ rootSeq # 0
    BY <1>1, <2>3 DEF OrderInv, HubType, Message
  <2>5. PICK n \in messages : InForce(n)
    BY <1>1, <2>4 DEF OrderInv
  <2>6. m.index <= n.index
    BY <1>1, <2>3, <2>5 DEF OrderInv, SentInOrder, InForce
  <2>7. m.index \in Nat /\ n.index \in Nat /\ multiplier \in Nat
    BY <1>1 DEF OrderInv, HubType, Message
  <2>8. m.index = n.index
    BY <2>3, <2>5, <2>6, <2>7 DEF InForce
  <2> QED
    BY <2>3, <2>5, <2>8 DEF InForce
<1>2. OrderInv /\ [HubNext]_allVars =>
        [rootSeq' < rootSeq =>
           \E m, n \in messages :
             /\ m.seq = rootSeq' /\ n.seq = rootSeq
             /\ m.index = n.index]_allVars
  BY <1>1
<1> QED
  BY OrderInit, OrderInductive, <1>2, PTL DEF HubSpec, RootRevertsOnlyAtSameIndex
=============================================================================
