---------------------------- MODULE CrossChainIndex ----------------------------
(***************************************************************************)
(* The earn program at the end of its message path.  On Ethereum the hub   *)
(* accrues the M index and keeps the earner list; it sends both, and other *)
(* chains (spokes) forward an index they know with no root.  The bridge    *)
(* keeps every message and hands it to the portal program in any order,    *)
(* any number of times, or never; the portal calls PropagateIndex.         *)
(*                                                                         *)
(* The hub, the spokes, the bridge and the portal are external: what is    *)
(* modelled is what propagate_index.rs and its comments take from them.    *)
(***************************************************************************)
EXTENDS EarnProgram, FiniteSets

CONSTANTS
  EarnerLists,      \* the earner lists the hub can hold, as sets of users
  MaxIndex,         \* bound: the hub stops accruing at this index
  MaxMessages       \* bound: no more than this many messages are sent

ASSUME HubAssumption ==
  /\ EarnerLists \subseteq SUBSET Users /\ EarnerLists # {}
  /\ MaxIndex \in Nat /\ MaxMessages \in Nat
  /\ IndexScale..MaxIndex \subseteq Indices

VARIABLES
  hub,        \* the hub's index and earner list
  messages,   \* everything sent so far, numbered in the order of sending
  rootSeq     \* history: the number of the message whose root is in force

hubVars == <<hub, messages>>
allVars == <<vars, hub, messages, rootSeq>>

Message == [seq : Nat, index : Nat, root : SUBSET Owners]

\* The tree of an empty list has one leaf, the default key.
RootOf(list) == IF list = {} THEN {DefaultKey} ELSE list

\* create-m-mint gives the mint multiplier 1.0, below any index of the hub.
HubInit ==
  /\ Init
  /\ multiplier = IndexScale
  /\ hub \in [index : {IndexScale}, earners : EarnerLists]
  /\ messages = {}
  /\ rootSeq = 0

Accrue ==
  /\ hub.index < MaxIndex
  /\ hub' = [hub EXCEPT !.index = @ + 1]
  /\ UNCHANGED <<vars, messages, rootSeq>>

ChangeEarners(list) ==
  /\ list # hub.earners
  /\ hub' = [hub EXCEPT !.earners = list]
  /\ UNCHANGED <<vars, messages, rootSeq>>

Send(index, root) ==
  LET n == 1 + Cardinality(messages)
  IN  /\ n <= MaxMessages
      /\ messages' = messages \cup {[seq |-> n, index |-> index, root |-> root]}
      /\ UNCHANGED <<vars, hub, rootSeq>>

SendFromHub == Send(hub.index, RootOf(hub.earners))

SendFromSpoke ==
  \E index \in IndexScale..hub.index : Send(index, ZeroRoot)

\* The portal hands a message to the earn program.
Deliver(m) ==
  /\ PropagateIndex(global.portal_authority, m.index, m.root)
  /\ rootSeq' = IF IsFresh(m.index) /\ m.root # ZeroRoot THEN m.seq ELSE rootSeq
  /\ UNCHANGED hubVars

\* initialize-earn reads the index from the hub; its transaction may be signed
\* by a multisig, and so executed when the hub has moved on.
Setup ==
  /\ ~Migrate
  /\ \E signer \in Users, current_index \in IndexScale..hub.index :
       Initialize(signer, current_index, ZeroRoot)
  /\ UNCHANGED <<hubVars, rootSeq>>

HubNext ==
  \/ Accrue
  \/ \E list \in EarnerLists : ChangeEarners(list)
  \/ SendFromHub
  \/ SendFromSpoke
  \/ \E m \in messages : Deliver(m)
  \/ Setup

HubSpec == HubInit /\ [][HubNext]_allVars

\* The admin initialises the program once, and the bridge delivers every
\* message at least once.
PossibleMessages == [seq : 1..MaxMessages, index : IndexScale..MaxIndex,
                     root : {ZeroRoot} \cup {RootOf(list) : list \in EarnerLists}]
Fairness ==
  /\ WF_allVars(Setup)
  /\ \A m \in PossibleMessages : WF_allVars(m \in messages /\ Deliver(m))
FairHubSpec == HubSpec /\ Fairness

-----------------------------------------------------------------------------
\* A late message can put an older root back in force only if it carries the
\* very index of the newer one: the index comparison of PropagateIndex stops
\* every other stale root.
RootRevertsOnlyAtSameIndex ==
  [][rootSeq' < rootSeq =>
       \E m, n \in messages :
         /\ m.seq = rootSeq' /\ n.seq = rootSeq
         /\ m.index = n.index]_allVars

\* Once a message is sent, the multiplier reaches its index, whatever the order
\* of delivery and whether or not it carries a root.
IndexEventuallyPropagates ==
  \A m \in PossibleMessages : m \in messages ~> Initialized /\ multiplier >= m.index

\* The last root the hub sent is the one in force, unless the hub sent another
\* list at its index or PropagateIndex has seen a larger index without a root.
NewestRootInForce ==
  \A m \in messages :
    /\ m.root # ZeroRoot
    /\ \A n \in messages : n.seq > m.seq => n.root = ZeroRoot
    /\ \A n \in messages : n.index = m.index => n.root \in {ZeroRoot, m.root}
    /\ \A z \in seen : z.root = ZeroRoot => z.index <= m.index
    => global.earner_merkle_root = m.root

\* Once the hub stops sending, its last root comes into force and stays there,
\* in the cases that NewestRootInForce names.
RootEventuallyPropagates == <>[]NewestRootInForce

\* The README of the earn program: PropagateIndex is "monotonic; stale
\* cross-chain updates are ignored", so a root never gives way to an older one.
StaleRootIsIgnored ==
  [][rootSeq' < rootSeq =>
       global'.earner_merkle_root = global.earner_merkle_root]_allVars
=============================================================================
