---------------------------- MODULE ClaimComputation ----------------------------
(***************************************************************************)
(* The yield an earner of an extension has pending, computed from the      *)
(* indexed database (sdk/src/earn_auth.ts, sdk/src/db.ts): a walk over the *)
(* index updates since the earner's last claim and the balance held at     *)
(* each.  The database holds the indexed transactions in the order of      *)
(* their blocks: [ts, index, post], index 0 if the transaction updates no  *)
(* index, post the balances it leaves.  A query's result is the set of the *)
(* positions of its rows, oldest first.                                    *)
(***************************************************************************)
EXTENDS Integers, SequencesExt

allIndexUpdates(db) == {k \in 1..Len(db) : db[k].index # 0}

indexUpdates(db, fromTime, toTime) ==
  {k \in allIndexUpdates(db) : db[k].ts >= fromTime /\ db[k].ts < toTime}

currentIndex(db) == db[Max(allIndexUpdates(db))]

BalanceNow(db, account, ts) ==
  LET rows == {k \in 1..Len(db) : account \in DOMAIN db[k].post}
  IN  IF rows = {} THEN 0 ELSE db[Max(rows)].post[account]
\* The balance left by the last transaction before ts; 0 if there is none.
getBalanceAt(db, account, ts) ==
  LET rows == {k \in 1..Len(db) : account \in DOMAIN db[k].post /\ db[k].ts < ts}
  IN  IF rows = {} THEN 0 ELSE db[Max(rows)].post[account]

\* What a step of the walk adds to the yield: interest on yield and balance.
Compounded(claimYield, balance, current, last) ==
  ((claimYield + balance) * current.index) \div last.index - balance

\* Updates of one second are taken as one; the walk refuses updates that go back.
WalkStep(db, account, walk, current) ==
  IF current.ts = walk.last.ts THEN walk
  ELSE [last |-> current,
        refused |-> \/ walk.refused
                    \/ current.index < walk.last.index \/ current.ts < walk.last.ts,
        claimYield |-> Compounded(walk.claimYield,
                         getBalanceAt(db, account, current.ts), current, walk.last)]
Walk(db, account, steps) ==
  LET walk[k \in 0..Len(db)] ==
        IF k = 0 THEN [last |-> db[Min(steps)], refused |-> FALSE, claimYield |-> 0]
        ELSE IF k \in steps THEN WalkStep(db, account, walk[k - 1], db[k])
        ELSE walk[k - 1]
  IN  IF steps = {} THEN [refused |-> FALSE, claimYield |-> 0] ELSE walk[Len(db)]

\* The walk ends at the latest index, that update included.
Steps(db, earner) ==
  indexUpdates(db, earner.lastClaimTimestamp, currentIndex(db).ts + 1)

\* The balance to claim for: the one that earns, from the last claim's index to
\* the latest, the yield found.  If it is not positive there is nothing to claim.
ClaimBalance(db, account, earner) ==
  (Walk(db, account, Steps(db, earner)).claimYield * earner.lastClaimIndex)
    \div (currentIndex(db).index - earner.lastClaimIndex)

Refused(db, account, earner) == Walk(db, account, Steps(db, earner)).refused
AlreadyClaimed(db, earner) == earner.lastClaimIndex >= currentIndex(db).index
=============================================================================
