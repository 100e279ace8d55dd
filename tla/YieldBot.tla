-------------------------------- MODULE YieldBot --------------------------------
(***************************************************************************)
(* Runs of the yield bot (services/yield-bot/main.ts) for one extension of *)
(* the Crank variant: check the database, build a claim for each earner,   *)
(* simulate them, split them into transactions, send and confirm.  Around  *)
(* it, external: the index feed, token transfers, the indexer that fills   *)
(* the database, the extension program, and a network that executes sent   *)
(* transactions late, in any order, or never.                              *)
(***************************************************************************)
EXTENDS ClaimComputation, FiniteSets

CONSTANTS
  Earners,          \* token accounts with an earner account
  Other,            \* a token account without
  IndexSteps,       \* the indices of the feed, in order
  Principal,        \* M held by the vault; all of it is issued at first
  BatchSize,        \* instructions per transaction, 10 in the code
  Gaps,             \* seconds that can pass from a transaction to the next
  MaxRuns,          \* bound: runs of the bot
  MaxTransfers,     \* bound: transfers by users
  Unit              \* the fractions of a token what is due is counted in

Accounts == Earners \cup {Other}

ASSUME BotAssumption ==
  /\ Other \notin Earners /\ IsFiniteSet(Earners)
  /\ IndexSteps \in Seq(Nat \ {0}) /\ IndexSteps # <<>>
  /\ \A k \in 2..Len(IndexSteps) : IndexSteps[k - 1] <= IndexSteps[k]
  /\ BatchSize \in Nat \ {0} /\ Principal \in Nat
  /\ Unit \in Nat \ {0} /\ \A k \in 1..Len(IndexSteps) : Unit % IndexSteps[k] = 0
  /\ Gaps \subseteq Nat /\ MaxRuns \in Nat /\ MaxTransfers \in Nat

VARIABLES
  history,      \* the transactions of the chain; an update notes who held what
  clock,
  balance,
  global,       \* the extension's index and the time of its update, when last synced
  earner,       \* lastClaimIndex and lastClaimTimestamp of each earner
  indexed,      \* how much of history is in the database
  transfers,
  runs,
  pc,           \* where the bot is in distributeYield
  auth,         \* the extension's index as loaded at the start of the run
  todo,         \* earners as read, for which no claim was built yet
  ixs,          \* instructions built
  rewards,      \* what the simulated claims pay together, until it is validated
  txns,         \* transactions of all runs
  returnData,   \* the transactions of this run whose signature was kept
  crossed       \* ghost: claims could still execute when the index was updated or
                \* the claims of another run were simulated

chainVars == <<history, clock, balance, global, earner, indexed>>
botVars == <<runs, pc, auth, todo, ixs, rewards, returnData>>
vars == <<chainVars, botVars, transfers, txns, crossed>>

db == SubSeq(history, 1, indexed)
mIndex == currentIndex(history)
Total(held) == MapThenSumSet(LAMBDA a : held[a], Accounts)
Row(index, ts, changed, held) ==
  [ts |-> ts, index |-> index, post |-> [a \in changed |-> held[a]], held |-> held]

Init ==
  \E held \in [Accounts -> 0..Principal * IndexSteps[1]] :
    /\ Total(held) = Principal * IndexSteps[1]
    /\ balance = held
    /\ history = <<Row(IndexSteps[1], 1, Accounts, held)>>
    /\ clock = 1 /\ indexed = 1 /\ transfers = 0
    /\ global = [index |-> IndexSteps[1], timestamp |-> 1]
    /\ earner = [e \in Earners |-> [lastClaimIndex |-> IndexSteps[1], lastClaimTimestamp |-> 1]]
    /\ runs = 0 /\ pc = "idle" /\ auth = 0
    /\ todo = <<>> /\ ixs = <<>> /\ rewards = 0 /\ txns = <<>> /\ returnData = {}
    /\ crossed = FALSE

-----------------------------------------------------------------------------
(* The chain and the indexer.                                               *)

\* A transaction that updates the index or changes balances takes its place.
Record(index, changed, held) ==
  \E gap \in Gaps :
    /\ history' = Append(history, Row(index, clock + gap, changed, held))
    /\ clock' = clock + gap
    /\ balance' = held
    /\ UNCHANGED indexed

InFlight == {i \in 1..Len(txns) : txns[i].status = "sent"}
Unsent == {i \in 1..Len(txns) : txns[i].status = "built"}

\* Claims that were simulated and not executed yet.
Pending == pc \in {"collateral", "build"} \/ Unsent # {} \/ InFlight # {}

UpdateIndex ==
  LET updates == Cardinality(allIndexUpdates(history))
  IN  /\ updates < Len(IndexSteps)
      /\ Record(IndexSteps[updates + 1], {}, balance)
      /\ crossed' = (crossed \/ Pending)
      /\ UNCHANGED <<global, earner, botVars, transfers, txns>>

Transfer(from, to) ==
  /\ transfers < MaxTransfers /\ from # to
  /\ \E amount \in 1..balance[from] :
       Record(0, {from, to},
              [balance EXCEPT ![from] = @ - amount, ![to] = @ + amount])
  /\ transfers' = transfers + 1
  /\ UNCHANGED <<global, earner, botVars, txns, crossed>>

Index ==
  /\ indexed < Len(history)
  /\ indexed' = indexed + 1
  /\ UNCHANGED <<history, clock, balance, global, earner, botVars, transfers, txns, crossed>>

\* The extension program: sync takes over the newest index, a claim pays the
\* interest on the claimed balance since the earner's last claim.
ExecuteIx(state, ix) ==
  IF ix.op = "sync"
  THEN [state EXCEPT !.global = [index |-> mIndex.index, timestamp |-> mIndex.ts]]
  ELSE LET since == state.earner[ix.earner].lastClaimIndex
       IN  [state EXCEPT
             !.ok = @ /\ since < state.global.index,
             !.balance[ix.earner] = @ + (ix.balance * state.global.index) \div since - ix.balance,
             !.earner[ix.earner] = [lastClaimIndex |-> state.global.index,
                                    lastClaimTimestamp |-> state.global.timestamp]]
\* A transaction is executed whole, or fails and changes nothing.
Executed(list) ==
  LET state[k \in 0..Len(list)] ==
        IF k = 0 THEN [global |-> global, earner |-> earner, balance |-> balance, ok |-> TRUE]
        ELSE ExecuteIx(state[k - 1], list[k])
  IN  state[Len(list)]

Over == [ixs |-> <<>>, status |-> "over"]
Land(i) ==
  LET after == Executed(txns[i].ixs)
  IN  /\ i \in InFlight
      /\ IF after.ok
         THEN /\ Record(0, {a \in Accounts : after.balance[a] # balance[a]}, after.balance)
              /\ global' = after.global /\ earner' = after.earner
         ELSE UNCHANGED chainVars
      /\ txns' = [txns EXCEPT ![i] = Over]
      /\ UNCHANGED <<botVars, transfers, crossed>>

Drop(i) ==
  /\ i \in InFlight
  /\ txns' = [txns EXCEPT ![i] = Over]
  /\ UNCHANGED <<chainVars, botVars, transfers, crossed>>

-----------------------------------------------------------------------------
(* distributeYield and buildAndSendTransaction, from await to await.        *)

Goto(to) == pc' = to /\ UNCHANGED runs

\* Success or failure, the run ends.
Report ==
  /\ pc' = "idle"
  /\ auth' = 0 /\ todo' = <<>> /\ ixs' = <<>> /\ rewards' = 0 /\ returnData' = {}
  /\ UNCHANGED runs

Load ==
  /\ pc = "idle" /\ runs < MaxRuns
  /\ pc' = "validate" /\ runs' = runs + 1
  /\ auth' = global.index
  /\ ixs' = <<[op |-> "sync"]>>
  /\ UNCHANGED <<chainVars, todo, rewards, returnData, transfers, txns, crossed>>

IsBehind == currentIndex(db).index < auth
ValidateDatabaseData ==
  /\ pc = "validate"
  /\ IF IsBehind THEN Report
     ELSE Goto("earners") /\ UNCHANGED <<auth, todo, ixs, rewards, returnData>>
  /\ UNCHANGED <<chainVars, transfers, txns, crossed>>

GetAllEarners ==
  /\ pc = "earners"
  /\ todo' \in {[i \in DOMAIN s |-> [earner |-> s[i], data |-> earner[s[i]]]] :
                 s \in SetToSeqs(Earners)}
  /\ Goto("claims")
  /\ UNCHANGED <<chainVars, auth, ixs, rewards, returnData, transfers, txns, crossed>>

\* The claims are simulated only if there are any.
Claims == Tail(ixs)

NextEarner(built) ==
  /\ ixs' = built /\ todo' = Tail(todo)
  /\ Goto("claims")
  /\ UNCHANGED <<auth, rewards, returnData>>
BuildClaim ==
  /\ pc = "claims" /\ todo # <<>>
  /\ LET next == Head(todo)
         claim == ClaimBalance(db, next.earner, next.data)
     IN  IF AlreadyClaimed(db, next.data)
         THEN NextEarner(ixs)
         ELSE IF Refused(db, next.earner, next.data) THEN Report
         ELSE NextEarner(IF claim <= 0 THEN ixs
                   ELSE Append(ixs, [op |-> "claim", earner |-> next.earner, balance |-> claim,
                                      from |-> next.data.lastClaimIndex,
                                      to |-> currentIndex(db).index]))
  /\ UNCHANGED <<chainVars, transfers, txns, crossed>>

Simulate ==
  /\ pc = "claims" /\ todo = <<>>
  /\ LET simulated == Executed(ixs)
     IN  IF Claims # <<>> /\ ~simulated.ok
         THEN Report /\ UNCHANGED crossed
         ELSE /\ IF Claims = <<>> THEN Goto("build") /\ UNCHANGED rewards
                 ELSE /\ Goto("collateral")
                      /\ rewards' = Total(simulated.balance) - Total(balance)
              /\ crossed' = (crossed \/ Pending)
              /\ UNCHANGED <<auth, todo, ixs, returnData>>
  /\ UNCHANGED <<chainVars, transfers, txns>>

\* The supply is read after the simulation, and the index from the database.
NeverExceeds == FALSE
ExceedsCollateral == Total(balance) + rewards > Principal * currentIndex(db).index
ValidateClaims ==
  /\ pc = "collateral"
  /\ IF ExceedsCollateral THEN Report
     ELSE Goto("build") /\ rewards' = 0 /\ UNCHANGED <<auth, todo, ixs, returnData>>
  /\ UNCHANGED <<chainVars, transfers, txns, crossed>>

Batches ==
  [k \in 1..(Len(ixs) + BatchSize - 1) \div BatchSize |->
     SubSeq(ixs, (k - 1) * BatchSize + 1, Min({k * BatchSize, Len(ixs)}))]
BuildTransactions ==
  /\ pc = "build"
  /\ txns' = txns \o [k \in DOMAIN Batches |-> [ixs |-> Batches[k], status |-> "built"]]
  /\ Goto("send")
  /\ UNCHANGED <<chainVars, auth, todo, ixs, rewards, returnData, transfers, crossed>>

\* Three tries, of which any may throw; what they accept is one transaction.
Send ==
  /\ pc = "send" /\ Unsent # {}
  /\ LET i == Min(Unsent)
     IN  \E accepted \in SUBSET (0..2) :
           /\ txns' = [txns EXCEPT ![i] = IF accepted = {} THEN Over
                                          ELSE [@ EXCEPT !.status = "sent"]]
           /\ returnData' = returnData \cup IF 0 \in accepted THEN {i} ELSE {}
  /\ Goto("send")
  /\ UNCHANGED <<chainVars, auth, todo, ixs, rewards, transfers, crossed>>

AllSent ==
  /\ pc = "send" /\ Unsent = {}
  /\ Goto("confirm")
  /\ UNCHANGED <<chainVars, auth, todo, ixs, rewards, returnData, transfers, txns, crossed>>

\* A confirmation waits until the transaction is executed, failed or not, or
\* expires; then it throws, and the run ends all the same.
Confirm ==
  /\ pc = "confirm" /\ \A i \in returnData : txns[i] = Over
  /\ Report
  /\ UNCHANGED <<chainVars, transfers, txns, crossed>>

\* A call to the node or the database can throw wherever there is one.
Throw ==
  /\ pc \in {"validate", "earners", "claims", "collateral", "build", "confirm"}
  /\ Report
  /\ UNCHANGED <<chainVars, transfers, txns, crossed>>

Bot ==
  \/ ValidateDatabaseData \/ GetAllEarners \/ BuildClaim \/ Simulate
  \/ ValidateClaims \/ BuildTransactions \/ Send \/ AllSent \/ Confirm

Next ==
  \/ Load \/ Bot \/ Throw
  \/ UpdateIndex \/ Index
  \/ \E from, to \in Accounts : Transfer(from, to)
  \/ \E i \in 1..Len(txns) : Land(i) \/ Drop(i)

Spec == Init /\ [][Next]_vars

-----------------------------------------------------------------------------
\* The update k raised the index above from, up to to; the update before it.
Within(k, from, to) == from < history[k].index /\ history[k].index <= to
Before(k) == Max({j \in allIndexUpdates(history) : j < k})
Part(index) == Unit \div index

\* The first n of the terms, added up.
SumTo(term, n) ==
  LET sum[k \in 0..n] == IF k = 0 THEN 0 ELSE sum[k - 1] + term[k]
  IN  sum[n]

\* What a balance held at each update earned from one index to a later one: at
\* each update its part of the growth, valued at the last.  Exact, in units.
Earned(account, from, to) ==
  [k \in 1..Len(history) |->
     IF Within(k, from, to)
     THEN history[k].held[account] * (to * Part(history[Before(k)].index)
                                        - to * Part(history[k].index))
     ELSE 0]
Accrued(account, from, to) == SumTo(Earned(account, from, to), Len(history))

\* What rounding may cost: less than a token at each update that does not multiply
\* the index by an integer, less than a token of claimed balance, and less than a
\* token when that is paid, unless the indices divide.
Rounded(from, to) ==
  [k \in 1..Len(history) |->
     IF Within(k, from, to) /\ history[k].index % history[Before(k)].index # 0
     THEN to * Part(history[k].index)
     ELSE 0]
LostAtUpdates(from, to) == SumTo(Rounded(from, to), Len(history))
Lost(from, to) ==
  LostAtUpdates(from, to) + (to - from) * Part(from) + IF to % from = 0 THEN 0 ELSE Unit

\* Every index update has a second of its own.
UpdatesApart ==
  \A k \in allIndexUpdates(history) : \A j \in 1..Len(history) :
    history[j].ts = history[k].ts => j = k

\* A claim executed at the indices it was computed for pays what the earner's
\* balance accrued between them, no more, and less only by what rounding costs:
\* nothing is paid for a time or a balance that was not held, paid twice, or
\* lost, however far the database lags, whatever is updated or transferred during
\* the run, and whichever transactions of this run or an earlier one are late,
\* dropped or refused.  The walk takes updates of one second as one.
ClaimsPayAccrued ==
  [][\A i \in InFlight : \A k \in DOMAIN txns[i].ixs :
       LET ix == txns[i].ixs[k]
           due == Accrued(ix.earner, ix.from, ix.to)
           paid == (balance'[ix.earner] - balance[ix.earner]) * Unit
       IN  ix.op = "claim" /\ earner' # earner /\ txns'[i] # txns[i] /\ UpdatesApart
             /\ earner[ix.earner].lastClaimIndex = ix.from
             /\ earner'[ix.earner].lastClaimIndex = ix.to
           => paid <= due /\ paid > due - Lost(ix.from, ix.to)]_vars

\* Whatever was claimed on whatever data, the extension issues no more than its
\* vault is worth: the bot's check alone sees to it ("Claim amount exceeds max
\* claimable rewards"), whatever the program itself would refuse, in whatever
\* order the batches of a run execute and whichever of them do not, and whatever is
\* transferred in between.  It takes that the index stays, and that no other
\* run simulates claims, until the claims of a run are executed or expired: a claim
\* is paid at the index of its execution, not at the one it was simulated at.
Collateralised == ~crossed => Total(balance) <= Principal * mIndex.index
=============================================================================
