---------------------------- MODULE BotProcessProofs ----------------------------
(***************************************************************************)
(* Machine-checked proofs about BotProcess, for any extensions, batch size *)
(* and numbers of claims and of proposals by others.                       *)
(***************************************************************************)
EXTENDS BotProcess, WellFoundedInduction, TLAPS

USE ProcessAssumption

\* A set of natural numbers has a least element.
LEMMA LeastElement ==
  ASSUME NEW T, T \subseteq Nat, T # {}
  PROVE  Min(T) \in T
<1>1. PICK x \in T : \A y \in T : ~ (<<y, x>> \in OpToRel(<, Nat))
  BY NatLessThanWellFounded, WFMin
<1>2. \A y \in T : ~ (y < x)
  BY <1>1 DEF OpToRel
<1>3. \A y \in T : x <= y
  BY <1>2
<1>. QED  BY <1>3 DEF Min

LEMMA FunctionIsSequence ==
  ASSUME NEW S, NEW n \in Nat, NEW f, f = [j \in 1..n |-> f[j]], \A j \in 1..n : f[j] \in S
  PROVE  f \in Seq(S) /\ Len(f) = n
OBVIOUS

LEMMA Singleton ==
  ASSUME NEW S, NEW x \in S
  PROVE  <<x>> \in Seq(S)
<1>1. <<x>> = Append(<<>>, x) /\ <<>> \in Seq(S)
  OBVIOUS
<1>. QED  BY <1>1

-----------------------------------------------------------------------------
(* The inductive invariant.                                                  *)

Serving == {"load", "build", "batch", "send", "confirm"}
Signers == {"keypair", "turnkey", "default"}
Options == [signer : BOOLEAN, turnkey : BOOLEAN, squads : BOOLEAN,
            dryRun : BOOLEAN, pubkey : Signers]
Names == {EXTENSIONS[i] : i \in 1..Len(EXTENSIONS)} \cup {"startup"}
Statuses == {"built", "returned", "sent", "dropped", "landed", "failed"}
Txn == [ext : Names, status : Statuses, payer : Signers, signedBy : Signers, proposal : Nat]
Log == [name : Names, success : BOOLEAN, link : Nat]

BotType ==
  /\ pc \in Serving \cup {"start", "balance", "report", "exited"}
  /\ multisig \in Nat
  /\ ext \in Nat
  /\ txns \in Seq(Txn)
  /\ returnData \in Seq(1..Len(txns))
  /\ yieldLogs \in Seq(Log)

\* The signer and the fee payer are those of the environment.
OptionsInv ==
  pc \in Serving \cup {"balance"} =>
    /\ options \in Options
    /\ options.pubkey = signerPubkey(options.signer, options.turnkey)

\* One entry has been noted for each extension before the one being served.
LogsInv ==
  /\ pc \in {"start", "balance"} => yieldLogs = <<>> /\ ext = 1
  /\ pc \in Serving => ext <= Len(EXTENSIONS) /\ Len(yieldLogs) = ext - 1
  /\ pc \in {"report", "exited"} =>
       \/ Len(yieldLogs) = 1 /\ yieldLogs[1].name = "startup"
       \/ Len(yieldLogs) = Len(EXTENSIONS)
          /\ \A i \in 1..Len(yieldLogs) : yieldLogs[i].name = EXTENSIONS[i]
  /\ pc \in Serving => \A i \in 1..Len(yieldLogs) : yieldLogs[i].name = EXTENSIONS[i]

\* Before the report there is at most the warning.
MessageInv ==
  /\ pc \in {"start", "balance"} => slackMessage = <<>>
  /\ pc # "exited" => slackMessage \in {<<>>, <<Warning>>}

\* What is not yet sent, and what a signature was kept of, is of the extension
\* being served.
OwnTransactions ==
  /\ \A i \in 1..Len(txns) : txns[i].status = "built" => pc \in Serving /\ txns[i].ext = EXTENSIONS[ext]
  /\ \A i \in 1..Len(returnData) : pc \in Serving /\ txns[returnData[i]].ext = EXTENSIONS[ext]

Links ==
  \A i \in 1..Len(yieldLogs) :
    yieldLogs[i].link # 0 =>
      /\ yieldLogs[i].link \in 1..Len(txns)
      /\ txns[yieldLogs[i].link].ext = yieldLogs[i].name
      /\ Ended(txns[yieldLogs[i].link])

Payers == \A i \in 1..Len(txns) : txns[i].payer = txns[i].signedBy

BotInv ==
  /\ BotType /\ OptionsInv /\ LogsInv /\ MessageInv /\ OwnTransactions /\ Links /\ Payers

-----------------------------------------------------------------------------
\* The names of the variables that the invariant depends on.
state == <<pc, multisig, ext, txns, returnData, yieldLogs, slackMessage, options>>

\* The parts of the invariant are about nothing else.
LEMMA SameState == BotInv /\ UNCHANGED state => BotInv'
BY DEF BotInv, BotType, OptionsInv, LogsInv, MessageInv, OwnTransactions, Links, Payers, state, Ended

\* A serving process that goes on with the same extension keeps the invariant.
LEMMA GoesOn ==
  ASSUME BotInv, pc \in Serving, pc' \in Serving,
         UNCHANGED <<multisig, options, ext, txns, returnData, yieldLogs, slackMessage>>
  PROVE  BotInv'
<1>1. BotType'
  BY DEF BotInv, BotType
<1>2. OptionsInv' /\ LogsInv' /\ MessageInv' /\ Links' /\ Payers'
  BY DEF BotInv, OptionsInv, LogsInv, MessageInv, Links, Payers, Serving, Ended
<1>3. OwnTransactions'
  BY DEF BotInv, OwnTransactions
<1>. QED  BY <1>1, <1>2, <1>3 DEF BotInv

\* Transactions change their status, but one that has ended stays ended.
Progress(old, new) ==
  /\ new.ext = old.ext /\ new.payer = old.payer /\ new.signedBy = old.signedBy
  /\ Ended(old) => Ended(new)
  /\ new.status = "built" => old.status = "built"

\* Indexes of transactions of the extension being served.
Own(data) ==
  /\ data \in Seq(1..Len(txns))
  /\ \A i \in 1..Len(data) : pc \in Serving /\ txns[data[i]].ext = EXTENSIONS[ext]

LEMMA TransactionsProgress ==
  ASSUME BotInv, multisig' \in Nat,
         txns' \in Seq(Txn), Len(txns') = Len(txns),
         \A i \in 1..Len(txns) : Progress(txns[i], txns'[i]),
         Own(returnData'),
         UNCHANGED <<pc, options, ext, yieldLogs, slackMessage>>
  PROVE  BotInv'
<1>1. BotType'
  BY DEF BotInv, BotType, Own
<1>2. OptionsInv' /\ LogsInv' /\ MessageInv'
  BY DEF BotInv, OptionsInv, LogsInv, MessageInv
<1>3. OwnTransactions'
  <2>1. \A i \in 1..Len(returnData') : returnData'[i] \in 1..Len(txns)
    BY DEF Own
  <2>2. \A i \in 1..Len(txns) : /\ txns'[i].ext = txns[i].ext
                                /\ txns'[i].status = "built" => txns[i].status = "built"
    BY DEF Progress
  <2>. QED  BY <2>1, <2>2 DEF BotInv, OwnTransactions, Own
<1>4. Links' /\ Payers'
  BY DEF BotInv, Links, Payers, Progress
<1>. QED  BY <1>1, <1>2, <1>3, <1>4 DEF BotInv

\* The entry of the extension being served is noted, with a link to a
\* transaction of its own that has ended, and the next one's turn comes.
LEMMA NotedStep ==
  ASSUME BotInv, pc \in Serving, NEW success \in BOOLEAN, NEW link \in Nat,
         Noted(success, link), NextExtension, UNCHANGED <<multisig, slackMessage>>,
         link # 0 => /\ link \in 1..Len(txns)
                     /\ txns[link].ext = EXTENSIONS[ext]
                     /\ Ended(txns[link])
  PROVE  BotInv'
<1>. DEFINE entry == Entry(EXTENSIONS[ext], success, link)
<1>0. /\ ext \in 1..Len(EXTENSIONS) /\ ext' = ext + 1 /\ Len(yieldLogs) = ext - 1
      /\ pc' = IF ext = Len(EXTENSIONS) THEN "report" ELSE "load"
      /\ EXTENSIONS[ext] \in Names
  BY DEF BotInv, BotType, LogsInv, Noted, NextExtension, Serving, Names
<1>1. entry \in Log /\ entry.name = EXTENSIONS[ext] /\ entry.link = link
  BY <1>0 DEF Entry, Log
<1>2. /\ yieldLogs' = Append(yieldLogs, entry) /\ yieldLogs \in Seq(Log)
      /\ returnData' = <<>> /\ UNCHANGED options
      /\ txns' = [i \in DOMAIN txns |-> IF txns[i].status = "built"
                                    THEN [txns[i] EXCEPT !.status = "dropped"] ELSE txns[i]]
      /\ txns \in Seq(Txn)
  BY DEF Noted, BotInv, BotType
<1>. HIDE DEF entry
<1>3. /\ yieldLogs' \in Seq(Log) /\ Len(yieldLogs') = ext
      /\ yieldLogs'[ext] = entry
      /\ \A i \in 1..ext-1 : yieldLogs'[i] = yieldLogs[i]
  BY <1>0, <1>1, <1>2
<1>4. /\ txns' \in Seq(Txn) /\ Len(txns') = Len(txns)
      /\ \A i \in 1..Len(txns) : Progress(txns[i], txns'[i]) /\ txns'[i].status # "built"
  <2>1. DOMAIN txns = 1..Len(txns) /\ Len(txns) \in Nat
    BY <1>2
  <2>2. \A i \in 1..Len(txns) : txns'[i] \in Txn
    <3>. SUFFICES ASSUME NEW i \in 1..Len(txns)  PROVE txns'[i] \in Txn
      OBVIOUS
    <3>1. txns[i] \in Txn
      BY <1>2
    <3>2. txns'[i] \in {txns[i], [txns[i] EXCEPT !.status = "dropped"]}
      BY <1>2, <2>1
    <3>. QED  BY <3>1, <3>2 DEF Txn, Statuses
  <2>3. txns' \in Seq(Txn) /\ Len(txns') = Len(txns)
    BY <1>2, <2>1, <2>2
  <2>4. \A i \in 1..Len(txns) : Progress(txns[i], txns'[i]) /\ txns'[i].status # "built"
    BY <1>2, <2>1 DEF Txn, Progress, Ended, Statuses
  <2>. QED  BY <2>3, <2>4
<1>5. BotType'
  BY <1>0, <1>2, <1>3, <1>4 DEF BotInv, BotType, Serving
<1>6. OptionsInv'
  BY <1>0, <1>2 DEF BotInv, OptionsInv, Serving
<1>7. LogsInv'
  <2>1. \A i \in 1..ext : yieldLogs'[i].name = EXTENSIONS[i]
    BY <1>0, <1>1, <1>3 DEF BotInv, LogsInv
  <2>. QED  BY <1>0, <1>3, <2>1 DEF LogsInv, Serving
<1>8. MessageInv'
  BY <1>0 DEF BotInv, MessageInv, Serving
<1>9. OwnTransactions'
  BY <1>2, <1>4 DEF OwnTransactions
<1>10. Links'
  <2>1. \A i \in 1..Len(txns) : Ended(txns[i]) => Ended(txns'[i])
    BY <1>4 DEF Progress
  <2>2. \A i \in 1..Len(txns) : txns'[i].ext = txns[i].ext
    BY <1>4 DEF Progress
  <2>3. \A i \in 1..ext-1 : yieldLogs[i].link # 0 =>
            /\ yieldLogs[i].link \in 1..Len(txns)
            /\ txns[yieldLogs[i].link].ext = yieldLogs[i].name
            /\ Ended(txns[yieldLogs[i].link])
    BY <1>0 DEF BotInv, Links
  <2>4. \A i \in 1..ext : yieldLogs'[i].link # 0 =>
            /\ yieldLogs'[i].link \in 1..Len(txns)
            /\ txns[yieldLogs'[i].link].ext = yieldLogs'[i].name
            /\ Ended(txns[yieldLogs'[i].link])
    BY <1>0, <1>1, <1>3, <2>3
  <2>. QED  BY <1>3, <1>4, <2>1, <2>2, <2>4 DEF Links
<1>11. Payers'
  BY <1>4 DEF BotInv, Payers, Progress
<1>. QED  BY <1>5, <1>6, <1>7, <1>8, <1>9, <1>10, <1>11 DEF BotInv

-----------------------------------------------------------------------------
(* The steps of the process.                                                 *)

\* A start that fails notes that, and goes to the report.
LEMMA Startup ==
  ASSUME BotInv, pc \in {"start", "balance"}, StartupFails,
         UNCHANGED <<multisig, ext, txns, returnData, slackMessage>>
  PROVE  BotInv'
<1>1. /\ yieldLogs' = <<[name |-> "startup", success |-> FALSE, link |-> 0]>>
      /\ pc' = "report"
  BY DEF StartupFails, Entry
<1>2. BotType'
  <2>. DEFINE failure == [name |-> "startup", success |-> FALSE, link |-> 0]
  <2>1. failure \in Log
    BY DEF Log, Names
  <2>. HIDE DEF failure
  <2>2. <<failure>> \in Seq(Log)
    BY <2>1, Singleton
  <2>3. yieldLogs' = <<failure>>
    BY <1>1 DEF failure
  <2>4. yieldLogs' \in Seq(Log)
    BY <2>2, <2>3
  <2>. QED  BY <1>1, <2>4 DEF BotInv, BotType
<1>3. OptionsInv' /\ LogsInv' /\ MessageInv'
  BY <1>1 DEF BotInv, OptionsInv, LogsInv, MessageInv, Serving
<1>4. OwnTransactions' /\ Links' /\ Payers'
  BY <1>1 DEF BotInv, OwnTransactions, Links, Payers, Serving
<1>. QED  BY <1>2, <1>3, <1>4 DEF BotInv

\* A start that succeeds goes on; before serving, the environment is known.
LEMMA Started ==
  ASSUME BotInv, pc \in {"start", "balance"}, pc' \in {"balance", "load"},
         pc' = "load" => slackMessage' \in {<<>>, <<Warning>>},
         pc' = "balance" => slackMessage' = slackMessage /\ pc = "start",
         options' \in Options,
         options'.pubkey = signerPubkey(options'.signer, options'.turnkey),
         UNCHANGED <<multisig, ext, txns, returnData, yieldLogs>>
  PROVE  BotInv'
<1>1. BotType' /\ OptionsInv'
  BY DEF BotInv, BotType, OptionsInv, Serving
<1>2. LogsInv'
  BY DEF BotInv, LogsInv, Serving
<1>3. MessageInv' /\ OwnTransactions' /\ Links' /\ Payers'
  BY DEF BotInv, MessageInv, OwnTransactions, Links, Payers, Serving
<1>. QED  BY <1>1, <1>2, <1>3 DEF BotInv

LEMMA GetEnvStep == BotInv /\ GetEnv => BotInv'
<1>. SUFFICES ASSUME BotInv, GetEnv  PROVE BotInv'
  OBVIOUS
<1>0. pc = "start" /\ UNCHANGED <<multisig, ext, txns, returnData, slackMessage>>
  BY DEF GetEnv, chainVars, runVars
<1>1. ASSUME StartupFails  PROVE BotInv'
  BY <1>0, <1>1, Startup
<1>2. ASSUME NEW signer \in BOOLEAN, NEW turnkey \in BOOLEAN, NEW squads \in BOOLEAN,
             NEW dryRun \in BOOLEAN, pc' = "balance", UNCHANGED yieldLogs,
             options' = [signer |-> signer, turnkey |-> turnkey, squads |-> squads,
                         dryRun |-> dryRun, pubkey |-> signerPubkey(signer, turnkey)]
      PROVE  BotInv'
  <2>1. signerPubkey(signer, turnkey) \in Signers
    BY DEF signerPubkey, Signers
  <2>2. options' \in Options /\ options'.pubkey = signerPubkey(options'.signer, options'.turnkey)
    BY <1>2, <2>1 DEF Options
  <2>. QED  BY <1>0, <1>2, <2>2, Started
<1>3. \/ StartupFails
      \/ /\ pc' = "balance" /\ UNCHANGED yieldLogs
         /\ \E signer, turnkey, squads, dryRun \in BOOLEAN :
              options' = [signer |-> signer, turnkey |-> turnkey, squads |-> squads,
                          dryRun |-> dryRun, pubkey |-> signerPubkey(signer, turnkey)]
  BY DEF GetEnv
<1>. QED  BY <1>1, <1>2, <1>3

LEMMA CheckBalanceStep == BotInv /\ CheckBalance => BotInv'
<1>. SUFFICES ASSUME BotInv, CheckBalance  PROVE BotInv'
  OBVIOUS
<1>0. pc = "balance" /\ UNCHANGED <<multisig, ext, txns, returnData>>
  BY DEF CheckBalance, chainVars, runVars
<1>1. CASE StartupFails /\ UNCHANGED slackMessage
  BY <1>0, <1>1, Startup
<1>2. CASE /\ slackMessage' \in {<<>>, <<Warning>>} /\ pc' = "load"
           /\ UNCHANGED <<options, yieldLogs>>
  <2>1. options \in Options /\ options.pubkey = signerPubkey(options.signer, options.turnkey)
    BY <1>0 DEF BotInv, OptionsInv
  <2>. QED  BY <1>0, <1>2, <2>1, Started
<1>. QED  BY <1>1, <1>2 DEF CheckBalance

-----------------------------------------------------------------------------
(* The steps of distributeYield.                                             *)

\* A failure links to nothing.
LEMMA FailedStep ==
  ASSUME BotInv, pc \in Serving, Failed, UNCHANGED <<multisig, slackMessage>>
  PROVE  BotInv'
BY NotedStep DEF Failed, AfterFailure

LEMMA LoadStep == BotInv /\ Load => BotInv'
<1>. SUFFICES ASSUME BotInv, Load  PROVE BotInv'
  OBVIOUS
<1>0. pc \in Serving /\ UNCHANGED <<multisig, slackMessage>>
  BY DEF Load, Serving, chainVars
<1>1. Failed \/ (Goto("build") /\ UNCHANGED <<returnData, txns>>)
  BY DEF Load
<1>. QED  BY <1>0, <1>1, FailedStep, GoesOn DEF Goto, Serving

LEMMA BuildInstructionsStep == BotInv /\ BuildInstructions => BotInv'
<1>. SUFFICES ASSUME BotInv, BuildInstructions  PROVE BotInv'
  OBVIOUS
<1>0. pc \in Serving /\ UNCHANGED <<multisig, slackMessage>>
  BY DEF BuildInstructions, Serving, chainVars
<1>1. Failed \/ (Goto("batch") /\ UNCHANGED <<returnData, txns>>)
  BY DEF BuildInstructions
<1>. QED  BY <1>0, <1>1, FailedStep, GoesOn DEF Goto, Serving

\* A transaction is signed by its payer: the two choose a signer alike whenever
\* there is one.
LEMMA BuildTransactionStep == BotInv /\ BuildTransaction => BotInv'
<1>. SUFFICES ASSUME BotInv, BuildTransaction  PROVE BotInv'
  OBVIOUS
<1>. DEFINE new == Built(options.pubkey, Signer, Proposal)
<1>0. pc \in Serving /\ UNCHANGED <<multisig, slackMessage>>
  BY DEF BuildTransaction, Serving, chainVars
<1>1. CASE Failed
  BY <1>0, <1>1, FailedStep
<1>2. CASE CanSign /\ txns' = Append(txns, new) /\ Goto("batch") /\ UNCHANGED returnData
  <2>0. pc' = "batch" /\ UNCHANGED <<options, ext, yieldLogs>>
    BY <1>2 DEF Goto
  <2>1. options \in Options /\ options.pubkey = signerPubkey(options.signer, options.turnkey)
    BY <1>0 DEF BotInv, OptionsInv
  <2>2. options.pubkey = Signer /\ Signer \in Signers
    BY <1>2, <2>1 DEF signerPubkey, Signer, CanSign, Options, Signers
  <2>3. EXTENSIONS[ext] \in Names
    <3>1. ext \in Nat /\ ext <= Len(EXTENSIONS) /\ Len(yieldLogs) = ext - 1 /\ yieldLogs \in Seq(Log)
      BY <1>0 DEF BotInv, BotType, LogsInv
    <3>2. ext \in 1..Len(EXTENSIONS)
      BY <3>1
    <3>. QED  BY <3>2 DEF Names
  <2>4. new \in Txn /\ new.ext = EXTENSIONS[ext] /\ new.payer = new.signedBy
    BY <2>2, <2>3 DEF Built, Txn, Proposal, BotInv, BotType, Statuses
  <2>. HIDE DEF new
  <2>5. txns \in Seq(Txn) /\ returnData \in Seq(1..Len(txns)) /\ yieldLogs \in Seq(Log)
    BY DEF BotInv, BotType
  <2>6. /\ txns' \in Seq(Txn) /\ Len(txns') = Len(txns) + 1
        /\ txns'[Len(txns) + 1] = new
        /\ \A i \in 1..Len(txns) : txns'[i] = txns[i]
    BY <1>2, <2>4, <2>5
  <2>7. returnData' \in Seq(1..Len(txns'))
    BY <1>2, <2>5, <2>6
  <2>8. BotType'
    BY <1>0, <2>0, <2>6, <2>7 DEF BotInv, BotType, Serving
  <2>9. OptionsInv' /\ LogsInv' /\ MessageInv'
    BY <1>0, <2>0, <2>1 DEF BotInv, OptionsInv, LogsInv, MessageInv, Serving
  <2>10. OwnTransactions'
    <3>1. \A i \in 1..Len(returnData) : returnData[i] \in 1..Len(txns)
      BY <2>5
    <3>2. pc' \in Serving
      BY <2>0 DEF Serving
    <3>. QED  BY <1>2, <2>0, <2>4, <2>5, <2>6, <3>1, <3>2 DEF BotInv, OwnTransactions
  <2>11. Links'
    BY <2>0, <2>5, <2>6 DEF BotInv, Links
  <2>12. Payers'
    <3>1. \A i \in 1..Len(txns) : txns[i].payer = txns[i].signedBy
      BY DEF BotInv, Payers
    <3>2. \A i \in 1..Len(txns') : i \in 1..Len(txns) \/ i = Len(txns) + 1
      BY <2>5, <2>6
    <3>. QED  BY <2>4, <2>6, <3>1, <3>2 DEF Payers
  <2>. QED  BY <2>8, <2>9, <2>10, <2>11, <2>12 DEF BotInv
<1>. QED  BY <1>1, <1>2 DEF BuildTransaction

LEMMA AllBuiltStep == BotInv /\ AllBuilt => BotInv'
<1>. SUFFICES ASSUME BotInv, AllBuilt  PROVE BotInv'
  OBVIOUS
<1>. QED  BY GoesOn DEF AllBuilt, Goto, Serving, chainVars, runVars

\* One transaction more is sent, and its index may be kept with the signature.
LEMMA SendStep == BotInv /\ Send => BotInv'
<1>. SUFFICES ASSUME BotInv, Send  PROVE BotInv'
  OBVIOUS
<1>. DEFINE m == Min(Unsent)
<1>1. /\ txns \in Seq(Txn) /\ returnData \in Seq(1..Len(txns)) /\ multisig \in Nat
      /\ DOMAIN txns = 1..Len(txns) /\ pc \in Serving
      /\ UNCHANGED <<pc, multisig, options, ext, yieldLogs, slackMessage>>
  BY DEF BotInv, BotType, Send, Goto, Serving, chainVars
<1>2. m \in 1..Len(txns) /\ txns[m].status = "built"
  <2>1. Unsent \subseteq Nat /\ Unsent # {}
    BY DEF Unsent, Send
  <2>2. m \in Unsent
    BY <2>1, LeastElement
  <2>. QED  BY <2>2 DEF Unsent
<1>3. txns[m].ext = EXTENSIONS[ext]
  BY <1>2 DEF BotInv, OwnTransactions
<1>4. returnData' \in {returnData, Append(returnData, m)}
  BY DEF Send
<1>5. PICK status \in {"returned", "sent", "dropped"} :
        txns' = [txns EXCEPT ![m].status = status]
  BY DEF Send
<1>. HIDE DEF m
<1>6. \A i \in 1..Len(txns) : txns'[i] \in Txn /\ Progress(txns[i], txns'[i])
  <2>. SUFFICES ASSUME NEW i \in 1..Len(txns)
                PROVE  txns'[i] \in Txn /\ Progress(txns[i], txns'[i])
    OBVIOUS
  <2>1. txns[i] \in Txn
    BY <1>1
  <2>2. CASE i # m
    <3>1. txns'[i] = txns[i]
      BY <1>1, <1>5, <2>2
    <3>. QED  BY <2>1, <3>1 DEF Progress
  <2>3. CASE i = m
    <3>1. txns'[i] = [txns[i] EXCEPT !.status = status]
      BY <1>1, <1>2, <1>5, <2>3
    <3>. QED  BY <1>2, <2>1, <2>3, <3>1 DEF Txn, Statuses, Progress, Ended
  <2>. QED  BY <2>2, <2>3
<1>7. txns' \in Seq(Txn) /\ Len(txns') = Len(txns)
  <2>1. txns' = [i \in 1..Len(txns) |-> txns'[i]] /\ Len(txns) \in Nat
    <3>1. txns' = [i \in DOMAIN txns |-> txns'[i]]
      BY <1>5
    <3>. QED  BY <1>1, <3>1
  <2>2. \A i \in 1..Len(txns) : txns'[i] \in Txn
    BY <1>6
  <2>. QED  BY <2>1, <2>2
<1>8. Own(returnData')
  <2>1. returnData' \in Seq(1..Len(txns))
    <3>1. returnData \in Seq(1..Len(txns)) /\ m \in 1..Len(txns)
      BY <1>1, <1>2
    <3>2. Append(returnData, m) \in Seq(1..Len(txns))
      BY <3>1
    <3>. QED  BY <1>4, <3>1, <3>2
  <2>2. \A i \in 1..Len(returnData) : txns[returnData[i]].ext = EXTENSIONS[ext]
    BY DEF BotInv, OwnTransactions
  <2>3. \A i \in 1..Len(returnData') : txns[returnData'[i]].ext = EXTENSIONS[ext]
    <3>1. CASE returnData' = returnData
      BY <2>2, <3>1
    <3>2. CASE returnData' = Append(returnData, m)
      <4>1. \A i \in 1..Len(returnData') :
              returnData'[i] = IF i = Len(returnData) + 1 THEN m ELSE returnData[i]
        BY <1>1, <3>2
      <4>2. \A i \in 1..Len(returnData') : i = Len(returnData) + 1 \/ i \in 1..Len(returnData)
        BY <1>1, <3>2
      <4>. QED  BY <1>3, <2>2, <4>1, <4>2
    <3>. QED  BY <1>4, <3>1, <3>2
  <2>. QED  BY <1>1, <2>1, <2>3 DEF Own
<1>. QED  BY <1>1, <1>6, <1>7, <1>8, TransactionsProgress

LEMMA AllSentStep == BotInv /\ AllSent => BotInv'
<1>. SUFFICES ASSUME BotInv, AllSent  PROVE BotInv'
  OBVIOUS
<1>0. pc \in Serving /\ UNCHANGED <<multisig, slackMessage>>
  BY DEF AllSent, Serving, chainVars
<1>1. CASE Succeeded(0)
  BY <1>0, <1>1, NotedStep DEF Succeeded
<1>2. CASE Goto("confirm") /\ UNCHANGED <<runVars, txns>>
  BY <1>0, <1>2, GoesOn DEF Goto, Serving, runVars
<1>. QED  BY <1>1, <1>2 DEF AllSent

\* The link is the first of the transactions that were waited for.
LEMMA ConfirmStep == BotInv /\ Confirm => BotInv'
<1>. SUFFICES ASSUME BotInv, Confirm  PROVE BotInv'
  OBVIOUS
<1>0. pc \in Serving /\ UNCHANGED <<multisig, slackMessage>>
  BY DEF Confirm, Serving, chainVars
<1>1. CASE AllConfirmed /\ Succeeded(Link)
  <2>1. returnData \in Seq(1..Len(txns)) /\ Len(txns) \in Nat
    BY DEF BotInv, BotType
  <2>2. ASSUME Link # 0
        PROVE  /\ Link \in 1..Len(txns)
               /\ txns[Link].ext = EXTENSIONS[ext]
               /\ Ended(txns[Link])
    <3>1. Link = returnData[1] /\ 1 \in 1..Len(returnData)
      BY <2>1, <2>2 DEF Link
    <3>2. returnData[1] \in ToSet(returnData)
      BY <2>1, <3>1 DEF ToSet
    <3>3. Ended(txns[Link])
      BY <1>1, <3>1, <3>2 DEF AllConfirmed
    <3>4. txns[Link].ext = EXTENSIONS[ext]
      BY <3>1 DEF BotInv, OwnTransactions
    <3>. QED  BY <2>1, <3>1, <3>3, <3>4
  <2>3. Link \in Nat
    BY <2>1, <2>2 DEF Link
  <2>. QED  BY <1>0, <1>1, <2>2, <2>3, NotedStep DEF Succeeded
<1>2. CASE Failed
  BY <1>0, <1>2, FailedStep
<1>. QED  BY <1>1, <1>2 DEF Confirm

LEMMA ThrowStep == BotInv /\ Throw => BotInv'
<1>. SUFFICES ASSUME BotInv, Throw  PROVE BotInv'
  OBVIOUS
<1>. QED  BY FailedStep DEF Throw, Serving, chainVars

LEMMA ReportStep == BotInv /\ Report => BotInv'
<1>. SUFFICES ASSUME BotInv, Report  PROVE BotInv'
  OBVIOUS
<1>0. pc = "report" /\ pc' = "exited"
      /\ UNCHANGED <<multisig, options, ext, txns, returnData, yieldLogs>>
  BY DEF Report, Goto, chainVars, runVars
<1>1. BotType' /\ OptionsInv'
  BY <1>0 DEF BotInv, BotType, OptionsInv, Serving
<1>2. LogsInv' /\ MessageInv'
  BY <1>0 DEF BotInv, LogsInv, MessageInv, Serving
<1>3. OwnTransactions' /\ Links' /\ Payers'
  BY <1>0 DEF BotInv, OwnTransactions, Links, Payers, Serving
<1>. QED  BY <1>1, <1>2, <1>3 DEF BotInv

-----------------------------------------------------------------------------
(* The steps of the chain.                                                   *)

\* The network only decides on what was sent.
LEMMA Decided ==
  ASSUME BotInv, NEW i \in 1..Len(txns), txns[i].status = "sent", multisig' \in Nat,
         \E status \in {"landed", "failed", "dropped"} : txns' = [txns EXCEPT ![i].status = status],
         UNCHANGED <<pc, options, ext, returnData, yieldLogs, slackMessage>>
  PROVE  BotInv'
<1>1. /\ txns \in Seq(Txn) /\ Len(txns) \in Nat /\ returnData \in Seq(1..Len(txns))
      /\ DOMAIN txns = 1..Len(txns)
  BY DEF BotInv, BotType
<1>0. PICK status \in {"landed", "failed", "dropped"} : txns' = [txns EXCEPT ![i].status = status]
  OBVIOUS
<1>2. \A j \in 1..Len(txns) : txns'[j] \in Txn /\ Progress(txns[j], txns'[j])
  <2>. SUFFICES ASSUME NEW j \in 1..Len(txns)
                PROVE  txns'[j] \in Txn /\ Progress(txns[j], txns'[j])
    OBVIOUS
  <2>1. txns[j] \in Txn
    BY <1>1
  <2>2. CASE j # i
    <3>1. txns'[j] = txns[j]
      BY <1>0, <1>1, <2>2
    <3>. QED  BY <2>1, <3>1 DEF Progress
  <2>3. CASE j = i
    <3>1. txns'[j] = [txns[j] EXCEPT !.status = status]
      BY <1>0, <1>1, <2>3
    <3>. QED  BY <2>1, <2>3, <3>1 DEF Txn, Statuses, Progress, Ended
  <2>. QED  BY <2>2, <2>3
<1>3. txns' \in Seq(Txn) /\ Len(txns') = Len(txns)
  <2>1. txns' = [j \in DOMAIN txns |-> txns'[j]]
    BY <1>0
  <2>2. \A j \in 1..Len(txns) : txns'[j] \in Txn
    BY <1>2
  <2>3. txns' = [j \in 1..Len(txns) |-> txns'[j]] /\ Len(txns) \in Nat
    BY <1>1, <2>1
  <2>. QED  BY <2>2, <2>3, FunctionIsSequence
<1>4. Own(returnData')
  BY <1>1 DEF Own, BotInv, OwnTransactions
<1>. QED  BY <1>2, <1>3, <1>4, TransactionsProgress

LEMMA NetworkStep == BotInv /\ Network => BotInv'
<1>. SUFFICES ASSUME BotInv, NEW i \in 1..Len(txns), Land(i) \/ Drop(i)  PROVE BotInv'
  BY DEF Network
<1>0. multisig \in Nat
  BY DEF BotInv, BotType
<1>1. /\ txns[i].status = "sent" /\ multisig' \in Nat
      /\ \E status \in {"landed", "failed", "dropped"} : txns' = [txns EXCEPT ![i].status = status]
      /\ UNCHANGED <<pc, options, ext, returnData, yieldLogs, slackMessage>>
  <2>1. CASE Land(i)
    <3>1. PICK status \in {"landed", "failed"} :
            /\ txns' = [txns EXCEPT ![i].status = status]
            /\ multisig' = IF txns[i].proposal # 0 /\ status = "landed"
                           THEN multisig + 1 ELSE multisig
      BY <2>1 DEF Land
    <3>2. multisig' \in Nat
      BY <1>0, <3>1
    <3>3. txns[i].status = "sent" /\ UNCHANGED <<pc, options, ext, returnData, yieldLogs, slackMessage>>
      BY <2>1 DEF Land, runVars
    <3>. QED  BY <3>1, <3>2, <3>3
  <2>2. CASE Drop(i)
    BY <1>0, <2>2 DEF Drop, runVars, chainVars
  <2>. QED  BY <2>1, <2>2
<1>. QED  BY <1>1, Decided

LEMMA ProposeOtherStep == BotInv /\ ProposeOther => BotInv'
<1>. SUFFICES ASSUME BotInv, ProposeOther  PROVE BotInv'
  OBVIOUS
<1>1. multisig' \in Nat /\ UNCHANGED <<pc, options, ext, txns, returnData, yieldLogs, slackMessage>>
  BY DEF ProposeOther, BotInv, BotType, runVars
<1>2. BotType'
  BY <1>1 DEF BotInv, BotType
<1>3. OptionsInv' /\ LogsInv' /\ MessageInv'
  BY <1>1 DEF BotInv, OptionsInv, LogsInv, MessageInv
<1>4. OwnTransactions' /\ Links' /\ Payers'
  BY <1>1 DEF BotInv, OwnTransactions, Links, Payers
<1>. QED  BY <1>2, <1>3, <1>4 DEF BotInv

LEMMA BotInit == Init => BotInv
<1>. SUFFICES ASSUME Init  PROVE BotInv
  OBVIOUS
<1>1. BotType
  BY DEF Init, BotType
<1>2. OptionsInv /\ LogsInv /\ MessageInv
  BY DEF Init, OptionsInv, LogsInv, MessageInv, Serving
<1>3. OwnTransactions /\ Links /\ Payers
  BY DEF Init, OwnTransactions, Links, Payers
<1>. QED  BY <1>1, <1>2, <1>3 DEF BotInv

LEMMA BotStep == BotInv /\ [Next]_vars => BotInv'
<1>. SUFFICES ASSUME BotInv, [Next]_vars  PROVE BotInv'
  OBVIOUS
<1>1. CASE Bot
  BY <1>1, GetEnvStep, CheckBalanceStep, LoadStep, BuildInstructionsStep, BuildTransactionStep,
     AllBuiltStep, SendStep, AllSentStep, ConfirmStep, ReportStep DEF Bot
<1>2. CASE Throw
  BY <1>2, ThrowStep
<1>3. CASE Network
  BY <1>3, NetworkStep
<1>4. CASE ProposeOther
  BY <1>4, ProposeOtherStep
<1>5. CASE UNCHANGED vars
  BY <1>5, SameState DEF vars, chainVars, runVars, state
<1>. QED  BY <1>1, <1>2, <1>3, <1>4, <1>5 DEF Next

LEMMA BotInvariant == Spec => []BotInv
<1>. QED  BY BotInit, BotStep, PTL DEF Spec

-----------------------------------------------------------------------------
\* The payer of a transaction is the signer that signs it, whatever signers the
\* environment configures (PayerSigns in BotProcess).
THEOREM PayerAlwaysSigns == Spec => []PayerSigns
<1>1. BotInv => PayerSigns
  <2>1. BotInv => DOMAIN txns = 1..Len(txns)
    BY DEF BotInv, BotType
  <2>. QED  BY <2>1 DEF BotInv, Payers, PayerSigns
<1>. QED  BY <1>1, BotInvariant, PTL

\* The link of a reported success is a transaction of that extension which the
\* chain has executed (LinkedTransactionEnded in BotProcess).
THEOREM LinkedTransactionsHaveEnded == Spec => []LinkedTransactionEnded
<1>1. BotInv => LinkedTransactionEnded
  <2>1. BotInv => DOMAIN yieldLogs = 1..Len(yieldLogs)
    BY DEF BotInv, BotType
  <2>. QED  BY <2>1 DEF BotInv, Links, LinkedTransactionEnded
<1>. QED  BY <1>1, BotInvariant, PTL

\* At the exit the message has been composed of the warning, if any, and the log.
MessageComposed ==
  pc = "exited" => slackMessage \in {warnings \o yieldLogs : warnings \in {<<>>, <<Warning>>}}

\* Whatever fails, the message posted at the exit has an entry for each extension,
\* in order, or says that the start failed (EveryExtensionIsReported in
\* BotProcess).
THEOREM EveryExtensionHasItsEntry == Spec => []EveryExtensionIsReported
<1>1. Init => MessageComposed
  BY DEF Init, MessageComposed
<1>2. BotInv /\ MessageComposed /\ [Next]_vars => MessageComposed'
  <2>. SUFFICES ASSUME BotInv, MessageComposed, [Next]_vars, pc' = "exited"
                PROVE  slackMessage' \in {warnings \o yieldLogs' : warnings \in {<<>>, <<Warning>>}}
    BY DEF MessageComposed
  <2>1. CASE Report
    <3>1. slackMessage \in {<<>>, <<Warning>>}
      BY <2>1 DEF Report, BotInv, MessageInv
    <3>2. slackMessage' = slackMessage \o yieldLogs /\ yieldLogs' = yieldLogs
      BY <2>1 DEF Report, Goto
    <3>. QED  BY <3>1, <3>2
  <2>2. CASE UNCHANGED <<pc, slackMessage, yieldLogs>>
    BY <2>2 DEF MessageComposed
  <2>3. \/ Report
        \/ UNCHANGED <<pc, slackMessage, yieldLogs>>
        \/ pc' # "exited"
    <3>1. ASSUME GetEnv \/ CheckBalance \/ StartupFails  PROVE pc' # "exited"
      BY <3>1 DEF GetEnv, CheckBalance, StartupFails
    <3>2. ASSUME Failed \/ \E link : Succeeded(link)  PROVE pc' # "exited"
      BY <3>2 DEF Failed, Succeeded, NextExtension, AfterFailure
    <3>3. ASSUME Load \/ BuildInstructions \/ BuildTransaction \/ AllBuilt \/ Send \/ AllSent
                 \/ Confirm \/ Throw
          PROVE  pc' # "exited"
      BY <3>2, <3>3 DEF Load, BuildInstructions, BuildTransaction, AllBuilt, Send, AllSent,
         Confirm, Throw, Goto
    <3>4. ASSUME Network \/ ProposeOther \/ UNCHANGED vars
          PROVE  UNCHANGED <<pc, slackMessage, yieldLogs>>
      BY <3>4 DEF Network, Land, Drop, ProposeOther, vars, runVars, chainVars
    <3>. QED  BY <3>1, <3>3, <3>4 DEF Next, Bot
  <2>. QED  BY <2>1, <2>2, <2>3
<1>3. BotInv /\ MessageComposed => EveryExtensionIsReported
  <2>. SUFFICES ASSUME BotInv, MessageComposed, pc = "exited"
                PROVE  [i \in DOMAIN yieldLogs |-> yieldLogs[i].name] \in {EXTENSIONS, <<"startup">>}
    BY DEF EveryExtensionIsReported, MessageComposed
  <2>. DEFINE names == [i \in DOMAIN yieldLogs |-> yieldLogs[i].name]
  <2>0. DOMAIN yieldLogs = 1..Len(yieldLogs)
    BY DEF BotInv, BotType
  <2>1. CASE Len(yieldLogs) = 1 /\ yieldLogs[1].name = "startup"
    <3>1. names = [i \in 1..1 |-> "startup"]
      BY <2>0, <2>1
    <3>. QED  BY <3>1
  <2>2. CASE Len(yieldLogs) = Len(EXTENSIONS)
             /\ \A i \in 1..Len(yieldLogs) : yieldLogs[i].name = EXTENSIONS[i]
    <3>1. names = [i \in 1..Len(EXTENSIONS) |-> EXTENSIONS[i]]
      BY <2>0, <2>2
    <3>2. EXTENSIONS = [i \in 1..Len(EXTENSIONS) |-> EXTENSIONS[i]]
      OBVIOUS
    <3>. QED  BY <3>1, <3>2
  <2>. QED  BY <2>1, <2>2 DEF BotInv, LogsInv
<1>. QED  BY <1>1, <1>2, <1>3, BotInvariant, PTL DEF Spec

-----------------------------------------------------------------------------
(* The account of an extension: what its bytes are up to the yield variant.  *)

Joins(r, s, t) ==
  /\ Len(r) = Len(s) + Len(t)
  /\ \A i \in 1..Len(s) : r[i] = s[i]
  /\ \A i \in 1..Len(t) : r[Len(s) + i] = t[i]

LEMMA Joined ==
  ASSUME NEW S, NEW s \in Seq(S), NEW t \in Seq(S)
  PROVE  s \o t \in Seq(S) /\ Joins(s \o t, s, t)
BY DEF Joins

\* Nothing is known of the bytes of a key.
LEMMA UnknownBytes ==
  ASSUME NEW S, KeyBytes \in S, NEW n \in Nat
  PROVE  Unknown(n) \in Seq(S) /\ Len(Unknown(n)) = n
BY DEF Unknown

\* The flag for a pending admin is in the byte that follows the admin's key.
LEMMA AdminBytes ==
  ASSUME NEW S, KeyBytes \in S, {0} \in S, {1} \in S, NEW pending \in BOOLEAN
  PROVE  /\ Admin(pending) \in Seq(S)
         /\ Len(Admin(pending)) = IF pending THEN 65 ELSE 33
         /\ Admin(pending)[33] = {IF pending THEN 1 ELSE 0}
<1>1. Key \in Seq(S) /\ Len(Key) = 32
  BY UnknownBytes DEF Key
<1>2. \A x \in S : <<x>> \in Seq(S) /\ Len(<<x>>) = 1 /\ <<x>>[1] = x
  BY Singleton
<1>3. CASE pending
  <2>. DEFINE flag == <<{1}>>
              t == flag \o Key
              r == Key \o t
  <2>1. flag \in Seq(S) /\ Len(flag) = 1 /\ flag[1] = {1}
    BY <1>2
  <2>2. Admin(pending) = r
    BY <1>3 DEF Admin
  <2>. HIDE DEF flag
  <2>3. t \in Seq(S) /\ Joins(t, flag, Key)
    BY <1>1, <2>1, Joined
  <2>. HIDE DEF t
  <2>4. r \in Seq(S) /\ Joins(r, Key, t)
    BY <1>1, <2>3, Joined
  <2>. HIDE DEF r
  <2>5. Len(t) = 33 /\ t[1] = {1}
    BY <1>1, <2>1, <2>3 DEF Joins
  <2>6. Len(r) = 65 /\ r[33] = t[1]
    BY <1>1, <2>4, <2>5 DEF Joins
  <2>. QED  BY <1>3, <2>2, <2>4, <2>5, <2>6
<1>4. CASE ~ pending
  <2>. DEFINE t == <<{0}>>
              r == Key \o t
  <2>1. t \in Seq(S) /\ Len(t) = 1 /\ t[1] = {0}
    BY <1>2
  <2>2. Admin(pending) = r
    BY <1>4 DEF Admin
  <2>. HIDE DEF t
  <2>3. r \in Seq(S) /\ Joins(r, Key, t)
    BY <1>1, <2>1, Joined
  <2>. HIDE DEF r
  <2>4. Len(r) = 33 /\ r[33] = t[1]
    BY <1>1, <2>1, <2>3 DEF Joins
  <2>. QED  BY <1>4, <2>1, <2>2, <2>3, <2>4
<1>. QED  BY <1>3, <1>4

\* The account has its pending flag at offset 40, and its variant at 172 while an
\* admin is pending, at 140 otherwise.
LaidOut(onChain) ==
  /\ BytesAt(onChain, 40) = {IF onChain.pending THEN 1 ELSE 0}
  /\ BytesAt(onChain, IF onChain.pending THEN 172 ELSE 140) = {onChain.type}

LEMMA Layout ==
  ASSUME NEW onChain \in [type : 0..3, pending : BOOLEAN]
  PROVE  LaidOut(onChain)
<1>. DEFINE S == {KeyBytes, {0}, {1}, {Bump}, {onChain.type}}
            width == IF onChain.pending THEN 65 ELSE 33
            flag == {IF onChain.pending THEN 1 ELSE 0}
            admin == Admin(onChain.pending)
            front == Discriminator \o admin
            twoKeys == Key \o Key
            threeKeys == twoKeys \o Key
            back == threeKeys \o Bumps
            body == front \o back
            last == <<{onChain.type}>>
            all == body \o last
<1>0. /\ KeyBytes \in S /\ {0} \in S /\ {1} \in S /\ {Bump} \in S /\ {onChain.type} \in S
      /\ width \in Nat /\ width >= 33
  OBVIOUS
<1>1. Bytes(onChain) = all
  BY DEF Bytes, Mints
<1>. HIDE DEF S
<1>2. admin \in Seq(S) /\ Len(admin) = width /\ admin[33] = flag
  BY <1>0, AdminBytes
<1>3. Discriminator \in Seq(S) /\ Len(Discriminator) = 8
  BY <1>0, UnknownBytes DEF Discriminator
<1>4. Key \in Seq(S) /\ Len(Key) = 32
  BY <1>0, UnknownBytes DEF Key
<1>5. Bumps \in Seq(S) /\ Len(Bumps) = 3
  BY <1>0 DEF Bumps
<1>6. last \in Seq(S) /\ Len(last) = 1 /\ last[1] = {onChain.type}
  BY <1>0, Singleton
<1>. HIDE DEF admin, last, width, flag
<1>7. front \in Seq(S) /\ Joins(front, Discriminator, admin)
  BY <1>2, <1>3, Joined
<1>8. twoKeys \in Seq(S) /\ Joins(twoKeys, Key, Key)
  BY <1>4, Joined
<1>. HIDE DEF front, twoKeys
<1>9. threeKeys \in Seq(S) /\ Joins(threeKeys, twoKeys, Key)
  BY <1>4, <1>8, Joined
<1>. HIDE DEF threeKeys
<1>10. back \in Seq(S) /\ Joins(back, threeKeys, Bumps)
  BY <1>5, <1>9, Joined
<1>. HIDE DEF back
<1>11. body \in Seq(S) /\ Joins(body, front, back)
  BY <1>7, <1>10, Joined
<1>. HIDE DEF body
<1>12. all \in Seq(S) /\ Joins(all, body, last)
  BY <1>6, <1>11, Joined
<1>. HIDE DEF all
<1>13. Len(front) = 8 + width /\ front[41] = flag
  BY <1>0, <1>2, <1>3, <1>7 DEF Joins
<1>14. Len(back) = 99
  <2>1. Len(threeKeys) = 96
    BY <1>4, <1>8, <1>9 DEF Joins
  <2>. QED  BY <1>5, <1>10, <2>1 DEF Joins
<1>15. Len(body) = 107 + width /\ body[41] = flag
  BY <1>0, <1>11, <1>13, <1>14 DEF Joins
<1>16. all[41] = flag /\ all[107 + width + 1] = {onChain.type}
  BY <1>0, <1>6, <1>12, <1>15 DEF Joins
<1>17. 107 + width = IF onChain.pending THEN 172 ELSE 140
  BY DEF width
<1>18. BytesAt(onChain, 40) = flag
  BY <1>1, <1>16 DEF BytesAt
<1>19. BytesAt(onChain, 107 + width) = {onChain.type}
  BY <1>1, <1>16 DEF BytesAt
<1>. QED  BY <1>17, <1>18, <1>19 DEF flag, LaidOut

\* The variant that is read is that of the account.
LEMMA TypeRead ==
  ASSUME NEW onChain \in [type : 0..3, pending : BOOLEAN], NEW type \in YieldTypesRead(onChain)
  PROVE  type = onChain.type
<1>1. onChain.pending \in BOOLEAN /\ LaidOut(onChain)
  BY Layout
<1>2. PICK pending \in BytesAt(onChain, 40) : type \in BytesAt(onChain, yieldTypeOffset(pending))
  BY DEF YieldTypesRead
<1>3. /\ BytesAt(onChain, 40) = {IF onChain.pending THEN 1 ELSE 0}
      /\ BytesAt(onChain, IF onChain.pending THEN 172 ELSE 140) = {onChain.type}
  BY <1>1 DEF LaidOut
<1>4. pending = IF onChain.pending THEN 1 ELSE 0
  BY <1>2, <1>3
<1>5. yieldTypeOffset(pending) = IF onChain.pending THEN 172 ELSE 140
  BY <1>1, <1>4 DEF yieldTypeOffset
<1>. QED  BY <1>2, <1>3, <1>5

\* A step reads an account, keeps what it made of one, or forgets it.
LEMMA AuthMoves ==
  [Next]_vars => \/ UNCHANGED <<account, auth>>
                 \/ auth' = <<>>
                 \/ Load /\ \E onChain \in [type : 0..3, pending : BOOLEAN] :
                      \E type \in YieldTypesRead(onChain) :
                        IsKnown(type) /\ account' = onChain /\ auth' = loadGlobal(type)
<1>. SUFFICES ASSUME [Next]_vars
              PROVE  \/ UNCHANGED <<account, auth>>
                     \/ auth' = <<>>
                     \/ Load /\ \E onChain \in [type : 0..3, pending : BOOLEAN] :
                          \E type \in YieldTypesRead(onChain) :
                            IsKnown(type) /\ account' = onChain /\ auth' = loadGlobal(type)
  OBVIOUS
<1>1. ASSUME Failed \/ \E link : Succeeded(link)  PROVE auth' = <<>>
  BY <1>1 DEF Failed, Succeeded, Noted
<1>2. CASE GetEnv \/ CheckBalance \/ AllBuilt \/ Report \/ ProposeOther \/ UNCHANGED vars
  BY <1>2 DEF GetEnv, CheckBalance, AllBuilt, Report, ProposeOther, vars, runVars
<1>3. CASE Network
  BY <1>3 DEF Network, Land, Drop, runVars
<1>4. CASE BuildInstructions \/ BuildTransaction \/ Send \/ AllSent \/ Confirm \/ Throw
  BY <1>1, <1>4 DEF BuildInstructions, BuildTransaction, Send, AllSent, Confirm, Throw, runVars
<1>5. CASE Load
  <2>1. PICK onChain \in ExtAccounts :
          IF onChain = Absent THEN Failed
          ELSE \E type \in YieldTypesRead(onChain) :
                 IF IsKnown(type)
                 THEN account' = onChain /\ auth' = loadGlobal(type)
                 ELSE Failed
    BY <1>5 DEF Load
  <2>2. CASE Failed
    BY <1>1, <2>2
  <2>3. CASE ~ Failed
    <3>1. onChain \in [type : 0..3, pending : BOOLEAN]
      BY <2>1, <2>3 DEF ExtAccounts
    <3>. QED  BY <1>5, <2>1, <2>3, <3>1
  <2>. QED  BY <2>2, <2>3
<1>. QED  BY <1>2, <1>3, <1>4, <1>5 DEF Next, Bot

\* An extension is handled as the variant it is, with the fields that variant has,
\* whatever the bytes of the keys in its account (GlobalIsDecoded in BotProcess).
THEOREM ExtensionsAreHandledAsTheyAre == Spec => []GlobalIsDecoded
<1>1. Init => GlobalIsDecoded
  BY DEF Init, GlobalIsDecoded
<1>2. GlobalIsDecoded /\ [Next]_vars => GlobalIsDecoded'
  <2>. SUFFICES ASSUME GlobalIsDecoded, [Next]_vars  PROVE GlobalIsDecoded'
    OBVIOUS
  <2>1. CASE UNCHANGED <<account, auth>> \/ auth' = <<>>
    BY <2>1 DEF GlobalIsDecoded
  <2>2. ASSUME NEW onChain \in [type : 0..3, pending : BOOLEAN], NEW type \in YieldTypesRead(onChain),
               IsKnown(type), account' = onChain, auth' = loadGlobal(type)
        PROVE  GlobalIsDecoded'
    <3>1. type = account'.type /\ type \in 0..3 /\ type < 3
      BY <2>2, TypeRead DEF IsKnown
    <3>2. auth'.variant = Variants[account'.type + 1] /\ auth'.has = ConfigFields(type)
      BY <2>2, <3>1 DEF loadGlobal
    <3>3. CASE type = 0
      BY <3>1, <3>2, <3>3 DEF GlobalIsDecoded, Variants
    <3>4. CASE type = 1
      BY <3>1, <3>2, <3>4 DEF GlobalIsDecoded, Variants, ConfigFields
    <3>5. CASE type = 2
      BY <3>1, <3>2, <3>5 DEF GlobalIsDecoded, Variants, ConfigFields
    <3>. QED  BY <3>1, <3>3, <3>4, <3>5
  <2>. QED  BY <2>1, <2>2, AuthMoves
<1>. QED  BY <1>1, <1>2, PTL DEF Spec
=============================================================================
