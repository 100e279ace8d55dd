------------------------------ MODULE BotProcess -------------------------------
(***************************************************************************)
(* One process of the yield bot, from its environment to its report        *)
(* (services/yield-bot/main.ts, services/shared): the signer and the       *)
(* balance, then the extensions one after the other, each reported as a    *)
(* success or a failure, then the message to Slack.  A transaction is      *)
(* signed by a key or by Turnkey, and executes its instructions or, with   *)
(* Squads, creates a proposal for them.  What a claim amounts to is in     *)
(* YieldBot.                                                               *)
(*                                                                         *)
(* External: the extensions' accounts, the multisig, of which the bot is   *)
(* only one member, and a network that executes what it was sent late, in  *)
(* any order, or never.                                                    *)
(***************************************************************************)
EXTENDS ExtGlobal, SequencesExt, FiniteSets

CONSTANTS
  EXTENSIONS,       \* the extensions yield is distributed to, in order
  BatchSize,        \* instructions per transaction, 10 in the code
  MaxClaims,        \* bound: earners with a claim, per extension
  MaxProposals      \* bound: proposals by other members of the multisig

ASSUME ProcessAssumption ==
  /\ EXTENSIONS \in Seq(STRING) \ {<<>>} /\ BatchSize \in Nat \ {0}
  /\ MaxClaims \in Nat /\ MaxProposals \in Nat

VARIABLES
  multisig,     \* its transactionIndex
  others,       \* how many of its proposals other members made
  pc,           \* where the process is
  options,      \* what getEnv made of the environment
  ext,          \* the extension being served, as an index
  account,      \* its global account on the chain, when it was read
  auth,         \* what was made of it
  ixs,          \* how many instructions were built, and for how many a transaction
  txns,         \* the transactions, of all extensions
  returnData,   \* those of this extension whose signature was kept, in order
  yieldLogs,
  slackMessage  \* what was posted

chainVars == <<multisig, others>>
runVars == <<account, auth, ixs, returnData>>
vars == <<chainVars, runVars, pc, options, ext, txns, yieldLogs, slackMessage>>

\* An extension not deployed; one of a variant newer than the SDK has type 3.
Absent == [type |-> -1]
ExtAccounts == {Absent} \cup [type : 0..3, pending : BOOLEAN]
Nothing == [built |-> 0, batched |-> 0]

Init ==
  /\ multisig = 0 /\ others = 0
  /\ pc = "start" /\ options = <<>> /\ ext = 1
  /\ account = Absent /\ auth = <<>> /\ ixs = Nothing /\ txns = <<>> /\ returnData = <<>>
  /\ yieldLogs = <<>> /\ slackMessage = <<>>

-----------------------------------------------------------------------------
(* The chain.                                                               *)

ProposeOther ==
  /\ others < MaxProposals
  /\ multisig' = multisig + 1 /\ others' = others + 1
  /\ UNCHANGED <<runVars, pc, options, ext, txns, yieldLogs, slackMessage>>

\* A proposal needs the multisig's next index; other transactions may fail at
\* any of their instructions.
Land(i) ==
  /\ txns[i].status = "sent"
  /\ \E status \in {"landed", "failed"} :
       /\ txns[i].proposal # 0 =>
            (status = "landed" <=> txns[i].proposal = multisig + 1)
       /\ txns' = [txns EXCEPT ![i].status = status]
       /\ multisig' = IF txns[i].proposal # 0 /\ status = "landed"
                      THEN multisig + 1 ELSE multisig
  /\ UNCHANGED <<others, runVars, pc, options, ext, yieldLogs, slackMessage>>

Drop(i) ==
  /\ txns[i].status = "sent"
  /\ txns' = [txns EXCEPT ![i].status = "dropped"]
  /\ UNCHANGED <<chainVars, runVars, pc, options, ext, yieldLogs, slackMessage>>

Network == \E i \in 1..Len(txns) : Land(i) \/ Drop(i)

-----------------------------------------------------------------------------
(* The start.                                                               *)

Setting == {"unset", "valid", "malformed"}

\* A malformed key throws; Turnkey's, set with its API keys, is only looked at
\* if there is no keypair.
SetUp(KEYPAIR, TURNKEY_PUBKEY, EVM_KEY, SQUADS_PDA) ==
  /\ "malformed" \notin {KEYPAIR, EVM_KEY, SQUADS_PDA}
  /\ KEYPAIR = "valid" \/ TURNKEY_PUBKEY # "malformed"
  /\ "valid" \in {KEYPAIR, EVM_KEY} \/ TURNKEY_PUBKEY # "unset"
TurnkeyFirst(signer, turnkey) ==
  IF turnkey THEN "turnkey" ELSE IF signer THEN "keypair" ELSE "default"
signerPubkey(signer, turnkey) ==
  IF signer THEN "keypair" ELSE IF turnkey THEN "turnkey" ELSE "default"

Entry(name, success, link) == [name |-> name, success |-> success, link |-> link]
Warning == Entry("low balance", FALSE, 0)

StartupFails ==
  /\ yieldLogs' = <<Entry("startup", FALSE, 0)>>
  /\ pc' = "report"
  /\ UNCHANGED options

GetEnv ==
  /\ pc = "start"
  /\ \E KEYPAIR, TURNKEY_PUBKEY, EVM_KEY, SQUADS_PDA \in Setting, dryRun \in BOOLEAN :
       IF SetUp(KEYPAIR, TURNKEY_PUBKEY, EVM_KEY, SQUADS_PDA)
       THEN LET signer == KEYPAIR = "valid"
                turnkey == TURNKEY_PUBKEY # "unset"
            IN  /\ options' = [signer |-> signer, turnkey |-> turnkey, squads |-> SQUADS_PDA # "unset",
                               dryRun |-> dryRun, pubkey |-> signerPubkey(signer, turnkey)]
                /\ pc' = "balance"
                /\ UNCHANGED yieldLogs
       ELSE StartupFails
  /\ UNCHANGED <<chainVars, runVars, ext, txns, slackMessage>>

\* A low balance adds a warning to the message; no answer ends the run.
CheckBalance ==
  /\ pc = "balance"
  /\ \/ \E belowThreshold \in BOOLEAN :
          /\ slackMessage' = IF belowThreshold THEN <<Warning>> ELSE <<>>
          /\ pc' = "load"
          /\ UNCHANGED <<options, yieldLogs>>
     \/ StartupFails /\ UNCHANGED slackMessage
  /\ UNCHANGED <<chainVars, runVars, ext, txns>>

-----------------------------------------------------------------------------
(* distributeYield for one extension.                                       *)

\* The result is noted and the next extension's turn comes; transactions that
\* were built and not sent never will be.
NextExtension == pc' = IF ext = Len(EXTENSIONS) THEN "report" ELSE "load"
StopAtFailure == pc' = "report"
AfterFailure == NextExtension
Noted(success, link) ==
  /\ yieldLogs' = Append(yieldLogs, Entry(EXTENSIONS[ext], success, link))
  /\ ext' = ext + 1
  /\ account' = Absent /\ auth' = <<>> /\ ixs' = Nothing /\ returnData' = <<>>
  /\ txns' = [i \in DOMAIN txns |-> IF txns[i].status = "built"
                                    THEN [txns[i] EXCEPT !.status = "dropped"] ELSE txns[i]]
  /\ UNCHANGED options
Failed == Noted(FALSE, 0) /\ AfterFailure
Succeeded(link) == Noted(TRUE, link) /\ NextExtension

Goto(to) == pc' = to /\ UNCHANGED <<options, ext, yieldLogs>>

Load ==
  /\ pc = "load"
  /\ \E onChain \in ExtAccounts :
       IF onChain = Absent THEN Failed
       ELSE \E type \in YieldTypesRead(onChain) :
              IF IsKnown(type)
              THEN /\ account' = onChain
                   /\ auth' = loadGlobal(type)
                   /\ Goto("build")
                   /\ UNCHANGED <<ixs, returnData, txns>>
              ELSE Failed
  /\ UNCHANGED <<chainVars, slackMessage>>

\* The sync, and the claims that passed validation and simulation; without an
\* index there is nothing to sync.
Syncs(variant) == variant # "NoYield"
Claims(variant) == IF variant = "Crank" THEN 0..MaxClaims ELSE {0}
BuildInstructions ==
  /\ pc = "build"
  /\ IF Syncs(auth.variant)
     THEN \E claims \in Claims(auth.variant) :
            /\ ixs' = [ixs EXCEPT !.built = 1 + claims]
            /\ Goto("batch")
            /\ UNCHANGED <<account, auth, returnData, txns>>
     ELSE Failed
  /\ UNCHANGED <<chainVars, slackMessage>>

\* One transaction per batch, signed by the keypair or else by Turnkey; with
\* neither, signing throws.  A proposal takes the index read just before.  The
\* builder's simulation only sets the compute budget, and may fail.
CanSign == options.signer \/ options.turnkey
Signer == IF options.signer THEN "keypair" ELSE "turnkey"
Proposal == IF options.squads THEN multisig + 1 ELSE 0
Built(payer, signedBy, proposal) ==
  [ext |-> EXTENSIONS[ext], status |-> "built",
   payer |-> payer, signedBy |-> signedBy, proposal |-> proposal]
BuildTransaction ==
  /\ pc = "batch" /\ ixs.batched < ixs.built
  /\ IF CanSign
     THEN /\ txns' = Append(txns, Built(options.pubkey, Signer, Proposal))
          /\ ixs' = [ixs EXCEPT !.batched = @ + BatchSize]
          /\ Goto("batch")
          /\ UNCHANGED <<account, auth, returnData>>
     ELSE Failed
  /\ UNCHANGED <<chainVars, slackMessage>>

AllBuilt ==
  /\ pc = "batch" /\ ixs.batched >= ixs.built
  /\ Goto("send")
  /\ UNCHANGED <<chainVars, runVars, txns, slackMessage>>

\* Three tries, each of which may throw; a dry run returns the transaction.
Unsent == {i \in 1..Len(txns) : txns[i].status = "built"}
Send ==
  /\ pc = "send" /\ Unsent # {}
  /\ IF options.dryRun
     THEN /\ txns' = [txns EXCEPT ![Min(Unsent)].status = "returned"]
          /\ returnData' = Append(returnData, Min(Unsent))
     ELSE \E accepted \in SUBSET (0..2) :
            /\ txns' = [txns EXCEPT ![Min(Unsent)].status =
                          IF accepted = {} THEN "dropped" ELSE "sent"]
            /\ returnData' = IF 0 \in accepted THEN Append(returnData, Min(Unsent))
                             ELSE returnData
  /\ Goto("send")
  /\ UNCHANGED <<chainVars, account, auth, ixs, slackMessage>>

\* The first signature becomes the link; 0 stands for the "undefined" of none.
Link == IF options.dryRun \/ returnData = <<>> THEN 0 ELSE Head(returnData)
AllSent ==
  /\ pc = "send" /\ Unsent = {}
  /\ IF options.dryRun THEN Succeeded(0)
     ELSE Goto("confirm") /\ UNCHANGED <<runVars, txns>>
  /\ UNCHANGED <<chainVars, slackMessage>>

\* A confirmation waits for the end of a transaction, well or not, or for its
\* blockhash to expire.
Ended(t) == t.status \in {"landed", "failed"}
AnyConfirmed == returnData = <<>> \/ \E i \in ToSet(returnData) : Ended(txns[i])
AllLanded == \A i \in ToSet(returnData) : txns[i].status = "landed"
AllConfirmed == \A i \in ToSet(returnData) : Ended(txns[i])
Confirm ==
  /\ pc = "confirm"
  /\ \/ AllConfirmed /\ Succeeded(Link)
     \/ (\E i \in ToSet(returnData) : txns[i].status = "dropped") /\ Failed
  /\ UNCHANGED <<chainVars, slackMessage>>

\* Wherever the node, the database, Turnkey or a simulation is asked, the
\* answer may be an error.
Throw ==
  /\ \/ pc \in {"load", "build", "confirm"}
     \/ pc = "batch" /\ ixs.batched < ixs.built
  /\ Failed
  /\ UNCHANGED <<chainVars, slackMessage>>

\* Whatever happened, the process posts what it noted, and exits.
Report ==
  /\ pc = "report"
  /\ slackMessage' = slackMessage \o yieldLogs
  /\ Goto("exited")
  /\ UNCHANGED <<chainVars, runVars, txns>>

Bot ==
  \/ GetEnv \/ CheckBalance \/ Load \/ BuildInstructions \/ BuildTransaction \/ AllBuilt
  \/ Send \/ AllSent \/ Confirm \/ Report

Next ==
  \/ Bot \/ Throw \/ Network
  \/ ProposeOther

\* The process goes on, and the network decides on what it was sent.
Spec == Init /\ [][Next]_vars /\ WF_vars(Bot) /\ WF_vars(Network)

-----------------------------------------------------------------------------
\* Whatever fails, the message posted at the exit has, after the warning there
\* may be, an entry for each extension, in order, or says that the start failed.
EveryExtensionIsReported ==
  pc = "exited" =>
    /\ slackMessage \in {warnings \o yieldLogs : warnings \in {<<>>, <<Warning>>}}
    /\ [i \in DOMAIN yieldLogs |-> yieldLogs[i].name] \in {EXTENSIONS, <<"startup">>}

\* The link of a reported success leads to a transaction of that extension,
\* sent in this run, that the chain has executed: confirmations are awaited for
\* all, and transactions of earlier extensions do not get mixed in.
LinkedTransactionEnded ==
  \A i \in DOMAIN yieldLogs :
    yieldLogs[i].link # 0 =>
      /\ txns[yieldLogs[i].link].ext = yieldLogs[i].name
      /\ Ended(txns[yieldLogs[i].link])

\* The payer that getEnv chooses is the one main.ts signs for, in every
\* environment: the two decide apart which signer takes precedence.
PayerSigns == \A i \in DOMAIN txns : txns[i].payer = txns[i].signedBy

\* An extension is handled as the variant it is, with the fields that variant
\* has, whether or not an admin is pending and whatever the bytes of its keys.
GlobalIsDecoded ==
  auth # <<>> =>
    /\ auth.variant = Variants[account.type + 1]
    /\ auth.variant = "Crank" => {"earn_authority", "last_ext_index", "timestamp"} \subseteq auth.has
    /\ auth.variant = "ScaledUi" => "last_ext_index" \in auth.has

\* The process ends, whatever the node, the network and the other members do.
RunEnds == <>(pc = "exited")

\* The README of the yield bot: with Squads "the bot wraps the batch in a Squads
\* vault transaction + proposal", so if no one else proposes, every executed
\* transaction of an extension reported as a success is a proposal.
EveryBatchIsProposed ==
  \A i \in DOMAIN yieldLogs, j \in DOMAIN txns :
    /\ yieldLogs[i].success /\ yieldLogs[i].name = txns[j].ext
    /\ txns[j].proposal # 0 /\ Ended(txns[j]) /\ others = 0
    => txns[j].status = "landed"
=============================================================================
