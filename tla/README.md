# Verification of $M on Solana

TLA+ models of the repository's own logic, checked with TLC on small instances
and, for most of them, proved with TLAPS for every instance: the earn program, its message
path, the merkle tree and its verifier, the handing over of the mint, the bot and what its claims issue, and the
indexer's repair. Paths below are relative to the repository root.

## 1. The system

$M is a Token-2022 mint. The M index grows on Ethereum; messages bring it, and
the merkle root of the earner list, to the `earn` program, which raises the
mint's multiplier and thaws or freezes token accounts. An operator sets all this up
from a command line. Off chain, an SDK builds merkle proofs and yield claims, a bot
sends the claims, and a Substreams pipeline fills the database the claims are
computed from.

| Component | State it keeps | Operations | What makes it correct |
| --- | --- | --- | --- |
| Earn program, `programs/earn/src` | `EarnGlobal` (admin, portal authority, root); through its PDA, the mint's multiplier and the freeze state of every account | `initialize` (two builds), `propagate_index`, `add_registrar_earner`, `remove_registrar_earner`, `recover_m`, `update_portal_authority` | the multiplier and the root are those of the newest update; only proven earners are thawed, only excluded ones frozen; custodians can always move M; events are the multiplier's history; migration is backed |
| Token-2022 (external) | mint, supply, accounts | create, close, set owner, transfer, mint, burn | not ours: the environment of the earn program |
| Merkle verifier, `utils/merkle_proof.rs` | none | `verify_in_tree`, `verify_not_in_tree` | exactly the listed keys can be proven in, exactly the others out |
| SDK merkle tree, `sdk/src/merkle.ts` | sorted keys, their hashes, the levels, the root | construct, `addLeaf`, `removeLeaf`, the two proofs, the two verifiers | proofs it makes are accepted; updates in place equal a new construction; its verifiers agree with the program's |
| Index delivery (hub and portal external) | messages under way | send, deliver, set up | indices and roots arrive in spite of loss, repetition and reordering |
| Operator CLI, `services/cli/main.ts` | what a command has read so far; transactions waiting for the multisig | `create-m-mint`, `update-mint-uri`, `initialize-earn`, `update-portal-authority`, `add-registrar-earner` | the mint ends in the right hands; a listed earner gets thawed though the reads are not atomic |
| Claim computation, `sdk/src/earn_auth.ts`, `db.ts` | none; reads chain and database | `buildClaimInstruction`, `simulateAndValidateClaimIxs` | a claim pays what was accrued, and all claims stay within the collateral |
| Yield bot, `services/yield-bot/main.ts`, `services/shared` | transactions under way, the report | start, build, propose, send, confirm, report | every extension is served and reported truthfully |
| Extension accounts, `sdk/src/accounts.ts` | none | find the variant, choose the decoder | an account is read as what it is |
| Indexer, `substreams/substream-utils`, `substreams/graph` | the rows of a block | structure logs, map a block to rows | no event of a block is lost, doubled or given to another call |
| Cursor tooling, `substreams/tooling` | the sink's rows and cursors | `write-cursor-auto` | a repaired sink goes on, and misses no more than two blocks |

How they interact: the portal program calls `propagate_index` (a cross-program
call, signed by its authority PDA); the CLI and anyone's wallet call the other
instructions with proofs made by the SDK; the program calls Token-2022 for every
freeze, thaw, transfer and multiplier update; `IndexUpdateV2` events flow through
the transaction logs to the indexer and so to the claim computation.

What is hard here: messages that are lost, repeated, late and reordered; two
kinds of messages (with and without a root) ordered by one number; instructions
open to anyone, racing each other and the token program's own calls; cached
account states read before a series of calls; a merkle tree that repeats nodes at
every odd level; padding in place that survives into later updates; a command
whose reads of two chains are seconds apart and whose transaction may wait in a
multisig; a bot whose sends fail, half fail, or take effect in the next run; a
crash between a row and the cursor behind it. Within a transaction nothing runs
concurrently: Solana transactions are atomic and isolated, so an instruction is one
action and an error is a disabled one.

`PROJECT.json` lists each hazard with its line and the properties aimed at it.

## 2. Modules

| Module | What it is |
| --- | --- |
| `Token2022` | the external token program: accounts, supply, multiplier, and what anyone can do to them |
| `EarnProgram` | every instruction of `lib.rs`, over `Token2022`; the properties of the program |
| `IndexFeed` | the abstract specification: what the program promises to those that follow the index |
| `EarnProgramProofs` | proofs of the index properties, the account properties, the refinement, migration and recovery |
| `CrossChainIndex` | `EarnProgram` at the end of a message path; ordering and liveness |
| `CrossChainProofs` | proof of its ordering property |
| `MintSetup` | the transaction of `create-m-mint`, instruction by instruction |
| `OperatorCli` | the commands of the CLI, composed with `CrossChainIndex` and `MintSetup` |
| `OperatorCliProofs` | proof that the mint stays handed over |
| `MerkleProof` | `merkle_proof.rs`, as operators on terms |
| `MerkleTree` | the SDK's tree, its updates, proofs and verifiers, judged by `MerkleProof` |
| `MerkleTreeProofs` | proofs of what the verifier can be convinced of, and of the tree's proofs and updates |
| `LogStructuring` | the indexer's walk over a transaction's calls and log lines, and the event rows it makes |
| `LogStructuringProofs` | proofs that the walk finds its lines, gives each call its own and rebuilds the tree of calls, and that the rows are the events |
| `ClaimComputation` | the database queries and the walk that computes a claim, as operators |
| `YieldBot` | runs of the bot over `ClaimComputation`, the chain, the indexer and the network: what claims pay |
| `YieldBotProofs` | proofs that the vault covers every claim the bot lets pass, and that a claim pays what was accrued |
| `ExtGlobal` | the layout of an extension's global account, and how the SDK finds its variant |
| `BotProcess` | one process of the bot over `ExtGlobal`, from its environment to its report |
| `BotProcessProofs` | proofs of its report, its links, its signers and the layout of the accounts it reads |
| `IndexerSink` | the sink's rows and cursors, its crashes, and `write-cursor-auto` |
| `IndexerSinkProofs` | proof that only repairs leave gaps |
| `MCEarnProgram`, `MCCrossChainIndex`, `MCOperatorCli`, `MCMerkleTree`, `MCLogStructuring`, `MCYieldBot`, `MCBotProcess`, `MCIndexerSink` | constants for TLC |

An operator placed directly before another of the same parameters (`AlwaysFresh`
before `IsFresh`) is a plausible mistake in that code. For each property there is
one that makes it fail under its own run, so each property depends on the code.

### Correspondence with the code

`EarnProgram`. `global` is the `EarnGlobal` account (the mint and the extension
swap never change, so they are constants; an `admin` of `DefaultKey` means the
account does not exist). `multiplier` is the mint's `new_multiplier`, named by the
index it stands for. `PORTAL_PROGRAM` is a variable because a program upgrade
changes it and only `update_portal_authority` then moves custody. `events` holds
the emitted `IndexUpdateV2`. `seen` and `grants` are history: the updates the
program authorised, and why each account was thawed. Each instruction is one
action with the account constraints and `validate` as its guard and the handler,
with all its token calls, as its effect. `update_multiplier`, which drops an index
that raises nothing without an error, is `Raised`; `principal_to_amount_up` is
`PrincipalToAmountUp`. It gets the index back from the f64 multiplier by truncation
(`Truncated`), which for a few indices in a hundred gives one less than was sent: the set `Inexact`
is any set of indices. The
cargo features `testing` and `migrate` are constants, and so are the accounts of the old program that
`initialize` may find when it migrates (`OldGlobals`).

A merkle root is the set of keys it commits to. That is not an assumption about
the verifier but the statement of `InclusionIsExact` and `ExclusionIsExact`,
checked on the verifier itself. The all-zero root commits to nothing and nothing
verifies against it. The empty list has a tree of one leaf, the default key, so
its root is `{DefaultKey}`, under which any other key can be proven absent.

`Token2022` is taken from how the program uses it: accounts start frozen, a
frozen account cannot send, receive or change hands but can be closed when empty,
an associated account has a fixed owner, and the permanent delegate moves M only
out of thawed accounts into thawed accounts. That last fact is why `recover_m`
must thaw, move and freeze, and why a source that is its own destination fails.

`IndexFeed` knows four things: whether the feed has started, the index, the root,
and the log of published indices. It starts at an index not below the mint's, and
from then on either publishes a larger index, once, or replaces the root at the same
index. `EarnProgram` implements it with `started` as `Initialized`, `index` as
`multiplier`, `root` as the stored root and `log` as the indices of the events
(`ImplementsIndexFeed`).

`CrossChainIndex` adds the hub's index and list, the set of messages ever sent,
and the number of the message whose root is in force. `Deliver` takes any message
of the set, and the message stays there: loss is never delivering, repetition is
delivering twice, reordering is free. `Setup` is `initialize-earn`: it reads the
hub's index and may execute later, so any index up to the current one is tried.

`OperatorCli` takes that command apart. `cli` is what the command under way has read;
each `await` is a step, and any of them may `Fail`. A transaction is sent by the
payer or printed for the multisig that holds `SQUADS_VAULT` (`Submit`), which executes it
whenever it likes (`Approve`); a multisig may also never do so. `create-m-mint` is one
transaction: `MintSetup` folds its instructions over the mint, and one that cannot
execute (an extension after `InitializeMint`, an authority that is not the payer's)
takes all back. Unless an owner is given, minting goes to `token_authority`, the portal program's
address of the seed `"token_authority"`, which differs from each of its authorities in
`EarnProgram` (`Portals`), the addresses of the seed `"authority"`. Accounts start frozen and the program may act on the mint only if
`ProgramControlsMint`. The reads of `add-registrar-earner` are `GetEarners`, `FetchGlobal` and
`GetMerkleRoot`, then the transaction; its proof is good if the list read first is
the one whose root is stored when it executes.

`MerkleProof` takes Keccak as free of collisions: a hash is the term it was built
from, with the leaf and node prefixes as the two shapes of a term. `MerkleTree`
holds the four fields of the object; that the array of hashes *is* the lowest level
of the tree, and is padded with it, is kept, because the updates depend on it. An object that
lost its last key (`Emptied`) has no hashes, while the constructor gives an empty list the default key's:
the root is the same, the object is not (`RootIsNew`, `IsNew`). The
constructor's `Set` drops repeated objects and not repeated keys, so the constant `Lists`
has lists with one key twice; the proofs take any lists. A proof is any that opens the root node
by node (`ProofsTo`): without collisions no other can lead to it. `Text` says how keys order when `<` compares the text
their bytes decode to; the constants give two keys an order unlike that of
their bytes.

`LogStructuring` first lets the external runtime execute a transaction (any tree of
calls, any lines, the list cut anywhere, short lines still entering after the cut, programs
that write nothing) and then walks it as the code does: `OpenNext` is one iteration
of the loop over the instructions with `LogStack::open`, `CloseLast` one iteration of the
loop that pops them, or of the one after it, with `LogStack::close`. A line carries,
as a ghost, the call that wrote it, which the code never reads and the properties compare with.
Failed transactions are dropped by `get_context` and
`get_structured_instructions`, so only successful ones are committed; every call has
a stack height. `PROGRAMS_WITHOUT_LOGGING` is taken to list all programs that write
nothing: that the runtime has no other is an assumption about it. The last loop of the code does not set
`parent_instruction`; nothing the indexer runs reads it.

`YieldBot` has one action for each stretch of `distributeYield` and
`buildAndSendTransaction` between two awaits at which the world can matter: `Load`,
`ValidateDatabaseData`, `GetAllEarners`, one `BuildClaim` per earner (each reads the
database anew), `Simulate`, `ValidateClaims`, `BuildTransactions`, one `Send` per transaction
with its three tries, `AllSent` and `Confirm`. `Throw` is a call to the node or the
database that fails; `yieldCLI` catches it and the next run starts. The queries
of one `BuildClaim` are one step: they are bounded by the latest update that was read
first, and the indexer only appends. `simulateAndValidateClaimIxs` is two steps: `Simulate` executes the
claims on the chain as it is and keeps in `rewards` what they would pay, and
`ValidateClaims` reads the supply, the vault and the database's index, which may be those of a later
time. Its three reads are one step, which is an abstraction; a run without claims skips both.
`crossed` is a ghost: claims of a run were simulated and could still execute when the index was
updated or the claims of another run were simulated. A transaction that was executed or
has expired is `Over`, since the bot does not tell which: `confirmTransaction` looks at no error. `history` is the chain; the database is its first `indexed`
transactions, in block order, at most one to a block. The note `held` of a transaction (the balances after
it) is a ghost for the properties. A run stands for an extension of one invocation or of the
next; invocations do not overlap, but transactions of one run may still be under way in
the next. The extension program is external: `sync` takes
over the newest index and its time, `claim_for` pays the interest of the claimed balance
and refuses a second claim at an index. It also knows an error for insufficient
collateral; the model does not rely on it, so `Collateralised` is about the bot's own check.

`BotProcess` keeps what `YieldBot` leaves out and leaves out what claims amount to.
`GetEnv` tries every environment: no, a good or a malformed keypair, Turnkey key, EVM key
and Squads address, dry run or not. `CheckBalance` warns or goes on. For each extension,
`Load` reads the account through `ExtGlobal` (any variant, also one newer than the SDK, or none),
`BuildInstructions` makes a sync and any number of claims, `BuildTransaction` a transaction per batch, as a
proposal if there is a multisig, `Send` has the three tries, and `Confirm` waits. `Throw`
fails wherever something external is asked. `Report` is the exit.
`Land` executes a proposal if its index is the next and fails it otherwise; other
members propose too (`ProposeOther`).

`ExtGlobal` lays the account out field by field, because the byte that holds
the variant moves by the width of a key while an admin is pending; a byte within a key
may have any value.

`IndexerSink` has the chain (`Produce`), the sink (`Start`, `Insert`, `Advance`, `Save`), its crashes
and the deployment of builds with other module hashes (`Stop`), and the tool. The sink
is external; from its use it is known that it stores a cursor per hash, starts
behind it, and may crash at a row it has inserted before, which is when the operator
runs `write-cursor-auto`. The READMEs of `substreams` and `substreams/tooling` describe this crash;
`substreams/db/Dockerfile` takes a build said not to crash so. Each row met again may do
either, so the properties hold for both. The tool finds the highest slot of a row, asks for the block of the slot
after it, and overwrites a cursor.

## 3. Runs

| Run | Question | Bounds | Distinct states |
| --- | --- | --- | --- |
| `EarnIndex` | do multiplier, root and events survive any order of updates, after any migration that is accepted, and does a follower see the feed of `IndexFeed`? | 3 indices, 3 roots (none and two lists), portal and admin both calling; 3 start multipliers (2, 3, 5) and supplies up to 3, old indices 3 and 5, of which f64 gives 5 back as 4, against an old supply of 4 at scale 2 | 98,608 |
| `EarnAccounts` | who can move M, whatever anyone does? | 5 addresses (2 free ones, symmetric, and 3 associated), 2 portals, 1 user, principal up to 2, 3 roots | 381,872 |
| `Bridge` | can an older root come back, and does everything sent take effect? | 3 messages, index 1 to 3, 2 lists, any delivery | 20,598 |
| `BridgeStaleRoot` | are all stale roots ignored? (violated) | as `Bridge` | first found |
| `Merkle` | does a root stand for its set, are updates in place right, do the verifiers agree? | every list of at most 7 keys, one of them possibly twice, every key, every proof that opens the root; every order of adding and removing, up to 9 hashes | 8,694 |
| `MerkleExclusion` | is every exclusion proof accepted? (violated) | as `Merkle` | first found |
| `Yield` | does a claim pay what was accrued, and is the extension covered? | 2 symmetric earners, 1 other account, 2 M, indices 1, 2, 4, 2 runs, 2 instructions to a transaction, 1 transfer, any lag and race | 1,694,993 |
| `LogLines` | does each instruction get its own lines and its row? | 3 calls, 3 programs, any nesting, 2 lines besides invocations and successes, any cut | 2,467,255 |
| `BotProcess` | does the process end and report truthfully? | 2 extensions of any variant, 3 settings of each of 4 variables, 2 instructions to a transaction, 2 claims, 1 proposal of another member | 1,100,000 |
| `SquadsBatches` | is every batch of a success proposed? (violated) | as `BotProcess` | first found |
| `OperatorCli` | is the mint handed over, and a listed earner thawed? | 1 earner, 2 lists, 2 messages, 2 indices, 2 transactions waiting for the multisig, all options | 640,274 |
| `IndexerSink` | what does the sink lose, and does it get to the end? | 4 slots, 2 rows to a block, 2 hashes, 2 crashes or deployments | 1,054,824 |

Why the bounds are enough to mean something. Three indices give smaller, equal
and larger updates around any current one, and a chain of two events. Two lists
and the absent root are the cases `propagate_index` distinguishes. Two portals let
an upgrade happen with and without `update_portal_authority` after it, and back.
Two free accounts let a recovery go from one to the other in either state. At
a scale of 2, a supply of 3 at index 3 is 4.5 units of M and is refused only because
`principal_to_amount_up` rounds up; a supply of 2 at index 5 is 5, found to be 4 and taken over; and
none of the old indices is the scale, at which the program does not compute. Rounding down, or the
term `lost` left out of `MigrationIsBacked`, and TLC finds it violated.
Three messages hold an update, one that
overtakes it, and one in between or without a root. Seven keys have odd levels at
the bottom (3, 5, 7 keys) and above it (5 and 6 keys), up to depth three; five is
the first size at which a level above the leaves is odd. Three calls are the least
that nest two deep or have two siblings inside a third, so
that lines come before, between and after inner calls. Two runs let a
transaction of one execute in the next, and a claim follow a claim; two updates after the first
let a claim cover one or both. `ClaimsPayAccrued` counts what is due in a `Unit` of which every
index is a factor, so that it is exact, and allows for the rounding of each division the
walk and the program make; with indices that divide each other only that of the
claimed balance is left, less than a token for each by which the index has grown. A sync and two
claims are more than the 2 instructions of a transaction, so the
second claim is sent apart and may execute first, late or never, as in the code, where only the first of
the batches holds the sync.
Two extensions show whether the failure of one reaches the next; two instructions to a transaction
and three to build make two batches, so two proposals. Two messages
let the root change between the reads of a command and again before its transaction. Two
rows to a block let a crash cut a block short, two hashes let a build start from no
cursor, four slots leave blocks before, at and after a repair, skipped ones among them.
The limits at the end of this section say what `Yield` assumes and why.

`Indices` has a single value in `EarnAccounts` because the index plays no part in
what freezes and thaws; `MaxSupply` is 0 where balances play none. `EarnIndex` is the
run of the migrating build and `EarnAccounts` that of the other; the
instructions after `initialize` are the same in both. Deadlock is checked except in
`LogLines`, whose transaction ends, `Yield`, which ends with the last run and
update, `BotProcess` and `SquadsBatches`, whose process exits, and the Merkle runs:
an object without keys to add or room for them stops.

### What the violations say

* `StaleRootIsIgnored`. Updates of an equal index replace the root, in the order of
  delivery. What does hold is `RootRevertsOnlyAtSameIndex`, and, for a list that the
  hub sent alone at its index, `RootEventuallyPropagates`.
* `ExclusionAccepted`. With 5 keys (or 6, 9 to 14, ...: whenever a level above the
  leaves is odd), the SDK's exclusion proof of a key above all of them ends on the
  wrong one of two equal nodes, and the program refuses it. A convincing proof
  exists (`ExclusionIsExact`); the SDK does not build it. Until a different
  proof is made, an account of such a key cannot be removed with the SDK.
  `ExclusionAcceptedBelowLargest` is the part that holds.
* `EveryBatchIsProposed`. `proposeSquadsTransaction` reads the multisig's index for each
  batch, all before the first is sent, so two batches propose the same index. The second
  fails on the chain, its confirmation does not look, and the run is a success.

### Limits

What holds only under a condition, and how to see it. None of these has a run of its own.

* `ProvenOwnerIsFixed` speaks of accounts thawed by a proof. `recover_m` also thaws,
  without asking for an immutable owner, so not every thawed account belongs to the
  owner it had when thawed, as a comment of `remove_registrar_earner` (line 35)
  concludes. To see it, check `EarnAccounts` with the action property that no step
  changes the owner of an account thawed before and after it.
* `MigrationIsBacked` does not promise that all M is covered. At an index that f64 gives back one
  lower (`Inexact`), the supply is valued at that lower one, and what the old mint does not cover can reach,
  and not pass, a unit of M for every `IndexScale` units of principal (a millionth of a millionth
  of it, since the program's scale is 10^12).
* `UpdatesKeepLikeNew` leaves out adding to an odd number of keys from three on, and to an
  object that lost its last key. In both, `addLeaf` leaves a hash too many: in the first the repeated hash of
  the earlier padding; in the second a second copy of the only key's (`merkle.ts` line 189), so that
  the root is that of two equal leaves. Neither is the root of a new tree of the same keys. To see it,
  check in `Merkle` that every step from `RootIsNew` leads to `RootIsNew`. The CLI builds a new tree for each
  proof, so it does not meet this.
* A key listed twice leaves the root exact (`InclusionIsExact`, `ExclusionIsExact`), but
  the SDK's exclusion proof for a key just above it uses its first copy, which is not
  adjacent to the next key; `ExclusionAcceptedBelowLargest` says so.
* `VerifiersAgree` is about keys whose text orders as their bytes do. A `Buffer` compared with
  `<` is decoded as text first, which for bytes of 128 or more does not keep the order:
  without the condition TLC finds a proof only one of the verifiers accepts. And
  an object of one leaf accepts the exclusion of any key, its own included.
* `ClaimsPayAccrued` needs index updates that have a second of their own (`UpdatesApart`). To see it, check
  `Yield` with `Gaps = {0, 1}` and without that condition: of two updates of one second the walk skips
  the later, but the claim is normalized against it, and the interest between them is lost. It
  speaks of claims that execute at the indices they were computed for; one that executes at others may
  pay another amount.
* `Collateralised` needs that nothing crosses a run (`crossed`): that from the simulation of its claims
  until the last of them is executed or expired, the index is not updated and no other run
  simulates claims. A claim is paid at the index of its execution, and only the first batch
  syncs, so what was validated at one index may be paid at another. Either is enough to break
  it. A transaction of an earlier run, late by a run, lands between two batches of the
  next: to see it, check `Yield` without `~crossed`. Or, with more M and a
  further index, an update alone does: with `Principal = 4` and indices 1, 2, 4, 8,
  claims validated at 4 and executed at 8 issue 34 against 32. Then only the external program could
  refuse. How the batches of one run are ordered, delayed and dropped does not matter.
* `validateDatabaseData` compares the database with the index the extension was synced to
  last, while the sync in the same run takes over the mint's newest; a database that misses
  updates since then passes.
* `LinkedTransactionEnded` is about the link. The signature is kept only from the first of
  three tries, so a transaction accepted at a later one is neither awaited nor linked, and the
  run is a success while it is under way. And a transaction that failed on the chain counts as confirmed.
* `MintIsHandedOver` says where `create-m-mint` puts the minting, not that it can be used from there.
  Line 98 of `services/cli/main.ts` derives that address from the seed `"token_authority"`; its line 67,
  which prints the Portal Token Authority, the earn program (`state.rs` line 24, used by
  `initialize`) and the program's README (line 28) derive the portal's authority
  from `"authority"`. The property says that the two differ: no portal authority the earn program
  accepts has the minting. Which of them the portal program mints with is in its own
  repository; if it is the second, the mint needs `--owner` or a later hand-over.
* `GapsAreAtRepairs` names what a repair does lose: the rest of the block the crash cut short,
  and the block whose cursor is written, which the sink takes for done.
  `SinkCatchesUp` names when the tool does not help: the slot after the highest row's has
  no block, or no cursor was ever stored. Here the chain ends, so the first of these also excuses a
  sink that collides at the last slot; on a chain that goes on, the next block would free it.

## 4. Fairness

* `Bridge`: `WF(Setup)`, the admin does run `initialize-earn`, and
  `WF(m sent and Deliver(m))` for each message, the relayer and the portal hand every
  message over at least once. This is what the code relies on: nothing in the
  repository retries or asks again for an index, and `propagate_index` returns
  success for a stale update, so that a delivery never blocks. The sending side has
  no fairness: the hub may stop at any time.
* `BotProcess`: `WF(Bot)`, a process goes on to its next statement, its calls return or
  throw; `WF(Network)`, the network executes or drops each transaction it was given, as
  blockhashes expire. That calls throw, that transactions succeed or that others propose is never assumed.
* `OperatorCli`: strong fairness of the steps of `add-registrar-earner`, the operator repeats
  it and its calls do not fail for ever; weak fairness of `Fail`, so that a command that
  cannot go on ends. Strong, since each step is enabled only while the command is at it.
  That lists and roots settle is the premise of the property.
* `IndexerSink`: weak fairness of the chain and of the sink's start, reading and
  inserting, as the sink is restarted by its service; strong fairness of `WriteCursorAuto`: if
  the sink goes on crashing at the same rows, the operator acts between two crashes. Where the build accepts
  such rows, it does not crash again and nothing is asked of the operator. Saving a cursor
  has none: the sink may crash before every save.

No fairness is given to proofs, removals or recoveries that depend on somebody caring
to call them, other than the command above, and no property says they happen.
`YieldBot` has safety properties only.

## 5. Proofs

Assumptions are the named ones of `Token2022` (keys are distinct, associated
addresses are distinct), `EarnProgram` (indices are positive, so are those f64 gives back one lower, which may be any of them; an old
program has an index and a root; roots are sets of
keys), `CrossChainIndex` (lists are sets of users), `MintSetup` (the payer is neither the vault
nor an address of a program), `OperatorCli` (the portal's addresses of the two seeds differ), `MerkleTree` (keys are numbers other than the default key's, lists
are lists of them), `LogStructuring` (the programs that write nothing are programs; the bounds
are numbers, any numbers), `YieldBot` (finitely many earners, indices that do not decrease, a `Unit` that they divide, as any common
multiple is, and a batch holds an instruction), `BotProcess` (there is an extension, and a batch holds an instruction)
and `IndexerSink` (there is a hash and a slot); nothing bounds the sets or numbers.

`EarnProgramProofs` proves type correctness, then the invariant `IndexInv`. The
index properties are not inductive alone: they speak of an initialised program, and
nothing in them says that before initialisation there were no updates and no
events. `NothingSeenBefore` adds that. `RootIsNewestUnlessOvertaken` is preserved
only with the multiplier being the maximum of the updates seen, because an update
is ignored for being below the multiplier, not for being below the root's own
index; so the conjuncts are proved together. There is one lemma per instruction
and one for all steps that leave the index part alone.

Its second part proves the invariant `AccountInv`, which strengthens the two
account invariants by three facts: an existing account at an associated address
belongs to its custodian and is immutable (`AtaOwned`; without it
`init_if_needed` might take over a stranger's account), the current portal
authority is a real portal (`PortalKnown`), and a proven grant points to an existing
account (`ProvenExists`; without it a closed and reopened account might inherit
one). It rests on `IndexInv`: that a proven key was in an *authorised* root is true
because the stored root is one of those seen. `OnlyNonEarnersAreFrozen` is then
proved as an action property, action by action; the only actions that freeze are
`RemoveRegistrarEarner` and `RecoverM`, and the second freezes only what was frozen.

Its third part shows that the program implements `IndexFeed`: `Initialize` is a start of the
feed, `PropagateIndex` publishes, replaces the root or changes nothing, and every other step leaves
the four feed variables alone. The migration theorem comes down to `principal_to_amount_up`
being never below the exact quotient at the index f64 gives back, which is at most one below the
multiplier's. The recovery theorem goes
through every step that moves principal and shows that only `RecoverM` takes any out
of a frozen account; its thaws and freezes are followed through the two accounts.

`CrossChainProofs` proves `RootRevertsOnlyAtSameIndex` from the invariant `OrderInv`: messages are
numbered as sent, their number is that of the set's elements (so a new one is the last); a message
with a root has an index not below any sent before it, because it carries the hub's
own, while one without a root may carry any older index; and the root in force is that of a
message whose index the multiplier has reached. An older root can be taken only with an index
that is at most the newer one's and at least the multiplier, so all three are equal.

`IndexerSinkProofs` proves `GapsAreAtRepairs` from `SinkInv`: everything behind the sink, behind
*each* stored cursor and before the block of *each* row is stored or was passed over. The first
alone is not inductive: a restart jumps to a cursor, and a repair to behind a row,
possibly one inserted under another build.

`OperatorCliProofs` unrolls the ten instructions of `create-m-mint`. The recursive
function of `AfterTransaction` is first shown to exist for any list of instructions, then each
instruction is shown to execute on what the one before it left: the payer holds each authority it
signs with until it gives that one away. `MintInv` then says which key holds each authority once
there is a mint, and that every transaction waiting for the multisig is the vault's; without
the latter, an approval could update metadata that is not the vault's.

`BotProcessProofs` proves three properties from `BotInv`. The report has one entry per
extension already served, in order (`LogsInv`); the final property does not say where in the process
each is written. A link must point to
a transaction that has ended, and it goes on pointing there because a transaction that has ended
stays so (`Progress`), while what is still waited for belongs to the extension being served
(`OwnTransactions`; without it a link might be another extension's). The signer of a transaction is
its payer because both are chosen from the same options, before any transaction exists (`OptionsInv`).
`GlobalIsDecoded` comes down to the layout: with and without a pending admin the byte at 40 is the
flag, and the variant is at the offset looked at, whatever bytes the keys have.

`MerkleTreeProofs` proves everything `Merkle` checks, for lists and proofs of any length.
The argument has five parts.

1. The recursive functions (`ComputedHash`, `Index`, `Levels`, `Sorted`, `ProofsTo` and the
   walk of `GetInclusionProof`) are shown to exist and unfolded one step at a time. Facts about all
   their steps are proved by a least counterexample, as the natural numbers are well founded.
2. A proof that leads to the root descends from it: each step opens a node of the tree, so it ends at
   a leaf, and the index it claims is that leaf's place or, where a level repeated its last
   node, that of a copy. Hence `InclusionIsSound` and `ExclusionIsSound`: neighbours of adjacent
   indices are at most one place apart in the sorted list, a first index is the first place and
   a last index the last one. That a leaf is never a node rests on the two hash prefixes.
3. Conversely the opening of the tree along any path is among `ProofsTo`, so what is sound is also
   complete (`InclusionIsExact`, `ExclusionIsExact`).
4. `TreeInv` holds however keys are added and removed: the keys are sorted, the hashes begin with
   theirs and fill whole pairs, and the levels and the root are those of the hashes. What stands
   after the keys' hashes is left open, since `removeLeaf` drops the last hash of an odd
   number, whatever it is. From `TreeInv` alone a made proof is accepted: the parent found
   by its hash is the first equal node, and a node over the first of its kind is the first
   of its kind.
5. `UpdatesKeepLikeNew` and `VerifiersAgree` add that an object like a new one keeps exactly as
   many hashes as the constructor would make, which an emptied object does not, and that a key
   listed once has one place.

An index is a number there: a proof of more than 64 steps, at which the `u64` of the program would
overflow, is longer than a transaction can carry, and the program is built to abort on overflow.

`LogStructuringProofs` proves the walk over calls and lines, and the rows made of them, for any number of
either, in five layers.

1. What the runtime leaves behind (`RuntimeInv`). The readable lines, those before the cut, tell
   the calls as a story (`Script`): calls are invoked in order; a call is invoked only
   when every earlier one it is not inside has ended; it writes only while nothing it made
   runs, ends after everything inside it and writes nothing after. This has to be said of
   *every* readable line, not of the whole log, because the walk stops at the cut; and it needs the calls
   still running to be those whose heights count up to the height of the stack (`RunningIsOpen`,
   `EndedIsLeft`), so that a new call is inside exactly them (`NewIsInsideRunning`).
2. The stack of the walk is the path from the top to its last call (`StackIsPath`), and everything above
   it that was reached is no lower than the next call (`NextIsAbove`), so comparing two
   heights finds the caller. Hence `TreeIsCallTree`.
3. While the log is read (`Reading`), the lines passed are those of the calls the walk has
   reached, what follows is of open or later calls, no open call has ended, and each open call
   that logs has its own lines on the stack of lines. That the two stacks have the same height when a
   call opens is where calls that write nothing come in: they make no calls (`SilentCallsAreLeaves`),
   so one of them can only be the last. With the story, the next line that ends a reading is then the
   one expected: the invocation of the next call (`OpenNextInvoked`), the end of the last
   (`CloseMeetsNoInvocation`, `CloseReadsOwn`), or the cut.
4. After the cut no open or later call ends in what can be read (`CutIsFinal`), so those are
   rightly left without lines.
5. When the walk is done, what is inside a call are the calls from the next one up to `Stop`, and the calls it
   made itself divide them (`ChildrenTile`): the first is the next call, each further one follows what is
   inside the one before. As they are closed in that order (`InnerAscends`), flattening puts consecutive
   parts of the list of calls one after the other, from the last call down to the top (`FlattenChildren`),
   and the flattened tree is that list again (`FlattenedIsSpan`): a row's place is the place its
   instruction was executed at. With `LogsAreOwn` the first event among a call's lines is the first it
   emitted, hence `EventsAreStored`.

The four parts of the invariant for the first four layers hold together as one (`Inv`); TLC checked it
on the `LogLines` instance before it was proved. The order of the inner instructions follows from it
(`RowsInv`).

`YieldBotProofs` proves `Collateralised` and `ClaimsPayAccrued` for any earners, batch size, runs,
transfers and indices. First `Collateralised`:

1. Sums over accounts (`Total` is a fold, defined by an arbitrary choice of the next account) are shown
   to exist and to be monotone and additive, by a smallest counterexample among the sets of
   accounts.
2. What the walk over the database computes is kept abstract: a claim's balance is an integer
   (`ClaimBalanceIsInt`), built into an instruction only if positive. The property does not
   depend on the claim being right, only on its having been validated.
3. A transaction that executes pays each claim the interest from the earner's last claim to the
   extension's index at that point, which is at most the mint's, and the mint's itself if the transaction begins with
   the sync (`ExecutedPays`). The simulation begins with it, so what was simulated bounds what any
   subset of the batches can pay, in any order (`InterestGrows`).
4. That bound is the inductive invariant `CoverInv`: while nothing has crossed, there is
   an amount `due` to each account such that what is issued and due together is within the collateral and
   each claim that may still be executed pays at most what is due to its earner. `Collateralised` alone
   is not inductive: an unexecuted claim would break it. One `due` to an account suffices only because at most one
   open claim is an earner's (`OneOpenClaim`), which needs that a run reads every earner once
   (`BotInv`), and that a run in which nothing has crossed simulates while nothing is
   open. While the claims wait for their validation, the amounts due add up to `rewards`; that
   the database's index is at most the mint's (`HistoryInv`) makes the check strict enough. A transfer
   moves balances and leaves `due`, and landing a transaction turns what was due into balance.

TLC checked the invariant on the `Yield` instance, with `due` the interest at the mint's index.

Then `ClaimsPayAccrued`, an action property, on top of that invariant (it needs its types, and that the claims
of a list are for different earners). What it says of a step follows from what is true of the claim since it was
built, so the invariant speaks of claims:

1. `LedgerInv`: times and indices along the chain do not decrease, and what a transaction does not post
   is held as before. So the balance the database finds for the second before an update is what was held
   at the update (`BalanceIs`), if the update has a second of its own.
2. `DatesInv`: the index and the time that the program keeps, for itself and for each earner, and
   those the bot read, are of one and the same update. So the walk starts at the update of the last
   claim, and its `Steps` are the updates from there to the latest one in the database.
3. `Walked`, `WalkedUp`: after each update, the walk's yield is between what was earned up to it, counted
   in units, and what the divisions so far may have taken from that. It is shown by going up the
   history to a smallest update for which it fails; the sums of the property are recursive
   functions, shown to exist and to add up in the same way (`SumToIs`).
4. `ClaimsInv`: each claim built or under way is for such a yield between its `from` and its `to`, at most the
   mint's index. Nothing the chain records later changes what was accrued between them
   (`RecordKeeps`): an update has no smaller index, and one of an equal index earns nothing.
5. A claim that executes pays the interest on its balance from the earner's last index to the
   extension's (`ExecutedPays`). If they are `from` and `to`, that is the yield but for
   two divisions (`PaidFor`).

TLC checked `LedgerInv`, `DatesInv` and `ClaimsInv` on the `Yield` instance, and on one with the indices 2, 3, 3, 5,
which do not divide each other, and transactions of one second.

| Theorem | Property |
| --- | --- |
| `TypeCorrect` | `TypeOK` |
| `MultiplierIsMaximum` | `MultiplierIsNewestSeen` |
| `RootIsNewest` | `RootIsNewestUnlessOvertaken` |
| `EventsAreGapless` | `EventsAreMultiplierHistory` |
| `MultiplierIsMonotone` | `MultiplierNeverDecreases` |
| `CustodyIsUsable` | `CustodyAccountsUsable` |
| `ProvenOwnerNeverChanges` | `ProvenOwnerIsFixed` |
| `EarnersKeepAccess` | `OnlyNonEarnersAreFrozen` |
| `ProgramImplementsFeed` | `ImplementsIndexFeed` |
| `MigrationIsAlwaysBacked` | `MigrationIsBacked` |
| `FrozenPrincipalIsOnlyMoved` | `RecoveryKeepsSourceFrozen` |
| `RootRevertsOnlyWithinAnIndex` | `RootRevertsOnlyAtSameIndex` |
| `GapsOnlyAtRepairs` | `GapsAreAtRepairs` |
| `MintStaysHandedOver` | `MintIsHandedOver` |
| `LinkedTransactionsHaveEnded` | `LinkedTransactionEnded` |
| `EveryExtensionHasItsEntry` | `EveryExtensionIsReported` |
| `PayerAlwaysSigns` | `PayerSigns` |
| `ExtensionsAreHandledAsTheyAre` | `GlobalIsDecoded` |
| `StaysCollateralised` | `Collateralised` |
| `ClaimsDoPayAccrued` | `ClaimsPayAccrued` |
| `WalkNeverPanics` | `NeverPanics` |
| `LogsStayOwn` | `LogsAreOwn` |
| `TreeStaysCallTree` | `TreeIsCallTree` |
| `EventsStayStored` | `EventsAreStored` |
| `InclusionIsSound`, `InclusionStaysExact` | `InclusionIsExact` |
| `ExclusionIsSound`, `ExclusionStaysExact` | `ExclusionIsExact` |
| `InclusionStaysAccepted` | `InclusionAccepted` |
| `ExclusionStaysAccepted` | `ExclusionAcceptedBelowLargest` |
| `VerifiersStayInAgreement` | `VerifiersAgree` |
| `UpdatesDoKeepLikeNew` | `UpdatesKeepLikeNew` |

Only model-checked: the liveness properties, as fairness is beyond the prover. Every safety property
that a passing run checks is proved for all instances.

## 6. Not modelled

* Multipliers as binary fractions: 53 bits do not fit TLC's integers. A multiplier is named by its index, which may
  be given back one lower (`Inexact`); for indices below 2^52, multipliers up to 4503, nothing else can
  come back. Two indices that round to one multiplier, which happens from 8192 on, would be equal to
  the program; that is not modelled. Account rent, seeds, bumps
  and discriminators are left out; addresses are values.
* The validation of the mint's extensions by `initialize` is what fixes the
  environment in `Token2022`: a mint that fails it never gets a program.
  `OperatorCli` has the part of it that depends on how the mint was made.
* Of the yield bot: priority fees, the log transport, the wording of messages; fees and
  other recipients of a claim (the earner is paid); wrapping and unwrapping during a
  run; overlapping invocations; transactions too large for the network. Claims without
  `pendingSync` and the clients `EarnManager` and `Earner` beyond reading an earner: nothing calls them.
* Of the CLI: `print-addresses`, which changes nothing.
* Of the indexer: several transactions in one block, whose order the database does
  not keep; `balance_updates` and accounts closed by a transaction, for which `token_accounts` gives no row;
  the decoders of external instructions, which the map does not use.
* Of the cursor tooling: `write-cursor`, which writes whatever block it is given, and `get-cursor`; the
  last irreversible block, which a cursor takes as 32 below the latest. The highest row is found by
  block height, which grows with the slot.
* `services/switchboard`: a fixed order of calls to another network's SDK, and what the
  oracles do with it is not in the repository.
* `services/cli/fb.ts`: imports symbols the SDK no longer exports, so it cannot run at this commit.
* `sdk/src/idl`, `substreams/graph/src/pb`, `migrations`: generated code and an empty hook.

## 7. What could come next

1. The three reads of `ValidateClaims` taken apart, and a second invocation of the bot that overlaps the first.
2. Several transactions to a block, in the database and in the sink.
3. A proof of `MultiplierIsNewestSeen` carried over to `HubSpec`
   (the environment of `CrossChainIndex` sends roots that are not constants).
4. The arithmetic of `conversion.rs` on fractions of a few bits, from which `Inexact` could be computed,
   with the rounding claims of the program's README.
