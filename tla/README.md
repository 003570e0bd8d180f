# A TLA+ development of the I/O Coin node

I/O Coin is a proof-of-stake currency derived from Bitcoin, PPCoin and
Blackcoin, with a naming layer (DIONS) of its own. The node is C++
(`src/src/*.cpp`, about 56 000 lines with headers; the TypeScript files of the
repository, `src/src/qt/locale/*.ts`, are Qt translations: text without
behaviour, which nothing here models; every mapped line is C++). This directory
models the part that decides which transactions and blocks the node believes in,
and on top of it what the wallet, the naming layer and the address manager make
of that; it checks the models with TLC on small instances and proves some of it
with TLAPS for all instances.

## 1. Inventory

| Component | Where | State | Operations | Interacts with |
|---|---|---|---|---|
| Best chain | `main.cpp` 1505-2417, `main.h` | `mapBlockIndex`, `pnext`, `pindexBest`, `nBestInvalidTrust`; LevelDB records `blockindex`, `tx`, `hashBestChain` | `AddToBlockIndex`, `SetBestChain`, `SetBestChainInner`, `Reorganize`, `ConnectBlock`, `DisconnectBlock`, `InvalidChainFound`, `LoadBlockIndex` | pool, wallets, database, checkpoints, DIONS |
| Memory pool | `main.cpp` 710-911 | `mapTx`, `mapNextTx` | `AcceptToMemoryPool`, `addUnchecked`, `remove`, `removeConflicts` | transaction index, best chain |
| Transaction relay | `main.cpp` 291-350, 3738-3800 | `mapOrphanTransactions`, `...ByPrev`, `mapAlreadyAskedFor`, `mapRelay` | `tx` and `inv` messages, `AddOrphanTx`, `EraseOrphanTx`, `LimitOrphanTxSize` | pool, wallets, peers |
| Block relay | `main.cpp` 2497-2780, 3803-3818 | `mapOrphanBlocks`, `...ByPrev`, `setStakeSeen`, `setStakeSeenOrphan` | `ProcessBlock`, `AcceptBlock` | best chain, checkpoints, peers |
| Synchronized checkpoints | `checkpoints.cpp` | `hashSyncCheckpoint`, `hashPendingCheckpoint`, `hashInvalidCheckpoint` | `ProcessSyncCheckpoint`, `AcceptPendingSyncCheckpoint`, `CheckSync`, `ResetSyncCheckpoint` | best chain, block relay |
| Transaction database | `txdb-leveldb.cpp/.h` | LevelDB, `activeBatch` | `TxnBegin`, `TxnCommit`, `TxnAbort`, reads through the batch | best chain, checkpoints |
| DIONS | `dions.cpp` 6423-6920, `db.cpp` 587-659 | `aliascache.dat`, `mapState` | `ConnectInputsPost`, `AcceptToMemoryPoolPost`, `RemoveFromMemoryPoolPost`, `LocatorNodeDB::filter`, `xsc` | best chain, pool, miner |
| Wallet coins | `wallet.cpp`, `wallet.h`, `walletdb.cpp` | `mapWallet` with `hashBlock`, `vfSpent`, `vtxPrev` | `AddToWallet...`, `DisableTransaction`, `CommitTransaction`, `ReacceptWalletTransactions`, `FixSpentCoins`, rescan | `SyncWithWallets`, pool, RPC |
| Wallet lock and key pool | `rpcwallet.cpp`, `wallet.cpp`, `keystore.cpp`, `crypter.cpp` | `vMasterKey`, `nWalletUnlockTime`, `setKeyPool`, `cs_main`, `cs_wallet` | `walletpassphrase`, `walletlock`, `walletpassphrasechange`, `TopUpKeyPool`, `ReserveKeyFromKeyPool` and two kinds of threads | RPC, everything under `cs_main` |
| Peers | `net.cpp`, `net.h`, rest of `ProcessMessage` | `vNodes`, buffers, `mapAskFor`, bans | threads for sockets, connections, messages | everything above |
| Address manager | `addrman.cpp`, `addrman.h` | `mapInfo`, `mapAddr`, `vRandom`, `vvTried`, `vvNew`; `peers.dat` | `Add`, `Good`, `Attempt`, `Connected`, `GetAddr`, saving and loading | peers |
| Alerts | `alert.cpp` | `mapAlerts` | `ProcessAlert` | peers |
| Stake kernel, script, miner | `kernel.cpp`, `script.cpp`, `miner.cpp` | (mostly pure) | `CheckProofOfStake`, `EvalScript`, `CreateNewBlock` | block relay, pool |
| RPC, GUI, start-up, utilities, vendored code | remaining files | | | |

`PROJECT.json` lists each of them with its status and the reason where nothing
is modelled. The chain, the pool, relay, checkpoints and the wallet's record all
run under `cs_main`, so handlers are not interleaved with each other; the lock
state of the wallet is shared by threads that hold different sections, or none.
What makes them hard is:

* *crashes*: one `SetBestChain` makes several LevelDB commits, a checkpoint is
  written in a commit of its own after the chain has been moved to it;
* *partial failure*: a reorganisation may fail in the middle of its batch, or
  after the batch in one of the "secondary" blocks;
* *order*: blocks, transactions and checkpoints arrive in any order, orphans
  are looked at exactly once, and loops walk containers they change;
* *limits*: bounded orphans, one block per proof of stake, buckets of addresses;
* *followers of the chain*: the wallet is told of blocks before they are
  committed, the alias index after, and neither hears of everything;
* *threads and timers*: relocking and key pool threads that outlive the command
  that started them, and exceptions thrown inside sections entered by hand.

What makes each component correct is stated by the properties of section 4;
the hazards behind them are listed, line by line, in `PROJECT.json`.

## 2. Modules

```
 Transactions --- MemPool ---+--- TxRelay ------ MCTxRelay
                             |        \--- TxRelayProofs
                             +--- ChainState --- MCChainState
 BlockTree --------------+---/        \--- ChainStateProofs
                         |    BestChain (abstract; instantiated by ChainState)
                         +--- SyncCheckpoints --- BlockRelay --- MCBlockRelay
                                                      \--- BlockRelayProofs
 ChainState --- WalletCoins --- MCWalletCoins
                      \--- WalletCoinsProofs
 Dions --- MCDions        AddrMan --- MCAddrMan
     \--- DionsProofs         \--- AddrManProofs
 WalletLock --- WalletLockProofs
 BlockTree --- BlockTreeProofs: lemmas ChainStateProofs and BlockRelayProofs share
```

**Transactions** - a fixed universe of transactions: the outputs each one spends
(`Vin`), how many it creates, whether it is a coinstake. `Unfit` stands for
every test that depends on the transaction alone (`CheckTransaction`, standard
scripts, size, fees). An output of value 0 is told apart because the
double-spend test of `ConnectInputs` ignores it.

**MemPool** - `CTxMemPool` as operators on a record `[mapTx, mapNextTx]`, and
`AcceptToMemoryPool` as the predicate `Acceptable` on pool and index.

**BlockTree** - the blocks and `pprev`, `nHeight`, `nChainTrust`, with what
`Reorganize` and `SetBestChain` compute by walking it (`Fork`, `Intermediate`,
`PathUp`, `PathDown`).

**ChainState** - how the best chain moves. `disk` is what is committed (links,
best block, and the transaction index as position and spent outputs), `batch` is
the same seen through `activeBatch`. One action per step that a crash can come
after: `AddToBlockIndex`, `EnforceCheckpoint` (the calls of `SetBestChain` in
`checkpoints.cpp`, for a checkpoint of any trust), `SetBestChain` (which
computes the branches), `Extend`/`ExtendFails`, `ReorganizeDisconnect`,
`ReorganizeConnect`, `ReorganizeFails`, `ReorganizeCommit`, `Resurrect`,
`DeleteRedundant`, `ConnectSecondary`/`SecondaryFails`, `SetBestChainDone`, and
`CrashAndLoadBlockIndex`. `BadBlock` stands for the tests of `ConnectBlock` that
do not depend on the index (signatures, rewards, signature operations).

**BestChain** - the abstract specification: the node learns blocks, and its best
block only moves to a known, valid block that has strictly more trust or is a
checkpoint the best chain did not hold. `ChainState` instantiates it with `known
<- diskBlocks`, `best <- disk.best`.

**TxRelay** - the `tx` message: accept, or keep as orphan and evict; then the
work queue over `mapOrphanTransactionsByPrev` and the erase queue. `pc` says
which loop of the handler is running. `BlockConnected` and `BlockDisconnected` are
what `ChainState` does, cut down to one transaction; `SendRawTransaction` is the
command, and the sends of the wallet. None of the three looks at an orphan.

**SyncCheckpoints, BlockRelay** - `ProcessBlock` and the checkpoints. Here
`SetBestChain` is a single step (`CanBeBest`). `ReceiveRefused`,
`ReceiveDuplicateOrphan`, `ReceiveOrphan`, `Receive` are the ways out of
`ProcessBlock` before `AcceptBlock`; then `AcceptBlockFails`, `AddToBlockIndex`,
`SetBestChain`/`SetBestChainFails`, `AcceptPendingSyncCheckpoint`, `Write`, and
`NextOrphan`/`NextInQueue` for the orphans. `Restart` comes between any two
steps and may find a changed master key, in which case `ResetSyncCheckpoint`
follows, or `ResetFails`, after which the process is down until the next start.
`Doubtful` blocks are those whose stake check may fail now and pass later ("we
expect this during initial block download"); `IsInitialBlockDownload` is free
above the last hardened checkpoint since it depends on the clock.

**WalletCoins** - the wallet composed with ChainState: every step of ChainState
that connects or disconnects a block carries what `SyncWithWallets` does to the
wallet in the same step (`ConnectStep`, `DisconnectStep`), while the batch may
still be aborted (`Abort`) or lost (`Restart`). `wallet` is `mapWallet` as four
fields: the known transactions, their `hashBlock`, the spent flags and the
copies in `vtxPrev` that `IsTrusted` goes by. `CommitTransaction` is a send,
`ReceiveTx` and `ReceiveOrphanTx` the two calls of the `tx` handler,
`FixSpentCoins` the command repairwallet, `Restart(fRescan)` and `Reaccept` a
start. `cut` is a history variable: whether a reorganisation was given up half
way since the last rescan. `IsMine` makes the test of value of `wallet.h`;
`Shaded` are the transactions that `__xfa` recognises, `Projects` those that
`collx` may.

**WalletLock** - the encrypted wallet and its threads. `rpc` is the command that
holds `cs_main` and where it stands; `clean[k]` and `topup[k]` are the threads
the k-th walletpassphrase has started. A step is what a thread does between two
points where another can come in; `cs_KeyStore` and `cs_nWalletUnlockTime` are
held within single steps. `WalletPassphraseMistyped` is the command with a
timeout that is no number: it throws after the wallet is unlocked. (The same of
its third parameter leaves `fWalletUnlockStakingOnly` as it was.) A section
whose thread has ended inside it is `gone`.

**Dions** - the life of alias transactions: `ConnectInputsPost` as the pool, the
miner and `ConnectBlock` call it, `mapState`, and the index `locator` with
`Filter`. `SetBestChainInner` and `FilterBlock` are two steps since a crash can
come in between; `Reorganize` does not filter. Other nodes make every block that
`ConnectBlock` accepts (`PeerBlocks`), with relays of any OP_ALIAS_SET on the chain:
their index may be wrong, and `ConnectBlock` does not ask. `Title` is the reference:
who holds a name, read off the chain alone, block by block. `Restart(opt)` is a
start without a scan, with -xscan into a new index or with -upgradewallet on top of
the old one. `missed` is a history variable: the names about which filter() was not
told everything.

**AddrMan** - `CAddrMan` as one record `am`; operators return what the code leaves
behind, or the set of it where the code draws random numbers. The clock is in
ticks; the keyed hashes that choose buckets are constants.

Definitions named `X_Something` next to a definition `X` are mutants: the
definition with one plausible bug. They are used by no specification;
`PROJECT.json` says which property must catch each.

## 3. What the models assume

* A LevelDB batch is atomic and durable, and block files can be read back
  (failures of `ReadFromDisk`, a full disk and failing commits are left out).
* The universe is fixed: a hash identifies a block or a transaction, so a block
  has one parent and a transaction one set of inputs. A transaction that is not
  a coinbase spends something of value (`ValueAssumption`: it pays a fee or
  carries coin age) and a coinbase does not come back on the same chain
  (`CoinbaseAssumption`: its script starts with the height).
* In BlockRelay, a block that does not connect hangs from the trunk all chains
  share, so that `SetBestChain` is all or nothing (`CheckpointAssumption`); what
  happens otherwise is the subject of ChainState. A signed checkpoint and a
  hardened one lie on one chain (`SignedAssumption`), which is what the holder of the
  master key selects. Two signed ones need not: `PendingResolved` speaks of the
  checkpoints that no other signed one contradicts (`Uncontested`), since
  `ValidateSyncCheckpoint` keeps the first of two.
* In WalletCoins every change of the wallet is on disk at once, as the code writes
  it; keys are there from the start, and the wallet's own coinstakes come in
  blocks; -mininput is 0, its default. `MaturityMargin` is the number of blocks
  the wallet waits beyond `nCoinbaseMaturity`, 10 in the code; that it is at least
  one is all that is used.
* In Dions, signatures and the hash that links OP_ALIAS_SET to its registration
  are right, and `XscanHeight` (1 625 000 in the code) lies below the first
  OP_ALIAS_SET, so that a scan misses nothing.
* In WalletLock one RPC command runs at a time, as `cs_main` enforces; the
  updateAlias command stands for those of `dions.cpp` that enter the sections by
  hand and ask for the passphrase inside.
* In AddrMan, `nLastTry` matters only for a minute (`fJustTried`), and services
  are routable.

## 4. Runs

Each passing property has a mutant that breaks it. Deadlock is not checked for
the chain, relay, wallet lock and naming runs: when all blocks have arrived and no
message is left the node really rests, a process that was terminated does too, and
`MaxHeight` ends the history of Dions. It is checked for `addrman` and
`wallet_coins`, where some operation is always possible.

| Run | Instance | States | What it shows |
|---|---|---|---|
| `chain` | 12 blocks in three branches, 9 transactions, an enforced checkpoint, two crashes | 23 691 | The committed index is that of the committed chain (`DiskMatchesBest`), the chain is valid, no block is met that cannot be undone, the pool's maps agree and hold nothing that is mined, memory between calls is what a restart reads back, a valid chain is eventually reached or beaten unless an enforced checkpoint leaves it behind, and the committed chain implements `BestChain` |
| `tx_relay` | 6 transactions, one too large to keep, 2 orphans allowed | 585 904 | The by-parent index is exact at every step, the limit holds, one pass over the queue leaves nothing acceptable behind, when the handler returns what it accepted is kept back no longer and what waits for it misses an input, every message is handled to the end |
| `block_relay` | branches sharing stakes, a doubtful block and one that does not connect, a hardened checkpoint beside a heavier block, 3 signed checkpoints, two of them contradicting, 2 restarts | 552 984 | No dangling pointer in the multimap, stakes are released, the best chain goes through the checkpoint and the checkpoint only advances, also across restarts, a change of the master key and a reset that fails |
| `block_fetch` | 8 blocks, peers that answer | 16 534 | No valid orphan is stuck beside its parent; liveness: a sound orphan gets its ancestors despite the duplicate-stake limit; a sound checkpoint that no other contradicts does not stay pending |
| `wallet_coins` | 9 blocks in three branches, one invalid; 11 transactions, two stakes, one with two inputs of the wallet, three that IsMine, __xfa or collx decide about; one crash | 366 787 | Spends in the best chain are flagged, its transactions recorded under their block, no coin stays flagged without a recorded spender, and what the wallet offers is refused only for a conflict in the pool |
| `wallet_lock` | 5 commands, 2 unlocks with both threads each, timeouts of 1 and 2 ticks, a mistyped one | 590 163 | A timer that is set has a thread that wakes in time; the wallet gets locked; every command that got in ends; the key pool stays in its limits |
| `dions` | one name, two parties, 7 transactions, up to 5 blocks, one fork, one restart | 302 550 | The alias index is what the operations on the chain make of each name, wherever filter() was told; the node's own block leaves a name in use to its holder; what is pending is pooled |
| `addrman` | 3 addresses, one with two ports, two sources, buckets of one entry | 170 818 | All indexes agree (what `Check_` of a DEBUG_ADDRMAN build tests), buckets keep their size, what was reached is not deleted, and a restart only renumbers |

The run `chain` is of `ConnectedSpec`, not of `Spec`. After `SecondaryFails` (the
run `valid_way`) the best block in memory is one that was never connected; the
next block on top of it is taken for an extension (`hashPrevBlock ==
hashBestChain`) and committed on an index that lacks the block below, and a
reorganisation undoes blocks that were never done. Under `Spec` the index and
the validity of the chain therefore fail: `B5`, above the invalid `B4`, is there
for this, and `SPECIFICATION Spec` in `ChainState.cfg` shows it. `ConnectedSpec`
states what the code relies on: no better block comes between such a failure and
the next start, which sets `pindexBest` to the committed block again. All other
steps of `Spec`, the failure included, are kept, and `PoolUnconfirmed`, `TypeOK`
and `PoolConsistent` are proved of `Spec` itself. `WalletSpec` has the same
restriction.

The tree of `chain` has reorganisations of up to three blocks each way, one that
fails in the middle, secondary blocks, an output spent on both sides, a
transaction mined on several branches, a coinbase whose maturity matters
(`CoinbaseMaturity = 1`) and an output of value 0 spent twice. Two crashes
suffice for a crash during the work that follows a crash. In `tx_relay` two
orphans make every third one evict, and a pooled transaction may be kept back
too; `c` and `d` each have two parents, `x` conflicts with two others. In
`block_relay` every pair of messages can be swapped and each stake is carried by
two blocks. In `wallet_coins` a branch confirms one of two conflicting spends,
two branches stake the same coin, and the third gives up after it has told the
wallet of a block. In `wallet_lock` two unlocks give two relocking threads that
overlap in every way; a third only repeats them. In `dions` a name lapses after
three blocks, so within five it is taken, updated, lost and taken by the other
party, on either side of a fork. In `addrman` a bucket of one entry makes every
addition and promotion evict.

Runs that end in a counterexample, each a disagreement between the code and what
the code says of itself (`PROJECT.json`, findings):

| Run | Says | Does |
|---|---|---|
| `valid_way` | `main.cpp:2190` "errors now are not fatal, we still did a reorganisation to a new chain in a valid way" | after a failed secondary block, `pindexBest` is a block that was never connected, until a restart; a block on top of it is then committed without it |
| `key_kept` | `rpcwallet.cpp:2128` "Stores the wallet decryption key in memory for <timeout> seconds." | the timer fires within walletpassphrasechange, which then leaves the wallet unlocked with no timer |
| `commit` | `wallet.cpp:2322` "This must not fail. The transaction has already been signed and recorded." | a block with a transaction whose change is already spent in the pool makes the change available again; the next send is recorded and refused |
| `mined` | `dions.cpp:6859` makes the test of expiry for the miner (`fMiner`) as for a block: "expired alias, or there is a pending transaction on the alias" | an update taken one block before its name lapses makes the node's own block invalid |

Met on the way and modelled, but not the subject of a run:

* a reorganisation may leave a pooled transaction whose input is in neither chain
  nor pool (`main.cpp:2088`; `miner.cpp:203` says this should never happen);
* undoing the second spend of a valueless output clears the mark of the first
  (`main.cpp:1563`), which check level 5 of `LoadBlockIndex` reports as damage;
* the orphan loop of the `tx` handler gives the wallets the wrong transaction
  (`main.cpp:3772`): they learn of the orphan when it is mined;
* `main.cpp:2768` forgets a proof of stake that another kept orphan still has;
* a command of `dions.cpp` that finds the wallet locked ends inside `cs_main` and
  `cs_wallet` (`dions.cpp:5134`, `AliasRefused`);
* a wallet locked between the test of `TopUpKeyPool` and `GenerateNewKey` ends the
  process through the key pool thread (`rpcwallet.cpp:2076`, `TopUpThrows`);
* `filter` is not called for blocks that a reorganisation connects, so the alias
  index stays behind until -xscan or the next update of the name. A node in that
  state may mine a relay of a second OP_ALIAS_SET; `ConnectBlock` does not ask the
  index (`dions.cpp:6865`), and `filter` then hands the name over everywhere: `Title`
  follows what the code does, and `MinedKeepsHolder` is about the node's own blocks;
* a transaction that is kept back and comes into the pool by another way than the
  `tx` message (`main.cpp:2089`, `rpcrawtransaction.cpp:854`, `wallet.cpp:2320`) stays
  kept back until a message releases it or it is evicted;
* a recorded transaction one of whose inputs the chain spends otherwise keeps its
  other inputs flagged until repairwallet (`FlagsExplained` accepts it);
* a walletpassphrase with a mistyped timeout leaves the wallet unlocked with no
  timer (`rpcwallet.cpp:2155`, `WalletPassphraseMistyped`; the run `key_kept` is
  without it);
* a new master key is stored before the reset it asks for, which is never made if it
  fails (`main.cpp:3069`, `ResetFails`);
* an enforced checkpoint may leave a heavier valid chain, which is not tried again
  unless a block is added to it (`LoweredBelow`);
* after a crash in a reorganisation `ReacceptWalletTransactions` passes over a minted
  transaction whose first output (second, of a coinstake) is flagged
  (`wallet.cpp:1175`), and what it then does not flag stays so, even when the flag
  that made it pass over is taken back later: hence the exception for minted
  outputs in `ConfirmedSpendsMarked`;
* an aborted reorganisation leaves the wallet told of blocks that are not in the
  chain, until repairwallet or -rescan;
* tables rebuilt from a `peers.dat` with another bucket count may have overfull
  new buckets, which never shrink (`addrman.h:336`).

**Fairness.** The steps of a handler (`Step`, `Handler`) are weakly fair: they
are sequential code of a running thread, under a lock nobody else waits in. The
process may still die at any step. `block_fetch` also assumes that a block that
was asked for is delivered (strong fairness of `Deliver(b)` for `b` in `asked`):
a peer answers `getdata`, and its answer waits in the receive buffer while other
messages are handled; without it no node can promise to learn anything. Nothing
is assumed about the arrival of blocks that were not asked for, of transactions
or of checkpoints. In `WalletLock` the running command and each started thread
are weakly fair and the clock goes on: threads are scheduled, sections are given
to who waits, sleeps end. No command is ever called by assumption. `KeyForgotten`
is refuted under the same fairness.

## 5. Proofs

All theorems hold for every value of the constants that satisfies the named
assumptions: any block tree, any transactions, any number of crashes.

* Induction, in the form the provers can use, is over the set of the numbers that
  have a property (`LeastNat`, `UpTo`); with it a loop written as a recursive
  function goes through the states its equations say (`LoopRuns`, `LoopIs`). These few
  lemmas open `BlockTreeProofs`, `DionsProofs` and `AddrManProofs`, which have no module
  in common.
* `BlockTreeProofs` derives from the assumptions on `Pprev`, by well-founded
  descent on the height, that the ancestors of a block form a chain with one
  block at each height (`Ancestry`), and from it what the walks of the code find
  (`ForkIs`, `IntermediateIs`, `PathTypes`).
* `ChainStateProofs!TypeCorrect`: `Spec => []TypeOK`. Not inductive alone: the
  branches are well formed only if `SetBestChain` is called for another block than
  the best one, and `ReorganizeCommit` reads the last element of one of them; the
  strengthening `Located` says what holds at each `pc`.
* `ChainStateProofs!PoolConsistency`: `Spec => []PoolConsistent`, from the lemmas
  `AddUncheckedAgrees` and `DropAgrees` (adding a transaction without conflicts, and
  dropping any set of transactions, keep the two maps in agreement).
* The rest of `ChainStateProofs` is about the index. `CommittedIndex` (`DiskMatchesBest`),
  `CommittedValid` (`BestChainValid`), `DisconnectSafe`, `MemoryReadBack` and the
  refinement `CommitsImplementBestChain` are theorems of `ConnectedSpec`;
  `PoolNeverConfirmed` is one of `Spec`. The inductive invariant `ChainInv` ties
  the index seen through the batch to one block, `Tip`: the block up to which
  Reorganize has come, on the way down its old branch or up the new one.
  `Holds(batch, Tip)` says that the batch is the index of the chain of `Tip`,
  that this chain is valid, and that the links, which Reorganize sets on the way
  up and down, are those of that chain with the abandoned part cut off;
  `BranchesOk` says that `vDisconnect`, `vConnect` and `vpindexSecondary` climb or
  fall parent by parent from where the last one ended, and `KnownOk` that all of
  them are indexed. That a commit is a step of `BestChain` follows: it moves to a
  known valid block, either towards one with more trust or towards a checkpoint.
  The heart is `ConnectsValid`: on the index of a valid chain, the tests that
  `ConnectBlock` makes (`TxConnects`, on positions and spent flags) hold exactly
  if the block is valid on that chain (`ValidBlock`, said of the blocks alone).
  One direction is hard: ConnectBlock lets a transaction come back once all its
  outputs are spent (the BIP30 test), and spending it again would go unnoticed. It
  cannot happen because a transaction that is not a coinbase spends something of
  value: take the first transaction of the block that stands in the chain
  already; its input of value is spent there, unless the transaction that made
  the output came back earlier in the block, against the choice of the first
  (`ConnectsFresh`, from `ValueAssumption` and `CoinbaseAssumption`).
  `ConnectIndexes` and `DisconnectIndexes` then say that connecting and undoing a
  block move the index one block up and down; the latter needs that the block is
  valid, or undoing it would free outputs that the chain below had spent.
* `TxRelayProofs`: all safety properties of the module. `OrphanInv` (for
  `OrphanIndexCorrect`) adds to the exact index that what the handler has accepted
  and still keeps back is in line to be erased. `OnePassEnough`
  (`NoOrphanLeftBehind`) rests on `AcceptableAhead`: an orphan that waits for an
  accepted transaction and could be accepted now is still ahead of the loop,
  because only the acceptance of one of its parents can make it acceptable
  (`AcceptableByParent`), and that parent is then at the end of the queue.
  `HandlerSettlesCorrect` (`HandlerSettles`) adds `WaitingSettled`: an orphan that
  waits for an accepted transaction misses an input, is ahead of the loop or in
  line for erasure, because only the acceptance of a parent takes its last missing
  input away (`MissingByParent`). `OrphanLimitHolds` counts (`FiniteSetTheorems`);
  `RelayTypeCorrect` needs where the index `i` stands at each `pc` (`LocalsOk`).
* `BlockRelayProofs!CheckpointHolds` and `CheckpointAdvances`. The invariant
  `SyncInv` adds what the handler has established on the way: the block
  about to become best descends from the checkpoint (`BestBlockDescends`, from
  `CheckSync`), and so does the checkpoint about to be written, which lies on
  the best chain already (`WrittenDescends`).
* `BlockRelayProofs!BlockRelayTypeCorrect`, `OrphanPointersSafe`,
  `OrphanStakesReleased` and `OrphansNotStuck`, the safety of the walk through the
  orphans, from one invariant, `HoldingInv`. `StoredOk`: the index is closed under
  `pprev` and holds what is best and checkpointed. `QueueOk`: the entries of the
  work queue are distinct; without it a block that comes up twice would have its
  deleted children visited. `OrphansOk`: while the children of `vWorkQueue[i]` are
  visited, what is in the multimap only has been visited. `OrphansInTurn`: an
  orphan with an indexed parent is being visited, in line, or its parent is in
  the queue or on its way there, unless the parent's chain does not connect.
* `WalletCoinsProofs`: all safety properties of `WalletCoins`,
  `WalletTypeCorrect`, `SpendsMarked`, `AllRecorded`, `CoinsAccounted` and
  `SendableAccepted`, as theorems of `WalletSpec`. The invariant `WalletInv` sets
  the wallet beside `Tip`, the chain the batch holds, not beside the committed
  one, since the wallet hears of a block before the commit. Of the transactions of
  that chain it says (`Fits`) that the wallet knows those that concern it, by the
  tests of value of the code (`Knows`, which survives every abort and crash and
  holds of the committed chain too), believes them in blocks of the chain
  (`Places`), has flagged what they spend (`Marks`), and has flagged nothing else
  of their outputs but for a loose transaction (`Accounts`). `AddOne` says what
  `AddToWalletIfInvolvingMe` does to the four when the transaction is new and its
  inputs are known; the loops of `AddBlock` and `Scan` follow by induction on
  their counter (`UpTo`: the least round at which something fails), which a valid
  block allows because each transaction is new and spends what came before it. The
  two loops are recursive functions; that they have the values their equations say
  is `LoopRuns`, by the same induction. Disconnecting a block needs that the
  coinstake's inputs are spent nowhere else on the chain, which is again validity
  of the block. `SendableAccepted` found that the margin is not only caution: the
  wallet's depth counts the coin's own block and `ConnectInputs` does not, so with
  no margin the wallet would offer a minted coin one block too early.
* `DionsProofs`: all properties of `Dions`, `IndexHolds` (`IndexIsTitle`), `PendingHolds`
  (`PendingPooled`) and `OwnBlocksKeepHolders` (`MinedKeepsHolder`). The index
  and the title of a chain are computed in different ways, transaction by
  transaction and block by block; `FilterFollows` says that they stay together.
  It needs `WellMade`, the part of the invariant `DionsInv` about the chain: every relay
  spends an operation on its name further down the chain or before it in its own
  block, which `ConnectBlock` alone guarantees (`ConnectedMade`), so that a relay of a
  name that was free comes after an OP_ALIAS_SET of it in its block (`RelayHeld`). The
  rest of `DionsInv`: the index is right for the chain filter() has seen (`IndexRight`).
  Names in `missed` are left alone, except that a relay puts a wrong entry right.
  `ScanIsTitle` is about the scans: from nothing, or from an entry that was right at
  some height, they end with the title. For the second, an entry above the block
  being scanned counts as lapsed by the wrapped subtraction of `db.cpp:637`, so the
  scan overwrites it (`FilterAhead`). `OwnBlock` gives `OwnBlocksKeepHolders`: where the
  index is right, a relay in the node's own block was taken because it spends the
  holder's transaction.
* `WalletLockProofs!TypeCorrect` and `TimerKept`. The type invariant is not
  inductive: that the pool never overflows needs that only one of the key pool
  thread and the command is filling it, hence the invariant `Sections`, which says
  for each program counter who is in `cs_wallet`. `TimerKept` follows by cases on
  which relocking thread is the witness: it stays asleep, or it hands over.
* `AddrManProofs`: all properties of `AddrMan`, for every number and size of buckets
  (none 0), every hash into them and any clock: `TypeCorrect`, `TablesStayConsistent`,
  `BucketsStayBounded`, and the action properties `ReachedStaysKnown` (`ReachedKept`)
  and `RestartIsFaithful` (`RestartKeepsTables`). The operations are made of steps that
  leave the tables half changed, so the invariant is a predicate on an object,
  `Tables(m, x, d, r, t)`, in which entry `x` still has `d` places to come; `IInv` is
  the case without such an entry. Its parts: `Shape`; `Indexed` (mapAddr and vRandom
  lead to each entry and back; the next id is fresh); `InNew` (the reference count of
  an entry is the number of its buckets, and only `x` may have none); `InTried` (a tried
  entry has been reached, stands once in the bucket of its service and nowhere else);
  `Totals`; `Sized`; `Past` (nothing was reached later than now, without which `Good`
  could set a time back and `ReachedKept` would not hold). `TablesConsistent` alone is
  not inductive: it does not say that `nIdCount` is fresh, so that `Create` could take
  the id of another entry; nor does it say which tried bucket an entry is in, and
  `Unserialize`, which sorts entries into buckets by their service, could lose one.
  The random choices of `SelectTried` and the shuffle of `GetAddr` are loops;
  by induction on their counter the first is a permutation of the bucket and a
  position in it (`SelectIs`), the second keeps vRandom a list of all entries
  (`SwappedKeeps`). `ReplaceKeeps` is the eviction: when the evicted entry's own new
  bucket is full, the bucket the promoted entry was found in has just lost that
  entry, so that there is room, as the comment in `MakeTried` claims.
  For the restart, `Old(m, id)` is the entry that number `id` of the file was. `Rank`
  and `Sorted` are shown to be inverse to each other (`RankIs`, `SortedIs`), so `Old`
  numbers all entries, the new ones first (`OldIs`). What is read back is then known
  in terms of what was written (`ReloadedIs`): no tried entry is lost, because a
  bucket that was not too large before is not too large in the file (`TriedCount`,
  `KeptIs`), no place in the new table is lost, because no entry had more than
  `NewBucketsPerAddress` of them (`BucketsAre`), and the totals in the file are right,
  so the writing loops of the code do not break off early.

Each inductive invariant was checked by TLC on the module's run before it was
proved.

Only model-checked: all liveness properties (fairness and `ENABLED` are outside
the prover). Every invariant and every other action property that a passing run
checks is a theorem too.

## 6. Not modelled, and the plan

In this order:

1. *Wallet*: the two phases of `EncryptWallet` with a crash in between,
   `NewKeyPool` and `ReturnKey` while a `CReserveKey` is held, keypoolrefill,
   `CreateCoinStake`.
2. *Peers*: `AskFor`, `mapAskFor` and the retry after two minutes (`net.h:387`),
   buffers and reference counts; then alerts.
3. *Start*: a crash between the commit of the genesis block and the first
   `WriteSyncCheckpoint` (`main.cpp:3052`), after which `LoadBlockIndex` fails.
4. *DIONS*: the vertex and base operations of `ConnectInputsPost`.
5. *Pure algorithms*: stake modifier selection, difficulty, the priorities of
   `CreateNewBlock`, the script interpreter's stack.

`mapOrphanBlocks` has no limit (`main.cpp:2735`), so there is no bound to state.

Not planned: hash functions and big numbers (beyond TLC), sockets, RPC parsing,
the graphical interface, LevelDB, JSON and zerocoin libraries. Within the
modelled parts, misbehaviour scores, log and UI notifications, `getblocks`
locators and the `-checklevel` rollback at start-up are left out.
