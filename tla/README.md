# TLA+ specification of railgun-rs

railgun-rs is the core of a RAILGUN wallet: it follows a chain through an indexer, keeps the
UTXO Merkle forest and the spent nullifiers in a local database, answers Merkle root queries
from incrementally maintained frontiers, and decodes the notes that belong to an account. This
directory models the parts of it that keep state and the algorithms they rest on, checks them
with TLC on small instances and proves the most important results with TLAPS for all instances.
`PROJECT.json` is the index:
which definition models which lines, what every run checks, which mutant of the code each
property detects, and the hazards the properties are aimed at.

## The system

Paths are relative to `src/crates/`.

| Component | Code | State | Operations | Talks to |
|---|---|---|---|---|
| Syncer | `sync/src/manager.rs` | per call: target, `from`, cursor, buffers, summary | `run`, `run_to_head`, `run_to_head_if_unsynced`, `commit_window`, `advance_frontiers` | source (awaits), database (write transactions) |
| Event source | `sync/src/subsquid.rs`, `graphql.rs`, `graphql/*.graphql` | none (retry counter per request) | `latest_block`, `fetch_page`, `post_retry`, `map_commitment`, `map_nullifier` | Subsquid indexer over HTTP |
| Database | `database/src/lib.rs`, `write.rs`, `version.rs`, `engine.rs`, `tables/mod.rs` | the redb file, the write transaction, read views, schema stamps | `open`, `read`, `write`, `apply`, `clear_all`, `check_and_stamp` | redb |
| UTXO tables | `database/src/tables/commitments.rs`, `frontier.rs` | nodes, lengths, tree count, nullifiers, watermark, frontier snapshots | `insert_node`, `insert_nullifier`, `set_synced_block`, scans, `set_snapshot`, `clear_snapshot` | any reader or writer |
| Write batches | `database/src/batch.rs` | staged puts and tombstones over a view | overlay reads and writes, `apply`, drop | view, database |
| Merged scans | `database/src/read.rs` | two one-entry peeks | `RangeIter::next` | base scan, batch |
| Node codec | `database/src/tables/codec.rs` | reader position | `encode_node`, `decode_node`, `decode_hash` | tables |
| Merkle accumulator | `crypto/src/merkle.rs` | next index, pending left siblings, root | `insert`, `state`/`from_state`, `merkle_root`, `tree_frontier`, `validate` | tables, syncer |
| Note decoder, balances | `crypto/src/note.rs`, `commitment.rs`, `decoder/src/*`, `tables/decoded.rs` | decoded notes, in memory and saved | `decode_tree`, `decode_all`, `save`, `load`, `balances` | views |
| Keys and note cryptography | `crypto/src/derivation.rs`, `viewing.rs`, `aes.rs`, `poseidon.rs`, `keys.rs` | none | `derive_railgun_keys`, `derive_shared_key*`, `decrypt_gcm`, hashing of domain values | decoder |
| Poseidon engine | `poseidon-rust/src/*` | a parameter set, built once per width | `PoseidonParams::new`, `permutation`, `poseidon_hash` | all hashes |
| Baby Jubjub | `crypto/src/babyjubjub.rs`, `common.rs` | none | `add`, `mul_scalar`, `public_key`, `sign` | key derivation |
| Addresses, paths, names | `types/src/address.rs`, `derivation.rs`, `protocol.rs` | none | `Display`, `FromStr`, `encode`, `try_decode` | wallets, key derivation |
| Other domain types, chain constants | `types/src/*`, `sync/src/chain.rs` | none | constructors, conversions | everything |

What is hard about it:

* **Interleaving.** A run awaits the network between any two pages while other runs, readers,
  batch authors and `clear_all` work on the same `Arc<Database>`. What a run read at its start
  (the watermark) is used after all of that.
* **Failure.** Requests fail and are retried, commits fail, the process dies inside a
  transaction. Data, counters, frontiers and the watermark must always describe the same prefix
  of the chain.
* **Ordering.** Pages come in row-id order and not in block order, some rows are skipped, and
  an empty page is the only sign of the end. Leaves can arrive below a tree's frontier.
* **Cached results.** A frontier snapshot is trusted because its length fits; a batch is applied
  because it was valid on an older view; notes decoded in one view are judged by the nullifiers
  of another.
* **Limits.** Block numbers saturate at `u64::MAX`, positions overflow from one tree to the next.
* **Algorithms rewritten for speed or size.** Poseidon runs on constants moved through its linear
  layer and on factored matrices, points are added in projective coordinates, scalars are clamped
  and reduced in several places, texts are scanned byte by byte. Test vectors fix a few values;
  a slip that shows only for a zero pivot, the neutral element, an unclamped digest or a trailing
  slash passes them.

`PROJECT.json` lists each of these as a hazard at the line where it bites.

## The modules

```
UtxoStore ──> Indexer ──> Syncer ──> SyncerReplica ──> MCSyncer
    │            └──────> Replica ──> Wallet ──> MCWallet      (SyncerReplica INSTANCEs Replica)
    │     Address ──> Keys ──> Notes ──> Senders ──┘
    ├──> MerkleAccumulator ──> MCMerkleAccumulator
    └──> Overlay ──> MCOverlay
FileValues ──> Database ──> MCDatabase        (Database INSTANCEs AtomicFile)
TableKeys ──> RangeMerge ──> MCRangeMerge        NodeCodec ──> MCNodeCodec
Field ──> Poseidon ──> BabyJubJub ──┐
Address ──> Formats ────────────────┴──> Primitives ──> MCPrimitives
UtxoStoreProofs, SyncerProofs, MerkleAccumulatorProofs, OverlayProofs, RangeMergeProofs,
NodeCodecProofs, WalletProofs, DatabaseProofs: theorems, each EXTENDS the module it is named after,
SyncerProofs also SyncerReplica
```

* **UtxoStore** holds the tables as one record (`nodes`, `nullifiers`, `length`, `count`,
  `frontier`, `synced`) and what a write transaction does to it: `InsertNodes`,
  `CommitmentConflict`, `ExtendLength`, `ExtendCount`, `AdvanceFrontier`, `CommitWindow`. A node
  is its hash and its block; the hash stands for the body too. A Merkle root is represented by
  the sequence of leaves it commits to (`ZeroLeaf` in the gaps), so two roots are equal exactly
  if the trees are; module MerkleAccumulator justifies this.
* **Indexer** is the source seen from the client: the rows of both streams, the `where`,
  `orderBy` and `limit` of the queries, `map_commitment` with its skipped kinds and the
  normalization of overflowing positions. Rows become visible when their block is indexed.
* **Syncer** has an action per await or transaction of a run: `RunToHead`,
  `RunToHeadIfUnsynced`, `RunTo`, `LatestBlockArrives`, `PageArrives`, `RequestFails`,
  `WindowCommits`, `WindowConflicts`, `CommitFails`, and around them `IndexBlock`, `Crash`,
  `ClearAll`. `PastHead` and `ClearWhileRunning` switch on two uses the API allows.
* **Replica** is the promise to readers: the tables are the events of a prefix of the chain,
  and the prefix grows. **SyncerReplica** states that Syncer implements it.
* **MerkleAccumulator** takes `insert`, `state`, `from_state`, `advance_frontiers` and
  `tree_frontier` apart, over a free hash (a hash is the pair of its inputs), and has `validate`
  with a validator that knows the contract's roots. The loop variables of `insert` are functions
  of the level: `Index` halves the position, `Current` is the hash carried upwards; the reference
  is `Tree`, the rows of the tree over zero-padded leaves. `snapshot` is the tree's row of the
  frontiers table, none or one. (`TreeOverfull` and `MalformedFrontier` are unreachable: positions
  are normalized, and snapshots are written by the same code.)
* **Overlay** is stage, validate, apply: a batch over a view, with the syncer's commits and
  wipes beside it. `Exclusive` says whether other writers wait while a batch is open and
  `FrontierPolicy` what the batch's author does about frontiers.
* **TableKeys** has the byte keys that let nodes, nullifiers and counters share one ordered
  table, and **RangeMerge**, over them, the scan of a tree through an overlay, peek by peek. An
  ordered iterator is the set of the keys it has yet to give, of which it gives the first; an
  `Option` is the set of its content.
  Together they are why the other modules may use separate maps and take a scan for the leaves
  of a tree in order.
* **Address**, **Keys** and **Notes** follow an account from its mnemonic to its address and a
  stored node from its ciphertext to a note, every early return of `decrypt_transact` and
  `decrypt_shield` in its order. Digests, points and ciphertexts are symbolic terms: a digest is
  what was hashed behind a tag, a curve25519 point the bag of the scalars that made it (so that
  key agreement commutes), a ciphertext unit tells key, iv, place and content, and the GCM tag
  covers the units but not where blocks end. Equal terms stand for equal bytes, so the models say
  nothing about collisions. Chain key and chain code of a derivation node are the node itself.
* **Senders** is the counterpart the repository does not have: how an engine pays the text of an
  address and which nullifier a spend reveals, written from the protocol and independent of Notes.
* **Wallet** has processes that decode, save, load and ask for balances over the replica. A node
  is decoded as Notes says; what a balance should be is measured by what the senders meant
  (`Paid`) and what was revealed as spent. All failure kinds lead to skipping a node.
* **Field**, **Poseidon** and **BabyJubJub** are the algorithms themselves, over a field of `Q`
  elements: Gaussian elimination, the equivalent matrices and constants, the permutation, point
  addition and multiplication, clamping, signatures. A panic is a result. The digests of Blake-512
  and SHA-512 are inputs, so the operators are used for every digest of the model's width.
  `to_curve25519_scalar` and `shared_key` are computed on the same small curve: curve25519 is
  of this form, with a subgroup of index 8 as well.
* **Formats** adds derivation paths and base-37 names to Address; **Primitives** asks one request
  after the other of all of these and has the textbook definitions they are compared with.
* **FileValues**, **Database** and **AtomicFile**: `open`, `write`, `apply` and `clear_all` as
  sequences of engine calls with errors and crashes in between, and the specification they
  implement, in which each is one step. This is why the other modules may treat a write
  transaction as one step. redb is external: a private image per transaction, atomic commit,
  one writer, snapshot views, one owner of a file.
* **NodeCodec** writes and reads records field by field: why the other modules may compare nodes
  instead of records.

Operators called "Mutant" in a comment are not part of the model: each is a plausible wrong
version of the definition after it, and substituting it makes the property it is listed for in
`PROJECT.json` fail.

## What the runs show

| Run | Question | Answer |
|---|---|---|
| `single` | Does one syncer, with failing requests and commits, crashes, wipes and any sequence of calls, keep watermark, counters, roots and summary right? Does it implement Replica? Does every call return, and does a scheduled syncer catch up? | yes |
| `overlap` | Two overlapping runs (the code calls this a usage error): does it corrupt anything? | no: windows are replayed, leaves backfilled and the watermark set back, but it is never ahead of the data, and counters and roots stay exact; a second node for a filled slot fails its window, and nothing is overwritten |
| `past_head` | `run(target)` beyond the indexer's head? | **violation**: the watermark passes blocks whose events are not stored |
| `max_target` | `run(u64::MAX)`? | **violation**: it never returns, `from` saturates at the target |
| `merkle` | Is the incremental accumulator the root of the zero-padded leaves, for every order of windows, gaps and backfills? Does `validate` accept exactly the trees that agree with the contract's? | yes |
| `overlay` | If nobody else writes while a batch is open and frontiers are rebuilt: are counters, roots and nodes right, is the validated root that of the leaves, and does the batch leave the tables that one window of the syncer with the same rows would have left? | yes |
| `overlay_shared` | And if a window is committed in between? | **violation**: nodes are overwritten without a conflict |
| `scan` | Does a scan of a tree through an overlay, by byte keys, return the tree as the batch leaves it, in order, and end? Do lookups never collide? | yes |
| `database` | Are open, write, apply and clear_all atomic, are foreign files refused untouched, and does every view show a whole file? | yes |
| `codec` | Do records round-trip, and is a damaged record refused or itself canonical? | yes |
| `wallet` | Do balances name exactly what senders paid to the account's address and it has not spent, across stale notes, saves, loads, restarts, replayed ciphertexts, notes for others and oversized deposits? | yes |
| `primitives` | Do the matrix inverse, the optimized Poseidon, the projective curve, signatures, key agreement, addresses, paths and names compute what their definitions say? | yes; matrices with a singular leading block are refused by a panic, chain ids keep seven bytes, a bech32 checksum is read like a bech32m one and the bits past the last byte of an address are dropped unchecked, so an address has many texts that are read and one that is written, paths may have leading zeros and a last slash, names lose leading blanks |

The violations are described under `findings`, with the lines that say otherwise. All of them
need a caller that uses the API in a way it allows and does not warn about (or warns about
elsewhere); nothing in the repository does so today.

Four more limits of the code have no run of their own, because one change of a constant in a
passing run's configuration shows them (the hazards list them too):

* `ClearWhileRunning = TRUE` in `MCSyncer_single.cfg`: a `clear_all` between two windows of a run
  lets the next window certify blocks whose events the wipe took (`WatermarkCovered`).
* `FrontierPolicy = "leave"` in `MCOverlay_exclusive.cfg`: a backfill that leaves the frontier
  alone keeps the tree's length, so the stale snapshot is believed (`RootsCurrent`), which the
  comment in `merkle.rs` excludes.
* `FrontierPolicy = "clear"` there: after a batch cleared a tree's snapshot, as `frontier.rs` offers,
  the next window starts an empty accumulator above the stored leaves, and the new snapshot has the
  right length and a wrong root (`RootsCurrent`). Only a test of the repository clears a snapshot.
* `Body <- MismatchedBodies` in `MCWallet.cfg`: a shield whose token or value does not give the
  stored hash is decoded all the same, for only its note public key is compared
  (`NotesReproduceCommitments`).

### Bounds, and why they are enough

* *Syncer*: four blocks (five in `overlap`, the last with the misindexed row), five or six
  commitments and two nullifiers, one row per page, windows of two blocks, two trees of three
  leaves, one retry, two or three disruptions. The chain (in `MCSyncer.tla`) has every special
  case: ids out of block order, a page with skipped rows only, an overflowing position, a gap, a
  backfill below the frontier of its tree, the same nullifier in two trees. Windows, pages and
  retries each occur at least twice in a run, so their boundaries and carried state show. Two
  syncers are interchangeable, hence the symmetry set (only in runs without liveness).
* *MerkleAccumulator*: depth 3, all sequences of windows over its eight leaves, one of which may be
  reported with a wrong hash.
* *Overlay*: two trees of three leaves, five nodes of which two compete for a slot, up to two
  nodes per window or batch.
* *RangeMerge*: every base and every batch over three positions of one tree and two of another,
  on both sides of a digit boundary: each pair of neighbours in either source, equal keys and
  tombstones included.
* *Wallet*: two processes, three accounts (two of one mnemonic), eight nodes in two trees of four
  leaves, equal nullifiers in both trees; transfers with and without memo, to oneself and from
  others, deposits, a ciphertext stored again under another commitment, one that is encrypted to
  the account but names another recipient, a deposit above the largest note.
* *Primitives*: the field of 43 elements, where x^5 is a permutation as in the code's field; the
  curve 38 x^2 + y^2 = 1 + 34 x^2 y^2 with 8 * 7 points, complete as Baby Jubjub is (A a square, D
  not), all of whose points are multiplied; seven digests of six bits, clamped and unclamped,
  with scalars below and above the order of the subgroup; 256 matrices of width 2 and 162 of width 3
  with zero pivots at every place, widths up to 6; states of widths 2 to 4 with every s-box degree
  the code distinguishes and one it does not, one to four partial rounds; every network id of five
  bits; every path text of up to six characters over five of them, and indices up to 19 in
  at most three segments, so that depth and overflow are met; names over three characters up to 50.
* *Database*: the four real tables, one key and value each, every possible file at the start
  (missing tables, missing, foreign and malformed stamps), every batch, two mutations per
  closure, one held view.
* *NodeCodec*: base-3 bytes, u32 of two digits; nodes with zero, one and two elements in each
  variable part; all prefixes, one-byte extensions and one-byte changes of their records.

### Fairness

`FairSpec` assumes weak fairness of the next step of a call in progress (`RunStep`): the runtime
polls a task that is woken, and a request is answered or fails. The code does not bound the
second: `reqwest` is used without a timeout, so a server that never answers suspends a run. This
is listed as a hazard. `ScheduledSpec` adds that somebody keeps calling `run_to_head`, which is
how the integration program uses it; `CatchesUp` needs it. Failures are bounded by
`MaxDisruptions`, for nothing catches up with an indexer that always fails. The merged scan
assumes that its caller keeps calling `next`. No other property uses fairness.

## What is proved

All for arbitrary constants satisfying the named assumptions: any chain, page size, window
size, retry budget, number of syncers, trees, tables, keys, versions and readers.

**UtxoStoreProofs.** `WindowKeepsStoreInv`: a conflict-free window keeps `StoreInv`, that is, the
tables are typed, `length` and `count` are exactly highest position plus one and highest tree plus
one, and the frontier of every tree commits to exactly the stored leaves up to the length, where
only an empty tree may have none. The counters alone are not inductive for roots: a
snapshot is accepted by length, so the invariant must say that equal length already means equal
content, and that holds only because a tree with leaves always has a snapshot.

**SyncerProofs.**
* `TypeCorrect`, `CountersCorrect`, `RootsCorrect`, `NodesKept` follow from the inductive
  `TypeInv`, which adds `StoreInv` to the types of runs.
* `WatermarkCorrect` needs `PastHead = FALSE` and `ClearWhileRunning = FALSE`, the two
  conditions without which `WatermarkCovered` is violated (`past_head`, and the first limit
  above). The invariant says of every run
  that all events before its `from` are stored, that its buffers hold every row of the window
  with an id up to the cursor, that a stream it has finished is complete, and that its target is
  indexed. That a page is a prefix of what is left by id, and the cursor its last id, is the
  lemma that carries it; overlapping runs are covered because `from` minus one is below what is
  stored for each of them and windows only add.

The second part of SyncerProofs is about SyncerReplica, for one syncer under the conditions of
`WatermarkCorrect`.
* `SyncerImplementsReplica`: the refinement. `WatermarkCovered` says that everything up to the
  watermark is stored; here the converse is needed too, so `ReplicaInv` adds that nothing else is,
  and that a run in a window continues exactly at the watermark and holds only rows of the window.
  With two syncers that is false: a slow run sets the watermark back below what is stored.
* `SummaryCorrect`: a window adds to the summary exactly the slots it filled. It needs a chain that
  gives every commitment a slot of its own and that ends below `u64::MAX`: at `u64::MAX` the resume point
  saturates, and a later run fetches, and counts, the last block a second time. (The tables do not
  change by that, so the refinement does not need the condition.)

**MerkleAccumulatorProofs**, for every `Depth`, any chain and windows of any size.
* `FrontierRepresented`, `WalkIsExact`: the persisted accumulator and the walk compute the root of the
  zero-padded leaves. The invariant `MerkleInv` joins `StoreInv` with `Represents`: an accumulator
  stands for the first n leaves if its root is the root of the padded tree and, at every level where
  the index of n is odd, the pending left sibling is the node of the tree to the left of it. The root
  alone is not inductive. The recursive functions of the model (`Width`, `Zeros`, `Index`, `Current`,
  `Tree`) and the walk over positions are reasoned about by induction over an interval (`UpTo`),
  which the proofs obtain from the least counterexample, without the library's induction theorems.
* `ValidationIsExact` adds `RootDecides`: with a free hash equal roots have equal leaves.

**OverlayProofs.**
* `OverlayTypeCorrect` for every way of writing.
* `CountersExactWhenExclusive`, `NodesPermanentWhenExclusive` need that other writers wait for an open
  batch (`Exclusive`; `overlay_shared` shows what happens if not). `ExclusiveInv`: the view is the database as long as a batch is open, the counters are
  exact in the database and seen through the batch, and the batch holds only slots that are
  empty in its view.
* `RootsCurrentWhenRebuilt`, `ValidatedRootCurrentWhenRebuilt` also need `FrontierPolicy =
  "rebuild"`. `RebuildInv` says that frontiers match the leaves in the database and, for every tree whose snapshot
  is up to date in the batch, in the world seen through it.
* `LandsAsOneWindowWhenRebuilt`, under the same conditions: the tables an apply leaves are those of
  `CommitWindow` with the batch's rows (`StagedNodes`), up to a missing snapshot of an empty tree. The
  batch stages absolute counters read through the overlay and frontiers from a walk; the window raises
  counters and extends or rebuilds frontiers. The proof inserts the staged nodes as a window
  (`StagedNodesInsert`; it cannot conflict, for the batch holds only empty slots), and uses that tables
  which satisfy `RebuildInv` and `StoreInv` are determined by their leaves (`LeavesDetermine`).

**RangeMergeProofs**, for any base of digits, any positions and any contents of base and batch.
* `LookupsAreExact`: keys of different kinds, trees or numbers differ.
* `ScansAreExact`: byte order on the keys of a tree is the order of positions and the bounds of the
  scan hold no other key. `ScanInv`: every key that was taken precedes all that were not, in
  both layers together, and the visible entries returned are exactly those whose keys were taken.

**WalletProofs**, for any number of processes, any chain, trees and views.
* `BalancesAreSound`, `BalancesAreComplete` for an account that `derive_railgun_keys` gives
  (`AccountDerived`) and nodes that open for the account exactly if it was paid, to what
  was paid (`OpensAsPaid`). `WalletInv`: what a
  process holds, or has saved, is genuine, i.e. opened from a node of the chain, and covers for each
  tree all that opens up to the block it was decoded at, which the store has reached.
* `BodiesOpenAsPaid`: every chain of transfers and deposits satisfies `OpensAsPaid`, whoever sends, to
  whatever address, of whatever note (`NodesSent`). A node is taken to pay the owner of the address only
  if it can (`Meant`): if it is stored under the hash of the note inside, if a note can have the value,
  and if one wallet has both keys of the address. The argument follows the code: the key shared with
  the sender opens the ciphertext only for the holder of the viewing key, the blinding of the viewing
  keys comes off again because sender and receiver compute it from the same randoms, and the
  note public key, recomputed from the receiver's own master key, decides about the rest.
* `SentNotesAreCounted` joins them: for such chains balances are sound and complete, with nothing
  assumed about what opens.
* `AddressesSurvive`, `AddressTextsDetermined`, for every width of chain type and chain id, every mask
  and any keys and chain: an address is read as it was written, its chain id modulo 2^56 (`Power[IdBits]`),
  and a text that is read has the prefix and payload of the text `Display` gives for what it is read as. The texts
  read as one address are exactly those that differ in the kind of the checksum and in the padding
  (`AsWritten`): 73 bytes leave one bit of 117 characters, or six of 118, which `bech32::decode`
  drops, so an address has 132 accepted texts beside upper case. These are
  facts about the operators that the runs `primitives` (as `AddressesExact`) and `wallet` evaluate. They
  rest on `BitsRead` and `BitsWritten`, that bits and numbers below the power of two correspond, by the
  same induction over an interval as for the accumulator.
* `NotesMatchCommitments` needs one node per position (`OneNodePerSlot`) and shields reported under the
  hash of their preimage (`ShieldsHashed`), for `decrypt_shield` compares only the note public key
  (the fourth limit above). For transfers the comparison in `decrypt_transact` suffices.

**NodeCodecProofs**, for every base of bytes, every capacity and every set of nodes, with any number
of elements in each variable part, and any damage to a record.
* `RecordsAreCanonical`: what is decoded is, to the last byte, the encoding of what comes out.
  `ReaderInv`: what was taken so far is the encoding of the bytes up to the position.
* `RecordsRoundTrip`: an undamaged record gives back its node. `RoundTripInv` says that k fields of the
  node have been taken and that what is due (`Planned`) is the rest of the plan of its body from there on. The plan
  is not fixed in advance: a count that was read puts words, blocks or blob bytes in front of it, so
  `Planned` has a case for being inside each of those parts. Without the plan the invariant is
  not inductive, for the fields read do not say which field the reader asks for next.
* `LeafHashesAgree`: `decode_hash` sees the hash `decode_node` sees. `HashInv` follows the
  first five fields, where the record has fixed places.
* Flattening a sequence of fields, and a number as a sum of digits, are recursive; what is needed of
  them (a flattened sequence grows by one element at a time, numbers of two digits and no others have
  a place, encodings of equal length that are equal have equal fields) is obtained from the least counterexample.

**DatabaseProofs.**
* `OnlyWholeFilesAreReadAlways`: an open file and every view of it is complete and stamped.
* `AtomicFileImplemented`: Database implements AtomicFile. The invariant `TxnInv` says for each
  kind of call what its image has of the old file and what of the file to be installed; the
  history field `asked` remembers what the caller wants, so that a partial batch would be seen.

The invariants the last proofs rest on (`MerkleInv`, `ScanInv`, `WalletInv`, `RoundTripInv`,
`HashInv`) and, but for `AccountDerived`, which quantifies over all mnemonics, the hypotheses of
WalletProofs were also checked by TLC on the instances of the runs, `NodesSent` with its senders and
addresses taken from the instance.

Only model-checked: liveness (`RunReturns`, `CatchesUp`, `ScanEnds`), which the prover does not do, and
the properties of Primitives. Its definitions recurse over rounds, bits, characters and matrices, partly
with operators declared RECURSIVE, and what they compute for every input rests on facts about fields
and groups that are beyond the prover; for addresses alone its content is proved, as said above. The
violations (`past_head`, `overlay_shared`, `max_target`) are runs, not theorems.

## Not modelled

* The ciphers and digests (AES-GCM, SHA, Blake-512, HMAC), curve25519 and field arithmetic, bech32
  and bip39 are libraries; they appear as symbolic terms, or as inputs of every value.
* The circom parameter sets (`poseidon-rust/src/circom*`): constants generated by a script. The
  models use small parameter sets of their own.
* `RailgunMnemonic`: checking and generating phrases is the library's; a mnemonic is a name here.
* Newtypes, hexadecimal texts and redaction of secrets (`types/src/macros.rs`): no behaviour that
  another part depends on.
* JSON and HTTP: a request yields a page or fails.
* A request that hangs; memory; tracing and metrics.

## Plan

Done in this order: UtxoStore, Indexer and Syncer (the core), their proofs, Replica, the
accumulator that justifies the representation of roots, Overlay and RangeMerge, Wallet, then
Database, NodeCodec and TableKeys below them; then the keys, notes and senders that make a wallet's
nodes, `validate`, and the primitives; then the theorems about Overlay, the refinement of Replica,
MerkleAccumulator, Wallet and RangeMerge; then those about NodeCodec, the bodies senders make and
addresses. What is left is the rest of Primitives: `NamesExact` and `PathsExact` for every width, as lemmas about
digits, in a module of their own without RECURSIVE operators.
