------------------------------- MODULE Indexer -------------------------------
(***************************************************************************)
(* The event source of crates/sync: the rows a Subsquid indexer serves,    *)
(* the three GraphQL queries SubsquidSource sends, and the mapping of rows *)
(* to sync events.  The indexer itself is outside the repository: it is    *)
(* modelled from the queries (where, orderBy, limit) and from what the     *)
(* syncer does with the answers.  It has indexed every block up to `head`  *)
(* and serves exactly the rows of those blocks.                            *)
(***************************************************************************)
EXTENDS UtxoStore

CONSTANTS
  CommitmentRows, \* commitment rows of the whole chain, keyed by id
  NullifierRows,  \* nullifier rows of the whole chain, keyed by id
  TxBlocks,       \* blocks holding a RAILGUN transaction
  MaxId,          \* a bound on the row ids
  PageLimit       \* rows per page (page_limit)

(* Row ids are compared as strings by the indexer; only their order        *)
(* matters, so they are numbers here.  NoCursor is the empty string that   *)
(* vars() sends for a None cursor and that precedes every id.              *)
NoCursor == 0

(* __typename of a commitment row; an NFT is a ShieldCommitment whose      *)
(* token type is not ERC20.                                                *)
Kinds == {"Transact", "Shield", "NftShield", "Legacy"}

(* NodePosition::normalized re-splits the global leaf index.               *)
Normalized(tree, position) ==
  LET global == tree * Capacity + position
  IN  [tree |-> global \div Capacity, leaf |-> global % Capacity]

(* map_commitment: the node a row becomes, and the rows that become none.  *)
PlacedNode(row) ==
  LET slot == Normalized(row.tree, row.position)
  IN  [tree |-> slot.tree, leaf |-> slot.leaf,
       node |-> [hash |-> row.hash, block |-> row.block]]

Representable(rows) == {row \in rows : row.kind \in {"Transact", "Shield"}}

(* map_nullifier: the tree number is taken as reported.                    *)
NullifiedOf(row) == <<row.tree, row.nullifier>>

ASSUME RowsAssumption ==
  /\ PageLimit \in Nat \ {0}
  /\ MaxId \in Nat
  /\ TxBlocks \subseteq Blocks
  /\ IsFiniteSet(CommitmentRows)
  /\ IsFiniteSet(NullifierRows)
  /\ \A row \in CommitmentRows :
       /\ row.id \in 1 .. MaxId
       /\ row.block \in Blocks
       /\ row.kind \in Kinds
       /\ PlacedNode(row) \in PlacedNodes
  /\ \A row \in NullifierRows :
       /\ row.id \in 1 .. MaxId
       /\ row.block \in Blocks
       /\ NullifiedOf(row) \in Nullifiers
  /\ \A r, q \in CommitmentRows : r.id = q.id => r = q
  /\ \A r, q \in NullifierRows : r.id = q.id => r = q

(* where: {id_gt, blockNumber_gte, blockNumber_lte}                        *)
Matching(rows, head, lo, hi, cursor) ==
  {row \in rows : /\ row.block <= head
                  /\ lo <= row.block /\ row.block <= hi
                  /\ row.id > cursor}

(* orderBy: id_ASC, limit: the matching rows with the smallest ids.        *)
FirstPage(rows) ==
  {row \in rows : Cardinality({q \in rows : q.id < row.id}) < PageLimit}

QueryPage(rows, head, lo, hi, cursor) ==
  FirstPage(Matching(rows, head, lo, hi, cursor))

(* fetch_page resumes after the last raw row, mapped or skipped.           *)
LastId(page) == Max({row.id : row \in page})

(* latest_block: the block of the newest transaction, 0 if there is none.  *)
LatestBlock(head) == Max({0} \cup {b \in TxBlocks : b <= head})
=============================================================================
