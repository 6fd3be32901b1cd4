----------------------------- MODULE CkbReceipts -----------------------------
(***************************************************************************)
(* The receipts that show how far one transaction has come on CKB, and the *)
(* offline check of their chain.  Each receipt names the one before it by  *)
(* its commitment, a hash over all its fields: here a commitment is the    *)
(* receipt itself.  So is a header's hash the header, and a transaction's  *)
(* raw hash the transaction without its witnesses.                         *)
(***************************************************************************)
EXTENDS Naturals, Sequences, FiniteSets, SequencesExt, TLC

CONSTANTS GroupMembers   \* out point of a DepGroup -> out points it lists

None == <<>>

raw_tx_hash(tx) == [tx EXCEPT !.witnesses = None]

(* Only the script hash types data, type, data1 and data2 have a name in   *)
(* the JSON a node is sent.                                                *)
HashTypes == {0, 1, 2, 4}

ckb_json_transaction(tx) == \A i \in DOMAIN tx.outputs : tx.outputs[i].hash_type \in HashTypes

-----------------------------------------------------------------------------
(* The Cells a transaction's context must hold: its inputs, its            *)
(* dependencies, and what those list that are groups.                      *)
ResolvedCell(role, index, out_point, expanded_from) ==
    [role |-> role, index |-> index, out_point |-> out_point, expanded_from |-> expanded_from]

Members(dep) == IF dep \in DOMAIN GroupMembers THEN GroupMembers[dep] ELSE <<>>

InputCells(tx) ==
    [i \in DOMAIN tx.inputs |-> ResolvedCell("input", i, tx.inputs[i], None)]

(* In the order they are asked for: of a group first the root, which is    *)
(* kept after its members.                                                 *)
DepCells(tx) ==
    FlattenSeq([i \in DOMAIN tx.cell_deps |->
        LET dep == tx.cell_deps[i]
        IN  <<ResolvedCell("cell_dep", i, dep, None)>> \o
            [m \in DOMAIN Members(dep) |-> ResolvedCell("dep_group_member", m, Members(dep)[m], dep)]])

require_cell(context, cell) ==
    Cardinality({i \in DOMAIN context.cells : context.cells[i] = cell}) = 1

ContextVerify(context, tx) ==
    /\ context.raw_tx_hash = raw_tx_hash(tx)
    /\ context.transaction_json = tx
    /\ IsInjective(context.cells)
    /\ \A i \in DOMAIN InputCells(tx) : require_cell(context, InputCells(tx)[i])
    /\ \A i \in DOMAIN DepCells(tx) : require_cell(context, DepCells(tx)[i])

-----------------------------------------------------------------------------
(* The receipts.                                                           *)
ContextResolvedReceipt(tx, tip, cells) ==
    [raw_tx_hash |-> raw_tx_hash(tx), transaction_json |-> tx, tip |-> tip, cells |-> cells]

ConsensusValidatedReceipt(context, tip, cycles) ==
    [context_commitment |-> context, raw_tx_hash |-> context.raw_tx_hash,
     validation_tip_hash |-> tip, cycles |-> cycles]

ScriptsVerifiedReceipt(consensus, max_cycles, local) ==
    [consensus_receipt_commitment |-> consensus, raw_tx_hash |-> consensus.raw_tx_hash,
     max_cycles |-> max_cycles, local_vm_cycles |-> local, node_vm_cycles |-> consensus.cycles]

NodeAcceptedReceipt(scripts, status) ==
    [scripts_receipt_commitment |-> scripts, raw_tx_hash |-> scripts.raw_tx_hash,
     submitted_tx_hash |-> scripts.raw_tx_hash, observed_status |-> status]

CommittedReceipt(node, block) ==
    [node_receipt_commitment |-> node, raw_tx_hash |-> node.raw_tx_hash, block |-> block,
     committed_observation |-> block]

FinalizedReceipt(committed, min_confirmations, tip) ==
    [committed_receipt_commitment |-> committed, raw_tx_hash |-> committed.raw_tx_hash,
     min_confirmations |-> min_confirmations, confirmations |-> tip.number - committed.block.number,
     tip |-> tip, canonical_block |-> committed.block, committed_observation |-> committed.block]

(* The inclusion proof leads from the transaction to the root in the       *)
(* header of its block.                                                    *)
verify_ckb_transaction_proof(raw, block) == raw \in block.transactions

-----------------------------------------------------------------------------
verify_node_receipt(node, scripts, raw) ==
    /\ node.scripts_receipt_commitment = scripts
    /\ node.raw_tx_hash = raw
    /\ node.submitted_tx_hash = raw
    /\ node.observed_status \in {"pending", "proposed", "committed"}

verify_committed_receipt(committed, node, raw) ==
    /\ verify_ckb_transaction_proof(raw, committed.block)
    /\ committed.node_receipt_commitment = node
    /\ committed.raw_tx_hash = raw
    /\ committed.block = committed.committed_observation

verify_finalized_receipt(finalized, committed, raw) ==
    LET confirmations == finalized.tip.number - committed.block.number
    IN  /\ finalized.committed_receipt_commitment = committed
        /\ finalized.raw_tx_hash = raw
        /\ finalized.min_confirmations # 0
        /\ finalized.tip.number >= committed.block.number
        /\ finalized.confirmations = confirmations
        /\ confirmations >= finalized.min_confirmations
        /\ finalized.canonical_block = committed.block
        /\ finalized.committed_observation = committed.block

(* The stage is what the receipts show, whatever label is on them.         *)
StageOf(p) ==
    CASE p.node = None /\ p.committed = None /\ p.finalized = None -> "ScriptsVerified"
      [] p.node # None /\ p.committed = None /\ p.finalized = None -> "NodeAccepted"
      [] p.node # None /\ p.committed # None /\ p.finalized = None -> "Committed"
      [] p.node # None /\ p.committed # None /\ p.finalized # None -> "Finalized"
      [] OTHER -> "Unsupported"

verify_projection(tx, p) ==
    /\ p.raw_tx_hash = p.context.raw_tx_hash
    /\ ContextVerify(p.context, tx)
    /\ p.consensus.context_commitment = p.context
    /\ p.consensus.raw_tx_hash = p.raw_tx_hash
    /\ p.scripts.consensus_receipt_commitment = p.consensus
    /\ p.scripts.raw_tx_hash = p.raw_tx_hash
    /\ p.scripts.local_vm_cycles <= p.scripts.max_cycles
    /\ p.scripts.node_vm_cycles <= p.scripts.max_cycles
    /\ p.stage = StageOf(p)
    /\ p.stage # "Unsupported"
    /\ p.node # None => verify_node_receipt(p.node, p.scripts, p.raw_tx_hash)
    /\ p.committed # None => verify_committed_receipt(p.committed, p.node, p.raw_tx_hash)
    /\ p.finalized # None => verify_finalized_receipt(p.finalized, p.committed, p.raw_tx_hash)
=============================================================================
