----------------------------- MODULE CkbEvidence -----------------------------
(***************************************************************************)
(* The engine that takes a transaction through the stages of CKB, one      *)
(* remote call at a time, while the chain grows and reorganises between    *)
(* any two calls.  The chain is a tree of blocks with a tip; a node        *)
(* changes its tip only for a longer branch.                               *)
(*                                                                         *)
(* A command ends with a projection one stage further, or with an error    *)
(* that leaves the projection the caller has.                              *)
(***************************************************************************)
EXTENDS CkbReceipts

CONSTANTS Tx,                \* the transaction
          Rivals,            \* other transactions of the pool
          max_attempts, poll_attempts,
          min_confirmations,
          max_cycles,
          MaxBlocks          \* bound on the blocks of the tree

VARIABLES branches,   \* block -> the blocks down to genesis, by number
          tip,        \* the node's best block
          tips,       \* blocks that have been the tip
          pool,       \* transactions the node has been sent
          projection, \* the furthest the caller has, None before the first
          engine      \* the command under way

vars == <<branches, tip, tips, pool, projection, engine>>

-----------------------------------------------------------------------------
(* CKB.  A block's header names its number, its transactions and, by its   *)
(* hash, itself.                                                           *)
Block(id, number, transactions) == [id |-> id, number |-> number, transactions |-> transactions]

Genesis == Block(0, 0, {})

Chain == branches[tip]

Confirmed(chain) == UNION {chain[i].transactions : i \in DOMAIN chain}

Spent(chain) == UNION {ToSet(tx.inputs) : tx \in Confirmed(chain)}

Acceptable(chain, raw) ==
    /\ raw \notin Confirmed(chain)
    /\ \A cell \in Range(InputCells(raw) \o DepCells(raw)) : cell.out_point \notin Spent(chain)

Includes(chain) == {{}} \union {{raw} : raw \in {raw \in pool : Acceptable(chain, raw)}}

Grow(chain, n, transactions) ==
    LET first == Cardinality(DOMAIN branches)
    IN  chain \o [i \in 1..n |->
            Block(first + i - 1, Len(chain) + i - 1, IF i = 1 THEN transactions ELSE {})]

(* The tip moves to a new branch from block a of the chain, longer than    *)
(* what it leaves; from the tip itself it is a block that was mined.       *)
Advance(a, n, transactions) ==
    LET base == SubSeq(Chain, 1, a)
        grown == Grow(base, n, transactions)
    IN  /\ Cardinality(DOMAIN branches) + n <= MaxBlocks
        /\ a + n > Len(Chain)
        /\ transactions \in Includes(base)
        /\ branches' = [b \in {grown[i] : i \in (a + 1)..(a + n)} |-> SubSeq(grown, 1, b.number + 1)]
                       @@ branches
        /\ tip' = grown[a + n]
        /\ tips' = tips \union {tip'}
        /\ UNCHANGED <<pool, projection, engine>>

SendRival(r) ==
    /\ raw_tx_hash(r) \notin pool
    /\ pool' = pool \union {raw_tx_hash(r)}
    /\ UNCHANGED <<branches, tip, tips, projection, engine>>

-----------------------------------------------------------------------------
(* Remote calls, each answered from the chain as it is at that moment.     *)
get_header_by_number(n) == IF n + 1 <= Len(Chain) THEN Chain[n + 1] ELSE None

get_live_cell(out_point) == out_point \notin Spent(Chain)

get_transaction(raw) ==
    LET holding == {i \in DOMAIN Chain : raw \in Chain[i].transactions}
    IN  IF holding # {} THEN [status |-> "committed", block |-> Chain[CHOOSE i \in holding : TRUE]]
        ELSE IF raw \notin pool THEN [status |-> "unknown", block |-> None]
        ELSE IF Acceptable(Chain, raw) THEN [status |-> "pending", block |-> None]
        ELSE [status |-> "rejected", block |-> None]

Idle == [pc |-> "idle", attempt |-> 0, tip |-> None, cells |-> <<>>, block |-> None]

Init ==
    /\ branches = (Genesis :> <<Genesis>>)
    /\ tip = Genesis
    /\ tips = {Genesis}
    /\ pool = {}
    /\ projection = None
    /\ engine = Idle

Engine == UNCHANGED <<branches, tip, tips>>

Fail == engine' = Idle /\ UNCHANGED projection

Deliver(p) ==
    /\ verify_projection(Tx, p)
    /\ projection' = p
    /\ engine' = Idle

At(pc) == engine.pc = pc

-----------------------------------------------------------------------------
(* resolve_context: every Cell under one tip, again while the tip moves.   *)
AskedCells == InputCells(Tx) \o DepCells(Tx)

ResolveContext ==
    /\ At("idle")
    /\ projection = None
    /\ max_attempts > 0
    /\ ckb_json_transaction(Tx)
    /\ engine' = [Idle EXCEPT !.pc = "resolve_cells", !.tip = tip, !.attempt = 1]
    /\ Engine /\ UNCHANGED <<pool, projection>>

ResolveCell ==
    LET cell == AskedCells[Len(engine.cells) + 1]
    IN  /\ At("resolve_cells")
        /\ Len(engine.cells) < Len(AskedCells)
        /\ IF get_live_cell(cell.out_point)
           THEN engine' = [engine EXCEPT !.cells = Append(@, cell)] /\ UNCHANGED projection
           ELSE Fail
        /\ Engine /\ UNCHANGED pool

(* A broken form of StableTip: the tip may have moved.                     *)
StableTipNever(before) == TRUE

StableTip(before) == tip = before

Resolved ==
    LET context == ContextResolvedReceipt(Tx, engine.tip, engine.cells)
    IN  /\ At("resolve_cells")
        /\ Len(engine.cells) = Len(AskedCells)
        /\ IF StableTip(engine.tip)
           THEN /\ ContextVerify(context, Tx)
                /\ engine' = [Idle EXCEPT !.pc = "validate", !.cells = context]
           ELSE IF engine.attempt < max_attempts
           THEN engine' = [Idle EXCEPT !.pc = "resolve_cells", !.attempt = engine.attempt + 1, !.tip = tip]
           ELSE engine' = Idle
        /\ Engine /\ UNCHANGED <<pool, projection>>

(* The context's tip is still on the chain.                                *)
require_canonical_context(context) == get_header_by_number(context.tip.number) = context.tip

(* validate_and_verify: the node's own judgement between two looks at the  *)
(* tip, at most three times.                                               *)
ValidateContext ==
    /\ At("validate")
    /\ IF max_cycles > 0 /\ require_canonical_context(engine.cells)
       THEN engine' = [engine EXCEPT !.pc = "validate_tip", !.attempt = 1]
       ELSE engine' = Idle
    /\ Engine /\ UNCHANGED <<pool, projection>>

ValidateTip ==
    /\ At("validate_tip")
    /\ engine' = [engine EXCEPT !.pc = "test_tx_pool_accept", !.tip = tip]
    /\ Engine /\ UNCHANGED <<pool, projection>>

TestTxPoolAccept ==
    /\ At("test_tx_pool_accept")
    /\ IF Acceptable(Chain, raw_tx_hash(Tx))
       THEN engine' = [engine EXCEPT !.pc = "validate_tip_after"]
       ELSE engine' = Idle
    /\ Engine /\ UNCHANGED <<pool, projection>>

(* The node's cycles and those of the local verifier may differ; both are  *)
(* held to the limit.                                                      *)
ValidateTipAfter(cycles, local) ==
    LET consensus == ConsensusValidatedReceipt(engine.cells, tip, cycles)
        scripts == ScriptsVerifiedReceipt(consensus, max_cycles, local)
    IN  /\ At("validate_tip_after")
        /\ IF StableTip(engine.tip)
           THEN IF cycles <= max_cycles /\ local <= max_cycles
                THEN Deliver([stage |-> "ScriptsVerified", raw_tx_hash |-> raw_tx_hash(Tx),
                              context |-> engine.cells, consensus |-> consensus, scripts |-> scripts,
                              node |-> None, committed |-> None, finalized |-> None])
                ELSE Fail
           ELSE IF engine.attempt < 3
           THEN /\ engine' = [engine EXCEPT !.pc = "validate_tip", !.attempt = @ + 1]
                /\ UNCHANGED projection
           ELSE Fail
        /\ Engine /\ UNCHANGED pool

-----------------------------------------------------------------------------
Stage == IF projection = None THEN "none" ELSE projection.stage

(* submit_and_observe: sent, then polled until the node knows of it.       *)
Submit ==
    /\ At("idle")
    /\ Stage = "ScriptsVerified"
    /\ verify_projection(Tx, projection)
    /\ IF require_canonical_context(projection.context)
       THEN engine' = [Idle EXCEPT !.pc = "send_transaction"]
       ELSE UNCHANGED engine
    /\ Engine /\ UNCHANGED <<pool, projection>>

SendTransaction ==
    /\ At("send_transaction")
    /\ IF Acceptable(Chain, raw_tx_hash(Tx))
       THEN /\ pool' = pool \union {raw_tx_hash(Tx)}
            /\ engine' = [engine EXCEPT !.pc = "observe_node", !.attempt = 1]
       ELSE engine' = Idle /\ UNCHANGED pool
    /\ Engine /\ UNCHANGED projection

PollAgain ==
    IF engine.attempt < poll_attempts
    THEN engine' = [engine EXCEPT !.attempt = @ + 1] /\ UNCHANGED projection
    ELSE Fail

ObserveNode ==
    LET observed == get_transaction(raw_tx_hash(Tx)).status
    IN  /\ At("observe_node")
        /\ CASE observed \in {"pending", "committed"} ->
                    Deliver([projection EXCEPT !.stage = "NodeAccepted",
                                !.node = NodeAcceptedReceipt(projection.scripts, observed)])
             [] observed = "rejected" -> Fail
             [] OTHER -> PollAgain
        /\ Engine /\ UNCHANGED pool

(* observe_committed: polled until committed, then the block's header, the *)
(* header at its number, and the inclusion proof.                          *)
ObserveCommitted ==
    /\ At("idle")
    /\ Stage = "NodeAccepted"
    /\ verify_projection(Tx, projection)
    /\ engine' = [Idle EXCEPT !.pc = "await_commit", !.attempt = 1]
    /\ Engine /\ UNCHANGED <<pool, projection>>

AwaitCommit ==
    LET observed == get_transaction(raw_tx_hash(Tx))
    IN  /\ At("await_commit")
        /\ CASE observed.status = "committed" ->
                    /\ engine' = [engine EXCEPT !.pc = "check_canonical", !.block = observed.block]
                    /\ UNCHANGED projection
             [] observed.status = "pending" -> PollAgain
             [] OTHER -> Fail
        /\ Engine /\ UNCHANGED pool

(* A header that left the chain is still known by its hash.                *)
CheckCanonical ==
    /\ At("check_canonical")
    /\ IF get_header_by_number(engine.block.number) = engine.block
       THEN engine' = [engine EXCEPT !.pc = "transaction_proof"] /\ UNCHANGED projection
       ELSE Fail
    /\ Engine /\ UNCHANGED pool

(* The node gives and checks proofs for blocks of its chain.               *)
TransactionProof ==
    /\ At("transaction_proof")
    /\ IF /\ get_header_by_number(engine.block.number) = engine.block
          /\ verify_ckb_transaction_proof(raw_tx_hash(Tx), engine.block)
       THEN Deliver([projection EXCEPT !.stage = "Committed",
                        !.committed = CommittedReceipt(projection.node, engine.block)])
       ELSE Fail
    /\ Engine /\ UNCHANGED pool

-----------------------------------------------------------------------------
(* wait_for_finality: the transaction, its block's number and the tip, in  *)
(* three calls, until the tip is deep enough.                              *)
WaitForFinality ==
    /\ At("idle")
    /\ Stage = "Committed"
    /\ min_confirmations > 0
    /\ verify_projection(Tx, projection)
    /\ engine' = [Idle EXCEPT !.pc = "finality_transaction", !.attempt = 1]
    /\ Engine /\ UNCHANGED <<pool, projection>>

FinalityTransaction ==
    /\ At("finality_transaction")
    /\ IF get_transaction(raw_tx_hash(Tx)) = [status |-> "committed", block |-> projection.committed.block]
       THEN engine' = [engine EXCEPT !.pc = "finality_canonical"] /\ UNCHANGED projection
       ELSE Fail
    /\ Engine /\ UNCHANGED pool

FinalityCanonical ==
    /\ At("finality_canonical")
    /\ IF get_header_by_number(projection.committed.block.number) = projection.committed.block
       THEN engine' = [engine EXCEPT !.pc = "finality_tip"] /\ UNCHANGED projection
       ELSE Fail
    /\ Engine /\ UNCHANGED pool

FinalityTip ==
    LET committed == projection.committed
    IN  /\ At("finality_tip")
        /\ IF tip.number >= committed.block.number + min_confirmations
           THEN Deliver([projection EXCEPT !.stage = "Finalized",
                            !.finalized = FinalizedReceipt(committed, min_confirmations, tip)])
           ELSE IF engine.attempt < poll_attempts
           THEN /\ engine' = [engine EXCEPT !.pc = "finality_transaction", !.attempt = @ + 1]
                /\ UNCHANGED projection
           ELSE Fail
        /\ Engine /\ UNCHANGED pool

(* Any remote call may fail, and the command with it.                      *)
RpcFails ==
    /\ ~At("idle")
    /\ Fail
    /\ Engine /\ UNCHANGED pool

Next ==
    \/ \E a \in DOMAIN Chain, n \in 1..3 :
           \E transactions \in {{}} \union {{raw} : raw \in pool} : Advance(a, n, transactions)
    \/ \E r \in Rivals : SendRival(r)
    \/ ResolveContext \/ ResolveCell \/ Resolved
    \/ ValidateContext \/ ValidateTip \/ TestTxPoolAccept
    \/ \E cycles, local \in 1..(max_cycles + 1) : ValidateTipAfter(cycles, local)
    \/ Submit \/ SendTransaction \/ ObserveNode
    \/ ObserveCommitted \/ AwaitCommit \/ CheckCanonical \/ TransactionProof
    \/ WaitForFinality \/ FinalityTransaction \/ FinalityCanonical \/ FinalityTip
    \/ RpcFails

Spec == Init /\ [][Next]_vars

-----------------------------------------------------------------------------
(* Evidence is true of the chain it names, however the chain moved between *)
(* the calls it was gathered by: all Cells of the context were unspent in  *)
(* the chain that ends at the context's tip, the node's judgement was      *)
(* passed on the chain that ends at its validation tip, and a committed or *)
(* final transaction is in a block that was on the node's chain            *)
(* (CkbEvidenceEngine).                                                    *)
EvidenceIsTrue ==
    projection # None =>
        /\ \A i \in DOMAIN projection.context.cells :
               projection.context.cells[i].out_point \notin Spent(branches[projection.context.tip])
        /\ Acceptable(branches[projection.consensus.validation_tip_hash], projection.raw_tx_hash)
        /\ projection.committed # None =>
               /\ projection.raw_tx_hash \in projection.committed.block.transactions
               /\ \E t \in tips : projection.committed.block \in Range(branches[t])
        /\ projection.finalized # None => projection.finalized.tip \in tips

(* "Confirmation-depth and canonical-chain stability receipt": a final     *)
(* transaction's block has had the required blocks on top of it.           *)
FinalizedWasBuried ==
    Stage = "Finalized" =>
        \E t \in tips :
            /\ projection.committed.block \in Range(branches[t])
            /\ t.number - projection.committed.block.number >= min_confirmations
=============================================================================
