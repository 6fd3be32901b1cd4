---------------------------- MODULE SessionEscrow ----------------------------
(***************************************************************************)
(* Assets held on CKB for the participants of a session.  Everyone signs   *)
(* the terms, a final CKB transaction funds one output for each of them,   *)
(* the session keeps a ledger of balances in one Cell that every update    *)
(* consumes and creates anew, and the ledger of a final block is paid out  *)
(* by a transaction that spends the funded outputs.                        *)
(*                                                                         *)
(* Terms are their own hash, so are ledgers; a signature is the pair of    *)
(* signer and signed.                                                      *)
(***************************************************************************)
EXTENDS CkbReceipts, FiniteSetsExt

CONSTANTS Offers,      \* what is handed to attach: [terms, authorizations, tx, evidence]
          Evidences(_, _), \* receipts for a settlement: transaction, confirmations
          Configs,     \* settlements' dependencies, fee and funding
          Capacities,  \* out point -> capacity of a Cell that may fund a fee
          Balances,    \* balances an update may write
          MaxU64, MaxU128,
          MaxEpoch,    \* bound on the updates
          MaxExits     \* bound on the settlements that are prepared

VARIABLES attachment,  \* the offer that was verified, None before
          blocks,      \* the ledger Cells after each final block
          exits,       \* settlements that were prepared
          settled      \* the settlement that is final on CKB, or None

vars == <<attachment, blocks, exits, settled>>

Sum(values) == FoldLeft(LAMBDA total, v : total + v, 0, values)

-----------------------------------------------------------------------------
(* A participant: [id, key, payout_lock, minimum, deposit, max_debit],     *)
(* where the minimum is what a Cell with the payout lock must hold.        *)
ValidParticipant(terms, p) ==
    /\ p.deposit > 0
    /\ p.max_debit <= p.deposit
    /\ terms.asset = "ckb" => p.deposit >= p.minimum

TermsValidate(terms) ==
    LET ps == terms.participants
        ds == terms.deposits
    IN  /\ Len(ps) > 0
        /\ Len(ds) = Len(ps)
        /\ terms.session_start_deadline_ms < terms.session_expiry_ms
        /\ terms.challenge_window_ms # 0 /\ terms.min_confirmations # 0
        /\ \A i \in DOMAIN ps : ValidParticipant(terms, ps[i])
        /\ \A i, j \in DOMAIN ps : i < j => ps[i].id < ps[j].id /\ ps[i].key # ps[j].key
        /\ \A i \in DOMAIN ds : ds[i].id = ps[i].id
        /\ \A i, j \in DOMAIN ds : i # j => ds[i].outpoint # ds[j].outpoint

(* Every participant signed exactly these terms, once.                     *)
verify_authorizations(terms, authorizations) ==
    /\ TermsValidate(terms)
    /\ Len(authorizations) = Len(terms.participants)
    /\ \A i, j \in DOMAIN authorizations : i # j => authorizations[i].id # authorizations[j].id
    /\ \A i \in DOMAIN authorizations : \E n \in DOMAIN terms.participants :
           LET p == terms.participants[n]
           IN  /\ p.id = authorizations[i].id
               /\ authorizations[i].signature = <<p.key, terms>>

-----------------------------------------------------------------------------
(* The ledger.                                                             *)
genesis(terms) ==
    [terms |-> terms, epoch |-> 0, previous |-> None, evidence |-> FALSE,
     ledger |-> [i \in DOMAIN terms.participants |-> terms.participants[i].deposit]]

(* What is left of native capacity makes a Cell, or nothing is left.       *)
Payable(terms, i, balance) ==
    terms.asset = "ckb" /\ balance # 0 => balance >= terms.participants[i].minimum

(* The debit is what is missing of the deposit, never below nothing.       *)
StateValidate(state, terms) ==
    LET ps == terms.participants
        deposits == [i \in DOMAIN ps |-> ps[i].deposit]
    IN  /\ TermsValidate(terms)
        /\ state.terms = terms
        /\ Len(state.ledger) = Len(ps)
        /\ Sum(deposits) <= MaxU128 /\ Sum(state.ledger) <= MaxU128
        /\ \A i \in DOMAIN ps :
               /\ ps[i].deposit > state.ledger[i] => ps[i].deposit - state.ledger[i] <= ps[i].max_debit
               /\ Payable(terms, i, state.ledger[i])
        /\ Sum(deposits) = Sum(state.ledger)

validate_successor(state, next, terms) ==
    /\ StateValidate(state, terms)
    /\ StateValidate(next, terms)
    /\ next.epoch = state.epoch + 1
    /\ next.previous = state
    /\ next.evidence

(* A transaction of the session that touches ledger Cells: those it        *)
(* consumes and those it creates.                                          *)
verify_escrow_transition(terms, inputs, outputs) ==
    \/ inputs = <<>> /\ outputs = <<>>
    \/ /\ Len(inputs) = 1 /\ Len(outputs) = 1
       /\ outputs[1].lock = inputs[1].lock
       /\ outputs[1].capacity = inputs[1].capacity
       /\ validate_successor(inputs[1].state, outputs[1].state, terms)

-----------------------------------------------------------------------------
Init ==
    /\ attachment = None
    /\ blocks = <<>>
    /\ exits = {}
    /\ settled = None

(* A broken form of Funded: the amount is not looked at.                   *)
FundedByLock(terms, i, tx) ==
    LET outpoint == terms.deposits[i].outpoint
    IN  outpoint.index \in DOMAIN tx.outputs /\ tx.outputs[outpoint.index].lock = terms.escrow_lock

(* Output i of the funding transaction holds what participant i deposits.  *)
Funded(terms, i, tx) ==
    LET outpoint == terms.deposits[i].outpoint
        output == tx.outputs[outpoint.index]
    IN  /\ outpoint.tx_hash = raw_tx_hash(tx)
        /\ outpoint.index \in DOMAIN tx.outputs
        /\ output.lock = terms.escrow_lock
        /\ IF terms.asset = "ckb"
           THEN output.type = None /\ output.capacity = terms.participants[i].deposit
           ELSE output.type = <<terms.asset>> /\ output.amount = terms.participants[i].deposit

(* The session begins with the ledger of the deposits.                     *)
attach(offer) ==
    LET terms == offer.terms
        finalized == offer.evidence.finalized
    IN  /\ attachment = None
        /\ verify_authorizations(terms, offer.authorizations)
        /\ verify_projection(offer.tx, offer.evidence)
        /\ offer.evidence.stage = "Finalized"
        /\ finalized.confirmations >= terms.min_confirmations
        /\ finalized.tip.timestamp <= terms.session_start_deadline_ms
        /\ \A i \in DOMAIN terms.participants : Funded(terms, i, offer.tx)
        /\ attachment' = offer
        /\ blocks' = <<<<[lock |-> "ledger", capacity |-> 1, state |-> genesis(terms)]>>>>
        /\ UNCHANGED <<exits, settled>>

Cells == blocks[Len(blocks)]

(* A block with one transaction that consumes some of the ledger Cells and *)
(* creates others.                                                         *)
Update(inputs, outputs) ==
    /\ attachment # None
    /\ verify_escrow_transition(attachment.terms, inputs, outputs)
    /\ blocks' = Append(blocks, SelectSeq(Cells, LAMBDA c : c \notin Range(inputs)) \o outputs)
    /\ UNCHANGED <<attachment, exits, settled>>

-----------------------------------------------------------------------------
verify_ckb_capacity(output) == output.capacity >= output.minimum

Payouts(terms, state) ==
    LET paid == SelectSeq([i \in DOMAIN state.ledger |-> i], LAMBDA i : state.ledger[i] # 0)
    IN  [k \in DOMAIN paid |->
            LET p == terms.participants[paid[k]]
            IN  [capacity |-> state.ledger[paid[k]], lock |-> p.payout_lock, minimum |-> p.minimum,
                 type |-> None, hash_type |-> 1]]

(* A fee comes from a Cell of its own, never from the deposits.            *)
FeeRefused(terms, config) ==
    IF config.funding = None THEN config.fee # 0
    ELSE \/ \E i \in DOMAIN terms.deposits : terms.deposits[i].outpoint = config.funding.outpoint
         \/ config.funding.capacity < config.fee

Change(config) ==
    IF config.funding = None \/ config.funding.capacity = config.fee THEN <<>>
    ELSE <<[capacity |-> config.funding.capacity - config.fee, lock |-> <<"change">>,
            minimum |-> config.funding.minimum, type |-> None, hash_type |-> 1]>>

SettlementTx(terms, state, config) ==
    [inputs |-> [i \in DOMAIN terms.deposits |-> terms.deposits[i].outpoint] \o
                (IF config.funding = None THEN <<>> ELSE <<config.funding.outpoint>>),
     cell_deps |-> config.cell_deps,
     outputs |-> Payouts(terms, state) \o Change(config),
     witnesses |-> None]

Preparable(terms, cells, config) ==
    /\ terms.asset = "ckb"
    /\ Len(cells) = 1
    /\ StateValidate(cells[1].state, terms)
    /\ \A i \in DOMAIN cells[1].state.ledger : cells[1].state.ledger[i] <= MaxU64
    /\ ~FeeRefused(terms, config)
    /\ LET outputs == SettlementTx(terms, cells[1].state, config).outputs
       IN  \A k \in DOMAIN outputs : verify_ckb_capacity(outputs[k])

(* The ledger of any final block may be prepared, the last or an earlier.  *)
prepare_capacity_exit(block, config) ==
    LET terms == attachment.terms
    IN  /\ attachment # None
        /\ Cardinality(exits) < MaxExits
        /\ block \in DOMAIN blocks
        /\ Preparable(terms, blocks[block], config)
        /\ exits' = exits \union {[block |-> block, config |-> config, state |-> blocks[block][1].state,
                                   tx |-> SettlementTx(terms, blocks[block][1].state, config)]}
        /\ UNCHANGED <<attachment, blocks, settled>>

(* Witnesses are put in, which may not change the raw transaction; CKB     *)
(* takes one transaction that spends the deposits; its receipts are        *)
(* checked for the depth asked for.                                        *)
FinalizedSettlement(exit, witnesses, confirmations) ==
    LET tx == [exit.tx EXCEPT !.witnesses = witnesses]
        evidence == Evidences(tx, confirmations)
    IN  /\ exit \in exits
        /\ settled = None
        /\ raw_tx_hash(tx) = raw_tx_hash(exit.tx)
        /\ verify_projection(tx, evidence)
        /\ evidence.stage = "Finalized"
        /\ evidence.finalized.confirmations >= attachment.terms.min_confirmations
        /\ settled' = [exit |-> exit, tx |-> tx]
        /\ UNCHANGED <<attachment, blocks, exits>>

(* What an update may be tried with.                                       *)
Successors(state) ==
    {[state EXCEPT !.epoch = e, !.previous = p, !.evidence = v, !.ledger = l] :
        e \in {state.epoch, state.epoch + 1}, p \in {state, state.previous}, v \in BOOLEAN,
        l \in [DOMAIN state.ledger -> Balances]}

Next ==
    \/ \E offer \in Offers : attach(offer)
    \/ /\ attachment # None
       /\ Len(blocks) <= MaxEpoch
       /\ \E inputs \in {<<>>, <<Cells[1]>>}, capacity \in {1, 2} :
              \E successor \in Successors(Cells[1].state) :
                  LET cell == [lock |-> "ledger", capacity |-> capacity, state |-> successor]
                  IN  \E outputs \in {<<cell>>, <<cell, Cells[1]>>} : Update(inputs, outputs)
    \/ \E block \in DOMAIN blocks, config \in Configs : prepare_capacity_exit(block, config)
    \/ \E exit \in exits, confirmations \in 0..2 :
           FinalizedSettlement(exit, <<"w">>, confirmations)

Spec == Init /\ [][Next]_vars

-----------------------------------------------------------------------------
Paid(tx, lock) ==
    Sum([k \in DOMAIN tx.outputs |-> IF tx.outputs[k].lock = lock THEN tx.outputs[k].capacity ELSE 0])

(* Nothing is made or lost between CKB and the session: a settlement that  *)
(* was prepared spends the capacity that its inputs really hold on CKB,    *)
(* pays it out to the last unit but for the fee, and pays no one less than *)
(* the deposit without the greatest debit they signed, whatever updates    *)
(* the session has been through and whichever block it is prepared from    *)
(* (attach, verify_escrow_transition, prepare_capacity_exit).              *)
EscrowConserved ==
    \A exit \in exits :
        LET terms == attachment.terms
            Held(outpoint) ==
                IF outpoint.tx_hash = raw_tx_hash(attachment.tx)
                THEN attachment.tx.outputs[outpoint.index].capacity
                ELSE Capacities[outpoint]
        IN  /\ Sum([i \in DOMAIN exit.tx.inputs |-> Held(exit.tx.inputs[i])]) =
                   Sum([k \in DOMAIN exit.tx.outputs |-> exit.tx.outputs[k].capacity]) + exit.config.fee
            /\ \A i \in DOMAIN terms.participants :
                   Paid(exit.tx, terms.participants[i].payout_lock) + terms.participants[i].max_debit
                       >= terms.participants[i].deposit

(* The session never gets to a ledger that cannot be paid out: every final *)
(* block has one ledger, and native capacity that fits a word is paid from *)
(* it without a fee (StateValidate asks of every update what a settlement  *)
(* will be asked).                                                         *)
AlwaysPayable ==
    \A b \in DOMAIN blocks :
        /\ Len(blocks[b]) = 1
        /\ attachment.terms.asset = "ckb" /\ Sum(blocks[b][1].state.ledger) <= MaxU64 =>
               Preparable(attachment.terms, blocks[b], [cell_deps |-> <<>>, fee |-> 0, funding |-> None])
=============================================================================
