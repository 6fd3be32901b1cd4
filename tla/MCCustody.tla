------------------------------ MODULE MCCustody ------------------------------
(***************************************************************************)
(* What is kept for a session outside its own database, for TLC: a         *)
(* behaviour is of the archives, pins and backups of old blocks, of files  *)
(* put into a package and assembled again, of a transaction followed on    *)
(* CKB, of the assets CKB holds for the participants, or of the assets     *)
(* that sessions hand over to one another.                                 *)
(***************************************************************************)
EXTENDS CkbReceipts

CONSTANTS Exports, MaxHeight, IssueAt, CloseAt, MaxRetains,
          Plans, Contents, chunk_bytes, Lower, MaxWrites,
          Tx, Rivals, max_attempts, poll_attempts, min_confirmations, max_cycles, MaxBlocks,
          Offers, Evidences(_, _), Configs, Capacities, Balances, MaxU64, MaxU128, MaxEpoch,
          MaxExits, NoRef, NoSession

VARIABLES dirs, database, owner, registry, retain, backup, restore,  \* the archives'
          collect, saved, exported, retains,
          plan, sources, reading, package, blobs, assembled, step, writes, \* the package's
          branches, tip, tips, pool, projection, engine,             \* the chain's
          attachment, blocks, exits, settled,                        \* the escrow's
          app, head, handoffs, executor, prepared, proposal, deployment,  \* the transfers'
          part            \* which of the five a behaviour is of

Archives == INSTANCE BundleCustody

Chain == INSTANCE CkbEvidence

Escrow == INSTANCE SessionEscrow

-----------------------------------------------------------------------------
(* Sessions that transfer assets.  In the first deployment b and c accept  *)
(* what a locks and only one of them may take it; in the second a is       *)
(* continued, twice; in the third a receipt is copied.                     *)
Account(amount, components) ==
    [available |-> amount, locked |-> 0, version |-> 0, components |-> components]

TransferPolicy(kind, accepted) ==
    [kind |-> kind, domain |-> "d", accepted_sources |-> accepted,
     limits |-> [max_accounts |-> 2, max_pending |-> 2, max_receipts |-> 1, max_nonces |-> 2]]

Issues == TransferPolicy("Scarce", {})
Accepts == TransferPolicy("Scarce", {"a"})

Deployments ==
    [scarce |-> [policies |-> [a |-> Issues, b |-> Accepts, c |-> Accepts],
                 roots |-> [a |-> (<<"x", "p">> :> Account(2, "m")),
                            b |-> (<<"x", "q">> :> Account(0, "n")), c |-> <<>>],
                 heights |-> [a |-> 3, b |-> 1, c |-> 1], successors |-> {}],
     continued |-> [policies |-> [a |-> Issues, a1 |-> Issues, a2 |-> Issues, b |-> Accepts],
                    roots |-> [a |-> (<<"x", "p">> :> Account(2, "m")), b |-> <<>>],
                    heights |-> [a |-> 2, a1 |-> 3, a2 |-> 1, b |-> 1],
                    successors |-> {"a1", "a2"}],
     copies |-> [policies |-> [k |-> TransferPolicy("CopyableReceipt", {}),
                               m |-> TransferPolicy("CopyableReceipt", {"k"})],
                 roots |-> [k |-> (<<"x", "p">> :> Account(1, "m")), m |-> <<>>],
                 heights |-> [k |-> 2, m |-> 2], successors |-> {}]]

Intent(kind, source, recipient, version, amount, target, signature) ==
    [payload |-> [kind |-> kind, domain |-> "d", source |-> source, asset |-> "x",
                  owner |-> "p", recipient |-> recipient, source_version |-> version,
                  amount |-> amount, components |-> "m", nonce |-> version, target |-> target],
     expires_at |-> 1, signature |-> signature, signer |-> "p"]

Intents ==
    {Intent("Scarce", "a", "q", v, 1, t, 1) : v \in 0..1, t \in {[policy |-> Accepts], [session |-> "b"]}}
    \union {Intent("Scarce", "a", "p", 0, 2, [policy |-> Accepts], g) : g \in {1, 2}}
    \union {Intent("Scarce", "a1", "q", 1, 1, [session |-> "b"], 1)}
    \union {Intent("CopyableReceipt", "k", "q", v, 1, [session |-> "m"], 1) : v \in 0..1}

Transfers == INSTANCE SessionTransfer
             WITH Sessions <- {"a", "a1", "a2", "b", "c", "k", "m"}, Assets <- {"x"},
                  Owners <- {"p", "q"}, TransferIntents <- Intents, Plans <- Deployments,
                  plan <- deployment, Times <- {0, 2}, MaxCommands <- 1,
                  MAX_HANDOFF_OWNER_DEPTH <- 1

-----------------------------------------------------------------------------
archiveVars == <<dirs, database, owner, registry, retain, backup, restore, collect, saved,
                 exported, retains>>
packageVars == <<plan, sources, reading, package, blobs, assembled, step, writes>>
chainVars == <<branches, tip, tips, pool, projection, engine>>
escrowVars == <<attachment, blocks, exits, settled>>
transferVars == <<app, head, handoffs, executor, prepared, proposal, deployment>>
mcvars == <<archiveVars, packageVars, chainVars, escrowVars, transferVars, part>>

-----------------------------------------------------------------------------
MCExports == {<<"export", i>> : i \in 1..3}

(* Names that differ in case, names below a file, and names that go        *)
(* together.                                                               *)
MCLower == [c \in {"a", "A", "b"} |-> IF c = "A" THEN "a" ELSE c]
MCNames == {{<<"a">>}, {<<"a">>, <<"A">>}, {<<"a">>, <<"b">>}, {<<"A", "b">>, <<"a", "a">>},
            {<<"A", "b">>, <<"a">>}, {<<"b", "a">>, <<"b", "b">>}}
MCPlans == UNION {[s -> {<<0, 0, 0>>, <<>>, <<0, 1>>}] : s \in MCNames}
MCContents == {<<1, 1, 1>>, <<1, 0>>, <<0, 1, 0, 1>>}
OnePlan == CHOOSE p \in MCPlans : TRUE

(* A transaction that reads a group, and a rival that spends a member of   *)
(* the group.                                                              *)
Sending(inputs, deps) ==
    [inputs |-> inputs, cell_deps |-> deps, outputs |-> <<[hash_type |-> 1]>>, witnesses |-> <<"w">>]
MCTx == Sending(<<"c">>, <<"g">>)
MCRivals == {Sending(<<"m">>, <<>>)}
MCGroup == ("g" :> <<"m">>)

-----------------------------------------------------------------------------
(* Offers of an escrow: two participants, of which the second may lose one *)
(* unit, or all but one of a larger deposit; funded as agreed, short of    *)
(* it, in a token, and with receipts that do not belong to it or are not   *)
(* deep or early enough, or with signatures of other terms.                *)
Participant(id, deposit, debit) ==
    [id |-> id, key |-> id + 10, payout_lock |-> <<"pay", id>>, minimum |-> 2,
     deposit |-> deposit, max_debit |-> debit]

Holding(capacity) ==
    [capacity |-> capacity, lock |-> "escrow", type |-> None, hash_type |-> 1, amount |-> 0]
HoldingToken(amount) ==
    [capacity |-> 5, lock |-> "escrow", type |-> <<"token">>, hash_type |-> 1, amount |-> amount]

Opening(outputs) ==
    [inputs |-> <<"funds">>, cell_deps |-> <<>>, outputs |-> outputs, witnesses |-> <<"w">>]

Terms(tx, participants, asset) ==
    [participants |-> participants, asset |-> asset,
     deposits |-> [i \in DOMAIN participants |->
                      [id |-> participants[i].id,
                       outpoint |-> [tx_hash |-> raw_tx_hash(tx), index |-> i]]],
     session_start_deadline_ms |-> 5, session_expiry_ms |-> 9, challenge_window_ms |-> 1,
     min_confirmations |-> 2, escrow_lock |-> "escrow"]

At(number, transactions, time) ==
    [number |-> number, transactions |-> transactions, timestamp |-> time]

(* The receipts of a transaction in block 1, up to a tip.                  *)
Receipts(tx, last) ==
    LET context == ContextResolvedReceipt(tx, At(0, {}, 1), InputCells(tx) \o DepCells(tx))
        consensus == ConsensusValidatedReceipt(context, At(0, {}, 1), 1)
        scripts == ScriptsVerifiedReceipt(consensus, 1, 1)
        node == NodeAcceptedReceipt(scripts, "pending")
        committed == CommittedReceipt(node, At(1, {raw_tx_hash(tx)}, 2))
    IN  [stage |-> "Finalized", raw_tx_hash |-> raw_tx_hash(tx), context |-> context,
         consensus |-> consensus, scripts |-> scripts, node |-> node, committed |-> committed,
         finalized |-> FinalizedReceipt(committed, 1, last)]

MCEvidences(tx, confirmations) == Receipts(tx, At(confirmations + 1, {}, 4))

Signed(terms, participants) ==
    [i \in DOMAIN participants |->
        [id |-> participants[i].id, signature |-> <<participants[i].key, terms>>]]

Offer(tx, terms, evidence) ==
    [tx |-> tx, terms |-> terms, evidence |-> evidence,
     authorizations |-> Signed(terms, terms.participants)]

Two == <<Participant(1, 3, 3), Participant(2, 3, 1)>>
Larger == <<Participant(1, 4, 4), Participant(2, 3, 2)>>

MCOffers ==
    LET right == Opening(<<Holding(3), Holding(3)>>)
        short == Opening(<<Holding(3), Holding(2)>>)
        large == Opening(<<Holding(4), Holding(3)>>)
        token == Opening(<<HoldingToken(3), HoldingToken(3)>>)
        terms == Terms(right, Two, "ckb")
        deep(tx) == MCEvidences(tx, 2)
    IN  {Offer(right, terms, deep(right)),
         Offer(right, terms, MCEvidences(right, 1)),
         Offer(right, terms, Receipts(right, At(3, {}, 6))),
         Offer(right, terms, deep(short)),
         Offer(right, terms, [deep(right) EXCEPT !.finalized = deep(short).finalized]),
         Offer(right, terms, [MCEvidences(right, 1) EXCEPT !.finalized.confirmations = 2]),
         Offer(short, Terms(short, Two, "ckb"), deep(short)),
         Offer(large, Terms(large, Larger, "ckb"), deep(large)),
         Offer(token, Terms(token, Two, "token"), deep(token)),
         [Offer(right, terms, deep(right)) EXCEPT
             !.authorizations = Signed([terms EXCEPT !.min_confirmations = 1], Two)],
         [Offer(right, terms, deep(right)) EXCEPT
             !.authorizations = Signed(terms, <<Two[1], Two[1]>>)]}

(* Fees from nowhere, from Cells of their own and from a deposit.          *)
Funding(outpoint, capacity) == [outpoint |-> outpoint, capacity |-> capacity, minimum |-> 2]
Own(name) == [tx_hash |-> [inputs |-> <<name>>], index |-> 1]
Deposit == [tx_hash |-> raw_tx_hash(Opening(<<Holding(3), Holding(3)>>)), index |-> 1]
MCCapacities == (Own("f4") :> 4) @@ (Own("f2") :> 2) @@ (Deposit :> 3)

Config(paid, funding) == [cell_deps |-> <<>>, fee |-> paid, funding |-> funding]
MCConfigs ==
    {Config(0, None), Config(1, None), Config(1, Funding(Own("f4"), 4)),
     Config(1, Funding(Own("f2"), 2)), Config(2, Funding(Own("f2"), 2)),
     Config(3, Funding(Own("f2"), 2)), Config(1, Funding(Deposit, 3))}

-----------------------------------------------------------------------------
MCInit ==
    /\ part \in {"archives", "package", "chain", "escrow", "transfers"}
    /\ Archives!Init
    /\ Archives!PackageInit /\ (part # "package" => plan = OnePlan)
    /\ Chain!Init
    /\ Escrow!Init
    /\ Transfers!Init /\ (part # "transfers" => deployment = "copies")

MCNext ==
    /\ \/ part = "archives" /\ Archives!Next
              /\ UNCHANGED <<packageVars, chainVars, escrowVars, transferVars>>
       \/ part = "package" /\ Archives!PackageNext
              /\ UNCHANGED <<archiveVars, chainVars, escrowVars, transferVars>>
       \/ part = "chain" /\ Chain!Next
              /\ UNCHANGED <<archiveVars, packageVars, escrowVars, transferVars>>
       \/ part = "escrow" /\ Escrow!Next
              /\ UNCHANGED <<archiveVars, packageVars, chainVars, transferVars>>
       \/ part = "transfers" /\ Transfers!Next
              /\ UNCHANGED <<archiveVars, packageVars, chainVars, escrowVars>>
    /\ UNCHANGED part

MCSpec == MCInit /\ [][MCNext]_mcvars

(* What the archives and the file packages promise: a pinned archive can be*)
(* read, the history of a database never ends in a hole, and an assembled  *)
(* file is what was packed.                                                *)
HistoryKept ==
    /\ part = "archives" => Archives!PinsReadable /\ Archives!HistoryKept
    /\ part = "package" => Archives!AssembledIsSource

(* What CkbEvidence promises, and what its documentation says of a final   *)
(* receipt.                                                                *)
EvidenceIsTrue == part = "chain" => Chain!EvidenceIsTrue
FinalizedWasBuried == part = "chain" => Chain!FinalizedWasBuried

(* What SessionEscrow promises: no unit is made or lost, and every ledger  *)
(* can be paid out.                                                        *)
EscrowConserved == part = "escrow" => Escrow!EscrowConserved /\ Escrow!AlwaysPayable

(* What SessionTransfer promises: a scarce asset exists once, wherever it  *)
(* is, and no lock is left that nothing can end.                           *)
ScarceConserved == part = "transfers" => Transfers!ScarceConserved /\ Transfers!NoStrandedLock
=============================================================================
