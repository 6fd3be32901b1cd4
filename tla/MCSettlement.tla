----------------------------- MODULE MCSettlement -----------------------------
(***************************************************************************)
(* How a session reaches the chain, for TLC.  A behaviour is of the        *)
(* documents an operator makes without storage up to a settlement package, *)
(* of those made with a segment store up to the anchor, or of the          *)
(* transactions of such packages from their preparation to the readiness   *)
(* decision.                                                               *)
(***************************************************************************)
EXTENDS Naturals, Sequences, FiniteSets, TLC

CONSTANTS Length(_), SEGMENT_SIZE, MaxSegments, MaxEpoch,
          Sessions, ChunkIndexes, ConsensusKind, Participants, EscrowCells,
          Windows, Times, MaxTime, CertificateShapes, CourtShapes, LockShapes,
          SignerSets, MaxRewrites, MaxCrashes,
          Cells, Plan, Menus, Paths, InclusionPaths, Confirmations, MinFee,
          FeeRate, MaxFee, MaxU64, MaxReorg, MaxHeight, MaxForks, MaxDecisions

VARIABLES dat, idx, meta, writer,                             \* the store's
          files, mixed, publishing, rewrites, crashes,        \* the documents'
          chain, fork, pool, submissions, inclusions,         \* the chain's and
          context, economics, stability, finality, decisions, \* the submission's
          cmd, menu, requeried, held, sent,
          part            \* which of the three a behaviour is of

Documents == INSTANCE SettlementDocuments
L1 == INSTANCE L1Submission

docVars == <<dat, idx, meta, writer, files, mixed, publishing, rewrites, crashes>>
l1Vars == <<chain, fork, pool, submissions, inclusions, context, economics, stability,
            finality, decisions, cmd, menu, requeried, held, sent>>
mcvars == <<docVars, l1Vars, part>>

-----------------------------------------------------------------------------
(* Two sessions of the same participants over different escrow Cells.      *)
MCLength(tx) == 1
MCChunkIndexes == [s \in {"s", "t"} |-> IF s = "s" THEN {0, 1} ELSE {0}]
MCConsensusKind == [s \in {"s", "t"} |-> IF s = "s" THEN "static" ELSE "authority"]
MCParticipants == [s \in {"s", "t"} |-> {"p", "q"}]
MCEscrowCells == [s \in {"s", "t"} |-> IF s = "s" THEN "c1" ELSE "c2"]

Receipt(provider, domain) ==
    [provider_id |-> provider, fault_domain |-> domain,
     stored_at_epoch |-> 0, retained_until_epoch |-> 3]

(* A certificate of two providers in two domains, probed once.             *)
MCCertificateShapes ==
    {[policy |-> [min_distinct_providers |-> 2, min_distinct_fault_domains |-> 2,
                  min_retention_epochs |-> 2, min_successful_probes |-> 1,
                  min_probed_providers |-> 1, max_probe_age_epochs |-> 1,
                  max_probe_latency_ms |-> 1, trusted_auditors |-> {"a"}],
      receipts |-> <<Receipt("x", "d"), Receipt("y", "e")>>,
      probes |-> <<[receipt |-> 1, sample_index |-> 0, auditor |-> "a",
                    observed_at_epoch |-> 1, successful |-> TRUE, latency_ms |-> 1]>>,
      evaluation_epoch |-> 1]}

MCCourtShapes ==
    {[network |-> "ckb-testnet", ckb_enforceable_checked |-> TRUE,
      testnet_beta_ready |-> TRUE, production_ready |-> FALSE]}
MCLockShapes ==
    {[network |-> "ckb-mainnet", official_dep_group |-> TRUE, threshold |-> 2,
      node_chain |-> "ckb", identity_checked |-> TRUE, ckb_enforceable_checked |-> TRUE,
      testnet_beta_ready |-> TRUE, production_ready |-> TRUE]}
MCSignerSets == {{"p"}, {"p", "q"}}

-----------------------------------------------------------------------------
MCCells ==
    [o \in {"f", "g", "auth", "da", "lock", "code"} |->
        [capacity |-> IF o = "auth" THEN 3 ELSE 6, lock |-> "multisig",
         data |-> IF o = "auth" THEN "authority" ELSE o]]

Settle(input, fee) ==
    [role |-> "final-l1-script", package_kind |-> "settlement", input |-> input,
     authority_input |-> <<"auth">>, evidence_cell_dep |-> <<"da">>,
     lock_dep |-> "lock", verifier_dep |-> "code",
     declared |-> [o \in {input, "auth", "da", "code"} |-> MCCells[o]],
     carrier_capacity |-> 4, carrier_min_capacity |-> 2, change_min_capacity |-> 1, fee |-> fee,
     payload_bound |-> TRUE, deployment_checked |-> TRUE, package_lock |-> "multisig",
     lock |-> "multisig", output_lock |-> "multisig", locally_verified |-> TRUE, size |-> 1]

Carry(input, declared) ==
    [Settle(input, 1) EXCEPT !.role = "carrier", !.authority_input = <<>>,
                             !.evidence_cell_dep = <<>>, !.declared = declared]

MCPlan ==
    [p \in {"settle", "again", "carry", "direct", "wrong"} |->
        CASE p = "settle" -> Settle("f", 1)
          [] p = "again" -> Settle("g", 2)
          [] p = "carry" -> Carry("f", [o \in {"f", "code"} |-> MCCells[o]])
          [] p = "direct" -> [Carry("g", [o \in {"g", "code"} |-> MCCells[o]])
                                 EXCEPT !.role = "package"]
          [] p = "wrong" -> Carry("g", [o \in {"g", "code"} |-> [MCCells[o] EXCEPT !.capacity = 7]])]
MCMenus == {{"settle", "again"}, {"carry"}, {"wrong"}, {"direct"}}
MCConf == {2}

-----------------------------------------------------------------------------
MCInit ==
    /\ Documents!Init
    /\ L1!Init
    /\ \/ part = "l1"
       \/ part \in {"papers", "storage"} /\ menu = CHOOSE m \in Menus : TRUE

MCNext ==
    /\ \/ /\ part = "papers" /\ Documents!Next /\ writer' = <<>> /\ UNCHANGED l1Vars
          /\ <<>> \in {files'.anchor, files'.intent}
       \/ /\ part = "storage" /\ Documents!Next /\ UNCHANGED l1Vars
          /\ files'.intent = <<>> /\ rewrites' < MaxRewrites
       \/ part = "l1" /\ L1!Next /\ UNCHANGED docVars
    /\ UNCHANGED part

MCSpec == MCInit /\ [][MCNext]_mcvars

StaysAccepted == [][part # "l1" => Documents!Kept]_mcvars

(* What the documentation says of the segments: a sealed segment proves    *)
(* each of its chunks.                                                     *)
EveryChunkProves == part = "storage" => Documents!EveryChunkProves

(* What L1Submission promises: a ready decision is about a transaction the *)
(* chain has settled, and rests on what really happened to that one.       *)
ReadyIsFinal == part = "l1" => L1!ReadyIsFinal
ReadyIsFounded == part = "l1" => L1!ReadyIsFounded
=============================================================================
