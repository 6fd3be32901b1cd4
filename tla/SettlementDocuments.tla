------------------------- MODULE SettlementDocuments -------------------------
(***************************************************************************)
(* The documents that lead from an opened session to its settlement on the *)
(* base chain.  Each is a file one command writes from the files before    *)
(* it, and a verifier of its own accepts or rejects: the opened session, a *)
(* committed chunk, the court bundle, the manifest of its publication for  *)
(* data availability, the settlement intent, and the packages for the      *)
(* chain.  A file is whatever the operator hands to a command: commands    *)
(* are run again at any time, so that a file is older than the one it was  *)
(* made from; a bundle comes from another session; and a file may be       *)
(* pieced together from two.                                               *)
(*                                                                         *)
(* A hash is the term it is of.  A transaction, a block, an execution      *)
(* frame and a state root are named by the session and the chunk they were *)
(* computed for; what they hold is a function of these.                    *)
(***************************************************************************)
EXTENDS Naturals, Sequences, FiniteSets, SequencesExt, Functions,
        FiniteSetsExt

-----------------------------------------------------------------------------
(***************************************************************************)
(* The segments of the data-availability store.  A segment is three files: *)
(* the data, an index with the bounds of every chunk appended to it, and,  *)
(* once it is sealed, its metadata with the Merkle root of the chunks.     *)
(* One writer appends a chunk and seals its segment; between any two of    *)
(* its file operations the process may die, and a file it was replacing is *)
(* then whole, or torn.  A reader proves a chunk from the files alone.     *)
(*                                                                         *)
(* A byte is a payload and a position in it, so that two chunks are equal  *)
(* only when they are the same bytes; hashes are the terms they are of.    *)
(***************************************************************************)

-----------------------------------------------------------------------------
(***************************************************************************)
(* The provider-neutral certificate that a blob is available: receipts of  *)
(* the providers that store it and probes of auditors that retrieved it,   *)
(* judged by the policy the certificate carries at an evaluation epoch.    *)
(* Signatures are not modelled apart: a receipt and a probe name the blob  *)
(* their signer signed for.                                                *)
(***************************************************************************)

CONSTANTS MaxEpoch   \* the largest epoch a u64 holds

(* DaErasureProfile::replicated: the payload is its own only shard.        *)
replicated(payload_len) == [data_shards |-> 1, parity_shards |-> 0, shard_size |-> payload_len]

BlobValid(blob) ==
    /\ blob.payload_len > 0
    /\ blob.erasure.data_shards > 0
    /\ blob.erasure.shard_size > 0

PolicyValid(policy) ==
    /\ policy.min_distinct_fault_domains > 0
    /\ policy.min_distinct_fault_domains <= policy.min_distinct_providers
    /\ policy.min_retention_epochs > 0
    /\ policy.min_successful_probes > 0
    /\ policy.min_probed_providers > 0
    /\ policy.min_probed_providers <= policy.min_distinct_providers
    /\ policy.max_probe_age_epochs > 0
    /\ policy.max_probe_latency_ms > 0
    /\ policy.trusted_auditors # {}

(* Every receipt must be for this blob, from a provider of its own, and    *)
(* hold from before the evaluation to the end of the retention.            *)
ReceiptsHold(certificate, evaluation_epoch) ==
    LET receipts == certificate.receipts
        required_until == evaluation_epoch + certificate.policy.min_retention_epochs
    IN  /\ required_until <= MaxEpoch
        /\ \A i \in DOMAIN receipts :
               /\ receipts[i].blob = certificate.blob
               /\ receipts[i].stored_at_epoch <= evaluation_epoch
               /\ receipts[i].retained_until_epoch >= required_until
        /\ \A i, j \in DOMAIN receipts :
               receipts[i].provider_id = receipts[j].provider_id => i = j

(* Every probe must be of a receipt of the certificate, by a trusted       *)
(* auditor, not repeated, not from the future and not stale.               *)
ProbesHold(certificate, evaluation_epoch) ==
    LET probes == certificate.probes
        policy == certificate.policy
    IN  /\ \A i \in DOMAIN probes :
               /\ probes[i].receipt.blob = certificate.blob
               /\ probes[i].receipt \in Range(certificate.receipts)
               /\ probes[i].auditor \in policy.trusted_auditors
               /\ probes[i].observed_at_epoch <= evaluation_epoch
               /\ evaluation_epoch - probes[i].observed_at_epoch <= policy.max_probe_age_epochs
        /\ \A i, j \in DOMAIN probes :
               /\ probes[i].receipt.provider_id = probes[j].receipt.provider_id
               /\ probes[i].sample_index = probes[j].sample_index
               /\ probes[i].auditor = probes[j].auditor
               => i = j

Providers(certificate) == {r.provider_id : r \in Range(certificate.receipts)}

FaultDomains(certificate) == {r.fault_domain : r \in Range(certificate.receipts)}

(* The probes that found the blob in time.                                 *)
Successful(certificate) ==
    {i \in DOMAIN certificate.probes :
        /\ certificate.probes[i].successful
        /\ certificate.probes[i].latency_ms <= certificate.policy.max_probe_latency_ms}

Probed(certificate) ==
    {certificate.probes[i].receipt.provider_id : i \in Successful(certificate)}

(* DaCertificate::verify                                                   *)
CertificateVerifies(certificate, evaluation_epoch) ==
    LET policy == certificate.policy
    IN  /\ BlobValid(certificate.blob)
        /\ PolicyValid(policy)
        /\ ReceiptsHold(certificate, evaluation_epoch)
        /\ Cardinality(Providers(certificate)) >= policy.min_distinct_providers
        /\ Cardinality(FaultDomains(certificate)) >= policy.min_distinct_fault_domains
        /\ ProbesHold(certificate, evaluation_epoch)
        /\ Cardinality(Successful(certificate)) >= policy.min_successful_probes
        /\ Cardinality(Probed(certificate)) >= policy.min_probed_providers

-----------------------------------------------------------------------------
CONSTANTS Length(_),       \* number of bytes of a payload
          SEGMENT_SIZE,    \* bytes a segment holds
          MaxSegments      \* bound on the segments

VARIABLES dat,      \* segment id -> bytes of the data file
          idx,      \* segment id -> append records, or TornIndex
          meta,     \* segment id -> size, cell_count and merkle_root, or Torn
          writer    \* the writer of the running command, or None

storeVars == <<dat, idx, meta, writer>>

None == <<>>
Torn == [torn |-> TRUE]
TornIndex == <<Torn>>

Bytes(payload) == [i \in 1..Length(payload) |-> <<payload, i>>]

-----------------------------------------------------------------------------
(* The Merkle tree over the chunks of a segment.  An odd node at the end   *)
(* of a level is carried up as it is.                                      *)
hash_leaf(chunk) == <<"leaf", chunk>>

hash_internal(left, right) == <<"node", left, right>>

build_next_level(level) ==
    [i \in 1..((Len(level) + 1) \div 2) |->
        IF 2 * i <= Len(level) THEN hash_internal(level[2 * i - 1], level[2 * i])
        ELSE level[2 * i - 1]]

(* Level k of the tree over the leaves, the leaves being level 0.          *)
Level(leaves, k) ==
    LET level[n \in 0..k] == IF n = 0 THEN leaves ELSE build_next_level(level[n - 1])
    IN  level[k]

Depth(leaves) == CHOOSE k \in 0..Len(leaves) :
                     /\ Len(Level(leaves, k)) <= 1
                     /\ \A j \in 0..(k - 1) : Len(Level(leaves, j)) > 1

compute_segment_root(chunks) ==
    LET leaves == [i \in DOMAIN chunks |-> hash_leaf(chunks[i])]
    IN  IF chunks = <<>> THEN <<"empty">> ELSE Level(leaves, Depth(leaves))[1]

(* The siblings on the way up from a leaf, counted from zero.  A level     *)
(* where the node has no sibling contributes none.                         *)
get_proof(chunks, index) ==
    LET leaves == [i \in DOMAIN chunks |-> hash_leaf(chunks[i])]
        Sibling(k) ==
            LET i == index \div 2^k
                s == IF i % 2 = 0 THEN i + 1 ELSE i - 1
            IN  IF s < Len(Level(leaves, k)) THEN <<Level(leaves, k)[s + 1]>> ELSE <<>>
    IN  IF index >= Len(leaves) THEN <<>>
        ELSE FlattenSeq([k \in 1..Depth(leaves) |-> Sibling(k - 1)])

(* The verifier halves the index once for every sibling it is given.       *)
verify_merkle_proof(leaf, path, root, index) ==
    LET Up(acc, sibling) ==
            [hash |-> IF acc.index % 2 = 0 THEN hash_internal(acc.hash, sibling)
                      ELSE hash_internal(sibling, acc.hash),
             index |-> acc.index \div 2]
    IN  FoldLeft(Up, [hash |-> leaf, index |-> index], path).hash = root

(* SegmentProof::verify                                                    *)
ProofVerifies(proof) ==
    /\ Len(proof.chunk_data) = proof.chunk_length
    /\ verify_merkle_proof(hash_leaf(proof.chunk_data), proof.merkle_path,
                           proof.segment_root, proof.leaf_index)

-----------------------------------------------------------------------------
(* Reading: a range that is not in the file is an error, and so is an      *)
(* index that is torn; an index that is missing is empty.                  *)
Readable(id, record) ==
    id \in DOMAIN dat /\ record.offset + record.length <= Len(dat[id])

Read(id, record) == SubSeq(dat[id], record.offset + 1, record.offset + record.length)

load_chunk_index(id) == IF id \in DOMAIN idx THEN idx[id] ELSE <<>>

Sealed(id) == id \in DOMAIN meta /\ meta[id] # Torn

(* The chunks a segment's index bounds, None on an error.                  *)
Chunks(id) ==
    LET records == load_chunk_index(id)
    IN  IF records = TornIndex \/ id \notin DOMAIN dat THEN None
        ELSE IF \E i \in DOMAIN records : ~Readable(id, records[i]) THEN None
        ELSE [i \in DOMAIN records |-> Read(id, records[i])]

(* The proof of one leaf of a segment, None on an error.  The root of a    *)
(* segment that is not sealed is computed.                                 *)
build_proof(id, leaf_index) ==
    LET chunks == Chunks(id)
        computed_root == compute_segment_root(chunks)
        record == load_chunk_index(id)[leaf_index + 1]
    IN  IF \/ chunks = None
           \/ leaf_index >= Len(chunks)
           \/ id \in DOMAIN meta /\ ~Sealed(id)
           \/ Sealed(id) /\ meta[id].merkle_root # computed_root
        THEN None
        ELSE [segment_id |-> id, leaf_index |-> leaf_index,
              chunk_data |-> chunks[leaf_index + 1],
              chunk_offset |-> record.offset, chunk_length |-> record.length,
              merkle_path |-> get_proof(chunks, leaf_index),
              segment_root |-> computed_root]

(* The first record with the bounds of a segment pointer.                  *)
LeafIndexes(id, offset, length) ==
    LET records == load_chunk_index(id)
    IN  IF records = TornIndex THEN {}
        ELSE {i - 1 : i \in {i \in DOMAIN records :
                                 records[i] = [offset |-> offset, length |-> length]}}

verify_seal_binding(id) ==
    /\ Sealed(id)
    /\ Chunks(id) # None
    /\ compute_segment_root(Chunks(id)) = meta[id].merkle_root

-----------------------------------------------------------------------------
StoreInit ==
    /\ dat = <<>>
    /\ idx = <<>>
    /\ meta = <<>>
    /\ writer = None

(* A broken form of Recoverable: the segment is taken up again although it *)
(* is sealed.                                                              *)
RecoverableAlways(id) == TRUE

(* The newest segment is taken up again unless it has metadata.            *)
Recoverable(id) == id \notin DOMAIN meta

(* SegmentWriter::new and the start of append.  A torn index is an error.  *)
SegmentWriter_new(data) ==
    /\ writer = None
    /\ LET max_id == Max(DOMAIN dat)
           fresh == [current_segment_id |-> IF dat = <<>> THEN 0 ELSE max_id + 1,
                     file |-> FALSE, current_offset |-> 0, current_chunks |-> <<>>,
                     data |-> data, step |-> "append", pointer |-> None]
       IN  IF dat # <<>> /\ Recoverable(max_id)
           THEN /\ load_chunk_index(max_id) # TornIndex
                /\ writer' = [fresh EXCEPT !.current_segment_id = max_id, !.file = TRUE,
                                           !.current_offset = Len(dat[max_id]),
                                           !.current_chunks = load_chunk_index(max_id)]
           ELSE fresh.current_segment_id < MaxSegments /\ writer' = fresh
    /\ UNCHANGED <<dat, idx, meta>>

At(step) == writer # None /\ writer.step = step

Full == writer.current_offset + Length(writer.data) > SEGMENT_SIZE

(* The first half of rotate_segment: a segment without room is sealed.     *)
RotateSeal ==
    /\ At("append") /\ writer.file /\ Full
    /\ writer' = [writer EXCEPT !.step = "rotate"]
    /\ UNCHANGED <<dat, idx, meta>>

(* The second: the next segment's file is created.                         *)
RotateOpen ==
    /\ At("append") /\ ~writer.file
    /\ writer.current_segment_id < MaxSegments
    /\ writer' = [writer EXCEPT !.file = TRUE, !.current_offset = 0]
    /\ dat' = (writer.current_segment_id :> <<>>) @@ dat
    /\ UNCHANGED <<idx, meta>>

(* append writes the chunk and syncs it, ...                               *)
Write ==
    /\ At("append") /\ writer.file /\ ~Full
    /\ LET id == writer.current_segment_id
           record == [offset |-> writer.current_offset, length |-> Length(writer.data)]
       IN  /\ dat' = [dat EXCEPT ![id] = @ \o Bytes(writer.data)]
           /\ writer' = [writer EXCEPT !.current_offset = @ + Length(writer.data),
                                       !.current_chunks = Append(@, record),
                                       !.pointer = [segment_id |-> id, record |-> record],
                                       !.step = "index"]
    /\ UNCHANGED <<idx, meta>>

(* ... and then the index.                                                 *)
SaveIndex ==
    /\ At("index")
    /\ idx' = (writer.current_segment_id :> writer.current_chunks) @@ idx
    /\ writer' = [writer EXCEPT !.step = "seal"]
    /\ UNCHANGED <<dat, meta>>

(* seal computes the root over the chunks the writer has in memory; there  *)
(* must be one when there are bytes.                                       *)
Sealable == writer.current_chunks # <<>> \/ writer.current_offset = 0

SaveMeta ==
    /\ At("seal") \/ At("rotate")
    /\ Sealable
    /\ LET id == writer.current_segment_id
           chunks == [i \in DOMAIN writer.current_chunks |-> Read(id, writer.current_chunks[i])]
       IN  meta' = (id :> [size |-> writer.current_offset,
                           cell_count |-> Len(writer.current_chunks),
                           merkle_root |-> compute_segment_root(chunks)]) @@ meta
    /\ writer' = [writer EXCEPT !.step = IF @ = "seal" THEN "sealIndex" ELSE "rotateIndex"]
    /\ UNCHANGED <<dat, idx>>

(* The index is written once more and the segment closed.                  *)
SealIndex ==
    /\ At("sealIndex") \/ At("rotateIndex")
    /\ idx' = (writer.current_segment_id :> writer.current_chunks) @@ idx
    /\ writer' = [writer EXCEPT !.file = FALSE, !.current_offset = 0, !.current_chunks = <<>>,
                                !.current_segment_id = @ + 1,
                                !.step = IF @ = "sealIndex" THEN "sealed" ELSE "append"]
    /\ UNCHANGED <<dat, meta>>

WriterStep == RotateSeal \/ RotateOpen \/ Write \/ SaveIndex \/ SaveMeta \/ SealIndex

(* The command gives up: a segment with bytes and no bounds has no root.   *)
SealFails ==
    /\ At("rotate") /\ ~Sealable
    /\ writer' = None
    /\ UNCHANGED <<dat, idx, meta>>

(* The process dies.  Of a chunk any part may have reached the file, and a *)
(* file that was being replaced is as it was, or torn.                     *)
Die ==
    /\ writer # None
    /\ writer' = None
    /\ LET id == writer.current_segment_id
       IN  \/ UNCHANGED <<dat, idx, meta>>
           \/ /\ At("append") /\ writer.file /\ ~Full
              /\ \E n \in 1..Length(writer.data) :
                     dat' = [dat EXCEPT ![id] = @ \o SubSeq(Bytes(writer.data), 1, n)]
              /\ UNCHANGED <<idx, meta>>
           \/ /\ At("index") \/ At("sealIndex") \/ At("rotateIndex")
              /\ idx' = (id :> TornIndex) @@ idx
              /\ UNCHANGED <<dat, meta>>
           \/ /\ At("seal") \/ At("rotate")
              /\ meta' = (id :> Torn) @@ meta
              /\ UNCHANGED <<dat, idx>>

-----------------------------------------------------------------------------
(* Every chunk of a sealed segment can be proved: what build_proof returns *)
(* for it verifies against the segment's root ("Verify proof against the   *)
(* committed segment root", and a test asserts it for a segment's second   *)
(* chunk of two and of three).                                             *)
EveryChunkProves ==
    \A id \in DOMAIN meta : Sealed(id) /\ Chunks(id) # None =>
        \A leaf \in 0..(Len(Chunks(id)) - 1) :
            build_proof(id, leaf) # None /\ ProofVerifies(build_proof(id, leaf))

-----------------------------------------------------------------------------
(* The documents. *)

CONSTANTS Sessions,        \* sessions, each named by its identifier
          ChunkIndexes,    \* session -> chunks that are committed
          ConsensusKind,   \* session -> static, authority or tendermint
          Participants,    \* session -> its participant set
          EscrowCells,     \* session -> its escrow Cells
          Windows,         \* challenge windows
          Times,           \* what the operator's clock says
          MaxTime,         \* the largest time a u64 holds
          CertificateShapes, \* availability certificates, but for their blob
          CourtShapes,     \* court deployments, but for what they bind
          LockShapes,      \* multisig deployments
          SignerSets,      \* who signs for the authority
          MaxRewrites,     \* bound on the files written again
          MaxCrashes       \* bound on the crashes of a writer

VARIABLES files,      \* slot -> document, or None
          mixed,      \* the slot whose file is pieced together, or Whole
          publishing, \* what the running manifest command was given, or None
          rewrites,   \* files written again so far
          crashes     \* crashes so far

vars == <<dat, idx, meta, writer, files, mixed, publishing, rewrites, crashes>>

Whole == "whole"

Slots == {"open", "commit", "bundle", "manifest", "intent", "anchor", "package"}

-----------------------------------------------------------------------------
(* What a session is opened with gives its identifier, its lineage digests *)
(* and the root of its escrow Cells.                                       *)
Lineage(s) ==
    [participant_set_hash |-> Participants[s], escrow_input_cells_hash |-> EscrowCells[s],
     session_lineage_commitment |-> s]

session_open_report(s) ==
    [opened_with |-> s, session_id |-> s, consensus_kind |-> ConsensusKind[s],
     lineage |-> Lineage(s), initial_state_root |-> <<s>>]

(* Everything in the file is computed again from what it was opened with.  *)
load_and_validate_session_open(open) == open = session_open_report(open.opened_with)

(* The chunk's transaction spends the primary escrow and carries the       *)
(* session and the chunk; the state, the frame and the block follow.  The  *)
(* block's timestamp is zero.                                              *)
Item(what, s, chunk) == [what |-> what, session |-> s, chunk |-> chunk]

Timestamp(block) == 0

(* Who finalises a block: two of three in the static committee, the one    *)
(* authority scheduled at height zero, three of four by weighted vote.     *)
Finalisers(kind) ==
    CASE kind = "static" -> {"validator-0", "validator-1"}
      [] kind = "authority" -> {"validator-0"}
      [] kind = "tendermint" -> {"validator-0", "validator-1", "validator-2"}

finality_evidence_for_block(block, kind) ==
    [kind |-> kind, block_hash |-> block,
     signatures |-> {<<v, block>> : v \in Finalisers(kind)}]

session_commit_from_open(open, chunk) ==
    LET s == open.session_id
        block == Item("block", s, chunk)
    IN  [session_id |-> s, chunk_index |-> chunk, consensus_kind |-> open.consensus_kind,
         lineage |-> open.lineage,
         state_root_before |-> open.initial_state_root,
         state_root_after |-> Item("root", s, chunk),
         ordered_cell_tx_commitments |-> <<Item("tx", s, chunk)>>,
         data_commitment |-> Item("data", s, chunk),
         scheduler_commitment |-> Item("scheduler", s, chunk),
         block |-> block, transaction |-> Item("tx", s, chunk),
         transaction_hash |-> <<"hash", Item("tx", s, chunk)>>,
         frame_input |-> Item("input", s, chunk), execution_frame |-> Item("frame", s, chunk),
         evidence |-> finality_evidence_for_block(block, open.consensus_kind)]

-----------------------------------------------------------------------------
ChallengePayloadHash(doc) ==
    [session_id |-> doc.session_id, chunk_index |-> doc.chunk_index,
     state_root_before |-> doc.state_root_before, data_commitment |-> doc.data_commitment,
     state_root_after |-> doc.state_root_after,
     scheduler_commitment |-> doc.scheduler_commitment, block_hash |-> doc.block,
     lineage |-> doc.lineage]

(* ExecutionFrame::validate, and what the block must say of the frame: it  *)
(* is the block of this frame, with its session, roots and transactions.   *)
FrameBound(doc) ==
    /\ doc.frame_input = [doc.execution_frame EXCEPT !.what = "input"]
    /\ doc.block = [doc.execution_frame EXCEPT !.what = "block"]

session_court_bundle(commit) ==
    [challenge_payload_hash |-> ChallengePayloadHash(commit)] @@ commit

(* The evidence has the shape of the consensus engine and its certificate  *)
(* verifies for this block.                                                *)
verify_session_finality_checks(bundle) ==
    /\ bundle.evidence.kind = bundle.consensus_kind
    /\ {v \in Finalisers(bundle.consensus_kind) : <<v, bundle.block>> \in bundle.evidence.signatures}
           = Finalisers(bundle.consensus_kind)

TransactionFields == {"transaction", "transaction_hash", "ordered_cell_tx_commitments"}

TransactionBound(bundle) ==
    /\ bundle.transaction_hash = <<"hash", bundle.transaction>>
    /\ bundle.ordered_cell_tx_commitments[1] = bundle.transaction

RootsBound(bundle) ==
    /\ bundle.state_root_before = <<bundle.block.session>>
    /\ bundle.state_root_after = [bundle.block EXCEPT !.what = "root"]
    /\ bundle.scheduler_commitment = [bundle.block EXCEPT !.what = "scheduler"]
    /\ bundle.data_commitment = [bundle.block EXCEPT !.what = "data"]


(* Most fields are compared with the block or the frame.  The              *)
(* transaction is compared with the ids the bundle itself lists, and the   *)
(* session, the chunk and the lineage are only hashed into the challenge   *)
(* payload.                                                                *)
verify_session_court_bundle(bundle) ==
    /\ TransactionBound(bundle)
    /\ FrameBound(bundle)
    /\ bundle.consensus_kind = ConsensusKind[bundle.block.session]
    /\ RootsBound(bundle)
    /\ bundle.challenge_payload_hash = ChallengePayloadHash(bundle)
    /\ bundle.evidence.block_hash = bundle.block
    /\ verify_session_finality_checks(bundle)

-----------------------------------------------------------------------------
(* The manifest.  The proof is of the transaction's bytes in a segment;    *)
(* the certificate, if there is one, must be of exactly this blob.         *)
Blob(session_id, chunk, transaction_hash, length, root) ==
    [session_id |-> session_id, chunk_index |-> chunk, payload_hash |-> transaction_hash,
     payload_len |-> length, segment_root |-> root, erasure |-> replicated(length)]

(* A certificate of a certain shape for a blob.                            *)
CertificateOf(shape, blob) ==
    LET Receipt(r) == [blob |-> blob] @@ r
        receipts == [i \in DOMAIN shape.receipts |-> Receipt(shape.receipts[i])]
        Probe(p) == [receipt |-> receipts[p.receipt]] @@ p
    IN  [blob |-> blob, policy |-> shape.policy, receipts |-> receipts,
         probes |-> [i \in DOMAIN shape.probes |-> Probe(shape.probes[i])]]

CertificateFits(evidence, blob) ==
    evidence # None =>
        /\ evidence.certificate.blob = blob
        /\ CertificateVerifies(evidence.certificate, evidence.evaluation_epoch)

(* da_availability_evidence.  The committee's attestations are functions   *)
(* of what the commitment is of.                                           *)
da_availability_evidence(doc, evidence) ==
    LET ready == doc.local_da_published /\ evidence # None
    IN  [availability_commitment |->
             [session_id |-> doc.session_id, court_bundle_hash |-> doc.court_bundle_hash,
              payload_hash |-> doc.transaction_hash, segment_root |-> doc.segment_root,
              proof |-> doc.proof, certificate |-> evidence],
         retrieval_probe_count |-> IF doc.local_da_published THEN 2 ELSE 1,
         certificate |-> evidence, testnet_beta_ready |-> ready, production_ready |-> ready]

session_da_manifest(bundle, proof, published, evidence) ==
    LET doc == [session_id |-> bundle.session_id, chunk_index |-> bundle.chunk_index,
                consensus_kind |-> bundle.consensus_kind,
                court_bundle_hash |-> <<"bundle", bundle>>,
                transaction_hash |-> bundle.transaction_hash,
                challenge_payload_hash |-> bundle.challenge_payload_hash,
                segment_id |-> proof.segment_id, leaf_index |-> proof.leaf_index,
                chunk_offset |-> proof.chunk_offset, chunk_length |-> proof.chunk_length,
                segment_root |-> proof.segment_root, proof |-> proof,
                proof_valid |-> ProofVerifies(proof), segment_sealed |-> published,
                local_da_published |-> published, da_storage_path |-> published]
    IN  [availability |-> da_availability_evidence(doc, evidence)] @@ doc

BlobOf(manifest) ==
    Blob(manifest.session_id, manifest.chunk_index, manifest.transaction_hash,
         Len(manifest.proof.chunk_data), manifest.segment_root)

ManifestNamesBundle(manifest, bundle) ==
    /\ manifest.session_id = bundle.session_id
    /\ manifest.chunk_index = bundle.chunk_index
    /\ manifest.consensus_kind = bundle.consensus_kind
    /\ manifest.court_bundle_hash = <<"bundle", bundle>>
    /\ manifest.transaction_hash = bundle.transaction_hash
    /\ manifest.challenge_payload_hash = bundle.challenge_payload_hash

ProofIsOfPayload(manifest, bundle) ==
    LET proof == manifest.proof
    IN  /\ ProofVerifies(proof) /\ manifest.proof_valid
        /\ proof.chunk_data = Bytes(bundle.transaction)
        /\ manifest.segment_id = proof.segment_id
        /\ manifest.leaf_index = proof.leaf_index
        /\ manifest.chunk_offset = proof.chunk_offset
        /\ manifest.chunk_length = proof.chunk_length
        /\ manifest.segment_root = proof.segment_root

(* The verifier reads the storage as it is now.                            *)
StorageHolds(manifest) ==
    /\ manifest.local_da_published = manifest.segment_sealed
    /\ manifest.local_da_published = manifest.da_storage_path
    /\ manifest.local_da_published =>
           build_proof(manifest.segment_id, manifest.leaf_index) = manifest.proof

verify_session_da_manifest(manifest, bundle) ==
    /\ verify_session_court_bundle(bundle)
    /\ ManifestNamesBundle(manifest, bundle)
    /\ ProofIsOfPayload(manifest, bundle)
    /\ CertificateFits(manifest.availability.certificate, BlobOf(manifest))
    /\ manifest.availability =
           da_availability_evidence(manifest, manifest.availability.certificate)
    /\ StorageHolds(manifest)

-----------------------------------------------------------------------------
(* The anchor package: the manifest's publication as a transaction.        *)
AnchorTx(manifest) == <<"anchor", <<"manifest", manifest>>>>

session_da_anchor_package(manifest) ==
    [session_id |-> manifest.session_id,
     chunk_index |-> manifest.chunk_index, consensus_kind |-> manifest.consensus_kind,
     da_manifest_hash |-> <<"manifest", manifest>>,
     court_bundle_hash |-> manifest.court_bundle_hash,
     court_transaction_hash |-> manifest.transaction_hash,
     challenge_payload_hash |-> manifest.challenge_payload_hash,
     segment_root |-> manifest.segment_root, da_availability |-> manifest.availability,
     carrier_payload |-> <<<<"manifest", manifest>>, manifest.court_bundle_hash,
                           manifest.challenge_payload_hash, manifest.segment_root,
                           <<"hash", AnchorTx(manifest)>>>>,
     transaction |-> AnchorTx(manifest), transaction_hash |-> <<"hash", AnchorTx(manifest)>>]

verify_session_da_anchor_package(package, manifest, bundle) ==
    /\ verify_session_da_manifest(manifest, bundle)
    /\ package = session_da_anchor_package(manifest)

-----------------------------------------------------------------------------
(* The settlement intent.  The court's economics bind the challenge, the   *)
(* availability and the window; a deployment binds the economics.          *)
BaseEconomics(bundle, manifest, window, deadline) ==
    [participant_set_hash |-> bundle.lineage.participant_set_hash,
     escrow_input_cells_hash |-> bundle.lineage.escrow_input_cells_hash,
     challenge_payload_hash |-> bundle.challenge_payload_hash,
     da_availability_commitment |-> manifest.availability.availability_commitment,
     challenge_window_ms |-> window, challenge_deadline_ms |-> deadline]

CourtDeployment(shape, economics) == [economics_commitment |-> economics] @@ shape

normalize_court_economics_deployment_evidence(deployment, economics) ==
    /\ deployment.network \in {"ckb-mainnet", "ckb-testnet"}
    /\ deployment.economics_commitment = economics
    /\ deployment.ckb_enforceable_checked = deployment.testnet_beta_ready
    /\ deployment.production_ready =>
           deployment.ckb_enforceable_checked /\ deployment.network = "ckb-mainnet"

court_economics_evidence(economics, deployment) ==
    [base |-> economics, deployment |-> deployment,
     testnet_beta_ready |-> deployment # None /\ deployment.testnet_beta_ready,
     production_ready |-> deployment # None /\ deployment.production_ready]

session_settlement_intent(bundle, manifest, current_time, window, deployment) ==
    LET deadline == Timestamp(bundle.block) + window
    IN  [session_id |-> bundle.session_id, chunk_index |-> bundle.chunk_index,
         consensus_kind |-> bundle.consensus_kind, lineage |-> bundle.lineage,
         state_root_before |-> bundle.state_root_before,
         final_state_root |-> bundle.state_root_after,
         court_bundle_hash |-> <<"bundle", bundle>>,
         da_manifest_hash |-> <<"manifest", manifest>>,
         da_segment_root |-> manifest.segment_root,
         da_availability |-> manifest.availability,
         challenge_payload_hash |-> bundle.challenge_payload_hash,
         challenge_window_ms |-> window, challenge_deadline_ms |-> deadline,
         current_time_ms |-> current_time, settlement_permitted |-> current_time >= deadline,
         court_economics |->
             court_economics_evidence(BaseEconomics(bundle, manifest, window, deadline),
                                      deployment)]

IntentNamesSources(intent, bundle, manifest) ==
    /\ intent.session_id = bundle.session_id
    /\ intent.chunk_index = bundle.chunk_index
    /\ intent.consensus_kind = bundle.consensus_kind
    /\ intent.lineage = bundle.lineage
    /\ intent.state_root_before = bundle.state_root_before
    /\ intent.final_state_root = bundle.state_root_after
    /\ intent.court_bundle_hash = <<"bundle", bundle>>
    /\ intent.da_manifest_hash = <<"manifest", manifest>>
    /\ intent.da_segment_root = manifest.segment_root
    /\ intent.da_availability = manifest.availability
    /\ intent.challenge_payload_hash = bundle.challenge_payload_hash

DeadlineHolds(intent, bundle) ==
    LET expected_deadline == Timestamp(bundle.block) + intent.challenge_window_ms
    IN  /\ expected_deadline <= MaxTime
        /\ intent.challenge_window_ms > 0
        /\ intent.challenge_deadline_ms = expected_deadline
        /\ intent.settlement_permitted = (intent.current_time_ms >= expected_deadline)

EconomicsRecompute(intent, bundle, manifest) ==
    LET economics == BaseEconomics(bundle, manifest, intent.challenge_window_ms,
                                   intent.challenge_deadline_ms)
        deployment == intent.court_economics.deployment
    IN  /\ deployment # None =>
               normalize_court_economics_deployment_evidence(deployment, economics)
        /\ intent.court_economics = court_economics_evidence(economics, deployment)

verify_session_settlement_intent(intent, bundle, manifest) ==
    /\ verify_session_da_manifest(manifest, bundle)
    /\ IntentNamesSources(intent, bundle, manifest)
    /\ DeadlineHolds(intent, bundle)
    /\ EconomicsRecompute(intent, bundle, manifest)

-----------------------------------------------------------------------------
(* The settlement authority: a Cell under a two-of-three multisig lock     *)
(* whose data is the intent and the lineage.  The signers are those of a   *)
(* fixture unless the operator hands over the participants' signatures,    *)
(* and it is enforceable on the chain only with a deployment of the lock.  *)
Threshold == 2
FixtureParticipants == {"key-0", "key-1", "key-2"}
FixtureSigners == {"key-0", "key-1"}

AuthorityMessage(intent_hash, session_id, lineage) == <<intent_hash, session_id, lineage>>

normalize_authority_signature_evidence(evidence, message, participant_set_hash) ==
    /\ evidence.message_hash = message
    /\ evidence.participant_set_hash = participant_set_hash
    /\ evidence.threshold = Threshold
    /\ Cardinality(evidence.signers) >= Threshold
    /\ evidence.signers \subseteq evidence.participants

NodeChain(network) ==
    CASE network = "ckb-mainnet" -> "ckb"
      [] network = "ckb-testnet" -> "ckb_testnet"
      [] network = "ckb-dev" -> "ckb_dev"

normalize_threshold_lock_deployment_evidence(deployment, signers, participants) ==
    /\ deployment.network \in {"ckb-mainnet", "ckb-testnet", "ckb-dev"}
    /\ deployment.network # "ckb-dev" => deployment.official_dep_group
    /\ deployment.threshold = Threshold
    /\ deployment.signers = signers
    /\ deployment.participants = participants
    /\ deployment.ckb_enforceable_checked =>
           /\ deployment.testnet_beta_ready \/ deployment.network = "ckb-dev"
           /\ deployment.node_chain = NodeChain(deployment.network)
           /\ deployment.identity_checked
    /\ deployment.testnet_beta_ready => deployment.ckb_enforceable_checked
    /\ deployment.production_ready =>
           deployment.testnet_beta_ready /\ deployment.network = "ckb-mainnet"

Signers(evidence) == IF evidence = None THEN FixtureSigners ELSE evidence.signers
SigningParticipants(evidence) ==
    IF evidence = None THEN FixtureParticipants ELSE evidence.participants

(* settlement_authority_requirement_with_deployment, and whether it is     *)
(* made at all.                                                            *)
AuthorityAccepts(message, participant_set_hash, evidence, deployment) ==
    /\ evidence # None =>
           normalize_authority_signature_evidence(evidence, message, participant_set_hash)
    /\ deployment # None =>
           /\ deployment.production_ready => evidence # None
           /\ normalize_threshold_lock_deployment_evidence(
                  deployment, Signers(evidence), SigningParticipants(evidence))

settlement_authority_requirement(message, evidence, deployment) ==
    [data |-> message, signers |-> Signers(evidence),
     lock |-> <<Threshold, SigningParticipants(evidence)>>,
     evidence |-> evidence, deployment |-> deployment,
     ckb_enforceable |-> deployment # None /\ deployment.ckb_enforceable_checked,
     testnet_beta_ready |-> deployment # None /\ deployment.testnet_beta_ready,
     production_ready |-> deployment # None /\ deployment.production_ready]

SettlementTx(intent) == <<"settlement", <<"intent", intent>>>>

CarrierPayload(intent) ==
    <<<<"intent", intent>>, intent.court_bundle_hash, intent.da_manifest_hash,
      intent.challenge_payload_hash, intent.final_state_root>>

session_settlement_package(intent, evidence, deployment) ==
    LET intent_hash == <<"intent", intent>>
    IN  [session_id |-> intent.session_id,
         chunk_index |-> intent.chunk_index, consensus_kind |-> intent.consensus_kind,
         intent_hash |-> intent_hash, lineage |-> intent.lineage,
         court_bundle_hash |-> intent.court_bundle_hash,
         da_manifest_hash |-> intent.da_manifest_hash,
         challenge_payload_hash |-> intent.challenge_payload_hash,
         da_availability |-> intent.da_availability, court_economics |-> intent.court_economics,
         final_state_root |-> intent.final_state_root,
         settlement_authority |->
             settlement_authority_requirement(
                 AuthorityMessage(intent_hash, intent.session_id, intent.lineage),
                 evidence, deployment),
         carrier_payload |-> CarrierPayload(intent),
         transaction |-> SettlementTx(intent),
         transaction_hash |-> <<"hash", SettlementTx(intent)>>]

PackageNamesIntent(package, intent) ==
    /\ package.session_id = intent.session_id
    /\ package.chunk_index = intent.chunk_index
    /\ package.consensus_kind = intent.consensus_kind
    /\ package.intent_hash = <<"intent", intent>>
    /\ package.lineage = intent.lineage
    /\ package.da_availability = intent.da_availability
    /\ package.court_economics = intent.court_economics

(* From the evidence and the deployment the package carries itself.        *)
AuthorityRecomputes(package, intent) ==
    LET authority == package.settlement_authority
        message == AuthorityMessage(<<"intent", intent>>, intent.session_id, intent.lineage)
    IN  /\ AuthorityAccepts(message, intent.lineage.participant_set_hash,
                            authority.evidence, authority.deployment)
        /\ authority = settlement_authority_requirement(message, authority.evidence,
                                                        authority.deployment)

CarrierRecomputes(package, intent) ==
    /\ package.court_bundle_hash = intent.court_bundle_hash
    /\ package.da_manifest_hash = intent.da_manifest_hash
    /\ package.challenge_payload_hash = intent.challenge_payload_hash
    /\ package.final_state_root = intent.final_state_root
    /\ package.carrier_payload = CarrierPayload(intent)

TransactionRecomputes(package, intent) ==
    /\ package.transaction_hash = <<"hash", package.transaction>>
    /\ package.transaction = SettlementTx(intent)

verify_session_settlement_package(package, intent, bundle, manifest) ==
    /\ verify_session_settlement_intent(intent, bundle, manifest)
    /\ intent.settlement_permitted
    /\ PackageNamesIntent(package, intent)
    /\ AuthorityRecomputes(package, intent)
    /\ CarrierRecomputes(package, intent)
    /\ TransactionRecomputes(package, intent)

-----------------------------------------------------------------------------
Init ==
    /\ StoreInit
    /\ files = [slot \in Slots |-> None]
    /\ mixed = Whole
    /\ publishing = None
    /\ rewrites = 0
    /\ crashes = 0

(* A command writes its file.  The file may be pieced together: all of it  *)
(* but one field, or one field of it, and the rest of the file it          *)
(* replaces.  After such a file none is written again.                     *)
Save(slot, doc) ==
    LET old == files[slot]
        differing == {f \in DOMAIN doc : f \in DOMAIN old /\ doc[f] # old[f]}
    IN  /\ old # doc
        /\ old # None => rewrites < MaxRewrites
        /\ \/ /\ files' = [files EXCEPT ![slot] = doc]
              /\ rewrites' = IF old = None THEN rewrites ELSE rewrites + 1
              /\ UNCHANGED mixed
           \/ /\ old # None
              /\ \E f \in differing : files' \in {[files EXCEPT ![slot] = [doc EXCEPT ![f] = old[f]]],
                                                 [files EXCEPT ![slot] = [old EXCEPT ![f] = doc[f]]]}
              /\ rewrites' = MaxRewrites
              /\ mixed' = slot

Idle == publishing = None /\ UNCHANGED <<storeVars, publishing, crashes>>

Have(slot) == files[slot] # None

Open(s) == Idle /\ Save("open", session_open_report(s))

Commit(chunk) ==
    /\ Idle
    /\ Have("open")
    /\ load_and_validate_session_open(files.open)
    /\ Save("commit", session_commit_from_open(files.open, chunk))

CourtBundle ==
    /\ Idle
    /\ Have("commit")
    /\ TransactionBound(files.commit)
    /\ FrameBound(files.commit)
    /\ Save("bundle", session_court_bundle(files.commit))

(* The court bundle of one chunk of one session.                           *)
BundleOf(s, chunk) ==
    session_court_bundle(session_commit_from_open(session_open_report(s), chunk))

(* The first commit is pieced together from those of two chunks, field by  *)
(* field.  The fields of the transaction, and the block with its frame,    *)
(* come from one of them: the bundle command turns any other mixture down. *)
PieceCommit(s, chunk) ==
    LET one == session_commit_from_open(files.open, chunk)
        together == {TransactionFields, {"block", "frame_input", "execution_frame"}}
        single == {{f} : f \in DOMAIN one \ UNION together}
    IN  /\ Idle
        /\ Have("open") /\ ~Have("commit") /\ mixed = Whole
        /\ \E other \in ChunkIndexes[s], kept \in SUBSET (together \union single) :
               LET two == session_commit_from_open(session_open_report(s), other)
                   commit == [f \in DOMAIN one |-> IF f \in UNION kept THEN two[f] ELSE one[f]]
               IN  /\ commit \notin {one, two}
                   /\ files' = [files EXCEPT !.commit = commit]
        /\ mixed' = "commit"
        /\ rewrites' = MaxRewrites

(* The operator hands over the bundle of another chunk, or of another      *)
(* session, in the place of theirs.                                        *)
HandOver(s, chunk) == Idle /\ Have("bundle") /\ Save("bundle", BundleOf(s, chunk))

BundleAccepted == Have("bundle") /\ verify_session_court_bundle(files.bundle)

(* da_certificate_evidence: a certificate over a chunk alone in a segment. *)
da_certificate_evidence(bundle, given) ==
    IF given = None THEN None
    ELSE LET tx == Item("tx", bundle.session_id, given.chunk)
             root == compute_segment_root(<<Bytes(tx)>>)
             blob == Blob(bundle.session_id, given.chunk, <<"hash", tx>>, Length(tx), root)
         IN  [certificate |-> CertificateOf(given.shape, blob),
              evaluation_epoch |-> given.shape.evaluation_epoch]

(* Without storage the transaction is the only leaf of a tree in memory.   *)
DaManifestInMemory(given) ==
    LET bytes == Bytes(files.bundle.transaction)
        proof == [segment_id |-> 0, leaf_index |-> 0, chunk_data |-> bytes, chunk_offset |-> 0,
                  chunk_length |-> Len(bytes), merkle_path |-> get_proof(<<bytes>>, 0),
                  segment_root |-> compute_segment_root(<<bytes>>)]
        manifest == session_da_manifest(files.bundle, proof, FALSE,
                                        da_certificate_evidence(files.bundle, given))
    IN  /\ Idle
        /\ CertificateFits(manifest.availability.certificate, BlobOf(manifest))
        /\ Save("manifest", manifest)

(* With storage the command appends the transaction and seals its segment, *)
(* one file operation after the other.                                     *)
DaManifestBegin(given) ==
    /\ publishing = None
    /\ rewrites < MaxRewrites \/ ~Have("manifest")
    /\ SegmentWriter_new(files.bundle.transaction)
    /\ publishing' = [bundle |-> files.bundle, given |-> given]
    /\ UNCHANGED <<files, mixed, rewrites, crashes>>

Store ==
    \/ WriterStep /\ UNCHANGED <<files, mixed, publishing, rewrites, crashes>>
    \/ SealFails /\ publishing' = None /\ UNCHANGED <<files, mixed, rewrites, crashes>>

Crash ==
    /\ Die
    /\ crashes < MaxCrashes
    /\ crashes' = crashes + 1
    /\ publishing' = None
    /\ UNCHANGED <<files, mixed, rewrites>>

(* The sealed segment is read back.  A certificate that does not fit fails *)
(* the command, with the segment sealed.                                   *)
DaManifestEnd ==
    LET bundle == publishing.bundle
        pointer == writer.pointer
        id == pointer.segment_id
        leaves == LeafIndexes(id, pointer.record.offset, pointer.record.length)
        proof == build_proof(id, Min(leaves))
        manifest == session_da_manifest(bundle, proof, TRUE,
                                        da_certificate_evidence(bundle, publishing.given))
    IN  /\ At("sealed")
        /\ writer' = None
        /\ publishing' = None
        /\ IF /\ leaves # {} /\ proof # None
              /\ proof.segment_root = meta[id].merkle_root
              /\ verify_seal_binding(id)
              /\ CertificateFits(manifest.availability.certificate, BlobOf(manifest))
              /\ files.manifest # manifest
           THEN Save("manifest", manifest)
           ELSE UNCHANGED <<files, mixed, rewrites>>
        /\ UNCHANGED <<dat, idx, meta, crashes>>

ManifestAccepted ==
    Have("manifest") /\ Have("bundle") /\ verify_session_da_manifest(files.manifest, files.bundle)

DaAnchorPackage == Idle /\ Save("anchor", session_da_anchor_package(files.manifest))

SettlementIntent(current_time, window, shape) ==
    LET deadline == Timestamp(files.bundle.block) + window
        economics == BaseEconomics(files.bundle, files.manifest, window, deadline)
        deployment == IF shape = None THEN None ELSE CourtDeployment(shape, economics)
    IN  /\ Idle
        /\ window # 0
        /\ deadline <= MaxTime
        /\ deployment # None =>
               normalize_court_economics_deployment_evidence(deployment, economics)
        /\ Save("intent", session_settlement_intent(files.bundle, files.manifest,
                                                    current_time, window, deployment))

IntentAccepted ==
    /\ Have("intent") /\ Have("manifest") /\ Have("bundle")
    /\ verify_session_settlement_intent(files.intent, files.bundle, files.manifest)

(* The participants sign for an intent: this one, or one they saw before.  *)
SignatureEvidence(signers, intent_hash) ==
    [message_hash |-> AuthorityMessage(intent_hash, files.intent.session_id, files.intent.lineage),
     participant_set_hash |-> files.intent.lineage.participant_set_hash,
     threshold |-> Threshold, signers |-> signers,
     participants |-> files.intent.lineage.participant_set_hash]

SettlementPackage(evidence, shape) ==
    LET intent_hash == <<"intent", files.intent>>
        message == AuthorityMessage(intent_hash, files.intent.session_id, files.intent.lineage)
        deployment == IF shape = None THEN None
                      ELSE [signers |-> Signers(evidence),
                            participants |-> SigningParticipants(evidence)] @@ shape
    IN  /\ Idle
        /\ files.intent.settlement_permitted
        /\ AuthorityAccepts(message, files.intent.lineage.participant_set_hash,
                            evidence, deployment)
        /\ Save("package", session_settlement_package(files.intent, evidence, deployment))

AnchorAccepted ==
    /\ Have("anchor") /\ Have("manifest") /\ Have("bundle")
    /\ verify_session_da_anchor_package(files.anchor, files.manifest, files.bundle)

PackageAccepted ==
    /\ Have("package") /\ Have("intent") /\ Have("manifest") /\ Have("bundle")
    /\ verify_session_settlement_package(files.package, files.intent,
                                         files.bundle, files.manifest)

Givens ==
    {None} \union
        [shape : CertificateShapes, chunk : UNION {ChunkIndexes[s] : s \in Sessions}]

(* A command verifies every file it reads before it makes anything of it.  *)
FromBundle ==
    BundleAccepted /\ \E given \in Givens : DaManifestInMemory(given) \/ DaManifestBegin(given)

FromManifest ==
    /\ ManifestAccepted
    /\ \/ DaAnchorPackage
       \/ \E current_time \in Times, window \in Windows, shape \in CourtShapes \union {None} :
              SettlementIntent(current_time, window, shape)

FromIntent ==
    /\ IntentAccepted
    /\ \E shape \in LockShapes \union {None} :
           \/ SettlementPackage(None, shape)
           \/ \E signers \in SignerSets, seen \in {<<"intent", files.intent>>, <<"earlier">>} :
                  SettlementPackage(SignatureEvidence(signers, seen), shape)

Next ==
    \/ \E s \in Sessions : Open(s)
    \/ Have("open") /\ \E chunk \in ChunkIndexes[files.open.session_id] : Commit(chunk)
    \/ CourtBundle
    \/ \E s \in Sessions :
           \/ \E chunk \in ChunkIndexes[s] : HandOver(s, chunk)
           \/ Have("open") /\ \E chunk \in ChunkIndexes[files.open.session_id] : PieceCommit(s, chunk)
    \/ publishing = None /\ (FromBundle \/ FromManifest \/ FromIntent)
    \/ Store
    \/ Crash
    \/ DaManifestEnd

Spec == Init /\ [][Next]_vars

-----------------------------------------------------------------------------
FinalisedFields ==
    {"consensus_kind", "state_root_before", "state_root_after", "data_commitment",
     "scheduler_commitment", "block", "frame_input", "execution_frame", "evidence"}

Agree(doc, other, fields) == \A f \in fields : doc[f] = other[f]

(* What the commands make of a session from its opening to the bundle.     *)
Genuine == UNION {{BundleOf(s, chunk) : chunk \in ChunkIndexes[s]} : s \in Sessions}


(* Nothing that was accepted is lost to the store, and nothing honest is   *)
(* rejected: while the files stay as they are, no append, seal, recovery   *)
(* or crash of a later publication makes a verifier reject what it         *)
(* accepted, so a published chunk stays provable; and a file a command     *)
(* writes from accepted ones, or a bundle from a whole commit, is          *)
(* accepted, unless it is a manifest that records a proof that does not    *)
(* verify.                                                                 *)
Kept ==
    LET written(slot) == files'[slot] # files[slot] /\ mixed' # slot
    IN  /\ UNCHANGED files /\ ManifestAccepted => ManifestAccepted'
        /\ written("bundle") /\ mixed # "commit" => BundleAccepted'
        /\ written("manifest") /\ files'.manifest.proof_valid
               /\ files'.manifest.court_bundle_hash = <<"bundle", files.bundle>> => ManifestAccepted'
        /\ written("intent") => IntentAccepted'
        /\ written("anchor") => AnchorAccepted'
        /\ written("package") => PackageAccepted'

StaysAccepted == [][Kept]_vars
=============================================================================
