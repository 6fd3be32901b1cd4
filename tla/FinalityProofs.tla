---------------------------- MODULE FinalityProofs ----------------------------
(***************************************************************************)
(* The finality engines a session may select and the proofs they accept: a *)
(* weighted certificate of a closed committee, the seal of the authority   *)
(* whose turn it is, or a Tendermint decision.  Nodes read their own       *)
(* configuration files.  Holders of keys sign through the engine of a node *)
(* and may sign two blocks of one height; whoever collects signatures puts *)
(* any proof together and hands it to any node.  A node that accepts keeps *)
(* the block with the encoded proof and reads both back when it restarts,  *)
(* perhaps with a file written differently.  Of a node's chain there is    *)
(* the one block of the height it stands at.                               *)
(*                                                                         *)
(* A hash is the value hashed.  A signature is the key and the digest it   *)
(* signs, and nobody signs with the key of another.                        *)
(***************************************************************************)
EXTENDS Naturals, Sequences, FiniteSets, FiniteSetsExt, SequencesExt

CONSTANTS Nodes,
          Sessions,     \* [files, domains]: what its nodes configure and how they sign
          Signers,      \* [id, key]: the signing capabilities
          Blocks,       \* [number, consensus_kind, label]
          Rounds,       \* rounds of a precommit
          PublicKeys,   \* the keys that are points of the curve
          LongIds,      \* identifiers over MAX_VALIDATOR_ID_BYTES
          MAX_SIGNATURES,
          MaxU64,
          MaxLength,    \* bound on the signatures of a proof
          MaxSigned     \* bound on the signatures made

VARIABLES session,   \* this session
          engine,    \* node -> its engine, None before it has one
          genesis,   \* the module commitment of the session, None before
          signed,    \* signatures made
          stored,    \* node -> the block it keeps and its encoded proof
          certified  \* blocks finalised by a bare precommit certificate

vars == <<session, engine, genesis, signed, stored, certified>>

-----------------------------------------------------------------------------
(* Configuration.  A file names a kind and has a section for it; a section *)
(* lists validators [id, public_key, weight] and a quorum, or authorities. *)
None == [kind |-> "none"]

Kinds == {"static-closed-committee", "proof-of-authority", "tendermint"}

Section(file) ==
    CASE file.kind = "static-closed-committee" -> file.static_committee
      [] file.kind = "proof-of-authority" -> file.proof_of_authority
      [] file.kind = "tendermint" -> file.tendermint

(* The text parses: a known kind, its section, and keys of the right       *)
(* length in hexadecimal.                                                  *)
Members(section) ==
    IF "authorities" \in DOMAIN section THEN section.authorities ELSE section.validators

from_toml_str(file) ==
    /\ file.kind \in Kinds
    /\ Section(file) # None
    /\ \A m \in Range(Members(Section(file))) : m.public_key # "unparsable"

Named(members) ==
    /\ members # <<>>
    /\ \A i \in DOMAIN members :
           /\ members[i].id # ""
           /\ members[i].public_key \in PublicKeys
    /\ \A i, j \in DOMAIN members : members[i].id = members[j].id => i = j

TotalWeight(validators) == MapThenSumSet(LAMBDA v : v.weight, validators)

(* StaticClosedCommittee::new and Tendermint::new: distinct names, weights *)
(* that add up within a word, and a quorum within the total.               *)
Committee(section) ==
    LET validators == Range(section.validators)
    IN  /\ section.quorum > 0
        /\ Named(section.validators)
        /\ \A v \in validators : v.weight > 0
        /\ TotalWeight(validators) <= MaxU64
        /\ section.quorum <= TotalWeight(validators)

(* ProofOfAuthority::new: distinct names and, here, distinct keys.         *)
AuthoritySet(section) ==
    /\ Named(section.authorities)
    /\ \A i, j \in DOMAIN section.authorities :
           section.authorities[i].public_key = section.authorities[j].public_key => i = j

Usable(file) ==
    /\ from_toml_str(file)
    /\ IF file.kind = "proof-of-authority" THEN AuthoritySet(Section(file))
       ELSE Committee(Section(file))

(* SelectedConsensus::from_config.  A committee is a map and forgets the   *)
(* order of the file; the authorities keep it.                             *)
from_config(file) ==
    IF file.kind = "proof-of-authority"
    THEN [kind |-> file.kind, authorities |-> Section(file).authorities]
    ELSE [kind |-> file.kind, quorum |-> Section(file).quorum,
          validators |-> Range(Section(file).validators)]

config_commitment(e) ==
    IF e.kind = "proof-of-authority"
    THEN [kind |-> e.kind, authorities |-> e.authorities]
    ELSE [kind |-> e.kind, quorum |-> e.quorum, validators |-> e.validators]

(* What a session's genesis commits to: the compiled-in module of the kind *)
(* and the configuration.                                                  *)
schema_hash(kind) == <<"proof", kind>>

capabilities(kind) ==
    CASE kind = "static-closed-committee" -> {"weighted-certificate"}
      [] kind = "proof-of-authority" -> {"scheduled-authority"}
      [] kind = "tendermint" -> {"weighted-certificate", "round-driver"}

module_commitment(e) ==
    [module |-> e.kind, schema |-> schema_hash(e.kind),
     capabilities |-> capabilities(e.kind), config |-> config_commitment(e)]

-----------------------------------------------------------------------------
(* A block's hash covers every field, its kind and its number included,    *)
(* each under its own offset in the table.                                 *)
HashOf(block) ==
    [domain |-> "myelin:block", number |-> block.number,
     consensus_kind |-> block.consensus_kind, label |-> block.label]

(* Signatures.  Each engine signs in a domain of its own, and the signer's *)
(* name is part of what it signs.                                          *)
static_signature_digest(id, hash) == [domain |-> "static", id |-> id, hash |-> hash]

weighted_precommit_digest(id, hash, height, round) ==
    [domain |-> "weighted-precommit", id |-> id, hash |-> hash,
     height |-> height, round |-> round]

vote_digest(id, hash, height, round, step) ==
    [domain |-> "vote", id |-> id, hash |-> hash,
     height |-> height, round |-> round, step |-> step]

poa_seal_digest(id, hash, height) ==
    [domain |-> "poa", id |-> id, hash |-> hash, height |-> height]

Sign(signer, digest) == [key |-> signer.key, digest |-> digest]

(* verify_schnorr and the recovery of a CKB signature's key.               *)
Verifies(public_key, digest, signature) ==
    signature = [key |-> public_key, digest |-> digest]

validator(e, id) == CHOOSE v \in e.validators : v.id = id

Known(e, id) == \E v \in e.validators : v.id = id

(* A signer must be in the committee with the key it holds.                *)
validate_signers(e, signers) ==
    \A s \in signers : Known(e, s.id) /\ validator(e, s.id).public_key = s.key

(* The authority whose turn a height is.                                   *)
expected_authority(e, height) == e.authorities[(height % Len(e.authorities)) + 1]

-----------------------------------------------------------------------------
(* Proofs.  The signatures of a certificate count only when each verifies, *)
(* names a member and comes once.                                          *)
Ids(signatures) == [i \in DOMAIN signatures |-> signatures[i].validator_id]

SignedWeight(e, signatures) ==
    TotalWeight({v \in e.validators : v.id \in Range(Ids(signatures))})

Digest(d, id) == [d EXCEPT !.id = id]

(* A broken form of quorum_of: a validator that signed twice counts twice. *)
quorum_ofEach(e, signatures, d) ==
    LET weight(i) == validator(e, signatures[i].validator_id).weight
    IN  /\ \A s \in Range(signatures) :
               /\ Known(e, s.validator_id)
               /\ Verifies(validator(e, s.validator_id).public_key,
                           Digest(d, s.validator_id), s.signature)
        /\ MapThenSumSet(weight, DOMAIN signatures) >= e.quorum

(* The loop that verify_certificate and verify_precommit_certificate share *)
(* word for word, over the digest d of either.                             *)
quorum_of(e, signatures, d) ==
    /\ \A i, j \in DOMAIN signatures :
           signatures[i].validator_id = signatures[j].validator_id => i = j
    /\ \A s \in Range(signatures) :
           /\ Known(e, s.validator_id)
           /\ Verifies(validator(e, s.validator_id).public_key,
                       Digest(d, s.validator_id), s.signature)
    /\ SignedWeight(e, signatures) <= MaxU64
    /\ SignedWeight(e, signatures) >= e.quorum

verify_certificate(e, hash, certificate) ==
    /\ certificate.block_hash = hash
    /\ quorum_of(e, certificate.signatures, static_signature_digest("", hash))

verify_precommit_certificate(e, hash, height, round, certificate) ==
    /\ certificate.block_hash = hash
    /\ certificate.height = height
    /\ certificate.round = round
    /\ quorum_of(e, certificate.signatures,
                 weighted_precommit_digest("", hash, height, round))

verify_seal(e, hash, height, seal) ==
    LET expected == expected_authority(e, height)
    IN  /\ seal.block_hash = hash
        /\ seal.height = height
        /\ seal.authority_id = expected.id
        /\ Verifies(expected.public_key, poa_seal_digest(expected.id, hash, height), seal.signature)

(* The votes of a decision that are for its height, round and block must   *)
(* verify and make a quorum; others are carried along unread.              *)
Counted(decision) ==
    SelectSeq(decision.precommits, LAMBDA v : /\ v.height = decision.height
                                              /\ v.round = decision.round
                                              /\ v.step = "Precommit"
                                              /\ v.hash = decision.block_hash)

finalise_block_with_decision(e, block, decision) ==
    /\ block.consensus_kind = "tendermint"
    /\ decision.height = block.number
    /\ decision.block_hash = HashOf(block)
    /\ quorum_of(e, Counted(decision),
                 vote_digest("", HashOf(block), decision.height, decision.round, "Precommit"))

finalise_block(e, block, certificate) ==
    /\ block.consensus_kind = e.kind
    /\ verify_certificate(e, HashOf(block), certificate)

finalise_block_with_seal(e, block, seal) ==
    /\ block.consensus_kind = "proof-of-authority"
    /\ verify_seal(e, HashOf(block), block.number, seal)

(* The engine of a node takes proofs of its own kind only.                 *)
finalise_with_proof(e, block, proof) ==
    /\ proof.kind = e.kind
    /\ CASE e.kind = "static-closed-committee" -> finalise_block(e, block, proof)
         [] e.kind = "proof-of-authority" -> finalise_block_with_seal(e, block, proof)
         [] e.kind = "tendermint" -> finalise_block_with_decision(e, block, proof)

-----------------------------------------------------------------------------
(* The codec.  An envelope names its version, kind and schema and hashes   *)
(* its payload; what does not encode to the same bytes is refused.  A      *)
(* proof with too many signatures or too long a name has no encoding.      *)
validate_id(id) == id # "" /\ id \notin LongIds

validate_payload(proof) ==
    CASE proof.kind = "static-closed-committee" ->
             /\ Len(proof.signatures) <= MAX_SIGNATURES
             /\ \A s \in Range(proof.signatures) : validate_id(s.validator_id)
      [] proof.kind = "proof-of-authority" -> validate_id(proof.authority_id)
      [] proof.kind = "tendermint" ->
             /\ Len(proof.precommits) <= MAX_SIGNATURES
             /\ \A v \in Range(proof.precommits) :
                    v.step = "Precommit" /\ validate_id(v.validator_id)

encode(proof) ==
    [format_version |-> 1, consensus_kind |-> proof.kind,
     proof_schema_hash |-> schema_hash(proof.kind), payload_hash |-> proof, payload |-> proof]

decodes(bytes) ==
    /\ bytes.format_version = 1
    /\ bytes.consensus_kind \in Kinds
    /\ bytes.proof_schema_hash = schema_hash(bytes.consensus_kind)
    /\ bytes.payload.kind = bytes.consensus_kind
    /\ validate_payload(bytes.payload)
    /\ bytes.payload_hash = bytes.payload
    /\ encode(bytes.payload) = bytes

decode(bytes) == bytes.payload

-----------------------------------------------------------------------------
Init ==
    /\ session \in Sessions
    /\ engine = [n \in Nodes |-> None]
    /\ genesis = None
    /\ signed = {}
    /\ stored = [n \in Nodes |-> None]
    /\ certified = {}

(* A node reads its file, at its start or after a restart.  The session    *)
(* commits to the module of the first one; a node whose blocks another     *)
(* module finalised does not come up.                                      *)
Open(n, file) ==
    LET e == from_config(file)
    IN  /\ Usable(file)
        /\ engine[n] # e
        /\ genesis = None \/ module_commitment(e) = genesis
        /\ engine' = [engine EXCEPT ![n] = e]
        /\ genesis' = module_commitment(e)
        /\ UNCHANGED <<session, signed, stored, certified>>

Signing(new) ==
    /\ signed' = signed \union new
    /\ Cardinality(signed') <= MaxSigned
    /\ signed' # signed
    /\ UNCHANGED <<session, engine, genesis, stored, certified>>

certificate_from_signers(n, block, signers) ==
    /\ engine[n].kind = "static-closed-committee"
    /\ validate_signers(engine[n], signers)
    /\ block.consensus_kind = engine[n].kind
    /\ Signing({Sign(s, static_signature_digest(s.id, HashOf(block))) : s \in signers})

precommit_certificate_from_signers(n, block, round, signers) ==
    /\ engine[n].kind = "tendermint"
    /\ validate_signers(engine[n], signers)
    /\ block.consensus_kind = engine[n].kind
    /\ Signing({Sign(s, weighted_precommit_digest(s.id, HashOf(block), block.number, round)) :
                   s \in signers})

vote_from_signer(n, block, round, signer) ==
    /\ engine[n].kind = "tendermint"
    /\ validate_signers(engine[n], {signer})
    /\ block.consensus_kind = engine[n].kind
    /\ Signing({Sign(signer, vote_digest(signer.id, HashOf(block), block.number, round, "Precommit"))})

seal_from_signer(n, block, signer) ==
    /\ engine[n].kind = "proof-of-authority"
    /\ LET expected == expected_authority(engine[n], block.number)
       IN  signer = [id |-> expected.id, key |-> expected.public_key]
    /\ Signing({Sign(signer, poa_seal_digest(signer.id, HashOf(block), block.number))})

(* Proofs put together from the signatures there are: in any order, more   *)
(* than once, some under another's name, for any block.                    *)
Collected(domain) ==
    LET made == {s \in signed : s.digest.domain = domain}
        other == CHOOSE i \in {s.digest.id : s \in made} : TRUE
    IN  UNION {[validator_id : {s.digest.id, other}, signature : {s}] : s \in made}

Certificate(hash, signatures) ==
    [kind |-> "static-closed-committee", block_hash |-> hash, signatures |-> signatures]

Seal(hash, s) ==
    [kind |-> "proof-of-authority", block_hash |-> hash, height |-> s.digest.height,
     authority_id |-> s.digest.id, signature |-> s]

Vote(entry) ==
    LET d == entry.signature.digest
    IN  [height |-> d.height, round |-> d.round, step |-> d.step, hash |-> d.hash,
         validator_id |-> entry.validator_id, signature |-> entry.signature]

Decision(hash, round, signatures) ==
    [kind |-> "tendermint", block_hash |-> hash, height |-> hash.number, round |-> round,
     precommits |-> [i \in DOMAIN signatures |-> Vote(signatures[i])]]

(* SessionChain::commit_finalised: the proof must have an encoding before  *)
(* it is verified, and the block is kept with it.                          *)
commit_finalised(n, block, proof) ==
    /\ engine[n] # None
    /\ stored[n] = None
    /\ validate_payload(proof)
    /\ finalise_with_proof(engine[n], block, proof)
    /\ stored' = [stored EXCEPT ![n] = [kind |-> "block", block |-> block, proof |-> encode(proof)]]
    /\ UNCHANGED <<session, engine, genesis, signed, certified>>

finalise_block_with_precommit(n, block, round, certificate) ==
    /\ engine[n].kind = "tendermint"
    /\ block.consensus_kind = "tendermint"
    /\ verify_precommit_certificate(engine[n], HashOf(block), block.number, round, certificate)
    /\ certified' = certified \union {block}
    /\ certified' # certified
    /\ UNCHANGED <<session, engine, genesis, signed, stored>>

SignerSets == {{s, t} : s, t \in Signers}

BlocksOf(kind) == {b \in Blocks : b.consensus_kind = kind}

(* What a node does under each module; a proof may be of any block.        *)
UnderCommittee(n) ==
    \/ \E block \in BlocksOf(engine[n].kind), signers \in SignerSets :
           certificate_from_signers(n, block, signers)
    \/ /\ stored[n] = None
       /\ \E k \in 1..MaxLength : \E signatures \in [1..k -> Collected("static")],
                                     block, other \in BlocksOf(engine[n].kind) :
              commit_finalised(n, block, Certificate(HashOf(other), signatures))

UnderAuthorities(n) ==
    \/ \E block \in Blocks, s \in Signers : seal_from_signer(n, block, s)
    \/ /\ stored[n] = None
       /\ \E s \in signed, block, other \in BlocksOf(engine[n].kind) :
              commit_finalised(n, block, Seal(HashOf(other), s))

UnderTendermint(n) ==
    \/ /\ "weighted-precommit" \in session.domains
       /\ \E block \in BlocksOf(engine[n].kind), signers \in SignerSets, round \in Rounds :
              precommit_certificate_from_signers(n, block, round, signers)
    \/ /\ "vote" \in session.domains
       /\ \E block \in BlocksOf(engine[n].kind), s \in Signers, round \in Rounds :
              vote_from_signer(n, block, round, s)
    \/ /\ stored[n] = None
       /\ \E k \in 1..MaxLength : \E signatures \in [1..k -> Collected("vote")],
                                     round \in Rounds, block \in BlocksOf(engine[n].kind) :
              commit_finalised(n, block, Decision(HashOf(block), round, signatures))
    \/ \E k \in 1..MaxLength : \E signatures \in [1..k -> Collected("weighted-precommit")],
                               round \in Rounds, block \in BlocksOf(engine[n].kind) :
           finalise_block_with_precommit(n, block, round,
               [block_hash |-> HashOf(block), height |-> block.number, round |-> round,
                signatures |-> signatures])

Next ==
    \E n \in Nodes :
        \/ \E file \in session.files : Open(n, file)
        \/ engine[n].kind = "static-closed-committee" /\ UnderCommittee(n)
        \/ engine[n].kind = "proof-of-authority" /\ UnderAuthorities(n)
        \/ engine[n].kind = "tendermint" /\ UnderTendermint(n)

Spec == Init /\ [][Next]_vars

-----------------------------------------------------------------------------
(* Who signed a block so that the signature counts, whatever the round.    *)
SignedFor(id, key, block, domains) ==
    \E s \in signed :
        /\ s.key = key
        /\ s.digest.domain \in domains
        /\ s.digest.id = id
        /\ s.digest.hash = HashOf(block)

(* Two different blocks final at one height have culprits: under a         *)
(* committee the members that signed both weigh at least twice the quorum  *)
(* less the whole, and under rotating authorities the one authority of     *)
(* that height sealed both.                                                *)
Culprits(x, y, domains) ==
    LET config == genesis.config
        both(m) == SignedFor(m.id, m.public_key, x, domains)
                   /\ SignedFor(m.id, m.public_key, y, domains)
    IN  IF config.kind = "proof-of-authority"
        THEN both(config.authorities[(x.number % Len(config.authorities)) + 1])
        ELSE 2 * config.quorum <= TotalWeight(config.validators)
                 + TotalWeight({v \in config.validators : both(v)})

Kept == {stored[n].block : n \in {n \in Nodes : stored[n] # None}}

(* What a node has accepted is final for the session.  Its encoded proof   *)
(* reads back, and every node that runs the committed module accepts the   *)
(* block with it, whatever order its file lists the members in; and two    *)
(* blocks of one height are both accepted only when the signers above can  *)
(* be shown to have signed both, however often, under whatever name and in *)
(* whatever order their signatures were put into the proofs.               *)
FinalityHolds ==
    /\ \A n \in {n \in Nodes : stored[n] # None} :
           /\ decodes(stored[n].proof)
           /\ \A m \in {m \in Nodes : engine[m] # None} :
                  finalise_with_proof(engine[m], stored[n].block, decode(stored[n].proof))
    /\ \A x, y \in Kept :
           x # y /\ x.number = y.number => Culprits(x, y, {"static", "poa", "vote"})
    /\ \A x, y \in certified :
           x # y /\ x.number = y.number => Culprits(x, y, {"weighted-precommit"})
=============================================================================
