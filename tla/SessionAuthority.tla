-------------------------- MODULE SessionAuthority --------------------------
(***************************************************************************)
(* The single writer authority of a fenced session.                        *)
(*                                                                         *)
(* It owns two databases that no transaction spans: the canonical session  *)
(* store (genesis and blocks) and the ownership database (writer grants, a *)
(* canonical-head watermark and at most one pending head).  A commit       *)
(* writes the pending head, seals, writes the block and moves the          *)
(* watermark, in that order; the process can stop between any two of these *)
(* steps, and a write that reports an error may or may not be on disk.     *)
(***************************************************************************)
EXTENDS Naturals, Sequences

CONSTANTS Workers,      \* the request-signing keys of workers
          Batches,      \* the command sets a block request can carry
          MaxEpochs,    \* MAX_EPOCHS: the retained grants
          MaxHeight,    \* bound on the blocks of a history
          NoOwnership,  \* the ownership database holds no record
          NoHead        \* there is no pending head

VARIABLES
    genesis,    \* durable: the session exists in the canonical store
    chain,      \* durable: the canonical blocks
    epochs,     \* durable: the ownership record
    pc,         \* what the authority process is doing
    own,        \* volatile: the ownership record in memory
    head,       \* volatile: the head of the chain in memory
    uncertain,  \* volatile: a write failed, nothing is served until reopen
    certs,      \* the canonical receipts workers and sinks have been given
    backups     \* every content the canonical store has had

durable  == <<genesis, chain, epochs>>
volatile == <<pc, own, head, uncertain>>
vars     == <<genesis, chain, epochs, pc, own, head, uncertain, certs, backups>>

-----------------------------------------------------------------------------
Block == [epoch: Nat \ {0}, owner: Workers, batch: Batches]

(* A head commits to its whole history through the parent hashes. *)
SessionHead == Seq(Block)

initial_head == <<>>

next_height(h) == Len(h) + 1

WriterGrant == [epoch: Nat \ {0}, owner: Workers, anchor: SessionHead]

Ownership == [grants: Seq(WriterGrant),
              canonical_head: SessionHead,
              pending_head: SessionHead \cup {NoHead}]

CanonicalReceipt == [epoch: Nat \ {0}, owner: Workers, head: SessionHead]

ASSUME BoundsAssumption == MaxEpochs \in Nat /\ MaxHeight \in Nat

ASSUME AbsentAssumption == NoHead \notin SessionHead /\ NoOwnership \notin Ownership

PCs == {"down", "opened", "recovered", "idle",
        "intent", "signed", "committed", "certify"}

NewOwnership == [grants |-> <<>>,
                 canonical_head |-> initial_head,
                 pending_head |-> NoHead]

(* The commands a history has made canonical. *)
Committed(h) == UNION {h[i].batch : i \in DOMAIN h}

(* History s is an initial part of history t. *)
IsInitial(s, t) ==
    /\ Len(s) <= Len(t)
    /\ \A i \in 1..Len(s) : s[i] = t[i]

first_height(grant) == next_height(grant.anchor)

CurrentEpoch(o) == Len(o.grants)

(* Grants are searched from the newest; the first that had begun by that   *)
(* height is the one under which the block must have been written.         *)
IsGrantFor(o, e, height) ==
    /\ first_height(o.grants[e]) <= height
    /\ \A f \in (e + 1)..Len(o.grants) : first_height(o.grants[f]) > height

check_stamp(block, grant) ==
    block.epoch = grant.epoch /\ block.owner = grant.owner

(* Every grant is anchored in the stored chain, and every stored block     *)
(* carries the stamp of its grant.                                         *)
audit(o, blocks) ==
    /\ \A e \in 1..Len(o.grants) :
          /\ o.grants[e].epoch = e
          /\ IsInitial(o.grants[e].anchor, blocks)
          /\ e > 1 => first_height(o.grants[e - 1]) <= first_height(o.grants[e])
    /\ \A n \in 1..Len(blocks) :
          \E e \in 1..Len(o.grants) :
              IsGrantFor(o, e, n) /\ check_stamp(blocks[n], o.grants[e])

(* The stored head is the watermark or the one pending step beyond it. *)
PendingAdmissible(o, h) ==
    /\ o.pending_head # NoHead =>
          Len(o.pending_head) = next_height(o.canonical_head)
    /\ h # o.canonical_head => o.pending_head = h

(* A broken form of Reconciled: the watermark is left behind.              *)
ReconciledInPlace(o, h) == [o EXCEPT !.pending_head = NoHead]

(* What reconcile_pending makes of an admissible record. *)
Reconciled(o, h) ==
    IF o.pending_head = NoHead THEN o
    ELSE [o EXCEPT !.canonical_head = h, !.pending_head = NoHead]

(* A synchronous write that reports an error may have reached the disk. *)
PersistFails(o) == epochs' \in {epochs, o}

-----------------------------------------------------------------------------
Init ==
    /\ genesis = FALSE
    /\ chain = initial_head
    /\ epochs = NoOwnership
    /\ pc = "down"
    /\ own = NoOwnership
    /\ head = NoHead
    /\ uncertain = FALSE
    /\ certs = {}
    /\ backups = {initial_head}

(* The process stops, or the authority is dropped, at any point. *)
Stop ==
    /\ pc' = "down"
    /\ own' = NoOwnership
    /\ head' = NoHead
    /\ uncertain' = FALSE

Crash ==
    /\ pc # "down"
    /\ Stop
    /\ UNCHANGED <<durable, certs, backups>>

(* open, first write: the ownership record is read, or created when        *)
(* neither it nor any canonical history exists.                            *)
OpenOwnership ==
    /\ pc = "down"
    /\ \/ /\ epochs # NoOwnership
          /\ own' = epochs
          /\ pc' = "opened"
          /\ UNCHANGED <<epochs, head, uncertain>>
       \/ /\ epochs = NoOwnership
          /\ chain = initial_head
          /\ own' = NewOwnership
          /\ epochs' = NewOwnership
          /\ pc' = "opened"
          /\ UNCHANGED <<head, uncertain>>
       \/ /\ epochs = NoOwnership
          /\ chain = initial_head
          /\ PersistFails(NewOwnership)
          /\ Stop
    /\ UNCHANGED <<genesis, chain, certs, backups>>

(* open, second write: the chain is recovered or the session created. *)
OpenChain ==
    /\ pc = "opened"
    /\ \/ /\ genesis' = TRUE
          /\ head' = chain
          /\ pc' = "recovered"
          /\ UNCHANGED <<own, uncertain>>
       \/ /\ ~genesis
          /\ genesis' \in BOOLEAN
          /\ Stop
    /\ UNCHANGED <<chain, epochs, certs, backups>>

(* open, last write: the audit and the resolution of a pending head. *)
OpenReconcile ==
    /\ pc = "recovered"
    /\ audit(own, chain)
    /\ PendingAdmissible(own, head)
    /\ \/ /\ epochs' = Reconciled(own, head)
          /\ own' = Reconciled(own, head)
          /\ pc' = "idle"
          /\ UNCHANGED <<head, uncertain>>
       \/ /\ own.pending_head # NoHead
          /\ PersistFails(Reconciled(own, head))
          /\ Stop
    /\ UNCHANGED <<genesis, chain, certs, backups>>

OpenRefused ==
    /\ pc = "recovered"
    /\ ~(audit(own, chain) /\ PendingAdmissible(own, head))
    /\ Stop
    /\ UNCHANGED <<durable, certs, backups>>

-----------------------------------------------------------------------------
(* A broken form of Serving: the lock is not held across a commit. *)
ServingDuringCommit == pc \in {"idle", "intent", "signed"} /\ ~uncertain

(* Requests are served one at a time, under the authority lock. *)
Serving == pc = "idle" /\ ~uncertain

(* The heads a client can have been told of. *)
KnownHeads == IF Serving THEN {SubSeq(head, 1, n) : n \in 0..Len(head)} ELSE {}

(* grant: a signed request names the epoch and the exact head it was       *)
(* decided at.  Repeating the newest request returns its grant.            *)
Grant(expected_epoch, owner, anchor) ==
    LET grant == [epoch |-> expected_epoch + 1, owner |-> owner, anchor |-> anchor]
        next  == [own EXCEPT !.grants = Append(own.grants, grant)]
    IN  /\ Serving
        /\ CurrentEpoch(own) > 0 => grant # own.grants[CurrentEpoch(own)]
        /\ expected_epoch = CurrentEpoch(own)
        /\ anchor = head
        /\ CurrentEpoch(own) < MaxEpochs
        /\ \/ /\ epochs' = next
              /\ own' = next
              /\ UNCHANGED uncertain
           \/ /\ PersistFails(next)
              /\ uncertain' = TRUE
              /\ UNCHANGED own
        /\ UNCHANGED <<genesis, chain, pc, head, certs, backups>>

(* commit, up to its durable intent: the request must be signed for the    *)
(* newest epoch and the current head, and execution must accept it.        *)
CommitIntent(epoch, owner, base_head, batch) ==
    LET block == [epoch |-> epoch, owner |-> owner, batch |-> batch]
        next  == [own EXCEPT !.pending_head = Append(head, block)]
    IN  /\ Serving
        /\ CurrentEpoch(own) > 0
        /\ epoch = CurrentEpoch(own)
        /\ owner = own.grants[CurrentEpoch(own)].owner
        /\ base_head = head
        /\ batch \cap Committed(head) = {}
        /\ Len(head) < MaxHeight
        /\ \/ /\ epochs' = next
              /\ own' = next
              /\ pc' = "intent"
              /\ UNCHANGED uncertain
           \/ /\ PersistFails(next)
              /\ uncertain' = TRUE
              /\ UNCHANGED <<own, pc>>
        /\ UNCHANGED <<genesis, chain, head, certs, backups>>

(* A step of commit fails after the intent: the authority stays up but     *)
(* answers nothing more.                                                   *)
Abandon ==
    /\ pc' = "idle"
    /\ uncertain' = TRUE

(* commit: sign the prepared block with the authority-held key. *)
CommitSeal ==
    /\ pc = "intent"
    /\ \/ pc' = "signed" /\ UNCHANGED uncertain
       \/ Abandon
    /\ UNCHANGED <<durable, own, head, certs, backups>>

(* commit: the atomic write of the canonical store.  Only when it reports  *)
(* success does the chain in memory move.                                  *)
CommitCanonical ==
    /\ pc = "signed"
    /\ \/ /\ chain' = own.pending_head
          /\ head' = own.pending_head
          /\ backups' = backups \cup {own.pending_head}
          /\ pc' = "committed"
          /\ UNCHANGED uncertain
       \/ /\ chain' \in {chain, own.pending_head}
          /\ backups' = backups \cup {chain'}
          /\ Abandon
          /\ UNCHANGED head
    /\ UNCHANGED <<genesis, epochs, own, certs>>

(* commit: reconcile_pending moves the watermark over the new block.  Its  *)
(* refusal of an inadmissible head cannot arise here (Recoverable).        *)
CommitWatermark ==
    /\ pc = "committed"
    /\ PendingAdmissible(own, head)
    /\ \/ /\ epochs' = Reconciled(own, head)
          /\ own' = Reconciled(own, head)
          /\ pc' = "certify"
          /\ UNCHANGED uncertain
       \/ /\ PersistFails(Reconciled(own, head))
          /\ Abandon
          /\ UNCHANGED own
    /\ UNCHANGED <<genesis, chain, head, certs, backups>>

(* The receipt of a stored block, refused when its stamp is not the one of *)
(* the grant for that height.                                              *)
Receipts(o, n) ==
    {[epoch |-> o.grants[e].epoch, owner |-> o.grants[e].owner,
      head |-> SubSeq(chain, 1, n)] :
        e \in {f \in 1..Len(o.grants) :
                  IsGrantFor(o, f, n) /\ check_stamp(chain[n], o.grants[f])}}

(* commit: the reply with the receipt of the block just committed. *)
CommitReply ==
    /\ pc = "certify"
    /\ certs' = certs \cup Receipts(own, Len(head))
    /\ pc' = "idle"
    /\ UNCHANGED <<durable, own, head, uncertain, backups>>

(* A broken form of CertifyStored: an uncertain authority still answers. *)
CertifyUncertain(n) ==
    /\ pc = "idle"
    /\ n \in 1..Len(chain)
    /\ certs' = certs \cup Receipts(own, n)
    /\ UNCHANGED <<durable, volatile, backups>>

(* canonical_receipt, effect_certificate: certificates of older blocks. *)
CertifyStored(n) ==
    /\ Serving
    /\ n \in 1..Len(chain)
    /\ certs' = certs \cup Receipts(own, n)
    /\ UNCHANGED <<durable, volatile, backups>>

(* The operator puts an older copy of the canonical store in place of the  *)
(* one the stopped authority left.                                         *)
RestoreStore(copy) ==
    /\ pc = "down"
    /\ chain' = copy
    /\ UNCHANGED <<genesis, epochs, volatile, certs, backups>>

Step ==
    \/ Crash
    \/ OpenOwnership \/ OpenChain \/ OpenReconcile \/ OpenRefused
    \/ CommitSeal \/ CommitCanonical \/ CommitWatermark \/ CommitReply

Next ==
    \/ Step
    \/ \E e \in 0..MaxEpochs, w \in Workers, h \in KnownHeads : Grant(e, w, h)
    \/ \E e \in 1..MaxEpochs, w \in Workers, h \in KnownHeads, b \in Batches :
          CommitIntent(e, w, h, b)
    \/ \E n \in 1..MaxHeight : CertifyStored(n)

(* The same authority when the canonical store may be swapped for an older *)
(* copy of itself while the authority is stopped.                          *)
NextWithRestore ==
    \/ Next
    \/ \E copy \in backups : RestoreStore(copy)

Spec == Init /\ [][Next]_vars

SpecWithRestore == Init /\ [][NextWithRestore]_vars

-----------------------------------------------------------------------------
(* Every variable has its type. *)
TypeOK ==
    /\ genesis \in BOOLEAN
    /\ chain \in SessionHead
    /\ epochs \in Ownership \cup {NoOwnership}
    /\ pc \in PCs
    /\ own \in Ownership \cup {NoOwnership}
    /\ head \in SessionHead \cup {NoHead}
    /\ uncertain \in BOOLEAN
    /\ certs \subseteq CanonicalReceipt
    /\ backups \subseteq SessionHead

(* Whatever the authority was doing when it stopped, and whichever of its  *)
(* failed writes reached the disk, the pair of databases it left behind    *)
(* passes open: the audit of grants and stamps accepts it and              *)
(* reconcile_pending finds the watermark or the one pending step.          *)
Recoverable ==
    IF epochs = NoOwnership
    THEN chain = initial_head
    ELSE audit(epochs, chain) /\ PendingAdmissible(epochs, chain)

(* A certificate never outruns the watermark: receipt runs after           *)
(* reconcile_pending has made the certified head durable in both databases.*)
CertifiedBelowWatermark ==
    certs # {} =>
        /\ epochs # NoOwnership
        /\ \A c \in certs : IsInitial(c.head, epochs.canonical_head)

(* An authority that serves requests still has every block it ever         *)
(* certified, even when the canonical store was swapped for an older copy  *)
(* while it was stopped: the watermark refuses any copy that lost one.     *)
CertifiedRetained ==
    Serving => \A c \in certs : IsInitial(c.head, head)

(* Two certificates for one height are the same certificate: whatever was  *)
(* restored, discarded and rebuilt, no height is ever certified twice with *)
(* different blocks or writers.                                            *)
OneCertificatePerHeight ==
    \A c, d \in certs : Len(c.head) = Len(d.head) => c = d

(* What has been certified is one history, and it is kept: the three       *)
(* properties above together.                                              *)
CertifiedHistory ==
    CertifiedBelowWatermark /\ CertifiedRetained /\ OneCertificatePerHeight

(* The grants that are durable. *)
Granted == IF epochs = NoOwnership THEN <<>> ELSE epochs.grants

(* What the workers see is the abstract ledger: grants and blocks appear   *)
(* one at a time, each at the instant its database write is durable.       *)
Ledger == INSTANCE FencedLedger WITH grants <- Granted
=============================================================================
