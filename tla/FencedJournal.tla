---------------------------- MODULE FencedJournal ----------------------------
(***************************************************************************)
(* A fenced command journal beside the writer authority it submits to      *)
(* over a network.  A signed submission is written to the journal before   *)
(* it may be sent; once sent it can be lost, delayed or delivered again.   *)
(* The authority is the FencedLedger that SessionAuthority implements: it  *)
(* commits only for the newest epoch at the exact head, and signs          *)
(* observations of its history.  Signed observations can be applied late   *)
(* and repeatedly.  Other writers use the same authority, and an           *)
(* administrator moves the session to new epochs.                          *)
(***************************************************************************)
EXTENDS CommandJournal

CONSTANTS Workers,     \* the request-signing keys of workers
          Offers,      \* the sets of commands clients may bring
          MaxEpochs,   \* bound on the grants
          MaxHeight    \* bound on the canonical blocks

VARIABLES offered,       \* the commands clients bring; fixed at the start
          grants,        \* the authority's writer grants, in epoch order
          chain,         \* the canonical blocks
          sent,          \* the signed submissions that left the journal
          certificates   \* the observations the authority signed

vars == <<mem, disk, recovery_required, offered, grants, chain, sent, certificates>>

authority == <<grants, chain>>

Authority == INSTANCE FencedLedger
             WITH Batches <- SUBSET CommandIdentity, certs <- {}

Submission == [epoch: Nat, owner: Workers, base: Authority!SessionHead,
               commands: SUBSET CommandIdentity]

(* A CommandReconciliation: the statuses of the commands follow from the   *)
(* head at which they were looked up.                                      *)
CommandReconciliation == [submission: Submission, observed_epoch: Nat,
                          observed_head: Authority!SessionHead]

Init ==
    /\ JournalInit
    /\ offered \in Offers
    /\ Authority!Init
    /\ sent = {}
    /\ certificates = {}

-----------------------------------------------------------------------------
(* The journal's own operations. *)
Outside == UNCHANGED <<offered, grants, chain, sent, certificates>>

Enqueue(c) == enqueue(c) /\ Outside

(* The construction head is the canonical head or an older one a replica   *)
(* still has.                                                              *)
Reserve(height, n, ending) ==
    reserve(SubSeq(chain, 1, height), n, ending) /\ Outside

RetryStale(id) == retry_stale(id) /\ Outside

ReleaseUnsubmitted == release_unsubmitted /\ Outside

Acknowledge(id) == acknowledge(id) /\ Outside

Reopen == open /\ Outside

(* The signed request for the reserved work under the grant of an epoch. *)
SubmissionFor(epoch) ==
    [epoch |-> epoch, owner |-> grants[epoch].owner,
     base |-> mem.reservation.base,
     commands |-> {IdentityAt(mem, i) : i \in
        {k \in DOMAIN mem.entries : mem.entries[k].id \in mem.reservation.ids}}]

(* begin_fenced_commit: the exact signed request becomes durable before    *)
(* the caller gets it, under whatever grant the worker holds.              *)
BeginFencedCommit(epoch) ==
    /\ epoch \in DOMAIN grants
    /\ mem.reservation # NoReservation
    /\ mem.reservation.phase = "Held"
    /\ update([mem EXCEPT !.reservation.phase = "Submitting",
                          !.reservation.submission = SubmissionFor(epoch)])
    /\ sent' = IF recovery_required' THEN sent
               ELSE sent \cup {SubmissionFor(epoch)}
    /\ UNCHANGED <<offered, grants, chain, certificates>>

Bound ==
    /\ mem.reservation # NoReservation
    /\ mem.reservation.submission # NoSubmission

(* submit_fenced_remote, first part: Unknown is durable before any byte    *)
(* leaves.                                                                 *)
MarkUnknown == Bound /\ mark_unknown /\ Outside

(* submit_fenced_remote, second part: the persisted request is sent. *)
SendCommit ==
    /\ ~recovery_required
    /\ Bound
    /\ mem.reservation.phase = "Unknown"
    /\ sent' = sent \cup {mem.reservation.submission}
    /\ UNCHANGED <<journalVars, offered, grants, chain, certificates>>

-----------------------------------------------------------------------------
(* The authority.  A batch must have no receipt, under either payload. *)
Fresh(batch) == \A c \in batch : command_status(chain, c).tag = "Missing"

(* A submission arrives, perhaps late, perhaps not for the first time. *)
DeliverCommit(s) ==
    /\ Len(chain) < MaxHeight
    /\ Fresh(s.commands)
    /\ Authority!Commit(s.epoch, s.owner, s.base, s.commands)
    /\ UNCHANGED <<journalVars, offered, sent, certificates>>

(* The current writer commits something else, or the same commands for     *)
(* another journal.                                                        *)
OtherCommit(batch) ==
    /\ Len(chain) < MaxHeight
    /\ Fresh(batch)
    /\ grants # <<>>
    /\ Authority!Commit(Len(grants), grants[Len(grants)].owner, chain, batch)
    /\ UNCHANGED <<journalVars, offered, sent, certificates>>

GrantEpoch(owner) ==
    /\ Len(grants) < MaxEpochs
    /\ Authority!Grant(owner, chain)
    /\ UNCHANGED <<journalVars, offered, sent, certificates>>

(* reconcile_submission, asked for by reconcile_remote or by the last part *)
(* of submit_fenced_remote: one look at history and epoch under the        *)
(* authority's lock, signed.                                               *)
Observe ==
    /\ ~recovery_required
    /\ Bound
    /\ certificates' = certificates \cup
          {[submission |-> mem.reservation.submission,
            observed_epoch |-> Len(grants), observed_head |-> chain]}
    /\ UNCHANGED <<journalVars, offered, grants, chain, sent>>

-----------------------------------------------------------------------------
(* The submission whose evidence reconcile_fenced accepts for a token: the *)
(* active reservation's, or a retained one when there is no reservation.   *)
BindingOf(token) ==
    IF mem.reservation # NoReservation
    THEN IF mem.reservation.token = token
         THEN {mem.reservation.submission} \ {NoSubmission} ELSE {}
    ELSE {r.submission : r \in {x \in mem.reconciliations : x.token = token}}

(* Broken forms of can_requeue: a missing receipt is enough; one epoch too *)
(* many is asked for.                                                      *)
can_requeue_missing(certificate) == TRUE

can_requeue_late(certificate) ==
    certificate.observed_epoch > certificate.submission.epoch + 1

(* Only a later epoch proves that the submission cannot commit any more. *)
can_requeue(certificate) ==
    certificate.observed_epoch > certificate.submission.epoch

(* What one observed command makes of its entry. *)
Observed(i, token, certificate, interpreted) ==
    LET status == mem.entries[i].status
        seen   == command_status(certificate.observed_head, IdentityAt(mem, i))
    IN  IF IdentityAt(mem, i) \notin certificate.submission.commands THEN status
        ELSE IF seen.tag = "Missing"
        THEN IF can_requeue(certificate) /\ status = Reserved(token)
             THEN Status("Queued") ELSE status
        ELSE IF seen.tag = "IdentityConflict" THEN IdentityConflict(seen.at)
        ELSE IF status.tag = "Committed" /\ status.outcome THEN status
        ELSE Committed(seen.at, mem.entries[i].id \in interpreted)

(* Evidence that contradicts a retained receipt or conflict is refused. *)
Contradicts(i, certificate) ==
    LET status == mem.entries[i].status
        seen   == command_status(certificate.observed_head, IdentityAt(mem, i))
    IN  /\ IdentityAt(mem, i) \in certificate.submission.commands
        /\ \/ seen.tag = "Committed" /\ status.tag = "IdentityConflict"
           \/ seen.tag = "Committed" /\ status.tag = "Committed"
              /\ status.at # seen.at
           \/ seen.tag = "IdentityConflict" /\ status.tag = "Committed"

(* reconcile_fenced: signed evidence settles entries, requeues only what a *)
(* later epoch has made impossible, and is retained.                       *)
ReconcileFenced(token, certificate, interpreted) ==
    LET seen == WithStatus(mem, LAMBDA i :
                    Observed(i, token, certificate, interpreted))
        kept == IF HeldBy(seen, token) = {} THEN Released(seen) ELSE seen
        evidence == mem.reconciliations \cup
                        {[token |-> token, submission |-> certificate.submission,
                          certificate |-> certificate]}
    IN  /\ certificate.submission \in BindingOf(token)
        /\ \A i \in DOMAIN mem.entries : ~Contradicts(i, certificate)
        /\ Cardinality(evidence) <= MaxEntries
        /\ update([kept EXCEPT !.reconciliations = evidence])
        /\ Outside

Next ==
    \/ \E c \in offered : Enqueue(c) \/ OtherCommit({c})
    \/ \E h \in 0..Len(chain), n \in 0..MaxCommands :
          \E ending \in {"limit", "Stale", "Rejected"} : Reserve(h, n, ending)
    \/ \E id \in Ids : RetryStale(id) \/ Acknowledge(id)
    \/ ReleaseUnsubmitted
    \/ \E epoch \in 1..MaxEpochs : BeginFencedCommit(epoch)
    \/ MarkUnknown \/ SendCommit \/ Observe \/ Reopen
    \/ \E s \in sent : DeliverCommit(s)
    \/ \E w \in Workers : GrantEpoch(w)
    \/ \E token \in 1..MaxToken, certificate \in certificates :
          \E interpreted \in {{}, Ids} :
             ReconcileFenced(token, certificate, interpreted)

Spec == Init /\ [][Next]_vars

(* A worker that comes back keeps asking the authority about its uncertain *)
(* submission and applying the answers, reopens a journal whose last write *)
(* is uncertain, and is not refused by its storage for ever.  Nothing is   *)
(* assumed of the network, of other writers or of the administrator.       *)
Restart == recovery_required /\ Reopen

Settle(token) ==
    /\ \E certificate \in certificates :
          /\ certificate.observed_epoch = Len(grants)
          /\ ReconcileFenced(token, certificate, Ids)
    /\ ~recovery_required'

FairSpec ==
    /\ Spec
    /\ WF_vars(Restart)
    /\ SF_vars(Observe)
    /\ \A token \in 1..MaxToken : SF_vars(Settle(token))

-----------------------------------------------------------------------------
(* Every variable has its type, and receipts name canonical blocks. *)
TypeOK ==
    /\ {mem, disk} \subseteq JournalState(Authority!SessionHead, Submission,
                                         CommandReconciliation)
    /\ \A i \in DOMAIN mem.entries : mem.entries[i].status.at <= Len(chain)
    /\ recovery_required \in BOOLEAN
    /\ grants \in Seq(Authority!WriterGrant)
    /\ chain \in Authority!SessionHead
    /\ sent \subseteq Submission
    /\ certificates \subseteq CommandReconciliation

(* A submission the authority would still accept. *)
CanCommit(s) ==
    /\ s.epoch = Len(grants)
    /\ s.base = chain
    /\ Fresh(s.commands)

(* Work that left the journal and could still commit is held on disk by    *)
(* the reservation it was bound to: a command never goes back to the       *)
(* queue, and so into another block request, while an earlier request for  *)
(* it can still win.                                                       *)
NoLiveResubmission ==
    /\ TypeOK
    /\ \A s \in sent : CanCommit(s) =>
           /\ disk.reservation # NoReservation
           /\ disk.reservation.submission = s
           /\ \A c \in s.commands : \E i \in DOMAIN disk.entries :
                 IdentityAt(disk, i) = c /\ Tag(disk, i) = "Reserved"

(* What the journal tells a client about inclusion is true of the          *)
(* canonical history, however old the evidence was when it was applied.    *)
ReceiptsAreTrue ==
    \A i \in DOMAIN disk.entries :
        Tag(disk, i) \in {"Committed", "IdentityConflict"} =>
            command_status(chain, IdentityAt(disk, i)) =
                [tag |-> Tag(disk, i), at |-> disk.entries[i].status.at]

(* The retained evidence is never pruned, and reconcile_fenced refuses any *)
(* new certificate once it has reached limits.max_entries.                 *)
EvidenceFull == Cardinality(disk.reconciliations) >= MaxEntries

(* Uncertain work does not stay uncertain once the session has moved past  *)
(* its epoch: its reservation ends, whether the submission was lost, is    *)
(* still on its way or had committed, unless the evidence the journal      *)
(* retains, about this work and earlier work, leaves no room for the       *)
(* certificate that would end it.                                          *)
RevokedWorkIsSettled ==
    \A token \in 1..MaxToken :
        /\ disk.reservation # NoReservation
        /\ disk.reservation.token = token
        /\ disk.reservation.submission # NoSubmission
        /\ disk.reservation.submission.epoch < Len(grants)
        ~> \/ disk.reservation = NoReservation
           \/ disk.reservation.token # token
           \/ EvidenceFull

(* Old evidence never moves newer work: a reservation ends only by being   *)
(* released unsubmitted, or by evidence about its own submission, and a    *)
(* known inclusion is never forgotten.                                     *)
OwnEvidenceOnly ==
    /\ disk.reservation # NoReservation /\ disk'.reservation = NoReservation
       => \/ disk.reservation.phase = "Held"
          \/ \E x \in disk'.reconciliations :
                x.token = disk.reservation.token
    /\ \A i \in DOMAIN disk.entries :
          Tag(disk, i) \in {"Committed", "IdentityConflict"} =>
             /\ Tag(disk', i) = Tag(disk, i)
             /\ disk'.entries[i].status.at = disk.entries[i].status.at
=============================================================================
