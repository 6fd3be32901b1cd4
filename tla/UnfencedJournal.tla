--------------------------- MODULE UnfencedJournal ---------------------------
(***************************************************************************)
(* A command journal beside the session chain it submits to, with no       *)
(* writer authority in between.  The two are separate databases.  submit   *)
(* runs under the session writer lock; other producers commit to the same  *)
(* chain while it does not hold the lock.                                  *)
(***************************************************************************)
EXTENDS CommandJournal

CONSTANTS MaxHeight   \* bound on the blocks of the chain

VARIABLES chain,      \* the committed blocks of the session
          pc,         \* where the running submit call is
          result      \* what the committer answered it

vars == <<mem, disk, recovery_required, chain, pc, result>>

Block == [batch: SUBSET CommandIdentity, journal: BOOLEAN]

SubmitPCs == {"idle", "commit", "record"}

Results == {"none", "StaleCandidate", "Rejected", "OutcomeUnknown"}

Init ==
    /\ JournalInit
    /\ chain = <<>>
    /\ pc = "idle"
    /\ result = "none"

(* The commands of a batch must have no receipt, under either payload. *)
Fresh(batch) == \A c \in batch : command_status(chain, c).tag = "Missing"

Unchanged == UNCHANGED <<chain, pc, result>>

-----------------------------------------------------------------------------
(* Journal calls of other threads, which may fall between the parts of a   *)
(* running submit: the journal's mutex is held for one update at a time.   *)
Enqueue(c) == enqueue(c) /\ Unchanged

Reserve(n, ending) == reserve(chain, n, ending) /\ Unchanged

RetryStale(id) == retry_stale(id) /\ Unchanged

ReleaseUnsubmitted == release_unsubmitted /\ Unchanged

Acknowledge(id) == acknowledge(id) /\ Unchanged

begin_commit ==
    /\ mem.reservation # NoReservation
    /\ mem.reservation.base = chain
    /\ mem.reservation.phase = "Held"
    /\ update([mem EXCEPT !.reservation.phase = "Submitting"])

(* submit, first part: the durable intent.  A failed write ends the call   *)
(* before anything is committed.                                           *)
SubmitBegin ==
    /\ pc = "idle"
    /\ begin_commit
    /\ pc' = IF recovery_required' THEN "idle" ELSE "commit"
    /\ UNCHANGED <<chain, result>>

JournalBlock ==
    [batch |-> {IdentityAt(mem, i) : i \in {k \in DOMAIN mem.entries :
                    mem.entries[k].id \in mem.reservation.ids}},
     journal |-> TRUE]

(* submit, second part: the committer.  On success the reservation stays   *)
(* until reconciliation; an uncertain answer may hide a committed block.   *)
SubmitCommit ==
    /\ pc = "commit"
    /\ \/ /\ Fresh(JournalBlock.batch) /\ Len(chain) < MaxHeight
          /\ chain' = Append(chain, JournalBlock)
          /\ pc' = "idle" /\ UNCHANGED result
       \/ /\ Fresh(JournalBlock.batch) /\ Len(chain) < MaxHeight
          /\ chain' = Append(chain, JournalBlock)
          /\ pc' = "record" /\ result' = "OutcomeUnknown"
       \/ /\ pc' = "record"
          /\ result' \in {"StaleCandidate", "Rejected", "OutcomeUnknown"}
          /\ UNCHANGED chain
    /\ UNCHANGED journalVars

(* Whether the refused work goes back to the queue. *)
AfterRefusal(answer) == answer = "StaleCandidate"

(* submit, last part: a definite refusal gives the work back or rejects    *)
(* it, an uncertain one is only marked.                                    *)
SubmitRecord ==
    LET token == mem.reservation.token IN
    /\ pc = "record"
    /\ \/ /\ AfterRefusal(result)
          /\ update(Released(SetStatus(mem, HeldBy(mem, token), Status("Queued"))))
       \/ /\ result = "Rejected"
          /\ update(Released(SetStatus(mem, HeldBy(mem, token), Status("Rejected"))))
       \/ /\ ~AfterRefusal(result)
          /\ result = "OutcomeUnknown"
          /\ mark_unknown
    /\ pc' = "idle"
    /\ result' = "none"
    /\ UNCHANGED chain

(* submit finds that another call's write failed: it returns an error and  *)
(* leaves the reservation as the disk has it.                              *)
SubmitUnhealthy ==
    /\ pc \in {"commit", "record"}
    /\ recovery_required
    /\ pc' = "idle"
    /\ result' = "none"
    /\ UNCHANGED <<journalVars, chain>>

-----------------------------------------------------------------------------
(* The status reconcile gives an entry: a known result stays, an absent    *)
(* receipt changes nothing.                                                *)
Settled(i, interpreted) ==
    LET status == mem.entries[i].status
        seen   == command_status(chain, IdentityAt(mem, i))
    IN  IF \/ status.tag = "Committed" /\ status.outcome
           \/ status.tag = "IdentityConflict"
           \/ seen.tag = "Missing"
        THEN status
        ELSE IF seen.tag = "IdentityConflict" THEN IdentityConflict(seen.at)
        ELSE Committed(seen.at, mem.entries[i].id \in interpreted)

(* reconcile: receipts of the chain settle entries, whatever their state;  *)
(* the reservation ends with its last reserved entry.                      *)
Reconcile(interpreted) ==
    LET next == WithStatus(mem, LAMBDA i : Settled(i, interpreted))
    IN  /\ pc = "idle"
        /\ update(IF \E i \in DOMAIN next.entries : Tag(next, i) = "Reserved"
                  THEN next ELSE Released(next))
        /\ Unchanged

-----------------------------------------------------------------------------
(* Another producer of the session commits while the lock is free. *)
OtherCommit(batch) ==
    /\ pc = "idle"
    /\ Fresh(batch)
    /\ Len(chain) < MaxHeight
    /\ chain' = Append(chain, [batch |-> batch, journal |-> FALSE])
    /\ UNCHANGED <<journalVars, pc, result>>

(* The process stops at any point and the journal is opened again. *)
Reopen ==
    /\ open
    /\ pc' = "idle"
    /\ result' = "none"
    /\ UNCHANGED chain

Next ==
    \/ \E c \in CommandIdentity : Enqueue(c)
    \/ \E n \in 0..MaxCommands, ending \in {"limit", "Stale", "Rejected"} :
          Reserve(n, ending)
    \/ \E id \in Ids : RetryStale(id) \/ Acknowledge(id)
    \/ ReleaseUnsubmitted
    \/ SubmitBegin \/ SubmitCommit \/ SubmitRecord \/ SubmitUnhealthy
    \/ \E interpreted \in {{}, Ids} : Reconcile(interpreted)
    \/ \E c \in CommandIdentity : OtherCommit({c})
    \/ Reopen

Spec == Init /\ [][Next]_vars

-----------------------------------------------------------------------------
(* Every variable has its type, and receipts name blocks of the chain. *)
TypeOK ==
    /\ mem \in JournalState(Seq(Block), {}, {})
    /\ disk \in JournalState(Seq(Block), {}, {})
    /\ \A i \in DOMAIN mem.entries : mem.entries[i].status.at <= Len(chain)
    /\ recovery_required \in BOOLEAN
    /\ chain \in Seq(Block)
    /\ pc \in SubmitPCs
    /\ result \in Results

(* A command this journal got committed is never open for submission       *)
(* again: on disk it is reserved or committed, through crashes, uncertain  *)
(* answers and failed journal writes.  Missing receipts release nothing.   *)
CommittedNeverReleased ==
    /\ TypeOK
    /\ \A n \in DOMAIN chain : chain[n].journal =>
           \A i \in DOMAIN disk.entries :
               IdentityAt(disk, i) \in chain[n].batch =>
                   Tag(disk, i) \in {"Reserved", "Committed"}

(* Through all retries, the commands the journal gets committed follow     *)
(* their admission order: stale work blocks later work, released and       *)
(* refused batches keep their place.                                       *)
AdmissionOrder ==
    \A i, k \in DOMAIN disk.entries : \A n, m \in DOMAIN chain :
        /\ chain[n].journal /\ IdentityAt(disk, i) \in chain[n].batch
        /\ chain[m].journal /\ IdentityAt(disk, k) \in chain[m].batch
        /\ i < k
        => n <= m

(* An interpreted outcome, an acknowledgement and a conflict are final,    *)
(* and a reservation that reached the committer ends only through a        *)
(* receipt or that submit call's own definite refusal.                     *)
KeepsOutcomes ==
    /\ Len(disk.entries) <= Len(disk'.entries)
    /\ \A i \in DOMAIN disk.entries :
         LET old == disk.entries[i].status
             new == disk'.entries[i].status
         IN  /\ old.tag = "IdentityConflict" => new = old
             /\ old.tag = "Committed" =>
                   new.tag = "Committed" /\ new.at = old.at
             /\ old.outcome => new.outcome
             /\ old.acknowledged => new.acknowledged
             /\ /\ old.tag = "Reserved"
                /\ disk.reservation.phase # "Held"
                /\ new.tag # "Reserved"
                => \/ new.tag \in {"Committed", "IdentityConflict"}
                   \/ pc = "record"
=============================================================================
