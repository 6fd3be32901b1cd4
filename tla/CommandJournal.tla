--------------------------- MODULE CommandJournal ---------------------------
(***************************************************************************)
(* The durable journal of original commands.  One bounded record holds the *)
(* admitted commands in admission order, the sole active reservation and   *)
(* the recovery evidence.  Every operation is an update: it computes the   *)
(* next record, checks it, writes it synchronously and only then makes it  *)
(* visible.  A write that reports a storage error may have reached the     *)
(* disk; the handle then answers nothing until the journal is reopened.    *)
(*                                                                         *)
(* This module defines the journal alone.  UnfencedJournal and             *)
(* FencedJournal put it next to a session chain and to a writer authority. *)
(***************************************************************************)
EXTENDS Naturals, Sequences, FiniteSets

CONSTANTS Ids,            \* command identifiers
          Payloads,       \* payload hashes; with an id they make an identity
          MaxEntries,     \* limits.max_entries
          MaxCommands,    \* the caller's max_commands of a reservation
          MaxToken,       \* bound on the reservation tokens handed out
          NoReservation,
          NoSubmission

VARIABLES mem,                \* the record the open handle holds
          disk,               \* the record a reopen would read
          recovery_required   \* the last write's outcome is uncertain

journalVars == <<mem, disk, recovery_required>>

ASSUME JournalBounds ==
    /\ MaxEntries \in Nat \ {0}
    /\ MaxCommands \in Nat \ {0}
    /\ MaxToken \in Nat

-----------------------------------------------------------------------------
CommandIdentity == [id: Ids, payload: Payloads]

Phases == {"Held", "Submitting", "Unknown"}

EntryStatus == [tag: {"Queued", "Stale", "Rejected", "Reserved",
                      "Committed", "IdentityConflict"},
                token: Nat, at: Nat, outcome: BOOLEAN, acknowledged: BOOLEAN]

Status(tag) == [tag |-> tag, token |-> 0, at |-> 0,
                outcome |-> FALSE, acknowledged |-> FALSE]

Reserved(token) == [Status("Reserved") EXCEPT !.token = token]

(* Inclusion in block `at`; the business outcome may still be missing. *)
Committed(at, outcome) ==
    [Status("Committed") EXCEPT !.at = at, !.outcome = outcome]

IdentityConflict(at) == [Status("IdentityConflict") EXCEPT !.at = at]

EmptyJournal == [entries |-> <<>>, reservation |-> NoReservation,
                 next_token |-> 1, reconciliations |-> {}]

Tag(j, i) == j.entries[i].status.tag

IdentityAt(j, i) == [id |-> j.entries[i].id, payload |-> j.entries[i].payload]

(* Entries: the one of an id, and the ones a reservation holds. *)
find_entry(j, id) == {i \in DOMAIN j.entries : j.entries[i].id = id}

HeldBy(j, token) ==
    {i \in DOMAIN j.entries : j.entries[i].status = Reserved(token)}

find_reservation(j, token) ==
    j.reservation # NoReservation /\ j.reservation.token = token

(* The record with the status of every entry given by status(i). *)
WithStatus(j, status(_)) ==
    [j EXCEPT !.entries = [i \in DOMAIN j.entries |->
                              [j.entries[i] EXCEPT !.status = status(i)]]]

SetStatus(j, S, new) ==
    WithStatus(j, LAMBDA i : IF i \in S THEN new ELSE j.entries[i].status)

Released(j) == [j EXCEPT !.reservation = NoReservation]

(* What a history says of a command: the receipt index holds one block per *)
(* id, and compares the payload.                                           *)
command_status(blocks, c) ==
    LET at == {n \in DOMAIN blocks : \E d \in blocks[n].batch : d.id = c.id}
    IN  IF at = {} THEN [tag |-> "Missing", at |-> 0]
        ELSE LET n == CHOOSE n \in at : TRUE
             IN  [tag |-> IF c \in blocks[n].batch THEN "Committed"
                          ELSE "IdentityConflict",
                  at |-> n]

(* Retained evidence is bounded, and one token never has two submissions. *)
validate_recoveries(j) ==
    /\ Cardinality(j.reconciliations) <= MaxEntries
    /\ \A x, y \in j.reconciliations :
          x.token = y.token => x.submission = y.submission

(* validate_update: what every record that is written or read must satisfy.*)
validate(j) ==
    /\ Len(j.entries) <= MaxEntries
    /\ \A i, k \in DOMAIN j.entries : j.entries[i].id = j.entries[k].id => i = k
    /\ \A i \in DOMAIN j.entries :
          Tag(j, i) = "Reserved" =>
              /\ find_reservation(j, j.entries[i].status.token)
              /\ j.entries[i].id \in j.reservation.ids
    /\ j.reservation # NoReservation =>
          LET r == j.reservation IN
              /\ r.token < j.next_token
              /\ r.ids # {}
              /\ HeldBy(j, r.token) # {}
              /\ \A id \in r.ids : \E i \in find_entry(j, id) :
                    \/ i \in HeldBy(j, r.token)
                    \/ Tag(j, i) \in {"Committed", "IdentityConflict"}
              /\ r.submission # NoSubmission =>
                    /\ r.phase # "Held"
                    /\ r.submission.base = r.base
                    /\ {c.id : c \in r.submission.commands} = r.ids
    /\ validate_recoveries(j)

(* Every operation goes through update; one that leaves the record as it   *)
(* is writes nothing.                                                      *)
update(next) ==
    /\ ~recovery_required
    /\ next # mem
    /\ validate(next)
    /\ \/ /\ mem' = next
          /\ disk' = next
          /\ UNCHANGED recovery_required
       \/ /\ disk' \in {disk, next}
          /\ recovery_required' = TRUE
          /\ UNCHANGED mem

JournalInit ==
    /\ mem = EmptyJournal
    /\ disk = EmptyJournal
    /\ recovery_required = FALSE

(* The process stops, or the handle is dropped, and the journal is opened  *)
(* again.                                                                  *)
open ==
    /\ validate(disk)
    /\ mem' = disk
    /\ recovery_required' = FALSE
    /\ UNCHANGED disk

-----------------------------------------------------------------------------
(* A new command is admitted.  A repeated one changes nothing and another  *)
(* payload under a known id is refused.                                    *)
enqueue(c) ==
    /\ find_entry(mem, c.id) = {}
    /\ Len(mem.entries) < MaxEntries
    /\ update([mem EXCEPT !.entries =
                  Append(@, [id |-> c.id, payload |-> c.payload,
                             status |-> Status("Queued")])])

(* A broken form of Reservable: stale work is stepped over. *)
ReservableSkippingStale(j) == {i \in DOMAIN j.entries : Tag(j, i) = "Queued"}

(* The queued entries a reservation may take, up to the first stale one. *)
Reservable(j) ==
    {i \in DOMAIN j.entries :
        /\ Tag(j, i) = "Queued"
        /\ \A k \in 1..(i - 1) : Tag(j, k) # "Stale"}

FirstReservable(j, n) ==
    {i \in Reservable(j) : Cardinality({k \in Reservable(j) : k < i}) < n}

(* The first n reservable entries are rebuilt at `head` and reserved; the  *)
(* walk ends at a limit, or at an entry whose rebuilding is stale or       *)
(* rejected, which is recorded even when nothing was reserved before it.   *)
reserve(head, n, ending) ==
    LET taken  == FirstReservable(mem, n)
        failed == FirstReservable(mem, n + 1) \ taken
        marked == IF ending = "limit" THEN mem
                  ELSE SetStatus(mem, failed, Status(ending))
        token  == mem.next_token
    IN  /\ mem.reservation = NoReservation
        /\ Cardinality(taken) = n
        /\ ending = "limit" => n > 0
        /\ ending # "limit" => failed # {} /\ n < MaxCommands
        /\ token <= MaxToken
        /\ update(IF n = 0 THEN marked
                  ELSE [SetStatus(marked, taken, Reserved(token)) EXCEPT
                           !.next_token = token + 1,
                           !.reservation =
                               [token |-> token, base |-> head,
                                ids |-> {mem.entries[i].id : i \in taken},
                                phase |-> "Held",
                                submission |-> NoSubmission]])

retry_stale(id) ==
    \E i \in find_entry(mem, id) :
        /\ Tag(mem, i) = "Stale"
        /\ update(SetStatus(mem, {i}, Status("Queued")))

(* A broken form of MayRelease: any phase will do. *)
MayReleaseAnytime(j) == j.reservation # NoReservation

MayRelease(j) ==
    /\ j.reservation # NoReservation
    /\ j.reservation.phase = "Held"

(* Only work that never crossed begin_commit goes back to the queue. *)
release_unsubmitted ==
    /\ MayRelease(mem)
    /\ update(Released(SetStatus(mem, HeldBy(mem, mem.reservation.token),
                                 Status("Queued"))))

mark_unknown ==
    /\ mem.reservation # NoReservation
    /\ mem.reservation.phase # "Held"
    /\ update([mem EXCEPT !.reservation.phase = "Unknown"])

acknowledge(id) ==
    \E i \in find_entry(mem, id) :
        /\ Tag(mem, i) = "Committed"
        /\ mem.entries[i].status.outcome
        /\ update([mem EXCEPT !.entries[i].status.acknowledged = TRUE])

-----------------------------------------------------------------------------
Reservation(Heads, Submissions) ==
    [token: Nat, base: Heads, ids: SUBSET Ids, phase: Phases,
     submission: Submissions \cup {NoSubmission}]

Entry == [id: Ids, payload: Payloads, status: EntryStatus]

JournalState(Heads, Submissions, Certificates) ==
    [entries: Seq(Entry),
     reservation: Reservation(Heads, Submissions) \cup {NoReservation},
     next_token: Nat,
     reconciliations: SUBSET [token: Nat, submission: Submissions,
                              certificate: Certificates]]
=============================================================================
