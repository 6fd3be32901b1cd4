---------------------------- MODULE BlockProducer ----------------------------
(***************************************************************************)
(* The single-writer block producer and the FIFO transaction source it     *)
(* reserves from.  Clients queue transactions that were built at some      *)
(* session head; the producer reads the head, reserves a capped prefix of  *)
(* the queue, hands one candidate to the session's commit boundary and     *)
(* waits for the answer before it selects again.  Every await is a place   *)
(* where clients, other writers and the operator act.  The source outlives *)
(* a run of the producer: an application starts another one after an error *)
(* or a shutdown.                                                          *)
(*                                                                         *)
(* A head is the number of blocks below it.  Queued transactions are       *)
(* numbered in the order the queue accepts them; 0 stands for what an      *)
(* operator hands over.  Timers fire at any time.                          *)
(***************************************************************************)
EXTENDS Naturals, Sequences, FiniteSets, SequencesExt

CONSTANTS MaxTxs,          \* bound on the transactions clients queue
          Size,            \* encoded bytes of each; Size[0] is an operator's
          MaxTransactions, \* limits.max_transactions
          MaxBytes,        \* limits.max_bytes
          MaxSubmitters,   \* bound on the clients inside submit
          Capacity,        \* the queue's max_transactions
          Triggers,        \* the production policies a run may have
          MaxManual,       \* bound on the blocks of one manual request
          MaxHeight,       \* bound on the session's blocks
          MaxRuns          \* bound on the runs of the producer

VARIABLES available,         \* QueueState.available: [base, tx] in order
          reserved,          \* QueueState.reserved: id -> entries
          next_reservation,  \* QueueState.next_reservation
          notifying,         \* submitters between the push and the notice
          unseen,            \* the subscription has a change to report
          chain,             \* the session's blocks: [base, txs, cause]
          trigger,           \* config.trigger of the present run
          producer,          \* where the run is and what it holds
          runs,              \* runs started so far
          submitted,         \* heads the accepted transactions were built at
          retained           \* history: reservations a run left behind

queue == <<available, reserved, next_reservation>>
vars == <<available, reserved, next_reservation, notifying, unseen, chain,
          trigger, producer, runs, submitted, retained>>

-----------------------------------------------------------------------------
Txs == 1..MaxTxs

head == Len(chain)

(* Where a run is: it found nothing and is about to wait (quiet), or waits *)
(* for work, a tick or a command (idle), for the head,                     *)
(* for the source, in an open window, for the commit, for the source to    *)
(* acknowledge or release; or it has returned.                             *)
Places == {"quiet", "idle", "head", "source", "window", "commit", "settle", "ended"}

Results == {"none", "Ok", "StaleCandidate", "Rejected", "OutcomeUnknown",
            "Source", "Dropped"}

Ready(place, cause) ==
    [at |-> place, cause |-> cause, base |-> 0, seen |-> 0, batch |-> <<>>,
     held |-> <<>>, left |-> 0, result |-> "none"]

Ended(result) == [Ready("ended", "none") EXCEPT !.result = result]

(* Instant and Open look at the source first; Interval and Never wait. *)
Start(t) == IF t \in {"Instant", "Open"} THEN Ready("head", t)
            ELSE Ready("idle", "none")

(* Instant and Open wait for the source's notices. *)
Subscribed == trigger \in {"Instant", "Open"} /\ producer.at # "ended"

Entries(e) == [i \in DOMAIN e |-> e[i].tx]

transaction_bytes(txs) == FoldLeft(LAMBDA n, t : n + Size[t], 0, txs)

BatchLimits == [max_transactions |-> MaxTransactions, max_bytes |-> MaxBytes]

remaining_limits(batch) ==
    [BatchLimits EXCEPT !.max_transactions = @ - Len(batch),
                        !.max_bytes = @ - transaction_bytes(batch)]

validate_transactions(txs) ==
    /\ Len(txs) <= BatchLimits.max_transactions
    /\ transaction_bytes(txs) <= BatchLimits.max_bytes

-----------------------------------------------------------------------------
(* QueuedTransactionSource.  The longest prefix that fits the limits.      *)
Selected(limits) ==
    LET fits == {n \in 0..Len(available) :
                    /\ n <= limits.max_transactions
                    /\ transaction_bytes(Entries(SubSeq(available, 1, n)))
                           <= limits.max_bytes}
    IN  CHOOSE n \in fits : \A m \in fits : m <= n

(* reserve walks to the first entry that does not fit.  It refuses when an *)
(* entry it looks at was built at another head, or when not even the front *)
(* entry fits.                                                             *)
Refused(base, limits) ==
    LET n == Selected(limits)
        looked == {k \in DOMAIN available :
                      k <= n + 1 /\ k <= limits.max_transactions}
    IN  \/ \E k \in looked : available[k].base # base
        \/ n = 0 /\ looked # {}

(* The entries of some reservations of r, and r without them. *)
Held(r, ids) == FoldLeft(LAMBDA s, id : s \o r[id], <<>>, ids)

Without(r, ids) == [id \in DOMAIN r \ Range(ids) |-> r[id]]

(* The entries go back to the front, the oldest first. *)
Returned(a, r, ids) == Held(r, ids) \o a

(* The two calls below refuse a reservation they do not know.  A run only  *)
(* passes what it holds, which Accounted shows the source to know.         *)
(* Every release is followed by the end of the run and its subscription.   *)
release(ids) ==
    /\ available' = Returned(available, reserved, ids)
    /\ reserved' = Without(reserved, ids)
    /\ unseen' = FALSE
    /\ UNCHANGED next_reservation

acknowledge(ids) ==
    /\ reserved' = Without(reserved, ids)
    /\ UNCHANGED <<available, next_reservation, unseen>>

(* submit: a transaction built at the present or an earlier head. *)
Submit(base) ==
    /\ Len(submitted) < MaxTxs
    /\ notifying < MaxSubmitters
    /\ Len(available) + Len(Held(reserved, SetToSeq(DOMAIN reserved))) < Capacity
    /\ available' = Append(available, [base |-> base, tx |-> Len(submitted) + 1])
    /\ submitted' = Append(submitted, base)
    /\ notifying' = notifying + 1
    /\ UNCHANGED <<reserved, next_reservation, unseen, chain, trigger,
                   producer, runs, retained>>

(* The second half of submit, after the lock is gone. *)
Notify ==
    /\ notifying > 0
    /\ notifying' = notifying - 1
    /\ unseen' = Subscribed
    /\ UNCHANGED <<queue, chain, trigger, producer, runs, submitted, retained>>

-----------------------------------------------------------------------------
Others == UNCHANGED <<notifying, chain, trigger, runs, submitted, retained>>

(* reserve, first await: the committer's current head. *)
ReadHead ==
    /\ producer.at = "head"
    /\ producer' = [producer EXCEPT !.at = "source", !.seen = head]
    /\ UNCHANGED <<queue, unseen>> /\ Others

(* What follows an empty selection. *)
NothingSelected ==
    CASE producer.batch # <<>> -> [producer EXCEPT !.at = "window"]
      [] producer.batch = <<>> /\ \/ producer.cause = "Manual"
                                  \/ trigger = "IntervalEmpty" ->
             [producer EXCEPT !.at = "commit", !.base = producer.seen]
      [] OTHER -> Ready(IF Subscribed THEN "quiet" ELSE "idle", "none")

(* What follows a selection: only an open window that has room left asks   *)
(* for more.                                                               *)
SelectedMore(txs, id) ==
    LET batch == producer.batch \o txs
        left  == remaining_limits(batch)
    IN  [producer EXCEPT
            !.at = IF producer.cause = "Open" /\ left.max_transactions > 0
                      /\ left.max_bytes > 0 THEN "head" ELSE "commit",
            !.base = producer.seen,
            !.batch = batch,
            !.held = Append(producer.held, id)]

(* A broken form of StaleIds: what the last call reserved is forgotten. *)
StaleIdsWithoutLast(id) == producer.held

(* What a window that turned stale releases, the last reservation too. *)
StaleIds(id) == Append(producer.held, id)

(* reserve, second await: the source.  A refusal, or a head that moved     *)
(* under an open window, ends the run and releases what it holds.          *)
Reserve ==
    LET limits == remaining_limits(producer.batch)
        n      == Selected(limits)
        entries == SubSeq(available, 1, n)
        id     == next_reservation
        stale  == producer.batch # <<>> /\ producer.seen # producer.base
        rest   == SubSeq(available, n + 1, Len(available))
        with   == [k \in DOMAIN reserved \cup {id} |->
                      IF k = id THEN entries ELSE reserved[k]]
    IN  /\ producer.at = "source"
        /\ Others
        /\ \/ /\ Refused(producer.seen, limits)
              /\ release(producer.held)
              /\ producer' = Ended("Source")
           \/ /\ ~Refused(producer.seen, limits) /\ stale /\ n = 0
              /\ release(producer.held)
              /\ producer' = Ended("StaleCandidate")
           \/ /\ ~Refused(producer.seen, limits) /\ stale /\ n > 0
              /\ next_reservation' = id + 1
              /\ available' = Returned(rest, with, StaleIds(id))
              /\ reserved' = Without(with, StaleIds(id))
              /\ unseen' = FALSE
              /\ producer' = Ended("StaleCandidate")
           \/ /\ ~Refused(producer.seen, limits) /\ ~stale /\ n = 0
              /\ producer' = NothingSelected
              /\ UNCHANGED <<queue, unseen>>
           \/ /\ ~Refused(producer.seen, limits) /\ ~stale /\ n > 0
              /\ next_reservation' = id + 1
              /\ available' = rest
              /\ reserved' = with
              /\ producer' = SelectedMore(Entries(entries), id)
              /\ UNCHANGED unseen

-----------------------------------------------------------------------------
(* validate_base, under the session's writer lock. *)
ValidBase == producer.base = head

Block == [base |-> producer.base, txs |-> producer.batch,
          cause |-> producer.cause]

(* commit_candidate: the candidate commits, is found stale, is rejected,   *)
(* or the answer is lost with or without the effect.                       *)
Commit(result) ==
    /\ producer.at = "commit"
    /\ \/ /\ result \in {"Ok", "OutcomeUnknown"}
          /\ ValidBase
          /\ Len(chain) < MaxHeight
          /\ chain' = Append(chain, Block)
       \/ /\ result = "StaleCandidate"
          /\ ~ValidBase
          /\ UNCHANGED chain
       \/ /\ result \in {"Rejected", "OutcomeUnknown"}
          /\ UNCHANGED chain
    /\ producer' = [producer EXCEPT !.at = "settle", !.result = result]
    /\ UNCHANGED <<queue, notifying, unseen, trigger, runs, submitted, retained>>

(* A manual request goes on to its next block; Instant and Open look at    *)
(* the source again; Interval and Never wait.                              *)
AfterBlock ==
    IF producer.left > 1
    THEN [Ready("head", "Manual") EXCEPT !.left = producer.left - 1]
    ELSE Start(trigger)

(* Only a commit that certainly failed gives its work back. *)
MayRelease(result) == result \in {"StaleCandidate", "Rejected"}

(* commit_reserved after the answer: acknowledge, release or retain. *)
Settle ==
    LET ids == producer.held IN
    /\ producer.at = "settle"
    /\ UNCHANGED <<notifying, chain, trigger, runs, submitted>>
    /\ \/ /\ producer.result = "Ok"
          /\ acknowledge(ids)
          /\ producer' = AfterBlock
          /\ UNCHANGED retained
       \/ /\ MayRelease(producer.result)
          /\ release(ids)
          /\ producer' = Ended(producer.result)
          /\ UNCHANGED retained
       \/ /\ ~MayRelease(producer.result) /\ producer.result # "Ok"
          /\ producer' = Ended(producer.result)
          /\ retained' = retained \cup Range(ids)
          /\ unseen' = FALSE
          /\ UNCHANGED queue

-----------------------------------------------------------------------------
(* A broken form of StillUnseen: the subscription is made only now. *)
SubscribedOnlyNow == FALSE

(* The subscription was made before the first look at the source, so a     *)
(* change since that look is still to be seen.                             *)
StillUnseen == unseen

Rest ==
    /\ producer.at = "quiet"
    /\ producer' = [producer EXCEPT !.at = "idle"]
    /\ unseen' = StillUnseen
    /\ UNCHANGED queue /\ Others

Woken ==
    /\ unseen
    /\ unseen' = FALSE
    /\ \/ /\ producer.at = "idle"
          /\ trigger \in {"Instant", "Open"}
          /\ producer' = Start(trigger)
       \/ /\ producer.at = "window"
          /\ producer' = [producer EXCEPT !.at = "head"]
    /\ UNCHANGED queue /\ Others

(* The interval's tick, or the deadline of an open window. *)
Tick ==
    /\ \/ /\ producer.at = "idle"
          /\ trigger \in {"Interval", "IntervalEmpty"}
          /\ producer' = Ready("head", "Interval")
       \/ /\ producer.at = "window"
          /\ producer' = [producer EXCEPT !.at = "commit"]
    /\ UNCHANGED <<queue, unseen>> /\ Others

(* produce_blocks.  Open refuses manual production. *)
ProduceFromSource(blocks) ==
    /\ producer.at = "idle"
    /\ trigger # "Open"
    /\ producer' = [Ready("head", "Manual") EXCEPT !.left = blocks]
    /\ UNCHANGED <<queue, unseen>> /\ Others

(* produce_block_with_transactions, at whatever head the operator built    *)
(* for.  A batch over the limits is answered with an error, and the run    *)
(* goes on.                                                                *)
ProduceTransactions(base, txs) ==
    /\ producer.at = "idle"
    /\ trigger # "Open"
    /\ validate_transactions(txs)
    /\ producer' = [Ready("commit", "Manual") EXCEPT
                        !.base = base, !.batch = txs, !.left = 1]
    /\ UNCHANGED <<queue, unseen>> /\ Others

(* An orderly shutdown, or the last handle is gone. *)
Shutdown ==
    /\ producer.at \in {"idle", "window"}
    /\ release(producer.held)
    /\ producer' = Ended("Ok")
    /\ Others

(* The host drops the running future; a commit on its way may still count. *)
Drop ==
    /\ producer.at # "ended"
    /\ \/ UNCHANGED chain
       \/ /\ producer.at = "commit" /\ ValidBase /\ Len(chain) < MaxHeight
          /\ chain' = Append(chain, Block)
    /\ producer' = Ended("Dropped")
    /\ retained' = retained \cup Range(producer.held)
    /\ unseen' = FALSE
    /\ UNCHANGED <<queue, notifying, trigger, runs, submitted>>

(* The application runs another producer over the same source. *)
Restart ==
    /\ producer.at = "ended"
    /\ runs < MaxRuns
    /\ runs' = runs + 1
    /\ producer' = Start(trigger)
    /\ unseen' = FALSE
    /\ UNCHANGED <<queue, notifying, chain, trigger, submitted, retained>>

(* The session advances without the producer. *)
CommitElsewhere ==
    /\ Len(chain) < MaxHeight
    /\ chain' = Append(chain, [base |-> head, txs |-> <<>>, cause |-> "none"])
    /\ UNCHANGED <<queue, notifying, unseen, trigger, producer, runs,
                   submitted, retained>>

Init ==
    /\ available = <<>>
    /\ reserved = <<>>
    /\ next_reservation = 0
    /\ notifying = 0
    /\ unseen = FALSE
    /\ chain = <<>>
    /\ trigger \in Triggers
    /\ producer = Start(trigger)
    /\ runs = 1
    /\ submitted = <<>>
    /\ retained = {}

Service == ReadHead \/ Reserve \/ Settle \/ Rest \/ Woken \/ Tick
               \/ \E result \in Results : Commit(result)

Next ==
    \/ \E base \in 0..head : Submit(base)
    \/ Notify \/ Service \/ Shutdown \/ Drop \/ Restart \/ CommitElsewhere
    \/ \E n \in 1..MaxManual : ProduceFromSource(n)
    \/ \E base \in 0..head : ProduceTransactions(base, <<0>>)

Spec == Init /\ [][Next]_vars

(* The runtime polls a ready task, timers fire, a submitter that pushed    *)
(* goes on to its notice, and the commit boundary answers.                 *)
FairSpec == Spec /\ WF_vars(Notify) /\ WF_vars(Service)

-----------------------------------------------------------------------------
Producer == [at: Places, cause: {"none", "Instant", "Interval", "Open", "Manual"},
             base: Nat, seen: Nat, batch: Seq(0..MaxTxs),
             held: Seq(Nat), left: Nat, result: Results]

(* Every variable has its type; a run holds distinct reservations and      *)
(* never more than a batch.                                                *)
TypeOK ==
    /\ available \in Seq([base: 0..head, tx: Txs])
    /\ \A id \in DOMAIN reserved : reserved[id] \in Seq([base: 0..head, tx: Txs])
    /\ DOMAIN reserved \subseteq 0..(next_reservation - 1)
    /\ notifying \in Nat
    /\ unseen \in BOOLEAN
    /\ trigger \in Triggers
    /\ producer \in Producer
    /\ IsInjective(producer.held)
    /\ validate_transactions(producer.batch)
    /\ runs \in 1..MaxRuns

Waiting == [i \in DOMAIN available |-> available[i].tx]

OnChain == FlattenSeq([n \in DOMAIN chain |-> chain[n].txs])

(* A transaction that is on the chain is never offered to a candidate      *)
(* again, and never twice in a chain: not after a lost answer, a dropped   *)
(* run, a failed commit or a restart.                                      *)
CommittedOnce ==
    LET queued == SelectSeq(OnChain, LAMBDA tx : tx \in Txs) IN
    /\ IsInjective(queued)
    /\ Range(queued) \cap Range(Waiting) = {}

(* Queued work is never lost: it waits, is held by the run, is on the      *)
(* chain, or is in a reservation left for reconciliation; and no           *)
(* reservation stays behind unless its run could not know its outcome.     *)
Accounted ==
    /\ TypeOK
    /\ DOMAIN reserved = Range(producer.held) \cup retained
    /\ DOMAIN submitted \subseteq
          Range(OnChain) \cup Range(Waiting) \cup
              UNION {Range(Entries(reserved[id])) : id \in DOMAIN reserved}

(* A queued transaction is only ever in a block that extends the very head *)
(* it was built at, whatever moved the head while it waited, was reserved  *)
(* or sat in an open window; and no block exceeds the limits.              *)
WellBuilt ==
    \A n \in DOMAIN chain :
        /\ \A tx \in Range(chain[n].txs) : tx # 0 => submitted[tx] = n - 1
        /\ Len(chain[n].txs) <= MaxTransactions
        /\ transaction_bytes(chain[n].txs) <= MaxBytes

(* Work never waits for ever beside an Instant, Interval or Open producer, *)
(* in the queue or in an open window: a candidate is decided, or the run   *)
(* returns.                                                                *)
WorkIsTaken ==
    []<>(\/ trigger = "Never"
         \/ available = <<>> /\ producer.held = <<>>
         \/ producer.at \in {"settle", "ended"})
=============================================================================
