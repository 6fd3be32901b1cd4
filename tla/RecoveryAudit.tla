---------------------------- MODULE RecoveryAudit ----------------------------
(***************************************************************************)
(* The two bounded readers of a session's history: the audit that must     *)
(* finish before a restarted session may write, and the replay that        *)
(* executes a range of blocks again.  Each runs in steps under a budget of *)
(* blocks and store reads, pauses when the budget is spent, when its       *)
(* deadline passes or when it is cancelled, and goes on from its cursor.   *)
(* Meanwhile a session that is still open may commit, and the store may    *)
(* have been damaged before the reader started.  A committed block is what *)
(* the genesis-bound resource limits let through when it was prepared;     *)
(* both readers check the same limits on the record they find.             *)
(***************************************************************************)
EXTENDS Naturals, Sequences, FiniteSets, FiniteSetsExt, SequencesExt, TLC

CONSTANTS Requests,     \* block requests with what executing them yields
          limits,       \* CommitResourceLimits of the session
          Predecessor,  \* whether the session continues another one
          Tasks,        \* an audit, and replays with a range and an anchor
          Budgets,      \* budgets a caller advances with
          RECOVERY_PAGE_SIZE,
          MaxHeight,    \* bound on the blocks
          MaxInterrupts \* bound on deadlines and cancellations

VARIABLES chain,      \* height -> record
          index,      \* heights whose commands and handoffs are indexed right
          head,       \* durable head
          checkpoint, \* restart checkpoint
          damaged,    \* whether anything was damaged at rest
          task,       \* what is running
          pc,         \* its next step
          state,      \* captured head, cursor and receipt, kept by a pause
          page,       \* records read and not yet audited
          budget, used,
          interrupts

vars == <<chain, index, head, checkpoint, damaged, task, pc, state, page, budget, used, interrupts>>

store == <<chain, index, head, checkpoint, damaged>>

Bad == <<"bad">>   \* a value the disk returns that was never written

Genesis == [height |-> 0, root |-> <<>>, sealed |-> FALSE]

-----------------------------------------------------------------------------
(* Resource limits.  The handoffs of a block count together, whether they  *)
(* are issued, consumed or acted on.                                       *)
HandoffUsage(r) == r.issued_bytes + r.consumed_bytes

(* What a request may ask for, before it is executed.                      *)
limits_request(r) ==
    /\ r.issued <= limits.max_issued_handoffs
    /\ r.consumed + r.actions <= limits.max_consumed_handoffs
    /\ r.data + (IF r.actions > 0 THEN 1 ELSE 0) + r.issued + r.consumed
           + (IF r.successor THEN 1 ELSE 0) + 2 <= limits.max_data_commitments
    /\ HandoffUsage(r) <= limits.max_handoff_payload_bytes

(* A broken form of limits_outcome: the commitment of the effects context  *)
(* is not counted.                                                         *)
limits_outcomeShort(r) ==
    /\ r.data + (IF r.actions > 0 THEN 1 ELSE 0) + r.executed + r.outbox + r.issued + r.consumed
           + (IF r.successor THEN 1 ELSE 0) + 1 <= limits.max_data_commitments
    /\ r.outbox <= limits.max_outbox_messages
    /\ r.snapshot <= limits.max_snapshot_bytes

(* What its execution may yield.                                           *)
limits_outcome(r) ==
    /\ r.data + (IF r.actions > 0 THEN 1 ELSE 0) + r.executed + r.outbox + r.issued + r.consumed
           + (IF r.successor THEN 1 ELSE 0) + 2 <= limits.max_data_commitments
    /\ r.outbox <= limits.max_outbox_messages
    /\ r.snapshot <= limits.max_snapshot_bytes

(* The commitments a block carries, in the order they are put together:    *)
(* the request's, the execution's, the outbox, the handoffs issued and     *)
(* consumed, the successor, the actions, the effects context and the       *)
(* resource usage.                                                         *)
data_commitments(r) ==
    [i \in 1..r.data |-> "request"] \o [i \in 1..r.executed |-> "executed"]
        \o [i \in 1..r.outbox |-> "outbox"] \o [i \in 1..r.issued |-> "issued"]
        \o [i \in 1..r.consumed |-> "consumed"]
        \o (IF r.successor THEN <<"successor">> ELSE <<>>)
        \o (IF r.actions > 0 THEN <<"actions">> ELSE <<>>)
        \o <<"effects", "resources">>

FinalisedBlockRecord(r) ==
    [request |-> r, root_before |-> head.root, root_after |-> Append(head.root, r.name),
     data_commitments |-> data_commitments(r), cycles |-> r.cycles,
     snapshot |-> IF r.archived THEN Append(head.root, r.name) ELSE <<>>]

(* The limits once more, on a record that was read back.                   *)
limits_record(record) ==
    LET r == record.request
    IN  /\ r.snapshot <= limits.max_snapshot_bytes
        /\ Last(record.data_commitments) = "resources"
        /\ r.issued <= limits.max_issued_handoffs
        /\ Len(record.data_commitments) <= limits.max_data_commitments
        /\ r.outbox <= limits.max_outbox_messages
        /\ HandoffUsage(r) <= limits.max_handoff_payload_bytes

validate_resources(record) ==
    LET r == record.request
        last == Len(record.data_commitments)
    IN  /\ r.consumed + r.actions <= limits.max_consumed_handoffs
        /\ r.actions > 0 => last > 2 /\ record.data_commitments[last - 2] = "actions"
        /\ limits_record(record)
        /\ last > 1 /\ record.data_commitments[last - 1] = "effects"

-----------------------------------------------------------------------------
(* Store reads one record depends on.  The audit looks up every command    *)
(* and handoff; a replay needs what the block consumed, its actions and    *)
(* its successor.                                                          *)
Indexed(r) == r.commands + r.issued + r.consumed

Dependencies(r) ==
    IF task.kind = "audit" THEN r.commands + r.actions + r.issued + 3 * r.consumed
    ELSE 3 * r.consumed + r.actions + (IF r.successor THEN 1 ELSE 0)

NoState == [captured |-> Genesis, next |-> Genesis, receipt |-> <<>>, root |-> Bad]

Unused == [blocks |-> 0, reads |-> 0]

Init ==
    /\ chain = <<>>
    /\ index = {}
    /\ head = Genesis
    /\ checkpoint = Genesis
    /\ damaged = FALSE
    /\ task \in Tasks
    /\ pc = "new"
    /\ state = NoState
    /\ page = <<>>
    /\ budget = Unused
    /\ used = Unused
    /\ interrupts = 0

(* The open session commits: one transaction writes the record, the        *)
(* indexes, the head and the checkpoint.                                   *)
commit_block(r) ==
    /\ ~head.sealed
    /\ head.height < MaxHeight
    /\ limits_request(r)
    /\ limits_outcome(r)
    /\ head.height + 1 \notin DOMAIN chain
    /\ chain' = (head.height + 1 :> FinalisedBlockRecord(r)) @@ chain
    /\ index' = index \union {head.height + 1}
    /\ head' = [height |-> head.height + 1, root |-> Append(head.root, r.name), sealed |-> r.successor]
    /\ checkpoint' = head'
    /\ UNCHANGED <<damaged, task, pc, state, page, budget, used, interrupts>>

(* Something at rest changes before the reader starts.                     *)
Damage ==
    /\ pc = "new"
    /\ ~damaged
    /\ damaged' = TRUE
    /\ \/ /\ \E h \in DOMAIN chain :
                 \/ chain' = [chain EXCEPT ![h].root_before = Bad]
                 \/ chain' = [chain EXCEPT ![h].cycles = @ + 1]
                 \/ chain' = [chain EXCEPT ![h].data_commitments = Tail(@)]
                 \/ chain' = [g \in DOMAIN chain \ {h} |-> chain[g]]
                 \/ chain[h].snapshot # <<>> /\ chain' = [chain EXCEPT ![h].snapshot = Bad]
          /\ UNCHANGED <<index, head, checkpoint>>
       \/ /\ \E h \in index : Indexed(chain[h].request) > 0 /\ index' = index \ {h}
          /\ UNCHANGED <<chain, head, checkpoint>>
       \/ /\ head # Genesis
          /\ head' = [height |-> head.height - 1, root |-> Front(head.root), sealed |-> FALSE]
          /\ UNCHANGED <<chain, index, checkpoint>>
       \/ /\ head # Genesis
          /\ checkpoint' = Genesis
          /\ UNCHANGED <<chain, index, head>>
    /\ UNCHANGED <<task, pc, state, page, budget, used, interrupts>>

-----------------------------------------------------------------------------
(* The metered store: a read the budget does not cover pauses the task.    *)
Affordable(n) == used.reads + n <= budget.reads

read(n) == used' = [used EXCEPT !.reads = @ + n]

(* A pause keeps the last state every check of which was done.  A page     *)
(* that was read is read again.                                            *)
Kept == state

Pause ==
    /\ pc' = "paused"
    /\ state' = Kept
    /\ page' = <<>>
    /\ UNCHANGED <<store, task, budget, used, interrupts>>

Fail ==
    /\ pc' = "Error"
    /\ UNCHANGED <<store, task, state, page, budget, used, interrupts>>

(* One read of n records, what it leads to when the checks hold, and an    *)
(* error when they do not.                                                 *)
Reading(step, n, checks, Then) ==
    /\ pc = step
    /\ \/ ~Affordable(n) /\ Pause
       \/ Affordable(n) /\ ~checks /\ Fail
       \/ /\ Affordable(n)
          /\ checks
          /\ read(n)
          /\ Then
          /\ UNCHANGED <<store, task, budget, interrupts>>

Go(step) == pc' = step /\ UNCHANGED <<state, page>>

(* advance and resume: a new budget, the kept state.                       *)
advance(b) ==
    /\ pc \in {"new", "paused"}
    /\ pc' = IF state = NoState THEN "initialise" ELSE "head"
    /\ budget' = b
    /\ used' = Unused
    /\ UNCHANGED <<store, task, state, page, interrupts>>

(* The deadline passes, or the caller cancels the step.                    *)
Running == pc \notin {"new", "paused", "Error", "Complete"}

Interrupt ==
    /\ Running
    /\ interrupts < MaxInterrupts
    /\ interrupts' = interrupts + 1
    /\ pc' = "paused"
    /\ state' = Kept
    /\ page' = <<>>
    /\ UNCHANGED <<store, task, budget, used>>

(* A replay may start at a checkpoint the caller trusts, when the record   *)
(* there is still the one named and has kept its snapshot.                 *)
Anchored ==
    \/ task.anchor = 0
    \/ /\ task.anchor < task.first
       /\ task.anchor \in DOMAIN chain
       /\ validate_resources(chain[task.anchor])
       /\ chain[task.anchor].snapshot = chain[task.anchor].root_after

Start ==
    IF task.kind = "audit" \/ task.anchor = 0 THEN Genesis
    ELSE [height |-> task.anchor, root |-> chain[task.anchor].root_after,
          sealed |-> chain[task.anchor].request.successor]

Refused == task.kind = "replay" /\ ~(task.first <= task.last /\ task.last <= head.height)

NoReceipt == [frames |-> 0, cycles |-> 0, before |-> Bad, after |-> Bad]

initialise ==
    Reading("initialise",
            2 + (IF task.kind = "audit" /\ Predecessor THEN 4 ELSE 0)
              + (IF task.kind = "replay" /\ task.anchor > 0 THEN 1 ELSE 0),
            ~Refused /\ (task.kind = "replay" => Anchored),
            /\ state' = [captured |-> head, next |-> Start, receipt |-> NoReceipt, root |-> Start.root]
            /\ pc' = "head"
            /\ UNCHANGED page)

(* Every step first makes sure the head is still the captured one.         *)
CheckHead ==
    Reading("head", 1, head = state.captured,
            Go(IF task.kind = "audit" THEN "scan" ELSE "block"))

(* A page of the history: the records from a height on, however many of    *)
(* them the budget still allows.                                           *)
load_chain_page(start, count) ==
    LET heights == SetToSortSeq({h \in DOMAIN chain : h >= start}, <)
        taken == SubSeq(heights, 1, Min({count, Len(heights)}))
    IN  [i \in DOMAIN taken |-> [height |-> taken[i], record |-> chain[taken[i]]]]

Scan ==
    LET count == Min({budget.blocks - used.blocks, RECOVERY_PAGE_SIZE})
        read_page == load_chain_page(state.next.height + 1, count)
    IN  /\ pc = "scan"
        /\ \/ /\ state.next.height = state.captured.height
              /\ Go("tail")
              /\ UNCHANGED <<store, task, budget, used, interrupts>>
           \/ /\ state.next.height # state.captured.height
              /\ used.blocks >= budget.blocks
              /\ Pause
           \/ /\ state.next.height # state.captured.height
              /\ used.blocks < budget.blocks
              /\ Reading("scan", 1, read_page # <<>>,
                         page' = read_page /\ pc' = "record" /\ UNCHANGED state)

(* The record continues the cursor, is within the limits, and is what the  *)
(* committee signed.                                                       *)
audit_record(h, number, record) ==
    /\ validate_resources(record)
    /\ ~h.sealed
    /\ number = h.height + 1
    /\ record.root_before = h.root
    /\ record.cycles = record.request.cycles
    /\ record.data_commitments = data_commitments(record.request)

Audited(record) ==
    [height |-> state.next.height + 1, root |-> record.root_after, sealed |-> record.request.successor]

Spent(n) == used' = [blocks |-> used.blocks + 1, reads |-> used.reads + n]

(* The cursor moves when the record and everything it depends on is        *)
(* checked; a dependency read the budget does not cover leaves it.         *)
AuditRecord ==
    LET number == Head(page).height
        record == Head(page).record
        reads == Dependencies(record.request)
        right == /\ number <= state.captured.height
                 /\ audit_record(state.next, number, record)
                 /\ number \in index
    IN  /\ pc = "record"
        /\ \/ ~Affordable(reads) /\ Pause
           \/ Affordable(reads) /\ ~right /\ Fail
           \/ /\ Affordable(reads)
              /\ right
              /\ Spent(reads)
              /\ state' = [state EXCEPT !.next = Audited(record)]
              /\ page' = Tail(page)
              /\ pc' = IF Tail(page) = <<>> THEN "scan" ELSE "record"
              /\ UNCHANGED <<store, task, budget, interrupts>>

NoHistoryAfter == load_chain_page(state.next.height + 1, 1) = <<>>

CheckTail == Reading("tail", 1, NoHistoryAfter, Go("finish"))

finish ==
    Reading("finish", 1 + (IF state.captured.sealed THEN 2 ELSE 0),
            state.next = state.captured /\ checkpoint = state.captured, Go("last"))

CheckLast ==
    Reading("last", 1,
            /\ head = state.captured
            /\ state.next.height = state.captured.height => state.next = state.captured,
            Go("Complete"))

(* One block of a replay: the record is audited, executed on a copy of the *)
(* executor, and compared with what the block says it yields.              *)
execute_record(record) ==
    LET root == Append(state.root, record.request.name)
    IN  /\ state.root = state.next.root
        /\ audit_record(state.next, state.next.height + 1, record)
        /\ record.request.consumed > 0 => state.next.height + 1 \in index
        /\ root = record.root_after
        /\ record.snapshot # <<>> => record.snapshot = root

(* The receipt counts the blocks of the range, not the ones before it.     *)
Counted(record) ==
    LET number == state.next.height + 1
    IN  IF number < task.first THEN [state.receipt EXCEPT !.after = record.root_after]
        ELSE [frames |-> state.receipt.frames + 1,
              cycles |-> state.receipt.cycles + record.cycles,
              before |-> IF number = task.first THEN state.next.root ELSE state.receipt.before,
              after |-> record.root_after]

ReplayBlock ==
    LET number == state.next.height + 1
        present == number \in DOMAIN chain
        reads == IF present THEN 1 + Dependencies(chain[number].request) ELSE 1
    IN  /\ pc = "block"
        /\ \/ /\ state.next.height >= task.last
              /\ Go("last")
              /\ UNCHANGED <<store, task, budget, used, interrupts>>
           \/ /\ state.next.height < task.last
              /\ used.blocks >= budget.blocks \/ ~Affordable(reads)
              /\ Pause
           \/ /\ state.next.height < task.last
              /\ used.blocks < budget.blocks
              /\ Affordable(reads)
              /\ IF present /\ execute_record(chain[number])
                 THEN /\ Spent(reads)
                      /\ state' = [state EXCEPT !.receipt = Counted(chain[number]),
                                               !.root = chain[number].root_after,
                                               !.next = Audited(chain[number])]
                      /\ UNCHANGED <<store, task, pc, page, budget, interrupts>>
                 ELSE Fail

Step ==
    \/ initialise \/ CheckHead
    \/ Scan \/ AuditRecord \/ CheckTail \/ finish
    \/ ReplayBlock
    \/ CheckLast

Next ==
    \/ \E r \in Requests : commit_block(r)
    \/ Damage
    \/ \E b \in Budgets : advance(b)
    \/ Step
    \/ Interrupt

Spec == Init /\ [][Next]_vars

-----------------------------------------------------------------------------
(* The history up to the head is whole.                                    *)
Whole ==
    /\ DOMAIN chain = 1..head.height
    /\ index = 1..head.height
    /\ checkpoint = head
    /\ \A h \in DOMAIN chain :
           /\ chain[h].root_before = SubSeq(head.root, 1, h - 1)
           /\ chain[h].cycles = chain[h].request.cycles
           /\ chain[h].data_commitments = data_commitments(chain[h].request)

ExactReceipt ==
    [frames |-> task.last - task.first + 1,
     cycles |-> MapThenSumSet(LAMBDA h : chain[h].request.cycles, task.first..task.last),
     before |-> SubSeq(head.root, 1, task.first - 1),
     after |-> SubSeq(head.root, 1, task.last)]

(* A verdict is right, however often the reader was paused and whatever    *)
(* the session committed meanwhile.  An audit completes only when the      *)
(* whole history is sound and the head is the one it will write on; the    *)
(* receipt of a replay counts each block of its range exactly once; and    *)
(* neither ever fails on blocks the session itself committed under its     *)
(* limits, unless the head moved or the replay asked for blocks that are   *)
(* not there.                                                              *)
RightVerdict ==
    /\ pc # "Complete" /\ pc' = "Complete" =>
           /\ head = state.captured
           /\ task.kind = "audit" => Whole
           /\ task.kind = "replay" => state.receipt = ExactReceipt
    /\ pc # "Error" /\ pc' = "Error" =>
           \/ damaged
           \/ pc = "initialise" /\ (Refused \/ ~Anchored)
           \/ pc # "initialise" /\ head # state.captured

VerdictsAreRight == [][RightVerdict]_vars

(* A reader ends, whatever the pauses, when every budget it is resumed     *)
(* with covers its widest record: a pause loses no record it has finished. *)
ReadersEnd == []<>(pc \in {"new", "Error", "Complete"})
=============================================================================
