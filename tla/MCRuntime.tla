------------------------------ MODULE MCRuntime ------------------------------
(***************************************************************************)
(* What runs beside a session's chain, for TLC: a behaviour is of the      *)
(* evidence workers on the outbox, of the durable network queues between   *)
(* validators, or of a recovery audit or replay that reads the history in  *)
(* slices.                                                                 *)
(***************************************************************************)
EXTENDS EvidenceRuntime, TLC

CONSTANTS w1, w2,
          Senders, peers, Callers, Loads, Clients, Drift, max_future_drift,
          max_message_age, limit, max_network_queue_messages,
          MAX_OUTBOUND_SEQUENCE_RETRIES, MaxFaults, MaxTime,
          Requests, limits, Predecessor, Tasks, Budgets, RECOVERY_PAGE_SIZE,
          MaxHeight, MaxInterrupts

VARIABLES callers, sequences, outbound, clients, late, cursor, inbound,  \* the network's
          usage, receiving, applied, now, faults,
          chain, index, head, checkpoint, damaged, task, pc, state,      \* the reader's
          page, budget, used, interrupts,
          part            \* which of the three a behaviour is of

Network == INSTANCE SessionNetwork WITH worker <- receiving

Reader == INSTANCE RecoveryAudit

networkVars == <<callers, sequences, outbound, clients, late, cursor, inbound,
                 usage, receiving, applied, now, faults>>
readerVars == <<chain, index, head, checkpoint, damaged, task, pc, state,
                page, budget, used, interrupts>>
mcvars == <<vars, networkVars, readerVars, part>>

MCWorkers == {w1, w2}

(* The second message belongs to a topic nobody registered here.           *)
FirstAndLast == {1, 3}

-----------------------------------------------------------------------------
(* Two callers and two clients of one sender, or one of each of two; the   *)
(* clock of b is ahead.                                                    *)
MCCallers == ("c1" :> "a") @@ ("c2" :> "a") @@ ("c3" :> "b")
MCClients == ("d1" :> "a") @@ ("d2" :> "a") @@ ("d3" :> "b")
MCLoads == {[callers |-> {"c1", "c2"}, clients |-> {"d1", "d2"}],
            [callers |-> {"c1", "c3"}, clients |-> {"d1", "d3"}]}
MCDrift == ("a" :> 0) @@ ("b" :> 1)

-----------------------------------------------------------------------------
(* A block that will be archived, one that consumes and acts, one that     *)
(* seals the session and one whose outcome exceeds the limits.             *)
PlainRequest(name) ==
    [name |-> name, issued |-> 0, consumed |-> 0, actions |-> 0, data |-> 0, executed |-> 0,
     outbox |-> 0, successor |-> FALSE, issued_bytes |-> 0, consumed_bytes |-> 0,
     snapshot |-> 1, cycles |-> 1, commands |-> 1, archived |-> FALSE]

MCRequests ==
    {[PlainRequest("a") EXCEPT !.archived = TRUE, !.executed = 2, !.outbox = 1],
     [PlainRequest("b") EXCEPT !.consumed = 1, !.actions = 1, !.commands = 0, !.cycles = 2],
     [PlainRequest("c") EXCEPT !.successor = TRUE, !.issued = 1, !.data = 1],
     [PlainRequest("d") EXCEPT !.executed = 3, !.outbox = 1]}

MClimits ==
    [max_issued_handoffs |-> 1, max_consumed_handoffs |-> 2, max_data_commitments |-> 5,
     max_handoff_payload_bytes |-> 1, max_outbox_messages |-> 1, max_snapshot_bytes |-> 1]

(* An audit, and replays from the genesis and from an anchor.              *)
MCTasks ==
    {[kind |-> "audit", first |-> 0, last |-> 0, anchor |-> 0],
     [kind |-> "replay", first |-> 1, last |-> 2, anchor |-> 0],
     [kind |-> "replay", first |-> 2, last |-> 3, anchor |-> 1]}

MCBudgets == {[blocks |-> 1, reads |-> 6], [blocks |-> 3, reads |-> 9]}

-----------------------------------------------------------------------------
(* What a part chooses at the beginning is fixed where another is at work. *)
MCInit ==
    /\ part \in {"evidence", "network", "reader"}
    /\ Init
    /\ Network!Init /\ (part # "network" => clients["d2"].pc = "idle")
    /\ Reader!Init /\ (part # "reader" => task.kind = "audit")

MCNext ==
    /\ \/ part = "evidence" /\ Next /\ UNCHANGED <<networkVars, readerVars>>
       \/ part = "network" /\ Network!Next /\ UNCHANGED <<vars, readerVars>>
       \/ part = "reader" /\ Reader!Next /\ UNCHANGED <<vars, networkVars>>
    /\ UNCHANGED part

(* The fairness of each part where it is at work.  Nothing the evidence    *)
(* workers owe is enabled before a message is there.                       *)
MCFairness ==
    /\ Fairness
    /\ \A s \in Senders : WF_networkVars(part = "network" /\ Network!DeliverPending(s))
    /\ WF_networkVars(part = "network" /\ Network!ApplyPending)
    /\ WF_networkVars(part = "network" /\ Network!Tick)
    /\ WF_readerVars(part = "reader" /\ \E b \in Budgets : Reader!advance(b))
    /\ WF_readerVars(part = "reader" /\ Reader!Step)

MCSpec == MCInit /\ [][MCNext]_mcvars /\ MCFairness

(* What SessionNetwork promises: a message is somewhere durable until the  *)
(* application has handled it, once and in order.                          *)
NothingLost == part = "network" => Network!NothingLost

(* What RecoveryAudit promises: the verdict of an audit or a replay is     *)
(* right, however often it was paused.                                     *)
VerdictsAreRight == Reader!VerdictsAreRight

(* What has begun ends: evidence is delivered and acknowledged, a queued   *)
(* message is handled, and a reader comes to its verdict.                  *)
NothingWaitsForever ==
    /\ EventuallyDelivered
    /\ Network!EventuallyApplied
    /\ Reader!ReadersEnd
=============================================================================
