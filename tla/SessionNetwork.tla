---------------------------- MODULE SessionNetwork ----------------------------
(***************************************************************************)
(* Durable messaging between the validators of a session.  A caller signs  *)
(* an envelope with the next sequence number of its route and queues it in *)
(* the store; a client pushes a batch of the queue over the network, one   *)
(* envelope after the other, and removes what was acknowledged; the        *)
(* receiver acknowledges once the envelope is in its own durable queue,    *)
(* and a loop there hands the queue to the application.  Answers are lost  *)
(* after the request arrived, requests arrive after their caller gave up,  *)
(* two clients work on one queue, and processes crash between any steps.   *)
(***************************************************************************)
EXTENDS Naturals, Sequences, FiniteSets, FiniteSetsExt, SequencesExt

CONSTANTS Senders,          \* validators that send to the one receiver
          peers,            \* the senders the receiver is configured with
          Callers,          \* Callers[c]: the sender caller c queues for
          Loads,            \* which callers have something to send, and which
                            \* clients run
          Clients,          \* Clients[d]: the sender whose queue client d pushes
          Drift,            \* Drift[s]: how far the clock of s is ahead
          max_future_drift, \* what the receiver tolerates
          max_message_age,  \* a hint for modules the transport does not use
          limit,            \* bound on a batch
          max_network_queue_messages,
          MAX_OUTBOUND_SEQUENCE_RETRIES,
          MaxFaults,        \* bound on timeouts, crashes and failed handlers
          MaxTime           \* bound on the clock

VARIABLES callers,   \* callers[c]: what queue_outbound is doing
          sequences, \* sequences[s]: the next outbound sequence number
          outbound,  \* the senders' durable queues
          clients,   \* clients[d]: what deliver_pending is doing
          late,      \* requests on their way nobody waits for any more
          cursor,    \* cursor[s]: next inbound sequence and the last message
          inbound,   \* the receiver's durable queue
          usage,     \* counted messages of each queue
          worker,    \* what apply_pending_inbound is doing
          applied,   \* messages the application has handled
          now, faults

vars == <<callers, sequences, outbound, clients, late, cursor, inbound, usage, worker,
          applied, now, faults>>

senderVars == <<callers, sequences, outbound>>
receiverVars == <<cursor, inbound>>

NoMessage == [sender |-> "none", sequence |-> 0, timestamp |-> 0, by |-> "none"]
Receiver == "receiver"

Idle == [pc |-> "idle", batch |-> <<>>, acknowledged |-> {}]

(* An envelope: the caller that signed it stands for its payload.          *)
Envelope(s, sequence, c) ==
    [sender |-> s, sequence |-> sequence, timestamp |-> now + Drift[s], by |-> c]

(* A durable queue in the order it is read: by sequence number, then by    *)
(* message id, which is a hash and so may put equal numbers either way.    *)
load_network_queue(queue) ==
    {SubSeq(order, 1, Min({limit, Len(order)})) : order \in
        {o \in SetToSeqs(queue) : \A i \in 1..(Len(o) - 1) : o[i].sequence <= o[i + 1].sequence}}

QueueOf(s) == {m \in outbound : m.sender = s}

Init ==
    /\ \E load \in Loads :
           /\ callers = [c \in DOMAIN Callers |->
                  [pc |-> IF c \in load.callers THEN "new" ELSE "done", sequence |-> 0, attempt |-> 0]]
           /\ clients = [d \in DOMAIN Clients |->
                  [Idle EXCEPT !.pc = IF d \in load.clients THEN "idle" ELSE "off"]]
    /\ sequences = [s \in Senders |-> 0]
    /\ outbound = {}
    /\ late = {}
    /\ cursor = [s \in Senders |-> [next |-> 0, last |-> NoMessage]]
    /\ inbound = {}
    /\ usage = [q \in Senders \union {Receiver} |-> 0]
    /\ worker = Idle
    /\ applied = {}
    /\ now = 0
    /\ faults = 0

-----------------------------------------------------------------------------
(* Queueing.  The sequence number is read first and claimed by the         *)
(* transaction that stores the signed envelope.                            *)
reserve_outbound_sequence(s) == sequences[s]

queue_outbound(c) ==
    /\ callers[c].pc = "new"
    /\ callers' = [callers EXCEPT ![c].pc = "reserved",
                                 ![c].sequence = reserve_outbound_sequence(Callers[c])]
    /\ UNCHANGED <<sequences, outbound, clients, late, receiverVars, usage, worker, applied, now, faults>>

grow_network_queue(q) == usage[q] + 1 <= max_network_queue_messages

(* A sequence number somebody else has claimed is reserved anew a few      *)
(* times, unless the claim shows only when the transaction commits: that   *)
(* error is the caller's.  So is a full queue, after which it tries again. *)
enqueue_outbound(c) ==
    LET s == Callers[c]
        claimed == callers[c].sequence # sequences[s]
        attempts == callers[c].attempt + 1
    IN  /\ callers[c].pc = "reserved"
        /\ \/ /\ ~claimed
              /\ grow_network_queue(s)
              /\ now + Drift[s] <= MaxTime
              /\ callers' = [callers EXCEPT ![c].pc = "done"]
              /\ outbound' = outbound \union {Envelope(s, callers[c].sequence, c)}
              /\ sequences' = [sequences EXCEPT ![s] = @ + 1]
              /\ usage' = [usage EXCEPT ![s] = @ + 1]
           \/ /\ claimed
              /\ \E pc \in {"new", "done"} :
                     /\ pc = "new" => attempts < MAX_OUTBOUND_SEQUENCE_RETRIES
                     /\ callers' = [callers EXCEPT ![c].attempt = attempts, ![c].pc = pc]
              /\ UNCHANGED <<sequences, outbound, usage>>
           \/ /\ ~claimed
              /\ ~grow_network_queue(s)
              /\ callers' = [callers EXCEPT ![c] = [pc |-> "new", sequence |-> 0, attempt |-> 0]]
              /\ UNCHANGED <<sequences, outbound, usage>>
        /\ UNCHANGED <<clients, late, receiverVars, worker, applied, now, faults>>

-----------------------------------------------------------------------------
(* Pushing.                                                                *)
pending_outbound(d) ==
    /\ clients[d].pc = "idle"
    /\ QueueOf(Clients[d]) # {}
    /\ \E batch \in load_network_queue(QueueOf(Clients[d])) :
           clients' = [clients EXCEPT ![d] = [Idle EXCEPT !.pc = "push", !.batch = batch]]
    /\ UNCHANGED <<senderVars, late, receiverVars, usage, worker, applied, now, faults>>

(* The answer of one push: the batch goes on, or ends with what it has.    *)
Answered(d, ok) ==
    IF ok THEN [clients EXCEPT ![d].batch = Tail(@),
                               ![d].acknowledged = @ \union {Head(clients[d].batch)}]
    ELSE [clients EXCEPT ![d].batch = <<>>]

(* Authentication.  An envelope that comes from the future is refused, one *)
(* that waited long in an offline sender's queue is not.                   *)
verify(m) ==
    /\ m.sender \in peers
    /\ m.timestamp <= now + max_future_drift

(* A broken form of InboundAnswer: what was taken before is fresh again.   *)
InboundAnswerAnew(m) ==
    CASE m.sequence > cursor[m.sender].next -> "Conflict"
      [] ~grow_network_queue(Receiver) -> "ResourceLimit"
      [] OTHER -> "Enqueued"

(* The replay check: what is before the cursor was here already, another   *)
(* message with the last one's number is a conflict, and so is a gap.      *)
InboundAnswer(m) ==
    LET next == cursor[m.sender].next
    IN  CASE m.sequence < next /\ m # cursor[m.sender].last /\ m.sequence + 1 = next -> "Conflict"
          [] m.sequence < next -> "Duplicate"
          [] m.sequence > next -> "Conflict"
          [] ~grow_network_queue(Receiver) -> "ResourceLimit"
          [] OTHER -> "Enqueued"

(* The receiver's push handler: it answers after its transaction.          *)
Answer(m) == IF verify(m) THEN InboundAnswer(m) ELSE "Unauthorized"

enqueue_inbound(m) ==
    IF Answer(m) = "Enqueued"
    THEN /\ cursor' = [cursor EXCEPT ![m.sender] = [next |-> m.sequence + 1, last |-> m]]
         /\ inbound' = inbound \union {m}
         /\ usage' = [usage EXCEPT ![Receiver] = @ + 1]
    ELSE UNCHANGED <<cursor, inbound, usage>>

(* A push arrives and its answer returns.                                  *)
push(d) ==
    /\ clients[d].pc = "push"
    /\ clients[d].batch # <<>>
    /\ enqueue_inbound(Head(clients[d].batch))
    /\ clients' = Answered(d, Answer(Head(clients[d].batch)) \in {"Enqueued", "Duplicate"})
    /\ UNCHANGED <<senderVars, late, worker, applied, now, faults>>

(* The connection breaks under a push.  The request has arrived and its    *)
(* answer is lost, or it is still to arrive, or it never does.             *)
PushFails(d) ==
    /\ clients[d].pc = "push"
    /\ clients[d].batch # <<>>
    /\ faults < MaxFaults
    /\ faults' = faults + 1
    /\ clients' = Answered(d, FALSE)
    /\ \/ enqueue_inbound(Head(clients[d].batch)) /\ UNCHANGED late
       \/ late' = late \union {Head(clients[d].batch)} /\ UNCHANGED <<receiverVars, usage>>
       \/ UNCHANGED <<late, receiverVars, usage>>
    /\ UNCHANGED <<senderVars, worker, applied, now>>

ArrivesLate(m) ==
    /\ late' = late \ {m}
    /\ enqueue_inbound(m)
    /\ UNCHANGED <<senderVars, clients, worker, applied, now, faults>>

(* One transaction removes the whole batch and counts it off, or nothing   *)
(* when somebody else has removed some of it already.                      *)
acknowledge_network_messages(queue, gone, q) ==
    LET all == gone \subseteq queue
    IN  [queue |-> IF all THEN queue \ gone ELSE queue,
         usage |-> IF all THEN [usage EXCEPT ![q] = @ - Cardinality(gone)] ELSE usage]

acknowledge_outbound_batch(d) ==
    LET after == acknowledge_network_messages(outbound, clients[d].acknowledged, Clients[d])
    IN  /\ clients[d].pc = "push"
        /\ clients[d].batch = <<>>
        /\ outbound' = after.queue
        /\ usage' = after.usage
        /\ clients' = [clients EXCEPT ![d] = Idle]
        /\ UNCHANGED <<callers, sequences, late, receiverVars, worker, applied, now, faults>>

-----------------------------------------------------------------------------
(* Applying, on the receiver.                                              *)
pending_inbound ==
    /\ worker.pc = "idle"
    /\ inbound # {}
    /\ \E batch \in load_network_queue(inbound) :
           worker' = [Idle EXCEPT !.pc = "apply", !.batch = batch]
    /\ UNCHANGED <<senderVars, clients, late, receiverVars, usage, applied, now, faults>>

(* The handler succeeds, or fails and ends the batch.                      *)
apply ==
    /\ worker.pc = "apply"
    /\ worker.batch # <<>>
    /\ \/ /\ applied' = applied \union {Head(worker.batch)}
          /\ worker' = [worker EXCEPT !.batch = Tail(@), !.acknowledged = @ \union {Head(worker.batch)}]
          /\ UNCHANGED faults
       \/ /\ faults < MaxFaults
          /\ faults' = faults + 1
          /\ worker' = [worker EXCEPT !.batch = <<>>]
          /\ UNCHANGED applied
    /\ UNCHANGED <<senderVars, clients, late, receiverVars, usage, now>>

acknowledge_inbound_batch ==
    LET after == acknowledge_network_messages(inbound, worker.acknowledged, Receiver)
    IN  /\ worker.pc = "apply"
        /\ worker.batch = <<>>
        /\ inbound' = after.queue
        /\ usage' = after.usage
        /\ worker' = Idle
        /\ UNCHANGED <<senderVars, clients, late, cursor, applied, now, faults>>

(* A process restarts with its durable queues.                             *)
CrashSender(s) ==
    /\ faults < MaxFaults
    /\ faults' = faults + 1
    /\ callers' = [c \in DOMAIN Callers |->
           IF Callers[c] = s /\ callers[c].pc = "reserved"
           THEN [pc |-> "new", sequence |-> 0, attempt |-> 0] ELSE callers[c]]
    /\ clients' = [d \in DOMAIN Clients |-> 
           IF Clients[d] = s /\ clients[d].pc = "push" THEN Idle ELSE clients[d]]
    /\ \E requests \in SUBSET {Head(clients[d].batch) : d \in {d \in DOMAIN Clients :
                                    Clients[d] = s /\ clients[d].batch # <<>>}} :
           late' = late \union requests
    /\ UNCHANGED <<sequences, outbound, receiverVars, usage, worker, applied, now>>

CrashReceiver ==
    /\ faults < MaxFaults
    /\ faults' = faults + 1
    /\ worker.pc # "idle"
    /\ worker' = Idle
    /\ UNCHANGED <<senderVars, clients, late, receiverVars, usage, applied, now>>

Tick ==
    /\ now < MaxTime
    /\ now' = now + 1
    /\ UNCHANGED <<senderVars, clients, late, receiverVars, usage, worker, applied, faults>>

Next ==
    \/ \E c \in DOMAIN Callers : queue_outbound(c) \/ enqueue_outbound(c)
    \/ \E d \in DOMAIN Clients :
           pending_outbound(d) \/ push(d) \/ PushFails(d) \/ acknowledge_outbound_batch(d)
    \/ \E m \in late : ArrivesLate(m)
    \/ pending_inbound \/ apply \/ acknowledge_inbound_batch
    \/ \E s \in Senders : CrashSender(s)
    \/ CrashReceiver
    \/ Tick

(* The loops around the library calls run for ever: deliver_pending on     *)
(* each sender, apply_pending_inbound on the receiver.                     *)
DeliverPending(s) ==
    \E d \in DOMAIN Clients :
        Clients[d] = s /\ (pending_outbound(d) \/ push(d) \/ acknowledge_outbound_batch(d))

ApplyPending == pending_inbound \/ apply \/ acknowledge_inbound_batch

Spec == Init /\ [][Next]_vars

-----------------------------------------------------------------------------
(* The messages of a sender the receiver has taken: all up to its cursor.  *)
Unreceived(m) == m.sequence >= cursor[m.sender].next

(* A message is somewhere durable until the application has handled it,    *)
(* once and in order.  Every sequence number a sender has used and the     *)
(* receiver has not is still in the sender's queue, exactly once; the      *)
(* receiver's queue holds what it took and has not handled; an application *)
(* has handled a message only after all earlier ones of that sender; and   *)
(* the counted sizes are those of the queues.  Two clients on one queue,   *)
(* lost answers, late requests and crashes do not matter.                  *)
NothingLost ==
    /\ \A s \in Senders :
           /\ {m.sequence : m \in {m \in QueueOf(s) : Unreceived(m)}} =
                  cursor[s].next..(sequences[s] - 1)
           /\ {m.sequence : m \in {m \in inbound \union applied : m.sender = s}} =
                  0..(cursor[s].next - 1)
           /\ Cardinality(QueueOf(s)) = usage[s]
    /\ \A m, n \in inbound \union applied \union outbound :
           m.sender = n.sender /\ m.sequence = n.sequence => m = n
    /\ \A m \in applied, n \in inbound \ applied :
           m.sender = n.sender => m.sequence < n.sequence
    /\ Cardinality(inbound) = usage[Receiver]
    /\ \A q \in DOMAIN usage : usage[q] <= max_network_queue_messages

(* What was queued is handled in the end, however long the sender was      *)
(* offline or ahead of the receiver's clock: time and again every sequence *)
(* number a sender has used is that of a message the application handled.  *)
EventuallyApplied ==
    []<>(\A s \in Senders : \A n \in 0..(sequences[s] - 1) :
             \E m \in applied : m.sender = s /\ m.sequence = n)
=============================================================================
