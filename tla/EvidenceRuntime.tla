-------------------------- MODULE EvidenceRuntime --------------------------
(***************************************************************************)
(* The evidence worker of a session host.  Workers poll the outbox, load   *)
(* the receipts of a message, collect and verify the next stage's evidence *)
(* outside the store, and append it with a compare-and-set on the revision *)
(* they had loaded.  The message is acknowledged once its last stage is    *)
(* durable.  Several workers may run, and a worker may die at any await.   *)
(***************************************************************************)
EXTENDS Naturals, Sequences, FiniteSets, TLAPS

CONSTANTS Workers,      \* evidence workers on the same store
          N,            \* messages the session will emit, in outbox order
          Registered,   \* the messages whose topic has an adapter
          Stages,       \* the stages of every pipeline
          Limit,        \* the batch limit of advance_pending
          MaxCrashes    \* bound on worker restarts

Messages == 1..N

ASSUME PipelineAssumption ==
    /\ N \in Nat /\ Stages \in Nat /\ MaxCrashes \in Nat
    /\ Registered \subseteq Messages

VARIABLES
    emitted,    \* how many messages blocks have committed so far
    pending,    \* the outbox: messages not acknowledged
    receipts,   \* receipts[m]: the durable evidence record of m
    worker,     \* worker[w]: where its advance_pending stands
    crashes

vars == <<emitted, pending, receipts, worker, crashes>>

(* Who collected a stage, and the place of the receipt it links to. *)
Receipt == [by: Workers, previous: 0..Stages]

(* The delivery a worker is at, those of its batch still to come, and the  *)
(* record it loaded.                                                       *)
Idle == [at |-> "idle", delivery |-> 0, todo |-> {}, read |-> <<>>]

Init ==
    /\ emitted = 0
    /\ pending = {}
    /\ receipts = [m \in Messages |-> <<>>]
    /\ worker = [w \in Workers |-> Idle]
    /\ crashes = 0

(* A block is committed with its outbox message. *)
Emit ==
    /\ emitted < N
    /\ emitted' = emitted + 1
    /\ pending' = pending \cup {emitted'}
    /\ UNCHANGED <<receipts, worker, crashes>>

(* The consumer of an unrelated topic acknowledges its own message. *)
AcknowledgeOther(m) ==
    /\ m \in pending \ Registered
    /\ pending' = pending \ {m}
    /\ UNCHANGED <<emitted, receipts, worker, crashes>>

(* The oldest messages of the outbox, as many as the batch limit.          *)
pending_outbox == {m \in pending : Cardinality({k \in pending : k <= m}) <= Limit}

(* A broken form of is_complete: the last stage is not waited for. *)
is_nearly_complete(record) == Len(record) + 1 >= Stages

is_complete(record) == Len(record) = Stages

(* The worker turns to the oldest of the deliveries it has to do. *)
Deliver(w, todo) ==
    \E m \in todo :
        /\ \A k \in todo : m <= k
        /\ worker' = [worker EXCEPT ![w] =
               [at |-> "load", delivery |-> m, todo |-> todo \ {m}, read |-> <<>>]]

(* One batch: the deliveries of registered topics among the first ones. *)
advance_pending(w) ==
    /\ worker[w].at = "idle"
    /\ Deliver(w, pending_outbox \cap Registered)
    /\ UNCHANGED <<emitted, pending, receipts, crashes>>

(* A failing delivery ends the batch; the next poll starts over. *)
Abort(w) == worker' = [worker EXCEPT ![w] = Idle]

(* The worker goes on with the next delivery, or the batch is over. *)
Proceed(w) ==
    IF worker[w].todo = {} THEN Abort(w) ELSE Deliver(w, worker[w].todo)

(* A broken form of load_evidence: a complete record counts as delivered. *)
load_evidence_skipping(w) ==
    LET m == worker[w].delivery IN
    /\ worker[w].at = "load"
    /\ IF is_complete(receipts[m]) THEN Proceed(w)
       ELSE worker' = [worker EXCEPT ![w].at = "collect", ![w].read = receipts[m]]
    /\ UNCHANGED <<emitted, pending, receipts, crashes>>

(* A complete record is only acknowledged again, as after a crash. *)
load_evidence(w) ==
    LET m == worker[w].delivery IN
    /\ worker[w].at = "load"
    /\ worker' = [worker EXCEPT
          ![w].at = IF is_complete(receipts[m]) THEN "ack" ELSE "collect",
          ![w].read = receipts[m]]
    /\ UNCHANGED <<emitted, pending, receipts, crashes>>

(* The external producer answers and the local verifier agrees... *)
CollectVerified(w) ==
    /\ worker[w].at = "collect"
    /\ worker' = [worker EXCEPT ![w].at = "append"]
    /\ UNCHANGED <<emitted, pending, receipts, crashes>>

(* ... or one of them does not. *)
CollectFails(w) ==
    /\ worker[w].at = "collect"
    /\ Abort(w)
    /\ UNCHANGED <<emitted, pending, receipts, crashes>>

(* The record built on the loaded one: the new receipt links to the last. *)
append(w) == Append(worker[w].read, [by |-> w, previous |-> Len(worker[w].read)])

(* A broken form of AppendAllowed: the revision is not compared. *)
AppendAllowedIfPending(w) == worker[w].delivery \in pending

(* The message is still pending and its revision is the one loaded;        *)
(* revisions count receipts.                                               *)
AppendAllowed(w) ==
    LET m == worker[w].delivery IN
    m \in pending /\ Len(receipts[m]) = Len(worker[w].read)

compare_and_set_evidence(w) ==
    LET m == worker[w].delivery IN
    /\ worker[w].at = "append"
    /\ \/ /\ AppendAllowed(w)
          /\ receipts' = [receipts EXCEPT ![m] = append(w)]
          /\ IF is_complete(append(w))
             THEN worker' = [worker EXCEPT ![w].at = "ack"]
             ELSE Proceed(w)
       \/ /\ ~AppendAllowed(w)
          /\ Abort(w)
          /\ UNCHANGED receipts
    /\ UNCHANGED <<emitted, pending, crashes>>

(* Acknowledging a message that is gone is an error and ends the batch. *)
acknowledge_outbox(w) ==
    LET m == worker[w].delivery IN
    /\ worker[w].at = "ack"
    /\ pending' = pending \ {m}
    /\ IF m \in pending THEN Proceed(w) ELSE Abort(w)
    /\ UNCHANGED <<emitted, receipts, crashes>>

(* The process dies between two durable steps and is started again. *)
Crash(w) ==
    /\ crashes < MaxCrashes
    /\ worker[w] # Idle
    /\ Abort(w)
    /\ crashes' = crashes + 1
    /\ UNCHANGED <<emitted, pending, receipts>>

Step(w) ==
    \/ advance_pending(w)
    \/ load_evidence(w)
    \/ CollectVerified(w)
    \/ compare_and_set_evidence(w)
    \/ acknowledge_outbox(w)

Next ==
    \/ Emit
    \/ \E m \in Messages : AcknowledgeOther(m)
    \/ \E w \in Workers : Step(w) \/ CollectFails(w) \/ Crash(w)

(* The consumers of other topics do their work, workers keep polling, and  *)
(* a producer that is asked for the same message again and again answers.  *)
Fairness ==
    /\ \A m \in Messages : WF_vars(AcknowledgeOther(m))
    /\ \A w \in Workers : WF_vars(Step(w))
    /\ \A m \in Registered :
          SF_vars(\E w \in Workers : worker[w].delivery = m /\ CollectVerified(w))

Spec == Init /\ [][Next]_vars /\ Fairness

-----------------------------------------------------------------------------
(* Properties. *)

WorkerState == [at: {"idle", "load", "collect", "append", "ack"}, delivery: 0..N,
                todo: SUBSET Registered, read: Seq(Receipt)]

TypeOK ==
    /\ emitted \in 0..N
    /\ pending \subseteq 1..emitted
    /\ receipts \in [Messages -> Seq(Receipt)]
    /\ worker \in [Workers -> WorkerState]
    /\ crashes \in 0..MaxCrashes

(* A message leaves the outbox only when the record of its last stage is   *)
(* durable: acknowledge_outbox follows is_complete on a stored record, for *)
(* the worker that appended it and for one that resumes after a crash.     *)
AcknowledgedIsComplete ==
    /\ TypeOK
    /\ \A m \in Registered : m \in (1..emitted) \ pending => Len(receipts[m]) = Stages

(* The durable record only ever grows by one receipt that links to the     *)
(* receipt before it, and never after it is complete or acknowledged:      *)
(* workers that collected the same stage do not replace or promote it      *)
(* (compare_and_set_evidence and EvidenceRecord::append).                  *)
OneStageAtATime ==
    [][\A m \in Messages :
          receipts'[m] # receipts[m] =>
              /\ m \in pending
              /\ Len(receipts[m]) < Stages
              /\ \E r \in Receipt : /\ r.previous = Len(receipts[m])
                                    /\ receipts'[m] = Append(receipts[m], r)]_vars

(* Every message of a registered topic is eventually acknowledged, also    *)
(* when one worker dies between the last receipt and the acknowledgement,  *)
(* when workers race for a stage, and when another delivery of the batch   *)
(* keeps failing for a while (advance_pending, advance_delivery).          *)
EventuallyDelivered ==
    \A m \in Registered : []<>(m \notin pending)

-----------------------------------------------------------------------------
(* Proofs, for any workers, messages, stages and crashes.                  *)

(* What a worker read is an initial part of the durable record.            *)
ReadBefore(read, record) ==
    /\ Len(read) <= Len(record)
    /\ \A i \in 1..Len(read) : read[i] = record[i]

(* At each await of a delivery, what the worker knows of the record: the   *)
(* record it read is unfinished and others can only have added to it, and  *)
(* a record it is to acknowledge is complete.                              *)
Knows(state, records) ==
    /\ state.at # "idle" => state.delivery \in Registered
    /\ state.at \in {"collect", "append"} =>
          /\ Len(state.read) < Stages
          /\ ReadBefore(state.read, records[state.delivery])
    /\ state.at = "ack" => Len(records[state.delivery]) = Stages

WorkersKnow == \A w \in Workers : Knows(worker[w], receipts)

RecordsBounded == \A m \in Messages : Len(receipts[m]) <= Stages

IInv == AcknowledgedIsComplete /\ WorkersKnow /\ RecordsBounded

LEMMA DeliveryType == \A m \in Registered : m \in 0..N
BY PipelineAssumption DEF Messages

(* Where a worker can be after a delivery.                                 *)
LEMMA ProceedType ==
    ASSUME TypeOK, NEW w \in Workers, Proceed(w) \/ Abort(w)
    PROVE  /\ worker' \in [Workers -> WorkerState]
           /\ \A v \in Workers \ {w} : worker'[v] = worker[v]
           /\ worker'[w].at \in {"idle", "load"}
           /\ worker'[w].at # "idle" => worker'[w].delivery \in Registered
<1>1. CASE Abort(w)
  <2>1. Idle \in WorkerState
    BY PipelineAssumption DEF Idle, WorkerState
  <2> QED
    BY <1>1, <2>1 DEF Abort, TypeOK, Idle
<1>2. CASE worker[w].todo # {} /\ Deliver(w, worker[w].todo)
  <2>1. worker[w] \in WorkerState
    BY DEF TypeOK
  <2>2. PICK m \in worker[w].todo : worker' = [worker EXCEPT ![w] =
               [at |-> "load", delivery |-> m, todo |-> worker[w].todo \ {m}, read |-> <<>>]]
    BY ZenonT(30), <1>2 DEF Deliver
  <2>3. m \in Registered /\ m \in 0..N /\ worker[w].todo \ {m} \in SUBSET Registered
    <3>1. worker[w].todo \in SUBSET Registered
      BY <2>1 DEF WorkerState
    <3> QED
      BY <3>1, DeliveryType, Zenon
  <2>4. [at |-> "load", delivery |-> m, todo |-> worker[w].todo \ {m}, read |-> <<>>] \in WorkerState
    BY <2>3 DEF WorkerState
  <2> QED
    BY <2>2, <2>3, <2>4 DEF TypeOK
<1> QED
  BY <1>1, <1>2 DEF Proceed

(* A worker that turns to a delivery, or gives up, knows nothing yet.      *)
LEMMA KnowsNothing ==
    ASSUME NEW state, state.at \in {"idle", "load"},
           state.at # "idle" => state.delivery \in Registered, NEW records
    PROVE  Knows(state, records)
BY DEF Knows

(* A step that moves one worker and leaves the store alone.                *)
LEMMA WorkerMoves ==
    ASSUME IInv, NEW w \in Workers,
           worker' \in [Workers -> WorkerState],
           \A v \in Workers \ {w} : worker'[v] = worker[v],
           Knows(worker'[w], receipts),
           UNCHANGED <<emitted, pending, receipts>>, crashes' \in 0..MaxCrashes
    PROVE  IInv'
<1>1. TypeOK'
  BY DEF IInv, AcknowledgedIsComplete, TypeOK
<1>2. AcknowledgedIsComplete'
  BY <1>1 DEF IInv, AcknowledgedIsComplete
<1>3. WorkersKnow'
  BY DEF IInv, WorkersKnow
<1>4. RecordsBounded'
  BY DEF IInv, RecordsBounded
<1> QED
  BY <1>2, <1>3, <1>4 DEF IInv

(* A worker's next place within its delivery.                              *)
LEMMA PlaceType ==
    ASSUME TypeOK, NEW w \in Workers, NEW at \in {"collect", "append", "ack"},
           NEW read \in Seq(Receipt),
           worker' = [worker EXCEPT ![w].at = at, ![w].read = read]
    PROVE  /\ worker' \in [Workers -> WorkerState]
           /\ \A v \in Workers \ {w} : worker'[v] = worker[v]
           /\ worker'[w].at = at
           /\ worker'[w].read = read
           /\ worker'[w].delivery = worker[w].delivery
<1>1. worker \in [Workers -> WorkerState]
  BY DEF TypeOK
<1>2. [worker[w] EXCEPT !.at = at, !.read = read] \in WorkerState
  BY ZenonT(30), <1>1 DEF WorkerState
<1>3. worker' = [worker EXCEPT ![w] = [worker[w] EXCEPT !.at = at, !.read = read]]
  BY ZenonT(30), <1>1
<1> QED
  BY <1>1, <1>2, <1>3 DEF WorkerState

(* The same when the worker keeps what it read.                            *)
LEMMA PlaceKept ==
    ASSUME TypeOK, NEW w \in Workers, NEW at \in {"append", "ack"},
           worker' = [worker EXCEPT ![w].at = at]
    PROVE  /\ worker' \in [Workers -> WorkerState]
           /\ \A v \in Workers \ {w} : worker'[v] = worker[v]
           /\ worker'[w].at = at
           /\ worker'[w].read = worker[w].read
           /\ worker'[w].delivery = worker[w].delivery
<1>1. worker \in [Workers -> WorkerState]
  BY DEF TypeOK
<1>2. [worker[w] EXCEPT !.at = at] \in WorkerState
  BY ZenonT(30), <1>1 DEF WorkerState
<1>3. worker' = [worker EXCEPT ![w] = [worker[w] EXCEPT !.at = at]]
  BY <1>1
<1>4. /\ worker' \in [Workers -> WorkerState]
      /\ \A v \in Workers \ {w} : worker'[v] = worker[v]
      /\ worker'[w] = [worker[w] EXCEPT !.at = at]
  BY ZenonT(30), <1>1, <1>2, <1>3
<1>5. worker[w] \in WorkerState
  BY <1>1
<1> QED
  BY ZenonT(30), <1>4, <1>5 DEF WorkerState

(* A compare-and-set that succeeds appends to the very record it read.     *)
LEMMA AppendsOne ==
    ASSUME IInv, NEW w \in Workers, worker[w].at = "append", AppendAllowed(w),
           receipts' = [receipts EXCEPT ![worker[w].delivery] = append(w)]
    PROVE  LET m == worker[w].delivery
               r == [by |-> w, previous |-> Len(receipts[m])]
           IN  /\ m \in Registered /\ m \in Messages /\ m \in pending
               /\ r \in Receipt
               /\ Len(receipts[m]) < Stages
               /\ append(w) = Append(receipts[m], r)
               /\ receipts' = [receipts EXCEPT ![m] = Append(receipts[m], r)]
<1> DEFINE m == worker[w].delivery
           r == [by |-> w, previous |-> Len(receipts[m])]
<1>1. /\ m \in Registered /\ m \in Messages /\ m \in pending
      /\ Len(worker[w].read) < Stages
      /\ ReadBefore(worker[w].read, receipts[m])
      /\ Len(receipts[m]) = Len(worker[w].read)
  BY PipelineAssumption DEF IInv, WorkersKnow, Knows, AppendAllowed
<1>2. receipts[m] \in Seq(Receipt) /\ worker[w].read \in Seq(Receipt)
  BY <1>1 DEF IInv, AcknowledgedIsComplete, TypeOK, WorkerState
<1>3. worker[w].read = receipts[m]
  BY SMTT(30), <1>1, <1>2 DEF ReadBefore
<1>4. r \in Receipt
  BY <1>1, <1>2, PipelineAssumption DEF Receipt
<1> QED
  BY <1>1, <1>3, <1>4 DEF append

(* One more receipt keeps what every worker knows.                         *)
LEMMA AppendKeepsKnown ==
    ASSUME IInv, NEW m \in Messages, NEW r \in Receipt, Len(receipts[m]) < Stages,
           receipts' = [receipts EXCEPT ![m] = Append(receipts[m], r)]
    PROVE  /\ receipts' \in [Messages -> Seq(Receipt)]
           /\ \A k \in Messages : Len(receipts'[k]) <= Stages
           /\ \A k \in Messages : Len(receipts[k]) = Stages => receipts'[k] = receipts[k]
           /\ Len(receipts'[m]) = Len(receipts[m]) + 1
           /\ \A v \in Workers : Knows(worker[v], receipts')
<1>1. receipts \in [Messages -> Seq(Receipt)] /\ worker \in [Workers -> WorkerState]
  BY DEF IInv, AcknowledgedIsComplete, TypeOK
<1>2. receipts[m] \in Seq(Receipt) /\ Len(receipts[m]) \in Nat
  BY <1>1
<1>3. /\ Append(receipts[m], r) \in Seq(Receipt)
      /\ Len(Append(receipts[m], r)) = Len(receipts[m]) + 1
      /\ \A i \in 1..Len(receipts[m]) : Append(receipts[m], r)[i] = receipts[m][i]
  BY <1>2
<1>4. receipts' \in [Messages -> Seq(Receipt)]
  BY <1>1, <1>3
<1>5. \A k \in Messages : Len(receipts'[k]) <= Stages
  BY <1>1, <1>2, <1>3, PipelineAssumption DEF IInv, RecordsBounded
<1>6. \A k \in Messages : Len(receipts[k]) = Stages => receipts'[k] = receipts[k]
  BY <1>1
<1>7. Len(receipts'[m]) = Len(receipts[m]) + 1
  BY <1>1, <1>3
<1>8. ASSUME NEW v \in Workers PROVE Knows(worker[v], receipts')
  <2> DEFINE k == worker[v].delivery
  <2>1. Knows(worker[v], receipts) /\ worker[v] \in WorkerState
    BY <1>1 DEF IInv, WorkersKnow
  <2>2. CASE worker[v].at \in {"collect", "append"}
    <3>1. k \in Messages /\ Len(worker[v].read) < Stages /\ ReadBefore(worker[v].read, receipts[k])
      BY <2>1, <2>2, PipelineAssumption DEF Knows
    <3>2. worker[v].read \in Seq(Receipt) /\ Len(worker[v].read) \in Nat
      BY <2>1 DEF WorkerState
    <3>3. ReadBefore(worker[v].read, receipts'[k])
      BY <1>1, <1>2, <1>3, <3>1, <3>2 DEF ReadBefore
    <3> QED
      BY <2>1, <2>2, <3>1, <3>3 DEF Knows
  <2>3. CASE worker[v].at = "ack"
    BY <1>6, <2>1, <2>3, PipelineAssumption DEF Knows
  <2>4. CASE worker[v].at \in {"idle", "load"}
    BY <2>1, <2>4 DEF Knows
  <2> QED
    BY <2>1, <2>2, <2>3, <2>4 DEF WorkerState
<1> QED
  BY ZenonT(30), <1>4, <1>5, <1>6, <1>7, <1>8

LEMMA IInvInit == Init => IInv
<1> SUFFICES ASSUME Init PROVE IInv
  OBVIOUS
<1>1. Idle \in WorkerState
  BY PipelineAssumption DEF Idle, WorkerState
<1>2. TypeOK
  BY <1>1, PipelineAssumption DEF Init, TypeOK
<1>3. WorkersKnow
  BY DEF Init, WorkersKnow, Knows, Idle
<1> QED
  BY <1>2, <1>3, PipelineAssumption DEF Init, IInv, AcknowledgedIsComplete, RecordsBounded

LEMMA IInvStep == IInv /\ [Next]_vars => IInv'
<1> SUFFICES ASSUME IInv, [Next]_vars PROVE IInv'
  OBVIOUS
<1>t. TypeOK /\ AcknowledgedIsComplete /\ WorkersKnow /\ RecordsBounded
  BY DEF IInv, AcknowledgedIsComplete
<1>1. CASE Emit
  <2>1. /\ emitted' = emitted + 1 /\ emitted' \in 0..N
        /\ pending' = pending \cup {emitted'} /\ pending' \subseteq 1..emitted'
        /\ UNCHANGED <<receipts, worker, crashes>>
    BY <1>1, <1>t, PipelineAssumption DEF Emit, TypeOK
  <2>2. (1..emitted') \ pending' \subseteq (1..emitted) \ pending
    BY <1>t, <2>1 DEF TypeOK
  <2> QED
    BY <1>t, <2>1, <2>2
       DEF IInv, TypeOK, AcknowledgedIsComplete, WorkersKnow, RecordsBounded
<1>2. ASSUME NEW m \in Messages, AcknowledgeOther(m) PROVE IInv'
  BY <1>2, <1>t DEF AcknowledgeOther, IInv, TypeOK, AcknowledgedIsComplete, WorkersKnow,
                    RecordsBounded
<1>3. ASSUME NEW w \in Workers, advance_pending(w) PROVE IInv'
  <2>1. PICK m \in pending_outbox \cap Registered : worker' = [worker EXCEPT ![w] =
               [at |-> "load", delivery |-> m,
                todo |-> (pending_outbox \cap Registered) \ {m}, read |-> <<>>]]
    BY ZenonT(30), <1>3 DEF advance_pending, Deliver
  <2>2. m \in 0..N /\ (pending_outbox \cap Registered) \ {m} \in SUBSET Registered
    BY DeliveryType, Zenon
  <2>3. [at |-> "load", delivery |-> m, todo |-> (pending_outbox \cap Registered) \ {m},
         read |-> <<>>] \in WorkerState
    BY <2>2 DEF WorkerState
  <2>4. /\ worker' \in [Workers -> WorkerState]
        /\ \A v \in Workers \ {w} : worker'[v] = worker[v]
        /\ worker'[w].at = "load" /\ worker'[w].delivery = m
    BY <1>t, <2>1, <2>3 DEF TypeOK
  <2>5. Knows(worker'[w], receipts)
    BY <2>4, KnowsNothing
  <2> QED
    BY <1>3, <1>t, <2>4, <2>5, WorkerMoves DEF advance_pending, TypeOK
<1>4. ASSUME NEW w \in Workers, load_evidence(w) PROVE IInv'
  <2> DEFINE m == worker[w].delivery
             at == IF is_complete(receipts[m]) THEN "ack" ELSE "collect"
  <2>1. m \in Registered /\ m \in Messages
    BY <1>4, <1>t, PipelineAssumption DEF load_evidence, WorkersKnow, Knows
  <2>2. receipts[m] \in Seq(Receipt) /\ Len(receipts[m]) \in Nat /\ Len(receipts[m]) <= Stages
    BY <1>t, <2>1 DEF TypeOK, RecordsBounded
  <2>3. at \in {"collect", "append", "ack"} /\ worker' = [worker EXCEPT ![w].at = at, ![w].read = receipts[m]]
    BY <1>4 DEF load_evidence
  <2> HIDE DEF at
  <2>4. /\ worker' \in [Workers -> WorkerState]
        /\ \A v \in Workers \ {w} : worker'[v] = worker[v]
        /\ worker'[w].at = at
        /\ worker'[w].read = receipts[m]
        /\ worker'[w].delivery = m
    BY ZenonT(30), <1>t, <2>2, <2>3, PlaceType
  <2>5. Knows(worker'[w], receipts)
    BY <2>1, <2>2, <2>4, PipelineAssumption DEF Knows, ReadBefore, is_complete, at
  <2> QED
    BY <1>4, <1>t, <2>4, <2>5, WorkerMoves DEF load_evidence, TypeOK
<1>5. ASSUME NEW w \in Workers, CollectVerified(w) PROVE IInv'
  <2>1. /\ worker' \in [Workers -> WorkerState]
        /\ \A v \in Workers \ {w} : worker'[v] = worker[v]
        /\ worker'[w].at = "append"
        /\ worker'[w].read = worker[w].read
        /\ worker'[w].delivery = worker[w].delivery
    BY ZenonT(30), <1>5, <1>t, PlaceKept DEF CollectVerified
  <2>2. Knows(worker'[w], receipts)
    BY <1>5, <1>t, <2>1 DEF CollectVerified, WorkersKnow, Knows
  <2> QED
    BY <1>5, <1>t, <2>1, <2>2, WorkerMoves DEF CollectVerified, TypeOK
<1>6. ASSUME NEW w \in Workers, Abort(w), UNCHANGED <<emitted, pending, receipts>>,
             crashes' \in 0..MaxCrashes
      PROVE  IInv'
  BY <1>6, <1>t, ProceedType, KnowsNothing, WorkerMoves
<1>7. ASSUME NEW w \in Workers, compare_and_set_evidence(w) PROVE IInv'
  <2>1. CASE ~AppendAllowed(w)
    BY <1>6, <1>7, <1>t, <2>1 DEF compare_and_set_evidence, TypeOK
  <2>2. CASE AppendAllowed(w)
    <3> DEFINE m == worker[w].delivery
               r == [by |-> w, previous |-> Len(receipts[m])]
    <3>1. /\ worker[w].at = "append"
          /\ receipts' = [receipts EXCEPT ![m] = append(w)]
          /\ \/ is_complete(append(w)) /\ worker' = [worker EXCEPT ![w].at = "ack"]
             \/ Proceed(w)
          /\ UNCHANGED <<emitted, pending, crashes>>
      BY SMTT(30), <1>7, <2>2 DEF compare_and_set_evidence
    <3>2. /\ m \in Registered /\ m \in Messages /\ m \in pending
          /\ r \in Receipt
          /\ Len(receipts[m]) < Stages
          /\ append(w) = Append(receipts[m], r)
          /\ receipts' = [receipts EXCEPT ![m] = Append(receipts[m], r)]
      BY ZenonT(30), <2>2, <3>1, AppendsOne
    <3> HIDE DEF m, r
    <3>3. /\ receipts' \in [Messages -> Seq(Receipt)]
          /\ \A k \in Messages : Len(receipts'[k]) <= Stages
          /\ \A k \in Messages : Len(receipts[k]) = Stages => receipts'[k] = receipts[k]
          /\ \A v \in Workers : Knows(worker[v], receipts')
      BY ZenonT(30), <3>2, AppendKeepsKnown
    <3>4. /\ worker' \in [Workers -> WorkerState]
          /\ \A v \in Workers \ {w} : worker'[v] = worker[v]
          /\ Knows(worker'[w], receipts')
      <4>1. CASE is_complete(append(w)) /\ worker' = [worker EXCEPT ![w].at = "ack"]
        <5>1. /\ worker' \in [Workers -> WorkerState]
              /\ \A v \in Workers \ {w} : worker'[v] = worker[v]
              /\ worker'[w].at = "ack"
              /\ worker'[w].delivery = m
          BY ZenonT(30), <1>t, <4>1, PlaceKept DEF m
        <5>2. receipts'[m] = append(w)
          BY <1>t, <3>2 DEF TypeOK
        <5>3. Len(receipts'[m]) = Stages
          BY <4>1, <5>2 DEF is_complete
        <5> QED
          BY <3>2, <5>1, <5>3 DEF Knows
      <4>2. CASE Proceed(w)
        <5>1. /\ worker' \in [Workers -> WorkerState]
              /\ \A v \in Workers \ {w} : worker'[v] = worker[v]
              /\ worker'[w].at \in {"idle", "load"}
              /\ worker'[w].at # "idle" => worker'[w].delivery \in Registered
          BY <1>t, <4>2, ProceedType
        <5> QED
          BY <5>1, KnowsNothing
      <4> QED
        BY <3>1, <4>1, <4>2
    <3>5. TypeOK'
      BY <1>t, <3>1, <3>3, <3>4 DEF TypeOK
    <3>6. AcknowledgedIsComplete'
      <4>1. ASSUME NEW k \in Registered, k \in (1..emitted) \ pending
            PROVE  Len(receipts'[k]) = Stages
        <5>1. Len(receipts[k]) = Stages /\ k \in Messages
          BY <1>t, <4>1, PipelineAssumption DEF AcknowledgedIsComplete
        <5> QED
          BY <3>3, <5>1
      <4> QED
        BY <3>1, <3>5, <4>1 DEF AcknowledgedIsComplete
    <3>7. WorkersKnow'
      BY <3>3, <3>4 DEF WorkersKnow
    <3> QED
      BY <3>3, <3>6, <3>7 DEF IInv, RecordsBounded
  <2> QED
    BY <2>1, <2>2
<1>8. ASSUME NEW w \in Workers, acknowledge_outbox(w) PROVE IInv'
  <2> DEFINE m == worker[w].delivery
  <2>1. /\ worker[w].at = "ack" /\ pending' = pending \ {m}
        /\ Proceed(w) \/ Abort(w)
        /\ UNCHANGED <<emitted, receipts, crashes>>
    BY <1>8 DEF acknowledge_outbox
  <2>2. Len(receipts[m]) = Stages
    BY <1>t, <2>1 DEF WorkersKnow, Knows
  <2> HIDE DEF m
  <2>3. /\ worker' \in [Workers -> WorkerState]
        /\ \A v \in Workers \ {w} : worker'[v] = worker[v]
        /\ worker'[w].at \in {"idle", "load"}
        /\ worker'[w].at # "idle" => worker'[w].delivery \in Registered
    BY <1>t, <2>1, ProceedType
  <2>4. TypeOK'
    BY ZenonT(30), <1>t, <2>1, <2>3 DEF TypeOK
  <2>5. AcknowledgedIsComplete'
    BY <1>t, <2>1, <2>2, <2>4 DEF AcknowledgedIsComplete
  <2>6. Knows(worker'[w], receipts)
    BY <2>3, KnowsNothing
  <2>7. WorkersKnow'
    BY <1>t, <2>1, <2>3, <2>6 DEF WorkersKnow
  <2> QED
    BY <1>t, <2>1, <2>5, <2>7 DEF IInv, RecordsBounded
<1>9. ASSUME NEW w \in Workers, CollectFails(w) PROVE IInv'
  BY <1>6, <1>9, <1>t DEF CollectFails, TypeOK
<1>10. ASSUME NEW w \in Workers, Crash(w) PROVE IInv'
  <2>1. crashes' \in 0..MaxCrashes
    BY <1>10, <1>t, PipelineAssumption DEF Crash, TypeOK
  <2> QED
    BY <1>6, <1>10, <2>1 DEF Crash
<1>11. CASE UNCHANGED vars
  BY <1>11, <1>t DEF vars, IInv, TypeOK, AcknowledgedIsComplete, WorkersKnow, RecordsBounded
<1> QED
  BY <1>1, <1>2, <1>3, <1>4, <1>5, <1>7, <1>8, <1>9, <1>10, <1>11 DEF Next, Step

(* A message of a registered topic leaves the outbox only with a complete  *)
(* evidence record, however many workers race and crash (advance_pending,  *)
(* acknowledge_outbox).                                                    *)
THEOREM DeliveredWithEvidence == Spec => []AcknowledgedIsComplete
<1>1. IInv => AcknowledgedIsComplete
  BY DEF IInv
<1> QED
  BY IInvInit, IInvStep, <1>1, PTL DEF Spec

(* Evidence records grow by one linked receipt at a time and never after   *)
(* they are complete or acknowledged, whatever workers had loaded before   *)
(* (compare_and_set_evidence, EvidenceRecord::append).                     *)
THEOREM RecordsGrowByStages == Spec => OneStageAtATime
<1> DEFINE Grows == \A m \in Messages :
          receipts'[m] # receipts[m] =>
              /\ m \in pending
              /\ Len(receipts[m]) < Stages
              /\ \E r \in Receipt : /\ r.previous = Len(receipts[m])
                                    /\ receipts'[m] = Append(receipts[m], r)
<1>1. IInv /\ [Next]_vars => [Grows]_vars
  <2> SUFFICES ASSUME IInv, Next PROVE Grows
    BY DEF vars
  <2>1. CASE UNCHANGED receipts
    BY <2>1
  <2>2. ASSUME NEW w \in Workers, compare_and_set_evidence(w), AppendAllowed(w) PROVE Grows
    <3> DEFINE d == worker[w].delivery
               r == [by |-> w, previous |-> Len(receipts[d])]
    <3>1. /\ d \in Messages /\ d \in pending
          /\ r \in Receipt
          /\ Len(receipts[d]) < Stages
          /\ receipts' = [receipts EXCEPT ![d] = Append(receipts[d], r)]
      BY <2>2, AppendsOne DEF compare_and_set_evidence
    <3>2. r.previous = Len(receipts[d])
      OBVIOUS
    <3>3. receipts \in [Messages -> Seq(Receipt)]
      BY DEF IInv, AcknowledgedIsComplete, TypeOK
    <3> HIDE DEF d, r
    <3> QED
      BY SMTT(30), <3>1, <3>2, <3>3
  <2> QED
    BY ZenonT(30), <2>1, <2>2 DEF Next, Step, Emit, AcknowledgeOther, advance_pending, load_evidence,
       CollectVerified, compare_and_set_evidence, acknowledge_outbox, CollectFails, Crash
<1> QED
  BY IInvInit, IInvStep, <1>1, PTL DEF Spec, OneStageAtATime
=============================================================================
