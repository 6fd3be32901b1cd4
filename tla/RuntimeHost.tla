---------------------------- MODULE RuntimeHost ----------------------------
(***************************************************************************)
(* A session host: the supervisor, the gate that lets writes through only  *)
(* while the critical services are ready, and the admission policy that    *)
(* bounds how far the session may run ahead of the state that can be       *)
(* recovered without this host.                                            *)
(***************************************************************************)
EXTENDS Naturals, Sequences, FiniteSetsExt, SequencesExt

-----------------------------------------------------------------------------
(***************************************************************************)
(* The supervisor of a host's services.  Its operations are asynchronous:  *)
(* every lifecycle call of a service is an await that may succeed, fail,   *)
(* panic or time out, and the caller may drop the whole operation there.   *)
(* The supervisor is borrowed mutably, so operations do not overlap; the   *)
(* services run by themselves and may break at any moment.                 *)
(***************************************************************************)

CONSTANTS Topologies    \* the registrations to consider: deps, what each of
                        \* the services 1, 2, ... depends on, and critical,
                        \* the services whose failure closes the writer gate

VARIABLES
    topology,   \* the registrations
    service,    \* service[s]: what the service itself reports
    started,    \* the supervisor's list of started services
    failures,   \* startup_failures: the services that failed to start
    op,         \* the operation in progress and where it awaits
    dropped,    \* some operation was dropped before it ended
    unstopped   \* the services whose last stop did not succeed

supervisorVars == <<topology, service, started, failures, op, dropped, unstopped>>

(* The registered services, numbered in registration order. *)
Services == DOMAIN topology.deps

ServiceStates == {"Stopped", "Starting", "Ready", "Failed"}

Critical(s) == s \in topology.critical

(* at: the phase; todo: the services it still has to deal with, the first  *)
(* one being awaited; gate: what becomes of the writer gate at its end.    *)
IdleOp == [at |-> "idle", todo |-> <<>>, gate |-> "keep"]

(* One round of Kahn's algorithm takes the first ready service and queues  *)
(* the services that waited for it last, in registration order.            *)
KahnRound(walk) ==
    LET s == Head(walk.ready)
        order == Append(walk.order, s)
        Freed == {t \in Services : /\ s \in topology.deps[t]
                                   /\ topology.deps[t] \subseteq ToSet(order)}
    IN [ready |-> Tail(walk.ready) \o SetToSortSeq(Freed, <), order |-> order]

(* The start order; services on or behind a cycle are missing from it. *)
topological_order ==
    LET Roots == {s \in Services : topology.deps[s] = {}}
        walk[k \in Services \cup {0}] ==
            IF k = 0 THEN [ready |-> SetToSortSeq(Roots, <), order |-> <<>>]
            ELSE IF walk[k - 1].ready = <<>> THEN walk[k - 1]
            ELSE KahnRound(walk[k - 1])
    IN walk[Max(Services)].order

(* Unknown names and cycles are topology errors. *)
TopologyOK ==
    /\ \A s \in Services : topology.deps[s] \subseteq Services
    /\ ToSet(topological_order) = Services

InitSupervisor ==
    /\ topology \in Topologies
    /\ service = [s \in DOMAIN topology.deps |-> "Stopped"]
    /\ started = <<>>
    /\ failures = {}
    /\ op = IdleOp
    /\ dropped = FALSE
    /\ unstopped = {}

-----------------------------------------------------------------------------
(* start_all. *)

(* Up to the first service.  A topology error clears the failures too. *)
start_all ==
    /\ op = IdleOp
    /\ started = <<>>
    /\ failures' = {}
    /\ op' = IF TopologyOK
             THEN [at |-> "next", todo |-> topological_order, gate |-> "keep"]
             ELSE IdleOp
    /\ UNCHANGED <<topology, service, started, dropped, unstopped>>

(* The head of op.todo has been dealt with. *)
NextService ==
    op' = IF Len(op.todo) = 1 THEN [op EXCEPT !.at = "check", !.todo = <<>>]
          ELSE [op EXCEPT !.at = "next", !.todo = Tail(@)]

(* A critical service does not come up: stop what was started and return   *)
(* the error, which leaves the gate alone.                                 *)
GiveUp == op' = [at |-> "unwind", todo |-> <<>>, gate |-> "keep"]

(* A service that is not critical only has its failure recorded. *)
StartFailed(s) ==
    IF Critical(s) THEN GiveUp /\ UNCHANGED failures
    ELSE NextService /\ failures' = failures \cup {s}

dependencies_ready(s) == topology.deps[s] \subseteq ToSet(started)

StartNext ==
    /\ op.at = "next"
    /\ LET s == Head(op.todo) IN
       IF dependencies_ready(s)
       THEN op' = [op EXCEPT !.at = "start"] /\ UNCHANGED failures
       ELSE StartFailed(s)
    /\ UNCHANGED <<topology, service, started, dropped, unstopped>>

(* The start call returns.  One that failed, panicked or timed out may     *)
(* have got anywhere; the service is then told to stop.                    *)
Started ==
    /\ op.at = "start"
    /\ LET s == Head(op.todo) IN
       \/ /\ service' = [service EXCEPT ![s] = "Starting"]
          /\ started' = Append(started, s)
          /\ op' = [op EXCEPT !.at = "ready"]
       \/ /\ \E state \in {service[s], "Starting", "Failed"} :
                service' = [service EXCEPT ![s] = state]
          /\ op' = [op EXCEPT !.at = "undo"]
          /\ UNCHANGED started
    /\ UNCHANGED <<topology, failures, dropped, unstopped>>

(* A broken form of AwaitReady: a service that never became ready is left  *)
(* running.                                                                *)
AwaitReadyForgetful ==
    /\ op.at = "ready"
    /\ LET s == Head(op.todo) IN
       \/ /\ service' = [service EXCEPT ![s] = IF @ = "Starting" THEN "Ready" ELSE @]
          /\ NextService
          /\ UNCHANGED <<started, failures>>
       \/ /\ StartFailed(s)
          /\ started' = Front(started)
          /\ UNCHANGED service
    /\ UNCHANGED <<topology, dropped, unstopped>>

AwaitReady ==
    /\ op.at = "ready"
    /\ LET s == Head(op.todo) IN
       \/ /\ service' = [service EXCEPT ![s] = IF @ = "Starting" THEN "Ready" ELSE @]
          /\ NextService
          /\ UNCHANGED started
       \/ /\ Critical(s)
          /\ GiveUp
          /\ UNCHANGED <<service, started>>
       \/ /\ ~Critical(s)
          /\ started' = Front(started)
          /\ op' = [op EXCEPT !.at = "undo"]
          /\ UNCHANGED service
    /\ UNCHANGED <<topology, failures, dropped, unstopped>>

(* A stop call returns: the service stopped, or nobody knows. *)
stop(s) ==
    \/ /\ service' = [service EXCEPT ![s] = "Stopped"]
       /\ unstopped' = unstopped \ {s}
    \/ /\ unstopped' = unstopped \cup {s}
       /\ UNCHANGED service

(* stop-after-start-failure and stop-after-readiness-failure. *)
Undo ==
    /\ op.at = "undo"
    /\ stop(Head(op.todo))
    /\ StartFailed(Head(op.todo))
    /\ UNCHANGED <<topology, started, dropped>>

-----------------------------------------------------------------------------
(* stop_all, and stop_started_best_effort within a failed start. *)

Stopping == op.at \in {"unwind", "stop"}

(* The last service leaves the list and is told to stop. *)
StopNext ==
    /\ Stopping
    /\ op.todo = <<>>
    /\ started # <<>>
    /\ op' = [op EXCEPT !.todo = <<Last(started)>>]
    /\ started' = Front(started)
    /\ UNCHANGED <<topology, service, failures, dropped, unstopped>>

AwaitStop ==
    /\ Stopping
    /\ op.todo # <<>>
    /\ stop(Head(op.todo))
    /\ op' = [op EXCEPT !.todo = <<>>]
    /\ UNCHANGED <<topology, started, failures, dropped>>

StopEnds ==
    /\ Stopping
    /\ op.todo = <<>>
    /\ started = <<>>
    /\ failures' = IF op.at = "stop" THEN {} ELSE failures
    /\ op' = IdleOp
    /\ UNCHANGED <<topology, service, started, dropped, unstopped>>

stop_all(gate) ==
    /\ op' = [at |-> "stop", todo |-> <<>>, gate |-> gate]
    /\ UNCHANGED <<topology, service, started, failures, dropped, unstopped>>

Lifecycle ==
    \/ StartNext \/ Started \/ AwaitReady \/ Undo
    \/ StopNext \/ AwaitStop \/ StopEnds

-----------------------------------------------------------------------------
(* health_reports: a recorded startup failure hides the service's probe. *)
Healthy(s) == s \notin failures /\ service[s] = "Ready"

(* critical_health_failure finds nothing. *)
CriticalReady == \A s \in topology.critical : Healthy(s)

(* The caller drops the operation where it awaits a service. *)
Dropped ==
    /\ \/ op.at \in {"start", "ready", "undo"}
       \/ Stopping /\ op.todo # <<>>
    /\ op' = IdleOp
    /\ dropped' = TRUE
    /\ UNCHANGED <<topology, service, started, failures, unstopped>>

(* A service breaks, or mends, by itself. *)
ServiceChanges(s) ==
    /\ \/ /\ service[s] \in {"Starting", "Ready"}
          /\ service' = [service EXCEPT ![s] = "Failed"]
       \/ /\ service[s] = "Failed"
          /\ service' = [service EXCEPT ![s] = "Ready"]
    /\ UNCHANGED <<topology, started, failures, op, dropped, unstopped>>

-----------------------------------------------------------------------------
(* Each topology also says what the operator and the world do: blocks, how *)
(* far the session grows, shared, whether another handle commits to it,    *)
(* policies, the admission policies that get installed, and reports, what  *)
(* recovery evidence comes to say.                                         *)

CONSTANTS MaxBlocks,                \* bound on the session's blocks
          max_unpublished_blocks    \* the policy's lag allowance

VARIABLES
    writer_enabled,
    admission,   \* the installed policy
    head,        \* the host's chain head, as its number of blocks
    durable,     \* the store's head: another handle may move it
    prepared,    \* the heads candidates were prepared on
    evidence     \* what the evidence source and the verifier say now

chainVars == <<admission, head, durable, prepared, evidence>>
vars == <<supervisorVars, writer_enabled, chainVars>>

(* The blocks the anchor covers, whether it names a block of the canonical *)
(* history, and whether its proof verifies.                                *)
Evidence == [recovered: 0..MaxBlocks, canonical: BOOLEAN, verifies: BOOLEAN]

AtGenesis == [recovered |-> 0, canonical |-> TRUE, verifies |-> TRUE]

(* create, on a fresh session. *)
Init ==
    /\ InitSupervisor
    /\ writer_enabled = FALSE
    /\ admission = "recoverability"
    /\ head = 0
    /\ durable = 0
    /\ prepared = {}
    /\ evidence = AtGenesis

-----------------------------------------------------------------------------
(* Lifecycle calls. *)

start_services == start_all /\ UNCHANGED <<writer_enabled, chainVars>>

(* The services are up: enforce_health, then the gate opens. *)
OpenGate ==
    /\ op.at = "check"
    /\ IF CriticalReady
       THEN /\ op' = IdleOp
            /\ writer_enabled' = TRUE
            /\ UNCHANGED <<topology, service, started, failures, dropped, unstopped>>
       ELSE stop_all("close") /\ UNCHANGED writer_enabled
    /\ UNCHANGED chainVars

stop_services ==
    /\ op = IdleOp
    /\ stop_all("keep")
    /\ writer_enabled' = FALSE
    /\ UNCHANGED chainVars

(* The services are stopped first; the gate closes when that is over. *)
enforce_health ==
    /\ op = IdleOp
    /\ ~CriticalReady
    /\ stop_all("close")
    /\ UNCHANGED <<writer_enabled, chainVars>>

RunLifecycle ==
    /\ Lifecycle
    /\ writer_enabled' = (writer_enabled /\ ~(op.gate = "close" /\ op' = IdleOp))
    /\ UNCHANGED chainVars

-----------------------------------------------------------------------------
(* Writes.  They take the host mutably, hence only between operations.     *)

(* RecoverabilityAdmission::check; the unrestricted policy admits all. *)
AdmissionOK(base) ==
    admission = "recoverability" =>
        /\ base = durable
        /\ evidence.recovered <= base
        /\ evidence.canonical
        /\ evidence.verifies
        /\ base + 1 - evidence.recovered <= max_unpublished_blocks

check_writer == op = IdleOp /\ writer_enabled /\ CriticalReady

(* A write that meets a failed critical service closes the gate. *)
CloseGate ==
    /\ op = IdleOp
    /\ writer_enabled
    /\ ~CriticalReady
    /\ writer_enabled' = FALSE
    /\ UNCHANGED <<supervisorVars, chainVars>>

(* prepare_block and prepare_block_at. *)
prepare_block ==
    /\ check_writer
    /\ AdmissionOK(head)
    /\ prepared' = prepared \cup {head}
    /\ UNCHANGED <<supervisorVars, writer_enabled, admission, head, durable, evidence>>

(* The candidate's base must still be the host's head, the policy is asked *)
(* again, and the store compares its own head.  Another candidate with the *)
(* same base may be left over.                                             *)
commit_finalised ==
    /\ check_writer
    /\ head \in prepared
    /\ AdmissionOK(head)
    /\ head = durable
    /\ head < topology.blocks
    /\ head' = head + 1
    /\ durable' = head'
    /\ prepared' \in {prepared, prepared \ {head}}
    /\ UNCHANGED <<supervisorVars, writer_enabled, admission, evidence>>

set_admission ==
    /\ op = IdleOp
    /\ ~writer_enabled
    /\ admission' \in topology.policies
    /\ UNCHANGED <<supervisorVars, writer_enabled, head, durable, prepared, evidence>>

-----------------------------------------------------------------------------
(* The world around the host. *)

(* Another handle on the same session commits. *)
CommitElsewhere ==
    /\ topology.shared
    /\ durable < topology.blocks
    /\ durable' = durable + 1
    /\ UNCHANGED <<supervisorVars, writer_enabled, admission, head, prepared, evidence>>

(* Publication moves on, evidence expires, is revoked or is lost. *)
EvidenceChanges ==
    /\ evidence' \in {e \in topology.reports : e.recovered <= durable}
    /\ UNCHANGED <<supervisorVars, writer_enabled, admission, head, durable, prepared>>

(* The process ends, its services with it, and a new one recovers the      *)
(* session with the policy it is given.                                    *)
recover ==
    /\ service' = [s \in Services |-> "Stopped"]
    /\ started' = <<>>
    /\ failures' = {}
    /\ op' = IdleOp
    /\ dropped' = FALSE
    /\ unstopped' = {}
    /\ writer_enabled' = FALSE
    /\ admission' \in topology.policies
    /\ head' = durable
    /\ prepared' = {}
    /\ UNCHANGED <<topology, durable, evidence>>

Drop == Dropped /\ UNCHANGED <<writer_enabled, chainVars>>

Disturb ==
    /\ \E s \in Services : ServiceChanges(s)
    /\ UNCHANGED <<writer_enabled, chainVars>>

Next ==
    \/ start_services \/ OpenGate \/ stop_services \/ enforce_health
    \/ RunLifecycle \/ CloseGate \/ prepare_block \/ commit_finalised
    \/ set_admission \/ CommitElsewhere \/ EvidenceChanges \/ recover
    \/ Drop \/ Disturb

(* Every lifecycle call returns within the supervisor's timeout. *)
Fairness == WF_vars(RunLifecycle) /\ WF_vars(OpenGate)

Spec == Init /\ [][Next]_vars /\ Fairness

-----------------------------------------------------------------------------
(* Properties. *)

TypeOK ==
    /\ service \in [Services -> ServiceStates]
    /\ ToSet(started) \subseteq Services /\ IsInjective(started)
    /\ failures \subseteq Services /\ unstopped \subseteq Services
    /\ op.at \in {"idle", "next", "start", "ready", "undo", "check", "unwind", "stop"}
    /\ ToSet(op.todo) \subseteq Services /\ op.gate \in {"keep", "close"}
    /\ writer_enabled \in BOOLEAN /\ dropped \in BOOLEAN
    /\ head <= durable /\ durable <= MaxBlocks /\ prepared \subseteq 0..head
    /\ admission \in topology.policies /\ evidence \in Evidence

(* Whatever fails, times out or is dropped, a listed service has all its   *)
(* dependencies before it in the list: start_all never starts a service    *)
(* whose dependencies are not up, and stop_all and the unwinding of a      *)
(* failed start never stop a service a started one depends on.             *)
DependenciesFirst ==
    \A i \in DOMAIN started :
        topology.deps[started[i]] \subseteq {started[j] : j \in 1..(i - 1)}

(* Between operations, unless one was dropped, every service that runs is  *)
(* listed, so that stop_all will reach it, or refused to stop when it was  *)
(* told to: no error path of start_all leaves a service behind.            *)
NoOrphans ==
    /\ TypeOK
    /\ op = IdleOp /\ ~dropped =>
           \A s \in Services : service[s] # "Stopped" => s \in ToSet(started) \cup unstopped

HostCommits == head' # head /\ durable' # durable

(* A block is committed through the host only while every critical service *)
(* is ready, and, unless an operation was dropped, is one the supervisor   *)
(* started and has not stopped: check_writer, start_services and           *)
(* enforce_health keep the gate and the services together over failing     *)
(* starts, restarts and services that do not stop.                         *)
SupervisedWrites ==
    [][HostCommits =>
          \A s \in topology.critical :
              service[s] = "Ready" /\ (dropped \/ s \in ToSet(started))]_vars

(* Under the recoverability policy a block is committed only if, at that   *)
(* moment, verified evidence for the canonical history covers all but      *)
(* max_unpublished_blocks of the session, the new block included, whatever *)
(* the evidence said when the candidate was prepared: the policy is asked  *)
(* again by commit_finalised, and verifies again.                          *)
BoundedLag ==
    [][HostCommits /\ admission = "recoverability" =>
          /\ evidence.canonical /\ evidence.verifies
          /\ evidence.recovered + max_unpublished_blocks >= durable']_vars

(* Every lifecycle operation comes to an end, also when every stop fails   *)
(* (run_phase bounds each call; stop_all gives up a service it could not   *)
(* stop).                                                                  *)
OperationsEnd == []<>(op = IdleOp)
=============================================================================
