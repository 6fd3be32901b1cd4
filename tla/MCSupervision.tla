---------------------------- MODULE MCSupervision ----------------------------
(***************************************************************************)
(* Work under supervision, for TLC: a behaviour is of one export of an     *)
(* archive under a caller's grants, of one isolated replay, of the worker  *)
(* processes in which a session executes its application, or of the host   *)
(* that supervises services and admits a session's writes.                 *)
(***************************************************************************)
EXTENDS Naturals, Sequences, FiniteSets, TLC

CONSTANTS Budgets, MaxParks, Issuer, Consumer, MinimumStage, limits, MaxBlocks, MaxReceipts,
          Expected, Pieces, output_bytes, stderr_bytes, PipeSize, DrainReads, MaxWritten, Calls,
          Frames, Blocks, MaxSnapshot, input_bytes, WorkerPieces, WorkerCalls, MaxRuns,
          Topologies, MaxSessionBlocks, max_unpublished_blocks

VARIABLES control, events, caller, pc,                       \* the export's
          source, writer, generation, complete, fresh, manifest,
          child, pipe, written, run, cancelled, late, syscall,  \* the replay's
          file, loading, program, executor, invocation, process,  \* the worker's
          revoked, overdue, monitor, result, applied,
          topology, service, started, failures, op, dropped, unstopped,  \* the host's
          writer_enabled, admission, head, durable, prepared, evidence,
          part            \* which of the four a behaviour is of

Export == INSTANCE BundleExport

Replay == INSTANCE IsolatedRunner

(* The first byte of a worker's diagnostics is one too many.               *)
Worker == INSTANCE ProcessWorker
          WITH run <- invocation, child <- process, cancelled <- revoked,
               late <- overdue, Pieces <- WorkerPieces, Calls <- WorkerCalls,
               stderr_bytes <- 0

Host == INSTANCE RuntimeHost WITH MaxBlocks <- MaxSessionBlocks

exportVars == <<control, events, caller, pc, source, writer, generation, complete, fresh, manifest>>
replayVars == <<child, pipe, written, run, cancelled, late, syscall>>
workerVars == <<file, loading, program, executor, invocation, process, revoked, overdue,
                monitor, result, applied>>
hostVars == <<topology, service, started, failures, op, dropped, unstopped,
              writer_enabled, admission, head, durable, prepared, evidence>>
mcvars == <<exportVars, replayVars, workerVars, hostVars, part>>

(* A grant that lasts for the whole export and one that parks it on the    *)
(* way.                                                                    *)
MCBudgets == {[max_steps |-> 40, max_io_bytes |-> 40], [max_steps |-> 6, max_io_bytes |-> 6]}
MCLimits == [nodes |-> 30, blocks |-> 5, dependency_depth |-> 10]
MCMaxBlocks == [s \in {"a", "b"} |-> IF s = "a" THEN 2 ELSE 1]

MCExpected == <<"x", "y">>
MCMaxWritten == [s \in {"out", "err"} |-> IF s = "out" THEN 3 ELSE 1]

(* System calls on both sides of every comparison of the filter.           *)
Harmless == [arch |-> {"native"}, nr |-> {"read"}, high |-> {}, flags |-> {}, second |-> {}]
Thread == {"VM", "FS", "FILES", "SIGHAND", "THREAD"}

MCCalls ==
    {[Harmless EXCEPT !.nr = {n}] : n \in {"read", "openat", "execve", "clone3", "socket"}}
    \union {[Harmless EXCEPT !.arch = {"foreign"}]}
    \union {[Harmless EXCEPT !.nr = {"clone"}, !.high = h, !.flags = f] :
               h \in {{}, {"NEWNET"}},
               f \in {Thread, Thread \union {"SETTLS"}, Thread \ {"VM"}, Thread \union {"NEWNET"}}}
    \union {[Harmless EXCEPT !.nr = {"flock"}, !.second = s] :
               s \in {{"SH"}, {"SH", "NB"}, {"EX", "NB"}}}
    \union {[Harmless EXCEPT !.nr = {"fcntl"}, !.second = {c}] : c \in {"GETFD", "DUPFD", "SETOWN"}}

MCWorkerCalls ==
    [arch : {"native"}, nr : {"read", "x32", "clone", "setsid"}]
        \union [arch : {"foreign"}, nr : {"clone"}]

-----------------------------------------------------------------------------
(* One block: a critical service that depends on one that may fail, a      *)
(* critical service with two dependencies one of which may fail, a cycle,  *)
(* and a dependency nobody registered.                                     *)
AtGenesis == [recovered |-> 0, canonical |-> TRUE, verifies |-> TRUE]

Lifecycles ==
    {[deps |-> t[1], critical |-> t[2], blocks |-> 1, shared |-> FALSE,
      policies |-> {"recoverability"}, reports |-> {AtGenesis}] :
        t \in { <<<<{2}, {}>>, {1}>>,
               <<<<{}, {}, {1, 2}>>, {1, 3}>>,
               <<<<{2}, {1}>>, {2}>>,
               <<<<{}, {7}>>, {1}>> }}

(* One critical service, with all that evidence and operators can do: good *)
(* reports of both heads, and of the newer one also such as are not        *)
(* canonical or do not verify.                                             *)
Reports == [recovered: 0..1, canonical: BOOLEAN, verifies: BOOLEAN]

Admissions ==
    {[deps |-> <<{}>>, critical |-> {1}, blocks |-> 2, shared |-> TRUE,
      policies |-> {"recoverability", "unrestricted"},
      reports |-> {e \in Reports : IF e.recovered = 1 THEN e.canonical \/ e.verifies
                                   ELSE e.canonical /\ e.verifies}]}

MCTopologies == Lifecycles \cup Admissions

-----------------------------------------------------------------------------
MCInit ==
    /\ Export!Init
    /\ Replay!Init
    /\ Worker!Init
    /\ part \in {"export", "replay", "worker", "host"}
    /\ Host!Init /\ (part # "host" => topology = CHOOSE t \in Topologies : TRUE)

MCNext ==
    /\ \/ part = "export" /\ Export!Next /\ UNCHANGED <<replayVars, workerVars, hostVars>>
       \/ part = "replay" /\ Replay!Next /\ UNCHANGED <<exportVars, workerVars, hostVars>>
       \/ part = "worker" /\ Worker!Next /\ UNCHANGED <<exportVars, replayVars, hostVars>>
       \/ part = "host" /\ Host!Next /\ UNCHANGED <<exportVars, replayVars, workerVars>>
    /\ UNCHANGED part

(* The fairness of the export's worker and of its waiting caller, and of   *)
(* the supervisor and the clock of a replay and of a worker process, and   *)
(* of the host's lifecycle calls, none of which is enabled at first.       *)
MCFairness ==
    /\ WF_exportVars(part = "export" /\ Export!Worker)
    /\ WF_exportVars(part = "export" /\ Export!Receive)
    /\ WF_replayVars(part = "replay" /\ Replay!Supervise)
    /\ WF_replayVars(part = "replay" /\ Replay!Elapse)
    /\ WF_workerVars(part = "worker" /\ Worker!Supervise)
    /\ WF_workerVars(part = "worker" /\ Worker!Elapse)
    /\ WF_hostVars(Host!RunLifecycle) /\ WF_hostVars(Host!OpenGate)

MCSpec == MCInit /\ [][MCNext]_mcvars /\ MCFairness

(* What BundleExport promises: a published bundle shows one moment.        *)
PublishedIsOneMoment == part = "export" => Export!PublishedIsOneMoment

(* What IsolatedRunner and ProcessWorker promise: a replay is judged by    *)
(* all the child wrote, the filter it ran under decides every call as      *)
(* documented, and a session is given only what its program answered to    *)
(* the very request.                                                       *)
ReplayIsSound ==
    /\ part = "replay" => Replay!JudgedByAllWritten /\ Replay!FilterDecides
    /\ part = "worker" => Worker!WorkerIsFaithful

(* What RuntimeHost promises: services are started after and stopped       *)
(* before what they depend on, none is left behind, and a block is         *)
(* committed only while the critical ones are ready and, under the         *)
(* recoverability policy, only within its lag.                             *)
HostKept ==
    /\ [](part = "host" => Host!DependenciesFirst /\ Host!NoOrphans)
    /\ Host!SupervisedWrites
    /\ Host!BoundedLag

(* Work under supervision ends: a caller that waits for a task is answered *)
(* and the worker of a dropped one stops, a replay and an invocation of a  *)
(* worker end with their child waited for, and every lifecycle operation   *)
(* of the host returns.                                                    *)
WorkEnds ==
    /\ Export!EveryGrantAnswered
    /\ Replay!ReplayEnds
    /\ Worker!InvocationEnds
    /\ Host!OperationsEnd
=============================================================================
