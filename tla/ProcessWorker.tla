---------------------------- MODULE ProcessWorker ----------------------------
(***************************************************************************)
(* A session's application run in one worker process per request.  The     *)
(* executor holds a snapshot and its root.  For each request it starts the *)
(* pinned program, feeds it the request and reads its reply through pipes, *)
(* stops it when it is cancelled, late or writes too much, and moves to    *)
(* the state of the reply only when everything about it fits.  Clones of   *)
(* an executor share the cancellation and the report that was last made.   *)
(*                                                                         *)
(* A snapshot is the sequence of operations applied, and its root is that  *)
(* sequence.  Packets travel in pieces.  The program is right about the    *)
(* application when it answers; it may answer the wrong request, refuse,   *)
(* or fail as a process at any point.                                      *)
(***************************************************************************)
EXTENDS Naturals, Sequences, FiniteSets, SequencesExt

CONSTANTS Frames,        \* frames the session executes
          Blocks,        \* blocks, each with the context it was prepared in
          MaxSnapshot,   \* most operations a snapshot within the limits holds
          input_bytes,   \* most operations a request packet has room for
          output_bytes,  \* most pieces of a reply
          stderr_bytes,  \* most pieces of diagnostics
          Pieces,        \* pieces of a packet
          Calls,         \* system calls a worker may make
          MaxRuns        \* bound on the requests

VARIABLES file,       \* the program file, in two halves: "good" or "other"
          loading,    \* what load has copied of it
          program,    \* the sealed copy, or None
          executor,   \* [snapshot, root], or None
          run,        \* the present invocation
          child,      \* its process
          cancelled, late,
          monitor,    \* whose report was last made, this executor's or a clone's
          result,     \* what the last invocation returned
          applied     \* operations whose outcome the session was given

vars == <<file, loading, program, executor, run, child, cancelled, late, monitor, result, applied>>

None == [none |-> TRUE]

Operations == Frames \union Blocks

Idle == [pc |-> "idle"]

NoChild == [state |-> "none", descendants |-> "none"]

-----------------------------------------------------------------------------
(* The program is copied from its file to a sealed memory file and the     *)
(* copy's digest compared with the expected one.  The file may be replaced *)
(* at any time; once there is a copy, nobody reads it.                     *)
Init ==
    /\ file = <<"good", "good">>
    /\ loading = <<>>
    /\ program = None
    /\ executor = None
    /\ run = Idle
    /\ child = NoChild
    /\ cancelled = FALSE
    /\ late = FALSE
    /\ monitor = "none"
    /\ result = None
    /\ applied = <<>>

DigestMatches(copy) == copy = <<"good", "good">>

ReplaceFile ==
    /\ program = None
    /\ \E half \in {1, 2} : file' = [file EXCEPT ![half] = "other"]
    /\ file' # file
    /\ UNCHANGED <<loading, program, executor, run, child, cancelled, late, monitor, result, applied>>

Read ==
    /\ program = None
    /\ loading = <<>>
    /\ loading' = <<file[1]>>
    /\ UNCHANGED <<file, program, executor, run, child, cancelled, late, monitor, result, applied>>

load ==
    /\ program = None
    /\ loading # <<>>
    /\ loading' = <<>>
    /\ LET copy == Append(loading, file[2])
       IN  program' = IF DigestMatches(copy) THEN [code |-> copy] ELSE None
    /\ UNCHANGED <<file, executor, run, child, cancelled, late, monitor, result, applied>>

-----------------------------------------------------------------------------
(* invoke, up to the spawned child.  Restore is the first request and      *)
(* checks the genesis state in the child before the executor exists.       *)
Request(operation) ==
    [pre_root |-> IF executor = None THEN <<>> ELSE executor.root,
     snapshot |-> IF executor = None THEN <<>> ELSE executor.snapshot,
     operation |-> operation]

encodes(request) == Len(request.snapshot) <= input_bytes

Return(r) ==
    /\ run' = Idle
    /\ result' = r

Failed(kind, report) == [ok |-> FALSE, failure |-> kind, report |-> report]

invoke(operation) ==
    LET request == Request(operation)
    IN  /\ IF cancelled THEN Return(Failed("Cancelled", None)) /\ UNCHANGED child
           ELSE IF ~encodes(request) THEN Return(Failed("Configuration", None)) /\ UNCHANGED child
           ELSE \/ Return(Failed("Spawn", None)) /\ UNCHANGED child
                \/ /\ run' = [pc |-> "check", request |-> request, position |-> 0, stdin |-> TRUE,
                              exited |-> FALSE, output |-> <<>>, diagnostics |-> 0,
                              out_eof |-> FALSE, failure |-> "none"]
                   /\ child' = [state |-> "running", status |-> "none", descendants |-> "none",
                                read |-> 0, reply |-> None, written |-> 0, pipe |-> <<>>, err |-> 0]
                   /\ result' = None
        /\ late' = FALSE
        /\ UNCHANGED <<file, loading, program, executor, cancelled, monitor, applied>>

Ready == program # None /\ run = Idle

restore == Ready /\ executor = None /\ invoke("Restore")

execute_frame(operation) == Ready /\ executor # None /\ invoke(operation)

(* A block prepared over another state than the executor's is refused.     *)
execute_block_with_lifecycle(operation, pre_state_root) ==
    /\ Ready
    /\ executor # None
    /\ IF pre_state_root = executor.root THEN invoke(operation)
       ELSE /\ result' = Failed("Context", None)
            /\ UNCHANGED <<file, loading, program, executor, run, child, cancelled, late,
                           monitor, applied>>

Supervisor == UNCHANGED <<file, loading, program, executor, cancelled, late, monitor, result, applied>>

Goto(pc) == run' = [run EXCEPT !.pc = pc]

Fail(kind) == run' = [run EXCEPT !.pc = "finish", !.failure = kind]

(* One turn of the loop.  Cancelled, late, whether the child has ended.    *)
Check ==
    /\ run.pc = "check"
    /\ IF cancelled THEN Fail("Cancelled")
       ELSE IF late THEN Fail("Deadline")
       ELSE run' = [run EXCEPT !.pc = "feed", !.exited = child.state = "zombie",
                               !.stdin = @ /\ child.state # "zombie"]
    /\ UNCHANGED child
    /\ Supervisor

(* Standard input takes a piece when the child has read the one before,    *)
(* and is closed behind the last or when nobody reads it.                  *)
Feed ==
    /\ run.pc = "feed"
    /\ run' = IF run.stdin /\ child.state = "running" /\ child.read = run.position
              THEN [run EXCEPT !.pc = "pump", !.position = @ + 1, !.stdin = run.position + 1 < Pieces]
              ELSE [run EXCEPT !.pc = "pump", !.stdin = @ /\ child.state = "running"]
    /\ UNCHANGED child
    /\ Supervisor

Ended(exited, out_eof) == exited /\ out_eof

(* Both pipes are read; each has a limit.  A pipe has ended when it is     *)
(* empty and the child cannot write any more.                              *)
pump ==
    LET output == run.output \o child.pipe
        diagnostics == run.diagnostics + child.err
        out_eof == child.state = "zombie"
    IN  /\ run.pc = "pump"
        /\ child' = [child EXCEPT !.pipe = <<>>, !.err = 0]
        /\ IF Len(output) > output_bytes \/ diagnostics > stderr_bytes THEN Fail("OutputLimit")
           ELSE run' = [run EXCEPT !.output = output, !.diagnostics = diagnostics,
                                   !.out_eof = out_eof,
                                   !.pc = IF Ended(run.exited, out_eof) THEN "finish" ELSE "check"]
        /\ Supervisor

(* The process group is killed and the child waited for.                   *)
finish ==
    LET status == IF child.state = "zombie" THEN child.status ELSE "killed"
    IN  /\ run.pc = "finish"
        /\ run' = [run EXCEPT !.pc = "judge",
                       !.failure = IF @ # "none" \/ status = "ok" THEN @
                                   ELSE IF status = "xcpu" THEN "CpuLimit" ELSE "ProcessExit"]
        /\ child' = [state |-> "none",
                     descendants |-> IF child.descendants = "escaped" THEN "escaped" ELSE "none"]
        /\ Supervisor

-----------------------------------------------------------------------------
(* decode: all pieces of one packet and nothing behind them.               *)
decodes(output) ==
    /\ Len(output) = Pieces
    /\ \A i \in DOMAIN output : output[i].reply = output[1].reply /\ output[i].piece = i

(* The reply names the hash of the request it answers.                     *)
belongs(reply, request) == reply.request = request

ValidState(reply, request) ==
    /\ reply.pre_root = request.pre_root
    /\ IF request.operation = "Restore"
       THEN reply.outcome = "none" /\ reply.state = request.snapshot
       ELSE reply.outcome # "none"
    /\ Len(reply.state) <= MaxSnapshot

Verdict(output, request) ==
    IF ~decodes(output) THEN "Protocol"
    ELSE LET reply == output[1].reply
         IN  IF ~belongs(reply, request) THEN "Protocol"
             ELSE IF reply.refused THEN "Application"
             ELSE IF ~ValidState(reply, request) THEN "Protocol" ELSE "none"

(* invoke, after run: the report goes to the shared monitor and into the   *)
(* error itself; the executor moves only with an accepted reply.           *)
judge ==
    LET verdict == IF run.failure # "none" THEN run.failure ELSE Verdict(run.output, run.request)
        report == [request |-> run.request, failure |-> verdict]
        reply == run.output[1].reply
    IN  /\ run.pc = "judge"
        /\ monitor' = "own"
        /\ IF verdict # "none"
           THEN /\ Return(Failed(verdict, report))
                /\ UNCHANGED <<executor, applied>>
           ELSE /\ Return([ok |-> TRUE, outcome |-> reply.outcome, request |-> run.request])
                /\ executor' = [snapshot |-> reply.state, root |-> reply.state]
                /\ applied' = IF run.request.operation = "Restore" THEN applied
                              ELSE Append(applied, run.request.operation)
        /\ UNCHANGED <<file, loading, program, child, cancelled, late>>

-----------------------------------------------------------------------------
(* The child: serve_stdio.  It reads its whole input, restores the         *)
(* snapshot, executes and writes one reply.                                *)
Child == run # Idle /\ child.state = "running"

Worker == UNCHANGED <<file, loading, program, executor, run, cancelled, late, monitor, result, applied>>

ReadInput ==
    /\ Child
    /\ child.read < run.position
    /\ child' = [child EXCEPT !.read = @ + 1]
    /\ Worker

Executed(request) ==
    [request |-> request, pre_root |-> request.pre_root, refused |-> FALSE,
     state |-> IF request.operation = "Restore" THEN request.snapshot
               ELSE Append(request.snapshot, request.operation),
     outcome |-> request.operation]

(* The reply to this request, a refusal by the application, or the reply   *)
(* to another request over the same state.                                 *)
serve_stdio ==
    /\ Child
    /\ child.read = Pieces
    /\ child.reply = None
    /\ \E operation \in Operations \union {run.request.operation}, refused \in BOOLEAN :
           LET reply == Executed([run.request EXCEPT !.operation = operation])
           IN  child' = [child EXCEPT !.reply =
                   [reply EXCEPT !.refused = refused,
                                 !.outcome = IF operation = "Restore" THEN "none" ELSE @]]
    /\ Worker

WriteReply ==
    /\ Child
    /\ child.reply # None
    /\ child.written <= Pieces
    /\ child' = [child EXCEPT !.written = @ + 1,
                     !.pipe = Append(@, [reply |-> child.reply, piece |-> child.written + 1])]
    /\ Worker

WriteDiagnostics ==
    /\ Child
    /\ child.read = 0
    /\ child.reply = None
    /\ child.err <= stderr_bytes
    /\ child' = [child EXCEPT !.err = @ + 1]
    /\ Worker

Exit(status) ==
    /\ Child
    /\ child' = [child EXCEPT !.state = "zombie", !.status = status]
    /\ Worker

(* The filter lets a worker make no process, thread or group of its own.   *)
single_process_filter(call) ==
    CASE call.arch # "native" -> "KILL"
      [] call.arch = "native" /\ call.nr = "x32" -> "ENOSYS"
      [] call.arch = "native" /\ call.nr \in {"clone", "clone3", "fork", "vfork", "setsid",
                                              "setpgid", "unshare", "setns"} -> "EPERM"
      [] OTHER -> "ALLOW"

Call(call) ==
    LET answer == single_process_filter(call)
    IN  /\ Child
        /\ child.read = 1
        /\ child' = CASE answer = "KILL" -> [child EXCEPT !.state = "zombie", !.status = "killed"]
                      [] answer = "ALLOW" /\ call.nr \in {"clone", "fork"} ->
                             [child EXCEPT !.descendants = "group"]
                      [] answer = "ALLOW" /\ call.nr = "setsid" /\ child.descendants = "group" ->
                             [child EXCEPT !.descendants = "escaped"]
                      [] OTHER -> child
        /\ child' # child
        /\ Worker

-----------------------------------------------------------------------------
Cancel ==
    /\ ~cancelled
    /\ cancelled' = TRUE
    /\ UNCHANGED <<file, loading, program, executor, run, child, late, monitor, result, applied>>

Elapse ==
    /\ ~late
    /\ run # Idle
    /\ late' = TRUE
    /\ UNCHANGED <<file, loading, program, executor, run, child, cancelled, monitor, result, applied>>

(* A clone of the executor reports a run of its own.                       *)
CloneReports ==
    /\ run.pc = "judge"
    /\ monitor = "own"
    /\ monitor' = "clone"
    /\ UNCHANGED <<file, loading, program, executor, run, child, cancelled, late, result, applied>>

Supervise == Check \/ Feed \/ pump \/ finish \/ judge

Next ==
    \/ ReplaceFile \/ Read \/ load
    \/ /\ Len(applied) < MaxRuns
       /\ \/ restore
          \/ \E operation \in Frames : execute_frame(operation)
          \/ \E operation \in Blocks, n \in 0..Len(applied) :
                 execute_block_with_lifecycle(operation, SubSeq(applied, 1, n))
    \/ Supervise
    \/ ReadInput \/ serve_stdio \/ WriteReply \/ WriteDiagnostics
    \/ \E status \in {"ok", "error", "xcpu"} : Exit(status)
    \/ \E call \in Calls : Call(call)
    \/ Cancel \/ Elapse \/ CloneReports

(* The supervisor's thread runs and the clock does; the child owes nothing. *)
Fairness == WF_vars(Supervise) /\ WF_vars(Elapse)

Spec == Init /\ [][Next]_vars /\ Fairness

-----------------------------------------------------------------------------
(* The executor is where the session thinks it is: its snapshot and root   *)
(* are those of exactly the operations whose outcome was returned, in      *)
(* order, whatever failed, was cancelled or was tried again in between;    *)
(* what runs is the expected program whatever became of its file; an error *)
(* carries the report of its own run even when a clone reported since; and *)
(* no process outlives an invocation (invoke, execute_frame, ChildGuard).  *)
WorkerIsFaithful ==
    /\ executor # None => executor.snapshot = applied /\ executor.root = applied
    /\ program # None => program.code = <<"good", "good">>
    /\ result # None /\ ~result.ok /\ result.report # None =>
           result.report.failure = result.failure
    /\ result # None /\ result.ok => result.outcome \in {result.request.operation, "none"}
    /\ run = Idle => child = NoChild

(* Every invocation returns, with its process waited for, whatever the     *)
(* child does (linux::run).                                                *)
InvocationEnds == []<>(run = Idle /\ child = NoChild)
=============================================================================
