---------------------------- MODULE IsolatedRunner ----------------------------
(***************************************************************************)
(* The replay of an archived session by its own pinned program, in a       *)
(* sandbox.  A supervisor starts the child, polls it and its two pipes,    *)
(* and stops it when it is cancelled, late or writes too much; the child   *)
(* runs under a system call filter.  The replay counts when the child      *)
(* ended well and wrote exactly the expected result.                       *)
(*                                                                         *)
(* What the child writes is a sequence of pieces; Expected is the result   *)
(* the audited history leads to.                                           *)
(***************************************************************************)
EXTENDS Naturals, Sequences, FiniteSets, SequencesExt, TLC

CONSTANTS Expected,     \* pieces of the result that is to be written
          Pieces,       \* pieces the child may write
          output_bytes, \* most pieces of a result
          stderr_bytes, \* most pieces of diagnostics
          PipeSize,     \* pieces a pipe holds
          DrainReads,   \* pieces one drain may take
          MaxWritten,   \* bounds on what the child writes: stream -> pieces
          Calls         \* system calls the child may make

VARIABLES child,     \* the launcher's process and what it runs
          pipe,      \* its standard output and error: stream -> [data, open]
          written,   \* stream -> all it has written there
          run,       \* the supervisor
          cancelled, late, \* the caller's flag and the wall clock limit
          syscall    \* the last system call and the filter's answer

vars == <<child, pipe, written, run, cancelled, late, syscall>>

None == <<>>

-----------------------------------------------------------------------------
(* The system call filter.  A word is a set of bits, an instruction loads  *)
(* a word of the call, masks it, compares and jumps, or returns.           *)
Instruction(code, jt, jf, k) == [code |-> code, jt |-> jt, jf |-> jf, k |-> k]

LD(word) == Instruction("LD", 0, 0, word)
EQ(jt, jf, k) == Instruction("EQ", jt, jf, k)
AND(mask) == Instruction("AND", 0, 0, mask)
RET(answer) == Instruction("RET", 0, 0, answer)

Words == {"native", "foreign", "read", "openat", "execve", "clone", "clone3", "flock", "fcntl", "socket",
          "VM", "FS", "FILES", "SIGHAND", "THREAD", "SETTLS", "NEWNET",
          "SH", "EX", "NB", "GETFD", "DUPFD", "SETOWN"}

(* Three of the sixty-three calls that are allowed whatever they say.      *)
allowed == <<"read", "openat", "execve">>

required == {"VM", "FS", "FILES", "SIGHAND", "THREAD"}
permitted == required \union {"SETTLS"}
commands == <<"GETFD", "DUPFD">>

Each(list) == FlattenSeq([i \in DOMAIN list |-> <<EQ(0, 1, {list[i]}), RET("ALLOW")>>])

(* Threads may be made, nothing else.                                      *)
seccomp_clone ==
    <<EQ(0, 12, {"clone"}),
      LD("high"), EQ(1, 0, {}), RET("EPERM"),
      LD("flags"), AND(Words \ permitted), EQ(1, 0, {}), RET("EPERM"),
      LD("flags"), AND(required), EQ(1, 0, required), RET("EPERM"),
      RET("ALLOW")>>

seccomp_files ==
    <<EQ(0, 4, {"flock"}), LD("second"), EQ(0, 1, {"SH", "NB"}), RET("ALLOW"), RET("EPERM"),
      EQ(1, 0, {"fcntl"}), RET("EPERM"), LD("second")>>
    \o Each(commands) \o <<RET("EPERM")>>

seccomp ==
    <<LD("arch"), EQ(1, 0, {"native"}), RET("KILL"), LD("nr")>>
    \o Each(allowed)
    \o <<EQ(0, 1, {"clone3"}), RET("ENOSYS")>>
    \o seccomp_clone
    \o seccomp_files

(* How the kernel runs it on a call: instructions that are jumped over do  *)
(* nothing.                                                                *)
Filtered(call) ==
    LET program == seccomp
        After[i \in 0..Len(program)] ==
            IF i = 0 THEN [pc |-> 1, a |-> {}, answer |-> "none"]
            ELSE LET m == After[i - 1]
                     ins == program[i]
                 IN  IF m.pc # i \/ m.answer # "none" THEN m
                     ELSE CASE ins.code = "LD" -> [m EXCEPT !.pc = i + 1, !.a = call[ins.k]]
                            [] ins.code = "AND" -> [m EXCEPT !.pc = i + 1, !.a = @ \intersect ins.k]
                            [] ins.code = "EQ" ->
                                   [m EXCEPT !.pc = i + 1 + (IF m.a = ins.k THEN ins.jt ELSE ins.jf)]
                            [] ins.code = "RET" -> [m EXCEPT !.answer = ins.k]
    IN  After[Len(program)].answer

-----------------------------------------------------------------------------
Streams == {"out", "err"}

Init ==
    /\ child = [state |-> "none", status |-> "none"]
    /\ pipe = [s \in Streams |-> [data |-> <<>>, open |-> TRUE]]
    /\ written = [s \in Streams |-> <<>>]
    /\ run = [pc |-> "stage", exited |-> FALSE, eof |-> [s \in Streams |-> FALSE],
              read |-> [s \in Streams |-> <<>>], failure |-> "none", report |-> "none"]
    /\ cancelled = FALSE
    /\ late = FALSE
    /\ syscall = None

Supervisor == UNCHANGED <<written, cancelled, late, syscall>>

(* The artifacts are copied and the launcher, the target and the header of *)
(* the program are checked; any of it may refuse before there is a child.  *)
Stage ==
    /\ run.pc = "stage"
    /\ \/ ~cancelled /\ run' = [run EXCEPT !.pc = "launch"]
       \/ run' = [run EXCEPT !.pc = "done", !.report = IF cancelled THEN "Cancelled" ELSE "Refused"]
    /\ UNCHANGED <<child, pipe>>
    /\ Supervisor

Launch ==
    /\ run.pc = "launch"
    /\ IF cancelled
       THEN run' = [run EXCEPT !.pc = "done", !.report = "Cancelled"] /\ UNCHANGED child
       ELSE run' = [run EXCEPT !.pc = "poll"] /\ child' = [state |-> "running", status |-> "none"]
    /\ UNCHANGED pipe
    /\ Supervisor

Fail(code) == run' = [run EXCEPT !.pc = "finish", !.failure = code]

(* One turn of the loop: cancelled, late, then whether the child has       *)
(* ended, which is asked before the pipes are read.                        *)
Poll ==
    /\ run.pc = "poll"
    /\ IF cancelled THEN Fail("Cancelled")
       ELSE IF late THEN Fail("Deadline")
       ELSE run' = [run EXCEPT !.pc = "out", !.exited = child.state = "zombie"]
    /\ UNCHANGED <<child, pipe>>
    /\ Supervisor

Cap(s) == IF s = "out" THEN output_bytes ELSE stderr_bytes

(* A drain takes what is there up to its bound; the stream has ended when  *)
(* a read finds it empty and no one may write to it.                       *)
Drained(s) ==
    LET n == IF Len(pipe[s].data) < DrainReads THEN Len(pipe[s].data) ELSE DrainReads
    IN  [eof |-> run.eof[s] \/ (~pipe[s].open /\ Len(pipe[s].data) < DrainReads),
         read |-> run.read[s] \o SubSeq(pipe[s].data, 1, n),
         left |-> SubSeq(pipe[s].data, n + 1, Len(pipe[s].data))]

(* A broken form of Ended: the child's end is enough.                      *)
EndedOnExit(exited, eof) == exited

(* The loop ends when the child had ended and both streams have.           *)
Ended(exited, eof) == exited /\ eof["out"] /\ eof["err"]

drain(s) ==
    LET d == Drained(s)
        eof == [run.eof EXCEPT ![s] = d.eof]
    IN  /\ run.pc = s
        /\ pipe' = [pipe EXCEPT ![s].data = d.left]
        /\ IF Len(d.read) > Cap(s) THEN Fail("OutputLimit")
           ELSE run' = [run EXCEPT !.read[s] = d.read, !.eof = eof,
                            !.pc = IF s = "out" THEN "err"
                                   ELSE IF Ended(run.exited, eof) THEN "finish" ELSE "poll"]
        /\ UNCHANGED child
        /\ Supervisor

(* The process group is killed and the child is waited for.  A child that  *)
(* has ended keeps its own status.  What it wrote is compared last.        *)
finish ==
    LET status == IF child.state = "zombie" THEN child.status ELSE "killed"
        failure == IF run.failure # "none" THEN run.failure
                   ELSE IF status = "ok" THEN "none"
                   ELSE IF status = "xcpu" THEN "CpuLimit" ELSE "Sandbox"
    IN  /\ run.pc = "finish"
        /\ child' = [state |-> "reaped", status |-> status]
        /\ pipe' = [s \in Streams |-> [pipe[s] EXCEPT !.open = FALSE]]
        /\ run' = [run EXCEPT !.pc = "done", !.failure = failure,
                       !.report = IF failure # "none" THEN failure
                                  ELSE IF run.read["out"] = Expected THEN "Verified"
                                  ELSE "ReplayMismatch"]
        /\ Supervisor

-----------------------------------------------------------------------------
(* The child.                                                              *)
Child == child.state = "running"

WritePiece(s, b) ==
    /\ Child
    /\ pipe[s].open
    /\ Len(pipe[s].data) < PipeSize
    /\ Len(written[s]) < MaxWritten[s]
    /\ pipe' = [pipe EXCEPT ![s].data = Append(@, b)]
    /\ written' = [written EXCEPT ![s] = Append(@, b)]
    /\ syscall' = None
    /\ UNCHANGED <<child, run, cancelled, late>>

ClosePipe(s) ==
    /\ Child
    /\ pipe[s].open
    /\ pipe' = [pipe EXCEPT ![s].open = FALSE]
    /\ UNCHANGED <<child, written, run, cancelled, late, syscall>>

(* It ends by itself or at a limit of its own; its end closes the pipes.   *)
Zombie(status) ==
    /\ child' = [state |-> "zombie", status |-> status]
    /\ pipe' = [s \in Streams |-> [pipe[s] EXCEPT !.open = FALSE]]

Exit(status) ==
    /\ Child
    /\ Zombie(status)
    /\ UNCHANGED <<written, run, cancelled, late, syscall>>

(* The child is bound to one system call, before it writes.                *)
Call(call) ==
    LET answer == Filtered(call)
    IN  /\ Child
        /\ syscall = None
        /\ \A s \in Streams : written[s] = <<>> /\ pipe[s].open
        /\ syscall' = [call |-> call, answer |-> answer]
        /\ IF answer = "KILL" THEN Zombie("killed") ELSE UNCHANGED <<child, pipe>>
        /\ UNCHANGED <<written, run, cancelled, late>>

Cancel ==
    /\ ~cancelled
    /\ run.pc # "done"
    /\ cancelled' = TRUE
    /\ UNCHANGED <<child, pipe, written, run, late, syscall>>

Elapse ==
    /\ ~late
    /\ run.pc \notin {"stage", "launch", "done"}
    /\ late' = TRUE
    /\ UNCHANGED <<child, pipe, written, run, cancelled, syscall>>

Supervise == Stage \/ Launch \/ Poll \/ drain("out") \/ drain("err") \/ finish

Next ==
    \/ Supervise
    \/ \E s \in Streams, b \in Pieces : WritePiece(s, b)
    \/ \E s \in Streams : ClosePipe(s)
    \/ \E status \in {"ok", "error", "xcpu"} : Exit(status)
    \/ \E call \in Calls : Call(call)
    \/ Cancel
    \/ Elapse

(* The supervisor's thread runs and the clock does; the child owes nothing. *)
Fairness == WF_vars(Supervise) /\ WF_vars(Elapse)

Spec == Init /\ [][Next]_vars /\ Fairness

-----------------------------------------------------------------------------
(* A replay is judged by all the child wrote: it is verified exactly when  *)
(* the child ended well and wrote the expected result and nothing more,    *)
(* and called a mismatch only when it did not, whatever was still in the   *)
(* pipe when the child ended (supervise, replay_isolated).                 *)
JudgedByAllWritten ==
    /\ run.report = "Verified" => child.status = "ok" /\ written["out"] = Expected
    /\ run.report = "ReplayMismatch" => child.status = "ok" /\ written["out"] # Expected

(* The filter decides as its comments say: threads but no processes,       *)
(* shared locks that do not wait, descriptor flags and duplicates, a       *)
(* foreign architecture never, and of the rest only the allowed list, for  *)
(* every jump the program takes (seccomp).                                 *)
FilterDecides ==
    syscall # None =>
        LET c == syscall.call
        IN  syscall.answer =
                IF c.arch # {"native"} THEN "KILL"
                ELSE IF \E i \in DOMAIN allowed : c.nr = {allowed[i]} THEN "ALLOW"
                ELSE IF c.nr = {"clone3"} THEN "ENOSYS"
                ELSE IF \/ /\ c.nr = {"clone"} /\ c.high = {}
                           /\ required \subseteq c.flags /\ c.flags \subseteq permitted
                        \/ c.nr = {"flock"} /\ c.second = {"SH", "NB"}
                        \/ c.nr = {"fcntl"} /\ c.second \in {{"GETFD"}, {"DUPFD"}}
                     THEN "ALLOW" ELSE "EPERM"

(* A replay ends and leaves no process behind: whatever the child does,    *)
(* the supervisor stops and the child it started has been waited for       *)
(* (ChildGuard).                                                           *)
ReplayEnds ==
    []<>(run.pc = "stage" \/ (run.pc = "done" /\ child.state \in {"none", "reaped"}))
=============================================================================
