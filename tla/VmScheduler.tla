----------------------------- MODULE VmScheduler -----------------------------
(***************************************************************************)
(* The multi-VM scheduler a script group runs in.  One virtual machine     *)
(* runs at a time, until it exits, makes a call that yields, or uses up    *)
(* its cycles; the scheduler then applies the call, moves bytes between    *)
(* the VMs parked on the two ends of a pipe, and picks the next VM.  Only  *)
(* a few VMs are kept instantiated; the rest are snapshots.  A verifier    *)
(* that runs in slices suspends the whole scheduler when a slice is used   *)
(* up and resumes it later.                                                *)
(*                                                                         *)
(* The scheduler is one record, as in the code, and its methods are        *)
(* operators on that record.  What a script computes is left out: at each  *)
(* turn it may make any call.  Cycles are left out too: any turn may       *)
(* exhaust the budget, at either of the two places the code notices it.    *)
(* The bytes of a pipe are numbered in the order they are written.         *)
(***************************************************************************)
EXTENDS Integers, Sequences, FiniteSets, SequencesExt

CONSTANTS MAX_VMS_COUNT, MAX_INSTANTIATED_VMS, MAX_FDS,
          Lengths,    \* the lengths scripts pass to read and write
          MaxVmId,    \* bound on the ids of spawned VMs
          MaxFdSlot,  \* bound on the descriptors created
          MaxBytes    \* bound on the bytes offered to one pipe

VARIABLES scheduler,        \* the fields of VmScheduler, with two histories
          outcome,          \* what the caller of the scheduler has seen
          instantiated_ids, \* FullSuspendedState.instantiated_ids
          resumable         \* the caller runs it in slices

vars == <<scheduler, outcome, instantiated_ids, resumable>>

ROOT_VM_ID == 0
FIRST_FD_SLOT == 2
VmIds == 0..MaxVmId
Fds == FIRST_FD_SLOT..(MaxFdSlot - 1)

other_fd(fd) == IF fd % 2 = 0 THEN fd + 1 ELSE fd - 1
is_read(fd) == fd % 2 = 0
PipeOf(fd) == fd \div 2
Pipes == {PipeOf(fd) : fd \in Fds}

Runnable == [kind |-> "Runnable"]
Terminated == [kind |-> "Terminated"]
Wait(target) == [kind |-> "Wait", target |-> target]
WaitForRead(fd, length) == [kind |-> "WaitForRead", fd |-> fd, length |-> length]
WaitForWrite(fd, length, consumed) ==
    [kind |-> "WaitForWrite", fd |-> fd, length |-> length, consumed |-> consumed]

IsA(s, v, kind) == s.states[v].kind = kind
OnPipe(s, v) == IsA(s, v, "WaitForRead") \/ IsA(s, v, "WaitForWrite")
OtherEndOpen(s, v) == other_fd(s.states[v].fd) \in DOMAIN s.fds

Without(f, S) == [x \in DOMAIN f \ S |-> f[x]]
With(f, S, value) == [x \in DOMAIN f \cup S |-> IF x \in S THEN value ELSE f[x]]
Lowest(S, n) == {x \in S : Cardinality({y \in S : y < x}) < n}

-----------------------------------------------------------------------------
(* Keeping VMs instantiated.                                               *)

(* Make ids instantiated; when there is no room, the lowest of the other   *)
(* VMs become snapshots.                                                   *)
ensure_vms_instantiated(s, ids) ==
    LET wanted == s.instantiated \cup ids
        out == Lowest(s.instantiated \ ids, Cardinality(wanted) - MAX_INSTANTIATED_VMS)
    IN [s EXCEPT !.instantiated = wanted \ out,
                 !.suspended = (@ \ ids) \cup out]

(* A new VM is runnable and instantiated; the lowest ones make room, which *)
(* may be the caller's own.                                                *)
boot_vm(s) ==
    LET v == s.next_vm_id
        out == Lowest(s.instantiated, Cardinality(s.instantiated) + 1 - MAX_INSTANTIATED_VMS)
    IN [s EXCEPT !.next_vm_id = v + 1,
                 !.instantiated = (@ \ out) \cup {v},
                 !.suspended = @ \cup out,
                 !.states = With(@, {v}, Runnable)]

(* The highest runnable id runs next.                                      *)
RunnableVms(s) == {v \in DOMAIN s.states : IsA(s, v, "Runnable")}
Next_to_run(s) == CHOOSE v \in RunnableVms(s) : \A w \in RunnableVms(s) : w <= v

-----------------------------------------------------------------------------
(* The calls a VM makes, as process_message_box applies them.              *)

spawn(s, v, passed) ==
    IF \/ \E fd \in passed : fd \notin DOMAIN s.fds \/ s.fds[fd] # v  \* INVALID_FD
       \/ Cardinality(DOMAIN s.states) >= MAX_VMS_COUNT               \* MAX_VMS_SPAWNED
    THEN s
    ELSE LET b == boot_vm(s)
         IN ensure_vms_instantiated(
                [b EXCEPT !.fds = With(@, passed, s.next_vm_id),
                          !.inherited_fd = With(@, {s.next_vm_id}, passed)],
                {v})

(* Waiting for a VM that has exited answers at once and forgets its code.  *)
wait(s, v, target) ==
    CASE target \in s.terminated_vms -> [s EXCEPT !.terminated_vms = @ \ {target}]
      [] target \notin s.terminated_vms \cup DOMAIN s.states -> s  \* WAIT_FAILURE
      [] OTHER -> [s EXCEPT !.states[v] = Wait(target)]

pipe(s, v) ==
    IF Cardinality(DOMAIN s.fds) >= MAX_FDS
    THEN s                                                          \* MAX_FDS_CREATED
    ELSE [s EXCEPT !.next_fd_slot = @ + 2,
                   !.fds = With(@, {s.next_fd_slot, s.next_fd_slot + 1}, v)]

Refused(s, v, fd) == \/ fd \notin DOMAIN s.fds \/ s.fds[fd] # v       \* INVALID_FD
                     \/ other_fd(fd) \notin DOMAIN s.fds              \* OTHER_END_CLOSED

read(s, v, fd, length) ==
    IF ~is_read(fd) \/ Refused(s, v, fd)
    THEN s ELSE [s EXCEPT !.states[v] = WaitForRead(fd, length)]

write(s, v, fd, length) ==
    IF is_read(fd) \/ Refused(s, v, fd)
    THEN s ELSE [s EXCEPT !.states[v] = WaitForWrite(fd, length, 0)]

close(s, v, fd) ==
    IF fd \in DOMAIN s.fds /\ s.fds[fd] = v
    THEN [s EXCEPT !.fds = Without(@, {fd})] ELSE s

-----------------------------------------------------------------------------
(* An exit, as iterate_process_results applies it.  The root's ends the    *)
(* run; another's wakes the VMs that wait for it and closes its            *)
(* descriptors.                                                            *)
root_exit(s) ==
    [s EXCEPT !.terminated_vms = @ \cup {ROOT_VM_ID},
              !.instantiated = @ \cap {ROOT_VM_ID},
              !.suspended = {},
              !.states = [v \in {ROOT_VM_ID} |-> Terminated],
              !.fds = << >>,
              !.inherited_fd = << >>]

child_exit(s, v) ==
    LET joining == {w \in DOMAIN s.states : s.states[w] = Wait(v)}
        Touch(t, w) == ensure_vms_instantiated(t, {w})
        woken == FoldLeft(Touch, [s EXCEPT !.states = With(@, joining, Runnable)],
                          SetToSortSeq(joining, <))
    IN [woken EXCEPT !.terminated_vms = @ \cup {v},
                     !.states = Without(@, {v}),
                     !.fds = Without(@, {fd \in DOMAIN @ : @[fd] = v}),
                     !.inherited_fd = Without(@, {v}),
                     !.instantiated = @ \ {v},
                     !.suspended = @ \ {v}]

terminated(s) == ROOT_VM_ID \in DOMAIN s.states /\ IsA(s, ROOT_VM_ID, "Terminated")

-----------------------------------------------------------------------------
(* Moving bytes, as process_io does after every turn.  A VM parked on a    *)
(* pipe whose other end is closed is answered.  A reader and a writer      *)
(* parked on the two ends of a pipe move as many bytes as both allow; the  *)
(* writer stays parked until all of its bytes are taken.  A pair with no   *)
(* byte to move is brought in and left parked.                             *)
ClosedVms(s) == {v \in DOMAIN s.states : OnPipe(s, v) /\ ~OtherEndOpen(s, v)}

Parked(s, kind) == {v \in DOMAIN s.states : IsA(s, v, kind) /\ OtherEndOpen(s, v)}

Pairs(s) ==
    {p \in Parked(s, "WaitForRead") \X Parked(s, "WaitForWrite") :
        s.states[p[1]].fd = other_fd(s.states[p[2]].fd)}

Copiable(s, p) ==
    LET room == s.states[p[1]].length
        left == s.states[p[2]].length - s.states[p[2]].consumed
    IN IF room < left THEN room ELSE left

\* A broken form of transfer: each part of a long write is taken from the
\* start of the writer's buffer.
transfer_from_start(s, p) ==
    LET w == s.states[p[2]]
        n == Copiable(s, p)
        pi == PipeOf(w.fd)
        taken == w.consumed + n
        t == ensure_vms_instantiated(s, {p[1], p[2]})
        copied == [t EXCEPT !.received[pi] = @ \o [i \in 1..n |-> s.told[pi] + i],
                            !.states[p[1]] = Runnable]
    IN CASE n = 0 -> t
         [] n > 0 /\ taken >= w.length ->
                [copied EXCEPT !.states[p[2]] = Runnable, !.told[pi] = @ + w.length]
         [] OTHER -> [copied EXCEPT !.states[p[2]].consumed = taken]

(* One pair.  received holds the bytes given to readers of the pipe, told  *)
(* how many its writers were told were written.                            *)
transfer(s, p) ==
    LET w == s.states[p[2]]
        n == Copiable(s, p)
        pi == PipeOf(w.fd)
        taken == w.consumed + n
        t == ensure_vms_instantiated(s, {p[1], p[2]})
        copied == [t EXCEPT !.received[pi] = @ \o [i \in 1..n |-> s.told[pi] + w.consumed + i],
                            !.states[p[1]] = Runnable]
    IN CASE n = 0 -> t
         [] n > 0 /\ taken >= w.length ->
                [copied EXCEPT !.states[p[2]] = Runnable, !.told[pi] = @ + w.length]
         [] OTHER -> [copied EXCEPT !.states[p[2]].consumed = taken]

(* The other end is closed: a reader is told 0, a writer what was taken.   *)
answer_closed(s, v) ==
    LET t == [ensure_vms_instantiated(s, {v}) EXCEPT !.states[v] = Runnable]
    IN IF IsA(s, v, "WaitForWrite")
       THEN [t EXCEPT !.told[PipeOf(s.states[v].fd)] = @ + s.states[v].consumed]
       ELSE t

process_io(s) ==
    LET ByWriter(p, q) == p[2] < q[2]
        answered == FoldLeft(answer_closed, s, SetToSortSeq(ClosedVms(s), <))
    IN FoldLeft(transfer, answered, SetToSortSeq(Pairs(s), ByWriter))

-----------------------------------------------------------------------------
(* Suspending writes a snapshot of every VM; resuming brings back the ones *)
(* that were instantiated.                                                 *)
suspend(s) == [s EXCEPT !.suspended = @ \cup s.instantiated, !.instantiated = {}]

Init == /\ scheduler = [states |-> [v \in {ROOT_VM_ID} |-> Runnable],
                        fds |-> << >>, inherited_fd |-> << >>,
                        instantiated |-> {ROOT_VM_ID}, suspended |-> {},
                        terminated_vms |-> {},
                        next_vm_id |-> ROOT_VM_ID + 1, next_fd_slot |-> FIRST_FD_SLOT,
                        received |-> [p \in Pipes |-> << >>],
                        told |-> [p \in Pipes |-> 0]]
        /\ outcome = "running"
        /\ instantiated_ids = {}
        /\ resumable \in BOOLEAN

(* A slice or the whole budget is used up.  The verifier that runs in      *)
(* slices suspends the scheduler, the other one rejects the transaction.   *)
OutOfCycles(s) ==
    IF resumable
    THEN /\ scheduler' = suspend(s)
         /\ instantiated_ids' = s.instantiated
         /\ outcome' = "suspended"
    ELSE /\ scheduler' = s
         /\ outcome' = "exceeded"
         /\ UNCHANGED instantiated_ids

(* What iterate_outer does once the turn's calls are applied: it charges   *)
(* the turn, which may show that the budget is overrun, and only then      *)
(* moves bytes.                                                            *)
iterate_outer(s) ==
    /\ UNCHANGED resumable
    /\ \/ OutOfCycles(s)
       \/ /\ scheduler' = process_io(s)
          /\ outcome' = IF terminated(s) THEN "completed" ELSE "running"
          /\ UNCHANGED instantiated_ids

(* The VM whose turn it is, instantiated.                                  *)
Turn == /\ outcome = "running"
        /\ ~terminated(scheduler)
        /\ RunnableVms(scheduler) # {}
Vm == Next_to_run(scheduler)
Prepared == ensure_vms_instantiated(scheduler, {Vm})

Exit == /\ Turn
        /\ iterate_outer(IF Vm = ROOT_VM_ID THEN root_exit(Prepared)
                         ELSE child_exit(Prepared, Vm))

Spawn(passed) == /\ Turn
                 /\ \/ scheduler.next_vm_id <= MaxVmId
                    \/ Cardinality(DOMAIN scheduler.states) >= MAX_VMS_COUNT
                 /\ iterate_outer(spawn(Prepared, Vm, passed))

WaitFor(target) == Turn /\ iterate_outer(wait(Prepared, Vm, target))

Pipe == /\ Turn
        /\ \/ scheduler.next_fd_slot < MaxFdSlot
           \/ Cardinality(DOMAIN scheduler.fds) >= MAX_FDS
        /\ iterate_outer(pipe(Prepared, Vm))

Read(fd, length) == Turn /\ iterate_outer(read(Prepared, Vm, fd, length))

Write(fd, length) == /\ Turn
                     /\ Len(scheduler.received[PipeOf(fd)]) + length <= MaxBytes
                     /\ iterate_outer(write(Prepared, Vm, fd, length))

Close(fd) == Turn /\ iterate_outer(close(Prepared, Vm, fd))

(* A call that only answers: the list of inherited descriptors.            *)
InheritedFd == Turn /\ iterate_outer(Prepared)

(* The machine stops in the middle of the script: out of cycles or paused. *)
(* Unless charging the turn fails first, bytes are moved before the        *)
(* scheduler is given up.                                                  *)
Interrupted == /\ Turn
               /\ OutOfCycles(Prepared) \/ OutOfCycles(process_io(Prepared))
               /\ UNCHANGED resumable

(* Nothing can run.  The scheduler still moves bytes, and reports a        *)
(* deadlock.                                                               *)
Deadlock == /\ outcome = "running"
            /\ ~terminated(scheduler)
            /\ RunnableVms(scheduler) = {}
            /\ scheduler' = process_io(scheduler)
            /\ outcome' = "deadlock"
            /\ UNCHANGED <<instantiated_ids, resumable>>

(* resume: a verifier continues a suspended group.  If the root had exited *)
(* when the budget was overrun, the run is complete.                       *)
Resume == /\ outcome = "suspended"
          /\ scheduler' = ensure_vms_instantiated(scheduler, instantiated_ids)
          /\ outcome' = IF terminated(scheduler) THEN "completed" ELSE "running"
          /\ instantiated_ids' = {}
          /\ UNCHANGED resumable

Next == \/ Exit
        \/ \E passed \in SUBSET DOMAIN scheduler.fds : Spawn(passed)
        \/ \E target \in VmIds : WaitFor(target)
        \/ Pipe
        \/ \E fd \in Fds, length \in Lengths : Read(fd, length) \/ Write(fd, length)
        \/ \E fd \in Fds : Close(fd)
        \/ InheritedFd
        \/ Interrupted
        \/ Deadlock
        \/ Resume

Spec == Init /\ [][Next]_vars

-----------------------------------------------------------------------------
(* Every VM the scheduler tracks is either instantiated or a snapshot, and *)
(* no more are instantiated than allowed; open descriptors belong to live  *)
(* VMs; a VM parked on a pipe still owns the end it is parked on, and no   *)
(* two are parked on the same end; nobody waits for a VM that has exited.  *)
(* A turn, an exit, an eviction, a suspension and a resumption each update *)
(* several of these maps (scheduler.rs, struct VmScheduler).               *)
Consistent ==
    LET s == scheduler
        live == DOMAIN s.states
    IN /\ live = s.instantiated \cup s.suspended
       /\ s.instantiated \cap s.suspended = {}
       /\ Cardinality(s.instantiated) <= MAX_INSTANTIATED_VMS
       /\ Cardinality(live) <= MAX_VMS_COUNT
       /\ \A v \in live \cup s.terminated_vms : v < s.next_vm_id
       /\ \A fd \in DOMAIN s.fds : s.fds[fd] \in live /\ fd < s.next_fd_slot
       /\ DOMAIN s.inherited_fd \subseteq live \ {ROOT_VM_ID}
       /\ \A v \in live : OnPipe(s, v) => s.states[v].fd \in DOMAIN s.fds /\ s.fds[s.states[v].fd] = v
       /\ \A v \in live : IsA(s, v, "Wait") => s.states[v].target \in live

(* A turn that ends with the scheduler still running leaves no VM parked   *)
(* that could go on: none on a pipe whose other end is closed, and no      *)
(* reader and writer of one pipe with bytes to move between them           *)
(* (process_io after every turn).                                          *)
LeavesNoneParked ==
    outcome = "running" /\ outcome' = "running" =>
        LET s == scheduler'
        IN /\ \A v \in DOMAIN s.states : OnPipe(s, v) => OtherEndOpen(s, v)
           /\ \A p \in Pairs(s) : Copiable(s, p) = 0

(* The bytes given to the readers of a pipe are the bytes written to it,   *)
(* in order, none twice and none left out, and a writer is told exactly    *)
(* how many were taken, also when the write was taken in parts, or cut     *)
(* short because the reader closed its end or exited, or when the          *)
(* scheduler was suspended in between.                                     *)
BytesInOrder ==
    \A p \in Pipes :
        LET s == scheduler
            parked == {v \in DOMAIN s.states : IsA(s, v, "WaitForWrite") /\ PipeOf(s.states[v].fd) = p}
            taken == IF parked = {} THEN 0 ELSE s.states[CHOOSE v \in parked : TRUE].consumed
        IN /\ s.received[p] = [i \in 1..Len(s.received[p]) |-> i]
           /\ terminated(s) \/ Len(s.received[p]) = s.told[p] + taken

(* A verification that ends with "scheduler deadlock" had nothing left to  *)
(* do: no VM can run even after bytes were moved.  So a suspended          *)
(* verification that is continued either finishes or runs out of cycles    *)
(* unless its script is deadlocked (TransactionScriptVerifier::complete).  *)
DeadlockIsReal == outcome = "deadlock" => RunnableVms(scheduler) = {}
=============================================================================
