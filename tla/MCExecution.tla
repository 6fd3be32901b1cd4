----------------------------- MODULE MCExecution -----------------------------
(***************************************************************************)
(* How transactions are selected and executed before a session commits     *)
(* them, for TLC: a behaviour is one of the pool that admits them one at a *)
(* time, of the producer that makes blocks of a queue, of the batch        *)
(* command that verifies many in parallel, of the verifier that runs one   *)
(* transaction's script groups, of a script's calls that load data, or of  *)
(* the scheduler that runs its virtual machines.  The pool and the batch   *)
(* share the transactions and the base state, the verifier and the calls   *)
(* share the transactions that carry scripts.                              *)
(***************************************************************************)
EXTENDS Naturals, Sequences, FiniteSets, FiniteSetsExt, SequencesExt, Functions, TLC

CONSTANTS Tx, Body, MaxU64, Occupied, ZeroHash, Base, Batches, Accesses, max_size, CyclesPerByte, MaxOverlays,
          MAX_VMS_COUNT, MAX_INSTANTIATED_VMS, MAX_FDS, Lengths,
          MaxVmId, MaxFdSlot, MaxBytes,
          Cells, Members, Library, NoScript, Programs, Transactions, Limits,
          max_cycles, MaxSlices, Headers, CellHeader, HeaderCell, Length,
          EncodedLength, Sizes, Bounds, Indices,
          Parts           \* the parts a run is about

VARIABLES txs, spent_outputs, stats, overlays,   \* the pool's
          list, resolved, dag, layer, running,   \* the batch command's
          layer_results, results, state, phase,
          scheduler, outcome, instantiated_ids, resumable,  \* the scheduler's
          tx, suspended, verdict, ran, slices,   \* the verifier's
          group, call, got, answer,              \* the calls', on the same tx
          available, reserved, next_reservation, notifying,  \* the producer's
          unseen, chain, trigger, producer, runs, submitted, retained,
          part            \* which of the six a behaviour is of

Scheduling == INSTANCE CellScheduling

Verifier == INSTANCE ScriptVerifier WITH state <- suspended, outcome <- verdict

Machines == INSTANCE VmScheduler

(* With three bytes to a block the first two transactions fill one, and    *)
(* the last two do not fit together.                                       *)
MCSize == [n \in 0..3 |-> IF n <= 1 THEN 1 ELSE 2]

Producer == INSTANCE BlockProducer
            WITH MaxTxs <- 3, Size <- MCSize, MaxTransactions <- 2, MaxBytes <- 3,
                 MaxSubmitters <- 1, Capacity <- 2, MaxManual <- 2, MaxHeight <- 2,
                 MaxRuns <- 2, Triggers <- {"Instant", "IntervalEmpty", "Open"}

poolVars == <<txs, spent_outputs, stats, overlays>>
batchVars == <<list, resolved, dag, layer, running, layer_results, results, state, phase>>
vmVars == <<scheduler, outcome, instantiated_ids, resumable>>
verifierVars == <<suspended, verdict, ran, slices>>
callVars == <<group, call, got, answer>>
producerVars == <<available, reserved, next_reservation, notifying, unseen, chain, trigger,
                  producer, runs, submitted, retained>>
mcvars == <<poolVars, batchVars, vmVars, tx, verifierVars, callVars, producerVars, part>>

(* The session opens with two Cells of a genesis transaction.              *)
MCBase == (<<"g", 1>> :> 6) @@ (<<"g", 2>> :> 4)

(* a creates two Cells; b or f spends the first and c the second, n comes  *)
(* after c, and m spends what b and c leave.  d competes with a and e at   *)
(* once, k with a alone at a better density and a lower fee than a and c   *)
(* together, s pays nothing.  r reads a Cell of a, s one that e consumes.  *)
(* z has no inputs and y spends what z creates.                            *)
MCTx == {"a", "b", "c", "d", "e", "f", "k", "m", "n", "o", "r", "s", "y", "z"}

Plain(inputs, outputs) ==
    [inputs |-> inputs, cell_deps |-> {}, outputs |-> outputs,
     size |-> 1, cycles |-> 1, passes |-> TRUE]

MCBody ==
    [t \in MCTx |->
        CASE t = "a" -> [Plain(<<<<"g", 1>>>>, <<2, 3>>) EXCEPT !.size = 2]
          [] t = "b" -> Plain(<<<<"a", 1>>>>, <<2>>)
          [] t = "c" -> [Plain(<<<<"a", 2>>>>, <<1>>) EXCEPT !.size = 2]
          [] t = "d" -> [Plain(<<<<"g", 1>>, <<"g", 2>>>>, <<5>>) EXCEPT !.cycles = 2]
          [] t = "e" -> Plain(<<<<"g", 2>>>>, <<3>>)
          [] t = "f" -> Plain(<<<<"a", 1>>>>, <<1>>)
          [] t = "k" -> Plain(<<<<"g", 1>>>>, <<4>>)
          [] t = "m" -> Plain(<<<<"b", 1>>, <<"c", 1>>>>, <<1>>)
          [] t = "n" -> Plain(<<<<"c", 1>>>>, <<1>>)
          [] t = "o" -> Plain(<<<<"d", 1>>>>, <<2, 2>>)
          [] t = "r" -> [Plain(<<<<"g", 2>>>>, <<4>>) EXCEPT !.cell_deps = {<<"a", 1>>}]
          [] t = "s" -> [Plain(<<<<"g", 1>>>>, <<6>>) EXCEPT !.cell_deps = {<<"g", 2>>}]
          [] t = "y" -> Plain(<<<<"z", 1>>>>, <<1>>)
          [] t = "z" -> Plain(<<>>, <<1>>)]

(* Every batch of up to three of seven transactions, and the diamond a, b, *)
(* c, m in every order.                                                    *)
MCBatches ==
    (BoundedSeq({"a", "b", "c", "e", "m", "r", "s"}, 3) \ {<<>>})
        \union SetToSeqs({"a", "b", "c", "m"})

(* Resolved accesses: one domain everybody writes; a parent that writes    *)
(* what its reader writes and a child that reads before it writes; readers *)
(* and writers of one domain; a domain without a hash.                     *)
MCAccesses ==
    {[t \in MCTx |-> <<<<"p", "Write">>>>],
     [t \in MCTx |-> CASE t \in {"a", "r"} -> <<<<"q", "Write">>, <<"q", "Read">>>>
                       [] t \in {"b", "e"} -> <<<<"p", "Read">>, <<"p", "Write">>>>
                       [] OTHER -> <<>>],
     [t \in MCTx |-> IF t \in {"c", "e"} THEN <<<<"p", "Write">>>> ELSE <<<<"p", "Read">>>>],
     [t \in MCTx |-> IF t = "s" THEN <<<<ZeroHash, "Read">>>> ELSE <<>>]}

Absent == <<>>

(* A script may pass a length of zero.                                     *)
MCLengths == 0..2

-----------------------------------------------------------------------------
(* Scripts, named by number, by the hash of the code or of the code's type *)
(* script.  p passes after instructions of one cycle, a call of one and    *)
(* an instruction of one, q in one, f fails.  c makes a call that costs    *)
(* more than the verifier's limit, and x swaps machines before its root    *)
(* exits with a failure.                                                   *)
ByData(h, code) == [hash |-> h, code_hash |-> code, hash_type |-> 0]
ByType(h, owner) == [hash |-> h, code_hash |-> owner, hash_type |-> 1]

Does(kind, cycles) == [kind |-> kind, cycles |-> cycles]

MCPrograms ==
    ("p" :> [steps |-> <<Does("run", 1), Does("call", 1), Does("run", 1)>>, exit |-> 0])
        @@ ("q" :> [steps |-> <<Does("run", 1)>>, exit |-> 0])
        @@ ("f" :> [steps |-> <<Does("run", 1)>>, exit |-> 1])
        @@ ("c" :> [steps |-> <<Does("run", 1), Does("call", 9), Does("run", 1)>>, exit |-> 0])
        @@ ("x" :> [steps |-> <<Does("run", 1), Does("yield", 1), Does("swap", 2),
                                Does("run", 1)>>, exit |-> 1])

MCLibrary == [code \in {"p", "q", "f", "c", "x"} |-> code]

Holding(lock, type, data) == [lock |-> lock, type |-> type, data |-> data]

(* Three inputs, one of them with a type script named by type, and four    *)
(* dependencies: code, two Cells of one type script with different code,   *)
(* and a group of two.                                                     *)
MCCells ==
    (<<"a", 0>> :> Holding(ByData(1, "p"), NoScript, "q"))
        @@ (<<"a", 1>> :> Holding(ByData(2, "q"), ByData(5, "p"), "q"))
        @@ (<<"a", 2>> :> Holding(ByData(1, "p"), ByType(4, 9), "q"))
        @@ (<<"d", 0>> :> Holding(ByData(1, "p"), NoScript, "p"))
        @@ (<<"d", 1>> :> Holding(ByData(1, "p"), ByData(9, "q"), "q"))
        @@ (<<"d", 2>> :> Holding(ByData(1, "p"), ByData(9, "q"), "p"))
        @@ (<<"d", 3>> :> Holding(ByData(1, "p"), NoScript, "m"))

MCMembers == "m" :> <<<<"d", 0>>, <<"d", 1>>>>

Code(p) == [out_point |-> p, dep_type |-> "Code"]

Spending ==
    [inputs |-> <<<<"a", 0>>, <<"a", 1>>, <<"a", 2>>>>,
     outputs |-> <<ByData(5, "p"), NoScript>>, outputs_data |-> <<"q", "p">>,
     witnesses |-> <<"q", "p", "q", "p">>, header_deps |-> <<"h">>,
     cell_deps |-> <<[out_point |-> <<"d", 3>>, dep_type |-> "DepGroup"]>>,
     semantics |-> "CkbStrict", skip_lock_groups |-> FALSE, skip_lock_script_hashes |-> {}]

(* The same under the extended semantics, with two Cells of one type, with *)
(* a dependency that is not there, with a lock skipped by hash, with every *)
(* lock skipped, with an input that is not there and with scripts that     *)
(* fail or cost too much.                                                  *)
MCTransactions ==
    {Spending,
     [Spending EXCEPT !.semantics = "MyelinExtended", !.inputs = <<<<"a", 1>>, <<"a", 0>>>>],
     [Spending EXCEPT !.cell_deps = <<Code(<<"d", 0>>), Code(<<"d", 1>>), Code(<<"d", 2>>)>>],
     [Spending EXCEPT !.cell_deps = <<Code(<<"d", 0>>), Code(<<"x", 1>>)>>],
     [Spending EXCEPT !.cell_deps = <<Code(<<"d", 1>>), Code(<<"d", 0>>)>>,
                      !.skip_lock_script_hashes = {ByData(2, "q")}],
     [Spending EXCEPT !.skip_lock_groups = TRUE, !.outputs = <<ByData(5, "p"), ByData(6, "q")>>],
     [Spending EXCEPT !.inputs = <<<<"a", 0>>, <<"x", 9>>>>],
     [Spending EXCEPT !.semantics = "MyelinExtended", !.inputs = <<<<"a", 0>>>>,
                      !.outputs = <<ByData(7, "f"), NoScript>>],
     [Spending EXCEPT !.semantics = "MyelinExtended", !.inputs = <<<<"a", 0>>>>,
                      !.outputs = <<ByData(7, "c"), ByData(8, "x")>>]}

MCCellHeader == (<<"a", 0>> :> "h") @@ (<<"a", 1>> :> "i") @@ (<<"d", 0>> :> "j")
MCHeaderCell == "h" :> <<"d", 1>>
MCLength == ("p" :> 2) @@ ("q" :> 1) @@ ("f" :> 1) @@ ("m" :> 2)

-----------------------------------------------------------------------------
(* The two ways of running scripts belong to the scheduler alone, the      *)
(* transactions that carry scripts to the verifier and the calls.          *)
MCInit ==
    /\ part \in Parts
    /\ Scheduling!PoolInit
    /\ Scheduling!BatchInit
    /\ Machines!Init /\ (part # "machines" => ~resumable)
    /\ IF part \in {"verifier", "calls"} THEN Verifier!Init
       ELSE tx = Absent /\ suspended = Absent /\ verdict = Absent /\ ran = <<>> /\ slices = 0
    /\ IF part = "calls" THEN Verifier!CallsInit
       ELSE group = Absent /\ call = Absent /\ got = <<>> /\ answer = Absent
    /\ Producer!Init /\ (part # "producer" => trigger = "Open")

(* Only an open window is given the third transaction, and a producer that *)
(* keeps an interval is not started again.                                 *)
Few ==
    /\ trigger # "Open" => Len(submitted') <= 2
    /\ trigger = "IntervalEmpty" => runs' = 1

MCNext ==
    /\ \/ part = "pool" /\ Scheduling!PoolNext
              /\ UNCHANGED <<batchVars, vmVars, tx, verifierVars, callVars, producerVars>>
       \/ part = "batch" /\ Scheduling!BatchNext
              /\ UNCHANGED <<poolVars, vmVars, tx, verifierVars, callVars, producerVars>>
       \/ part = "machines" /\ Machines!Next
              /\ UNCHANGED <<poolVars, batchVars, tx, verifierVars, callVars, producerVars>>
       \/ part = "verifier" /\ Verifier!Next
              /\ UNCHANGED <<poolVars, batchVars, vmVars, callVars, producerVars>>
       \/ part = "calls" /\ Verifier!CallsNext
              /\ UNCHANGED <<poolVars, batchVars, vmVars, verifierVars, producerVars>>
       \/ part = "producer" /\ Producer!Next /\ Few
              /\ UNCHANGED <<poolVars, batchVars, vmVars, tx, verifierVars, callVars>>
    /\ UNCHANGED part

(* The fairness of the producer.                                           *)
MCSpec ==
    /\ MCInit
    /\ [][MCNext]_mcvars
    /\ WF_producerVars(Producer!Notify)
    /\ WF_producerVars(part = "producer" /\ Producer!Service)

(* What the pool promises: whatever the pool holds can be applied to its   *)
(* base state, and a replacement never lowers what the pool is worth.      *)
PoolKept ==
    /\ [](part = "pool" => Scheduling!PoolApplies)
    /\ [][part = "pool" => Scheduling!NoFeeLost]_mcvars

(* What BlockProducer promises: queued work is neither lost nor committed  *)
(* twice, and is committed only on the head it was built at.               *)
QueuedWorkKept ==
    part = "producer" => Producer!Accounted /\ Producer!CommittedOnce /\ Producer!WellBuilt

(* Queued work does not wait for ever beside a producer that is to take    *)
(* it.                                                                     *)
WorkIsTaken == Producer!WorkIsTaken

(* What the batch command promises: conflicting transactions run in order and *)
(* what passed applies.                                                    *)
PassedBatchApplies == part = "batch" => Scheduling!ConflictsInOrder /\ Scheduling!PassedBatchApplies

(* What VmScheduler promises: its tables agree, bytes arrive once and in   *)
(* order, and no virtual machine sleeps through what it waits for.         *)
BytesInOrder ==
    /\ [](part = "machines" => Machines!Consistent /\ Machines!BytesInOrder)
    /\ [][part = "machines" => Machines!LeavesNoneParked]_mcvars

(* What ScriptVerifier promises: a transaction that passes has had every   *)
(* script group run to its end, however the verification was cut.          *)
VerifiedInFull == part = "verifier" => Verifier!VerifiedInFull

(* What the calls of ScriptVerifier promise: a script that asks until it   *)
(* has everything gets the whole object, in order, and only what it may    *)
(* read.                                                                   *)
ReadsAreWhole == part = "calls" => Verifier!ReadsAreWhole

(* What a verification that ends with "scheduler deadlock" ought to mean   *)
(* (TransactionScriptVerifier::complete): no virtual machine could run.    *)
DeadlockIsReal == part = "machines" => Machines!DeadlockIsReal
=============================================================================
