--------------------------- MODULE CellScheduling ---------------------------
(***************************************************************************)
(* Transactions over the live Cells of a session.  The CellDAG is the      *)
(* order a batch of them must be executed in, and the layers of those that *)
(* may run together.  A batch is a sequence of transaction ids and a node  *)
(* is a position in it.  An edge says that the first node comes before the *)
(* second: the second consumes or reads a Cell the first creates, or both  *)
(* touch one conflict domain, one of them writes it, and the first is      *)
(* earlier in the batch.  The pool keeps transactions that can be put into *)
(* blocks; the batch command executes a batch layer by layer.              *)
(***************************************************************************)
EXTENDS Naturals, Sequences, FiniteSets, FiniteSetsExt, SequencesExt,
        Functions

-----------------------------------------------------------------------------
(***************************************************************************)
(* Atomic live-cell transitions: what one transaction needs of the live    *)
(* Cells and what it leaves of them.  A state is the function from the     *)
(* live out-points to their capacity; its root stands for the state, so    *)
(* two roots are equal exactly when the live Cells are.  Scripts and data  *)
(* are what the verifier says of them: a transaction's scripts pass or     *)
(* they do not, and cost its cycles.                                       *)
(*                                                                         *)
(* A transaction id is the hash of its inputs, dependencies and outputs,   *)
(* so no transaction refers to itself or to one that refers to it.         *)
(***************************************************************************)

CONSTANTS Tx,          \* raw transaction ids
          Body,        \* id -> inputs, cell_deps, outputs, size, cycles, passes
          MaxU64,      \* the largest capacity a u64 holds
          Occupied     \* capacity an output needs for its own bytes

Inputs(t) == Range(Body[t].inputs)

(* The Cells a transaction creates: OutPoint::new(txid, index) and the     *)
(* capacity of the output.                                                 *)
Created(t) ==
    [o \in {t} \X DOMAIN Body[t].outputs |-> Body[t].outputs[o[2]]]

input_capacity(state, t) == MapThenSumSet(LAMBDA o : state[o], Inputs(t))
output_capacity(t) == MapThenSumSet(LAMBDA o : Created(t)[o], DOMAIN Created(t))

(* Why a transaction is turned down.  Its inputs must be distinct and      *)
(* live, its outputs new and large enough for their bytes, no sum may      *)
(* overflow, and it may not create capacity; only an authorised cellbase   *)
(* has no inputs.  The verifier runs last.                                 *)
Refused(state, t, allow_cellbase) ==
    \/ Body[t].inputs = <<>> /\ ~allow_cellbase
    \/ ~IsInjective(Body[t].inputs)
    \/ ~ (Inputs(t) \subseteq DOMAIN state)
    \/ input_capacity(state, t) > MaxU64
    \/ \E o \in DOMAIN Created(t) : Created(t)[o] < Occupied \/ o \in DOMAIN state
    \/ output_capacity(t) > MaxU64
    \/ Body[t].inputs # <<>> /\ output_capacity(t) > input_capacity(state, t)
    \/ ~Body[t].passes

(* What an accepted transaction makes of the state.                        *)
apply_transaction(state, t) ==
    [o \in (DOMAIN state \ Inputs(t)) \union DOMAIN Created(t) |->
        IF o \in DOMAIN Created(t) THEN Created(t)[o] ELSE state[o]]

(* The fee is what the inputs hold beyond the outputs, and nothing for a   *)
(* cellbase.                                                               *)
fee(state, t) ==
    IF input_capacity(state, t) < output_capacity(t) THEN 0
    ELSE input_capacity(state, t) - output_capacity(t)

(* Transactions applied one after the other as one batch: [ok, state], and *)
(* the first refusal ends it.                                              *)
ApplyAll(state, list, allow_cellbase) ==
    FoldLeft(LAMBDA acc, t :
                 IF ~acc.ok \/ Refused(acc.state, t, allow_cellbase)
                 THEN [acc EXCEPT !.ok = FALSE]
                 ELSE [acc EXCEPT !.state = apply_transaction(@, t)],
             [ok |-> TRUE, state |-> state], list)

-----------------------------------------------------------------------------
CONSTANTS ZeroHash   \* the conflict hash no plan may name

cell_deps(t) == Body[t].cell_deps

(* A scheduler plan: the accesses a trusted source resolved for one        *)
(* transaction, at most one for each conflict domain, a write covering     *)
(* every read.                                                             *)
Aggregated(raw) ==
    [d \in {a[1] : a \in Range(raw)} |->
        IF <<d, "Write">> \in Range(raw) THEN "Write" ELSE "Read"]

PlanRefused(raw) == \E a \in Range(raw) : a[1] = ZeroHash

SchedulerPlan(t, raw) == [txid |-> t, accesses |-> Aggregated(raw)]

(* Two accesses of a domain conflict unless both read it.                  *)
can_parallel(a, b) ==
    \A d \in DOMAIN a \intersect DOMAIN b : a[d] = "Read" /\ b[d] = "Read"

-----------------------------------------------------------------------------
(* Physical edges: who creates a Cell comes before who consumes it or      *)
(* reads it as a dependency.                                               *)
Dependencies(list) ==
    {e \in (DOMAIN list) \X (DOMAIN list) :
        DOMAIN Created(list[e[1]]) \intersect
            (Inputs(list[e[2]]) \union cell_deps(list[e[2]])) # {}}

(* A batch may name a transaction once and consume a Cell once.            *)
BatchRefused(list) ==
    \/ ~IsInjective(list)
    \/ \E n \in DOMAIN list : ~IsInjective(Body[list[n]].inputs)
    \/ \E m, n \in DOMAIN list :
           m # n /\ Inputs(list[m]) \intersect Inputs(list[n]) # {}

(* Logical edges: conflicting accesses keep the order of the batch.        *)
Conflicts(list, plans) ==
    {e \in (DOMAIN list) \X (DOMAIN list) :
        e[1] < e[2] /\ ~can_parallel(plans[e[1]].accesses, plans[e[2]].accesses)}

PlansRefused(list, plans) ==
    \/ Len(plans) # Len(list)
    \/ \E n \in DOMAIN list : plans[n].txid # list[n]

predecessors(edges, n) == {e[1] : e \in {e \in edges : e[2] = n}}

(* Kahn's algorithm by layers: the next layer is what has every            *)
(* predecessor in an earlier one.  Nodes that never get there are on or    *)
(* behind a cycle.                                                         *)
compute_layers(nodes, edges) ==
    LET Layer(layers) ==
            LET placed == UNION Range(layers)
            IN  {n \in nodes \ placed : predecessors(edges, n) \subseteq placed}
        AddLayer(layers, k) ==
            IF Layer(layers) = {} THEN layers ELSE Append(layers, Layer(layers))
    IN  FoldLeft(AddLayer, <<>>, [k \in 1..Cardinality(nodes) |-> k])

(* The graph of a batch: build without plans, build_with_scheduler_plans   *)
(* with them.  A refusal has no graph.                                     *)
Refusal == [ok |-> FALSE, edges |-> {}, layers |-> <<>>]

Graph(list, edges) ==
    LET layers == compute_layers(DOMAIN list, edges)
        CycleDetected == UNION Range(layers) # DOMAIN list
    IN  IF CycleDetected THEN Refusal
        ELSE [ok |-> TRUE, edges |-> edges, layers |-> layers]

build(list) ==
    IF BatchRefused(list) THEN Refusal ELSE Graph(list, Dependencies(list))

build_with_scheduler_plans(list, plans) ==
    IF PlansRefused(list, plans) \/ BatchRefused(list) THEN Refusal
    ELSE Graph(list, Dependencies(list) \union Conflicts(list, plans))

(* The transactions of a graph, layer after layer and in node order within *)
(* a layer, without the nodes left out.                                    *)
ByLayer(list, layers, keep) ==
    FlattenSeq([k \in DOMAIN layers |->
        LET nodes == SetToSortSeq(layers[k] \intersect keep, <)
        IN  [i \in DOMAIN nodes |-> list[nodes[i]]]])

-----------------------------------------------------------------------------
(***************************************************************************)
(* The atomic transaction pool over one base state.  A transaction enters  *)
(* with an admission proof: the receipt of applying it to the base state   *)
(* or to what an earlier entry made of it, whether or not that entry is    *)
(* still in the pool.  It replaces the entries that consume the same       *)
(* Cells, with everything that descends from them, when it pays more.      *)
(* Every operation holds the pool's lock from its first read to the swap,  *)
(* so each is one step.                                                    *)
(***************************************************************************)

CONSTANTS Base,          \* live Cells of the opened session, the pool's base state
          max_size,      \* bound on the entries
          CyclesPerByte, \* what a byte counts for in cycles
          MaxOverlays    \* bound on the states a caller verifies over

VARIABLES txs,            \* id -> entry
          spent_outputs,  \* Cell -> id of the entry that consumes it
          stats,          \* total_txs, total_size and total_fee
          overlays        \* states a caller's copy of the engine has been in

poolVars == <<txs, spent_outputs, stats, overlays>>

-----------------------------------------------------------------------------
(* An admission proof: verify_transaction over the overlay accepts the     *)
(* transaction.  It carries the fee and the two state roots.               *)
VerifiedStateTransaction(t, overlay) == ~Refused(overlay, t, TRUE)

-----------------------------------------------------------------------------
Saturated(n) == Min({n, MaxU64})

effective_size(t) == Max({Saturated(Body[t].size * CyclesPerByte), Body[t].cycles})

TotalFee(ids) == MapThenSumSet(LAMBDA t : txs[t].fee, ids)
TotalSize(ids) == MapThenSumSet(effective_size, ids)
TotalBytes(ids) == MapThenSumSet(LAMBDA t : Body[t].size, ids)

(* A broken form of descendants_including: the children stay.              *)
descendants_includingNone(roots) == roots

(* The entries reached from the roots by dependents.                       *)
descendants_including(roots) ==
    LET reached[n \in 0..Cardinality(DOMAIN txs)] ==
            IF n = 0 THEN roots
            ELSE LET before == reached[n - 1]
                 IN  before \union UNION {txs[t].dependents : t \in before}
    IN  reached[Cardinality(DOMAIN txs)]

(* A replacement pays more than all it evicts, in total and for its size,  *)
(* and the sums over what it evicts fit their words.                       *)
validate_replacement(t, new_fee, evicted) ==
    /\ TotalFee(evicted) <= MaxU64
    /\ TotalSize(evicted) <= MaxU64
    /\ new_fee > TotalFee(evicted)
    /\ new_fee * TotalSize(evicted) > TotalFee(evicted) * effective_size(t)

(* What is left when a set of entries is removed: their Cells are free and *)
(* their parents forget them.                                              *)
Without(ids) ==
    [t \in DOMAIN txs \ ids |-> [txs[t] EXCEPT !.dependents = @ \ ids]]

SpentWithout(ids) ==
    [o \in {o \in DOMAIN spent_outputs : spent_outputs[o] \notin ids} |-> spent_outputs[o]]

PoolInit ==
    /\ txs = <<>>
    /\ spent_outputs = <<>>
    /\ stats = [total_txs |-> 0, total_size |-> 0, total_fee |-> 0]
    /\ overlays = {Base}

(* A transaction must extend the pool at one point: with no parent in the  *)
(* pool its proof is over the base state, with one over the state that     *)
(* parent leaves.  Two parents would need a proof over both.               *)
add(t, overlay) ==
    LET direct_conflicts == {spent_outputs[o] : o \in Inputs(t) \intersect DOMAIN spent_outputs}
        evicted == descendants_including(direct_conflicts)
        dependencies == {p \in DOMAIN txs \ evicted : \E o \in Inputs(t) : o[1] = p}
        new_fee == fee(overlay, t)
        entry == [fee |-> new_fee, admitted_state_root |-> overlay,
                  resulting_state_root |-> apply_transaction(overlay, t),
                  dependencies |-> dependencies, dependents |-> {}]
        kept == Without(evicted)
    IN  /\ t \notin DOMAIN txs
        /\ Cardinality(DOMAIN txs) - Cardinality(evicted) < max_size
        /\ Cardinality(dependencies) <= 1
        /\ \A p \in dependencies : overlay = txs[p].resulting_state_root
        /\ dependencies = {} => overlay = Base
        /\ VerifiedStateTransaction(t, overlay)
        /\ evicted # {} => validate_replacement(t, new_fee, evicted)
        /\ txs' = (t :> entry) @@
                  [p \in DOMAIN kept |->
                      IF p \in dependencies THEN [kept[p] EXCEPT !.dependents = @ \union {t}]
                      ELSE kept[p]]
        /\ spent_outputs' = [o \in Inputs(t) |-> t] @@ SpentWithout(evicted)
        /\ stats' = [total_txs |-> stats.total_txs - Cardinality(evicted) + 1,
                     total_size |-> stats.total_size - TotalBytes(evicted) + Body[t].size,
                     total_fee |-> Saturated(stats.total_fee - TotalFee(evicted) + new_fee)]
        /\ overlays' = overlays \union {entry.resulting_state_root}
        /\ Cardinality(overlays') <= MaxOverlays

remove_package(t) ==
    LET package == descendants_including({t})
    IN  /\ t \in DOMAIN txs
        /\ txs' = Without(package)
        /\ spent_outputs' = SpentWithout(package)
        /\ stats' = [total_txs |-> stats.total_txs - Cardinality(package),
                     total_size |-> stats.total_size - TotalBytes(package),
                     total_fee |-> stats.total_fee - TotalFee(package)]
        /\ UNCHANGED overlays

PoolNext ==
    \/ \E t \in Tx, overlay \in overlays :
           add(t, overlay)
    \/ \E t \in Tx : remove_package(t)

PoolSpec == PoolInit /\ [][PoolNext]_poolVars

-----------------------------------------------------------------------------
(* Everything in the pool can be put into blocks.  Its entries make a      *)
(* graph, and applied layer by layer to the base state none of them is     *)
(* refused; and each entry's own ancestors take the base state to exactly  *)
(* the root it was admitted at.  So no replacement or removal leaves       *)
(* behind a child of what it evicted, and no two entries consume one Cell. *)
PoolApplies ==
    LET Ancestry[t \in DOMAIN txs] ==
            IF txs[t].dependencies = {} THEN <<>>
            ELSE LET p == CHOOSE p \in txs[t].dependencies : TRUE
                 IN  Append(Ancestry[p], p)
        order == SetToSeq(DOMAIN txs)
        graph == build(order)
    IN  /\ graph.ok
        /\ ApplyAll(Base, ByLayer(order, graph.layers, DOMAIN order), TRUE).ok
        /\ \A t \in DOMAIN txs :
               ApplyAll(Base, Ancestry[t], TRUE) =
                   [ok |-> TRUE, state |-> txs[t].admitted_state_root]

(* Replacement never loses fees and the books stay right: a transaction    *)
(* that enters leaves the pool worth strictly more, or as much when it     *)
(* pays nothing and replaces nothing, whatever package it evicts, and the  *)
(* totals kept beside the entries are the totals of the entries.           *)
NoFeeLost ==
    LET worth(pool) == MapThenSumSet(LAMBDA t : pool[t].fee, DOMAIN pool)
    IN  /\ DOMAIN txs' \ DOMAIN txs # {} =>
               \/ worth(txs') > worth(txs)
               \/ worth(txs') = worth(txs) /\ DOMAIN txs \subseteq DOMAIN txs'
        /\ stats'.total_fee = worth(txs')
        /\ stats'.total_txs = Cardinality(DOMAIN txs')
        /\ stats'.total_size = TotalBytes(DOMAIN txs')

-----------------------------------------------------------------------------
(***************************************************************************)
(* A batch of transactions verified in parallel and then applied: the      *)
(* command builds the CellDAG, runs the verifier over each layer on a      *)
(* thread pool, and applies the batch to the live Cells when every         *)
(* transaction passed.  The verifier's answer for one transaction is any;  *)
(* within a layer the threads run in any order and at the same time.       *)
(***************************************************************************)

CONSTANTS Batches,   \* the batches a caller hands over
          Accesses   \* resolved accesses: functions id -> <<domain, mode>>s

VARIABLES list,          \* the batch
          resolved,      \* what its plans were made of, None without plans
          dag,           \* its graph
          layer,         \* layer the thread pool works on
          running,       \* nodes being verified
          layer_results, \* answers of the present layer
          results,       \* answers of the finished layers
          state,         \* live Cells of the session
          phase          \* idle, executing, or done

batchVars == <<list, resolved, dag, layer, running, layer_results, results, state, phase>>

None == <<>>

BatchInit ==
    /\ list = None
    /\ resolved = None
    /\ dag = Refusal
    /\ layer = 0
    /\ running = {}
    /\ layer_results = <<>>
    /\ results = <<>>
    /\ state = Base
    /\ phase = "idle"

-----------------------------------------------------------------------------
(* The graph is built, or the batch is refused and the command ends.       *)
Scheduled(l, accesses, graph) ==
    /\ list' = l
    /\ resolved' = accesses
    /\ dag' = graph
    /\ layer' = 1
    /\ phase' = IF graph.ok THEN "executing" ELSE "done"
    /\ UNCHANGED <<running, layer_results, results, state>>

(* verify_celltx_via_dag                                                   *)
Build(l) == phase = "idle" /\ Scheduled(l, None, build(l))

(* verify_celltx_via_dag_with_plans: every plan is bound to the raw        *)
(* transaction it was made for, and those of another list do not fit.      *)
BuildWithPlans(l, planned, accesses) ==
    LET plans == [n \in DOMAIN planned |-> SchedulerPlan(planned[n], accesses[planned[n]])]
    IN  /\ phase = "idle"
        /\ \A n \in DOMAIN planned : ~PlanRefused(accesses[planned[n]])
        /\ Scheduled(l, accesses, build_with_scheduler_plans(l, plans))

(* A thread takes a node of the layer.  One with a predecessor that did    *)
(* not succeed is not verified at all.                                     *)
Pending == dag.layers[layer] \ (running \union DOMAIN layer_results)

(* A broken form of failed_predecessors: it overlooks the ones that were   *)
(* not verified because of theirs.                                         *)
failed_predecessorsDirect(n) ==
    {p \in predecessors(dag.edges, n) : p \in DOMAIN results /\ results[p] = "Failed"}

failed_predecessors(n) ==
    {p \in predecessors(dag.edges, n) : p \notin DOMAIN results \/ results[p] # "Success"}

Executing == phase = "executing" /\ layer <= Len(dag.layers)

Start(n) ==
    /\ Executing
    /\ n \in Pending
    /\ IF failed_predecessors(n) = {}
       THEN running' = running \union {n} /\ UNCHANGED layer_results
       ELSE layer_results' = (n :> "DependencyFailed") @@ layer_results /\ UNCHANGED running
    /\ UNCHANGED <<list, resolved, dag, layer, results, state, phase>>

(* The verifier passes a transaction only when it finds every input: in    *)
(* the session's Cells, or among those the batch creates.                  *)
Resolvable(n) ==
    Inputs(list[n]) \subseteq
        DOMAIN Base \union UNION {DOMAIN Created(list[m]) : m \in DOMAIN list}

Finish(n, answer) ==
    /\ Executing
    /\ n \in running
    /\ answer = "Success" => Resolvable(n)
    /\ running' = running \ {n}
    /\ layer_results' = (n :> answer) @@ layer_results
    /\ UNCHANGED <<list, resolved, dag, layer, results, state, phase>>

(* The layer's answers are stored once all are in.                         *)
EndLayer ==
    /\ Executing
    /\ DOMAIN layer_results = dag.layers[layer]
    /\ results' = layer_results @@ results
    /\ layer_results' = <<>>
    /\ layer' = layer + 1
    /\ UNCHANGED <<list, resolved, dag, running, state, phase>>

(* Every transaction must have passed; the batch is then applied in the    *)
(* order it was given, on an engine of its own, and a refusal on the way   *)
(* leaves the session's Cells as they were.                                *)
Applied == ApplyAll(state, list, FALSE)

Commit ==
    /\ phase = "executing"
    /\ layer > Len(dag.layers)
    /\ phase' = "done"
    /\ state' = IF Range(results) \subseteq {"Success"} /\ Applied.ok
                THEN Applied.state ELSE state
    /\ UNCHANGED <<list, resolved, dag, layer, running, layer_results, results>>

(* The next command opens the session's state anew.                        *)
Open ==
    /\ phase = "done"
    /\ list' = None
    /\ resolved' = None
    /\ dag' = Refusal
    /\ layer' = 0
    /\ running' = {}
    /\ layer_results' = <<>>
    /\ results' = <<>>
    /\ state' = Base
    /\ phase' = "idle"

BatchNext ==
    \/ /\ phase = "idle"
       /\ \E l \in Batches :
           \/ Build(l)
           \/ \E planned \in {l, Reverse(l), Tail(l)}, accesses \in Accesses :
                  BuildWithPlans(l, planned, accesses)
    \/ \E n \in DOMAIN list : Start(n)
    \/ \E n \in DOMAIN list, answer \in {"Success", "Failed"} : Finish(n, answer)
    \/ EndLayer
    \/ Commit
    \/ Open

BatchSpec == BatchInit /\ [][BatchNext]_batchVars

-----------------------------------------------------------------------------
Reads(t) == Inputs(t) \union cell_deps(t)

Succeeded == {n \in DOMAIN results : results[n] = "Success"}

(* Two nodes touch one conflict domain and one of them writes it, as the   *)
(* accesses were resolved.                                                 *)
Conflicting(m, n) ==
    /\ resolved # None
    /\ \E a \in Range(resolved[list[m]]), b \in Range(resolved[list[n]]) :
           a[1] = b[1] /\ "Write" \in {a[2], b[2]}

(* A transaction is being verified only when those of the batch whose      *)
(* Cells it consumes or reads have passed, and every earlier one that      *)
(* conflicts with it in some domain has its answer: conflicting            *)
(* transactions of a batch take effect in the order of the batch however   *)
(* the threads of a layer are scheduled.                                   *)
ConflictsInOrder ==
    \A n \in running, m \in DOMAIN list :
        /\ DOMAIN Created(list[m]) \intersect Reads(list[n]) # {} => m \in Succeeded
        /\ m < n /\ Conflicting(m, n) => m \in DOMAIN results

(* Whatever the verifier says of each transaction, the ones that passed    *)
(* apply to the session's Cells in the order of the layers: none of them   *)
(* misses an input that a failed or skipped transaction was to create, or  *)
(* that another one consumed.  What a command commits is the whole batch,  *)
(* and the Cells that order of the layers leaves.                          *)
PassedBatchApplies ==
    LET scheduled == ApplyAll(Base, ByLayer(list, dag.layers, Succeeded), FALSE)
    IN  /\ scheduled.ok
        /\ state # Base => Succeeded = DOMAIN list /\ state = scheduled.state
=============================================================================
