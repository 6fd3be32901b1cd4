--------------------------- MODULE ScriptVerifier ---------------------------
(***************************************************************************)
(* The verifier of one transaction's scripts.  First the script groups and *)
(* the programs they run: the Cells grouped by script, the dependencies a  *)
(* program is looked for in, and what a group means by a source and an     *)
(* index.  Then the verifier (Init, Next), which runs the groups one after *)
(* another: at one go, or in slices of cycles that a caller resumes with   *)
(* whatever limits it likes.  Last the calls by which a running script     *)
(* reads its transaction (CallsInit, CallsNext).                           *)
(*                                                                         *)
(* A hash is the value hashed, with a number that orders the scripts.      *)
(* Indices begin at one.  A program is the steps its machines take, with   *)
(* the cycles of each, and its exit code; VmScheduler models the machines  *)
(* of one group.                                                           *)
(***************************************************************************)
EXTENDS Naturals, Sequences, FiniteSets, FiniteSetsExt, SequencesExt, Functions

CONSTANTS Cells,        \* out point -> lock, type and data
          Members,      \* data of a dependency group -> its out points
          Library,      \* code hash -> data, for the extended semantics
          NoScript      \* no type script

-----------------------------------------------------------------------------
(* Groups: the lock scripts of inputs, then the type scripts of inputs and *)
(* outputs, each in the order of their hashes.  An input whose lock is     *)
(* skipped by hash joins no group at all.                                  *)
Lock(t, i) == Cells[t.inputs[i]].lock
Type(t, i) == Cells[t.inputs[i]].type

Skipped(t, i) == ~t.skip_lock_groups /\ Lock(t, i) \in t.skip_lock_script_hashes

Sorted(indices) == SetToSortSeq(indices, <)

LockGroup(t, script) ==
    [script |-> script, group_type |-> "Lock",
     input_indices |-> Sorted({i \in DOMAIN t.inputs : Lock(t, i) = script}),
     output_indices |-> <<>>]

TypeGroup(t, script) ==
    [script |-> script, group_type |-> "Type",
     input_indices |-> Sorted({i \in DOMAIN t.inputs : ~Skipped(t, i) /\ Type(t, i) = script}),
     output_indices |-> Sorted({i \in DOMAIN t.outputs : t.outputs[i] = script})]

ByHash(scripts) == SetToSortSeq(scripts, LAMBDA a, b : a.hash < b.hash)

extract_script_groups(t) ==
    LET open == {i \in DOMAIN t.inputs : ~Skipped(t, i)}
        locks == IF t.skip_lock_groups THEN {} ELSE {Lock(t, i) : i \in open}
        types == ({Type(t, i) : i \in open} \union Range(t.outputs)) \ {NoScript}
        lock_list == ByHash(locks)
        type_list == ByHash(types)
    IN  [k \in DOMAIN lock_list |-> LockGroup(t, lock_list[k])]
            \o [k \in DOMAIN type_list |-> TypeGroup(t, type_list[k])]

(* Every input has to resolve.                                             *)
Resolves(t) == Range(t.inputs) \subseteq DOMAIN Cells

-----------------------------------------------------------------------------
(* Programs.  A dependency group stands for the Cells its data lists.      *)
Unfound == [found |-> FALSE, data |-> <<>>]
Found(data) == [found |-> TRUE, data |-> data]

expanded_code_dep_outpoints(t) ==
    FlattenSeq([k \in DOMAIN t.cell_deps |->
        LET dep == t.cell_deps[k]
        IN  IF dep.dep_type = "Code" THEN <<dep.out_point>> ELSE Members[Cells[dep.out_point].data]])

(* Every declared dependency is there, and every group's members are.      *)
DepsResolve(t) ==
    /\ \A k \in DOMAIN t.cell_deps :
           t.cell_deps[k].dep_type = "DepGroup" =>
               /\ t.cell_deps[k].out_point \in DOMAIN Cells
               /\ Cells[t.cell_deps[k].out_point].data \in DOMAIN Members
    /\ Range(expanded_code_dep_outpoints(t)) \subseteq DOMAIN Cells

Matching(t, script) ==
    LET deps == expanded_code_dep_outpoints(t)
        Matches(p) == IF script.hash_type = 1
                      THEN Cells[p].type # NoScript /\ Cells[p].type.hash = script.code_hash
                      ELSE Cells[p].data = script.code_hash
    IN  SelectSeq(deps, Matches)

(* By the hash of its data a program is unique; by its type script several *)
(* Cells may match, and must then hold the same data.                      *)
resolve_ckb_script(t, script) ==
    LET matching == IF DepsResolve(t) THEN Matching(t, script) ELSE <<>>
        data == {Cells[p].data : p \in Range(matching)}
    IN  IF \/ script.hash_type \notin {0, 1, 2, 4}
           \/ matching = <<>>
           \/ script.hash_type = 1 /\ Cardinality(data) > 1
        THEN Unfound ELSE Found(Cells[Head(matching)].data)

(* prepare_group_runtime: the program a group runs under either semantics. *)
ProgramOf(t, script) ==
    CASE t.semantics = "CkbStrict" -> resolve_ckb_script(t, script)
      [] t.semantics = "MyelinExtended" /\ script.hash_type = 0
             /\ script.code_hash \in DOMAIN Library -> Found(Library[script.code_hash])
      [] OTHER -> Unfound

-----------------------------------------------------------------------------
(* What a script means by a source and an index: an input, an output, a    *)
(* dependency or a header of the transaction, or nothing.  Under the       *)
(* strict semantics it sees the dependencies expanded.                     *)
Nothing == [kind |-> "nothing", at |-> 0]

VisibleDeps(t) ==
    IF t.semantics = "CkbStrict" THEN expanded_code_dep_outpoints(t)
    ELSE [k \in DOMAIN t.cell_deps |-> t.cell_deps[k].out_point]

At(kind, list, index) ==
    IF index \in DOMAIN list THEN [kind |-> kind, at |-> index] ELSE Nothing

Within(kind, list, indices, k) ==
    IF k \in DOMAIN indices THEN At(kind, list, indices[k]) ELSE Nothing

Named(t, group, source, index) ==
    CASE source = "Input" -> At("input", t.inputs, index)
      [] source = "Output" -> At("output", t.outputs, index)
      [] source = "CellDep" -> At("dep", VisibleDeps(t), index)
      [] source = "HeaderDep" -> At("header", t.header_deps, index)
      [] source = "GroupInput" -> Within("input", t.inputs, group.input_indices, index)
      [] source = "GroupOutput" -> Within("output", t.outputs, group.output_indices, index)
      [] source \in {"GroupCellDep", "GroupHeaderDep"} -> Nothing

(* The out point an input or a dependency refers to.                       *)
Points(t, item) == IF item.kind = "input" THEN t.inputs[item.at] ELSE VisibleDeps(t)[item.at]

(* Witnesses follow inputs, outputs and dependencies in that order.        *)
witness_index(t, item) ==
    CASE item.kind = "input" -> item.at
      [] item.kind = "output" -> Len(t.inputs) + item.at
      [] item.kind = "dep" -> Len(t.inputs) + Len(t.outputs) + item.at
      [] OTHER -> 0

-----------------------------------------------------------------------------
(* The verifier. *)
CONSTANTS Programs,     \* data -> steps and exit code
          Transactions, \* what may be verified, with the verifier's settings
          Limits,       \* limits a caller may pass
          max_cycles,   \* the verifier's own limit
          MaxSlices     \* bound on the slices of one verification

VARIABLES tx,       \* the transaction
          state,    \* TransactionState of a suspended verification
          outcome,  \* Running, or how the verification ended
          ran,      \* the groups that have run to their end, in order
          slices    \* slices so far

vars == <<tx, state, outcome, ran, slices>>

-----------------------------------------------------------------------------
(* The scheduler of a group takes the steps of its machines, turn after    *)
(* turn.  A step is instructions whose cycles the machine checks before it *)
(* executes them (run); a call that adds its cycles unchecked (call); such *)
(* a call that ends the turn (yield); or a machine brought into memory or  *)
(* put out of it, which the turn pays for and not the machine (swap).      *)
(* After the last step the root exits, which ends the last turn.           *)
Sum(numbers) == FoldLeft(LAMBDA a, b : a + b, 0, numbers)

Cost(program) == Sum([k \in DOMAIN program.steps |-> program.steps[k].cycles])

(* Where a group is between slices: the cycles of a turn that was broken   *)
(* off are kept with it, and forgotten when it is resumed.                 *)
Fresh == [done |-> 0, total_cycles |-> 0]

resume(at, limit) ==
    [done |-> at.done, total_cycles |-> at.total_cycles, left |-> limit,
     used |-> 0, iteration_cycles |-> 0, on |-> TRUE]

(* The cycles of a turn join the total, unless it would exceed the         *)
(* verifier's limit: then they are not stored at all.                      *)
consume_iteration_cycles(s) ==
    IF s.total_cycles + s.iteration_cycles > max_cycles THEN s.total_cycles
    ELSE s.total_cycles + s.iteration_cycles

(* The end of a turn: one that overran either limit ends the run, whatever *)
(* it did.                                                                 *)
iterate_outer(s) ==
    LET within == /\ s.total_cycles + s.iteration_cycles <= max_cycles
                  /\ s.iteration_cycles <= s.left
    IN  [s EXCEPT !.total_cycles = consume_iteration_cycles(s), !.used = 0,
                  !.iteration_cycles = 0, !.on = within,
                  !.left = IF within THEN @ - s.iteration_cycles ELSE 0]

BreakOff(s) == [iterate_outer(s) EXCEPT !.on = FALSE]

(* One step, with what the machine was given for this turn.                *)
iterate_inner(s, step) ==
    LET remaining_cycles == Min({max_cycles - s.total_cycles, s.left})
        paid == [s EXCEPT !.done = @ + 1, !.iteration_cycles = @ + step.cycles]
        taken == [paid EXCEPT !.used = @ + step.cycles]
    IN  CASE ~s.on -> s
          [] s.on /\ step.kind = "swap" -> paid
          [] s.on /\ step.kind = "run" ->
                 IF taken.used > remaining_cycles THEN BreakOff(s) ELSE taken
          [] s.on /\ step.kind = "call" ->
                 IF taken.used > remaining_cycles THEN BreakOff(taken) ELSE taken
          [] s.on /\ step.kind = "yield" -> iterate_outer(taken)

run_with_mode(program, at, limit) ==
    LET end == FoldLeft(iterate_inner, resume(at, limit),
                        SubSeq(program.steps, at.done + 1, Len(program.steps)))
    IN  IF end.on THEN iterate_outer(end) ELSE end

Completed(cycles) == [result |-> "Completed", cycles |-> cycles, at |-> Fresh]
Suspended(at) == [result |-> "Suspended", cycles |-> 0, at |-> at]
Err(error) == [result |-> error, cycles |-> 0, at |-> Fresh]

(* The root had exited before this run began.                              *)
terminated(program, at) == at.done = Len(program.steps)

(* The exit code is read from the root's machine.  A root that exited in a *)
(* turn that overran is suspended, and a machine restored from a snapshot  *)
(* has the exit code zero.                                                 *)
terminated_result(program, at, now) ==
    IF terminated(program, at) THEN Completed(at.total_cycles)
    ELSE IF ~now.on THEN Suspended([done |-> now.done, total_cycles |-> now.total_cycles])
    ELSE IF program.exit # 0 THEN Err("NonZeroExit") ELSE Completed(now.total_cycles)

Run(resolved, limit, at) ==
    IF resolved.found
    THEN terminated_result(Programs[resolved.data], at,
                           run_with_mode(Programs[resolved.data], at, limit))
    ELSE Err("NotFound")

verify_script_group_chunk(t, group, limit, at) == Run(ProgramOf(t, group.script), limit, at)

(* At one go a group that does not end within the limit is an error.       *)
AtOneGo(chunk) == IF chunk.result = "Suspended" THEN Err("CyclesExceeded") ELSE chunk

verify_script_group(t, group, limit) ==
    AtOneGo(verify_script_group_chunk(t, group, limit, Fresh))

-----------------------------------------------------------------------------
(* A verification on its way through the groups: the group it is at, where *)
(* in that group, the cycles of the groups before it, and whether it goes  *)
(* on.                                                                     *)
TransactionState(at, current, current_cycles, limit_cycles) ==
    [at |-> at, current |-> current, current_cycles |-> current_cycles,
     limit_cycles |-> limit_cycles]

Begin(current, cycles, done) ==
    [go |-> "on", at |-> Fresh, current |-> current, cycles |-> cycles, ran |-> done]

(* A broken form of Boundary: the group that has just ended is named as    *)
(* the one to resume.                                                      *)
BoundarySame(t, pass, limit, checked) ==
    IF checked /\ pass.current < Len(extract_script_groups(t)) /\ pass.cycles >= limit
    THEN [pass EXCEPT !.go = "Suspended"]
    ELSE [pass EXCEPT !.current = @ + 1]

(* After a group has ended: with others to come and nothing left of the    *)
(* limit the verification is suspended before the next one.                *)
Boundary(t, pass, limit, checked) ==
    IF checked /\ pass.current < Len(extract_script_groups(t)) /\ pass.cycles >= limit
    THEN [pass EXCEPT !.go = "Suspended", !.current = @ + 1]
    ELSE [pass EXCEPT !.current = @ + 1]

(* One group of a pass, from its beginning or where it was suspended.      *)
After(t, group, pass, chunk, limit, checked) ==
    CASE chunk.result = "Completed" ->
             Boundary(t, [pass EXCEPT !.at = Fresh, !.cycles = @ + chunk.cycles,
                                      !.ran = Append(@, group)], limit, checked)
      [] chunk.result = "Suspended" -> [pass EXCEPT !.go = "Suspended", !.at = chunk.at]
      [] OTHER -> [pass EXCEPT !.go = chunk.result]

Step(t, group, pass, limit, checked) ==
    IF pass.cycles > limit THEN [pass EXCEPT !.go = "Suspended"]
    ELSE After(t, group, pass, verify_script_group_chunk(t, group, limit - pass.cycles, pass.at),
               limit, checked)

(* A pass that went through all its groups has completed.                  *)
Settled(pass) == IF pass.go = "on" THEN [pass EXCEPT !.go = "Completed"] ELSE pass

(* The groups of a pass one after another until it stops.  The check after *)
(* a group is made from a given group on: the first one, the one after the *)
(* group a resumed verification begins with, or none.                      *)
Pass(t, first, limit, checked_from) ==
    LET groups == extract_script_groups(t)
        Go(pass, k) ==
            IF pass.go = "on" /\ pass.current = k
            THEN Step(t, groups[k], pass, limit, k >= checked_from)
            ELSE pass
    IN  Settled(FoldLeft(Go, first, [k \in DOMAIN groups |-> k]))

(* verify_with_cycles: the groups share the verifier's limit.              *)
Charged(pass, group, chunk) ==
    IF chunk.result # "Completed" THEN [pass EXCEPT !.go = chunk.result]
    ELSE [pass EXCEPT !.cycles = @ + chunk.cycles, !.ran = Append(@, group)]

Direct(t) ==
    LET Go(pass, group) ==
            IF pass.go # "on" THEN pass
            ELSE IF pass.cycles > max_cycles THEN [pass EXCEPT !.go = "CyclesExceeded"]
            ELSE Charged(pass, group, verify_script_group(t, group, max_cycles - pass.cycles))
    IN  Settled(FoldLeft(Go, Begin(1, 0, <<>>), extract_script_groups(t)))

-----------------------------------------------------------------------------
Running == [result |-> "Running", cycles |-> 0]

Init ==
    /\ tx \in Transactions
    /\ state = <<>>
    /\ outcome = Running
    /\ ran = <<>>
    /\ slices = 0

Ended(result, cycles, groups) ==
    /\ outcome' = [result |-> result, cycles |-> cycles]
    /\ ran' = groups
    /\ UNCHANGED <<tx, state>>

verify_with_cycles ==
    /\ outcome = Running /\ slices = 0
    /\ slices' = 1
    /\ IF Resolves(tx) THEN \E end \in {Direct(tx)} : Ended(end.go, end.cycles, end.ran)
       ELSE Ended("NotFound", 0, <<>>)

(* What a slice leaves: an end, or a state to resume from.                 *)
Sliced(end, limit) ==
    IF end.go = "Suspended"
    THEN /\ state' = TransactionState(end.at, end.current, end.cycles, limit)
         /\ ran' = end.ran
         /\ UNCHANGED <<tx, outcome>>
    ELSE Ended(end.go, end.cycles, end.ran)

resumable_verify(limit) ==
    /\ outcome = Running /\ slices = 0
    /\ slices' = 1
    /\ IF Resolves(tx) THEN Sliced(Pass(tx, Begin(1, 0, <<>>), limit, 1), limit)
       ELSE Ended("NotFound", 0, <<>>)

(* The next limit a caller computes from a step and its own maximum.       *)
next_limit_cycles(step, maximum) ==
    Min({Max({state.limit_cycles + step, state.current_cycles}), maximum})

Resumed == [Begin(state.current, state.current_cycles, ran) EXCEPT !.at = state.at]

resume_from_state(limit) ==
    /\ outcome = Running /\ state # <<>> /\ slices < MaxSlices
    /\ slices' = slices + 1
    /\ Sliced(Pass(tx, Resumed, limit, state.current + 1), limit)

(* The last slice: what still does not end has exceeded its cycles.        *)
complete(maximum) ==
    /\ outcome = Running /\ state # <<>>
    /\ slices' = slices + 1
    /\ \E end \in {Pass(tx, Resumed, maximum, Len(extract_script_groups(tx)) + 1)} :
           IF maximum < state.current_cycles \/ end.go = "Suspended"
           THEN Ended("CyclesExceeded", end.cycles, end.ran)
           ELSE Ended(end.go, end.cycles, end.ran)

Next ==
    \/ verify_with_cycles
    \/ \E limit \in Limits :
           \/ resumable_verify(limit)
           \/ resume_from_state(limit)
           \/ complete(limit)
    \/ \E step, maximum \in Limits :
           state # <<>> /\ resume_from_state(next_limit_cycles(step, maximum))

Spec == Init /\ [][Next]_vars

-----------------------------------------------------------------------------
(* The Cells each script has a say over, by their definition: no group     *)
(* leaves one out or names a foreign one, but for the inputs whose lock is *)
(* skipped by hash.                                                        *)
GroupsCover(t) ==
    LET groups == Range(extract_script_groups(t))
        seen(i) == ~Skipped(t, i)
    IN  /\ \A i \in DOMAIN t.inputs :
               /\ (\E g \in groups : g.group_type = "Lock" /\ i \in Range(g.input_indices)
                                     /\ g.script = Lock(t, i))
                      <=> (seen(i) /\ ~t.skip_lock_groups)
               /\ Type(t, i) # NoScript =>
                      ((\E g \in groups : g.group_type = "Type" /\ i \in Range(g.input_indices)
                                          /\ g.script = Type(t, i)) <=> seen(i))
        /\ \A i \in DOMAIN t.outputs : t.outputs[i] # NoScript =>
               \E g \in groups : g.group_type = "Type" /\ i \in Range(g.output_indices)
                                 /\ g.script = t.outputs[i]
        /\ \A g \in groups :
               /\ \A k \in DOMAIN g.input_indices :
                      g.script \in {Lock(t, g.input_indices[k]), Type(t, g.input_indices[k])}
               /\ \A k \in DOMAIN g.output_indices : t.outputs[g.output_indices[k]] = g.script

(* Which program a script runs does not depend on the order in which the   *)
(* transaction lists its dependencies.                                     *)
ProgramsDetermined(t) ==
    \A order \in SetToSeqs(DOMAIN t.cell_deps), g \in Range(extract_script_groups(t)) :
        ProgramOf([t EXCEPT !.cell_deps = [k \in DOMAIN order |-> t.cell_deps[order[k]]]], g.script)
            = ProgramOf(t, g.script)

TypeOK ==
    /\ outcome.result \in {"Running", "Completed", "CyclesExceeded", "NonZeroExit", "NotFound"}
    /\ state # <<>> => state.current \in DOMAIN extract_script_groups(tx)
    /\ slices \in 0..(MaxSlices + 1)

(* A root may exit in a turn that brought a machine into memory.           *)
SwapsLast(program) ==
    \E k \in DOMAIN program.steps :
        /\ program.steps[k].kind = "swap"
        /\ \A n \in k..Len(program.steps) : program.steps[n].kind # "yield"

(* A transaction that passes has had every group run to its end, once and  *)
(* in order, however the verification was cut into slices and with         *)
(* whatever limits it was resumed, and every group exited with success: of *)
(* a verification in slices this excepts only a group whose root exits in  *)
(* a turn that swaps machines, since an overrun of that turn loses the     *)
(* exit code.  The cycles reported are never more than were used, and fall *)
(* short only where slices were resumed of a group that alone uses more    *)
(* than the verifier's limit.  A verification that fails with an exit code *)
(* has a group that fails.  The groups cover the Cells their scripts       *)
(* answer for, and their programs are determined by what the scripts       *)
(* commit to.                                                              *)
VerifiedInFull ==
    LET groups == extract_script_groups(tx)
        program(g) == Programs[ProgramOf(tx, g.script).data]
        Sound(g) == /\ ProgramOf(tx, g.script).found
                    /\ program(g).exit = 0 \/ (slices > 1 /\ SwapsLast(program(g)))
        cost(list) == Sum([k \in DOMAIN list |-> Cost(program(list[k]))])
        Accounts(cycles, list) ==
            /\ cycles <= cost(list)
            /\ \/ cycles = cost(list)
               \/ slices > 1 /\ \E g \in Range(list) : Cost(program(g)) > max_cycles
    IN  /\ TypeOK
        /\ Resolves(tx) =>
               /\ GroupsCover(tx)
               /\ ProgramsDetermined(tx)
               /\ IsPrefix(ran, groups)
               /\ \A g \in Range(ran) : Sound(g)
               /\ outcome.result = "Completed" => ran = groups /\ Accounts(outcome.cycles, groups)
               /\ outcome.result = "NonZeroExit" =>
                      program(groups[Len(ran) + 1]).exit # 0
               /\ outcome.result = "NotFound" => ~ProgramOf(tx, groups[Len(ran) + 1].script).found
               /\ state # <<>> =>
                      Accounts(state.current_cycles, SubSeq(groups, 1, state.current - 1))

-----------------------------------------------------------------------------
(* The calls.  A script asks for an object (a Cell or a field of it, its   *)
(* data, an input, a witness, a header, a signature hash, its own script,  *)
(* the transaction) and reads it in as many calls as its buffer makes      *)
(* necessary, each at the offset it has got to; or it maps, executes or    *)
(* spawns a piece of data as a program.                                    *)
(*                                                                         *)
(* Bytes are positions within an object; what an object encodes to is      *)
(* abstracted to its length.  A call with a source, a place or a field     *)
(* that does not parse faults the script and is left out.                  *)
CONSTANTS Headers,       \* hashes of the headers the provider has
          CellHeader,    \* out point -> hash of the header of its block
          HeaderCell,    \* header hash -> a Cell of its block
          Length,        \* data -> its length
          EncodedLength, \* length of any other object
          Sizes,         \* buffer sizes
          Bounds,        \* offsets and lengths of pieces of programs
          Indices        \* indices a script may name

VARIABLES group,   \* the group that runs
          call,    \* what is being read, None at the beginning
          got,     \* bytes read of it so far
          answer   \* how it was answered, None while it is being read

callsVars == <<tx, group, call, got, answer>>

None == <<>>

SUCCESS == "SUCCESS"
INDEX_OUT_OF_BOUND == "INDEX_OUT_OF_BOUND"
ITEM_MISSING == "ITEM_MISSING"
SLICE_OUT_OF_BOUND == "SLICE_OUT_OF_BOUND"
WRONG_FORMAT == "WRONG_FORMAT"

Sources == {"Input", "Output", "CellDep", "HeaderDep",
            "GroupInput", "GroupOutput", "GroupCellDep", "GroupHeaderDep"}

(* An answer: a code, and the object of a success with its length.         *)
Refuse(code) == [code |-> code, object |-> None, length |-> 0]
Data(object, length) == [code |-> SUCCESS, object |-> object, length |-> length]

(* A datum of the transaction's outputs may be left out of its list.       *)
OutputData(t, at) ==
    IF at \in DOMAIN t.outputs_data THEN Data(<<"output data", at>>, Length[t.outputs_data[at]])
    ELSE Refuse(ITEM_MISSING)

-----------------------------------------------------------------------------
(* LOAD_CELL and LOAD_CELL_BY_FIELD.  Only the extended semantics find a   *)
(* Cell through a header.                                                  *)
resolve_cell(t, item) ==
    CASE item.kind \in {"input", "dep"} ->
             IF Points(t, item) \in DOMAIN Cells THEN Data(<<"cell", Points(t, item)>>, EncodedLength)
             ELSE Refuse(ITEM_MISSING)
      [] item.kind = "output" -> Data(<<"output", item.at>>, EncodedLength)
      [] item.kind = "header" /\ t.semantics = "MyelinExtended" ->
             IF t.header_deps[item.at] \in DOMAIN HeaderCell
             THEN Data(<<"cell", HeaderCell[t.header_deps[item.at]]>>, EncodedLength)
             ELSE Refuse(ITEM_MISSING)
      [] OTHER -> Refuse(INDEX_OUT_OF_BOUND)

(* The type script of a Cell that has none is missing.                     *)
TypeScript(t, object) ==
    IF object[1] = "output" THEN t.outputs[object[2]] ELSE Cells[object[2]].type

serialize_cell_field(t, cell) ==
    IF TypeScript(t, cell.object) = NoScript THEN Refuse(ITEM_MISSING)
    ELSE Data(<<"type of", cell.object>>, EncodedLength)

load_type(t, item) ==
    IF resolve_cell(t, item).code = SUCCESS THEN serialize_cell_field(t, resolve_cell(t, item))
    ELSE resolve_cell(t, item)

(* LOAD_CELL_DATA.                                                         *)
get_cell_data(t, item) ==
    CASE item.kind = "output" -> OutputData(t, item.at)
      [] item.kind # "output" /\ resolve_cell(t, item).code = SUCCESS ->
             LET point == resolve_cell(t, item).object[2]
             IN  Data(<<"cell data", point>>, Length[Cells[point].data])
      [] OTHER -> resolve_cell(t, item)

(* LOAD_INPUT and LOAD_SIGNATURE_HASH.                                     *)
get_input(item) ==
    IF item.kind = "input" THEN Data(<<"input", item.at>>, EncodedLength)
    ELSE Refuse(INDEX_OUT_OF_BOUND)

(* A signature hash is of one of six types; any other is missing.          *)
signature_hash(item, known_type) ==
    CASE item.kind # "input" -> Refuse(INDEX_OUT_OF_BOUND)
      [] item.kind = "input" /\ ~known_type -> Refuse(ITEM_MISSING)
      [] OTHER -> Data(<<"signature hash", item.at>>, EncodedLength)

(* LOAD_WITNESS.                                                           *)
get_witness(t, item) ==
    IF witness_index(t, item) \in DOMAIN t.witnesses
    THEN Data(<<"witness", witness_index(t, item)>>, Length[t.witnesses[witness_index(t, item)]])
    ELSE Refuse(INDEX_OUT_OF_BOUND)

(* LOAD_HEADER.  Under the strict semantics a header reached through a     *)
(* Cell must be among the transaction's header dependencies.               *)
HeaderOf(hash) ==
    IF hash \in Headers THEN Data(<<"header", hash>>, EncodedLength) ELSE Refuse(ITEM_MISSING)

(* A broken form of get_ckb_header_by_outpoint: an undeclared header will  *)
(* do.                                                                     *)
get_ckb_header_by_outpointAny(t, point) ==
    IF point \in DOMAIN CellHeader THEN HeaderOf(CellHeader[point]) ELSE Refuse(ITEM_MISSING)

get_ckb_header_by_outpoint(t, point) ==
    IF point \in DOMAIN CellHeader /\ CellHeader[point] \in Range(t.header_deps)
    THEN HeaderOf(CellHeader[point]) ELSE Refuse(ITEM_MISSING)

get_ckb_header(t, item) ==
    CASE item.kind \in {"input", "dep"} -> get_ckb_header_by_outpoint(t, Points(t, item))
      [] item.kind = "header" -> HeaderOf(t.header_deps[item.at])
      [] OTHER -> Refuse(INDEX_OUT_OF_BOUND)

get_header(t, item) ==
    CASE item.kind \in {"input", "dep"} ->
             IF Points(t, item) \in DOMAIN CellHeader THEN HeaderOf(CellHeader[Points(t, item)])
             ELSE Refuse(ITEM_MISSING)
      [] item.kind = "header" -> HeaderOf(t.header_deps[item.at])
      [] item.kind = "output" -> Refuse(ITEM_MISSING)
      [] item.kind = "nothing" -> Refuse(INDEX_OUT_OF_BOUND)

load_header(t, item) ==
    IF t.semantics = "CkbStrict" THEN get_ckb_header(t, item) ELSE get_header(t, item)

(* What a call is answered with.  The signature hash is a call of the      *)
(* extended semantics only.                                                *)
Calls(t) ==
    {"cell", "type", "data", "input", "witness", "header", "script", "transaction"}
        \union (IF t.semantics = "MyelinExtended" THEN {"signature hash", "other hash"} ELSE {})

Answer(t, g, kind, source, index) ==
    LET item == Named(t, g, source, index)
    IN  CASE kind = "cell" -> resolve_cell(t, item)
          [] kind = "type" -> load_type(t, item)
          [] kind = "data" -> get_cell_data(t, item)
          [] kind = "input" -> get_input(item)
          [] kind = "witness" -> get_witness(t, item)
          [] kind = "header" -> load_header(t, item)
          [] kind \in {"signature hash", "other hash"} -> signature_hash(item, kind = "signature hash")
          [] kind = "script" -> Data(<<"script", g.script>>, EncodedLength)
          [] kind = "transaction" -> Data(<<"transaction">>, EncodedLength)

-----------------------------------------------------------------------------
(* Copying: from the offset, clamped to the length, as much as the buffer  *)
(* holds; the size of what there is from the offset on is reported.        *)
store_data(length, offset, size) ==
    LET from == Min({length, offset})
        full_size == length - from
    IN  [full_size |-> full_size,
         bytes |-> [k \in 1..Min({size, full_size}) |-> from + k]]

(* A piece of data as a program: mapped by LOAD_CELL_DATA_AS_CODE, or      *)
(* executed or spawned, where a length of zero stands for all the rest.    *)
as_code(length, offset, size, memory) ==
    IF offset >= length \/ offset + size > length \/ size > memory
    THEN SLICE_OUT_OF_BOUND ELSE SUCCESS

exec_slice(length, offset, size) ==
    CASE offset >= length \/ (size # 0 /\ offset + size > length) -> <<>>
      [] size = 0 /\ offset < length -> [k \in 1..(length - offset) |-> offset + k]
      [] OTHER -> [k \in 1..size |-> offset + k]

(* The data a program is taken from.  A witness is named by its index      *)
(* whether or not there is an input, output or dependency at it.           *)
load_cell_data(t, g, source, index) ==
    IF source = "HeaderDep" THEN Refuse(INDEX_OUT_OF_BOUND)
    ELSE get_cell_data(t, Named(t, g, source, index))

witness_index_for_source(t, g, source, index) ==
    CASE source = "Input" -> index
      [] source = "Output" -> Len(t.inputs) + index
      [] source = "CellDep" -> Len(t.inputs) + Len(t.outputs) + index
      [] source = "HeaderDep" -> 0
      [] OTHER -> witness_index(t, Named(t, g, source, index))

ProgramData(t, g, place, source, index) ==
    LET at == witness_index_for_source(t, g, source, index)
    IN  CASE place = "CellData" -> load_cell_data(t, g, source, index)
          [] place = "Witness" /\ at \in DOMAIN t.witnesses ->
                 Data(<<"witness", at>>, Length[t.witnesses[at]])
          [] OTHER -> Refuse(INDEX_OUT_OF_BOUND)

-----------------------------------------------------------------------------
CallsInit ==
    /\ tx \in {t \in Transactions : Resolves(t)}
    /\ group \in Range(extract_script_groups(tx))
    /\ call = None
    /\ got = <<>>
    /\ answer = None

(* The script turns to an object.  Calls share no state: one is enough.    *)
Ask(kind, source, index) ==
    /\ call = None
    /\ kind \in Calls(tx)
    /\ call' = <<kind, source, index>>
    /\ got' = <<>>
    /\ answer' = None
    /\ UNCHANGED <<tx, group>>

(* One call of it, at the offset the script has got to.  The object is     *)
(* read when what there was from there on fitted the buffer.               *)
Load(size) ==
    LET found == Answer(tx, group, call[1], call[2], call[3])
        stored == store_data(found.length, Len(got), size)
    IN  /\ call # None /\ answer = None
        /\ got' = IF found.code = SUCCESS THEN got \o stored.bytes ELSE got
        /\ answer' = IF found.code # SUCCESS \/ stored.full_size <= size THEN found ELSE None
        /\ UNCHANGED <<tx, group, call>>

load_cell_data_as_code(source, index, offset, size, memory) ==
    LET found == get_cell_data(tx, Named(tx, group, source, index))
        code == IF found.code = SUCCESS THEN as_code(found.length, offset, size, memory) ELSE found.code
    IN  /\ call = None
        /\ call' = <<"code", source, index>>
        /\ answer' = [found EXCEPT !.code = code]
        /\ got' = IF code = SUCCESS THEN [k \in 1..size |-> offset + k] ELSE <<>>
        /\ UNCHANGED <<tx, group>>

(* A slice that is no program is refused.                                  *)
exec(place, source, index, offset, size, is_elf) ==
    LET found == ProgramData(tx, group, place, source, index)
        slice == exec_slice(found.length, offset, size)
        code == CASE found.code # SUCCESS -> found.code
                  [] found.code = SUCCESS /\ slice = <<>> -> SLICE_OUT_OF_BOUND
                  [] OTHER -> IF is_elf THEN SUCCESS ELSE WRONG_FORMAT
    IN  /\ call = None
        /\ call' = <<place, source, index>>
        /\ answer' = [found EXCEPT !.code = code]
        /\ got' = IF code = SUCCESS THEN slice ELSE <<>>
        /\ UNCHANGED <<tx, group>>

CallsNext ==
    \/ \E kind \in Calls(tx), source \in Sources, index \in Indices : Ask(kind, source, index)
    \/ \E size \in Sizes : Load(size)
    \/ /\ call = None
       /\ \E source \in Sources, index \in Indices, offset, size \in Bounds :
              \/ \E memory \in Bounds : load_cell_data_as_code(source, index, offset, size, memory)
              \/ \E place \in {"CellData", "Witness"}, is_elf \in BOOLEAN :
                     exec(place, source, index, offset, size, is_elf)

CallsSpec == CallsInit /\ [][CallsNext]_callsVars

-----------------------------------------------------------------------------
(* The inputs and outputs a script answers for, by definition.             *)
Own(t, g) ==
    [GroupInput |-> Sorted({i \in DOMAIN t.inputs :
                               /\ ~Skipped(t, i)
                               /\ g.script = IF g.group_type = "Lock" THEN Lock(t, i) ELSE Type(t, i)}),
     GroupOutput |-> Sorted({i \in DOMAIN t.outputs :
                                g.group_type = "Type" /\ t.outputs[i] = g.script})]

Absolute(source) == IF source = "GroupInput" THEN "Input" ELSE "Output"

(* What is found is what the transaction declares: the Cells it spends or  *)
(* depends on and, under the strict semantics, the headers it names.       *)
Declared(t, object) ==
    /\ object[1] \in {"cell", "cell data"} =>
           \/ object[2] \in Range(t.inputs) \union Range(VisibleDeps(t))
           \/ t.semantics = "MyelinExtended" /\ \E h \in Range(t.header_deps) :
                  h \in DOMAIN HeaderCell /\ object[2] = HeaderCell[h]
    /\ object[1] = "header" /\ t.semantics = "CkbStrict" => object[2] \in Range(t.header_deps)

CallsTypeOK ==
    /\ call # None => call[2] \in Sources /\ call[3] \in Indices
    /\ answer # None => answer.code \in {SUCCESS, INDEX_OUT_OF_BOUND, ITEM_MISSING,
                                     SLICE_OUT_OF_BOUND, WRONG_FORMAT}

(* A script that reads an object call by call, with whatever buffers, ends *)
(* up with each of its bytes once and in order; a program it maps or       *)
(* executes lies within its data and follows on without a gap.  An index   *)
(* into its own group means exactly the inputs and outputs that carry its  *)
(* script, and nothing is found that the transaction does not declare.     *)
ReadsAreWhole ==
    /\ CallsTypeOK
    /\ got # <<>> => \A k \in DOMAIN got : got[k] = got[1] + k - 1
    /\ answer # None /\ answer.code = SUCCESS =>
           /\ got # <<>> => got[Len(got)] <= answer.length
           /\ call[1] \in Calls(tx) => Len(got) = answer.length
           /\ Declared(tx, answer.object)
    /\ answer # None /\ call[1] \in Calls(tx) /\ call[2] \in {"GroupInput", "GroupOutput"} =>
           LET own == Own(tx, group)[call[2]]
           IN  answer = IF call[3] \in DOMAIN own
                        THEN Answer(tx, group, call[1], Absolute(call[2]), own[call[3]])
                        ELSE Answer(tx, group, call[1], "GroupCellDep", 1)
=============================================================================
