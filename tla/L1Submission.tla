----------------------------- MODULE L1Submission -----------------------------
(***************************************************************************)
(* The last stage of a settlement: the operator's commands hand a package  *)
(* to the CKB node, observe what the chain makes of it, and decide from    *)
(* five reports whether the submission is ready.  Every command is a       *)
(* process of its own: it reads report files that earlier commands wrote,  *)
(* asks the node one question at a time, and writes one file.  Between two *)
(* questions the chain grows, reorganises, and takes transactions of       *)
(* others; a request that fails ends the command and nothing is written.   *)
(*                                                                         *)
(* A transaction is named by the plan it is built from: the arguments that *)
(* its raw hash commits to.  Signatures are witnesses and stay out of it.  *)
(* A report that no decision can rest on (not live, not within policy, not *)
(* committed, not deep enough) is kept as None: the file says no.          *)
(***************************************************************************)
EXTENDS Naturals, Sequences, FiniteSets, FiniteSetsExt, SequencesExt, Functions

CONSTANTS Cells,        \* out-point -> capacity, lock and data of the Cell
          Plan,         \* name -> arguments of a submission
          Menus,        \* which plans meet in a behaviour
          Paths,        \* names of submission reports
          InclusionPaths,
          Confirmations,   \* what a finality command may ask for
          MinFee, FeeRate, MaxFee, MaxU64,
          MaxReorg,     \* blocks a reorganisation can take back
          MaxHeight, MaxForks,  \* bounds on the chain
          MaxDecisions          \* the operator stops after so many

VARIABLES chain,        \* blocks, [fork, txs]; the position is the number
          fork,         \* reorganisations so far
          pool,         \* transactions in the node's pool
          submissions,  \* path -> submission report
          inclusions,   \* path -> inclusion report
          context, economics, stability, finality,   \* the other reports
          decisions,    \* readiness reports that say ready
          cmd,          \* the command at work
          menu,         \* the plans of this behaviour
          requeried,    \* ghost: stability was asked after finality
          held,         \* ghost: transactions with a block they were ever in
          sent          \* ghost: transactions the operator's command sent

node == <<chain, fork, pool, held, sent>>
reports == <<submissions, inclusions, context, economics, stability, finality, decisions>>
vars == <<node, reports, cmd, menu, requeried>>

None == <<>>

-----------------------------------------------------------------------------
(* The transaction of a plan.  A carrier spends one funding Cell; a final  *)
(* settlement also consumes the authority Cell of its package and reads    *)
(* the Cell that publishes the data.                                       *)
compact(p) == Plan[p].role \in {"carrier", "final-l1-script"}

FinalSettlement(p) ==
    Plan[p].role = "final-l1-script" /\ Plan[p].package_kind = "settlement"

inputs(p) == <<Plan[p].input>> \o Plan[p].authority_input
cell_deps(p) == Plan[p].evidence_cell_dep \o <<Plan[p].lock_dep, Plan[p].verifier_dep>>

Capacity(of, outpoints) == MapThenSumSet(LAMBDA o : of[o].capacity, outpoints)

total_input_capacity(p) == Capacity(Plan[p].declared, Range(inputs(p)))

change_capacity(p) == total_input_capacity(p) - Plan[p].carrier_capacity - Plan[p].fee

output_capacity(p) == total_input_capacity(p) - Plan[p].fee

(* What the command demands of the arguments and the package before it     *)
(* asks the node anything.                                                 *)
CapacitySuffices(p) ==
    /\ total_input_capacity(p) <= MaxU64
    /\ total_input_capacity(p) > Plan[p].carrier_capacity
    /\ total_input_capacity(p) >= Plan[p].carrier_capacity + Plan[p].fee
    /\ change_capacity(p) # 0
    /\ Plan[p].carrier_capacity >= Plan[p].carrier_min_capacity
    /\ change_capacity(p) >= Plan[p].change_min_capacity

PackageFits(p) ==
    /\ Plan[p].authority_input # None => FinalSettlement(p)
    /\ Plan[p].payload_bound      \* length, data hash, identity and binding
    /\ FinalSettlement(p) =>
           /\ Plan[p].authority_input # None
           /\ Plan[p].evidence_cell_dep # None
           /\ Plan[p].deployment_checked
           /\ Plan[p].lock = Plan[p].package_lock
           /\ Plan[p].output_lock = Plan[p].lock

Signed(p) == FinalSettlement(p) => Plan[p].locally_verified

(* A package that is submitted as it stands must be the projection its     *)
(* hashes claim.                                                           *)
Projects(p) == Plan[p].payload_bound

Prepared(p) == IF compact(p) THEN CapacitySuffices(p) /\ PackageFits(p) ELSE Projects(p)

-----------------------------------------------------------------------------
(* The node: its chain, its pool, and what it answers.                     *)
Committed(c) == UNION {c[n].txs : n \in DOMAIN c}

Consumed(c) == UNION {Range(inputs(p)) : p \in Committed(c)}

Live(o) == o \in DOMAIN Cells /\ o \notin Consumed(chain)

tip_number == Len(chain)

(* Where get_transaction says it was committed: number and hash.           *)
BlockOf(p) ==
    LET at == {n \in DOMAIN chain : p \in chain[n].txs}
    IN  IF at = {} THEN None
        ELSE LET n == CHOOSE n \in at : TRUE IN <<n, chain[n].fork>>

status(p) ==
    CASE BlockOf(p) # None -> "committed"
      [] p \in pool -> "pending"
      [] OTHER -> "unknown"

ckb_tx_status_rank(s) == CASE s = "committed" -> 3 [] s = "pending" -> 1 [] OTHER -> 0

Applies(p, c) ==
    /\ Range(inputs(p)) \union Range(cell_deps(p)) \subseteq DOMAIN Cells \ Consumed(c)
    /\ Capacity(Cells, Range(inputs(p))) >= output_capacity(p)

(* test_tx_pool_accept and send_transaction take what applies, is new to   *)
(* the pool and competes with nothing in it.                               *)
PoolTakes(p) ==
    /\ p \notin pool
    /\ Applies(p, chain)
    /\ \A q \in pool : Range(inputs(p)) \intersect Range(inputs(q)) = {}

(* What the blocks of a chain hold.                                        *)
Holds(c) == UNION {{<<p, <<n, c[n].fork>>>> : p \in c[n].txs} : n \in DOMAIN c}

(* At most one of the transactions goes into a block.                      *)
Blocks(from, c, f) ==
    {[fork |-> f, txs |-> txs] :
        txs \in {{}} \union {{p} : p \in {p \in from : Applies(p, c)}}}

Mine ==
    /\ tip_number < MaxHeight
    /\ \E b \in Blocks(pool, chain, fork) : chain' = Append(chain, b)
    /\ pool' = {p \in pool : Applies(p, chain')}
    /\ held' = held \union Holds(chain')
    /\ UNCHANGED <<fork, sent, reports, cmd, requeried>>

(* The last blocks give way to a longer branch.  What was in them is       *)
(* pending again unless the branch commits it, or something against it.    *)
Reorganise(depth) ==
    LET kept == SubSeq(chain, 1, tip_number - depth)
        back == pool \union Committed(SubSeq(chain, tip_number - depth + 1, tip_number))
        empty == [i \in 1..depth |-> [fork |-> fork + 1, txs |-> {}]]
    IN  /\ fork < MaxForks
        /\ tip_number < MaxHeight
        /\ depth <= tip_number
        /\ \E b \in Blocks(back, kept, fork + 1) : chain' = kept \o <<b>> \o empty
        /\ pool' = {p \in back : Applies(p, chain')}
        /\ fork' = fork + 1
        /\ held' = held \union Holds(chain')
        /\ UNCHANGED <<sent, reports, cmd, requeried>>

(* Someone else sends a transaction to the node.                           *)
OtherSends(p) ==
    /\ PoolTakes(p)
    /\ pool' = pool \union {p}
    /\ UNCHANGED <<chain, fork, held, sent, reports, cmd, requeried>>

-----------------------------------------------------------------------------
(* Submitting.  The Cells are looked at one by one and the first that is   *)
(* not what the arguments declare ends the command.  No plan spends a      *)
(* dependency, so those are asked about together with an input.            *)
Questions(p, deps) ==
    [i \in DOMAIN inputs(p) |-> IF i = 1 THEN {inputs(p)[i]} \union deps ELSE {inputs(p)[i]}]

AsDeclared(p, o) ==
    /\ Live(o)
    /\ compact(p) /\ o \in DOMAIN Plan[p].declared => Cells[o] = Plan[p].declared[o]

Usable(ok, report) == IF ok THEN report ELSE None

SubmissionReport(p, submit, accepted) ==
    [plan |-> p, submit_mode |-> submit, accepted_by_rpc |-> accepted]

Idle == cmd = None /\ Cardinality(decisions) < MaxDecisions

(* Dry run: the request is built and hashed and nothing is asked.          *)
DryRun(path, p) ==
    /\ Idle
    /\ Prepared(p)
    /\ submissions' = [submissions EXCEPT ![path] = SubmissionReport(p, FALSE, FALSE)]
    /\ UNCHANGED <<node, inclusions, context, economics, stability, finality,
                   decisions, cmd, requeried>>

Submit(path, p) ==
    /\ Idle
    /\ Prepared(p)
    /\ Signed(p)
    /\ cmd' = [name |-> "preflight", path |-> path, plan |-> p,
               todo |-> Questions(p, Range(cell_deps(p)))]
    /\ UNCHANGED <<node, reports, requeried>>

PreflightCell ==
    /\ cmd # None
    /\ cmd.name = "preflight"
    /\ cmd.todo # <<>>
    /\ cmd' = IF \A o \in Head(cmd.todo) : AsDeclared(cmd.plan, o)
              THEN [cmd EXCEPT !.todo = Tail(@)] ELSE None
    /\ UNCHANGED <<node, reports, requeried>>

(* The command's report, unless it was told to insist on acceptance.       *)
WriteSubmission(accepted, require_accepted) ==
    /\ cmd' = None
    /\ submissions' =
           IF require_accepted /\ ~accepted THEN submissions
           ELSE [submissions EXCEPT ![cmd.path] = SubmissionReport(cmd.plan, TRUE, accepted)]
    /\ UNCHANGED <<inclusions, context, economics, stability, finality, decisions>>

(* test_tx_pool_accept: a transaction it does not take is not sent.  One   *)
(* that outspends its inputs never gets this far.                          *)
PoolAccept(require_accepted) ==
    /\ cmd # None
    /\ cmd.name = "preflight"
    /\ cmd.todo = <<>>
    /\ IF Capacity(Cells, Range(inputs(cmd.plan))) < output_capacity(cmd.plan)
       THEN cmd' = None /\ UNCHANGED reports
       ELSE IF PoolTakes(cmd.plan)
       THEN cmd' = [cmd EXCEPT !.name = "send"] /\ UNCHANGED reports
       ELSE WriteSubmission(FALSE, require_accepted)
    /\ UNCHANGED <<node, requeried>>

SendTransaction ==
    /\ cmd # None
    /\ cmd.name = "send"
    /\ LET taken == PoolTakes(cmd.plan)
       IN  /\ pool' = IF taken THEN pool \union {cmd.plan} ELSE pool
           /\ sent' = IF taken THEN sent \union {cmd.plan} ELSE sent
           /\ cmd' = [cmd EXCEPT !.name = IF taken THEN "observe" ELSE "refused"]
    /\ UNCHANGED <<chain, fork, held, reports, requeried>>

(* get_transaction: accepted is what was validated, sent and then seen.    *)
Observe(require_accepted) ==
    /\ cmd # None
    /\ cmd.name \in {"observe", "refused"}
    /\ WriteSubmission(cmd.name = "observe" /\ ckb_tx_status_rank(status(cmd.plan)) > 0,
                       require_accepted)
    /\ UNCHANGED <<node, requeried>>

(* A request fails: no connection, a timeout, an answer that is no JSON.   *)
(* What was sent before stays sent, and a send may have reached the node.  *)
RpcFails ==
    /\ cmd # None
    /\ cmd' = None
    /\ \/ UNCHANGED <<pool, sent>>
       \/ /\ cmd.name = "send" /\ PoolTakes(cmd.plan)
          /\ pool' = pool \union {cmd.plan}
          /\ sent' = sent \union {cmd.plan}
    /\ UNCHANGED <<chain, fork, held, reports, requeried>>

-----------------------------------------------------------------------------
(* The reports on a submission's Cells: every input is asked about, and    *)
(* for the context every dependency, whatever the answers.                 *)
VerifyCells(name, path) ==
    /\ Idle
    /\ submissions[path] # None
    /\ LET p == submissions[path].plan
           deps == IF name = "context" THEN Range(cell_deps(p)) ELSE {}
       IN  cmd' = [name |-> name, path |-> path, plan |-> p, todo |-> Questions(p, deps)]
    /\ UNCHANGED <<node, reports, requeried>>

(* The verifier's code Cell must hold the code the plan declares.          *)
carrier_verifier_code_dep_ready(p) ==
    compact(p) => Cells[Plan[p].verifier_dep].data = Plan[p].declared[Plan[p].verifier_dep].data

(* size * rate / 1000, rounded up.                                         *)
required_fee_for_rate(size, rate) == (size * rate + 999) \div 1000

FeeWithinPolicy(p) ==
    LET input == Capacity(Cells, Range(inputs(p)))
        fee == input - output_capacity(p)
    IN  /\ input >= output_capacity(p)
        /\ fee >= MinFee
        /\ fee >= required_fee_for_rate(Plan[p].size, FeeRate)
        /\ fee <= MaxFee

CellsReport(ready) == Usable(ready, [submission |-> cmd.path, plan |-> cmd.plan])

(* The report is written after the last answer.  One Cell that is not live *)
(* settles what it will say.                                               *)
AskCell ==
    LET live == \A o \in Head(cmd.todo) : Live(o)
        last == ~live \/ Len(cmd.todo) = 1
    IN  /\ cmd # None
        /\ cmd.name \in {"context", "economics"}
        /\ cmd' = IF last THEN None ELSE [cmd EXCEPT !.todo = Tail(@)]
        /\ context' = IF last /\ cmd.name = "context"
                      THEN CellsReport(live /\ carrier_verifier_code_dep_ready(cmd.plan))
                      ELSE context
        /\ economics' = IF last /\ cmd.name = "economics"
                        THEN CellsReport(live /\ FeeWithinPolicy(cmd.plan))
                        ELSE economics
        /\ UNCHANGED <<node, submissions, inclusions, stability, finality, decisions, requeried>>

-----------------------------------------------------------------------------
(* The reports on the chain: each asks the node once.  The payload and the *)
(* type script the node returns are those of the hash that was asked for,  *)
(* and committed meets every minimum status.                               *)
verify_session_submission_inclusion(path, to) ==
    /\ Idle
    /\ submissions[path] # None
    /\ LET p == submissions[path].plan
       IN  inclusions' = [inclusions EXCEPT ![to] =
               Usable(status(p) = "committed",
                      [submission |-> path, plan |-> p, block |-> BlockOf(p)])]
    /\ UNCHANGED <<node, submissions, context, economics, stability, finality,
                   decisions, cmd, requeried>>

(* A broken form of confirmations: the tip itself counts once more.        *)
confirmationsEarly(block) == IF tip_number >= block[1] THEN tip_number - block[1] + 2 ELSE 0

(* The block itself is the first confirmation.                             *)
confirmations(block) == IF tip_number >= block[1] THEN tip_number - block[1] + 1 ELSE 0

verify_session_submission_finality(from, min_confirmations) ==
    LET inclusion == inclusions[from]
    IN  /\ Idle
        /\ finality' =
               Usable(inclusion # None /\ confirmations(inclusion.block) >= min_confirmations,
                      [inclusion |-> from, plan |-> inclusion.plan, block |-> inclusion.block,
                       min_confirmations |-> min_confirmations])
        /\ requeried' = FALSE
        /\ UNCHANGED <<node, submissions, inclusions, context, economics, stability,
                       decisions, cmd>>

verify_session_submission_stability(from) ==
    LET inclusion == inclusions[from]
        stable_block_identity == BlockOf(inclusion.plan) = inclusion.block
    IN  /\ Idle
        /\ stability' =
               Usable(inclusion # None /\ stable_block_identity,
                      [inclusion |-> from, plan |-> inclusion.plan, block |-> inclusion.block])
        /\ requeried' = (stability' # None /\ finality # None)
        /\ UNCHANGED <<node, submissions, inclusions, context, economics, finality,
                       decisions, cmd>>

-----------------------------------------------------------------------------
(* The decision.  It opens the submission report again, at the path the    *)
(* context report names, and that file may have been written anew since.   *)
(* Only the carrier and the final script paths count as live: a package    *)
(* submitted as it stands says of itself that it is neither.               *)
LiveAccepted(path) ==
    /\ submissions[path].submit_mode
    /\ submissions[path].accepted_by_rpc
    /\ compact(submissions[path].plan)

readiness_submission_report_summary(path, p) ==
    LET valid == submissions[path].plan = p
    IN  [valid |-> valid, live_accepted |-> valid /\ LiveAccepted(path)]

LineageMatches(from) ==
    /\ economics.submission = context.submission
    /\ inclusions[from].submission = context.submission
    /\ stability.inclusion = from
    /\ finality.inclusion = from

(* A broken form of report_hashes_match: the fees of another transaction   *)
(* will do.                                                                *)
report_hashes_matchButFees(from) ==
    {inclusions[from].plan, stability.plan, finality.plan} = {context.plan}

report_hashes_match(from) ==
    {economics.plan, inclusions[from].plan, stability.plan, finality.plan} = {context.plan}

block_identity_matches(from) == {stability.block, finality.block} = {inclusions[from].block}

(* The operational policy repeats the checks above and asks for a          *)
(* confirmation at least.                                                  *)
testnet_beta_ready == finality.min_confirmations > 0

(* What the report calls the evidence.                                     *)
readiness_evidence_mode(p, summary) ==
    IF ~summary.live_accepted THEN "coherent-offline-or-mock"
    ELSE IF Plan[p].role = "carrier" THEN "live-ckb-carrier" ELSE "final-l1-script"

(* A final settlement is not ready on a dry run: its lock was looked at    *)
(* only by a command that submits.  Its identity is in every such report.  *)
authority_threshold_lock_deployment_ready(path) ==
    FinalSettlement(submissions[path].plan) => submissions[path].submit_mode

verify_session_submission_readiness(from, require_live) ==
    LET summary == readiness_submission_report_summary(context.submission, context.plan)
    IN  /\ Idle
        /\ None \notin {context, economics, inclusions[from], stability, finality}
        /\ report_hashes_match(from)
        /\ summary.valid
        /\ require_live => summary.live_accepted
        /\ authority_threshold_lock_deployment_ready(context.submission)
        /\ LineageMatches(from)
        /\ block_identity_matches(from)
        /\ testnet_beta_ready
        /\ decisions' = decisions \union
               {[plan |-> context.plan, block |-> inclusions[from].block,
                 mode |-> readiness_evidence_mode(context.plan, summary),
                 settled |-> requeried /\ finality.min_confirmations > MaxReorg]}
        /\ UNCHANGED <<node, submissions, inclusions, context, economics, stability,
                       finality, cmd, requeried>>

-----------------------------------------------------------------------------
Init ==
    /\ chain = <<>>
    /\ fork = 0
    /\ pool = {}
    /\ submissions = [path \in Paths |-> None]
    /\ inclusions = [path \in InclusionPaths |-> None]
    /\ context = None
    /\ economics = None
    /\ stability = None
    /\ finality = None
    /\ decisions = {}
    /\ cmd = None
    /\ menu \in Menus
    /\ requeried = FALSE
    /\ held = {}
    /\ sent = {}

Node ==
    \/ Mine
    \/ \E depth \in 1..MaxReorg : Reorganise(depth)
    \/ \E p \in menu : OtherSends(p)

Operator ==
    \/ \E path \in Paths, p \in menu : DryRun(path, p) \/ Submit(path, p)
    \/ PreflightCell
    \/ \E require_accepted \in BOOLEAN : PoolAccept(require_accepted) \/ Observe(require_accepted)
    \/ SendTransaction
    \/ RpcFails
    \/ \E path \in Paths, name \in {"context", "economics"} : VerifyCells(name, path)
    \/ AskCell
    \/ \E path \in Paths, to \in InclusionPaths : verify_session_submission_inclusion(path, to)
    \/ \E from \in InclusionPaths :
           \/ verify_session_submission_stability(from)
           \/ \E n \in Confirmations : verify_session_submission_finality(from, n)
           \/ \E require_live \in BOOLEAN : verify_session_submission_readiness(from, require_live)

Next == (Node \/ Operator) /\ UNCHANGED menu

Spec == Init /\ [][Next]_vars

-----------------------------------------------------------------------------
(* A settlement that was declared ready is settled.  If the stability      *)
(* query is not older than the finality reading, and the confirmations     *)
(* asked for exceed the deepest reorganisation, the transaction stays in   *)
(* the block the decision names whatever branch wins later; so no other    *)
(* settlement that consumes its authority Cell ever gets in.               *)
ReadyIsFinal ==
    \A d \in decisions : d.settled =>
        /\ BlockOf(d.plan) = d.block
        /\ \A p \in Committed(chain) \ {d.plan} :
               Range(inputs(p)) \intersect Range(inputs(d.plan)) = {}

(* A decision is not assembled from green reports of unrelated             *)
(* transactions.  Every report is a file that later commands write over,   *)
(* and the decision reads the submission anew; yet the transaction it      *)
(* names was once in the very block it names, whichever branch has won     *)
(* since, pays a fee within the operator's policy, and, when the decision  *)
(* calls itself live, was sent by this operator's own command and not by   *)
(* someone else while the command was refused.                             *)
ReadyIsFounded ==
    \A d \in decisions :
        /\ <<d.plan, d.block>> \in held
        /\ FeeWithinPolicy(d.plan)
        /\ d.mode # "coherent-offline-or-mock" => d.plan \in sent
=============================================================================
