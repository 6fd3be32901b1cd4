-------------------------- MODULE AuthorityGateway --------------------------
(***************************************************************************)
(* The authority's RPC gateway.  Clients call the authorities of sessions  *)
(* that share one ledger: they observe, move ownership, commit, reconcile  *)
(* what they submitted, and read blocks, effects and claims.  A call may   *)
(* reach the gateway of another session, its answer may be lost, come late *)
(* or be another call's; a job goes on when its client has given up; an    *)
(* authority whose write failed answers nothing until it is reopened.      *)
(*                                                                         *)
(* A head is the sequence of the blocks below it, a block's hash the block *)
(* itself, and a signature the key with what it signed.  What a block      *)
(* request holds is a candidate: the commands it carries and what it does  *)
(* to claims.  The record a store keeps of a claim is what the blocks of   *)
(* the ledger made of it.                                                  *)
(***************************************************************************)
EXTENDS Naturals, Sequences, FiniteSets, FiniteSetsExt, SequencesExt, Functions

CONSTANTS Sessions, NoRef,
          Clients,
          Owners,         \* worker keys a grant may name
          Source,         \* Source[id]: the session a claim is issued by
          Target,         \* Target[id]: the session it may be consumed in
          Genesis,        \* the blocks each session begins with
          Scripts,        \* what the clients do, one after another each:
                          \* functions of sequences of intended calls
          in_flight,      \* admitted jobs of a gateway
          response_bytes, \* bound on a reply, in blocks
          MAX_EFFECTS,    \* effects the downstream store remembers
          MaxFailures

VARIABLES chain,     \* chain[s]: the canonical blocks of a session
          grants,    \* grants[s]: its writer grants
          uncertain, \* sessions whose authority must be reopened
          failures,  \* failed writes so far
          jobs,      \* admitted calls: [gateway, packet]
          reading,   \* the claim query that holds the ledger's commit lock
          calls,     \* calls[c]: the call a client waits for, or Idle
          replies,   \* every reply a gateway has sent
          signed,    \* the submissions workers have signed
          learned,   \* learned[c]: what the last call of a client ended with
          script,    \* script[c]: what a client has still to do
          sink,      \* the downstream effect store: what is durable, what
                     \* is in memory, and whether it must be reopened
          made       \* number of calls made, and the next challenge

clientVars == <<calls, signed, learned, script, made>>

vars == <<chain, grants, uncertain, failures, jobs, reading, calls, replies,
          signed, learned, script, sink, made>>

Life == INSTANCE HandoffLifecycle WITH Intents <- {}

Claims == DOMAIN Source
Missing == [state |-> "Missing"]
Idle == [challenge |-> 0]
Unread == [challenge |-> 0]
Nothing == [kind |-> "Nothing"]
NoEffects == [seen |-> {}, state |-> <<>>]

-----------------------------------------------------------------------------
(* The ledger.                                                             *)
epoch(s) == Len(grants[s])
owner(s) == grants[s][epoch(s)].owner

(* The places where the blocks of the sessions did something to a claim.   *)
Places(kind, id, ch) ==
    {[session |-> s, height |-> n - 1] : <<s, n>> \in
        {p \in UNION {{s} \X DOMAIN ch[s] : s \in Sessions} :
            <<kind, id>> \in ch[p[1]][p[2]].actions}}

Place(kind, id, ch) == CHOOSE r \in Places(kind, id, ch) : TRUE

(* The terminal state of a claim's record, Missing without a record.       *)
load_handoff(id, ch) ==
    LET done(kind) == Places(kind, id, ch) # {}
        at(kind) == Place(kind, id, ch)
    IN  CASE ~done("Issue") -> Missing
          [] done("Retire") -> Life!Retired(at("Consume"), at("Retire"))
          [] done("Consume") /\ ~done("Retire") -> Life!Consumed(at("Consume"))
          [] done("Reclaim") -> Life!Reclaimed(at("Cancel"), at("Reclaim"))
          [] done("Cancel") /\ ~done("Reclaim") -> Life!Cancelled(at("Cancel"))
          [] OTHER -> Life!Issued

Committed(s) == UNION {chain[s][n].commands : n \in DOMAIN chain[s]}

(* prepare_block takes a candidate whose commands are new and whose claims *)
(* are in the state its actions expect.                                    *)
Admissible(s, candidate) ==
    /\ candidate.commands \intersect Committed(s) = {}
    /\ \A a \in candidate.actions :
           LET before == load_handoff(a[2], chain)
           IN  /\ s = IF a[1] = "Consume" THEN Target[a[2]] ELSE Source[a[2]]
               /\ before.state = CASE a[1] = "Issue" -> "Missing"
                                   [] a[1] \in {"Consume", "Cancel"} -> "Issued"
                                   [] a[1] = "Retire" -> "Consumed"
                                   [] a[1] = "Reclaim" -> "Cancelled"

NewBlock(s, candidate) ==
    [session |-> s, number |-> Len(chain[s]), epoch |-> epoch(s), owner |-> owner(s),
     commands |-> candidate.commands, actions |-> candidate.actions]

-----------------------------------------------------------------------------
(* What the authority signs.                                               *)
GrantRequest(s, expected_epoch, who, anchor) ==
    [policy |-> s, expected_epoch |-> expected_epoch, owner |-> who, anchor |-> anchor]

WriterGrant(request) ==
    [epoch |-> request.expected_epoch + 1, owner |-> request.owner, request |-> request]

CommitAuthorization(s, e, who, base_head, candidate) ==
    [policy |-> s, epoch |-> e, owner |-> who, base_head |-> base_head,
     request_digest |-> candidate]

(* A certificate of a block names the grant its height falls under.        *)
CanonicalReceipt(s, height) ==
    LET block == chain[s][height + 1]
    IN  [policy |-> s, epoch |-> block.epoch, owner |-> block.owner, height |-> height,
         block_hash |-> block, key |-> s]

CanonicalEffect(s, height, message) ==
    [receipt |-> CanonicalReceipt(s, height), message_id |-> message, key |-> s]

(* Every answer is signed with the key its policy pins.                    *)
Signed(s, packet, outcome) == [request_digest |-> packet, outcome |-> outcome, key |-> s]

Err(code) == [kind |-> "Err", code |-> code]

-----------------------------------------------------------------------------
(* Checks of a client under the policy of the session it calls.            *)
receipt_verify(s, receipt) == receipt.policy = s /\ receipt.epoch # 0 /\ receipt.key = s

grant_verify(s, grant) ==
    /\ grant.request.policy = s
    /\ grant.epoch = grant.request.expected_epoch + 1
    /\ grant.request.owner = grant.owner

observation_verify(s, value) ==
    IF value.grant = Nothing THEN value.head = <<>>
    ELSE grant_verify(s, value.grant) /\ Len(value.grant.request.anchor) <= Len(value.head)

commit_verify(s, authorization, receipt) ==
    /\ receipt_verify(s, receipt)
    /\ receipt.epoch = authorization.epoch
    /\ receipt.owner = authorization.owner
    /\ receipt.height = Len(authorization.base_head)

block_verify(s, height, record, receipt) ==
    /\ receipt_verify(s, receipt)
    /\ receipt.height = height
    /\ record.number = height
    /\ record.session = s
    /\ record = receipt.block_hash

effect_verify(s, height, message, certificate) ==
    /\ receipt_verify(s, certificate.receipt)
    /\ certificate.key = s
    /\ certificate.receipt.height = height
    /\ certificate.message_id = message

(* A reconciliation answers for one submission and its commands, in blocks *)
(* below the head it observed.                                             *)
reconciliation_verify(s, authorization, commands, certificate) ==
    /\ certificate.policy = s /\ certificate.key = s
    /\ certificate.submission = authorization
    /\ certificate.observed_epoch >= authorization.epoch
    /\ DOMAIN certificate.status = commands
    /\ \A b \in certificate.blocks :
           /\ b.session = s /\ b.number < Len(certificate.observed_head)
           /\ b.number + 1 = Len(certificate.observed_head) => b = Last(certificate.observed_head)
    /\ \A k \in commands : certificate.status[k] # Missing =>
           certificate.status[k] \in certificate.blocks /\ k \in certificate.status[k].commands
    /\ certificate.blocks \subseteq Range(certificate.status)

(* The blocks a claim's record refers to.                                  *)
references(issued_at, terminal) ==
    {issued_at} \union
    (CASE terminal.state = "Issued" -> {}
       [] terminal.state \in {"Consumed", "Cancelled"} -> {terminal.at}
       [] terminal.state = "Reclaimed" -> {terminal.cancelled_at, terminal.at}
       [] terminal.state = "Retired" -> {terminal.consumed_at, terminal.at})

ids_valid(ids) == ids # <<>> /\ IsInjective(ids)

(* What each terminal state needs to find in the blocks it names.          *)
EvidenceOf(id, terminal) ==
    CASE terminal.state = "Consumed" -> {<<"Consume", terminal.at>>}
      [] terminal.state = "Retired" ->
             {<<"Consume", terminal.consumed_at>>, <<"Retire", terminal.at>>}
      [] terminal.state = "Cancelled" -> {<<"Cancel", terminal.at>>}
      [] terminal.state = "Reclaimed" ->
             {<<"Cancel", terminal.cancelled_at>>, <<"Reclaim", terminal.at>>}
      [] OTHER -> {}

(* One observed record: its blocks are there, the issuing one issues it,   *)
(* only the issuer's own blocks cancel, reclaim or retire it, and the      *)
(* consuming session is the one the claim accepts.                         *)
claim_verify(s, o, blocks) ==
    /\ Source[o.id] = s
    /\ references(o.issued_at, o.terminal) \subseteq DOMAIN blocks
    /\ o.issued_at.session = s
    /\ <<"Issue", o.id>> \in blocks[o.issued_at].actions
    /\ \A e \in EvidenceOf(o.id, o.terminal) :
           /\ <<e[1], o.id>> \in blocks[e[2]].actions
           /\ e[2].session = IF e[1] = "Consume" THEN Target[o.id] ELSE s
           /\ Life!Earlier(o.issued_at, e[2])
    /\ Life!validate_lifecycle([source |-> s, height |-> o.issued_at.height], o.terminal)

Present(certificate) ==
    {certificate.observations[i] : i \in
        {i \in DOMAIN certificate.observations : certificate.observations[i].terminal # Missing}}

claims_verify(s, ids, minimum_epoch, certificate) ==
    LET blocks == certificate.blocks
        heads == certificate.sessions
        used == UNION {references(o.issued_at, o.terminal) : o \in Present(certificate)}
    IN  /\ certificate.policy = s /\ certificate.key = s
        /\ certificate.observed_epoch # 0 /\ certificate.observed_epoch >= minimum_epoch
        /\ Len(certificate.observations) = Len(ids)
        /\ s \in DOMAIN heads
        /\ \A r \in DOMAIN blocks :
               /\ r.session \in DOMAIN heads /\ r.height < Len(heads[r.session])
               /\ r.height + 1 = Len(heads[r.session]) => blocks[r] = Last(heads[r.session])
        /\ \A i \in DOMAIN ids : certificate.observations[i].id = ids[i]
        /\ \A o \in Present(certificate) : claim_verify(s, o, blocks)
        /\ used = DOMAIN blocks
        /\ DOMAIN heads = {s} \union {r.session : r \in used}

(* A reply belongs to the call whose packet, challenge included, it signs. *)
reply_verify(call, reply) ==
    reply.request_digest = call.packet /\ reply.key = call.packet.policy

(* What the methods of the client make of an outcome.                      *)
Trusted(packet, outcome) ==
    LET s == packet.policy
        op == packet.operation
    IN  /\ outcome.kind = op.kind
        /\ CASE op.kind = "Observe" -> observation_verify(s, outcome)
             [] op.kind = "Grant" -> grant_verify(s, outcome.grant) /\ outcome.grant.request = op.request
             [] op.kind = "Commit" -> commit_verify(s, op.authorization, outcome.receipt)
             [] op.kind = "Reconcile" ->
                    reconciliation_verify(s, op.authorization, op.commands, outcome.certificate)
             [] op.kind = "Block" -> block_verify(s, op.height, outcome.record, outcome.receipt)
             [] op.kind = "Effect" -> effect_verify(s, op.height, op.message, outcome.certificate)
             [] op.kind = "Claims" ->
                    claims_verify(s, op.ids, op.minimum_epoch, outcome.certificate)

-----------------------------------------------------------------------------
(* The sessions begin granted and with the blocks of an earlier life.      *)
Init ==
    /\ chain = Genesis
    /\ grants = [s \in Sessions |->
                    <<WriterGrant(GrantRequest(s, 0, CHOOSE w \in Owners : TRUE, <<>>))>>]
    /\ uncertain = {}
    /\ failures = 0
    /\ jobs = {}
    /\ reading = Unread
    /\ calls = [c \in Clients |-> Idle]
    /\ replies = {}
    /\ signed = {}
    /\ learned = [c \in Clients |-> Nothing]
    /\ script \in Scripts
    /\ sink = [disk |-> NoEffects, mem |-> NoEffects, uncertain |-> FALSE]
    /\ made = 0

(* A client sends a packet with a fresh challenge.  It reaches a gateway,  *)
(* and that of another session when the route is wrong; a gateway with     *)
(* every permit taken refuses it at once.                                  *)
call(c, operation) ==
    LET step == Head(script[c])
        packet == [policy |-> step.session, challenge |-> made + 1, operation |-> operation]
    IN  /\ calls[c] = Idle
        /\ made' = made + 1
        /\ script' = [script EXCEPT ![c] = Tail(@)]
        /\ \E gateway \in step.gateways :
               IF Cardinality({j \in jobs : j.gateway = gateway}) < in_flight
               THEN /\ jobs' = jobs \union {[gateway |-> gateway, packet |-> packet]}
                    /\ calls' = [calls EXCEPT ![c] =
                           [challenge |-> made + 1, packet |-> packet, before |-> chain,
                            epoch |-> epoch(step.session)]]
                    /\ learned' = [learned EXCEPT ![c] = Nothing]
               ELSE /\ learned' = [learned EXCEPT ![c] = [kind |-> "Transport"]]
                    /\ UNCHANGED <<jobs, calls>>
        /\ UNCHANGED <<chain, grants, uncertain, failures, reading, replies, sink>>

Intends(c, kind) == script[c] # <<>> /\ Head(script[c]).kind = kind

observe(c) == Intends(c, "Observe") /\ call(c, [kind |-> "Observe"]) /\ UNCHANGED signed

(* The administrator signs for the epoch and the head they see.            *)
grant(c) ==
    LET step == Head(script[c])
        s == step.session
    IN  /\ Intends(c, "Grant")
        /\ call(c, [kind |-> "Grant", request |-> GrantRequest(s, epoch(s), step.owner, chain[s])])
        /\ UNCHANGED signed

(* A worker signs under the grant it knows, be it revoked.                 *)
commit(c) ==
    /\ Intends(c, "Commit")
    /\ LET step == Head(script[c])
           s == step.session
       IN  \E e \in DOMAIN grants[s] :
               LET authorization ==
                       CommitAuthorization(s, e, grants[s][e].owner, chain[s], step.candidate)
               IN  /\ call(c, [kind |-> "Commit", authorization |-> authorization,
                               candidate |-> step.candidate])
                   /\ signed' = signed \union {authorization}

reconcile(c) ==
    /\ Intends(c, "Reconcile")
    /\ \E authorization \in signed :
           /\ authorization.policy = Head(script[c]).session
           /\ authorization.request_digest.commands # {}
           /\ call(c, [kind |-> "Reconcile", authorization |-> authorization,
                       commands |-> authorization.request_digest.commands])
    /\ UNCHANGED signed

block(c) ==
    /\ Intends(c, "Block")
    /\ call(c, [kind |-> "Block", height |-> Head(script[c]).height])
    /\ UNCHANGED signed

effect(c) ==
    /\ Intends(c, "Effect")
    /\ call(c, [kind |-> "Effect", height |-> Head(script[c]).height,
                message |-> Head(script[c]).message])
    /\ UNCHANGED signed

reconcile_claims(c) ==
    /\ Intends(c, "Claims")
    /\ call(c, [kind |-> "Claims", ids |-> Head(script[c]).ids,
                minimum_epoch |-> Head(script[c]).minimum_epoch])
    /\ UNCHANGED signed

-----------------------------------------------------------------------------
(* A job holds its permit until it has replied, wherever its client is.    *)
Size(outcome) ==
    CASE outcome.kind = "Claims" -> Cardinality(DOMAIN outcome.certificate.blocks)
      [] outcome.kind = "Reconcile" -> Cardinality(outcome.certificate.blocks)
      [] outcome.kind = "Block" -> 1
      [] OTHER -> 0

Reply(job, outcome) ==
    /\ jobs' = jobs \ {job}
    /\ replies' = replies \union
           {Signed(job.gateway, job.packet,
                   IF Size(outcome) <= response_bytes THEN outcome ELSE Err("Invalid"))}

(* The authority's lock and, for what changes or reads the shared ledger,  *)
(* the commit lock: a claim query in progress holds both.                  *)
Locked(s) == reading # Unread /\ reading.job.gateway = s

(* A broken form of CommitLocked: a claim query does not hold the lock.    *)
CommitLockedNever == FALSE

CommitLocked == reading # Unread

Answers(s) == s \notin uncertain /\ ~Locked(s)

(* A packet for another policy and a call to an uncertain authority are    *)
(* turned down with a signed failure.                                      *)
Rejected(job) ==
    /\ \/ job.packet.policy # job.gateway /\ Reply(job, Err("Authorization"))
       \/ /\ job.packet.policy = job.gateway
          /\ job.gateway \in uncertain
          /\ Reply(job, Err("Uncertain"))
    /\ UNCHANGED <<chain, grants, uncertain, failures, reading, clientVars, sink>>

Dispatched(job, kind) ==
    /\ job.packet.policy = job.gateway
    /\ job.packet.operation.kind = kind
    /\ Answers(job.gateway)

DispatchObserve(job) ==
    LET s == job.gateway
    IN  /\ Dispatched(job, "Observe")
        /\ Reply(job, [kind |-> "Observe", head |-> chain[s],
                       grant |-> IF grants[s] = <<>> THEN Nothing ELSE Last(grants[s])])
        /\ UNCHANGED <<chain, grants, uncertain, failures, reading, clientVars, sink>>

(* A write of the ownership record may fail after or before it took hold;  *)
(* the authority then answers nothing until it is reopened.                *)
WriteFails(s) ==
    /\ failures < MaxFailures
    /\ failures' = failures + 1
    /\ uncertain' = uncertain \union {s}

(* A repeated request gets the grant it got before.                        *)
DispatchGrant(job) ==
    LET s == job.gateway
        request == job.packet.operation.request
        current == request.expected_epoch = epoch(s) /\ request.anchor = chain[s]
        granted == [grants EXCEPT ![s] = Append(@, WriterGrant(request))]
    IN  /\ Dispatched(job, "Grant")
        /\ \/ /\ ~current
              /\ Reply(job, IF Last(grants[s]).request = request
                            THEN [kind |-> "Grant", grant |-> Last(grants[s])]
                            ELSE Err("Fenced"))
              /\ UNCHANGED <<grants, uncertain, failures>>
           \/ /\ current
              /\ grants' = granted
              /\ Reply(job, [kind |-> "Grant", grant |-> WriterGrant(request)])
              /\ UNCHANGED <<uncertain, failures>>
           \/ /\ current
              /\ grants' \in {grants, granted}
              /\ WriteFails(s)
              /\ Reply(job, Err("Uncertain"))
        /\ UNCHANGED <<chain, reading, clientVars, sink>>

DispatchCommit(job) ==
    LET s == job.gateway
        authorization == job.packet.operation.authorization
        candidate == job.packet.operation.candidate
        fenced == \/ authorization.epoch # epoch(s)
                  \/ authorization.owner # owner(s)
                  \/ authorization.base_head # chain[s]
        extended == [chain EXCEPT ![s] = Append(@, NewBlock(s, candidate))]
        receipt == [policy |-> s, epoch |-> epoch(s), owner |-> owner(s),
                    height |-> Len(chain[s]), block_hash |-> NewBlock(s, candidate), key |-> s]
    IN  /\ Dispatched(job, "Commit")
        /\ \/ /\ fenced \/ authorization.request_digest # candidate \/ ~Admissible(s, candidate)
              /\ Reply(job, Err(IF fenced THEN "Fenced"
                                ELSE IF authorization.request_digest # candidate
                                     THEN "Authorization" ELSE "Session"))
              /\ UNCHANGED <<chain, uncertain, failures>>
           \/ /\ ~fenced /\ authorization.request_digest = candidate /\ Admissible(s, candidate)
              /\ ~CommitLocked
              /\ \/ /\ chain' = extended
                    /\ Reply(job, [kind |-> "Commit", receipt |-> receipt])
                    /\ UNCHANGED <<uncertain, failures>>
                 \/ /\ chain' \in {chain, extended}
                    /\ WriteFails(s)
                    /\ Reply(job, Err("Uncertain"))
        /\ UNCHANGED <<grants, reading, clientVars, sink>>

(* What one observation under the authority's lock says of a submission.   *)
CommandReconciliation(s, authorization, commands) ==
    LET holding(k) == {b \in Range(chain[s]) : k \in b.commands}
        status == [k \in commands |-> IF holding(k) = {} THEN Missing
                                      ELSE CHOOSE b \in holding(k) : TRUE]
    IN  [policy |-> s, submission |-> authorization, observed_epoch |-> epoch(s),
         observed_head |-> chain[s], status |-> status,
         blocks |-> Range(status) \ {Missing}, key |-> s]

DispatchReconcile(job) ==
    LET op == job.packet.operation
        s == job.gateway
    IN  /\ Dispatched(job, "Reconcile")
        /\ Reply(job, IF op.authorization.epoch \in DOMAIN grants[s]
                      THEN [kind |-> "Reconcile",
                            certificate |-> CommandReconciliation(s, op.authorization, op.commands)]
                      ELSE Err("Invalid"))
        /\ UNCHANGED <<chain, grants, uncertain, failures, reading, clientVars, sink>>

DispatchBlock(job) ==
    LET s == job.gateway
        height == job.packet.operation.height
    IN  /\ Dispatched(job, "Block")
        /\ Reply(job, IF height < Len(chain[s])
                      THEN [kind |-> "Block", record |-> chain[s][height + 1],
                            receipt |-> CanonicalReceipt(s, height)]
                      ELSE Err("Session"))
        /\ UNCHANGED <<chain, grants, uncertain, failures, reading, clientVars, sink>>

(* A block's messages are those of its commands.                           *)
DispatchEffect(job) ==
    LET s == job.gateway
        op == job.packet.operation
    IN  /\ Dispatched(job, "Effect")
        /\ Reply(job, IF op.height >= Len(chain[s]) THEN Err("Session")
                      ELSE IF op.message \notin chain[s][op.height + 1].commands THEN Err("Invalid")
                      ELSE [kind |-> "Effect",
                            certificate |-> CanonicalEffect(s, op.height, op.message)])
        /\ UNCHANGED <<chain, grants, uncertain, failures, reading, clientVars, sink>>

-----------------------------------------------------------------------------
(* A claim query takes the ledger's commit lock and reads one record after *)
(* another, then the heads of the sessions their blocks are in.            *)
ClaimsBegin(job) ==
    LET op == job.packet.operation
        refused == ~ids_valid(op.ids) \/ epoch(job.gateway) < op.minimum_epoch
    IN  /\ Dispatched(job, "Claims")
        /\ reading = Unread
        /\ \/ refused /\ Reply(job, Err(IF ids_valid(op.ids) THEN "Fenced" ELSE "Invalid"))
                      /\ UNCHANGED reading
           \/ /\ ~refused
              /\ reading' = [challenge |-> job.packet.challenge, job |-> job,
                             observations |-> <<>>, blocks |-> <<>>]
              /\ UNCHANGED <<jobs, replies>>
        /\ UNCHANGED <<chain, grants, uncertain, failures, clientVars, sink>>

Merged(f, g) == [x \in DOMAIN f \union DOMAIN g |-> IF x \in DOMAIN f THEN f[x] ELSE g[x]]

(* The next record, with the blocks it refers to.  A claim of another      *)
(* issuer ends the query.                                                  *)
ClaimsRead ==
    LET s == reading.job.gateway
        ids == reading.job.packet.operation.ids
        id == ids[Len(reading.observations) + 1]
        terminal == load_handoff(id, chain)
        issued_at == IF terminal = Missing THEN NoRef ELSE Place("Issue", id, chain)
        refs == IF terminal = Missing THEN {} ELSE references(issued_at, terminal)
    IN  /\ reading # Unread
        /\ Len(reading.observations) < Len(ids)
        /\ IF terminal # Missing /\ Source[id] # s
           THEN Reply(reading.job, Err("Invalid")) /\ reading' = Unread
           ELSE /\ reading' = [reading EXCEPT
                      !.observations = Append(@, [id |-> id, issued_at |-> issued_at,
                                                  terminal |-> terminal]),
                      !.blocks = Merged(@, [r \in refs |-> chain[r.session][r.height + 1]])]
                /\ UNCHANGED <<jobs, replies>>
        /\ UNCHANGED <<chain, grants, uncertain, failures, clientVars, sink>>

ClaimsReply ==
    LET s == reading.job.gateway
        listed == {s} \union {r.session : r \in DOMAIN reading.blocks}
    IN  /\ reading # Unread
        /\ Len(reading.observations) = Len(reading.job.packet.operation.ids)
        /\ Reply(reading.job,
                 [kind |-> "Claims",
                  certificate |-> [policy |-> s, observed_epoch |-> epoch(s),
                                   observations |-> reading.observations,
                                   sessions |-> [t \in listed |-> chain[t]],
                                   blocks |-> reading.blocks, key |-> s]])
        /\ reading' = Unread
        /\ UNCHANGED <<chain, grants, uncertain, failures, clientVars, sink>>

-----------------------------------------------------------------------------
(* A reply arrives at a client that waits, its own or another call's.      *)
Receive(c, reply) ==
    /\ calls[c] # Idle
    /\ learned' = [learned EXCEPT ![c] =
           IF ~reply_verify(calls[c], reply)
           THEN [kind |-> "Untrusted", genuine |-> FALSE]
           ELSE IF reply.outcome.kind = "Err"
           THEN [kind |-> "Remote", code |-> reply.outcome.code]
           ELSE IF ~Trusted(calls[c].packet, reply.outcome)
           THEN [kind |-> "Untrusted", genuine |-> TRUE]
           ELSE [kind |-> "Answer", call |-> calls[c], outcome |-> reply.outcome]]
    /\ calls' = [calls EXCEPT ![c] = Idle]
    /\ UNCHANGED <<chain, grants, uncertain, failures, jobs, reading, replies, signed, script, sink, made>>

(* The deadline of a call passes, or its client drops it.                  *)
Timeout(c) ==
    /\ calls[c] # Idle
    /\ learned' = [learned EXCEPT ![c] = [kind |-> "Transport"]]
    /\ calls' = [calls EXCEPT ![c] = Idle]
    /\ UNCHANGED <<chain, grants, uncertain, failures, jobs, reading, replies, signed, script, sink, made>>

(* The process of an uncertain authority is started anew; its jobs are     *)
(* gone.  SessionAuthority shows what open makes of the two databases.     *)
open(s) ==
    /\ s \in uncertain
    /\ ~Locked(s)
    /\ uncertain' = uncertain \ {s}
    /\ jobs' = {j \in jobs : j.gateway # s}
    /\ UNCHANGED <<chain, grants, failures, reading, calls, replies, signed, learned, script, sink, made>>

-----------------------------------------------------------------------------
(* The downstream store applies a certified effect and remembers it in one *)
(* write.  The application's state is the effects it has taken.            *)
Retained(certificate) == {e \in sink.mem.seen : e.id = certificate.message_id}

apply(certificate) ==
    LET next == [seen |-> sink.mem.seen \union
                     {[id |-> certificate.message_id, block |-> certificate.receipt.block_hash]},
                 state |-> Append(sink.mem.state, certificate.message_id)]
    IN  /\ ~sink.uncertain
        /\ Retained(certificate) = {}
        /\ Cardinality(sink.mem.seen) < MAX_EFFECTS
        /\ \/ /\ sink' = [sink EXCEPT !.disk = next, !.mem = next]
              /\ UNCHANGED failures
           \/ /\ failures < MaxFailures
              /\ failures' = failures + 1
              /\ \E disk \in {sink.disk, next} :
                     sink' = [sink EXCEPT !.disk = disk, !.uncertain = TRUE]
        /\ UNCHANGED <<chain, grants, uncertain, jobs, reading, calls, replies, signed,
                       learned, script, made>>

(* A client hands the store what it has learned, as often as it likes.     *)
Apply(c) ==
    /\ learned[c].kind = "Answer"
    /\ learned[c].outcome.kind = "Effect"
    /\ apply(learned[c].outcome.certificate)

open_effects ==
    /\ sink.uncertain
    /\ sink' = [sink EXCEPT !.mem = sink.disk, !.uncertain = FALSE]
    /\ UNCHANGED <<chain, grants, uncertain, failures, jobs, reading, calls, replies, signed,
                   learned, script, made>>

Calls ==
    \E c \in Clients :
        \/ observe(c)
        \/ grant(c)
        \/ commit(c)
        \/ reconcile(c)
        \/ block(c)
        \/ effect(c)
        \/ reconcile_claims(c)

Jobs ==
    \E job \in jobs :
        \/ Rejected(job)
        \/ DispatchObserve(job)
        \/ DispatchGrant(job)
        \/ DispatchCommit(job)
        \/ DispatchReconcile(job)
        \/ DispatchBlock(job)
        \/ DispatchEffect(job)
        \/ ClaimsBegin(job)

Next ==
    \/ Calls
    \/ Jobs
    \/ ClaimsRead
    \/ ClaimsReply
    \/ \E c \in Clients : Timeout(c)
    \/ \E c \in Clients, reply \in replies : Receive(c, reply)
    \/ \E s \in Sessions : open(s)
    \/ \E c \in Clients : Apply(c)
    \/ open_effects

Spec == Init /\ [][Next]_vars

-----------------------------------------------------------------------------
Prefix(n, s) == SubSeq(chain[s], 1, n)

(* The moments between a call and now, as lengths of the sessions' chains. *)
Moments(before) ==
    {m \in [Sessions -> 0..Max({Len(chain[s]) : s \in Sessions})] :
        \A s \in Sessions : Len(before[s]) <= m[s] /\ m[s] <= Len(chain[s])}

(* The truth of each kind of answer, by the ledger as it is now.           *)
Holds(a) ==
    LET s == a.call.packet.policy
        op == a.call.packet.operation
        o == a.outcome
    IN  CASE op.kind = "Observe" ->
                 /\ IsPrefix(o.head, chain[s]) /\ Len(o.head) >= Len(a.call.before[s])
                 /\ o.grant.epoch >= a.call.epoch /\ grants[s][o.grant.epoch] = o.grant
                 /\ o.grant.epoch < epoch(s) =>
                        Len(o.head) <= Len(grants[s][o.grant.epoch + 1].request.anchor)
          [] op.kind = "Grant" -> o.grant.request = op.request /\ o.grant \in Range(grants[s])
          [] op.kind = "Commit" ->
                 /\ o.receipt.height < Len(chain[s])
                 /\ LET stored == chain[s][o.receipt.height + 1]
                    IN  /\ stored = o.receipt.block_hash
                        /\ stored.commands = op.candidate.commands
                        /\ stored.actions = op.candidate.actions
          [] op.kind = "Reconcile" ->
                 \A k \in op.commands :
                     IF o.certificate.status[k] # Missing
                     THEN o.certificate.status[k] \in Range(chain[s])
                     ELSE /\ k \notin UNION {b.commands : b \in Range(a.call.before[s])}
                          /\ o.certificate.observed_epoch > op.authorization.epoch =>
                                 \A b \in Range(chain[s]) :
                                     b.epoch <= op.authorization.epoch => k \notin b.commands
          [] op.kind = "Block" -> chain[s][op.height + 1] = o.record
          [] op.kind = "Effect" -> op.message \in chain[s][op.height + 1].commands
          [] op.kind = "Claims" ->
                 \E m \in Moments(a.call.before) :
                     LET then == [t \in Sessions |-> Prefix(m[t], t)]
                     IN  \A i \in DOMAIN op.ids :
                             o.certificate.observations[i].terminal = load_handoff(op.ids[i], then)

TypeOK ==
    /\ \A s \in Sessions : Cardinality({j \in jobs : j.gateway = s}) <= in_flight
    /\ \A j \in jobs : j.gateway \in Sessions /\ j.packet.challenge \in 1..made
    /\ uncertain \subseteq Sessions /\ failures \in 0..MaxFailures
    /\ reading # Unread => reading.job \in jobs

(* What a client takes from the gateway is so.  An accepted receipt is of  *)
(* the block the client's own request became; an observation, a record and *)
(* a set of claims were true together at one moment since the call was     *)
(* made; a command missing after its epoch has passed is in no block of    *)
(* that epoch or an earlier one, now or later.  And an honest answer to    *)
(* one's own call is never turned down as untrusted.  Downstream each      *)
(* message of the canonical blocks takes effect at most once, also when a  *)
(* write that failed had reached the disk and the certificate comes again. *)
AnswersAreTrue ==
    /\ TypeOK
    /\ \A c \in Clients :
           /\ learned[c].kind = "Answer" => Holds(learned[c])
           /\ learned[c].kind = "Untrusted" => ~learned[c].genuine
    /\ \A stored \in {sink.disk} \union (IF sink.uncertain THEN {} ELSE {sink.mem}) :
           /\ IsInjective(stored.state)
           /\ Range(stored.state) = {e.id : e \in stored.seen}
           /\ \A e \in stored.seen :
                  \E s \in Sessions : e.block \in Range(chain[s]) /\ e.id \in e.block.commands
=============================================================================
