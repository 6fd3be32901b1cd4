--------------------------- MODULE SessionTransfer ---------------------------
(***************************************************************************)
(* The reference transfer application: sessions on one shared store that   *)
(* move scarce balances, or copy receipts, to one another by handoffs.     *)
(* The owner of an account signs a transfer; the source session locks the  *)
(* amount and issues a handoff; one target session takes it in and credits *)
(* the recipient; the source retires its lock, or its owner cancels the    *)
(* transfer and the amount comes back.  A session may also be continued by *)
(* a successor that inherits its state with every lock in it.  A session   *)
(* prepares a block against the store as it is and commits it later, when  *)
(* its finality proof has come; the store compares again.                  *)
(***************************************************************************)
EXTENDS Naturals, Sequences, FiniteSets, FiniteSetsExt, SequencesExt, Functions

CONSTANTS Sessions,         \* session ids
          NoRef, NoSession, \* no block, no session
          Assets, Owners,
          TransferIntents,  \* what owners may sign
          Plans,            \* Plans[p]: the policies of the sessions that
                            \* exist, the accounts the roots begin with, the
                            \* successors that may be declared, and the
                            \* bound heights[s] on blocks
          Times,            \* block timestamps
          MaxCommands,      \* bound on the commands of a block
          MAX_HANDOFF_OWNER_DEPTH

VARIABLES
    app,        \* app[s]: the committed TransferState of session s
    head,       \* head[s]: its height, timestamp, successor and predecessor
    handoffs,   \* the store's handoff records: handoff -> terminal
    executor,   \* executor[s]: Closed, or the depths its locks inherit
    prepared,   \* prepared[s]: the candidate block, or none
    proposal,   \* a successor put to the owners and who has approved it
    plan        \* the deployment

vars == <<app, head, handoffs, executor, prepared, proposal, plan>>

Life == INSTANCE HandoffLifecycle WITH Intents <- {}

Plan == Plans[plan]
Policy(s) == Plan.policies[s]

Absent == [accounts |-> <<>>, pending |-> {}, receipts |-> {}, used_nonces |-> {}]
Closed == [open |-> FALSE, depths |-> <<>>]
NoBlock == [commands |-> <<>>]
NoProposal == [source |-> NoSession]

Exists(s) == head[s].height # NoRef
Sealed(s) == head[s].successor # NoSession
Live == {s \in Sessions : Exists(s) /\ ~Sealed(s)}

-----------------------------------------------------------------------------
(* What an owner signs.  The transfer id is the digest they sign: all of   *)
(* the intent but the signature, so that a second signature makes another  *)
(* handoff and not another transfer.                                       *)
transfer_id(intent) == [payload |-> intent.payload, expires_at |-> intent.expires_at]

payload_validate(p) ==
    /\ p.amount # 0
    /\ p.kind = "CopyableReceipt" => p.amount = 1

verify_intent(intent) == payload_validate(intent.payload) /\ intent.signer = intent.payload.owner

(* Sessions with one policy have one intake policy; a limit is part of it. *)
intake_policy(s) == Policy(s)

matches_payload(s, p) == Policy(s).kind = p.kind /\ Policy(s).domain = p.domain

(* The target in the payload names a genesis or an intake policy, the      *)
(* handoff around it the session or the same policy.                       *)
accepts_target(target, s) ==
    \/ target = [session |-> s]
    \/ target = [policy |-> intake_policy(s)]

-----------------------------------------------------------------------------
(* The application's state.                                                *)
Account(available, version, components) ==
    [available |-> available, locked |-> 0, version |-> version, components |-> components]

LockedFor(st, key) ==
    MapThenSumSet(LAMBDA l : l.amount, {l \in st.pending : <<l.asset, l.owner>> = key})

(* The indexes fit the limits and agree: what an account has locked is     *)
(* what the locks on it say, a lock is older than its account and its      *)
(* nonce is used, and no handoff was taken in twice.                       *)
state_validate(s, st) ==
    LET limits == Policy(s).limits
    IN  /\ Cardinality(DOMAIN st.accounts) <= limits.max_accounts
        /\ Cardinality(st.pending) <= limits.max_pending
        /\ Cardinality(st.receipts) <= limits.max_receipts
        /\ Cardinality(st.used_nonces) <= limits.max_nonces
        /\ \A l \in st.pending :
               /\ Policy(s).kind = "Scarce"
               /\ <<l.asset, l.owner>> \in DOMAIN st.accounts
               /\ l.source_version < st.accounts[<<l.asset, l.owner>>].version
               /\ l.components = st.accounts[<<l.asset, l.owner>>].components
               /\ <<l.owner, l.nonce>> \in st.used_nonces
        /\ \A key \in DOMAIN st.accounts : LockedFor(st, key) = st.accounts[key].locked
        /\ \A r \in st.receipts :
               /\ r.kind = Policy(s).kind
               /\ \A q \in st.receipts : q.handoff = r.handoff => q = r

PendingLock(s, intent) ==
    LET p == intent.payload
    IN  [transfer_id |-> transfer_id(intent), source |-> s, asset |-> p.asset,
         owner |-> p.owner, recipient |-> p.recipient, amount |-> p.amount,
         nonce |-> p.nonce, source_version |-> p.source_version,
         components |-> p.components]

Refused == [ok |-> FALSE, state |-> Absent]
Accepted(s, st) == IF state_validate(s, st) THEN [ok |-> TRUE, state |-> st] ELSE Refused

(* A transfer leaves an account at the version its owner signed.  A scarce *)
(* amount is locked, a copyable one stays.                                 *)
issue(s, st, intent) ==
    LET p == intent.payload
        key == <<p.asset, p.owner>>
        scarce == p.kind = "Scarce"
        lock == PendingLock(s, intent)
    IN  IF /\ verify_intent(intent)
           /\ matches_payload(s, p)
           /\ p.source = s
           /\ <<p.owner, p.nonce>> \notin st.used_nonces
           /\ key \in DOMAIN st.accounts
           /\ st.accounts[key].version = p.source_version
           /\ st.accounts[key].components = p.components
           /\ st.accounts[key].available >= p.amount
           /\ scarce => \A l \in st.pending : l.transfer_id # transfer_id(intent)
        THEN Accepted(s, [st EXCEPT
                 !.accounts[key].available = IF scarce THEN @ - p.amount ELSE @,
                 !.accounts[key].locked = IF scarce THEN @ + p.amount ELSE @,
                 !.accounts[key].version = @ + 1,
                 !.pending = IF scarce THEN @ \union {lock} ELSE @,
                 !.used_nonces = @ \union {<<p.owner, p.nonce>>}])
        ELSE Refused

(* The lock a lifecycle action is about must be exactly the one the        *)
(* handoff's payload describes, of the session that issued it.             *)
LockOf(h) == PendingLock(h.source, h.intent)

LifecycleAllowed(s, st, h) ==
    /\ verify_intent(h.intent)
    /\ matches_payload(s, h.intent.payload)
    /\ h.intent.payload.kind = "Scarce"
    /\ h.intent.payload.source = h.source
    /\ LockOf(h) \in st.pending

(* Cancelling takes the owner's signature for this handoff under this      *)
(* session's genesis and changes nothing yet.                              *)
cancel(s, st, h, authorization) ==
    IF /\ LifecycleAllowed(s, st, h)
       /\ authorization = [genesis |-> s, handoff |-> h, owner |-> h.intent.payload.owner]
    THEN Accepted(s, st)
    ELSE Refused

(* After a durable cancellation anyone may return the amount.              *)
reclaim(s, st, h) ==
    LET p == h.intent.payload
        key == <<p.asset, p.owner>>
    IN  IF LifecycleAllowed(s, st, h)
        THEN Accepted(s, [st EXCEPT !.accounts[key].locked = @ - p.amount,
                                    !.accounts[key].available = @ + p.amount,
                                    !.accounts[key].version = @ + 1,
                                    !.pending = @ \ {LockOf(h)}])
        ELSE Refused

(* A consumed lock goes without crediting anyone.                          *)
retire(s, st, h) ==
    LET p == h.intent.payload
        key == <<p.asset, p.owner>>
    IN  IF LifecycleAllowed(s, st, h)
        THEN Accepted(s, [st EXCEPT !.accounts[key].locked = @ - p.amount,
                                    !.accounts[key].version = @ + 1,
                                    !.pending = @ \ {LockOf(h)}])
        ELSE Refused

(* The source must be pinned by the target's policy.  The receipt is the   *)
(* nullifier; only a scarce transfer makes a balance.                      *)
Credited(accounts, p) ==
    LET key == <<p.asset, p.recipient>>
    IN  IF key \in DOMAIN accounts
        THEN [accounts EXCEPT ![key].available = @ + p.amount, ![key].version = @ + 1]
        ELSE [k \in {key} |-> Account(p.amount, 0, p.components)] @@ accounts

ReceiptOf(h) ==
    LET p == h.intent.payload
    IN  [transfer_id |-> transfer_id(h.intent), handoff |-> h, recipient |-> p.recipient,
         amount |-> p.amount, kind |-> p.kind, components |-> p.components]

intake(s, st, h, time) ==
    LET p == h.intent.payload
        key == <<p.asset, p.recipient>>
    IN  IF /\ time <= h.intent.expires_at
           /\ verify_intent(h.intent)
           /\ matches_payload(s, p)
           /\ p.source \in Policy(s).accepted_sources
           /\ p.source = h.source
           /\ accepts_target(p.target, s)
           /\ \A r \in st.receipts : r.transfer_id # transfer_id(h.intent)
           /\ p.kind = "Scarce" /\ key \in DOMAIN st.accounts =>
                  st.accounts[key].components = p.components
        THEN Accepted(s, [st EXCEPT
                 !.accounts = IF p.kind = "Scarce" THEN Credited(@, p) ELSE @,
                 !.receipts = @ \union {ReceiptOf(h)}])
        ELSE Refused

-----------------------------------------------------------------------------
(* The store's side of a handoff: who may take it in and who may act on it. *)
BlockRef(s) == [session |-> s, height |-> head[s].height]

Predecessor(s) == head[s].predecessor

(* The sessions from s back to the origin it continues, without s, or none *)
(* within the depth the store follows.                                     *)
Ancestors[n \in 0..MAX_HANDOFF_OWNER_DEPTH, s \in Sessions] ==
    IF n = 0 \/ Predecessor(s) = NoSession THEN <<>>
    ELSE <<Predecessor(s)>> \o Ancestors[n - 1, Predecessor(s)]

Reaches(s, origin) == origin = s \/ Contains(Ancestors[MAX_HANDOFF_OWNER_DEPTH, s], origin)

Depth(s, origin) ==
    IF origin = s THEN 0
    ELSE CHOOSE n \in 1..MAX_HANDOFF_OWNER_DEPTH : Ancestors[n, s][n] = origin

Consumable(s, time, h) ==
    /\ h \in DOMAIN handoffs
    /\ Life!is_available(handoffs[h])
    /\ accepts_target(h.intent.payload.target, s)
    /\ time <= h.intent.expires_at

Actionable(s, a) ==
    /\ a.handoff \in DOMAIN handoffs
    /\ handoffs[a.handoff] = Life!ExpectedTerminal(a)
    /\ Life!validate_for(a, BlockRef(s))
    /\ Reaches(s, a.handoff.source)
    /\ a.kind = "Reclaim" => Reaches(s, a.evidence.session)

-----------------------------------------------------------------------------
(* Source bindings: every lock the state holds is this session's own, or   *)
(* comes from one it continues within the depth the store follows.         *)
for_state_allowed(s) ==
    /\ \A t \in Policy(s).accepted_sources : Exists(t)
    /\ \A l \in app[s].pending : Reaches(s, l.source)

for_state(s) ==
    LET inherited == {l.source : l \in app[s].pending} \ {s}
    IN  [open |-> TRUE, depths |-> [t \in inherited |-> Depth(s, t)]]

(* create_chain for a root whose policy and state are its genesis.         *)
create_chain(s) ==
    /\ s \in DOMAIN Plan.roots
    /\ ~Exists(s)
    /\ state_validate(s, [Absent EXCEPT !.accounts = Plan.roots[s]])
    /\ \A t \in Policy(s).accepted_sources : Exists(t)
    /\ app' = [app EXCEPT ![s].accounts = Plan.roots[s]]
    /\ head' = [head EXCEPT ![s].height = 0]
    /\ executor' = [executor EXCEPT ![s] = [open |-> TRUE, depths |-> <<>>]]
    /\ UNCHANGED <<handoffs, prepared, proposal, plan>>

(* A restarted process, or the first of a successor, decodes the snapshot. *)
restore_executor(s) ==
    /\ Exists(s) /\ ~Sealed(s)
    /\ ~executor[s].open
    /\ state_validate(s, app[s])
    /\ for_state_allowed(s)
    /\ executor' = [executor EXCEPT ![s] = for_state(s)]
    /\ UNCHANGED <<app, head, handoffs, prepared, proposal, plan>>

Crash(s) ==
    /\ executor[s].open
    /\ executor' = [executor EXCEPT ![s] = Closed]
    /\ prepared' = [prepared EXCEPT ![s] = NoBlock]
    /\ UNCHANGED <<app, head, handoffs, proposal, plan>>

(* The owners of a state: who has an account and who holds a receipt.      *)
owners(st) == {key[2] : key \in DOMAIN st.accounts} \union {r.recipient : r \in st.receipts}

(* The successor's genesis: it preserves the application and the state.    *)
TargetConfig(s, t) == [session |-> t, predecessor |-> BlockRef(s), initial_state |-> app[s]]

(* One owner approves one successor at one state.  The approvals of an     *)
(* earlier state are kept until another proposal replaces them.            *)
continue_session(owner, s, t) ==
    LET digest == [source |-> s, state |-> app[s], target |-> TargetConfig(s, t)]
    IN  /\ s \in Live
        /\ owner \in owners(app[s])
        /\ \/ /\ proposal # NoProposal /\ proposal.digest = digest
              /\ owner \notin proposal.approvals
              /\ proposal' = [proposal EXCEPT !.approvals = @ \union {owner}]
           \/ /\ proposal # NoProposal => proposal.digest # digest
              /\ proposal' = [source |-> s, digest |-> digest, approvals |-> {owner}]
        /\ UNCHANGED <<app, head, handoffs, executor, prepared, plan>>

(* A broken form of too_deep: the last depth the store follows may be      *)
(* passed on.                                                              *)
too_deepByOne(depth) == depth > MAX_HANDOFF_OWNER_DEPTH

(* The successor of a lock's holder is one step further from its origin.   *)
too_deep(depth) == depth >= MAX_HANDOFF_OWNER_DEPTH

LockDepth(s, l) == IF l.source = s THEN 0 ELSE executor[s].depths[l.source]

(* Every owner has approved exactly this state and this successor, and no  *)
(* lock would be carried beyond the depth the store follows.               *)
ContinueAllowed(s, target) ==
    /\ proposal # NoProposal
    /\ target.initial_state = app[s]
    /\ \A l \in app[s].pending :
           /\ l.source = s \/ l.source \in DOMAIN executor[s].depths
           /\ ~too_deep(LockDepth(s, l))
    /\ proposal.approvals = owners(app[s])
    /\ proposal.digest = [source |-> s, state |-> app[s], target |-> target]
    /\ target.predecessor = BlockRef(s)

-----------------------------------------------------------------------------
(* Blocks.  A command comes with the effect it stands for: an issued       *)
(* intent, a consumed handoff, or a lifecycle action with its witness.     *)
Command(op, intent, handoff, action, authorization) ==
    [op |-> op, intent |-> intent, handoff |-> handoff, action |-> action,
     authorization |-> authorization]

Issue(s) ==
    {Command("Issue", i, NoRef, NoRef, NoRef) :
        i \in {i \in TransferIntents : i.payload.source = s}}

Intake == {Command("Intake", NoRef, h, NoRef, NoRef) : h \in DOMAIN handoffs}

(* A cancellation may have been signed for this session's genesis or for   *)
(* the one it continues.                                                   *)
Authorization(s, a) ==
    IF a.kind # "Cancel" THEN {NoRef}
    ELSE [genesis: {s, Predecessor(s)}, handoff: {a.handoff},
          owner: {a.handoff.intent.payload.owner}]

Lifecycle(s) ==
    UNION {{Command(a.kind, NoRef, a.handoff, a, auth) : auth \in Authorization(s, a)} :
              a \in UNION {Life!ActionsOn(h, handoffs[h]) : h \in DOMAIN handoffs}}

Commands(s) == Issue(s) \union Intake \union Lifecycle(s)

identity(c) ==
    <<c.op, IF c.op = "Issue" THEN transfer_id(c.intent) ELSE c.handoff>>

Execute(s, time, commands) ==
    LET Step(r, c) ==
            IF ~r.ok THEN r
            ELSE CASE c.op = "Issue" -> issue(s, r.state, c.intent)
                   [] c.op = "Intake" -> intake(s, r.state, c.handoff, time)
                   [] c.op = "Cancel" -> cancel(s, r.state, c.handoff, c.authorization)
                   [] c.op = "Reclaim" -> reclaim(s, r.state, c.handoff)
                   [] c.op = "Retire" -> retire(s, r.state, c.handoff)
    IN  FoldLeft(Step, [ok |-> TRUE, state |-> app[s]], commands)

Handoff(s, intent) == [source |-> s, height |-> head[s].height, intent |-> intent]

(* What the store compares when the block is prepared and once more when   *)
(* it is committed.                                                        *)
EffectsAllowed(s, b) ==
    \A n \in DOMAIN b.commands :
        LET c == b.commands[n]
        IN  /\ c.op = "Issue" => /\ c.intent.expires_at > b.time
                                 /\ Handoff(s, c.intent) \notin DOMAIN handoffs
            /\ c.op = "Intake" => Consumable(s, b.time, c.handoff)
            /\ c.action # NoRef => Actionable(s, c.action)

OneEffectEach(commands) ==
    \A m, n \in DOMAIN commands :
        m # n => /\ identity(commands[m]) # identity(commands[n])
                 /\ commands[m].handoff = NoRef \/ commands[m].handoff # commands[n].handoff

Ready(s) ==
    /\ executor[s].open /\ ~Sealed(s)
    /\ prepared[s] = NoBlock
    /\ head[s].height < Plan.heights[s]

execute_transfer_actions(s, time, commands) ==
    LET b == [commands |-> commands, time |-> time, target |-> NoRef,
              after |-> Execute(s, time, commands).state]
    IN  /\ Ready(s)
        /\ commands # <<>>
        /\ time >= head[s].time
        /\ OneEffectEach(commands)
        /\ EffectsAllowed(s, b)
        /\ Execute(s, time, commands).ok
        /\ prepared' = [prepared EXCEPT ![s] = b]
        /\ UNCHANGED <<app, head, handoffs, executor, proposal, plan>>

(* A continuation is the only command of its block.                        *)
Continue(s, time, t) ==
    LET target == proposal.digest.target
    IN  /\ Ready(s)
        /\ time >= head[s].time
        /\ proposal # NoProposal /\ target.session = t
        /\ Policy(t) = Policy(s)
        /\ ContinueAllowed(s, target)
        /\ prepared' = [prepared EXCEPT ![s] =
               [commands |-> <<Command("Continue", NoRef, NoRef, NoRef, NoRef)>>,
                time |-> time, target |-> target, after |-> app[s]]]
        /\ UNCHANGED <<app, head, handoffs, executor, proposal, plan>>

(* The handoff records a block leaves.                                     *)
HandoffWrites(s, b) ==
    LET at == BlockRef(s)
        Written(c) ==
            CASE c.op = "Issue" -> Handoff(s, c.intent) :> Life!Issued
              [] c.op = "Intake" -> c.handoff :> Life!Consumed(at)
              [] c.op = "Continue" -> <<>>
              [] OTHER -> c.handoff :> Life!apply_action(c.action, at)
    IN  FoldLeft(LAMBDA acc, c : Written(c) @@ acc, handoffs, b.commands)

(* Finality has come: the block, its handoff records and a successor's     *)
(* genesis are written at once, or the store refuses the block.            *)
CommitAllowed(s, b) ==
    /\ EffectsAllowed(s, b)
    /\ b.target # NoRef => ~Exists(b.target.session)

commit_finalised(s) ==
    LET b == prepared[s]
    IN  /\ b # NoBlock
        /\ prepared' = [prepared EXCEPT ![s] = NoBlock]
        /\ \/ /\ CommitAllowed(s, b)
              /\ handoffs' = HandoffWrites(s, b)
              /\ app' = IF b.target = NoRef THEN [app EXCEPT ![s] = b.after]
                        ELSE [app EXCEPT ![s] = b.after, ![b.target.session] = b.after]
              /\ head' = LET sealed == IF b.target = NoRef THEN NoSession ELSE b.target.session
                             own == [head EXCEPT ![s] = [@ EXCEPT !.height = @ + 1, !.time = b.time,
                                                                  !.successor = sealed]]
                         IN  IF sealed = NoSession THEN own
                             ELSE [own EXCEPT ![sealed] = [height |-> 0, time |-> b.time,
                                       successor |-> NoSession, predecessor |-> s]]
           \/ ~CommitAllowed(s, b) /\ UNCHANGED <<app, head, handoffs>>
        /\ UNCHANGED <<executor, proposal, plan>>

Init ==
    /\ app = [s \in Sessions |-> Absent]
    /\ head = [s \in Sessions |-> [height |-> NoRef, time |-> 0, successor |-> NoSession,
                                   predecessor |-> NoSession]]
    /\ handoffs = <<>>
    /\ executor = [s \in Sessions |-> Closed]
    /\ prepared = [s \in Sessions |-> NoBlock]
    /\ proposal = NoProposal
    /\ plan \in DOMAIN Plans

Next ==
    \E s \in DOMAIN Plan.policies :
        \/ create_chain(s)
        \/ restore_executor(s)
        \/ Crash(s)
        \/ \E owner \in Owners, t \in Plan.successors : continue_session(owner, s, t)
        \/ \E time \in Times, t \in Plan.successors : Continue(s, time, t)
        \/ /\ Ready(s)
           /\ \E time \in Times : \E commands \in BoundedSeq(Commands(s), MaxCommands) :
                  execute_transfer_actions(s, time, commands)
        \/ commit_finalised(s)

Spec == Init /\ [][Next]_vars

-----------------------------------------------------------------------------
(* The handoff records of a lock's transfer.                               *)
HandoffsOf(l) == {h \in DOMAIN handoffs : transfer_id(h.intent) = l.transfer_id}

StateOf(l) == {handoffs[h].state : h \in HandoffsOf(l)}

TypeOK ==
    /\ \A s \in Sessions : Exists(s) => state_validate(s, app[s])
    /\ \A h \in DOMAIN handoffs : handoffs[h].state \in
           {"Issued", "Consumed", "Cancelled", "Reclaimed", "Retired"}

(* A scarce asset is neither made nor lost: over the sessions that have    *)
(* not been continued, what is available and what is locked for a transfer *)
(* no target has taken in is what the roots began with, through races of   *)
(* two targets, of a target and a cancellation, crashes and continuations; *)
(* and a transfer is credited in one session only (session-transfer's      *)
(* issue, intake and lifecycle).                                           *)
Value(s, asset) ==
    LET accounts == {key \in DOMAIN app[s].accounts : key[1] = asset}
        held == {l \in app[s].pending :
                    l.asset = asset /\ StateOf(l) \subseteq {"Issued", "Cancelled"}}
    IN  MapThenSumSet(LAMBDA key : app[s].accounts[key].available, accounts)
            + MapThenSumSet(LAMBDA l : l.amount, held)

Supply(asset) ==
    LET roots == {s \in DOMAIN Plan.roots : Exists(s)}
    IN  MapThenSumSet(LAMBDA s : MapThenSumSet(
            LAMBDA key : IF key[1] = asset THEN Plan.roots[s][key].available ELSE 0,
            DOMAIN Plan.roots[s]), roots)

ScarceConserved ==
    /\ TypeOK
    /\ \A asset \in Assets : MapThenSumSet(LAMBDA s : Value(s, asset), Live) = Supply(asset)
    /\ \A s, t \in Live : \A r \in app[s].receipts, q \in app[t].receipts :
           r.transfer_id = q.transfer_id => s = t

(* No lock is stranded: a session that has not been continued can always   *)
(* be opened again, and for every lock it holds, inherited or its own,     *)
(* there is an action that the store and the application both accept in    *)
(* its next block and that brings the lock closer to its end: retire it,   *)
(* reclaim it, or cancel the transfer.                                     *)
Settles(s, l) ==
    \E h \in HandoffsOf(l) : \E a \in Life!ActionsOn(h, handoffs[h]) :
        /\ Actionable(s, a)
        /\ CASE a.kind = "Cancel" ->
                    cancel(s, app[s], h, [genesis |-> s, handoff |-> h, owner |-> l.owner]).ok
             [] a.kind = "Reclaim" -> reclaim(s, app[s], h).ok
             [] a.kind = "Retire" -> retire(s, app[s], h).ok

NoStrandedLock ==
    \A s \in Live : for_state_allowed(s) /\ \A l \in app[s].pending : Settles(s, l)
=============================================================================
