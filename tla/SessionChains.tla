---------------------------- MODULE SessionChains ----------------------------
(***************************************************************************)
(* Session chain handles on one shared store.  A handle is a process's     *)
(* in-memory chain: it was opened by create or by a full recovery audit,   *)
(* prepares a candidate block against what it can read at that moment, and *)
(* commits it later, when a finality proof has arrived.  Several handles   *)
(* may be open on one session, and other sessions commit in between.       *)
(***************************************************************************)
EXTENDS HandoffLifecycle

-----------------------------------------------------------------------------
(***************************************************************************)
(* The durable session store that several sessions share, and its          *)
(* transactions.  Each transaction is one step: RocksDB's optimistic       *)
(* transactions lock every key they read for update and fail as a whole    *)
(* when another commit touched one of them, and a failed transaction       *)
(* changes nothing.                                                        *)
(*                                                                         *)
(* A session's head is the sequence of the blocks below it; block n (from  *)
(* 0) is position n + 1.                                                   *)
(***************************************************************************)

CONSTANTS Handles,                   \* the processes that use the store
          Commands,                  \* command ids of the sessions' clients
          EffectsPolicy,             \* EffectsPolicy[s]: the genesis policy of s
          Profile,                   \* Profile[s]: its application profile, with the
                                     \* state codec as a field
          MAX_HANDOFF_OWNER_DEPTH,   \* how far ownership follows successors
          Stages,                    \* the stages of the evidence pipeline
          NoGenesis,                 \* the session does not exist
          NoSession,                 \* there is no such session
          NoWal                      \* no consensus write-ahead record

VARIABLES
    genesis,    \* genesis[s]: the immutable configuration of session s
    chain,      \* chain[s]: the finalised blocks of session s
    receipts,   \* the command index
    full,       \* the handoff index: complete records
    compact,    \* the handoff index: payload dropped, lifecycle kept
    cold,       \* the blocks that now live in an archive
    outbox,     \* the outbox messages not yet acknowledged
    evidence,   \* how many receipts each outbox message has
    wal         \* wal[s]: the consensus write-ahead record of session s

storeVars == <<genesis, chain, receipts, full, compact, cold, outbox,
               evidence, wal>>

-----------------------------------------------------------------------------
SuccessorStates == {"Continue", "Compatible", "Migrate"}

Successor == [target: Sessions, state: SuccessorStates]

FinalisedBlock == [time: Nat,
                   commands: SUBSET Commands,
                   issued: SUBSET Intents,
                   consumed: SUBSET SessionHandoff,
                   actions: SUBSET HandoffAction,
                   successor: Successor \cup {NoSession},
                   emits: BOOLEAN]

SessionGenesis == [predecessor: BlockRef \cup {NoRef}, time: Nat]

CommandReceipt == [session: Sessions, command: Commands, height: Nat]

ConsensusWal == [height: Nat, revision: Nat, by: Handles]

(* What a process holds of the session it works on. *)
SessionChain == [session: Sessions, head: Seq(FinalisedBlock)]

Exists(s) == genesis[s] # NoGenesis

Last(head) == head[Len(head)]

(* The time of a session's head. *)
HeadTime(s, head) == IF head = <<>> THEN genesis[s].time ELSE Last(head).time

sealed_by_successor(head) ==
    IF head = <<>> THEN NoSession ELSE Last(head).successor

(* The handoffs that a block at this place issues. *)
IssuedBy(ref, block) ==
    {[source |-> ref.session, height |-> ref.height, intent |-> i] :
        i \in block.issued}

-----------------------------------------------------------------------------
(* The handoff index. *)

Known == DOMAIN full \cup DOMAIN compact

(* Loading fails when both forms of a record exist. *)
Readable(h) == h \in Known /\ ~(h \in DOMAIN full /\ h \in DOMAIN compact)

resolve(h) == IF h \in DOMAIN full THEN full[h] ELSE compact[h]

(* Writing handoff records replaces or adds complete entries. *)
Put(index, records) ==
    [h \in DOMAIN index \cup DOMAIN records |->
        IF h \in DOMAIN records THEN records[h] ELSE index[h]]

Drop(index, gone) == [h \in DOMAIN index \ gone |-> index[h]]

-----------------------------------------------------------------------------
(* Ownership of a handoff follows exact, state-preserving successions. *)

(* A broken form of ContinuedFrom: any successor inherits. *)
SucceededFrom(s) ==
    LET p == genesis[s].predecessor IN
    IF /\ p # NoRef
       /\ Len(chain[p.session]) = p.height + 1
       /\ sealed_by_successor(chain[p.session]) # NoSession
       /\ Last(chain[p.session]).successor.target = s
    THEN p.session ELSE NoSession

(* The sealed predecessor whose state bytes and rules s carries on. *)
ContinuedFrom(s) ==
    LET p == genesis[s].predecessor IN
    IF /\ p # NoRef
       /\ Len(chain[p.session]) = p.height + 1
       /\ sealed_by_successor(chain[p.session])
              = [target |-> s, state |-> "Continue"]
    THEN p.session ELSE NoSession

(* path[n] is the n-th predecessor of s in that sense. *)
continuation_lineage(s) ==
    LET path[n \in 0..MAX_HANDOFF_OWNER_DEPTH] ==
            IF n = 0 THEN s
            ELSE IF path[n - 1] = NoSession THEN NoSession
            ELSE ContinuedFrom(path[n - 1])
    IN path

(* The height at which the n-th predecessor of s was sealed. *)
SealHeight(s, n) ==
    genesis[continuation_lineage(s)[n - 1]].predecessor.height

(* s is the source of h, or continues it from after h was issued. *)
handoff_owner_depths(s, h) ==
    {n \in 0..MAX_HANDOFF_OWNER_DEPTH :
        /\ continuation_lineage(s)[n] = h.source
        /\ n > 0 => SealHeight(s, n) >= h.height}

validate_handoff_action(a, at) ==
    /\ validate_for(a, at)
    /\ \E n \in handoff_owner_depths(at.session, a.handoff) :
          a.kind = "Reclaim" =>
              \/ a.evidence.session = at.session
              \/ \E k \in 1..n :
                    /\ continuation_lineage(at.session)[k] = a.evidence.session
                    /\ a.evidence.height <= SealHeight(at.session, k)

validate_handoff_trust(target, source) ==
    /\ EffectsPolicy[target] # "Disabled"
    /\ EffectsPolicy[target] = "Application" =>
          EffectsPolicy[source] = "Application"

(* A message is identified by the block that emits it. *)
EvidenceReached(h) ==
    h.intent.receipts > 0 =>
        /\ IssuedAt(h) \in DOMAIN evidence
        /\ evidence[IssuedAt(h)] >= h.intent.receipts

(* What a state-preserving or converting successor needs of its source. *)
transition_validate(source, succ) ==
    CASE succ.state = "Continue" ->
            /\ Profile[source] = Profile[succ.target]
            /\ EffectsPolicy[source] = EffectsPolicy[succ.target]
      [] succ.state = "Compatible" ->
            /\ EffectsPolicy[source] = "Application"
            /\ Profile[source].codec = Profile[succ.target].codec
      [] succ.state = "Migrate" -> EffectsPolicy[source] = "Application"

-----------------------------------------------------------------------------
(* Checks that both the preparing session and the store make. *)

Consumable(s, time, h) ==
    /\ Readable(h)
    /\ is_available(resolve(h))
    /\ s \in h.intent.targets
    /\ time <= h.intent.expires_at
    /\ validate_handoff_trust(s, h.source)
    /\ EvidenceReached(h)

(* The index still holds the state that the action was resolved against,   *)
(* and the block it refers to really says so.                              *)
Actionable(a, at) ==
    /\ Readable(a.handoff)
    /\ resolve(a.handoff) = ExpectedTerminal(a)
    /\ validate_handoff_action(a, at)
    /\ a.kind = "Reclaim" =>
          \E c \in chain[a.evidence.session][a.evidence.height + 1].actions :
              c.kind = "Cancel" /\ c.handoff = a.handoff
    /\ a.kind = "Retire" =>
          a.handoff \in chain[a.evidence.session][a.evidence.height + 1].consumed

-----------------------------------------------------------------------------
(* Transactions. *)

create_session(s) ==
    /\ ~Exists(s)
    /\ genesis' = [genesis EXCEPT ![s] = [predecessor |-> NoRef, time |-> 0]]
    /\ UNCHANGED <<chain, receipts, full, compact, cold, outbox, evidence, wal>>

(* A broken form of CommitAllowed: consumption trusts the prepared block. *)
CommitAllowedIfPrepared(s, base, b) ==
    LET at == [session |-> s, height |-> Len(base)] IN
    /\ chain[s] = base
    /\ b.successor # NoSession => ~Exists(b.successor.target)
    /\ ~\E r \in receipts : r.session = s /\ r.command \in b.commands
    /\ IssuedBy(at, b) \cap Known = {}
    /\ \A a \in b.actions : Actionable(a, at)
    /\ wal[s] # NoWal => wal[s].height <= Len(base)

(* A broken form of CommitAllowed: the head is not compared. *)
CommitAllowedAnywhere(s, base, b) ==
    LET at == [session |-> s, height |-> Len(chain[s])] IN
    /\ b.successor # NoSession => ~Exists(b.successor.target)
    /\ ~\E r \in receipts : r.session = s /\ r.command \in b.commands
    /\ IssuedBy(at, b) \cap Known = {}
    /\ \A h \in b.consumed : Consumable(s, b.time, h)
    /\ \A a \in b.actions : Actionable(a, at)
    /\ wal[s] # NoWal => wal[s].height <= Len(base)

(* Everything commit_block compares before it writes. *)
CommitAllowed(s, base, b) ==
    LET at == [session |-> s, height |-> Len(base)] IN
    /\ chain[s] = base
    /\ b.successor # NoSession => ~Exists(b.successor.target)
    /\ ~\E r \in receipts : r.session = s /\ r.command \in b.commands
    /\ IssuedBy(at, b) \cap Known = {}
    /\ \A h \in b.consumed : Consumable(s, b.time, h)
    /\ \A a \in b.actions : Actionable(a, at)
    /\ wal[s] # NoWal => wal[s].height <= Len(base)

(* A broken form of ReceiptsOf: the first block of a session is not        *)
(* indexed.                                                                *)
ReceiptsAboveZero(at, b) ==
    {[session |-> at.session, command |-> c, height |-> at.height] :
        c \in IF at.height = 0 THEN {} ELSE b.commands}

ReceiptsOf(at, b) ==
    {[session |-> at.session, command |-> c, height |-> at.height] :
        c \in b.commands}

(* The handoff records a block writes. *)
HandoffWrites(at, b) ==
    LET acted == {a.handoff : a \in b.actions} IN
    [h \in IssuedBy(at, b) \cup b.consumed \cup acted |->
        IF h \in b.consumed THEN Consumed(at)
        ELSE IF h \in acted
             THEN apply_action(CHOOSE a \in b.actions : a.handoff = h, at)
        ELSE Issued]

(* The block, its indexes, its messages, the successor's genesis and the   *)
(* end of the height's write-ahead record are one transaction.             *)
commit_block(s, base, b) ==
    LET at == [session |-> s, height |-> Len(base)] IN
    /\ CommitAllowed(s, base, b)
    /\ chain' = [chain EXCEPT ![s] = Append(chain[s], b)]
    /\ genesis' = IF b.successor = NoSession THEN genesis
                  ELSE [genesis EXCEPT ![b.successor.target] =
                           [predecessor |-> at, time |-> b.time]]
    /\ receipts' = receipts \cup ReceiptsOf(at, b)
    /\ full' = Put(full, HandoffWrites(at, b))
    /\ outbox' = IF b.emits THEN outbox \cup {at} ELSE outbox
    /\ wal' = [wal EXCEPT ![s] = NoWal]
    /\ UNCHANGED <<compact, cold, evidence>>

acknowledge_outbox(m) ==
    /\ m \in outbox
    /\ outbox' = outbox \ {m}
    /\ UNCHANGED <<genesis, chain, receipts, full, compact, cold, evidence, wal>>

(* The next receipt of a message is only accepted while it is pending. *)
compare_and_set_evidence(m) ==
    /\ m \in outbox
    /\ m \in DOMAIN evidence => evidence[m] < Stages
    /\ evidence' = [x \in DOMAIN evidence \cup {m} |->
                       IF x # m THEN evidence[x]
                       ELSE IF m \in DOMAIN evidence THEN evidence[m] + 1 ELSE 1]
    /\ UNCHANGED <<genesis, chain, receipts, full, compact, cold, outbox, wal>>

(* A broken form of WalAllowed: the height is not compared with the head. *)
WalAllowedByRevision(s, expected, next) ==
    IF expected = NoWal
    THEN wal[s] = NoWal /\ next.revision = 0
    ELSE /\ wal[s] # NoWal
         /\ wal[s].revision = expected.revision
         /\ next.revision = expected.revision + 1

WalAllowed(s, expected, next) ==
    /\ next.height = Len(chain[s])
    /\ IF expected = NoWal
       THEN wal[s] = NoWal /\ next.revision = 0
       ELSE /\ wal[s] # NoWal
            /\ wal[s].revision = expected.revision
            /\ next.revision = expected.revision + 1

compare_and_set_consensus_wal(s, expected, next) ==
    /\ Exists(s)
    /\ WalAllowed(s, expected, next)
    /\ wal' = [wal EXCEPT ![s] = next]
    /\ UNCHANGED <<genesis, chain, receipts, full, compact, cold, outbox, evidence>>

-----------------------------------------------------------------------------
(* Archival relocation of one block. *)

(* Nothing further can be asked of this handoff that its block must answer. *)
Closed(h) ==
    \/ terminal_is_final(resolve(h))
    \/ resolve(h).state = "Consumed" /\ h.intent.copyable

Touched(ref, b) ==
    IssuedBy(ref, b) \cup b.consumed \cup {a.handoff : a \in b.actions}

(* The issued handoffs of a block whose payload may go. *)
Compactable(ref, b) ==
    {h \in IssuedBy(ref, b) \cap DOMAIN full : terminal_is_final(full[h])}

(* The caller's window and protected ranges only restrict which heights it *)
(* asks for.  A block that is cold already is only compacted further.      *)
offload_block(ref) ==
    LET b == chain[ref.session][ref.height + 1]
        gone == Compactable(ref, b)
    IN
    /\ ref.height + 1 < Len(chain[ref.session])
    /\ ref \notin outbox
    /\ ref \notin cold => \A h \in Touched(ref, b) : Closed(h)
    /\ ref \in cold => gone # {}
    /\ cold' = cold \cup {ref}
    /\ compact' = Put(compact, [h \in gone |-> full[h]])
    /\ full' = Drop(full, gone)
    /\ UNCHANGED <<genesis, chain, receipts, outbox, evidence, wal>>

-----------------------------------------------------------------------------
(* The audit a session passes before it may write again. *)

audit_handoff_lifecycle(h) ==
    LET t == resolve(h)
        Says(ref, a) ==
            /\ validate_handoff_action(a, ref)
            /\ a \in chain[ref.session][ref.height + 1].actions
        Act(kind, at) == [kind |-> kind, handoff |-> h, evidence |-> at]
    IN
    /\ h.height < Len(chain[h.source])
    /\ h.intent \in chain[h.source][h.height + 1].issued
    /\ validate_lifecycle(h, t)
    /\ consumption(t) # NoRef =>
          h \in chain[consumption(t).session][consumption(t).height + 1].consumed
    /\ t.state = "Retired" => Says(t.at, Act("Retire", t.consumed_at))
    /\ t.state = "Cancelled" => Says(t.at, Act("Cancel", NoRef))
    /\ t.state = "Reclaimed" =>
          /\ Says(t.cancelled_at, Act("Cancel", NoRef))
          /\ Says(t.at, Act("Reclaim", t.cancelled_at))

(* What the index must say of an action that an audited block took. *)
audit_action(a, at) ==
    /\ validate_handoff_action(a, at)
    /\ Readable(a.handoff)
    /\ audit_handoff_lifecycle(a.handoff)
    /\ LET t == resolve(a.handoff) IN
       \/ t = apply_action(a, at)
       \/ a.kind = "Cancel" /\ t.state = "Reclaimed" /\ t.cancelled_at = at

audit_indexes(s, n) ==
    LET at == [session |-> s, height |-> n]
        b == chain[s][n + 1]
    IN
    /\ \A c \in b.commands : [session |-> s, command |-> c, height |-> n] \in receipts
    /\ \A a \in b.actions : audit_action(a, at)
    /\ \A h \in IssuedBy(at, b) : Readable(h) /\ audit_handoff_lifecycle(h)
    /\ \A h \in b.consumed :
          /\ Readable(h)
          /\ consumption(resolve(h)) = at
          /\ s \in h.intent.targets
          /\ b.time <= h.intent.expires_at
          /\ validate_handoff_trust(s, h.source)
          /\ h.intent \in chain[h.source][h.height + 1].issued

(* Block n extends the blocks below it and respects its own effects. *)
audit_record(s, n) ==
    LET below == SubSeq(chain[s], 1, n)
        b == chain[s][n + 1]
    IN
    /\ sealed_by_successor(below) = NoSession
    /\ b.time >= HeadTime(s, below)
    /\ b.successor # NoSession => transition_validate(s, b.successor)
    /\ \A i \in b.issued : i.expires_at > b.time

(* The genesis of a successor and the last block of its predecessor name   *)
(* each other.                                                             *)
audit_lineage(s) ==
    /\ genesis[s].predecessor # NoRef =>
          LET p == genesis[s].predecessor IN
          /\ Len(chain[p.session]) = p.height + 1
          /\ sealed_by_successor(chain[p.session]) # NoSession
          /\ Last(chain[p.session]).successor.target = s
    /\ sealed_by_successor(chain[s]) # NoSession =>
          LET t == Last(chain[s]).successor.target IN
          /\ Exists(t)
          /\ genesis[t].predecessor =
                [session |-> s, height |-> Len(chain[s]) - 1]

recovery_audit(s) ==
    /\ audit_lineage(s)
    /\ \A n \in 0..(Len(chain[s]) - 1) : audit_record(s, n) /\ audit_indexes(s, n)

-----------------------------------------------------------------------------
CONSTANTS Plans,        \* Plans[p]: a deployment to consider: its sessions, the
                        \* roots among them that are created, not succeeded
                        \* to, and the archived ones; its handles and
                        \* clients' commands; issues[s], the intents the
                        \* application of s has; emits, whether a block may
                        \* emit a message; and the bounds heights[s] on
                        \* blocks, prepared on candidates per process and
                        \* revisions on write-ahead records
          MaxTime,      \* bound on block timestamps
          MaxEffects,   \* the commit limits on the effects of one block
          NoHandle      \* the process has no session open

ASSUME PlansAssumption ==
    \A p \in DOMAIN Plans :
        /\ Plans[p].sessions \subseteq Sessions
        /\ Plans[p].archived \subseteq Sessions
        /\ Plans[p].handles \subseteq Handles
        /\ Plans[p].commands \subseteq Commands
        /\ \A s \in Sessions : Plans[p].issues[s] \subseteq Intents
        /\ Plans[p].emits \subseteq BOOLEAN

ASSUME BoundsAssumption ==
    MaxTime \in Nat /\ Stages \in Nat \ {0} /\ MAX_HANDOFF_OWNER_DEPTH \in Nat

ASSUME SentinelsAssumption ==
    /\ NoWal \notin ConsensusWal
    /\ NoGenesis \notin SessionGenesis
    /\ NoSession \notin Sessions
    /\ NoHandle \notin SessionChain

VARIABLES
    handle,     \* handle[c]: the session and the head process c works on
    prepared,   \* prepared[c]: the candidates process c may commit
    seen,       \* seen[c]: the write-ahead record process c last read
    plan        \* the name of the deployment

vars == <<storeVars, handle, prepared, seen, plan>>

-----------------------------------------------------------------------------
Plan == Plans[plan]

Init ==
    /\ genesis = [s \in Sessions |-> NoGenesis]
    /\ chain = [s \in Sessions |-> <<>>]
    /\ receipts = {}
    /\ full = <<>>
    /\ compact = <<>>
    /\ cold = {}
    /\ outbox = {}
    /\ evidence = <<>>
    /\ wal = [s \in Sessions |-> NoWal]
    /\ handle = [c \in Handles |-> NoHandle]
    /\ prepared = [c \in Handles |-> {}]
    /\ seen = [c \in Handles |-> NoWal]
    /\ plan \in DOMAIN Plans

(* A process works on this session from now on.  Its candidates survive,  *)
(* unless it crashed before.                                               *)
Open(c, s, head) ==
    /\ handle' = [handle EXCEPT ![c] = [session |-> s, head |-> head]]
    /\ \/ prepared' = prepared
       \/ prepared' = [prepared EXCEPT ![c] = {}]
    /\ seen' = [seen EXCEPT ![c] = NoWal]
    /\ UNCHANGED plan

Create(c, s) ==
    /\ s \in Plan.roots
    /\ create_session(s)
    /\ Open(c, s, <<>>)

(* A restarted process, or a new one, audits the whole history first. *)
Recover(c, s) ==
    /\ Exists(s)
    /\ handle[c] # [session |-> s, head |-> chain[s]]
    /\ recovery_audit(s)
    /\ Open(c, s, chain[s])
    /\ UNCHANGED storeVars

(* The sets of effects of one kind that the limits leave room for. *)
Few(S) == {T \in SUBSET S : Cardinality(T) <= MaxEffects}

(* The requests an application may make of a session at this moment. *)
Requests(s) ==
    {r \in [issued: Few(Plan.issues[s]), consumed: Few(Known),
            actions: Few(UNION {ActionsOn(h, resolve(h)) : h \in Known}),
            successor: {d \in Successor : d.target \in Plan.sessions} \cup {NoSession},
            commands: SUBSET Plan.commands, emits: Plan.emits] :
        Cardinality(r.issued) + Cardinality(r.consumed)
            + Cardinality(r.actions) <= MaxEffects}

CandidateBlock(time, r) ==
    [time |-> time, commands |-> r.commands, issued |-> r.issued,
     consumed |-> r.consumed, actions |-> r.actions,
     successor |-> r.successor, emits |-> r.emits]

(* The effects of a request are checked against the store as it is now. *)
PrepareAllowed(s, head, time, r) ==
    LET at == [session |-> s, height |-> Len(head)] IN
    /\ sealed_by_successor(head) = NoSession
    /\ ~\E x \in receipts : x.session = s /\ x.command \in r.commands
    /\ time >= HeadTime(s, head)
    /\ \A h \in r.consumed :
          Consumable(s, time, h) /\ audit_handoff_lifecycle(h)
    /\ \A a \in r.actions :
          /\ a.handoff \notin r.consumed
          /\ Actionable(a, at)
          /\ audit_handoff_lifecycle(a.handoff)
    /\ r.actions # {} => EffectsPolicy[s] = "Application"
    /\ r.issued # {} \/ r.successor # NoSession => EffectsPolicy[s] # "Disabled"
    /\ \A i \in r.issued : i.expires_at > time
    /\ r.successor # NoSession =>
          /\ r.successor.target # s
          /\ r.successor.target \notin Plan.roots
          /\ transition_validate(s, r.successor)

prepare_block(c) ==
    /\ handle[c] # NoHandle
    /\ Cardinality(prepared[c]) < Plan.prepared
    /\ LET s == handle[c].session
           head == handle[c].head
       IN
       /\ Len(head) < Plan.heights[s]
       /\ \E time \in 0..MaxTime, r \in Requests(s) :
             /\ PrepareAllowed(s, head, time, r)
             /\ prepared' = [prepared EXCEPT ![c] = @ \cup
                   {[session |-> s, base |-> head,
                     block |-> CandidateBlock(time, r)]}]
    /\ UNCHANGED <<storeVars, handle, seen, plan>>

(* The candidate extends the head this handle holds. *)
Fresh(c, p) == p.session = handle[c].session /\ p.base = handle[c].head

(* The proof has been verified and the store accepts the block.  The       *)
(* caller learns so and moves on, or loses the answer and keeps the head   *)
(* it had.                                                                 *)
commit_finalised(c, p) ==
    /\ Fresh(c, p)
    /\ commit_block(p.session, handle[c].head, p.block)
    /\ prepared' = [prepared EXCEPT ![c] = @ \ {p}]
    /\ \/ handle' = [handle EXCEPT ![c].head = Append(@, p.block)]
       \/ handle' = handle
    /\ UNCHANGED <<seen, plan>>

(* A candidate the handle or the store refuses is gone, nothing is written. *)
CommitRefused(c, p) ==
    /\ ~(Fresh(c, p) /\ CommitAllowed(p.session, handle[c].head, p.block))
    /\ prepared' = [prepared EXCEPT ![c] = @ \ {p}]
    /\ UNCHANGED <<storeVars, handle, seen, plan>>

-----------------------------------------------------------------------------
(* The consensus module of a process keeps its round state in the store.   *)

load_consensus_wal(c) ==
    /\ handle[c] # NoHandle
    /\ Plan.revisions > 0
    /\ seen[c] # wal[handle[c].session]
    /\ seen' = [seen EXCEPT ![c] = wal[handle[c].session]]
    /\ UNCHANGED <<storeVars, handle, prepared, plan>>

(* It continues the record it read, or begins one for the height it is at. *)
NextWal(c) ==
    IF seen[c] = NoWal
    THEN [height |-> Len(handle[c].head), revision |-> 0, by |-> c]
    ELSE [height |-> seen[c].height, revision |-> seen[c].revision + 1, by |-> c]

WriteWal(c) ==
    /\ handle[c] # NoHandle
    /\ NextWal(c).revision < Plan.revisions
    /\ compare_and_set_consensus_wal(handle[c].session, seen[c], NextWal(c))
    /\ seen' = [seen EXCEPT ![c] = NextWal(c)]
    /\ UNCHANGED <<handle, prepared, plan>>

-----------------------------------------------------------------------------
Acknowledge(m) == acknowledge_outbox(m) /\ UNCHANGED <<handle, prepared, seen, plan>>

AppendEvidence(m) ==
    compare_and_set_evidence(m) /\ UNCHANGED <<handle, prepared, seen, plan>>

Offload(ref) == offload_block(ref) /\ UNCHANGED <<handle, prepared, seen, plan>>

Next ==
    \/ \E c \in Plan.handles, s \in Plan.sessions : Create(c, s) \/ Recover(c, s)
    \/ \E c \in Plan.handles :
          \/ prepare_block(c) \/ load_consensus_wal(c) \/ WriteWal(c)
          \/ \E p \in prepared[c] : commit_finalised(c, p) \/ CommitRefused(c, p)
    \/ \E m \in outbox : Acknowledge(m) \/ AppendEvidence(m)
    \/ \E s \in Plan.archived : \E n \in 1..Len(chain[s]) :
          Offload([session |-> s, height |-> n - 1])

Spec == Init /\ [][Next]_vars

-----------------------------------------------------------------------------
(* Properties. *)

TypeOK ==
    /\ genesis \in [Sessions -> SessionGenesis \cup {NoGenesis}]
    /\ \A s \in Sessions : \A n \in DOMAIN chain[s] : chain[s][n] \in FinalisedBlock
    /\ receipts \subseteq CommandReceipt
    /\ Known \subseteq SessionHandoff
    /\ \A h \in Known : resolve(h) \in HandoffTerminal
    /\ cold \cup outbox \cup DOMAIN evidence \subseteq BlockRef
    /\ \A m \in DOMAIN evidence : evidence[m] \in 1..Stages
    /\ wal \in [Sessions -> ConsensusWal \cup {NoWal}]
    /\ \A s \in Sessions : wal[s] # NoWal => wal[s].height = Len(chain[s])
    /\ seen \in [Handles -> ConsensusWal \cup {NoWal}]
    /\ \A c \in Handles :
          /\ handle[c] # NoHandle => handle[c].session \in Sessions
          /\ \A p \in prepared[c] : p.block \in FinalisedBlock

(* The committed blocks of all sessions together treat every handoff as a  *)
(* single-use claim: prepare_block and commit_block let its value out once *)
(* (session/src/lib.rs, session-store-rocksdb/src/lib.rs).                 *)
Refs == UNION {{[session |-> s, height |-> n - 1] : n \in DOMAIN chain[s]} : s \in Sessions}

(* What a block at this place says about the handoffs it touches. *)
Event(h, kind, ref) == [claim |-> h, kind |-> kind, at |-> ref]

EventsOf(ref, block) ==
    {Event(h, "Issue", ref) : h \in IssuedBy(ref, block)}
        \cup {Event(h, "Consume", ref) : h \in block.consumed}
        \cup {Event(a.handoff, a.kind, ref) : a \in block.actions}

Trail == UNION {EventsOf(ref, chain[ref.session][ref.height + 1]) : ref \in Refs}

Claims == INSTANCE HandoffClaims
             WITH Claims <- SessionHandoff, Blocks <- BlockRef, trail <- Trail

(* Every handoff in the shared store is used at most once, whatever        *)
(* candidate blocks were prepared against older states.                    *)
ClaimsSpec == Claims!Spec

(* After any interleaving and any lost answer, the recovery audit of every *)
(* session passes: the indexes commit_block and offload_block maintain     *)
(* agree with the blocks, so a crashed process can always write again      *)
(* (session/src/recovery.rs).                                              *)
AlwaysRecoverable ==
    /\ TypeOK
    /\ \A s \in Sessions : Exists(s) => recovery_audit(s)

(* An archived block is settled: it is not a tip, none of its messages is  *)
(* pending, and no handoff it touches can be cancelled, refunded or        *)
(* consumed any more; and a compacted record belongs to an archived block  *)
(* and has no second, complete copy (session-store-rocksdb/src/archive.rs, *)
(* handoff_storage.rs).                                                    *)
ArchivedIsSettled ==
    /\ \A ref \in cold :
          /\ ref.height + 1 < Len(chain[ref.session])
          /\ ref \notin outbox
          /\ \A h \in Touched(ref, chain[ref.session][ref.height + 1]) :
                \/ resolve(h).state \in {"Reclaimed", "Retired"}
                \/ resolve(h).state = "Consumed" /\ h.intent.copyable
    /\ DOMAIN full \cap DOMAIN compact = {}
    /\ \A h \in DOMAIN compact : IssuedAt(h) \in cold /\ terminal_is_final(compact[h])

(* The session whose exact state s was declared to continue, if any. *)
Heir(s) ==
    {t \in Sessions : /\ chain[s] # <<>>
                      /\ Last(chain[s]).successor = [target |-> t, state |-> "Continue"]}

(* A lifecycle action is only ever taken by the issuing session or by the  *)
(* unbroken line of sessions that continue its exact state, not longer     *)
(* than the depth limit: after the issuing session has been sealed only by *)
(* its one continuation (session/src/lifecycle.rs).                        *)
OnlyOwnersAct ==
    \A s \in Sessions : \A n \in DOMAIN chain[s] :
        \A a \in chain[s][n].actions :
            \E m \in 0..MAX_HANDOFF_OWNER_DEPTH : \E line \in [0..m -> Sessions] :
                /\ line[0] = a.handoff.source
                /\ line[m] = s
                /\ \A k \in 1..m : line[k] \in Heir(line[k - 1])

(* Handoffs are ended by their owners and archived once they are settled.  *)
HandoffsKept == OnlyOwnersAct /\ ArchivedIsSettled

(* Nothing final is undone.  A session that declared its successor is      *)
(* never extended, by any handle (session/src/succession.rs); a genesis    *)
(* never changes once written; and a write-ahead record is only replaced   *)
(* by a process that had read exactly that record: equal revision numbers  *)
(* of two heights are not confused (compare_and_set_consensus_wal).        *)
NothingUndone ==
    [][\A s \in Sessions :
          /\ sealed_by_successor(chain[s]) # NoSession => chain'[s] = chain[s]
          /\ Exists(s) => genesis'[s] = genesis[s]
          /\ wal'[s] # wal[s] /\ wal'[s] # NoWal => seen[wal'[s].by] = wal[s]]_vars

(* A command id is committed in at most one block of a session, and the    *)
(* command index says which (session/src/commands.rs).                     *)
CommandsOnce ==
    \A s \in Sessions : \A m, n \in DOMAIN chain[s] :
        m # n => chain[s][m].commands \cap chain[s][n].commands = {}
=============================================================================
