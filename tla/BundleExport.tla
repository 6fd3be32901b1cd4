----------------------------- MODULE BundleExport -----------------------------
(***************************************************************************)
(* The export of two sessions of a live store into one bundle.  The worker *)
(* reads heads, checkpoints, blocks, handoffs and evidence one record at a *)
(* time while both sessions go on committing; it then closes and audits    *)
(* what it captured, reads every record that can change again, and makes   *)
(* the manifest visible with one link.  It may be parked between any two   *)
(* reads for as long as its caller likes.                                  *)
(***************************************************************************)
EXTENDS Naturals, Sequences, FiniteSets, SequencesExt, TLC

-----------------------------------------------------------------------------
(***************************************************************************)
(* An archive operation that runs under grants.  One worker thread does    *)
(* the work and charges every step of it to the grant it was given.  When  *)
(* the grant is used up, late or cancelled the worker parks and its caller *)
(* gets the task back, to advance it with another grant or to drop it.     *)
(* What the worker does is the business of the module that extends this    *)
(* one; `pc` is where it stands.                                           *)
(***************************************************************************)

CONSTANTS Budgets,    \* grants a caller may give: [max_steps, max_io_bytes]
          MaxParks    \* bound on the grants of one task

VARIABLES control,    \* the state shared by the caller and the worker
          events,     \* the channel of one event
          caller,     \* holding the task, waiting, done with it or dropped it
          pc          \* where the worker is; "ended" when the thread is gone

taskVars == <<control, events, caller, pc>>

None == <<>>

Grant(budget) == [budget |-> budget, stop |-> "no", steps |-> 0, io_bytes |-> 0]

State == [grant |-> None, aborted |-> FALSE, published |-> FALSE, generation |-> 0]

(* spawn: the worker starts at once and waits for its first grant.         *)
TaskInit ==
    /\ control = State
    /\ events = None
    /\ caller = "holding"
    /\ pc = "start"

-----------------------------------------------------------------------------
(* The caller.  A task is advanced by whoever holds it, so one event at    *)
(* most is under way.                                                      *)
advance(budget) ==
    /\ caller = "holding"
    /\ control.generation < MaxParks
    /\ control' = [control EXCEPT !.grant = Grant(budget)]
    /\ caller' = "waiting"
    /\ UNCHANGED <<events, pc>>

Received ==
    /\ caller = "waiting"
    /\ events # None
    /\ events' = None
    /\ caller' = IF events.kind = "Paused" THEN "holding" ELSE "done"
    /\ control' = IF events.kind = "Paused" THEN control ELSE [control EXCEPT !.aborted = TRUE]
    /\ UNCHANGED pc

drop ==
    /\ caller = "holding"
    /\ control' = [control EXCEPT !.aborted = TRUE]
    /\ caller' = "dropped"
    /\ UNCHANGED <<events, pc>>

(* The clock and the cancellation flag of the present grant; neither goes  *)
(* back.                                                                   *)
Stop(reason) ==
    /\ control.grant # None
    /\ control.grant.stop = "no"
    /\ control' = [control EXCEPT !.grant.stop = reason]
    /\ UNCHANGED <<events, caller, pc>>

CallerNext ==
    \/ \E budget \in Budgets : advance(budget)
    \/ Received
    \/ drop
    \/ \E reason \in {"Cancelled", "Deadline"} : Stop(reason)

-----------------------------------------------------------------------------
(* The worker.  Why a charge cannot be met by the present grant.           *)
PauseReason(units, bytes) ==
    LET g == control.grant
    IN  CASE g.stop # "no" -> g.stop
          [] g.stop = "no" /\ units > g.budget.max_steps - g.steps -> "Steps"
          [] g.stop = "no" /\ units <= g.budget.max_steps - g.steps
                /\ bytes > g.budget.max_io_bytes - g.io_bytes -> "Bytes"
          [] OTHER -> "no"

(* charge passes: the step may be done.                                    *)
charge(units, bytes) ==
    /\ ~control.aborted
    /\ control.grant # None
    /\ PauseReason(units, bytes) = "no"
    /\ control' = [control EXCEPT !.grant.steps = @ + units, !.grant.io_bytes = @ + bytes]

(* charge parks: the grant is given back and the caller hears of it.       *)
Park(units, bytes) ==
    /\ ~control.aborted
    /\ control.grant # None
    /\ PauseReason(units, bytes) # "no"
    /\ control' = [control EXCEPT !.grant = None, !.generation = @ + 1]
    /\ events' = [kind |-> "Paused", reason |-> PauseReason(units, bytes)]
    /\ UNCHANGED <<caller, pc>>

(* A broken form of Aborted: a parked worker waits for a grant only.       *)
AbortedUnderGrant == control.aborted /\ control.grant # None

(* charge fails: the task was dropped, whether or not the worker was       *)
(* parked.                                                                 *)
Aborted == control.aborted

(* The operation ends with a result and the thread with it.  A dropped     *)
(* task has no one to hear it.                                             *)
Finished(result) ==
    /\ events' = IF caller = "dropped" THEN events ELSE [kind |-> "Finished", result |-> result]
    /\ pc' = "ended"
    /\ UNCHANGED caller

(* A prepaid check of the source may go on; it never parks by itself.      *)
publication_check_active == control.grant.stop = "no"

(* The link is made and no later pause may say it is not.                  *)
published == control' = [control EXCEPT !.published = TRUE]

-----------------------------------------------------------------------------
(* Every grant is answered and every dropped task is let go: a caller that *)
(* advances a task hears from it, and the worker of a task that was        *)
(* dropped while parked ends, giving up the files, locks and database it   *)
(* holds (Drop for ArchiveTask and charge).                                *)
EveryGrantAnswered ==
    /\ []<>(caller # "waiting")
    /\ []<>(caller = "dropped" => pc = "ended")

-----------------------------------------------------------------------------
(***************************************************************************)
(* What an archive bundle says it holds, and what it must hold to be read  *)
(* as a store.  A bundle is a set of blobs named by their content and a    *)
(* manifest that gives each its roles and dependencies and each session    *)
(* its inventory.                                                          *)
(*                                                                         *)
(* A blob is a tuple of its kind and what it says: <<"block", s, h, kind>>, *)
(* <<"head", s, blocks>>, <<"checkpoint", s, blocks>>, <<"genesis", s>>,   *)
(* <<"handoff", issued, consumed, retired>> with the heights of the three  *)
(* blocks (0: not yet), <<"evidence", height, receipts>>, and              *)
(* <<"artifact", name>>.  One handoff goes from Issuer to Consumer; the    *)
(* block that issues it puts one message into the outbox, and the handoff  *)
(* may be consumed when the message's evidence has MinimumStage receipts.  *)
(***************************************************************************)

CONSTANTS Issuer, Consumer,   \* the two sessions
          MinimumStage,       \* receipts the handoff's evidence requirement asks for
          limits              \* [nodes, blocks, dependency_depth]

Absent == <<"absent">>

(* The execution artifacts a session is archived with: the program and the *)
(* replayer it is replayed by, the toolchain that is shared.               *)
Execution(s) ==
    {[id |-> <<"artifact", "program">>, role |-> "Program"],
     [id |-> <<"artifact", "replayer">>, role |-> "Replayer"],
     [id |-> <<"artifact", "program">>, role |-> "Rules"]}

ArtifactDependencies(id) ==
    IF id = <<"artifact", "replayer">> THEN {<<"artifact", "libc">>} ELSE {}

-----------------------------------------------------------------------------
(* The descriptors a session's inventory needs, each in its role.          *)
Named(s, inv) ==
    {[id |-> inv.genesis, role |-> "Genesis"],
     [id |-> inv.head, role |-> "Head"],
     [id |-> inv.checkpoint, role |-> "Checkpoint"]}
    \union {[id |-> inv.blocks[h], role |-> "Block"] : h \in DOMAIN inv.blocks}
    \union {[id |-> b, role |-> "Handoff"] : b \in inv.handoffs}
    \union {[id |-> b, role |-> "Evidence"] : b \in inv.evidence}
    \union Execution(s)

require(m, r) == r.id \in DOMAIN m.blobs /\ r.role \in m.blobs[r.id].roles

(* Kahn's traversal of the dependencies, wave after wave: what is left     *)
(* when the blobs that depend on nothing left have been visited n times.   *)
Unvisited(m) ==
    LET left[n \in 0..limits.dependency_depth] ==
            IF n = 0 THEN DOMAIN m.blobs
            ELSE UNION {{b \in l : m.blobs[b].dependencies \intersect l # {}} : l \in {left[n - 1]}}
    IN  left[limits.dependency_depth]

(* Where nothing depends on itself, what the inventories name reaches      *)
(* every blob when each is named or some blob depends on it.               *)
Reached(m) ==
    UNION {{r.id : r \in Named(s, m.sessions[s])} : s \in DOMAIN m.sessions}
    \union UNION {m.blobs[b].dependencies : b \in DOMAIN m.blobs}

BlockCount(m) ==
    FoldLeft(LAMBDA n, s : n + Len(m.sessions[s].blocks), 0, SetToSeq(DOMAIN m.sessions))

(* An inventory that can be followed: every part of it is there in its     *)
(* role, every dependency is there, none depends on itself, and no blob is *)
(* there for nothing.                                                      *)
validate_structure(m) ==
    /\ Cardinality(DOMAIN m.blobs) <= limits.nodes
    /\ m.roots # {} /\ m.roots \subseteq DOMAIN m.sessions
    /\ BlockCount(m) <= limits.blocks
    /\ \A s \in DOMAIN m.sessions : \A r \in Named(s, m.sessions[s]) : require(m, r)
    /\ \A b \in DOMAIN m.blobs :
           m.blobs[b].roles # {} /\ m.blobs[b].dependencies \subseteq DOMAIN m.blobs
    /\ Unvisited(m) = {}
    /\ Reached(m) = DOMAIN m.blobs

-----------------------------------------------------------------------------
(* The bundle as a store.  Blocks are found by session and height.         *)
block_id(m, s, h) ==
    IF s \in DOMAIN m.sessions /\ h \in DOMAIN m.sessions[s].blocks
    THEN m.sessions[s].blocks[h] ELSE Absent

TouchesHandoff(b) == b[4] \in {"issue", "consume", "retire"}

HasOutbox(b) == b[4] = "issue"

Handoffs(m) == UNION {m.sessions[s].handoffs : s \in DOMAIN m.sessions}

Evidences(m) == UNION {m.sessions[s].evidence : s \in DOMAIN m.sessions}

(* index: heads count the blocks, blocks are those of their places, the    *)
(* handoff has one terminal record however many sessions name it, a        *)
(* session declares the handoffs of its blocks and no other, and evidence  *)
(* belongs to a message of its session.                                    *)
index(m) ==
    /\ Cardinality(Handoffs(m)) <= 1
    /\ \A s \in DOMAIN m.sessions :
        LET inv == m.sessions[s]
        IN  /\ inv.head = <<"head", s, Len(inv.blocks)>>
            /\ \A h \in DOMAIN inv.blocks : inv.blocks[h][2] = s /\ inv.blocks[h][3] = h
            /\ inv.handoffs = IF \E h \in DOMAIN inv.blocks : TouchesHandoff(inv.blocks[h])
                              THEN Handoffs(m) ELSE {}
            /\ (\E h \in DOMAIN inv.blocks : TouchesHandoff(inv.blocks[h])) => Handoffs(m) # {}
            /\ Cardinality(inv.evidence) <= 1
            /\ \A e \in inv.evidence :
                   block_id(m, s, e[2]) # Absent /\ HasOutbox(block_id(m, s, e[2]))

(* What one block rests on: its genesis, the block before it, for a        *)
(* consumed handoff the block that issued it and the evidence it asked     *)
(* for, for a retired one both the issuing and the consuming block.        *)
block_edges(m, s, h) ==
    LET inv == m.sessions[s]
        b == inv.blocks[h]
        t == CHOOSE t \in Handoffs(m) : TRUE
    IN  {inv.genesis}
        \union (IF h > 1 THEN {inv.blocks[h - 1]} ELSE {})
        \union (IF b[4] = "consume"
                THEN {block_id(m, Issuer, t[2])}
                     \union (IF \E e \in Evidences(m) : e[3] >= MinimumStage
                             THEN Evidences(m) ELSE {Absent})
                ELSE {})
        \union (IF b[4] = "retire"
                THEN {block_id(m, Issuer, t[2]), block_id(m, Consumer, t[3])} ELSE {})

(* The edges the records themselves demand.  One that names no blob of the *)
(* bundle is Absent.                                                       *)
required_edges(m) ==
    LET Owner(b) == CHOOSE s \in DOMAIN m.sessions :
                        b \in {r.id : r \in Named(s, m.sessions[s])}
    IN  [b \in {b \in DOMAIN m.blobs : b[1] # "artifact"} |->
            LET inv == m.sessions[Owner(b)]
            IN  CASE b[1] = "genesis" -> {r.id : r \in Execution(b[2])}
                  [] b[1] = "head" -> {IF inv.blocks = <<>> THEN inv.genesis ELSE Last(inv.blocks)}
                  [] b[1] = "checkpoint" -> {inv.head}
                  [] b[1] = "block" -> block_edges(m, b[2], b[3])
                  [] b[1] = "evidence" -> {block_id(m, Issuer, b[2])}
                  [] b[1] = "handoff" ->
                       {block_id(m, Issuer, b[2])}
                       \union (IF b[3] # 0 THEN {block_id(m, Consumer, b[3])} ELSE {})
                       \union (IF b[4] # 0 THEN {block_id(m, Issuer, b[4])} ELSE {})]

(* The recovery audit of every session: the checkpoint is the head's, and  *)
(* a handoff's terminal record says what the blocks say.                   *)
finality_audit(m) ==
    /\ \A s \in DOMAIN m.sessions : m.sessions[s].checkpoint[3] = m.sessions[s].head[3]
    /\ \A t \in Handoffs(m) :
           /\ block_id(m, Issuer, t[2])[4] = "issue"
           /\ t[3] # 0 => block_id(m, Consumer, t[3])[4] = "consume"
           /\ t[4] # 0 => block_id(m, Issuer, t[4])[4] = "retire"
    /\ \A s \in DOMAIN m.sessions : \A h \in DOMAIN m.sessions[s].blocks :
           LET kind == m.sessions[s].blocks[h][4]
           IN  /\ kind = "consume" => \A t \in Handoffs(m) : t[3] = h
               /\ kind = "retire" => \A t \in Handoffs(m) : t[4] = h

(* open: the inventory of the files, then the index, then every demanded   *)
(* edge among the declared ones, then the audit of each session.           *)
open(m) ==
    /\ validate_structure(m)
    /\ index(m)
    /\ \A edges \in {required_edges(m)} :
           \A b \in DOMAIN edges : edges[b] \subseteq m.blobs[b].dependencies
    /\ finality_audit(m)

-----------------------------------------------------------------------------
CONSTANTS MaxBlocks,    \* bounds on the blocks of each session
          MaxReceipts   \* stages of the evidence pipeline

VARIABLES source,     \* the live store: chains of block kinds and receipts
          writer,     \* what the worker has captured
          generation, \* the grant the last check of the source began under
          complete,   \* the check got to its end
          fresh,      \* since the present grant the source was once as captured
          manifest    \* the bundle's manifest.json, None before the link

exportVars == <<source, writer, generation, complete, fresh, manifest>>
vars == <<taskVars, exportVars>>

Catalog == <<Issuer, Consumer>>

-----------------------------------------------------------------------------
(* The live store.  A block and all it changes become visible together.    *)
Height(kind, s) ==
    IF \E h \in DOMAIN source.chain[s] : source.chain[s][h] = kind
    THEN CHOOSE h \in DOMAIN source.chain[s] : source.chain[s][h] = kind ELSE 0

Allowed(s, kind) ==
    \/ kind = "plain"
    \/ kind = "issue" /\ s = Issuer /\ Height("issue", Issuer) = 0
    \/ /\ kind = "consume" /\ s = Consumer
       /\ Height("issue", Issuer) # 0 /\ Height("consume", Consumer) = 0
       /\ source.receipts >= MinimumStage
    \/ /\ kind = "retire" /\ s = Issuer
       /\ Height("consume", Consumer) # 0 /\ Height("retire", Issuer) = 0

commit_block(s, kind) ==
    /\ Len(source.chain[s]) < MaxBlocks[s]
    /\ Allowed(s, kind)
    /\ source' = [source EXCEPT !.chain[s] = Append(@, kind)]
    /\ UNCHANGED <<taskVars, writer, generation, complete, fresh, manifest>>

advance_evidence ==
    /\ Height("issue", Issuer) # 0
    /\ source.receipts < MaxReceipts
    /\ source' = [source EXCEPT !.receipts = @ + 1]
    /\ UNCHANGED <<taskVars, writer, generation, complete, fresh, manifest>>

load_head(s) == <<"head", s, Len(source.chain[s])>>
load_checkpoint(s) == <<"checkpoint", s, Len(source.chain[s])>>
load_block(s, h) == <<"block", s, h, source.chain[s][h]>>
load_handoff == <<"handoff", Height("issue", Issuer), Height("consume", Consumer), Height("retire", Issuer)>>
load_evidence ==
    IF source.receipts = 0 THEN None ELSE <<"evidence", Height("issue", Issuer), source.receipts>>

-----------------------------------------------------------------------------
(* The capture.  Session i of the catalog is under way; its inventory is   *)
(* filled in as the records come.                                          *)
NewInventory(s) ==
    [genesis |-> <<"genesis", s>>, head |-> None, checkpoint |-> None,
     blocks |-> <<>>, handoffs |-> {}, evidence |-> {}]

Session == Catalog[writer.i]
Inventory == writer.sessions[Session]
Count == Inventory.head[3]

Init ==
    /\ TaskInit
    /\ source = [chain |-> [s \in {Issuer, Consumer} |-> <<>>], receipts |-> 0]
    /\ writer = [i |-> 1, sessions |-> [s \in {Issuer, Consumer} |-> NewInventory(s)],
                 manifest |-> None, todo |-> <<>>]
    /\ generation = 0
    /\ complete = FALSE
    /\ fresh = FALSE
    /\ manifest = None

(* What each place of the worker is charged: steps and records read.       *)
Cost ==
    CASE pc = "start" -> <<1, 0>>
      [] pc = "head" -> <<3, 2>>
      [] pc \in {"checkpoint", "handoff", "evidence"} -> <<1, 1>>
      [] pc = "block" -> <<2, 1>>
      [] pc = "manifest" -> <<1, 1>>
      [] pc = "reserve" -> <<Len(writer.todo), Len(writer.todo)>>
      [] pc = "publish" -> <<0, 0>>
      [] OTHER -> None

Paid == Cost # None /\ charge(Cost[1], Cost[2])

Goto(place) == pc' = place /\ UNCHANGED <<events, caller>>

Kept == UNCHANGED <<source, generation, complete, fresh, manifest>>

(* The worker refuses the export.  Files it wrote stay without a manifest. *)
Refuse(why) == Finished(why) /\ UNCHANGED <<control, exportVars>>

Start ==
    /\ pc = "start" /\ Paid
    /\ Goto("head")
    /\ UNCHANGED exportVars

(* load_genesis and load_head; the genesis never changes.                  *)
ReadHead ==
    /\ pc = "head" /\ Paid
    /\ writer' = [writer EXCEPT !.sessions[Session].head = load_head(Session)]
    /\ Goto("checkpoint")
    /\ Kept

(* The head and the checkpoint must be of one commit.                      *)
ReadCheckpoint ==
    /\ pc = "checkpoint" /\ Paid
    /\ IF load_checkpoint(Session)[3] = Inventory.head[3]
       THEN /\ writer' = [writer EXCEPT !.sessions[Session].checkpoint = load_checkpoint(Session)]
            /\ Goto("block")
       ELSE UNCHANGED writer /\ Finished("SourceChanged")
    /\ Kept

(* Blocks below the captured head never change.  After the last one comes  *)
(* the next session, or the manifest.                                      *)
ReadBlock ==
    LET h == Len(Inventory.blocks) + 1
    IN  /\ pc = "block" /\ h <= Count /\ Paid
        /\ writer' = [writer EXCEPT !.sessions[Session].blocks = Append(@, load_block(Session, h))]
        /\ Goto(IF TouchesHandoff(load_block(Session, h)) THEN "handoff" ELSE "block")
        /\ Kept

EndSession ==
    /\ pc = "block" /\ Len(Inventory.blocks) = Count
    /\ IF writer.i < Len(Catalog)
       THEN writer' = [writer EXCEPT !.i = @ + 1] /\ Goto("head")
       ELSE UNCHANGED writer /\ Goto("manifest")
    /\ UNCHANGED control
    /\ Kept

(* A handoff that was captured before must still read the same.            *)
ReadHandoff ==
    LET seen == UNION {writer.sessions[s].handoffs : s \in DOMAIN writer.sessions}
    IN  /\ pc = "handoff" /\ Paid
        /\ IF seen \subseteq {load_handoff}
           THEN /\ writer' = [writer EXCEPT !.sessions[Session].handoffs = {load_handoff}]
                /\ Goto(IF HasOutbox(Last(Inventory.blocks)) THEN "evidence" ELSE "block")
           ELSE UNCHANGED writer /\ Finished("SourceChanged")
        /\ Kept

(* A message without evidence yet is archived without.                     *)
ReadEvidence ==
    /\ pc = "evidence" /\ Paid
    /\ writer' = [writer EXCEPT !.sessions[Session].evidence =
                      IF load_evidence = None THEN {} ELSE {load_evidence}]
    /\ Goto("block")
    /\ Kept

-----------------------------------------------------------------------------
(* The files: every named blob once, with all its roles; an artifact with  *)
(* everything it depends on.                                               *)
add ==
    LET named == UNION {Named(s, writer.sessions[s]) : s \in DOMAIN writer.sessions}
        artifacts == UNION {ArtifactDependencies(r.id) : r \in named}
    IN  [b \in {r.id : r \in named} \union artifacts |->
            [roles |-> {r.role : r \in {r \in named : r.id = b}}
                       \union (IF b \in artifacts THEN {"Replayer"} ELSE {}),
             dependencies |-> ArtifactDependencies(b)]]

preliminary ==
    [roots |-> {Consumer}, sessions |-> writer.sessions, blobs |-> add]

WithEdges(m, edges) ==
    [m EXCEPT !.blobs =
        [b \in DOMAIN m.blobs |->
            [m.blobs[b] EXCEPT !.dependencies =
                @ \union (IF b \in DOMAIN edges THEN edges[b] ELSE {})]]]

(* The records that may have changed since they were read, in the order    *)
(* they are read again.                                                    *)
captured ==
    LET handoffs == Handoffs([sessions |-> writer.sessions])
        evidence == Evidences([sessions |-> writer.sessions])
        of(s) == <<writer.sessions[s].head, writer.sessions[s].checkpoint>>
    IN  of(Issuer) \o of(Consumer) \o SetToSeq(handoffs) \o SetToSeq(evidence)

(* The manifest is completed with the edges its records demand and audited *)
(* as a stranger would.  What is not closed makes no manifest.             *)
Closed ==
    UNION {{WithEdges(m, edges) : edges \in
                {e \in {required_edges(m)} : \A b \in DOMAIN e : Absent \notin e[b]}} :
           m \in {m \in {preliminary} : validate_structure(m) /\ index(m)}}

Audit ==
    /\ pc = "manifest" /\ Paid
    /\ \/ \E m \in Closed :
              /\ open(m)
              /\ writer' = [writer EXCEPT !.manifest = m, !.todo = captured]
              /\ Goto("reserve")
       \/ /\ ~\E m \in Closed : open(m)
          /\ UNCHANGED writer
          /\ Finished("MissingDependency")
    /\ Kept

-----------------------------------------------------------------------------
(* The check before the link.  All of its reads are paid for at once.      *)
Current(b) ==
    CASE b[1] = "head" -> load_head(b[2])
      [] b[1] = "checkpoint" -> load_checkpoint(b[2])
      [] b[1] = "handoff" -> load_handoff
      [] b[1] = "evidence" -> load_evidence

AsCaptured == \A i \in DOMAIN captured : Current(captured[i]) = captured[i]

reserve_publication_reads ==
    /\ pc = "reserve" /\ Paid
    /\ generation' = control.generation
    /\ complete' = FALSE
    /\ writer' = [writer EXCEPT !.todo = captured]
    /\ fresh' = AsCaptured
    /\ Goto("check")
    /\ UNCHANGED <<source, manifest>>

Rechecked(b) == Current(b) = b

(* One read of the check.  It stops short when the grant is late or        *)
(* cancelled, and refuses the export when the record differs.              *)
check_source ==
    /\ pc = "check"
    /\ ~Aborted
    /\ IF writer.todo = <<>> THEN
           complete' = TRUE /\ Goto("publish") /\ UNCHANGED writer
       ELSE IF ~publication_check_active THEN
           Goto("publish") /\ UNCHANGED <<complete, writer>>
       ELSE IF Rechecked(Head(writer.todo)) THEN
           writer' = [writer EXCEPT !.todo = Tail(@)] /\ UNCHANGED <<complete, events, caller, pc>>
       ELSE Finished("SourceChanged") /\ UNCHANGED <<complete, writer>>
    /\ UNCHANGED <<control, source, generation, fresh, manifest>>

(* A broken form of SameGrant: a complete check is enough.                 *)
SameGrantAlways == TRUE

(* The check was made under the grant that is still running.               *)
SameGrant == generation = control.generation

(* before_publish charges nothing but may park; the check then counts for  *)
(* nothing and is made anew.                                               *)
before_publish ==
    /\ pc = "publish" /\ Paid
    /\ Goto(IF complete /\ SameGrant THEN "link" ELSE "reserve")
    /\ writer' = [writer EXCEPT !.todo = captured]
    /\ Kept

Link ==
    /\ pc = "link"
    /\ manifest' = writer.manifest
    /\ published
    /\ Finished("Exported")
    /\ UNCHANGED <<source, writer, generation, complete, fresh>>

ParkHere ==
    /\ Cost # None
    /\ pc = "block" => Len(Inventory.blocks) < Count
    /\ Park(Cost[1], Cost[2])
    /\ fresh' = FALSE
    /\ UNCHANGED <<source, writer, generation, complete, manifest>>

AbortHere ==
    /\ Aborted
    /\ Cost # None \/ pc = "check"
    /\ Refuse("Cancelled")

Worker ==
    \/ Start \/ ReadHead \/ ReadCheckpoint \/ ReadBlock \/ EndSession
    \/ ReadHandoff \/ ReadEvidence \/ Audit \/ reserve_publication_reads
    \/ check_source \/ before_publish \/ Link \/ ParkHere \/ AbortHere

(* The store goes on after the export too, but nothing looks any more.     *)
Store ==
    /\ pc # "ended"
    /\ \/ \E s \in {Issuer, Consumer}, kind \in {"plain", "issue", "consume", "retire"} :
              commit_block(s, kind)
       \/ advance_evidence

Next == Store \/ (CallerNext /\ UNCHANGED exportVars) \/ Worker

(* The worker is a thread the system schedules and the caller in advance   *)
(* waits on the channel.  Nothing makes a caller advance a task.           *)
Receive == Received /\ UNCHANGED exportVars

Fairness == WF_vars(Worker) /\ WF_vars(Receive)

Spec == Init /\ [][Next]_vars /\ Fairness

-----------------------------------------------------------------------------
(* A bundle shows the source as it was at one moment: there was a moment,  *)
(* under the very grant it was published by, at which every head,          *)
(* checkpoint and handoff in its manifest and every evidence record it     *)
(* includes was the store's, however the reads fell between the commits of *)
(* the two sessions and however long the worker was parked after it had    *)
(* checked (export_inner's publication loop).  It is closed: read as a     *)
(* store it passes its own audit.                                          *)
PublishedIsOneMoment ==
    manifest # None => fresh /\ manifest = writer.manifest /\ open(manifest)
=============================================================================
