------------------------ MODULE SessionChainsLemmas -------------------------
(***************************************************************************)
(* What the steps of SessionChains keep, for any sessions, processes,      *)
(* deployments and histories: types, candidates, write-ahead records and   *)
(* the command index, and what a commit adds to the trail of events.       *)
(***************************************************************************)
EXTENDS SessionChains, TLAPS

Candidate == [session: Sessions, base: Seq(FinalisedBlock), block: FinalisedBlock]

(* The type invariant, with the types of the functions and the sequences. *)
TypeInv ==
    /\ genesis \in [Sessions -> SessionGenesis \cup {NoGenesis}]
    /\ chain \in [Sessions -> Seq(FinalisedBlock)]
    /\ receipts \subseteq CommandReceipt
    /\ Known \subseteq SessionHandoff
    /\ \A h \in DOMAIN full : full[h] \in HandoffTerminal
    /\ \A h \in DOMAIN compact : compact[h] \in HandoffTerminal
    /\ cold \cup outbox \cup DOMAIN evidence \subseteq BlockRef
    /\ \A m \in DOMAIN evidence : evidence[m] \in 1..Stages
    /\ wal \in [Sessions -> ConsensusWal \cup {NoWal}]
    /\ seen \in [Handles -> ConsensusWal \cup {NoWal}]
    /\ handle \in [Handles -> SessionChain \cup {NoHandle}]
    /\ prepared \in [Handles -> SUBSET Candidate]
    /\ plan \in DOMAIN Plans

(* A process only has candidates while it has a session open, they extend  *)
(* unsealed heads, and none both consumes and ends one handoff.            *)
CandidatesChecked ==
    \A c \in Handles : \A p \in prepared[c] :
        /\ handle[c] \in SessionChain
        /\ sealed_by_successor(p.base) = NoSession
        /\ \A a \in p.block.actions : a.handoff \notin p.block.consumed

(* A write-ahead record is about the next block of its session. *)
WalAtHead == \A s \in Sessions : wal[s] # NoWal => wal[s].height = Len(chain[s])

(* What a process read of the current height is the record or an older     *)
(* revision of it: two records of one height and revision are the same.    *)
SeenBehindWal ==
    \A c \in Handles :
        seen[c] # NoWal =>
            /\ handle[c] \in SessionChain
            /\ LET s == handle[c].session IN
               /\ seen[c].height <= Len(chain[s])
               /\ seen[c].height = Len(chain[s]) =>
                     /\ wal[s] # NoWal
                     /\ seen[c].revision <= wal[s].revision
                     /\ seen[c].revision = wal[s].revision => seen[c] = wal[s]

(* Every command of every block is in the command index. *)
CommandsIndexed ==
    \A s \in Sessions : \A n \in DOMAIN chain[s] : \A x \in chain[s][n].commands :
        [session |-> s, command |-> x, height |-> n - 1] \in receipts

(* A record has one form, and only settled ones are compact. *)
CompactSettled ==
    /\ DOMAIN full \cap DOMAIN compact = {}
    /\ \A h \in DOMAIN compact : terminal_is_final(compact[h])

(* The events that lead to a terminal state. *)
KindsBefore(terminal) ==
    CASE terminal.state = "Issued" -> {"Issue"}
      [] terminal.state = "Consumed" -> {"Issue", "Consume"}
      [] terminal.state = "Cancelled" -> {"Issue", "Cancel"}
      [] terminal.state = "Reclaimed" -> {"Issue", "Cancel", "Reclaim"}
      [] terminal.state = "Retired" -> {"Issue", "Consume", "Retire"}

(* The handoff index says of every handoff what the blocks say. *)
IndexAgrees ==
    /\ \A h \in Known : Claims!Kinds(h) = KindsBefore(resolve(h))
    /\ \A e \in Trail : e.claim \in Known

IInv ==
    /\ TypeInv
    /\ CandidatesChecked
    /\ WalAtHead
    /\ SeenBehindWal
    /\ CommandsIndexed
    /\ CommandsOnce
    /\ CompactSettled
    /\ IndexAgrees
-----------------------------------------------------------------------------
(* Facts about the operators. *)

LEMMA FewIsSubset == ASSUME NEW S, NEW T \in Few(S) PROVE T \subseteq S
BY DEF Few

LEMMA PlanTypes ==
    ASSUME plan \in DOMAIN Plans
    PROVE  /\ Plan.sessions \subseteq Sessions
           /\ Plan.archived \subseteq Sessions
           /\ Plan.handles \subseteq Handles
           /\ Plan.commands \subseteq Commands
           /\ \A s \in Sessions : Plan.issues[s] \subseteq Intents
           /\ Plan.emits \subseteq BOOLEAN
BY PlansAssumption DEF Plan

LEMMA IssuedType ==
    ASSUME NEW at \in BlockRef, NEW b \in FinalisedBlock
    PROVE  IssuedBy(at, b) \subseteq SessionHandoff
BY DEF IssuedBy, BlockRef, FinalisedBlock, SessionHandoff

LEMMA TerminalTypes ==
    ASSUME NEW at \in BlockRef, NEW earlier \in BlockRef
    PROVE  /\ Issued \in HandoffTerminal
           /\ Consumed(at) \in HandoffTerminal
           /\ Cancelled(at) \in HandoffTerminal
           /\ Reclaimed(earlier, at) \in HandoffTerminal
           /\ Retired(earlier, at) \in HandoffTerminal
BY DEF Issued, Consumed, Cancelled, Reclaimed, Retired, HandoffTerminal

LEMMA ApplyType ==
    ASSUME NEW at \in BlockRef, NEW a \in HandoffAction, validate_for(a, at)
    PROVE  apply_action(a, at) \in HandoffTerminal
<1>1. CASE a.kind = "Cancel"
  BY <1>1, TerminalTypes DEF apply_action
<1>2. CASE a.kind \in {"Reclaim", "Retire"}
  <2>1. a.evidence \in BlockRef
    BY <1>2 DEF validate_for, HandoffAction
  <2> QED BY <1>2, <2>1, TerminalTypes DEF apply_action
<1> QED BY <1>1, <1>2 DEF HandoffAction

(* The records a block writes are records of handoffs. *)
LEMMA WriteTypes ==
    ASSUME NEW at \in BlockRef, NEW b \in FinalisedBlock,
           \A a \in b.actions : validate_for(a, at)
    PROVE  /\ DOMAIN HandoffWrites(at, b) \subseteq SessionHandoff
           /\ \A h \in DOMAIN HandoffWrites(at, b) :
                 HandoffWrites(at, b)[h] \in HandoffTerminal
<1> DEFINE acted == {a.handoff : a \in b.actions}
<1>1. b.consumed \subseteq SessionHandoff /\ b.actions \subseteq HandoffAction
  BY DEF FinalisedBlock
<1>2. acted \subseteq SessionHandoff
  BY <1>1 DEF HandoffAction
<1>3. DOMAIN HandoffWrites(at, b) = IssuedBy(at, b) \cup b.consumed \cup acted
  BY DEF HandoffWrites
<1>4. ASSUME NEW h \in acted
      PROVE  apply_action(CHOOSE a \in b.actions : a.handoff = h, at) \in HandoffTerminal
  <2>1. (CHOOSE a \in b.actions : a.handoff = h) \in b.actions
    BY <1>4
  <2> QED BY <2>1, <1>1, ApplyType
<1>5. ASSUME NEW h \in DOMAIN HandoffWrites(at, b)
      PROVE  HandoffWrites(at, b)[h] \in HandoffTerminal
  BY <1>3, <1>4, TerminalTypes DEF HandoffWrites
<1> QED BY <1>1, <1>2, <1>3, <1>5, IssuedType

(* The action that an application is offered is an action. *)
LEMMA OfferType ==
    ASSUME NEW h \in SessionHandoff, NEW t \in HandoffTerminal
    PROVE  ActionsOn(h, t) \subseteq HandoffAction
<1>1. CASE t.state = "Issued"
  BY <1>1 DEF ActionsOn, HandoffAction
<1>2. CASE t.state \in {"Cancelled", "Consumed"}
  <2>1. t.at \in BlockRef
    BY <1>2 DEF HandoffTerminal
  <2> QED BY <1>2, <2>1 DEF ActionsOn, HandoffAction
<1>3. CASE t.state \in {"Reclaimed", "Retired"}
  BY <1>3 DEF ActionsOn
<1> QED BY <1>1, <1>2, <1>3 DEF HandoffTerminal

-----------------------------------------------------------------------------
(* What a commit reads and writes. *)

(* The place of the block that the candidate p becomes. *)
Place(p) == [session |-> p.session, height |-> Len(chain[p.session])]

(* A candidate that is committed extends the head of its session. *)
LEMMA CommitFacts ==
    ASSUME TypeInv, NEW c \in Handles, NEW p \in prepared[c],
           commit_finalised(c, p)
    PROVE  /\ p.session \in Sessions
           /\ p.block \in FinalisedBlock
           /\ p.base = chain[p.session]
           /\ p.base = handle[c].head
           /\ p.session = handle[c].session
           /\ Place(p) \in BlockRef
           /\ CommitAllowed(p.session, chain[p.session], p.block)
           /\ chain' = [chain EXCEPT ![p.session] = Append(chain[p.session], p.block)]
           /\ genesis' = IF p.block.successor = NoSession THEN genesis
                         ELSE [genesis EXCEPT ![p.block.successor.target] =
                                  [predecessor |-> Place(p), time |-> p.block.time]]
           /\ receipts' = receipts \cup ReceiptsOf(Place(p), p.block)
           /\ full' = Put(full, HandoffWrites(Place(p), p.block))
           /\ outbox' = IF p.block.emits THEN outbox \cup {Place(p)} ELSE outbox
           /\ wal' = [wal EXCEPT ![p.session] = NoWal]
           /\ UNCHANGED <<compact, cold, evidence>>
<1>1. p \in Candidate
  BY DEF TypeInv
<1>2. /\ p.session \in Sessions
      /\ p.base \in Seq(FinalisedBlock)
      /\ p.block \in FinalisedBlock
  BY <1>1 DEF Candidate
<1>3. /\ p.session = handle[c].session
      /\ p.base = handle[c].head
      /\ commit_block(p.session, p.base, p.block)
  BY DEF commit_finalised, Fresh
<1>4. chain[p.session] = p.base
  BY <1>3 DEF commit_block, CommitAllowed
<1>5. Place(p) \in BlockRef
  BY <1>2, <1>4 DEF Place, BlockRef
<1>6. commit_block(p.session, chain[p.session], p.block)
  BY <1>3, <1>4
<1> QED BY <1>2, <1>3, <1>4, <1>5, <1>6 DEF commit_block, Place

(* The block goes on top of the history of its session. *)
LEMMA CommitExtends ==
    ASSUME TypeInv, NEW c \in Handles, NEW p \in prepared[c],
           commit_finalised(c, p)
    PROVE  /\ chain[p.session] \in Seq(FinalisedBlock)
           /\ Len(chain'[p.session]) = Len(chain[p.session]) + 1
           /\ DOMAIN chain'[p.session]
                 = DOMAIN chain[p.session] \cup {Len(chain[p.session]) + 1}
           /\ Len(chain[p.session]) + 1 \notin DOMAIN chain[p.session]
           /\ chain'[p.session][Len(chain[p.session]) + 1] = p.block
           /\ \A n \in DOMAIN chain[p.session] :
                 chain'[p.session][n] = chain[p.session][n]
           /\ \A t \in Sessions \ {p.session} : chain'[t] = chain[t]
<1> DEFINE s == p.session
           b == p.block
<1>1. /\ s \in Sessions
      /\ b \in FinalisedBlock
      /\ chain' = [chain EXCEPT ![s] = Append(chain[s], b)]
  BY Zenon, CommitFacts
<1> HIDE DEF s, b
<1>2. chain[s] \in Seq(FinalisedBlock)
  BY <1>1 DEF TypeInv
<1>3. chain'[s] = Append(chain[s], b) /\ \A t \in Sessions \ {s} : chain'[t] = chain[t]
  BY <1>1 DEF TypeInv
<1> QED BY <1>1, <1>2, <1>3 DEF s, b

(* The actions of a committed block were checked again at the commit. *)
LEMMA CommitChecks ==
    ASSUME NEW p, CommitAllowed(p.session, chain[p.session], p.block)
    PROVE  /\ IssuedBy(Place(p), p.block) \cap Known = {}
           /\ \A h \in p.block.consumed : Readable(h) /\ resolve(h) = Issued
           /\ \A a \in p.block.actions :
                 /\ Readable(a.handoff)
                 /\ resolve(a.handoff) = ExpectedTerminal(a)
                 /\ validate_for(a, Place(p))
BY DEF CommitAllowed, Consumable, is_available, Actionable,
       validate_handoff_action, Place

(* Writing records adds handoffs and changes these only. *)
LEMMA PutFacts ==
    ASSUME NEW index, NEW records
    PROVE  /\ DOMAIN Put(index, records) = DOMAIN index \cup DOMAIN records
           /\ \A h \in DOMAIN records : Put(index, records)[h] = records[h]
           /\ \A h \in DOMAIN index \ DOMAIN records : Put(index, records)[h] = index[h]
BY DEF Put

(* Archiving moves records, it changes none. *)
LEMMA OffloadFacts ==
    ASSUME NEW ref, offload_block(ref), CompactSettled
    PROVE  /\ Known' = Known
           /\ \A h \in Known : resolve(h)' = resolve(h)
           /\ CompactSettled'
           /\ DOMAIN full' \subseteq DOMAIN full
           /\ \A h \in DOMAIN full' : full'[h] = full[h]
           /\ \A h \in DOMAIN compact' :
                 compact'[h] = IF h \in DOMAIN full THEN full[h] ELSE compact[h]
<1> DEFINE b == chain[ref.session][ref.height + 1]
           gone == Compactable(ref, b)
           moved == [h \in gone |-> full[h]]
<1>1. gone \subseteq DOMAIN full /\ \A h \in gone : terminal_is_final(full[h])
  BY DEF Compactable
<1>2. compact' = Put(compact, moved) /\ full' = Drop(full, gone)
  BY DEF offload_block
<1> HIDE DEF gone
<1>3. /\ DOMAIN full' = DOMAIN full \ gone
      /\ \A h \in DOMAIN full \ gone : full'[h] = full[h]
  BY <1>2 DEF Drop
<1>4. /\ DOMAIN compact' = DOMAIN compact \cup gone
      /\ \A h \in gone : compact'[h] = full[h]
      /\ \A h \in DOMAIN compact \ gone : compact'[h] = compact[h]
  BY <1>2 DEF Put
<1> QED BY <1>1, <1>3, <1>4 DEF CompactSettled, Known, resolve

-----------------------------------------------------------------------------
(* Type correctness. *)

LEMMA InitType == ASSUME Init PROVE TypeInv
<1>1. \A s \in Sessions : chain[s] \in Seq(FinalisedBlock)
  BY DEF Init
<1> QED BY <1>1 DEF Init, TypeInv, Known

(* The candidate a process prepares. *)
LEMMA PrepareType ==
    ASSUME TypeInv, NEW c \in Handles, prepare_block(c)
    PROVE  \E p \in Candidate :
              /\ prepared' = [prepared EXCEPT ![c] = @ \cup {p}]
              /\ handle[c] \in SessionChain
              /\ sealed_by_successor(p.base) = NoSession
              /\ \A a \in p.block.actions : a.handoff \notin p.block.consumed
<1> DEFINE s == handle[c].session
           head == handle[c].head
<1>1. handle[c] \in SessionChain /\ s \in Sessions /\ head \in Seq(FinalisedBlock)
  BY DEF prepare_block, TypeInv, SessionChain
<1>2. PICK time \in 0..MaxTime, r \in Requests(s) :
          /\ PrepareAllowed(s, head, time, r)
          /\ prepared' = [prepared EXCEPT ![c] = @ \cup
                {[session |-> s, base |-> head, block |-> CandidateBlock(time, r)]}]
  BY Zenon DEF prepare_block
<1>3. /\ r.issued \subseteq Intents
      /\ r.consumed \subseteq SessionHandoff
      /\ r.commands \subseteq Commands
      /\ r.successor \in Successor \cup {NoSession}
      /\ r.emits \in BOOLEAN
  BY <1>1, <1>2, PlanTypes, FewIsSubset DEF Requests, TypeInv
<1>4. r.actions \subseteq HandoffAction
  <2>1. r.actions \subseteq UNION {ActionsOn(h, resolve(h)) : h \in Known}
    BY <1>2, FewIsSubset DEF Requests
  <2>2. \A h \in Known : h \in SessionHandoff /\ resolve(h) \in HandoffTerminal
    BY DEF TypeInv, Known, resolve
  <2> QED BY <2>1, <2>2, OfferType
<1>5. CandidateBlock(time, r) \in FinalisedBlock
  BY <1>2, <1>3, <1>4, BoundsAssumption DEF CandidateBlock, FinalisedBlock
<1>6. [session |-> s, base |-> head, block |-> CandidateBlock(time, r)] \in Candidate
  BY <1>1, <1>5 DEF Candidate
<1>7. /\ sealed_by_successor(head) = NoSession
      /\ \A a \in r.actions : a.handoff \notin r.consumed
  BY <1>2 DEF PrepareAllowed
<1> QED BY Zenon, <1>1, <1>2, <1>6, <1>7 DEF CandidateBlock

LEMMA HeadMoves ==
    ASSUME NEW h \in SessionChain, NEW b \in FinalisedBlock
    PROVE  /\ [h EXCEPT !.head = Append(@, b)] \in SessionChain
           /\ [h EXCEPT !.head = Append(@, b)].session = h.session
<1>1. /\ h.session \in Sessions
      /\ Append(h.head, b) \in Seq(FinalisedBlock)
      /\ h = [session |-> h.session, head |-> h.head]
  BY DEF SessionChain
<1> QED BY <1>1 DEF SessionChain

LEMMA CommitType ==
    ASSUME TypeInv, NEW c \in Handles, NEW p \in prepared[c],
           commit_finalised(c, p), handle[c] \in SessionChain
    PROVE  TypeInv'
<1>1. /\ p.session \in Sessions
      /\ p.block \in FinalisedBlock
      /\ Place(p) \in BlockRef
  BY Zenon, CommitFacts
<1>2. chain' \in [Sessions -> Seq(FinalisedBlock)]
  <2>1. chain' = [chain EXCEPT ![p.session] = Append(chain[p.session], p.block)]
    BY Zenon, CommitFacts
  <2>2. Append(chain[p.session], p.block) \in Seq(FinalisedBlock)
    BY <1>1 DEF TypeInv
  <2> QED BY <1>1, <2>1, <2>2 DEF TypeInv
<1>3. genesis' \in [Sessions -> SessionGenesis \cup {NoGenesis}]
  <2>1. CASE p.block.successor = NoSession
    BY Zenon, <2>1, CommitFacts DEF TypeInv
  <2>2. CASE p.block.successor # NoSession
    <3>1. p.block.successor.target \in Sessions /\ p.block.time \in Nat
      BY <1>1, <2>2 DEF FinalisedBlock, Successor
    <3>2. [predecessor |-> Place(p), time |-> p.block.time] \in SessionGenesis
      BY <1>1, <3>1 DEF SessionGenesis
    <3>3. genesis' = [genesis EXCEPT ![p.block.successor.target] =
                         [predecessor |-> Place(p), time |-> p.block.time]]
      BY <2>2, CommitFacts
    <3> QED BY <3>1, <3>2, <3>3 DEF TypeInv
  <2> QED BY <2>1, <2>2
<1>4. receipts' \subseteq CommandReceipt
  <2>1. ReceiptsOf(Place(p), p.block) \subseteq CommandReceipt
    BY <1>1 DEF ReceiptsOf, CommandReceipt, BlockRef, FinalisedBlock
  <2>2. receipts' = receipts \cup ReceiptsOf(Place(p), p.block)
    BY Zenon, CommitFacts
  <2> QED BY <2>1, <2>2 DEF TypeInv
<1>5. /\ Known' \subseteq SessionHandoff
      /\ \A h \in DOMAIN full' : full'[h] \in HandoffTerminal
      /\ \A h \in DOMAIN compact' : compact'[h] \in HandoffTerminal
  <2>1. \A a \in p.block.actions : validate_for(a, Place(p))
    BY Zenon, CommitFacts, CommitChecks
  <2> DEFINE writes == HandoffWrites(Place(p), p.block)
  <2>2. compact' = compact /\ full' = Put(full, writes)
    BY Zenon, CommitFacts
  <2>3. /\ DOMAIN writes \subseteq SessionHandoff
        /\ \A h \in DOMAIN writes : writes[h] \in HandoffTerminal
    BY <1>1, <2>1, WriteTypes
  <2> HIDE DEF writes
  <2>4. /\ DOMAIN full' = DOMAIN full \cup DOMAIN writes
        /\ \A h \in DOMAIN writes : full'[h] = writes[h]
        /\ \A h \in DOMAIN full \ DOMAIN writes : full'[h] = full[h]
    BY <2>2 DEF Put
  <2> QED BY <2>2, <2>3, <2>4 DEF TypeInv, Known
<1>6. (cold \cup outbox \cup DOMAIN evidence)' \subseteq BlockRef
  <2>1. outbox' \subseteq outbox \cup {Place(p)} /\ cold' = cold /\ evidence' = evidence
    BY Zenon, CommitFacts
  <2> QED BY <1>1, <2>1 DEF TypeInv
<1>7. \A m \in DOMAIN evidence' : evidence'[m] \in (1..Stages)'
  BY Zenon, CommitFacts DEF TypeInv
<1>8. wal' \in [Sessions -> ConsensusWal \cup {NoWal}]
  BY Zenon, <1>1, CommitFacts DEF TypeInv
<1>9. handle' \in [Handles -> SessionChain \cup {NoHandle}]
  <2>1. CASE handle' = handle
    BY <2>1 DEF TypeInv
  <2>2. CASE handle' = [handle EXCEPT ![c].head = Append(@, p.block)]
    <3>1. [handle[c] EXCEPT !.head = Append(@, p.block)] \in SessionChain
      BY <1>1, HeadMoves
    <3> QED BY <2>2, <3>1 DEF TypeInv
  <2> QED BY <2>1, <2>2 DEF commit_finalised
<1>10. /\ prepared' \in [Handles -> SUBSET Candidate]
       /\ seen' = seen /\ plan' = plan
  BY DEF commit_finalised, TypeInv
<1> QED BY <1>2, <1>3, <1>4, <1>5, <1>6, <1>7, <1>8, <1>9, <1>10 DEF TypeInv

(* What every handle's opening leaves alone. *)
LEMMA OpenType ==
    ASSUME TypeInv, NEW c \in Handles, NEW s \in Sessions,
           NEW head \in Seq(FinalisedBlock), Open(c, s, head)
    PROVE  /\ handle' \in [Handles -> SessionChain \cup {NoHandle}]
           /\ handle'[c] \in SessionChain
           /\ prepared' \in [Handles -> SUBSET Candidate]
           /\ seen' \in [Handles -> ConsensusWal \cup {NoWal}]
           /\ plan' = plan
<1>1. [session |-> s, head |-> head] \in SessionChain
  BY DEF SessionChain
<1>2. prepared' \in [Handles -> SUBSET Candidate]
  BY DEF Open, TypeInv
<1> QED BY Zenon, <1>1, <1>2 DEF Open, TypeInv

LEMMA NextWalType ==
    ASSUME TypeInv, NEW c \in Handles, handle[c] # NoHandle
    PROVE  NextWal(c) \in ConsensusWal /\ NextWal(c).by = c
<1>1. handle[c].head \in Seq(FinalisedBlock) /\ seen[c] \in ConsensusWal \cup {NoWal}
  BY DEF TypeInv, SessionChain
<1> QED BY <1>1 DEF NextWal, ConsensusWal

LEMMA TypeStep ==
    ASSUME TypeInv, CandidatesChecked, CompactSettled, [Next]_vars
    PROVE  TypeInv'
<1> USE DEF storeVars
<1>1. CASE UNCHANGED vars
  BY <1>1 DEF TypeInv, vars, Known
<1>2. ASSUME NEW c \in Handles, NEW s \in Sessions, Create(c, s)
      PROVE  TypeInv'
  <2>1. [predecessor |-> NoRef, time |-> 0] \in SessionGenesis
    BY DEF SessionGenesis
  <2>2. <<>> \in Seq(FinalisedBlock)
    OBVIOUS
  <2> QED BY ZenonT(30), <1>2, <2>1, <2>2, OpenType DEF Create, create_session, TypeInv, Known
<1>3. ASSUME NEW c \in Handles, NEW s \in Sessions, Recover(c, s)
      PROVE  TypeInv'
  <2>1. chain[s] \in Seq(FinalisedBlock)
    BY DEF TypeInv
  <2> QED BY Zenon, <1>3, <2>1, OpenType DEF Recover, TypeInv, Known
<1>4. ASSUME NEW c \in Handles, prepare_block(c)
      PROVE  TypeInv'
  <2>1. prepared' \in [Handles -> SUBSET Candidate]
    BY <1>4, PrepareType DEF TypeInv
  <2> QED BY Zenon, <1>4, <2>1 DEF prepare_block, TypeInv, Known
<1>5. ASSUME NEW c \in Handles, load_consensus_wal(c)
      PROVE  TypeInv'
  <2>1. handle[c].session \in Sessions
    BY Zenon, <1>5 DEF load_consensus_wal, TypeInv, SessionChain
  <2> QED BY <1>5, <2>1 DEF load_consensus_wal, TypeInv, Known
<1>6. ASSUME NEW c \in Handles, WriteWal(c)
      PROVE  TypeInv'
  <2>1. NextWal(c) \in ConsensusWal /\ handle[c].session \in Sessions
    BY Zenon, <1>6, NextWalType DEF WriteWal, TypeInv, SessionChain
  <2> QED BY <1>6, <2>1 DEF WriteWal, compare_and_set_consensus_wal, TypeInv, Known
<1>7. ASSUME NEW c \in Handles, NEW p \in prepared[c], commit_finalised(c, p)
      PROVE  TypeInv'
  BY <1>7, CommitType DEF CandidatesChecked
<1>8. ASSUME NEW c \in Handles, NEW p \in prepared[c], CommitRefused(c, p)
      PROVE  TypeInv'
  BY <1>8 DEF CommitRefused, TypeInv, Known
<1>9. ASSUME NEW m \in outbox, Acknowledge(m)
      PROVE  TypeInv'
  BY <1>9 DEF Acknowledge, acknowledge_outbox, TypeInv, Known
<1>10. ASSUME NEW m \in outbox, AppendEvidence(m)
       PROVE  TypeInv'
  <2>1. DOMAIN evidence' = DOMAIN evidence \cup {m}
    BY <1>10 DEF AppendEvidence, compare_and_set_evidence
  <2>2. \A x \in DOMAIN evidence' : evidence'[x] \in 1..Stages
    BY <1>10, BoundsAssumption DEF AppendEvidence, compare_and_set_evidence, TypeInv
  <2> QED BY ZenonT(30), <1>10, <2>1, <2>2 DEF AppendEvidence, compare_and_set_evidence, TypeInv, Known
<1>11. ASSUME NEW s \in Sessions, NEW n \in 1..Len(chain[s]),
              Offload([session |-> s, height |-> n - 1])
       PROVE  TypeInv'
  <2> DEFINE ref == [session |-> s, height |-> n - 1]
  <2>1. ref \in BlockRef
    BY DEF BlockRef, TypeInv
  <2>2. offload_block(ref)
    BY <1>11 DEF Offload
  <2> HIDE DEF ref
  <2>3. /\ Known' = Known
        /\ \A h \in DOMAIN full' : full'[h] \in HandoffTerminal
        /\ \A h \in DOMAIN compact' : compact'[h] \in HandoffTerminal
    BY Zenon, <2>2, OffloadFacts DEF TypeInv, Known
  <2> QED BY Zenon, <1>11, <2>1, <2>2, <2>3 DEF Offload, offload_block, TypeInv
<1> QED BY ZenonT(30), <1>1, <1>2, <1>3, <1>4, <1>5, <1>6, <1>7, <1>8, <1>9, <1>10, <1>11,
           PlanTypes DEF Next, TypeInv

(* The blocks and their indexes change in a commit or an archival only. *)
LEMMA StoreCases ==
    ASSUME TypeInv, [Next]_vars
    PROVE  \/ UNCHANGED <<chain, receipts, full, compact>>
           \/ \E c \in Handles : \E p \in prepared[c] : commit_finalised(c, p)
           \/ \E ref \in BlockRef : Offload(ref) /\ UNCHANGED <<chain, receipts>>
<1> USE DEF storeVars
<1>1. CASE UNCHANGED vars
  BY <1>1 DEF vars
<1>2. ASSUME NEW c, NEW s, Create(c, s) \/ Recover(c, s)
      PROVE  UNCHANGED <<chain, receipts, full, compact>>
  BY Zenon, <1>2 DEF Create, create_session, Recover
<1>3. ASSUME NEW c, prepare_block(c) \/ load_consensus_wal(c) \/ WriteWal(c)
      PROVE  UNCHANGED <<chain, receipts, full, compact>>
  BY <1>3 DEF prepare_block, load_consensus_wal, WriteWal, compare_and_set_consensus_wal
<1>4. ASSUME NEW c, NEW p, CommitRefused(c, p)
      PROVE  UNCHANGED <<chain, receipts, full, compact>>
  BY <1>4 DEF CommitRefused
<1>5. ASSUME NEW m, Acknowledge(m) \/ AppendEvidence(m)
      PROVE  UNCHANGED <<chain, receipts, full, compact>>
  BY <1>5 DEF Acknowledge, acknowledge_outbox, AppendEvidence, compare_and_set_evidence
<1>6. ASSUME NEW s \in Plan.archived, NEW n \in 1..Len(chain[s]),
             Offload([session |-> s, height |-> n - 1])
      PROVE  \E ref \in BlockRef : Offload(ref) /\ UNCHANGED <<chain, receipts>>
  <2> DEFINE ref == [session |-> s, height |-> n - 1]
  <2>1. ref \in BlockRef
    <3>1. s \in Sessions /\ chain[s] \in Seq(FinalisedBlock)
      BY Zenon, PlanTypes DEF TypeInv
    <3>2. n - 1 \in Nat
      BY <3>1
    <3> QED BY Zenon, <3>1, <3>2 DEF BlockRef
  <2>2. UNCHANGED <<chain, receipts>>
    BY <1>6 DEF Offload, offload_block
  <2> QED BY <1>6, <2>1, <2>2
<1> QED BY Zenon, <1>1, <1>2, <1>3, <1>4, <1>5, <1>6, PlanTypes DEF Next, TypeInv

-----------------------------------------------------------------------------
(* Candidates, write-ahead records and commands. *)

LEMMA CandidatesStep ==
    ASSUME TypeInv, CandidatesChecked, [Next]_vars
    PROVE  CandidatesChecked'
<1> USE DEF storeVars
<1>1. CASE UNCHANGED <<handle, prepared>>
  BY <1>1 DEF CandidatesChecked, sealed_by_successor
<1>2. ASSUME NEW c \in Handles, NEW s \in Sessions, NEW head \in Seq(FinalisedBlock),
             Open(c, s, head)
      PROVE  CandidatesChecked'
  <2>1. handle'[c] \in SessionChain
    BY <1>2, OpenType
  <2>2. \A d \in Handles : prepared'[d] \subseteq prepared[d]
    BY Zenon, <1>2 DEF Open, TypeInv
  <2>3. \A d \in Handles \ {c} : handle'[d] = handle[d]
    BY <1>2 DEF Open, TypeInv
  <2> QED BY <2>1, <2>2, <2>3 DEF CandidatesChecked, sealed_by_successor
<1>3. ASSUME NEW c \in Handles, prepare_block(c)
      PROVE  CandidatesChecked'
  <2>1. PICK p \in Candidate :
            /\ prepared' = [prepared EXCEPT ![c] = @ \cup {p}]
            /\ handle[c] \in SessionChain
            /\ sealed_by_successor(p.base) = NoSession
            /\ \A a \in p.block.actions : a.handoff \notin p.block.consumed
    BY <1>3, PrepareType
  <2>2. handle' = handle
    BY <1>3 DEF prepare_block
  <2> QED BY <2>1, <2>2 DEF CandidatesChecked, sealed_by_successor, TypeInv
<1>4. ASSUME NEW c \in Handles, NEW p \in prepared[c], commit_finalised(c, p)
      PROVE  CandidatesChecked'
  <2>1. \A d \in Handles : prepared'[d] \subseteq prepared[d]
    BY <1>4 DEF commit_finalised, TypeInv
  <2>2. \A d \in Handles : handle[d] \in SessionChain => handle'[d] \in SessionChain
    <3>1. handle[c] \in SessionChain /\ p.block \in FinalisedBlock
      BY Zenon, CommitFacts, <1>4 DEF CandidatesChecked
    <3>2. [handle[c] EXCEPT !.head = Append(@, p.block)] \in SessionChain
      BY <3>1, HeadMoves
    <3> QED BY Zenon, <1>4, <3>2 DEF commit_finalised, TypeInv
  <2> QED BY <2>1, <2>2 DEF CandidatesChecked, sealed_by_successor
<1>5. ASSUME NEW c \in Handles, NEW p \in prepared[c], CommitRefused(c, p)
      PROVE  CandidatesChecked'
  <2>1. handle' = handle /\ \A d \in Handles : prepared'[d] \subseteq prepared[d]
    BY <1>5 DEF CommitRefused, TypeInv
  <2> QED BY <2>1 DEF CandidatesChecked, sealed_by_successor
<1>6. ASSUME NEW c \in Handles, NEW s \in Sessions, Create(c, s) \/ Recover(c, s)
      PROVE  CandidatesChecked'
  <2>1. <<>> \in Seq(FinalisedBlock) /\ chain[s] \in Seq(FinalisedBlock)
    <3>1. <<>> \in Seq(FinalisedBlock)
      OBVIOUS
    <3>2. chain[s] \in Seq(FinalisedBlock)
      BY Zenon DEF TypeInv
    <3> QED BY Zenon, <3>1, <3>2
  <2>2. Open(c, s, <<>>) \/ Open(c, s, chain[s])
    BY Zenon, <1>6 DEF Create, Recover
  <2> QED BY Zenon, <1>2, <2>1, <2>2
<1>7. ASSUME NEW c \in Handles, load_consensus_wal(c) \/ WriteWal(c)
      PROVE  UNCHANGED <<handle, prepared>>
  BY <1>7 DEF load_consensus_wal, WriteWal
<1>8. ASSUME NEW x, Acknowledge(x) \/ AppendEvidence(x) \/ Offload(x)
      PROVE  UNCHANGED <<handle, prepared>>
  BY <1>8 DEF Acknowledge, AppendEvidence, Offload
<1>9. UNCHANGED vars => UNCHANGED <<handle, prepared>>
  BY DEF vars
<1> QED BY ZenonT(30), <1>1, <1>3, <1>4, <1>5, <1>6, <1>7, <1>8, <1>9, PlanTypes DEF Next, TypeInv

(* Opening a session forgets what was read of a write-ahead record. *)
LEMMA OpenWal ==
    ASSUME TypeInv, WalAtHead, SeenBehindWal, NEW c \in Handles, NEW s, NEW head,
           Open(c, s, head), UNCHANGED <<chain, wal>>
    PROVE  WalAtHead' /\ SeenBehindWal'
<1>1. WalAtHead'
  BY DEF WalAtHead
<1>2. ASSUME NEW d \in Handles, seen'[d] # NoWal
      PROVE  seen'[d] = seen[d] /\ handle'[d] = handle[d]
  BY <1>2 DEF Open, TypeInv
<1> QED BY Zenon, <1>1, <1>2 DEF SeenBehindWal

(* Writing on top of the revision that was read makes everything else that *)
(* was read older.                                                         *)
LEMMA WriteWalStep ==
    ASSUME TypeInv, WalAtHead, SeenBehindWal, NEW c \in Handles, WriteWal(c)
    PROVE  WalAtHead' /\ SeenBehindWal' /\ seen[c] = wal[handle[c].session]
<1> DEFINE s == handle[c].session
           next == NextWal(c)
<1>1. handle[c] \in SessionChain /\ s \in Sessions
  BY Zenon DEF WriteWal, TypeInv, SessionChain
<1>2. next \in ConsensusWal /\ next # NoWal
  BY NextWalType, SentinelsAssumption DEF WriteWal
<1>3. /\ WalAllowed(s, seen[c], next)
      /\ wal' = [wal EXCEPT ![s] = next]
      /\ seen' = [seen EXCEPT ![c] = next]
      /\ UNCHANGED <<chain, handle>>
  BY DEF WriteWal, compare_and_set_consensus_wal
<1>4. next.height = Len(chain[s])
  BY <1>3 DEF WalAllowed
<1>5. seen[c] = wal[s] /\ (seen[c] # NoWal => next.revision = wal[s].revision + 1)
  <2>1. CASE seen[c] = NoWal
    BY <1>3, <2>1 DEF WalAllowed
  <2>2. CASE seen[c] # NoWal
    <3>1. next.height = seen[c].height /\ next.revision = seen[c].revision + 1
      BY <2>2 DEF NextWal
    <3>2. wal[s] # NoWal /\ wal[s].revision = seen[c].revision
      BY <1>3, <2>2 DEF WalAllowed
    <3> HIDE DEF next
    <3> QED BY ZenonT(30), <1>4, <2>2, <3>1, <3>2 DEF SeenBehindWal
  <2> QED BY <2>1, <2>2
<1> HIDE DEF next
<1>t. /\ wal \in [Sessions -> ConsensusWal \cup {NoWal}]
      /\ seen \in [Handles -> ConsensusWal \cup {NoWal}]
  BY Zenon DEF TypeInv
<1>u. /\ wal'[s] = next /\ \A t \in Sessions \ {s} : wal'[t] = wal[t]
      /\ seen'[c] = next /\ \A d \in Handles \ {c} : seen'[d] = seen[d]
  BY Zenon, <1>1, <1>3, <1>t
<1>6. WalAtHead'
  <2> SUFFICES ASSUME NEW t \in Sessions, wal'[t] # NoWal
               PROVE  wal'[t].height = Len(chain'[t])
    BY Zenon DEF WalAtHead
  <2>1. chain' = chain
    BY Zenon, <1>3
  <2> QED BY Zenon, <1>4, <1>u, <2>1 DEF WalAtHead
<1>7. ASSUME NEW d \in Handles, seen'[d] # NoWal
      PROVE  /\ handle[d] \in SessionChain
             /\ LET t == handle[d].session IN
                /\ seen'[d].height <= Len(chain[t])
                /\ seen'[d].height = Len(chain[t]) =>
                      /\ wal'[t] # NoWal
                      /\ seen'[d].revision <= wal'[t].revision
                      /\ seen'[d].revision = wal'[t].revision => seen'[d] = wal'[t]
  <2>1. CASE d = c
    <3>1. next.height \in Nat /\ next.revision \in Nat
      BY <1>2 DEF ConsensusWal
    <3>2. next.height <= Len(chain[s]) /\ next.revision <= next.revision
      BY <1>4, <3>1
    <3> QED BY Zenon, <1>1, <1>2, <1>u, <2>1, <3>2
  <2>2. CASE d # c /\ handle[d].session # s
    <3>1. seen'[d] = seen[d] /\ seen[d] # NoWal
      BY Zenon, <1>7, <1>u, <2>2
    <3>2. handle[d] \in SessionChain /\ handle[d].session \in Sessions
      BY Zenon, <3>1 DEF SeenBehindWal, SessionChain
    <3>3. wal'[handle[d].session] = wal[handle[d].session]
      BY Zenon, <1>u, <2>2, <3>2
    <3> QED BY Zenon, <3>1, <3>2, <3>3 DEF SeenBehindWal
  <2>3. CASE d # c /\ handle[d].session = s
    <3>1. seen'[d] = seen[d] /\ seen[d] \in ConsensusWal
      BY ZenonT(30), <1>7, <1>t, <1>u, <2>3
    <3>2. wal'[s] = next
      BY Zenon, <1>u
    <3>3. /\ handle[d] \in SessionChain
          /\ seen[d].height <= Len(chain[s])
          /\ seen[d].height = Len(chain[s]) =>
                wal[s] # NoWal /\ seen[d].revision <= wal[s].revision
      BY ZenonT(30), <1>7, <2>3, <3>1 DEF SeenBehindWal
    <3>4. wal[s] # NoWal => wal[s].revision \in Nat
      <4>1. wal[s] # NoWal => wal[s] \in ConsensusWal
        BY Zenon, <1>1, <1>t
      <4> QED BY <4>1 DEF ConsensusWal
    <3>5. next.revision \in Nat /\ seen[d].revision \in Nat
      BY <1>2, <3>1 DEF ConsensusWal
    <3>6. CASE seen[d].height = Len(chain[s])
      <4>1. wal[s] # NoWal /\ seen[d].revision <= wal[s].revision
        BY Zenon, <3>3, <3>6
      <4>2. next.revision = wal[s].revision + 1
        BY Zenon, <1>5, <4>1
      <4>3. seen[d].revision <= next.revision /\ seen[d].revision # next.revision
        BY <3>4, <3>5, <4>1, <4>2
      <4> QED BY Zenon, <1>2, <2>3, <3>1, <3>2, <3>3, <4>3
    <3>7. CASE seen[d].height # Len(chain[s])
      BY Zenon, <2>3, <3>1, <3>3, <3>7
    <3> QED BY Zenon, <3>6, <3>7
  <2> QED BY ZenonT(30), <2>1, <2>2, <2>3
<1> QED BY ZenonT(30), <1>3, <1>5, <1>6, <1>7 DEF SeenBehindWal

LEMMA CommitWal ==
    ASSUME TypeInv, CandidatesChecked, WalAtHead, SeenBehindWal,
           NEW c \in Handles, NEW p \in prepared[c], commit_finalised(c, p)
    PROVE  WalAtHead' /\ SeenBehindWal'
<1> DEFINE s == p.session
<1>1. /\ s \in Sessions
      /\ chain' = [chain EXCEPT ![s] = Append(chain[s], p.block)]
      /\ wal' = [wal EXCEPT ![s] = NoWal]
      /\ p.block \in FinalisedBlock
  BY Zenon, CommitFacts
<1>2. chain[s] \in Seq(FinalisedBlock)
  BY Zenon, <1>1 DEF TypeInv
<1>3. /\ wal'[s] = NoWal
      /\ Len(chain'[s]) = Len(chain[s]) + 1
      /\ \A t \in Sessions \ {s} : chain'[t] = chain[t] /\ wal'[t] = wal[t]
  <2>1. /\ wal \in [Sessions -> ConsensusWal \cup {NoWal}]
        /\ chain \in [Sessions -> Seq(FinalisedBlock)]
    BY Zenon DEF TypeInv
  <2>2. /\ wal'[s] = NoWal /\ chain'[s] = Append(chain[s], p.block)
        /\ \A t \in Sessions \ {s} : chain'[t] = chain[t] /\ wal'[t] = wal[t]
    BY Zenon, <1>1, <2>1
  <2>3. Len(Append(chain[s], p.block)) = Len(chain[s]) + 1
    BY <1>1, <1>2
  <2> QED BY Zenon, <2>2, <2>3
<1>4. WalAtHead'
  BY <1>1, <1>3 DEF WalAtHead
<1>5. \A d \in Handles : handle[d] \in SessionChain =>
          handle'[d] \in SessionChain /\ handle'[d].session = handle[d].session
  <2>1. handle[c] \in SessionChain
    BY DEF CandidatesChecked
  <2>2. /\ [handle[c] EXCEPT !.head = Append(@, p.block)] \in SessionChain
        /\ [handle[c] EXCEPT !.head = Append(@, p.block)].session = handle[c].session
    BY <1>1, <2>1, HeadMoves
  <2> QED BY ZenonT(30), <2>2 DEF commit_finalised, TypeInv
<1>6. seen' = seen
  BY DEF commit_finalised
<1>7. ASSUME NEW d \in Handles, seen[d] # NoWal
      PROVE  /\ handle'[d] \in SessionChain
             /\ LET t == handle'[d].session IN
                /\ seen[d].height <= Len(chain'[t])
                /\ seen[d].height = Len(chain'[t]) =>
                      /\ wal'[t] # NoWal
                      /\ seen[d].revision <= wal'[t].revision
                      /\ seen[d].revision = wal'[t].revision => seen[d] = wal'[t]
  <2>1. /\ handle[d] \in SessionChain /\ handle'[d] \in SessionChain
        /\ handle'[d].session = handle[d].session
        /\ handle[d].session \in Sessions
    BY <1>5, <1>7 DEF SeenBehindWal, SessionChain
  <2>2. seen[d].height \in Nat /\ Len(chain[s]) \in Nat
    <3>1. seen[d] \in ConsensusWal
      BY Zenon, <1>7 DEF TypeInv
    <3>2. seen[d].height \in Nat
      BY <3>1 DEF ConsensusWal
    <3>3. Len(chain[s]) \in Nat
      BY <1>2
    <3> QED BY Zenon, <3>2, <3>3
  <2>3. CASE handle[d].session = s
    <3>1. seen[d].height <= Len(chain[s])
      BY ZenonT(30), <1>7, <2>3 DEF SeenBehindWal
    <3>2. Len(chain'[s]) = Len(chain[s]) + 1
      BY Zenon, <1>3
    <3>3. seen[d].height <= Len(chain'[s]) /\ seen[d].height # Len(chain'[s])
      BY <2>2, <3>1, <3>2
    <3> QED BY Zenon, <2>1, <2>3, <3>3
  <2>4. CASE handle[d].session # s
    <3>1. /\ chain'[handle[d].session] = chain[handle[d].session]
          /\ wal'[handle[d].session] = wal[handle[d].session]
      BY Zenon, <1>3, <2>1, <2>4
    <3> QED BY ZenonT(30), <1>7, <2>1, <3>1 DEF SeenBehindWal
  <2> QED BY Zenon, <2>3, <2>4
<1> QED BY ZenonT(30), <1>4, <1>6, <1>7 DEF SeenBehindWal

LEMMA WalStep ==
    ASSUME TypeInv, CandidatesChecked, WalAtHead, SeenBehindWal, [Next]_vars
    PROVE  WalAtHead' /\ SeenBehindWal'
<1> USE DEF storeVars
<1>1. CASE UNCHANGED <<chain, wal, handle, seen>>
  BY Zenon, <1>1 DEF WalAtHead, SeenBehindWal
<1>2. ASSUME NEW c \in Handles, NEW s \in Sessions, Create(c, s) \/ Recover(c, s)
      PROVE  WalAtHead' /\ SeenBehindWal'
  <2>1. /\ UNCHANGED <<chain, wal>>
        /\ Open(c, s, <<>>) \/ Open(c, s, chain[s])
    BY <1>2 DEF Create, create_session, Recover
  <2> QED BY <2>1, OpenWal
<1>3. ASSUME NEW c \in Handles, load_consensus_wal(c)
      PROVE  WalAtHead' /\ SeenBehindWal'
  <2>1. handle[c] \in SessionChain /\ handle[c].session \in Sessions
    BY Zenon, <1>3 DEF load_consensus_wal, TypeInv, SessionChain
  <2>2. /\ UNCHANGED <<chain, wal, handle>>
        /\ seen' = [seen EXCEPT ![c] = wal[handle[c].session]]
    BY <1>3 DEF load_consensus_wal
  <2>3. wal[handle[c].session] # NoWal =>
            /\ wal[handle[c].session].height = Len(chain[handle[c].session])
            /\ wal[handle[c].session].height \in Nat
            /\ wal[handle[c].session].revision \in Nat
    BY ZenonT(30), <2>1 DEF WalAtHead, TypeInv, ConsensusWal
  <2>4. \A d \in Handles : seen'[d] = IF d = c THEN wal[handle[c].session] ELSE seen[d]
    BY Zenon, <2>2 DEF TypeInv
  <2>5. WalAtHead'
    BY <2>2 DEF WalAtHead
  <2>6. ASSUME NEW d \in Handles, seen'[d] # NoWal
        PROVE  /\ handle[d] \in SessionChain
               /\ LET t == handle[d].session IN
                  /\ seen'[d].height <= Len(chain[t])
                  /\ seen'[d].height = Len(chain[t]) =>
                        /\ wal[t] # NoWal
                        /\ seen'[d].revision <= wal[t].revision
                        /\ seen'[d].revision = wal[t].revision => seen'[d] = wal[t]
    <3>1. CASE d = c
      <4>1. seen'[d] = wal[handle[d].session] /\ wal[handle[d].session] # NoWal
        BY Zenon, <2>4, <2>6, <3>1
      <4>2. /\ wal[handle[d].session].height <= Len(chain[handle[d].session])
            /\ wal[handle[d].session].revision <= wal[handle[d].session].revision
        BY <2>3, <3>1, <4>1
      <4> QED BY Zenon, <2>1, <3>1, <4>1, <4>2
    <3>2. CASE d # c
      <4>1. seen'[d] = seen[d]
        BY Zenon, <2>4, <3>2
      <4> QED BY ZenonT(30), <2>6, <4>1 DEF SeenBehindWal
    <3> QED BY Zenon, <3>1, <3>2
  <2> QED BY ZenonT(30), <2>2, <2>5, <2>6 DEF SeenBehindWal
<1>4. ASSUME NEW c \in Handles, prepare_block(c)
      PROVE  UNCHANGED <<chain, wal, handle, seen>>
  BY Zenon, <1>4 DEF prepare_block
<1>5. ASSUME NEW c, NEW p, CommitRefused(c, p)
      PROVE  UNCHANGED <<chain, wal, handle, seen>>
  BY <1>5 DEF CommitRefused
<1>6. ASSUME NEW x, Acknowledge(x) \/ AppendEvidence(x) \/ Offload(x)
      PROVE  UNCHANGED <<chain, wal, handle, seen>>
  BY <1>6 DEF Acknowledge, acknowledge_outbox, AppendEvidence, compare_and_set_evidence,
             Offload, offload_block
<1>7. UNCHANGED vars => UNCHANGED <<chain, wal, handle, seen>>
  BY DEF vars
<1> QED BY Zenon, <1>1, <1>2, <1>3, <1>4, <1>5, <1>6, <1>7, WriteWalStep, CommitWal, PlanTypes
        DEF Next, TypeInv

LEMMA CommandsStep ==
    ASSUME TypeInv, CommandsIndexed, CommandsOnce, [Next]_vars
    PROVE  CommandsIndexed' /\ CommandsOnce'
<1>1. CASE UNCHANGED <<chain, receipts>>
  BY <1>1 DEF CommandsIndexed, CommandsOnce
<1>2. ASSUME NEW c \in Handles, NEW p \in prepared[c], commit_finalised(c, p)
      PROVE  CommandsIndexed' /\ CommandsOnce'
  <2> DEFINE s == p.session
             b == p.block
             top == Len(chain[s]) + 1
  <2>1. /\ s \in Sessions
        /\ b \in FinalisedBlock
        /\ chain' = [chain EXCEPT ![s] = Append(chain[s], b)]
        /\ receipts' = receipts \cup ReceiptsOf(Place(p), b)
        /\ CommitAllowed(s, chain[s], b)
    BY ZenonT(30), <1>2, CommitFacts
  <2>2. chain[s] \in Seq(FinalisedBlock)
    BY ZenonT(30), <2>1 DEF TypeInv
  <2>3. /\ DOMAIN chain'[s] = DOMAIN chain[s] \cup {top}
        /\ top \notin DOMAIN chain[s]
        /\ chain'[s][top] = b
        /\ \A n \in DOMAIN chain[s] : chain'[s][n] = chain[s][n]
        /\ \A t \in Sessions \ {s} : chain'[t] = chain[t]
    BY Zenon, <1>2, CommitExtends
  <2>4. \A x \in b.commands :
            [session |-> s, command |-> x, height |-> top - 1] \in receipts'
    <3>1. Len(chain[s]) \in Nat
      BY <2>2
    <3>2. Place(p).session = s /\ Place(p).height = top - 1
      BY <3>1 DEF Place
    <3>3. \A x \in b.commands :
              [session |-> s, command |-> x, height |-> top - 1] \in ReceiptsOf(Place(p), b)
      BY ZenonT(30), <3>2 DEF ReceiptsOf
    <3> QED BY Zenon, <2>1, <3>3
  <2>5. \A n \in DOMAIN chain[s] : chain[s][n].commands \cap b.commands = {}
    <3> SUFFICES ASSUME NEW n \in DOMAIN chain[s], NEW x \in chain[s][n].commands,
                        x \in b.commands
                 PROVE  FALSE
      OBVIOUS
    <3>1. [session |-> s, command |-> x, height |-> n - 1] \in receipts
      BY <2>1 DEF CommandsIndexed
    <3> QED BY Zenon, <2>1, <3>1 DEF CommitAllowed
  <2> HIDE DEF top, b, s
  <2>6. CommandsIndexed'
    <3> SUFFICES ASSUME NEW t \in Sessions, NEW n \in DOMAIN chain'[t],
                        NEW x \in chain'[t][n].commands
                 PROVE  [session |-> t, command |-> x, height |-> n - 1] \in receipts'
      BY DEF CommandsIndexed
    <3>1. CASE t = s /\ n = top
      BY Zenon, <2>3, <2>4, <3>1
    <3>2. CASE ~(t = s /\ n = top)
      <4>1. n \in DOMAIN chain[t] /\ chain'[t][n] = chain[t][n]
        <5>1. CASE t = s
          BY Zenon, <2>3, <3>2, <5>1
        <5>2. CASE t # s
          BY Zenon, <2>3, <5>2
        <5> QED BY Zenon, <5>1, <5>2
      <4>2. [session |-> t, command |-> x, height |-> n - 1] \in receipts
        BY Zenon, <4>1 DEF CommandsIndexed
      <4> QED BY Zenon, <2>1, <4>2
    <3> QED BY Zenon, <3>1, <3>2
  <2>7. CommandsOnce'
    BY <2>3, <2>5 DEF CommandsOnce
  <2> QED BY <2>6, <2>7
<1> QED BY <1>1, <1>2, StoreCases

-----------------------------------------------------------------------------
(* The life of handoffs. *)

(* An action is determined by its handoff and the state it must find. *)
LEMMA OneActionFits ==
    ASSUME NEW a \in HandoffAction, NEW b \in HandoffAction, NEW at,
           validate_for(a, at), validate_for(b, at), a.handoff = b.handoff,
           ExpectedTerminal(a) = ExpectedTerminal(b)
    PROVE  a = b
<1>1. /\ a = [kind |-> a.kind, handoff |-> a.handoff, evidence |-> a.evidence]
      /\ b = [kind |-> b.kind, handoff |-> b.handoff, evidence |-> b.evidence]
      /\ a.kind \in {"Cancel", "Reclaim", "Retire"}
      /\ b.kind \in {"Cancel", "Reclaim", "Retire"}
  BY DEF HandoffAction
<1>2. /\ ExpectedTerminal(a).state = ExpectedTerminal(b).state
      /\ ExpectedTerminal(a).at = ExpectedTerminal(b).at
  OBVIOUS
<1>3. a.kind = b.kind
  BY <1>1, <1>2 DEF ExpectedTerminal, Issued, Cancelled, Consumed
<1>4. a.evidence = b.evidence
  <2>1. CASE a.kind = "Cancel"
    BY <1>3, <2>1 DEF validate_for
  <2>2. CASE a.kind = "Reclaim"
    BY Zenon, <1>2, <1>3, <2>2 DEF ExpectedTerminal, Cancelled
  <2>3. CASE a.kind = "Retire"
    BY Zenon, <1>2, <1>3, <2>3 DEF ExpectedTerminal, Consumed
  <2> QED BY <1>1, <2>1, <2>2, <2>3
<1> QED BY <1>1, <1>3, <1>4

(* No action applies to a settled handoff. *)
LEMMA ExpectedIsOpen ==
    ASSUME NEW a \in HandoffAction
    PROVE  ~terminal_is_final(ExpectedTerminal(a))
<1>1. CASE a.kind = "Cancel"
  BY <1>1 DEF terminal_is_final, ExpectedTerminal, Issued
<1>2. CASE a.kind = "Reclaim"
  BY <1>2 DEF terminal_is_final, ExpectedTerminal, Cancelled
<1>3. CASE a.kind = "Retire"
  BY <1>3 DEF terminal_is_final, ExpectedTerminal, Consumed
<1> QED BY <1>1, <1>2, <1>3 DEF HandoffAction

(* The states and the events of a handoff go together. *)
LEMMA KindsOfTerminals ==
    ASSUME NEW at, NEW earlier
    PROVE  /\ KindsBefore(Issued) = {"Issue"}
           /\ KindsBefore(Consumed(at)) = {"Issue", "Consume"}
           /\ KindsBefore(Cancelled(at)) = {"Issue", "Cancel"}
           /\ KindsBefore(Reclaimed(earlier, at)) = {"Issue", "Cancel", "Reclaim"}
           /\ KindsBefore(Retired(earlier, at)) = {"Issue", "Consume", "Retire"}
BY DEF KindsBefore, Issued, Consumed, Cancelled, Reclaimed, Retired

LEMMA ActionFollows ==
    ASSUME NEW a \in HandoffAction, NEW at
    PROVE  /\ a.kind \in Claims!Follows(KindsBefore(ExpectedTerminal(a)))
           /\ KindsBefore(apply_action(a, at))
                 = KindsBefore(ExpectedTerminal(a)) \cup {a.kind}
<1>1. a.kind \in {"Cancel", "Reclaim", "Retire"}
  BY DEF HandoffAction
<1>2. CASE a.kind = "Cancel"
  <2>1. ExpectedTerminal(a) = Issued /\ apply_action(a, at) = Cancelled(at)
    BY <1>2 DEF ExpectedTerminal, apply_action
  <2> QED BY <1>2, <2>1, KindsOfTerminals DEF Claims!Follows
<1>3. CASE a.kind = "Reclaim"
  <2>1. /\ ExpectedTerminal(a) = Cancelled(a.evidence)
        /\ apply_action(a, at) = Reclaimed(a.evidence, at)
    BY <1>3 DEF ExpectedTerminal, apply_action
  <2>2. /\ KindsBefore(ExpectedTerminal(a)) = {"Issue", "Cancel"}
        /\ KindsBefore(apply_action(a, at)) = {"Issue", "Cancel", "Reclaim"}
    BY ZenonT(30), <2>1, KindsOfTerminals
  <2> QED BY <1>3, <2>2 DEF Claims!Follows
<1>4. CASE a.kind = "Retire"
  <2>1. /\ ExpectedTerminal(a) = Consumed(a.evidence)
        /\ apply_action(a, at) = Retired(a.evidence, at)
    BY <1>4 DEF ExpectedTerminal, apply_action
  <2>2. /\ KindsBefore(ExpectedTerminal(a)) = {"Issue", "Consume"}
        /\ KindsBefore(apply_action(a, at)) = {"Issue", "Consume", "Retire"}
    BY <2>1, KindsOfTerminals
  <2> QED BY <1>4, <2>2 DEF Claims!Follows
<1> QED BY <1>1, <1>2, <1>3, <1>4

(* The block of a commit gets a new place, the others keep theirs. *)
LEMMA CommitRefs ==
    ASSUME TypeInv, NEW c \in Handles, NEW p \in prepared[c], commit_finalised(c, p)
    PROVE  /\ Refs' = Refs \cup {Place(p)}
           /\ Place(p) \notin Refs
           /\ \A r \in Refs : chain'[r.session][r.height + 1] = chain[r.session][r.height + 1]
           /\ chain'[Place(p).session][Place(p).height + 1] = p.block
<1> DEFINE s == p.session
           b == p.block
           at == Place(p)
<1>1. s \in Sessions
  BY ZenonT(30), CommitFacts
<1>2. /\ at.session = s /\ at.height = Len(chain[s]) /\ at.height + 1 = Len(chain[s]) + 1
      /\ at = [session |-> s, height |-> Len(chain[s])]
  BY Zenon DEF Place
<1>3. /\ DOMAIN chain'[s] = DOMAIN chain[s] \cup {Len(chain[s]) + 1}
      /\ chain'[s][Len(chain[s]) + 1] = b
      /\ \A n \in DOMAIN chain[s] : chain'[s][n] = chain[s][n]
      /\ \A t \in Sessions \ {s} : chain'[t] = chain[t]
  BY Zenon, CommitExtends
<1>4. \A t \in Sessions : DOMAIN chain[t] = 1..Len(chain[t]) /\ Len(chain[t]) \in Nat
  <2> TAKE t \in Sessions
  <2>1. chain[t] \in Seq(FinalisedBlock)
    BY Zenon DEF TypeInv
  <2> QED BY <2>1
<1>5. Refs' = Refs \cup {at}
  <2>1. \A r : r \in Refs <=>
            \E t \in Sessions : \E n \in DOMAIN chain[t] : r = [session |-> t, height |-> n - 1]
    BY DEF Refs
  <2>2. \A r : r \in Refs' <=>
            \E t \in Sessions : \E n \in DOMAIN chain'[t] : r = [session |-> t, height |-> n - 1]
    BY DEF Refs
  <2>3. /\ at = [session |-> s, height |-> (Len(chain[s]) + 1) - 1]
        /\ Len(chain[s]) + 1 \in DOMAIN chain'[s]
    <3>1. (Len(chain[s]) + 1) - 1 = Len(chain[s])
      BY <1>1, <1>4
    <3> QED BY Zenon, <1>2, <1>3, <3>1
  <2> HIDE DEF at
  <2>4. ASSUME NEW r, r \in Refs' PROVE r \in Refs \cup {at}
    <3>1. PICK t \in Sessions : \E n \in DOMAIN chain'[t] : r = [session |-> t, height |-> n - 1]
      BY Zenon, <2>2, <2>4
    <3>2. PICK n \in DOMAIN chain'[t] : r = [session |-> t, height |-> n - 1]
      BY Zenon, <3>1
    <3>3. CASE t = s /\ n = Len(chain[s]) + 1
      BY Zenon, <2>3, <3>2, <3>3
    <3>4. CASE ~(t = s /\ n = Len(chain[s]) + 1)
      <4>1. n \in DOMAIN chain[t]
        BY Zenon, <1>3, <3>4
      <4> QED BY Zenon, <2>1, <3>2, <4>1
    <3> QED BY Zenon, <3>3, <3>4
  <2>5. ASSUME NEW r, r \in Refs PROVE r \in Refs'
    <3>1. PICK t \in Sessions : \E n \in DOMAIN chain[t] : r = [session |-> t, height |-> n - 1]
      BY Zenon, <2>1, <2>5
    <3>2. PICK n \in DOMAIN chain[t] : r = [session |-> t, height |-> n - 1]
      BY Zenon, <3>1
    <3>3. n \in DOMAIN chain'[t]
      BY Zenon, <1>3
    <3> QED BY Zenon, <2>2, <3>2, <3>3
  <2>6. at \in Refs'
    BY Zenon, <1>1, <2>2, <2>3
  <2> QED BY Zenon, <2>4, <2>5, <2>6
<1>6. \A r \in Refs : /\ r.session \in Sessions
                      /\ r.height + 1 \in DOMAIN chain[r.session]
  BY <1>4 DEF Refs
<1> HIDE DEF at, b, s
<1>7. at \notin Refs
  <2>1. Len(chain[s]) + 1 \notin DOMAIN chain[s]
    BY <1>1, <1>4
  <2> QED BY Zenon, <1>2, <1>6, <2>1
<1>8. \A r \in Refs : chain'[r.session][r.height + 1] = chain[r.session][r.height + 1]
  BY Zenon, <1>3, <1>6
<1>9. chain'[at.session][at.height + 1] = b
  BY Zenon, <1>2, <1>3
<1> QED BY Zenon, <1>5, <1>7, <1>8, <1>9 DEF at, b

(* A commit adds its own events to the trail, at a new place. *)
LEMMA CommitTrail ==
    ASSUME TypeInv, NEW c \in Handles, NEW p \in prepared[c], commit_finalised(c, p)
    PROVE  /\ Trail' = Trail \cup EventsOf(Place(p), p.block)
           /\ \A e \in Trail : e.at # Place(p)
           /\ \A e \in EventsOf(Place(p), p.block) : e.at = Place(p)
<1> DEFINE b == p.block
           at == Place(p)
           Says(blocks, ref) == EventsOf(ref, blocks[ref.session][ref.height + 1])
<1>1. /\ Refs' = Refs \cup {at} /\ at \notin Refs
      /\ \A r \in Refs : chain'[r.session][r.height + 1] = chain[r.session][r.height + 1]
      /\ chain'[at.session][at.height + 1] = b
  BY Zenon, CommitRefs
<1>2. \A r \in Refs : Says(chain', r) = Says(chain, r)
  BY Zenon, <1>1
<1>3. Says(chain', at) = EventsOf(at, b)
  BY Zenon, <1>1
<1>4. \A r, x : \A e \in EventsOf(r, x) : e.at = r
  BY DEF EventsOf, Event
<1>5. Trail' = Trail \cup EventsOf(at, b)
  <2>1. Trail = UNION {Says(chain, r) : r \in Refs}
    BY Zenon DEF Trail
  <2>2. Trail' = UNION {Says(chain', r) : r \in Refs'}
    BY Zenon DEF Trail, EventsOf, IssuedBy, Event
  <2> HIDE DEF Says, at, b
  <2>3. \A e : e \in Trail' <=> \E r \in Refs' : e \in Says(chain', r)
    BY Zenon, <2>2
  <2>4. \A e : e \in Trail <=> \E r \in Refs : e \in Says(chain, r)
    BY Zenon, <2>1
  <2> QED BY Zenon, <1>1, <1>2, <1>3, <2>3, <2>4
<1>6. \A e \in Trail : e.at \in Refs
  BY Zenon, <1>4 DEF Trail
<1> QED BY Zenon, <1>1, <1>4, <1>5, <1>6
=============================================================================
