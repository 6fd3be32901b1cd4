------------------------ MODULE SessionChainsProofs -------------------------
(***************************************************************************)
(* The inductive invariant of SessionChains and what follows from it: a    *)
(* command is committed once, nothing final is undone, and a handoff is a  *)
(* single-use claim. Then the blocks that back the records of handoffs.    *)
(***************************************************************************)
EXTENDS SessionChainsLemmas

-----------------------------------------------------------------------------
(* What a commit does to handoffs. *)

(* Each event of a committed block is one that may follow what its handoff *)
(* has seen, it is the block's only one on that handoff, and the record    *)
(* the block writes says so.                                               *)
LEMMA CommitClaims ==
    ASSUME TypeInv, CandidatesChecked, CompactSettled, IndexAgrees,
           NEW c \in Handles, NEW p \in prepared[c], commit_finalised(c, p)
    PROVE  LET writes == HandoffWrites(Place(p), p.block)
               events == EventsOf(Place(p), p.block)
           IN
           /\ DOMAIN writes \cap DOMAIN compact = {}
           /\ DOMAIN writes = {e.claim : e \in events}
           /\ \A e \in events :
                 /\ e.claim \in SessionHandoff
                 /\ e.kind \in Claims!Follows(Claims!Kinds(e.claim))
                 /\ KindsBefore(writes[e.claim]) = Claims!Kinds(e.claim) \cup {e.kind}
                 /\ \A f \in events : f.claim = e.claim => f = e
<1> DEFINE at == Place(p)
           b == p.block
           issued == IssuedBy(at, b)
           acted == {a.handoff : a \in b.actions}
           writes == HandoffWrites(at, b)
           events == EventsOf(at, b)
<1>1. /\ at \in BlockRef
      /\ b \in FinalisedBlock
      /\ b.consumed \subseteq SessionHandoff
      /\ b.actions \subseteq HandoffAction
      /\ CommitAllowed(p.session, chain[p.session], b)
  BY ZenonT(30), CommitFacts DEF FinalisedBlock
<1>2. /\ issued \cap Known = {}
      /\ \A h \in b.consumed : Readable(h) /\ resolve(h) = Issued
      /\ \A a \in b.actions : /\ Readable(a.handoff)
                              /\ resolve(a.handoff) = ExpectedTerminal(a)
                              /\ validate_for(a, at)
  BY Zenon, <1>1, CommitChecks
<1>3. \A a \in b.actions : a.handoff \notin b.consumed
  BY DEF CandidatesChecked
<1>4. /\ DOMAIN writes = issued \cup b.consumed \cup acted
      /\ \A h \in b.consumed : writes[h] = Consumed(at)
      /\ \A h \in acted \ b.consumed :
            writes[h] = apply_action(CHOOSE a \in b.actions : a.handoff = h, at)
      /\ \A h \in issued \ (b.consumed \cup acted) : writes[h] = Issued
  BY ZenonT(30) DEF HandoffWrites
<1>5. events = {Event(h, "Issue", at) : h \in issued}
                  \cup {Event(h, "Consume", at) : h \in b.consumed}
                  \cup {Event(a.handoff, a.kind, at) : a \in b.actions}
  BY Zenon DEF EventsOf
<1>6. issued \subseteq SessionHandoff /\ acted \subseteq SessionHandoff
  BY <1>1, IssuedType DEF HandoffAction
<1> HIDE DEF at, b, issued, writes, events
<1>7. \A a, d \in b.actions : a.handoff = d.handoff => a = d
  BY <1>1, <1>2, OneActionFits
<1>8. \A a \in b.actions : writes[a.handoff] = apply_action(a, at)
  <2> SUFFICES ASSUME NEW a \in b.actions PROVE writes[a.handoff] = apply_action(a, at)
    OBVIOUS
  <2>1. (CHOOSE d \in b.actions : d.handoff = a.handoff) = a
    BY Zenon, <1>7
  <2>2. a.handoff \in acted \ b.consumed
    BY Zenon, <1>3
  <2> QED BY Zenon, <1>4, <2>1, <2>2
<1>9. \A h : h \notin Known => Claims!Kinds(h) = {}
  BY DEF IndexAgrees, Claims!Kinds
<1>10. /\ issued \cap (b.consumed \cup acted) = {}
       /\ b.consumed \cup acted \subseteq Known
  BY Zenon, <1>2 DEF Readable
<1>11. DOMAIN writes \cap DOMAIN compact = {}
  <2>1. \A h \in b.consumed : ~terminal_is_final(resolve(h))
    <3>1. ~terminal_is_final(Issued)
      BY DEF terminal_is_final, Issued
    <3> QED BY Zenon, <1>2, <3>1
  <2>2. \A a \in b.actions : ~terminal_is_final(resolve(a.handoff))
    BY <1>1, <1>2, ExpectedIsOpen
  <2>3. \A h \in DOMAIN compact : terminal_is_final(resolve(h)) /\ h \in Known
    BY DEF CompactSettled, resolve, Known
  <2>4. \A h \in DOMAIN writes : h \notin DOMAIN compact
    BY Zenon, <1>2, <1>4, <2>1, <2>2, <2>3
  <2> QED BY Zenon, <2>4
<1>12. DOMAIN writes = {e.claim : e \in events}
  <2>1. \A h, kind : Event(h, kind, at).claim = h
    BY DEF Event
  <2>2. /\ \A h \in issued : Event(h, "Issue", at) \in events
        /\ \A h \in b.consumed : Event(h, "Consume", at) \in events
    BY <1>5
  <2>3. \A a \in b.actions : Event(a.handoff, a.kind, at) \in events
    BY <1>5
  <2>4. \A e \in events : e.claim \in issued \cup b.consumed \cup acted
    BY <1>5 DEF Event
  <2> QED BY <1>4, <2>1, <2>2, <2>3, <2>4
<1>13. ASSUME NEW e \in events
       PROVE  /\ e.claim \in SessionHandoff
              /\ e.kind \in Claims!Follows(Claims!Kinds(e.claim))
              /\ KindsBefore(writes[e.claim]) = Claims!Kinds(e.claim) \cup {e.kind}
              /\ \A f \in events : f.claim = e.claim => f = e
  <2>1. CASE e \in {Event(h, "Issue", at) : h \in issued}
    <3>1. PICK h \in issued : e = Event(h, "Issue", at)
      BY <2>1
    <3>2. e.claim = h /\ e.kind = "Issue"
      BY <3>1 DEF Event
    <3>3. Claims!Kinds(h) = {} /\ KindsBefore(writes[h]) = {"Issue"}
      BY Zenon, <1>2, <1>4, <1>9, <1>10, KindsOfTerminals
    <3>4. \A f \in events : f.claim = h => f = e
      BY <1>5, <1>10, <3>1 DEF Event
    <3> QED BY <1>6, <3>2, <3>3, <3>4 DEF Claims!Follows
  <2>2. CASE e \in {Event(h, "Consume", at) : h \in b.consumed}
    <3>1. PICK h \in b.consumed : e = Event(h, "Consume", at)
      BY <2>2
    <3>2. e.claim = h /\ e.kind = "Consume"
      BY <3>1 DEF Event
    <3>3. /\ Claims!Kinds(h) = {"Issue"}
          /\ KindsBefore(writes[h]) = {"Issue", "Consume"}
      BY Zenon, <1>2, <1>4, <1>10, KindsOfTerminals DEF IndexAgrees
    <3>4. \A f \in events : f.claim = h => f = e
      BY <1>3, <1>5, <1>10, <3>1 DEF Event
    <3> QED BY <1>1, <3>2, <3>3, <3>4 DEF Claims!Follows
  <2>3. CASE e \in {Event(a.handoff, a.kind, at) : a \in b.actions}
    <3>1. PICK a \in b.actions : e = Event(a.handoff, a.kind, at)
      BY <2>3
    <3>2. e.claim = a.handoff /\ e.kind = a.kind
      BY <3>1 DEF Event
    <3>3. Claims!Kinds(a.handoff) = KindsBefore(ExpectedTerminal(a))
      BY <1>2, <1>10 DEF IndexAgrees
    <3>4. writes[a.handoff] = apply_action(a, at)
      BY <1>8
    <3>5. \A f \in events : f.claim = a.handoff => f = e
      BY <1>3, <1>5, <1>7, <1>10, <3>1 DEF Event
    <3> QED BY <1>1, <1>6, <3>2, <3>3, <3>4, <3>5, ActionFollows
  <2> QED BY Zenon, <1>5, <2>1, <2>2, <2>3
<1> QED BY ZenonT(30), <1>11, <1>12, <1>13 DEF at, b, writes, events

LEMMA CommitHandoffs ==
    ASSUME TypeInv, CandidatesChecked, CompactSettled, IndexAgrees,
           NEW c \in Handles, NEW p \in prepared[c], commit_finalised(c, p)
    PROVE  CompactSettled' /\ IndexAgrees'
<1> DEFINE writes == HandoffWrites(Place(p), p.block)
           events == EventsOf(Place(p), p.block)
<1>1. compact' = compact /\ full' = Put(full, writes)
  BY Zenon, CommitFacts
<1>2. Trail' = Trail \cup events
  BY CommitTrail
<1>3. /\ DOMAIN writes \cap DOMAIN compact = {}
      /\ DOMAIN writes = {e.claim : e \in events}
      /\ \A e \in events :
            /\ KindsBefore(writes[e.claim]) = Claims!Kinds(e.claim) \cup {e.kind}
            /\ \A f \in events : f.claim = e.claim => f = e
  BY Zenon, CommitClaims
<1> HIDE DEF writes, events
<1>4. /\ DOMAIN full' = DOMAIN full \cup DOMAIN writes
      /\ \A h \in DOMAIN writes : full'[h] = writes[h]
      /\ \A h \in DOMAIN full \ DOMAIN writes : full'[h] = full[h]
  BY <1>1 DEF Put
<1>5. CompactSettled'
  BY Zenon, <1>1, <1>3, <1>4 DEF CompactSettled, terminal_is_final
<1>6. /\ Known' = Known \cup DOMAIN writes
      /\ \A h \in DOMAIN writes : resolve(h)' = writes[h]
      /\ \A h \in Known \ DOMAIN writes : resolve(h)' = resolve(h)
  BY <1>1, <1>4 DEF Known, resolve
<1>7. \A h : Claims!Kinds(h)' =
          Claims!Kinds(h) \cup {e.kind : e \in {f \in events : f.claim = h}}
  BY <1>2 DEF Claims!Kinds
<1>8. \A h \in Known' : Claims!Kinds(h)' = KindsBefore(resolve(h)')
  <2>1. ASSUME NEW h \in DOMAIN writes
        PROVE  Claims!Kinds(h)' = KindsBefore(resolve(h)')
    <3>1. PICK e \in events : e.claim = h
      BY <1>3
    <3>2. {x.kind : x \in {f \in events : f.claim = h}} = {e.kind}
      BY <1>3, <3>1
    <3> QED BY Zenon, <1>3, <1>6, <1>7, <3>1, <3>2
  <2>2. ASSUME NEW h \in Known \ DOMAIN writes
        PROVE  Claims!Kinds(h)' = KindsBefore(resolve(h)')
    <3>1. {x.kind : x \in {f \in events : f.claim = h}} = {}
      BY <1>3
    <3> QED BY Zenon, <1>6, <1>7, <3>1 DEF IndexAgrees
  <2> QED BY <1>6, <2>1, <2>2
<1>9. \A e \in Trail' : e.claim \in Known'
  BY Zenon, <1>2, <1>3, <1>6 DEF IndexAgrees
<1> QED BY ZenonT(30), <1>5, <1>8, <1>9 DEF IndexAgrees, KindsBefore

LEMMA HandoffsStep ==
    ASSUME TypeInv, CandidatesChecked, CompactSettled, IndexAgrees, [Next]_vars
    PROVE  CompactSettled' /\ IndexAgrees'
<1>1. ASSUME UNCHANGED chain PROVE Trail' = Trail
  BY <1>1 DEF Trail, Refs, EventsOf, IssuedBy, Event
<1>2. CASE UNCHANGED <<chain, receipts, full, compact>>
  BY Zenon, <1>1, <1>2 DEF CompactSettled, IndexAgrees, Known, resolve, Claims!Kinds,
                    KindsBefore, terminal_is_final
<1>3. ASSUME NEW ref \in BlockRef, Offload(ref), UNCHANGED <<chain, receipts>>
      PROVE  CompactSettled' /\ IndexAgrees'
  <2>1. /\ Known' = Known
        /\ \A h \in Known : resolve(h)' = resolve(h)
        /\ CompactSettled'
    BY <1>3, OffloadFacts DEF Offload
  <2>2. Trail' = Trail
    BY <1>1, <1>3
  <2>3. \A h : Claims!Kinds(h)' = Claims!Kinds(h)
    BY <2>2 DEF Claims!Kinds
  <2> QED BY Zenon, <2>1, <2>2, <2>3 DEF IndexAgrees, KindsBefore
<1> QED BY <1>2, <1>3, StoreCases, CommitHandoffs

-----------------------------------------------------------------------------
(* The inductive invariant and what follows from it. *)

LEMMA InitInv == ASSUME Init PROVE IInv
<1>1. TypeInv
  BY InitType
<1>2. CandidatesChecked
  BY DEF Init, CandidatesChecked
<1>3. WalAtHead /\ SeenBehindWal
  BY DEF Init, WalAtHead, SeenBehindWal
<1>4. CommandsIndexed /\ CommandsOnce
  BY DEF Init, CommandsIndexed, CommandsOnce
<1>5. CompactSettled
  BY DEF Init, CompactSettled
<1>6. IndexAgrees
  <2>1. Known = {}
    BY DEF Init, Known
  <2>2. Refs = {}
    BY DEF Init, Refs
  <2> QED BY Zenon, <2>1, <2>2 DEF IndexAgrees, Trail
<1> QED BY <1>1, <1>2, <1>3, <1>4, <1>5, <1>6 DEF IInv

LEMMA InvStep == ASSUME IInv, [Next]_vars PROVE IInv'
BY TypeStep, CandidatesStep, WalStep, CommandsStep, HandoffsStep DEF IInv

LEMMA Invariance == Spec => []IInv
<1>1. Init => IInv
  BY InitInv
<1>2. IInv /\ [Next]_vars => IInv'
  BY InvStep
<1> QED BY <1>1, <1>2, PTL DEF Spec

(* A command id is committed in at most one block of a session: the        *)
(* command index that commit_block keeps has every command of every block, *)
(* so the check before the write sees them all.                            *)
THEOREM EachCommandOnce == Spec => []CommandsOnce
<1>1. IInv => CommandsOnce
  BY DEF IInv
<1> QED BY <1>1, Invariance, PTL

(* What TypeOK asserts follows from the types of the proof. *)
LEMMA TypeInvImpliesTypeOK == ASSUME TypeInv, WalAtHead PROVE TypeOK
<1>1. \A s \in Sessions : \A n \in DOMAIN chain[s] : chain[s][n] \in FinalisedBlock
  <2> TAKE s \in Sessions
  <2>1. chain[s] \in Seq(FinalisedBlock)
    BY Zenon DEF TypeInv
  <2> HIDE DEF FinalisedBlock
  <2> QED BY <2>1
<1>2. \A h \in Known : resolve(h) \in HandoffTerminal
  BY DEF TypeInv, Known, resolve
<1>3. \A c \in Handles : /\ handle[c] # NoHandle => handle[c].session \in Sessions
                         /\ \A p \in prepared[c] : p.block \in FinalisedBlock
  BY DEF TypeInv, SessionChain, Candidate
<1> QED BY ZenonT(30), <1>1, <1>2, <1>3 DEF TypeInv, TypeOK, WalAtHead

(* The store, the handles and their candidates keep their types, and a     *)
(* write-ahead record is always about the next height.                     *)
THEOREM TypeCorrect == Spec => []TypeOK
<1>1. IInv => TypeOK
  BY TypeInvImpliesTypeOK DEF IInv
<1> QED BY <1>1, Invariance, PTL

-----------------------------------------------------------------------------
(* Nothing final is undone. *)

(* The step part of NothingUndone. *)
Kept ==
    \A s \in Sessions :
        /\ sealed_by_successor(chain[s]) # NoSession => chain'[s] = chain[s]
        /\ Exists(s) => genesis'[s] = genesis[s]
        /\ wal'[s] # wal[s] /\ wal'[s] # NoWal => seen[wal'[s].by] = wal[s]

LEMMA CommitKept ==
    ASSUME IInv, NEW c \in Handles, NEW p \in prepared[c], commit_finalised(c, p)
    PROVE  Kept
<1>1. /\ p.session \in Sessions
      /\ p.base = chain[p.session]
      /\ CommitAllowed(p.session, chain[p.session], p.block)
      /\ wal' = [wal EXCEPT ![p.session] = NoWal]
      /\ genesis' = IF p.block.successor = NoSession THEN genesis
                    ELSE [genesis EXCEPT ![p.block.successor.target] =
                             [predecessor |-> Place(p), time |-> p.block.time]]
  BY ZenonT(30), CommitFacts DEF IInv
<1>2. sealed_by_successor(chain[p.session]) = NoSession
  BY ZenonT(30), <1>1 DEF IInv, CandidatesChecked
<1>3. \A t \in Sessions \ {p.session} : chain'[t] = chain[t]
  BY ZenonT(30), CommitExtends DEF IInv
<1>4. \A s \in Sessions : Exists(s) => genesis'[s] = genesis[s]
  <2>1. p.block.successor # NoSession => ~Exists(p.block.successor.target)
    BY ZenonT(30), <1>1 DEF CommitAllowed
  <2> QED BY ZenonT(30), <1>1, <2>1 DEF IInv, TypeInv
<1>5. \A s \in Sessions : wal'[s] = wal[s] \/ wal'[s] = NoWal
  BY ZenonT(30), <1>1 DEF IInv, TypeInv
<1> QED BY <1>2, <1>3, <1>4, <1>5 DEF Kept

LEMMA StepKept == ASSUME IInv, [Next]_vars PROVE Kept
<1> USE DEF storeVars
<1>1. CASE UNCHANGED <<chain, genesis, wal>>
  BY ZenonT(30), <1>1 DEF Kept
<1>2. ASSUME NEW c \in Handles, NEW s \in Sessions, Create(c, s)
      PROVE  Kept
  BY ZenonT(30), <1>2 DEF Create, create_session, Kept, IInv, TypeInv, Exists
<1>3. ASSUME NEW c \in Handles, WriteWal(c)
      PROVE  Kept
  <2> DEFINE t == handle[c].session
  <2>1. seen[c] = wal[t]
    BY <1>3, WriteWalStep DEF IInv
  <2>2. NextWal(c).by = c
    BY <1>3, NextWalType DEF WriteWal, IInv
  <2>3. UNCHANGED <<chain, genesis>> /\ wal' = [wal EXCEPT ![t] = NextWal(c)]
    BY <1>3 DEF WriteWal, compare_and_set_consensus_wal
  <2>4. \A s \in Sessions : wal'[s] # wal[s] => s = t /\ wal'[s] = NextWal(c)
    BY ZenonT(30), <2>3 DEF IInv, TypeInv
  <2> QED BY <2>1, <2>2, <2>3, <2>4 DEF Kept
<1>4. ASSUME NEW c, NEW s, Recover(c, s)
      PROVE  UNCHANGED <<chain, genesis, wal>>
  BY ZenonT(30), <1>4 DEF Recover
<1>5. ASSUME NEW c, prepare_block(c) \/ load_consensus_wal(c)
      PROVE  UNCHANGED <<chain, genesis, wal>>
  BY Zenon, <1>5 DEF prepare_block, load_consensus_wal
<1>6. ASSUME NEW c, NEW p, CommitRefused(c, p)
      PROVE  UNCHANGED <<chain, genesis, wal>>
  BY <1>6 DEF CommitRefused
<1>7. ASSUME NEW x, Acknowledge(x) \/ AppendEvidence(x) \/ Offload(x)
      PROVE  UNCHANGED <<chain, genesis, wal>>
  BY <1>7 DEF Acknowledge, acknowledge_outbox, AppendEvidence, compare_and_set_evidence,
             Offload, offload_block
<1>8. UNCHANGED vars => UNCHANGED <<chain, genesis, wal>>
  BY DEF vars
<1> QED BY ZenonT(30), <1>1, <1>2, <1>3, <1>4, <1>5, <1>6, <1>7, <1>8, CommitKept, PlanTypes
        DEF Next, IInv, TypeInv

(* No step extends a session that declared its successor or rewrites a     *)
(* genesis, and a write-ahead record is only replaced by a process that    *)
(* had read exactly that record.                                           *)
THEOREM FinalStays == Spec => NothingUndone
<1>1. IInv /\ [Next]_vars => [Kept]_vars
  BY StepKept
<1> QED BY <1>1, Invariance, PTL DEF Spec, NothingUndone, Kept

-----------------------------------------------------------------------------
(* Handoffs are single-use claims. *)

LEMMA CommitImplements ==
    ASSUME IInv, NEW c \in Handles, NEW p \in prepared[c], commit_finalised(c, p)
    PROVE  Claims!Next \/ Trail' = Trail
<1> DEFINE events == EventsOf(Place(p), p.block)
<1>1. /\ Trail' = Trail \cup events
      /\ \A e \in Trail : e.at # Place(p)
      /\ \A e \in events : e.at = Place(p)
  BY CommitTrail DEF IInv
<1>2. \A e \in events :
          /\ e.claim \in SessionHandoff
          /\ e.kind \in Claims!Follows(Claims!Kinds(e.claim))
          /\ \A f \in events : f.claim = e.claim => f = e
  BY ZenonT(30), CommitClaims DEF IInv
<1>3. Place(p) \in BlockRef
  BY Zenon, CommitFacts DEF IInv
<1> HIDE DEF events
<1>4. Trail' \ Trail = events
  BY <1>1
<1>5. CASE events = {}
  BY <1>1, <1>5
<1>6. ASSUME NEW e \in events
      PROVE  Claims!Next
  <2>1. e.at \in BlockRef /\ e.at = Place(p)
    BY <1>1, <1>3
  <2>2. Claims!Commit(e.at, events)
    BY <1>1, <1>2, <2>1 DEF Claims!Commit
  <2> QED BY Zenon, <1>4, <2>1, <2>2 DEF Claims!Next
<1> QED BY <1>5, <1>6

LEMMA StepImplements == ASSUME IInv, [Next]_vars PROVE [Claims!Next]_Trail
<1>1. ASSUME UNCHANGED chain PROVE Trail' = Trail
  BY <1>1 DEF Trail, Refs, EventsOf, IssuedBy, Event
<1> QED BY <1>1, StoreCases, CommitImplements DEF IInv

(* The blocks of all sessions together treat every handoff as a claim that *)
(* is issued once and whose value leaves once, although each candidate was *)
(* prepared against an older state: prepare_block, commit_block and        *)
(* offload_block implement HandoffClaims.                                  *)
THEOREM ImplementsClaims == Spec => ClaimsSpec
<1>1. Init => Claims!Init
  BY DEF Init, Claims!Init, Trail, Refs
<1>2. IInv /\ [Next]_vars => [Claims!Next]_Trail
  BY StepImplements
<1> QED BY <1>1, <1>2, Invariance, PTL DEF Spec, ClaimsSpec, Claims!Spec

-----------------------------------------------------------------------------
(* What a recovery audits, as conditions on the state. *)

(* The session of a block, a handle or a candidate exists. *)
SessionsExist ==
    /\ \A s \in Sessions : chain[s] # <<>> => Exists(s)
    /\ \A c \in Handles :
          /\ handle[c] \in SessionChain => Exists(handle[c].session)
          /\ \A p \in prepared[c] : Exists(p.session)

(* A candidate keeps what prepare_block found of it that cannot change. *)
Sound(p) ==
    /\ p.block.time >= HeadTime(p.session, p.base)
    /\ p.block.successor # NoSession =>
          /\ p.block.successor.target # p.session
          /\ transition_validate(p.session, p.block.successor)
    /\ \A i \in p.block.issued : i.expires_at > p.block.time

CandidatesSound == \A c \in Handles : \A p \in prepared[c] : Sound(p)

LineagesAudited == \A s \in Sessions : Exists(s) => audit_lineage(s)

RecordsAudited ==
    \A s \in Sessions : \A n \in 0..(Len(chain[s]) - 1) : audit_record(s, n)

(* What the blocks that exist say about a handoff. *)
BlockAt(ref) == chain[ref.session][ref.height + 1]

IssuedIn(h) == IssuedAt(h) \in Refs /\ h.intent \in BlockAt(IssuedAt(h)).issued

ConsumedIn(ref, h) == ref \in Refs /\ h \in BlockAt(ref).consumed

ActedIn(ref, a) ==
    ref \in Refs /\ a \in BlockAt(ref).actions /\ validate_handoff_action(a, ref)

Act(kind, h, at) == [kind |-> kind, handoff |-> h, evidence |-> at]

(* The blocks that a terminal state names say so. *)
Backed(h, t) ==
    /\ IssuedIn(h)
    /\ validate_lifecycle(h, t)
    /\ t.state = "Consumed" => ConsumedIn(t.at, h)
    /\ t.state = "Cancelled" => ActedIn(t.at, Act("Cancel", h, NoRef))
    /\ t.state = "Reclaimed" =>
          /\ ActedIn(t.cancelled_at, Act("Cancel", h, NoRef))
          /\ ActedIn(t.at, Act("Reclaim", h, t.cancelled_at))
    /\ t.state = "Retired" =>
          /\ ConsumedIn(t.consumed_at, h)
          /\ ActedIn(t.at, Act("Retire", h, t.consumed_at))

HandoffsAudited == \A h \in Known : Backed(h, resolve(h))

(* The record t agrees with the action a of the block ref. *)
AgreesOn(t, a, ref) ==
    \/ t = apply_action(a, ref)
    \/ a.kind = "Cancel" /\ t.state = "Reclaimed" /\ t.cancelled_at = ref

(* Block ref may consume h. *)
MayConsume(ref, b, h) ==
    /\ ref.session \in h.intent.targets
    /\ b.time <= h.intent.expires_at
    /\ validate_handoff_trust(ref.session, h.source)

(* Every effect of every block is in the handoff index. *)
BlockAudited(ref, b) ==
    /\ IssuedBy(ref, b) \subseteq Known
    /\ \A a \in b.actions :
          /\ a.handoff \in Known
          /\ validate_handoff_action(a, ref)
          /\ AgreesOn(resolve(a.handoff), a, ref)
    /\ \A h \in b.consumed :
          /\ h \in Known
          /\ consumption(resolve(h)) = ref
          /\ MayConsume(ref, b, h)

EffectsAudited == \A ref \in Refs : BlockAudited(ref, BlockAt(ref))

RecoveryInv ==
    /\ SessionsExist
    /\ CandidatesSound
    /\ LineagesAudited
    /\ RecordsAudited
    /\ HandoffsAudited
    /\ EffectsAudited

-----------------------------------------------------------------------------
(* The lineage of a session. *)

(* A set of numbers has a least one, by which inductions are made. *)
LeastNumbers ==
    \A S \in SUBSET Nat : S # {} => \E n \in S : \A m \in S : ~ (m < n)

(* The recursion by which the lineage is defined holds. *)
LineageUnfolds ==
    \A s \in Sessions :
        /\ continuation_lineage(s)[0] = s
        /\ \A n \in 1..MAX_HANDOFF_OWNER_DEPTH : \A t :
              t = continuation_lineage(s)[n - 1] =>
                  continuation_lineage(s)[n] =
                      IF t = NoSession THEN NoSession ELSE ContinuedFrom(t)

-----------------------------------------------------------------------------
(* What a step keeps of the histories. *)

(* Blocks stay, sealed histories and written genesis records do not move,  *)
(* and a new block has a new place.                                        *)
Grown ==
    /\ Refs \subseteq Refs'
    /\ \A ref \in Refs : BlockAt(ref)' = BlockAt(ref)
    /\ \A s \in Sessions :
          /\ sealed_by_successor(chain[s]) # NoSession => chain'[s] = chain[s]
          /\ Exists(s) => Exists(s)' /\ genesis'[s] = genesis[s]

LEMMA CommitBlocks ==
    ASSUME TypeInv, NEW c \in Handles, NEW p \in prepared[c], commit_finalised(c, p),
           NEW at, at = Place(p)
    PROVE  /\ Refs' = Refs \cup {at}
           /\ at \notin Refs
           /\ \A ref \in Refs : BlockAt(ref)' = BlockAt(ref)
           /\ BlockAt(at)' = p.block
BY Zenon, CommitRefs DEF BlockAt

LEMMA StepGrows == ASSUME IInv, [Next]_vars PROVE Grown
<1>1. \A s \in Sessions :
          /\ sealed_by_successor(chain[s]) # NoSession => chain'[s] = chain[s]
          /\ Exists(s) => Exists(s)' /\ genesis'[s] = genesis[s]
  BY Zenon, StepKept DEF Kept, Exists
<1>2. Refs \subseteq Refs' /\ \A ref \in Refs : BlockAt(ref)' = BlockAt(ref)
  <2>1. CASE UNCHANGED chain
    <3>1. Refs' = Refs
      BY <2>1 DEF Refs
    <3> QED BY Zenon, <2>1, <3>1 DEF BlockAt
  <2>2. ASSUME NEW c \in Handles, NEW p \in prepared[c], commit_finalised(c, p)
        PROVE  Refs \subseteq Refs' /\ \A ref \in Refs : BlockAt(ref)' = BlockAt(ref)
    <3>1. PICK at : at = Place(p)
      OBVIOUS
    <3>2. Refs' = Refs \cup {at} /\ \A ref \in Refs : BlockAt(ref)' = BlockAt(ref)
      BY Zenon, <2>2, <3>1, CommitBlocks DEF IInv
    <3> QED BY Zenon, <3>2
  <2> QED BY <2>1, <2>2, StoreCases DEF IInv
<1> QED BY Zenon, <1>1, <1>2 DEF Grown

(* The predecessor a session continues is sealed, so it stays the same. *)
LEMMA ContinuationStays ==
    ASSUME TypeInv, SessionsExist, LineagesAudited, Grown,
           NEW s \in Sessions, Exists(s)
    PROVE  /\ ContinuedFrom(s)' = ContinuedFrom(s)
           /\ ContinuedFrom(s) # NoSession =>
                 ContinuedFrom(s) \in Sessions /\ Exists(ContinuedFrom(s))
<1> DEFINE p == genesis[s].predecessor
<1>1. genesis'[s] = genesis[s]
  BY DEF Grown
<1>2. p \in BlockRef \cup {NoRef}
  BY DEF TypeInv, Exists, SessionGenesis
<1>3. CASE p = NoRef
  BY Zenon, <1>1, <1>3 DEF ContinuedFrom
<1>4. CASE p # NoRef
  <2>1. p.session \in Sessions /\ p.height \in Nat
    BY <1>2, <1>4 DEF BlockRef
  <2>2. /\ Len(chain[p.session]) = p.height + 1
        /\ sealed_by_successor(chain[p.session]) # NoSession
    BY <1>4 DEF LineagesAudited, audit_lineage
  <2>3. chain'[p.session] = chain[p.session]
    BY <2>1, <2>2 DEF Grown
  <2>4. chain[p.session] # <<>>
    BY <2>1, <2>2
  <2>5. Exists(p.session)
    BY <2>1, <2>4 DEF SessionsExist
  <2>6. ContinuedFrom(s)' = ContinuedFrom(s)
    BY Zenon, <1>1, <2>3 DEF ContinuedFrom, sealed_by_successor, Last
  <2>7. ContinuedFrom(s) # NoSession => ContinuedFrom(s) = p.session
    BY Zenon DEF ContinuedFrom
  <2> QED BY <2>1, <2>5, <2>6, <2>7
<1> QED BY <1>3, <1>4

(* So does the whole lineage of a session. *)
LEMMA LineageStays ==
    ASSUME TypeInv, SessionsExist, LineagesAudited, Grown,
           LeastNumbers, LineageUnfolds, LineageUnfolds', NEW s \in Sessions, Exists(s)
    PROVE  \A n \in 0..MAX_HANDOFF_OWNER_DEPTH :
              LET x == continuation_lineage(s)[n] IN
              /\ continuation_lineage(s)'[n] = x
              /\ x # NoSession => x \in Sessions /\ Exists(x)
<1> DEFINE line == continuation_lineage(s)
           Good(n) == /\ line'[n] = line[n]
                      /\ line[n] # NoSession => line[n] \in Sessions /\ Exists(line[n])
           Bad == {n \in 0..MAX_HANDOFF_OWNER_DEPTH : ~Good(n)}
<1>1. line[0] = s /\ line'[0] = s
  BY Zenon DEF LineageUnfolds
<1>2. ASSUME NEW n \in 1..MAX_HANDOFF_OWNER_DEPTH, NEW t
      PROVE  /\ t = line[n - 1] =>
                    line[n] = IF t = NoSession THEN NoSession ELSE ContinuedFrom(t)
             /\ t = line'[n - 1] =>
                    line'[n] = IF t = NoSession THEN NoSession ELSE ContinuedFrom(t)'
  <2>1. t = line[n - 1] =>
            line[n] = IF t = NoSession THEN NoSession ELSE ContinuedFrom(t)
    BY DEF LineageUnfolds
  <2>2. t = line'[n - 1] =>
            line'[n] = IF t = NoSession THEN NoSession ELSE ContinuedFrom(t)'
    BY DEF LineageUnfolds
  <2> QED BY <2>1, <2>2
<1> HIDE DEF line
<1> SUFFICES ASSUME Bad # {} PROVE FALSE
  BY DEF line
<1>3. Bad \subseteq Nat
  BY BoundsAssumption
<1>4. PICK n \in Bad : \A m \in Bad : ~ (m < n)
  <2> HIDE DEF Bad
  <2> QED BY Zenon, <1>3 DEF LeastNumbers
<1>5. n # 0
  BY <1>1
<1>6. n - 1 \in 0..MAX_HANDOFF_OWNER_DEPTH /\ n \in 1..MAX_HANDOFF_OWNER_DEPTH /\ n - 1 < n
  BY <1>5, BoundsAssumption
<1>7. Good(n - 1)
  BY ZenonT(30), <1>4, <1>6
<1>8. Good(n)
  <2>1. PICK t : t = line[n - 1]
    OBVIOUS
  <2>2. t = line'[n - 1]
    BY <1>7, <2>1
  <2>3. CASE t = NoSession
    BY Zenon, <1>2, <1>6, <2>1, <2>2, <2>3
  <2>4. CASE t # NoSession
    <3>1. line[n] = ContinuedFrom(t) /\ line'[n] = ContinuedFrom(t)'
      BY Zenon, <1>2, <1>6, <2>1, <2>2, <2>4
    <3>2. t \in Sessions /\ Exists(t)
      BY <1>7, <2>1, <2>4
    <3> QED BY Zenon, <3>1, <3>2, ContinuationStays
  <2> QED BY <2>3, <2>4
<1> QED BY <1>8

(* An action that a session was entitled to stays a valid one. *)
LEMMA ActionStaysValid ==
    ASSUME TypeInv, SessionsExist, LineagesAudited, Grown,
           LeastNumbers, LineageUnfolds, LineageUnfolds',
           NEW a \in HandoffAction, NEW at \in BlockRef, Exists(at.session),
           validate_handoff_action(a, at)
    PROVE  validate_handoff_action(a, at)'
<1> DEFINE s == at.session
           line == continuation_lineage(s)
           depth == MAX_HANDOFF_OWNER_DEPTH
<1>1. s \in Sessions /\ a.handoff.source \in Sessions /\ depth \in Nat
  BY BoundsAssumption DEF BlockRef, HandoffAction, SessionHandoff
<1>2. \A n \in 0..depth :
          /\ line'[n] = line[n]
          /\ line[n] # NoSession => line[n] \in Sessions /\ Exists(line[n])
  BY Zenon, <1>1, LineageStays
<1>3. \A n \in 1..depth : line[n - 1] = NoSession => line[n] = NoSession
  BY <1>1 DEF LineageUnfolds
<1>4. ASSUME NEW n \in 1..depth, line[n] \in Sessions
      PROVE  SealHeight(s, n)' = SealHeight(s, n)
  <2>1. line[n - 1] # NoSession /\ n - 1 \in 0..depth
    BY <1>1, <1>3, <1>4, SentinelsAssumption
  <2>2. /\ line'[n - 1] = line[n - 1]
        /\ line[n - 1] \in Sessions /\ Exists(line[n - 1])
    BY <1>2, <2>1
  <2>3. genesis'[line[n - 1]] = genesis[line[n - 1]]
    BY <2>2 DEF Grown
  <2> QED BY Zenon, <2>2, <2>3 DEF SealHeight
<1>5. validate_for(a, at)
  BY Zenon DEF validate_handoff_action
<1>6. PICK n \in handoff_owner_depths(s, a.handoff) :
          a.kind = "Reclaim" =>
              \/ a.evidence.session = s
              \/ \E k \in 1..n : /\ line[k] = a.evidence.session
                                 /\ a.evidence.height <= SealHeight(s, k)
  BY Zenon DEF validate_handoff_action
<1>7. /\ n \in 0..depth
      /\ line[n] = a.handoff.source
      /\ n > 0 => SealHeight(s, n) >= a.handoff.height
  BY Zenon, <1>6 DEF handoff_owner_depths
<1> HIDE DEF line, depth
<1>8. n > 0 => SealHeight(s, n)' = SealHeight(s, n)
  <2>1. n > 0 => n \in 1..depth
    BY <1>1, <1>7
  <2> QED BY Zenon, <1>1, <1>4, <1>7, <2>1
<1>9. n \in handoff_owner_depths(s, a.handoff)'
  <2>1. line'[n] = a.handoff.source
    BY <1>2, <1>7
  <2>2. n > 0 => SealHeight(s, n)' >= a.handoff.height
    BY <1>7, <1>8
  <2> QED BY Zenon, <1>7, <2>1, <2>2 DEF handoff_owner_depths, line, depth
<1>10. a.kind = "Reclaim" =>
           \/ a.evidence.session = s
           \/ \E k \in 1..n : /\ line'[k] = a.evidence.session
                              /\ a.evidence.height <= SealHeight(s, k)'
  <2> SUFFICES ASSUME a.kind = "Reclaim", a.evidence.session # s
               PROVE  \E k \in 1..n : /\ line'[k] = a.evidence.session
                                      /\ a.evidence.height <= SealHeight(s, k)'
    OBVIOUS
  <2>1. PICK k \in 1..n : /\ line[k] = a.evidence.session
                          /\ a.evidence.height <= SealHeight(s, k)
    BY <1>6
  <2>2. a.evidence.session \in Sessions
    BY <1>5 DEF validate_for, HandoffAction, BlockRef
  <2>3. k \in 0..depth /\ k \in 1..depth
    BY <1>1, <1>7, <2>1
  <2>4. line'[k] = line[k] /\ SealHeight(s, k)' = SealHeight(s, k)
    BY <1>2, <1>4, <2>1, <2>2, <2>3
  <2> QED BY <2>1, <2>4
<1> QED BY Zenon, <1>5, <1>9, <1>10 DEF validate_handoff_action, line

(* What the blocks say about handoffs is never taken back. *)
LEMMA SayingsStay ==
    ASSUME TypeInv, SessionsExist, LineagesAudited, Grown,
           LeastNumbers, LineageUnfolds, LineageUnfolds'
    PROVE  /\ \A h \in SessionHandoff : IssuedIn(h) => IssuedIn(h)'
           /\ \A ref, h : ConsumedIn(ref, h) => ConsumedIn(ref, h)'
           /\ \A a \in HandoffAction : \A ref : ActedIn(ref, a) => ActedIn(ref, a)'
<1>1. /\ Refs \subseteq Refs'
      /\ \A ref \in Refs : BlockAt(ref)' = BlockAt(ref)
  BY Zenon DEF Grown
<1>2. \A h \in SessionHandoff : IssuedIn(h) => IssuedIn(h)'
  <2> TAKE h \in SessionHandoff
  <2> HAVE IssuedIn(h)
  <2>1. PICK ref : ref = IssuedAt(h)
    OBVIOUS
  <2>2. ref \in Refs /\ h.intent \in BlockAt(ref).issued
    BY Zenon, <2>1 DEF IssuedIn
  <2>3. ref \in Refs' /\ h.intent \in BlockAt(ref)'.issued
    BY Zenon, <1>1, <2>2
  <2> QED BY Zenon, <2>1, <2>3 DEF IssuedIn, IssuedAt, BlockAt
<1>3. \A ref, h : ConsumedIn(ref, h) => ConsumedIn(ref, h)'
  BY Zenon, <1>1 DEF ConsumedIn
<1>4. \A a \in HandoffAction : \A ref : ActedIn(ref, a) => ActedIn(ref, a)'
  <2> TAKE a \in HandoffAction
  <2> TAKE ref
  <2> HAVE ActedIn(ref, a)
  <2>1. ref \in Refs /\ a \in BlockAt(ref).actions /\ validate_handoff_action(a, ref)
    BY Zenon DEF ActedIn
  <2>2. ref \in BlockRef /\ Exists(ref.session)
    <3>1. ref \in BlockRef /\ ref.height + 1 \in DOMAIN chain[ref.session]
      BY <2>1 DEF Refs, BlockRef, TypeInv
    <3>2. ref.session \in Sessions /\ chain[ref.session] # <<>>
      BY <3>1 DEF BlockRef
    <3> QED BY <3>1, <3>2 DEF SessionsExist
  <2>3. validate_handoff_action(a, ref)'
    BY Zenon, <2>1, <2>2, ActionStaysValid
  <2> QED BY Zenon, <1>1, <2>1, <2>3 DEF ActedIn
<1> QED BY <1>2, <1>3, <1>4

(* So a record that was backed by blocks stays so. *)
LEMMA BackingStays ==
    ASSUME TypeInv, SessionsExist, LineagesAudited, Grown,
           LeastNumbers, LineageUnfolds, LineageUnfolds',
           NEW h \in SessionHandoff, NEW t \in HandoffTerminal, Backed(h, t)
    PROVE  Backed(h, t)'
<1>1. /\ IssuedIn(h) => IssuedIn(h)'
      /\ \A ref : ConsumedIn(ref, h) => ConsumedIn(ref, h)'
      /\ \A a \in HandoffAction : \A ref : ActedIn(ref, a) => ActedIn(ref, a)'
  BY Zenon, SayingsStay
<1>2. Act("Cancel", h, NoRef) \in HandoffAction
  BY DEF Act, HandoffAction
<1>3. /\ t.state = "Reclaimed" => Act("Reclaim", h, t.cancelled_at) \in HandoffAction
      /\ t.state = "Retired" => Act("Retire", h, t.consumed_at) \in HandoffAction
  BY DEF Act, HandoffAction, HandoffTerminal
<1> QED BY Zenon, <1>1, <1>2, <1>3 DEF Backed, validate_lifecycle, Act

-----------------------------------------------------------------------------
(* The handoff records and the effects of blocks. *)

(* What a commit does to the records of handoffs. *)
LEMMA CommitRecords ==
    ASSUME TypeInv, CandidatesChecked, CompactSettled, NEW c \in Handles,
           NEW p \in prepared[c], commit_finalised(c, p), NEW at, at = Place(p)
    PROVE  /\ at \in BlockRef /\ p.block \in FinalisedBlock
           /\ at.session = p.session
           /\ Known' = Known \cup IssuedBy(at, p.block)
           /\ \A h \in IssuedBy(at, p.block) : h \notin Known /\ resolve(h)' = Issued
           /\ \A h \in p.block.consumed :
                 /\ h \in Known /\ resolve(h) = Issued /\ resolve(h)' = Consumed(at)
                 /\ MayConsume(at, p.block, h)
           /\ \A a \in p.block.actions :
                 /\ a.handoff \in Known
                 /\ resolve(a.handoff) = ExpectedTerminal(a)
                 /\ resolve(a.handoff)' = apply_action(a, at)
                 /\ validate_handoff_action(a, at)
           /\ \A h \in Known : \/ resolve(h)' = resolve(h)
                               \/ h \in p.block.consumed
                               \/ \E a \in p.block.actions : a.handoff = h
<1> DEFINE b == p.block
           issued == IssuedBy(at, b)
           acted == {a.handoff : a \in b.actions}
           writes == HandoffWrites(at, b)
<1>1. /\ at \in BlockRef
      /\ b \in FinalisedBlock
      /\ CommitAllowed(p.session, chain[p.session], b)
      /\ compact' = compact /\ full' = Put(full, writes)
  BY ZenonT(30), CommitFacts
<1>2. at.session = p.session /\ at = [session |-> p.session, height |-> Len(chain[p.session])]
  BY DEF Place
<1>3. b.consumed \subseteq SessionHandoff /\ b.actions \subseteq HandoffAction
  BY <1>1 DEF FinalisedBlock
<1>4. /\ issued \cap Known = {}
      /\ \A h \in b.consumed : Readable(h) /\ resolve(h) = Issued /\ MayConsume(at, b, h)
      /\ \A a \in b.actions : /\ Readable(a.handoff)
                              /\ resolve(a.handoff) = ExpectedTerminal(a)
                              /\ validate_handoff_action(a, at)
  BY Zenon, <1>1, <1>2 DEF CommitAllowed, Consumable, is_available, Actionable, MayConsume
<1>5. \A a \in b.actions : a.handoff \notin b.consumed /\ validate_for(a, at)
  BY Zenon, <1>4 DEF CandidatesChecked, validate_handoff_action
<1>6. /\ DOMAIN writes = issued \cup b.consumed \cup acted
      /\ \A h \in b.consumed : writes[h] = Consumed(at)
      /\ \A h \in acted \ b.consumed :
            writes[h] = apply_action(CHOOSE a \in b.actions : a.handoff = h, at)
      /\ \A h \in issued \ (b.consumed \cup acted) : writes[h] = Issued
  BY ZenonT(30) DEF HandoffWrites
<1> HIDE DEF b, issued, writes
<1>7. \A a, d \in b.actions : a.handoff = d.handoff => a = d
  BY <1>3, <1>4, <1>5, OneActionFits
<1>8. \A a \in b.actions : writes[a.handoff] = apply_action(a, at)
  <2> SUFFICES ASSUME NEW a \in b.actions PROVE writes[a.handoff] = apply_action(a, at)
    OBVIOUS
  <2>1. (CHOOSE d \in b.actions : d.handoff = a.handoff) = a
    BY Zenon, <1>7
  <2>2. a.handoff \in acted \ b.consumed
    BY Zenon, <1>5
  <2> QED BY Zenon, <1>6, <2>1, <2>2
<1>9. b.consumed \cup acted \subseteq Known
  BY Zenon, <1>4 DEF Readable
<1>10. DOMAIN writes \cap DOMAIN compact = {}
  <2>1. \A h \in b.consumed : ~terminal_is_final(resolve(h))
    <3>1. ~terminal_is_final(Issued)
      BY DEF terminal_is_final, Issued
    <3> QED BY Zenon, <1>4, <3>1
  <2>2. \A a \in b.actions : ~terminal_is_final(resolve(a.handoff))
    BY <1>3, <1>4, ExpectedIsOpen
  <2>3. \A h \in DOMAIN compact : terminal_is_final(resolve(h)) /\ h \in Known
    BY DEF CompactSettled, resolve, Known
  <2>4. \A h \in DOMAIN writes : h \notin DOMAIN compact
    BY Zenon, <1>4, <1>6, <2>1, <2>2, <2>3
  <2> QED BY Zenon, <2>4
<1>11. /\ DOMAIN full' = DOMAIN full \cup DOMAIN writes
       /\ \A h \in DOMAIN writes : full'[h] = writes[h]
       /\ \A h \in DOMAIN full \ DOMAIN writes : full'[h] = full[h]
  BY <1>1 DEF Put
<1>12. /\ Known' = Known \cup DOMAIN writes
       /\ \A h \in DOMAIN writes : resolve(h)' = writes[h]
       /\ \A h \in Known \ DOMAIN writes : resolve(h)' = resolve(h)
  BY <1>1, <1>11 DEF Known, resolve
<1>13. \A h \in issued : h \notin Known /\ resolve(h)' = Issued
  BY <1>4, <1>6, <1>9, <1>12
<1>14. \A h \in b.consumed : h \in Known /\ resolve(h)' = Consumed(at)
  BY <1>6, <1>9, <1>12
<1>15. \A a \in b.actions : a.handoff \in Known /\ resolve(a.handoff)' = apply_action(a, at)
  <2> SUFFICES ASSUME NEW a \in b.actions
               PROVE  a.handoff \in Known /\ resolve(a.handoff)' = apply_action(a, at)
    OBVIOUS
  <2>1. a.handoff \in acted
    OBVIOUS
  <2>2. a.handoff \in Known /\ a.handoff \in DOMAIN writes
    BY <1>6, <1>9, <2>1
  <2>3. resolve(a.handoff)' = writes[a.handoff]
    BY <1>12, <2>2
  <2> QED BY <1>8, <2>2, <2>3
<1>16. Known' = Known \cup issued
  BY <1>6, <1>9, <1>12
<1>17. \A h \in Known : \/ resolve(h)' = resolve(h)
                        \/ h \in b.consumed
                        \/ \E a \in b.actions : a.handoff = h
  <2> SUFFICES ASSUME NEW h \in Known, h \notin b.consumed, h \notin acted
               PROVE  resolve(h)' = resolve(h)
    BY Zenon
  <2>1. h \notin DOMAIN writes
    BY <1>4, <1>6
  <2> QED BY <1>12, <2>1
<1> QED BY ZenonT(30), <1>1, <1>2, <1>4, <1>13, <1>14, <1>15, <1>16, <1>17 DEF b, issued

(* The record that an action leads to is backed by the block it is in. *)
LEMMA ActionBacked ==
    ASSUME NEW a \in HandoffAction, NEW at \in BlockRef, ActedIn(at, a),
           Backed(a.handoff, ExpectedTerminal(a))
    PROVE  Backed(a.handoff, apply_action(a, at))
<1> DEFINE h == a.handoff
<1>1. /\ a = [kind |-> a.kind, handoff |-> h, evidence |-> a.evidence]
      /\ a.kind \in {"Cancel", "Reclaim", "Retire"}
  BY DEF HandoffAction
<1>2. validate_for(a, at) /\ IssuedIn(h)
  BY Zenon DEF ActedIn, validate_handoff_action, Backed
<1>3. CASE a.kind = "Cancel"
  <2>1. a.evidence = NoRef /\ Earlier(IssuedAt(h), at)
    BY <1>2, <1>3 DEF validate_for
  <2>2. a = Act("Cancel", h, NoRef) /\ apply_action(a, at) = Cancelled(at)
    BY <1>1, <1>3, <2>1 DEF Act, apply_action
  <2>3. Backed(h, Cancelled(at))
    BY <1>2, <2>1, <2>2 DEF Backed, validate_lifecycle, Cancelled
  <2> QED BY <2>2, <2>3
<1>4. CASE a.kind = "Reclaim"
  <2> DEFINE e == a.evidence
  <2>1. Earlier(e, at) /\ Earlier(IssuedAt(h), e)
    BY <1>2, <1>4 DEF validate_for
  <2>2. /\ a = Act("Reclaim", h, e) /\ apply_action(a, at) = Reclaimed(e, at)
        /\ ExpectedTerminal(a) = Cancelled(e)
    BY <1>1, <1>4 DEF Act, apply_action, ExpectedTerminal
  <2>3. ActedIn(e, Act("Cancel", h, NoRef))
    <3>1. Cancelled(e).state = "Cancelled" /\ Cancelled(e).at = e
      BY DEF Cancelled
    <3> QED BY Zenon, <2>2, <3>1 DEF Backed
  <2> HIDE DEF e
  <2>4. Backed(h, Reclaimed(e, at))
    BY <1>2, <2>1, <2>2, <2>3 DEF Backed, validate_lifecycle, Reclaimed
  <2> QED BY <2>2, <2>4
<1>5. CASE a.kind = "Retire"
  <2> DEFINE e == a.evidence
  <2>1. Earlier(e, at) /\ Earlier(IssuedAt(h), at)
    BY <1>2, <1>5 DEF validate_for
  <2>2. /\ a = Act("Retire", h, e) /\ apply_action(a, at) = Retired(e, at)
        /\ ExpectedTerminal(a) = Consumed(e)
    BY <1>1, <1>5 DEF Act, apply_action, ExpectedTerminal
  <2>3. ConsumedIn(e, h)
    <3>1. Consumed(e).state = "Consumed" /\ Consumed(e).at = e
      BY DEF Consumed
    <3> QED BY Zenon, <2>2, <3>1 DEF Backed
  <2> HIDE DEF e
  <2>4. Backed(h, Retired(e, at))
    BY <1>2, <2>1, <2>2, <2>3 DEF Backed, validate_lifecycle, Retired
  <2> QED BY <2>2, <2>4
<1> QED BY <1>1, <1>3, <1>4, <1>5

(* Acting on a backed record leaves a backed one, in every state. *)
ActionsBack ==
    \A a \in HandoffAction : \A at \in BlockRef :
        ActedIn(at, a) /\ Backed(a.handoff, ExpectedTerminal(a)) =>
            Backed(a.handoff, apply_action(a, at))

LEMMA ActionBacking == ActionsBack
BY Zenon, ActionBacked DEF ActionsBack

(* A commit leaves records that the blocks say, the new one included. *)
LEMMA CommitBacks ==
    ASSUME TypeInv, TypeInv', CandidatesChecked, CompactSettled,
           SessionsExist, LineagesAudited, HandoffsAudited, Grown,
           LeastNumbers, LineageUnfolds, LineageUnfolds', ActionsBack',
           NEW c \in Handles, NEW p \in prepared[c], commit_finalised(c, p),
           NEW at, at = Place(p)
    PROVE  HandoffsAudited'
<1> DEFINE b == p.block
<1>1. /\ at \in BlockRef /\ b \in FinalisedBlock /\ at.session = p.session
      /\ Known' = Known \cup IssuedBy(at, b)
      /\ \A h \in IssuedBy(at, b) : h \notin Known /\ resolve(h)' = Issued
      /\ \A h \in b.consumed :
            /\ h \in Known /\ resolve(h) = Issued /\ resolve(h)' = Consumed(at)
      /\ \A a \in b.actions :
            /\ a.handoff \in Known
            /\ resolve(a.handoff) = ExpectedTerminal(a)
            /\ resolve(a.handoff)' = apply_action(a, at)
            /\ validate_handoff_action(a, at)
      /\ \A h \in Known : \/ resolve(h)' = resolve(h)
                          \/ h \in b.consumed
                          \/ \E a \in b.actions : a.handoff = h
  BY ZenonT(30), CommitRecords
<1>2. /\ Refs' = Refs \cup {at} /\ at \in Refs'
      /\ BlockAt(at)' = b
  <2>1. Refs' = Refs \cup {at} /\ BlockAt(at)' = b
    BY ZenonT(30), CommitBlocks
  <2> QED BY Zenon, <2>1
<1>3. Known \subseteq SessionHandoff /\ \A h \in Known : resolve(h) \in HandoffTerminal
  BY DEF TypeInv, Known, resolve
<1>4. \A h \in Known : Backed(h, resolve(h))
  BY Zenon DEF HandoffsAudited
<1> HIDE DEF b
<1>6. ASSUME NEW h \in Known, NEW t, t = resolve(h) PROVE Backed(h, t)'
  <2>1. h \in SessionHandoff /\ t \in HandoffTerminal /\ Backed(h, t)
    BY Zenon, <1>3, <1>4, <1>6
  <2> QED BY ZenonT(30), <2>1, BackingStays
<1>7. ASSUME NEW h \in IssuedBy(at, b) PROVE Backed(h, Issued)'
  <2>1. IssuedAt(h) = at /\ h.intent \in b.issued
    <3>1. PICK i \in b.issued : h = [source |-> at.session, height |-> at.height, intent |-> i]
      BY Zenon DEF IssuedBy
    <3>2. at = [session |-> at.session, height |-> at.height]
      BY <1>1 DEF BlockRef
    <3> QED BY Zenon, <3>1, <3>2 DEF IssuedAt
  <2>2. IssuedIn(h)'
    BY Zenon, <1>2, <2>1 DEF IssuedIn, IssuedAt, BlockAt
  <2> QED BY <2>2 DEF Backed, validate_lifecycle, Issued
<1>8. ASSUME NEW h \in b.consumed PROVE Backed(h, Consumed(at))'
  <2>1. Backed(h, Issued)'
    BY Zenon, <1>1, <1>6
  <2>2. IssuedIn(h)' /\ ConsumedIn(at, h)'
    BY Zenon, <1>2, <1>8, <2>1 DEF Backed, ConsumedIn
  <2> QED BY <2>2 DEF Backed, validate_lifecycle, Consumed
<1>9. ASSUME NEW a \in b.actions PROVE Backed(a.handoff, apply_action(a, at))'
  <2>1. a \in HandoffAction
    BY Zenon, <1>1 DEF FinalisedBlock
  <2>2. Exists(at.session)
    <3>1. p.session \in Sessions /\ handle[c] \in SessionChain /\ p.session = handle[c].session
      BY ZenonT(30), CommitFacts DEF CandidatesChecked
    <3> QED BY Zenon, <1>1, <3>1 DEF SessionsExist
  <2>3. validate_handoff_action(a, at)'
    BY ZenonT(30), <1>1, <1>9, <2>1, <2>2, ActionStaysValid
  <2>4. ActedIn(at, a)'
    BY Zenon, <1>2, <1>9, <2>3 DEF ActedIn
  <2>5. Backed(a.handoff, ExpectedTerminal(a))'
    BY Zenon, <1>1, <1>6, <1>9
  <2> QED BY Zenon, <1>1, <2>1, <2>4, <2>5 DEF ActionsBack
<1>10. ASSUME NEW h \in Known', NEW t, t = resolve(h)' PROVE Backed(h, t)'
  <2>1. CASE h \in IssuedBy(at, b)
    BY Zenon, <1>1, <1>7, <1>10, <2>1
  <2>2. CASE h \in Known /\ resolve(h)' = resolve(h)
    BY Zenon, <1>6, <1>10, <2>2
  <2>3. CASE h \in b.consumed
    BY Zenon, <1>1, <1>8, <1>10, <2>3
  <2>4. CASE \E a \in b.actions : a.handoff = h
    <3>1. PICK a \in b.actions : a.handoff = h
      BY <2>4
    <3> QED BY Zenon, <1>1, <1>9, <1>10, <3>1
  <2> QED BY Zenon, <1>1, <2>1, <2>2, <2>3, <2>4
<1> QED BY Zenon, <1>10 DEF HandoffsAudited

LEMMA BackingStep ==
    ASSUME IInv, IInv', RecoveryInv, LeastNumbers, LineageUnfolds, LineageUnfolds', ActionsBack',
           [Next]_vars
    PROVE  HandoffsAudited'
<1>1. /\ TypeInv /\ TypeInv' /\ CandidatesChecked /\ CompactSettled
      /\ SessionsExist /\ LineagesAudited /\ HandoffsAudited
  BY Zenon DEF IInv, RecoveryInv
<1>2. Grown
  BY Zenon, StepGrows
<1>3. ASSUME Known' = Known, \A h \in Known : resolve(h)' = resolve(h)
      PROVE  HandoffsAudited'
  <2>1. ASSUME NEW h \in Known', NEW t, t = resolve(h)' PROVE Backed(h, t)'
    <3>1. h \in Known /\ t = resolve(h)
      BY Zenon, <1>3, <2>1
    <3>2. h \in SessionHandoff /\ t \in HandoffTerminal
      BY <1>1, <3>1 DEF TypeInv, Known, resolve
    <3>3. Backed(h, t)
      BY Zenon, <1>1, <3>1 DEF HandoffsAudited
    <3> QED BY ZenonT(30), <1>1, <1>2, <3>2, <3>3, BackingStays
  <2> QED BY Zenon, <2>1 DEF HandoffsAudited
<1>4. ASSUME NEW c \in Handles, NEW p \in prepared[c], commit_finalised(c, p)
      PROVE  HandoffsAudited'
  <2>1. PICK at : at = Place(p)
    OBVIOUS
  <2> QED BY ZenonT(30), <1>1, <1>2, <1>4, <2>1, CommitBacks
<1>5. CASE UNCHANGED <<chain, receipts, full, compact>>
  <2>1. Known' = Known /\ \A h \in Known : resolve(h)' = resolve(h)
    BY Zenon, <1>5 DEF Known, resolve
  <2> QED BY Zenon, <1>3, <2>1
<1>6. ASSUME NEW ref \in BlockRef, Offload(ref) PROVE HandoffsAudited'
  BY Zenon, <1>1, <1>3, <1>6, OffloadFacts DEF Offload
<1> QED BY Zenon, <1>1, <1>4, <1>5, <1>6, StoreCases
=============================================================================
