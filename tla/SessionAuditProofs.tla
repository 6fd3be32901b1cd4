------------------------- MODULE SessionAuditProofs -------------------------
(***************************************************************************)
(* Every step of SessionChains keeps the effects of blocks in the index, and*)
(* the histories, the lineages and the records such that the recovery audit*)
(* of every session passes.                                                *)
(***************************************************************************)
EXTENDS SessionChainsProofs

-----------------------------------------------------------------------------
(* The effects of blocks. *)

(* How a record may move on: a cancellation to its refund, a consumption   *)
(* to its retirement.                                                      *)
Progresses(t, u) ==
    \/ u = t
    \/ t = Issued
    \/ \E e, at \in BlockRef : t = Cancelled(e) /\ u = Reclaimed(e, at)
    \/ \E e, at \in BlockRef : t = Consumed(e) /\ u = Retired(e, at)

(* What a record says of an earlier block survives that. *)
LEMMA ProgressAgrees ==
    ASSUME NEW t, NEW u, Progresses(t, u), NEW ref \in BlockRef
    PROVE  /\ \A a \in HandoffAction : AgreesOn(t, a, ref) => AgreesOn(u, a, ref)
           /\ consumption(t) = ref => consumption(u) = ref
<1>1. CASE u = t
  BY Zenon, <1>1
<1>2. CASE t = Issued
  <2>1. t.state = "Issued"
    BY <1>2 DEF Issued
  <2>2. \A a \in HandoffAction : apply_action(a, ref).state # "Issued"
    BY DEF apply_action, Cancelled, Reclaimed, Retired, HandoffAction
  <2>3. consumption(t) = NoRef
    BY <2>1 DEF consumption
  <2>4. ref # NoRef
    BY NoRefAssumption
  <2> QED BY <2>1, <2>2, <2>3, <2>4 DEF AgreesOn
<1>3. ASSUME NEW e \in BlockRef, NEW at \in BlockRef, t = Cancelled(e), u = Reclaimed(e, at)
      PROVE  /\ \A a \in HandoffAction : AgreesOn(t, a, ref) => AgreesOn(u, a, ref)
             /\ consumption(t) = ref => consumption(u) = ref
  <2>1. t.state = "Cancelled" /\ t.at = e /\ u.state = "Reclaimed" /\ u.cancelled_at = e
    BY <1>3 DEF Cancelled, Reclaimed
  <2>2. consumption(t) = NoRef /\ ref # NoRef
    BY <2>1, NoRefAssumption DEF consumption
  <2>3. ASSUME NEW a \in HandoffAction, AgreesOn(t, a, ref) PROVE AgreesOn(u, a, ref)
    <3>1. t = apply_action(a, ref)
      BY <2>1, <2>3 DEF AgreesOn
    <3>2. a.kind = "Cancel" /\ t = Cancelled(ref)
      BY <2>1, <3>1 DEF apply_action, Reclaimed, Retired, HandoffAction
    <3>3. e = ref
      BY <2>1, <3>2 DEF Cancelled
    <3> QED BY <2>1, <3>2, <3>3 DEF AgreesOn
  <2> QED BY <2>2, <2>3
<1>4. ASSUME NEW e \in BlockRef, NEW at \in BlockRef, t = Consumed(e), u = Retired(e, at)
      PROVE  /\ \A a \in HandoffAction : AgreesOn(t, a, ref) => AgreesOn(u, a, ref)
             /\ consumption(t) = ref => consumption(u) = ref
  <2>1. t.state = "Consumed" /\ t.at = e /\ u.state = "Retired" /\ u.consumed_at = e
    BY <1>4 DEF Consumed, Retired
  <2>2. \A a \in HandoffAction : apply_action(a, ref).state # "Consumed"
    BY DEF apply_action, Cancelled, Reclaimed, Retired, HandoffAction
  <2>3. consumption(t) = e /\ consumption(u) = e
    BY <2>1 DEF consumption
  <2> QED BY <2>1, <2>2, <2>3 DEF AgreesOn
<1> QED BY Zenon, <1>1, <1>2, <1>3, <1>4 DEF Progresses

(* A commit moves every record on in this sense. *)
LEMMA CommitProgress ==
    ASSUME TypeInv, CandidatesChecked, CompactSettled, NEW c \in Handles,
           NEW p \in prepared[c], commit_finalised(c, p), NEW h \in Known
    PROVE  Progresses(resolve(h), resolve(h)')
<1>1. PICK at : at = Place(p)
  OBVIOUS
<1>2. /\ at \in BlockRef /\ p.block \in FinalisedBlock
      /\ \A x \in p.block.consumed : resolve(x) = Issued
      /\ \A a \in p.block.actions :
            /\ resolve(a.handoff) = ExpectedTerminal(a)
            /\ resolve(a.handoff)' = apply_action(a, at)
            /\ validate_handoff_action(a, at)
      /\ \/ resolve(h)' = resolve(h)
         \/ h \in p.block.consumed
         \/ \E a \in p.block.actions : a.handoff = h
  BY ZenonT(30), <1>1, CommitRecords
<1>3. ASSUME NEW a \in p.block.actions, a.handoff = h
      PROVE  Progresses(resolve(h), resolve(h)')
  <2>1. a \in HandoffAction
    BY <1>2 DEF FinalisedBlock
  <2>2. PICK t, u : /\ t = resolve(h) /\ u = resolve(h)'
                    /\ t = ExpectedTerminal(a) /\ u = apply_action(a, at)
    BY Zenon, <1>2, <1>3
  <2>3. validate_for(a, at)
    BY Zenon, <1>2 DEF validate_handoff_action
  <2>4. CASE a.kind = "Cancel"
    BY <2>2, <2>4 DEF ExpectedTerminal, Progresses
  <2>5. CASE a.kind = "Reclaim"
    <3>1. a.evidence \in BlockRef
      BY <2>1, <2>3, <2>5 DEF validate_for, HandoffAction
    <3>2. t = Cancelled(a.evidence) /\ u = Reclaimed(a.evidence, at)
      BY <2>2, <2>5 DEF ExpectedTerminal, apply_action
    <3> QED BY Zenon, <1>2, <2>2, <3>1, <3>2 DEF Progresses
  <2>6. CASE a.kind = "Retire"
    <3>1. a.evidence \in BlockRef
      BY <2>1, <2>3, <2>6 DEF validate_for, HandoffAction
    <3>2. t = Consumed(a.evidence) /\ u = Retired(a.evidence, at)
      BY <2>2, <2>6 DEF ExpectedTerminal, apply_action
    <3> QED BY Zenon, <1>2, <2>2, <3>1, <3>2 DEF Progresses
  <2> QED BY <2>1, <2>4, <2>5, <2>6 DEF HandoffAction
<1> QED BY Zenon, <1>2, <1>3 DEF Progresses

(* The effects of a block stay in the index while records only move on. *)
LEMMA EffectsStay ==
    ASSUME TypeInv, SessionsExist, LineagesAudited, Grown,
           LeastNumbers, LineageUnfolds, LineageUnfolds', EffectsAudited,
           Known \subseteq Known',
           \A h \in Known : Progresses(resolve(h), resolve(h)'),
           NEW ref \in Refs, NEW b, b = BlockAt(ref)
    PROVE  BlockAudited(ref, b)'
<1>1. BlockAudited(ref, b)
  BY Zenon DEF EffectsAudited
<1>2. ref \in BlockRef /\ b \in FinalisedBlock /\ Exists(ref.session)
  <2>1. PICK s \in Sessions :
            \E n \in DOMAIN chain[s] : ref = [session |-> s, height |-> n - 1]
    BY DEF Refs
  <2> PICK n \in DOMAIN chain[s] : ref = [session |-> s, height |-> n - 1]
    BY <2>1
  <2>2. chain[s] \in Seq(FinalisedBlock) /\ n \in 1..Len(chain[s]) /\ Len(chain[s]) \in Nat
    BY DEF TypeInv
  <2>3. ref.session = s /\ ref.height = n - 1 /\ n - 1 \in Nat /\ ref.height + 1 = n
    BY <2>1, <2>2
  <2>4. ref \in BlockRef /\ b \in FinalisedBlock
    BY <2>1, <2>2, <2>3 DEF BlockRef, BlockAt
  <2>5. chain[s] # <<>>
    BY <2>2
  <2> QED BY Zenon, <2>3, <2>4, <2>5 DEF SessionsExist
<1>3. \A h \in Known : \A t, u : t = resolve(h) /\ u = resolve(h)' =>
          /\ h \in Known'
          /\ \A a \in HandoffAction : AgreesOn(t, a, ref) => AgreesOn(u, a, ref)
          /\ consumption(t) = ref => consumption(u) = ref
  BY ZenonT(30), <1>2, ProgressAgrees
<1>4. IssuedBy(ref, b) \subseteq Known'
  BY Zenon, <1>1 DEF BlockAudited
<1>5. ASSUME NEW a \in b.actions
      PROVE  /\ a.handoff \in Known'
             /\ validate_handoff_action(a, ref)'
             /\ AgreesOn(resolve(a.handoff), a, ref)'
  <2>1. a \in HandoffAction
    BY <1>2 DEF FinalisedBlock
  <2>2. /\ a.handoff \in Known /\ validate_handoff_action(a, ref)
        /\ AgreesOn(resolve(a.handoff), a, ref)
    BY Zenon, <1>1 DEF BlockAudited
  <2>3. validate_handoff_action(a, ref)'
    BY ZenonT(30), <1>2, <2>1, <2>2, ActionStaysValid
  <2>4. PICK t, u : t = resolve(a.handoff) /\ u = resolve(a.handoff)'
    OBVIOUS
  <2>5. AgreesOn(u, a, ref)
    BY Zenon, <1>3, <2>1, <2>2, <2>4
  <2>6. AgreesOn(resolve(a.handoff), a, ref)'
    BY Zenon, <2>4, <2>5 DEF AgreesOn, apply_action
  <2> QED BY Zenon, <2>2, <2>3, <2>6
<1>6. ASSUME NEW h \in b.consumed
      PROVE  /\ h \in Known'
             /\ consumption(resolve(h))' = ref
             /\ MayConsume(ref, b, h)
  <2>1. h \in Known /\ consumption(resolve(h)) = ref /\ MayConsume(ref, b, h)
    BY Zenon, <1>1 DEF BlockAudited
  <2>2. PICK t, u : t = resolve(h) /\ u = resolve(h)'
    OBVIOUS
  <2>3. consumption(u) = ref
    BY Zenon, <1>3, <2>1, <2>2
  <2> QED BY Zenon, <2>1, <2>2, <2>3 DEF consumption
<1>7. \A h : MayConsume(ref, b, h)' <=> MayConsume(ref, b, h)
  BY Zenon DEF MayConsume, validate_handoff_trust
<1> QED BY Zenon, <1>4, <1>5, <1>6, <1>7 DEF BlockAudited, IssuedBy

(* The effects of the block a commit adds are all in the index. *)
LEMMA NewEffects ==
    ASSUME TypeInv, CandidatesChecked, CompactSettled, SessionsExist, LineagesAudited,
           Grown, LeastNumbers, LineageUnfolds, LineageUnfolds', NEW c \in Handles,
           NEW p \in prepared[c], commit_finalised(c, p), NEW at, at = Place(p)
    PROVE  BlockAudited(at, p.block)'
<1> DEFINE b == p.block
<1>1. /\ at \in BlockRef /\ b \in FinalisedBlock /\ at.session = p.session
      /\ Known' = Known \cup IssuedBy(at, b)
      /\ \A h \in b.consumed :
            /\ h \in Known /\ resolve(h)' = Consumed(at) /\ MayConsume(at, b, h)
      /\ \A a \in b.actions :
            /\ a.handoff \in Known
            /\ resolve(a.handoff)' = apply_action(a, at)
            /\ validate_handoff_action(a, at)
  BY ZenonT(30), CommitRecords
<1>2. Exists(at.session)
  BY Zenon, <1>1 DEF SessionsExist
<1> HIDE DEF b
<1>3. ASSUME NEW a \in b.actions
      PROVE  validate_handoff_action(a, at)' /\ AgreesOn(resolve(a.handoff), a, at)'
  <2>1. a \in HandoffAction
    BY Zenon, <1>1 DEF FinalisedBlock
  <2>2. validate_handoff_action(a, at)'
    BY ZenonT(30), <1>1, <1>2, <2>1, ActionStaysValid
  <2> QED BY Zenon, <1>1, <2>2 DEF AgreesOn, apply_action
<1>4. ASSUME NEW h \in b.consumed
      PROVE  consumption(resolve(h))' = at
  <2>1. PICK u : u = resolve(h)' /\ u = Consumed(at)
    BY Zenon, <1>1
  <2>2. consumption(u) = at
    BY <2>1 DEF consumption, Consumed
  <2> QED BY Zenon, <2>1, <2>2 DEF consumption
<1>5. \A h : MayConsume(at, b, h)' <=> MayConsume(at, b, h)
  BY Zenon DEF MayConsume, validate_handoff_trust
<1>6. BlockAudited(at, b)'
  BY Zenon, <1>1, <1>3, <1>4, <1>5 DEF BlockAudited, IssuedBy
<1> QED BY Zenon, <1>6 DEF b

LEMMA EffectsStep ==
    ASSUME IInv, RecoveryInv, LeastNumbers, LineageUnfolds, LineageUnfolds', [Next]_vars
    PROVE  EffectsAudited'
<1>1. /\ TypeInv /\ CandidatesChecked /\ CompactSettled
      /\ SessionsExist /\ LineagesAudited /\ EffectsAudited
  BY Zenon DEF IInv, RecoveryInv
<1>2. Grown
  BY Zenon, StepGrows
<1>3. \A ref \in Refs : BlockAt(ref)' = BlockAt(ref)
  BY Zenon, <1>2 DEF Grown
<1>4. ASSUME Known \subseteq Known',
             \A h \in Known : Progresses(resolve(h), resolve(h)'),
             NEW ref \in Refs
      PROVE  BlockAudited(ref, BlockAt(ref))'
  <2>1. PICK b : b = BlockAt(ref)
    OBVIOUS
  <2>2. BlockAudited(ref, b)'
    BY ZenonT(30), <1>1, <1>2, <1>4, <2>1, EffectsStay
  <2>3. BlockAt(ref)' = b
    BY Zenon, <1>3, <2>1
  <2> QED BY Zenon, <2>2, <2>3 DEF BlockAudited, IssuedBy, MayConsume
<1>5. ASSUME Refs' = Refs, Known' = Known, \A h \in Known : resolve(h)' = resolve(h)
      PROVE  EffectsAudited'
  <2>1. Known \subseteq Known' /\ \A h \in Known : Progresses(resolve(h), resolve(h)')
    BY Zenon, <1>5 DEF Progresses
  <2> QED BY Zenon, <1>4, <1>5, <2>1 DEF EffectsAudited
<1>6. CASE UNCHANGED <<chain, receipts, full, compact>>
  <2>1. chain' = chain /\ full' = full /\ compact' = compact
    BY <1>6
  <2>2. Refs' = Refs /\ Known' = Known /\ \A h \in Known : resolve(h)' = resolve(h)
    BY <2>1 DEF Refs, Known, resolve
  <2> QED BY Zenon, <1>5, <2>2
<1>7. ASSUME NEW ref \in BlockRef, Offload(ref), UNCHANGED <<chain, receipts>>
      PROVE  EffectsAudited'
  <2>1. Refs' = Refs
    BY <1>7 DEF Refs
  <2> QED BY Zenon, <1>1, <1>5, <1>7, <2>1, OffloadFacts DEF Offload
<1>8. ASSUME NEW c \in Handles, NEW p \in prepared[c], commit_finalised(c, p)
      PROVE  EffectsAudited'
  <2>1. PICK at : at = Place(p)
    OBVIOUS
  <2>2. Refs' = Refs \cup {at} /\ BlockAt(at)' = p.block
    BY ZenonT(30), <1>1, <1>8, <2>1, CommitBlocks
  <2>3. Known' = Known \cup IssuedBy(at, p.block)
    BY ZenonT(30), <1>1, <1>8, <2>1, CommitRecords
  <2>4. \A h \in Known : Progresses(resolve(h), resolve(h)')
    BY ZenonT(30), <1>1, <1>8, CommitProgress
  <2>5. BlockAudited(at, p.block)'
    BY ZenonT(30), <1>1, <1>2, <1>8, <2>1, NewEffects
  <2>6. BlockAudited(at, BlockAt(at))'
    BY Zenon, <2>2, <2>5 DEF BlockAudited, IssuedBy, MayConsume
  <2> QED BY Zenon, <1>4, <2>2, <2>3, <2>4, <2>6 DEF EffectsAudited
<1> QED BY Zenon, <1>1, <1>6, <1>7, <1>8, StoreCases

-----------------------------------------------------------------------------
(* Sessions, candidates, lineages and histories. *)

(* A handle only moves to a session that exists, and a new candidate is    *)
(* sound and about the session its handle is at.                           *)
LEMMA HandlesMove ==
    ASSUME TypeInv, CandidatesChecked, [Next]_vars, NEW c \in Handles
    PROVE  /\ \/ handle'[c] \in SessionChain => /\ handle[c] \in SessionChain
                                                /\ handle'[c].session = handle[c].session
              \/ \E s \in Sessions : handle'[c].session = s /\ Exists(s)'
           /\ \A p \in prepared'[c] :
                 \/ p \in prepared[c]
                 \/ /\ handle[c] \in SessionChain
                    /\ p.session = handle[c].session
                    /\ Sound(p)
<1> DEFINE Moves(d) ==
              \/ handle'[d] \in SessionChain => /\ handle[d] \in SessionChain
                                                /\ handle'[d].session = handle[d].session
              \/ \E s \in Sessions : handle'[d].session = s /\ Exists(s)'
           Prepares(d) == \A p \in prepared'[d] :
              \/ p \in prepared[d]
              \/ /\ handle[d] \in SessionChain
                 /\ p.session = handle[d].session
                 /\ Sound(p)
<1>1. handle' = handle => Moves(c)
  OBVIOUS
<1>2. prepared'[c] \subseteq prepared[c] => Prepares(c)
  OBVIOUS
<1>3. CASE UNCHANGED <<handle, prepared>>
  BY <1>1, <1>2, <1>3
<1>4. ASSUME NEW d, NEW s \in Sessions, NEW head, Open(d, s, head), Exists(s)'
      PROVE  Moves(c) /\ Prepares(c)
  <2>1. prepared'[c] \subseteq prepared[c]
    BY <1>4 DEF Open, TypeInv
  <2>2. \/ handle'[c] = handle[c]
        \/ handle'[c] = [session |-> s, head |-> head]
    BY Zenon, <1>4 DEF Open, TypeInv
  <2>3. Moves(c)
    BY <1>4, <2>2
  <2> QED BY <1>2, <2>1, <2>3
<1>5. ASSUME NEW d, NEW s \in Sessions, Create(d, s) \/ Recover(d, s)
      PROVE  Moves(c) /\ Prepares(c)
  <2>1. CASE Create(d, s)
    <3>1. genesis' = [genesis EXCEPT ![s] = [predecessor |-> NoRef, time |-> 0]]
      BY Zenon, <2>1 DEF Create, create_session
    <3>2. genesis'[s] = [predecessor |-> NoRef, time |-> 0]
      BY <3>1 DEF TypeInv
    <3>3. [predecessor |-> NoRef, time |-> 0] \in SessionGenesis
      BY DEF SessionGenesis
    <3>4. Exists(s)'
      BY Zenon, <3>2, <3>3, SentinelsAssumption DEF Exists
    <3> QED BY Zenon, <1>4, <2>1, <3>4 DEF Create
  <2>2. CASE Recover(d, s)
    <3>1. Exists(s)'
      BY Zenon, <2>2 DEF Recover, storeVars, Exists
    <3> QED BY Zenon, <1>4, <2>2, <3>1 DEF Recover
  <2> QED BY Zenon, <1>5, <2>1, <2>2
<1>6. ASSUME NEW d \in Handles, prepare_block(d)
      PROVE  Moves(c) /\ Prepares(c)
  <2>1. handle' = handle
    BY Zenon, <1>6 DEF prepare_block
  <2>2. CASE c # d
    <3>1. prepared'[c] = prepared[c]
      BY <1>6, <2>2 DEF prepare_block, TypeInv
    <3> QED BY <1>1, <1>2, <2>1, <3>1
  <2>3. CASE c = d
    <3> DEFINE s == handle[d].session
               head == handle[d].head
    <3>1. handle[d] \in SessionChain
      BY Zenon, <1>6 DEF prepare_block, TypeInv
    <3>2. PICK time \in 0..MaxTime, r \in Requests(s) :
              /\ PrepareAllowed(s, head, time, r)
              /\ prepared' = [prepared EXCEPT ![d] = @ \cup
                    {[session |-> s, base |-> head, block |-> CandidateBlock(time, r)]}]
      BY Zenon, <1>6 DEF prepare_block
    <3> DEFINE q == [session |-> s, base |-> head, block |-> CandidateBlock(time, r)]
    <3>3. prepared'[d] = prepared[d] \cup {q}
      BY <3>2 DEF TypeInv
    <3>4. /\ time >= HeadTime(s, head)
          /\ \A i \in r.issued : i.expires_at > time
          /\ r.successor # NoSession =>
                r.successor.target # s /\ transition_validate(s, r.successor)
      BY Zenon, <3>2 DEF PrepareAllowed
    <3>5. /\ q.session = s /\ q.base = head /\ q.block.time = time
          /\ q.block.issued = r.issued /\ q.block.successor = r.successor
      BY DEF CandidateBlock
    <3> HIDE DEF s, head, q
    <3>6. Sound(q)
      BY Zenon, <3>4, <3>5 DEF Sound
    <3> QED BY Zenon, <1>1, <2>1, <2>3, <3>1, <3>3, <3>5, <3>6 DEF s
  <2> QED BY <2>2, <2>3
<1>7. ASSUME NEW d \in Handles, NEW p \in prepared[d],
             commit_finalised(d, p) \/ CommitRefused(d, p)
      PROVE  Moves(c) /\ Prepares(c)
  <2>1. prepared'[c] \subseteq prepared[c]
    BY <1>7 DEF commit_finalised, CommitRefused, TypeInv
  <2>2. handle' = handle \/ handle' = [handle EXCEPT ![d].head = Append(@, p.block)]
    BY Zenon, <1>7 DEF commit_finalised, CommitRefused
  <2>3. \/ handle'[c] = handle[c]
        \/ c = d /\ handle'[c] = [handle[d] EXCEPT !.head = Append(@, p.block)]
    BY <2>2 DEF TypeInv
  <2>4. handle[d] \in SessionChain /\ p.block \in FinalisedBlock
    BY DEF CandidatesChecked, TypeInv, Candidate
  <2>5. [handle[d] EXCEPT !.head = Append(@, p.block)].session = handle[d].session
    BY Zenon, <2>4, HeadMoves
  <2>6. Moves(c)
    BY Zenon, <2>3, <2>4, <2>5
  <2> QED BY <1>2, <2>1, <2>6
<1>8. ASSUME \/ \E d : load_consensus_wal(d) \/ WriteWal(d)
             \/ \E m : Acknowledge(m) \/ AppendEvidence(m) \/ Offload(m)
             \/ UNCHANGED vars
      PROVE  UNCHANGED <<handle, prepared>>
  BY Zenon, <1>8 DEF load_consensus_wal, WriteWal, Acknowledge, AppendEvidence, Offload, vars
<1> QED BY ZenonT(30), <1>3, <1>5, <1>6, <1>7, <1>8, PlanTypes DEF Next, TypeInv

LEMMA SessionsStep ==
    ASSUME TypeInv, TypeInv', CandidatesChecked, SessionsExist, Grown, [Next]_vars
    PROVE  SessionsExist'
<1>1. \A s \in Sessions : Exists(s) => Exists(s)'
  BY Zenon DEF Grown
<1>2. \A c \in Handles : \A p \in prepared[c] : p.session \in Sessions /\ Exists(p.session)
  <2>1. \A c \in Handles : \A p \in prepared[c] : p \in Candidate
    BY Zenon DEF TypeInv
  <2>2. \A p \in Candidate : p.session \in Sessions
    BY DEF Candidate
  <2> QED BY Zenon, <2>1, <2>2 DEF SessionsExist
<1>3. \A c \in Handles : handle[c] \in SessionChain =>
          handle[c].session \in Sessions /\ Exists(handle[c].session)
  BY Zenon DEF SessionChain, SessionsExist
<1>4. ASSUME NEW s \in Sessions, chain'[s] # <<>> PROVE Exists(s)'
  <2>1. CASE chain'[s] = chain[s]
    BY Zenon, <1>1, <1>4, <2>1 DEF SessionsExist
  <2>2. CASE chain'[s] # chain[s]
    <3>1. PICK c \in Handles : \E p \in prepared[c] : commit_finalised(c, p)
      BY Zenon, <2>2, StoreCases
    <3>2. PICK p \in prepared[c] : commit_finalised(c, p)
      BY Zenon, <3>1
    <3>3. \A t \in Sessions \ {p.session} : chain'[t] = chain[t]
      BY Zenon, <3>2, CommitExtends
    <3>4. s = p.session
      BY Zenon, <2>2, <3>3
    <3> QED BY Zenon, <1>1, <1>2, <3>4
  <2> QED BY <2>1, <2>2
<1>5. ASSUME NEW c \in Handles, handle'[c] \in SessionChain PROVE Exists(handle[c].session)'
  <2>1. PICK t : t = handle'[c].session
    OBVIOUS
  <2>2. \/ handle[c] \in SessionChain /\ t = handle[c].session
        \/ t \in Sessions /\ Exists(t)'
    BY Zenon, <1>5, <2>1, HandlesMove
  <2>3. Exists(t)'
    BY Zenon, <1>1, <1>3, <2>2
  <2> QED BY Zenon, <2>1, <2>3 DEF Exists
<1>6. ASSUME NEW c \in Handles, NEW p \in prepared'[c] PROVE Exists(p.session)'
  <2>1. \/ p \in prepared[c]
        \/ handle[c] \in SessionChain /\ p.session = handle[c].session
    BY Zenon, <1>6, HandlesMove
  <2>2. p.session \in Sessions /\ Exists(p.session)
    BY Zenon, <1>2, <1>3, <2>1
  <2> QED BY Zenon, <1>1, <2>2
<1> QED BY Zenon, <1>4, <1>5, <1>6 DEF SessionsExist

LEMMA SoundStep ==
    ASSUME TypeInv, CandidatesChecked, SessionsExist, CandidatesSound, Grown, [Next]_vars
    PROVE  CandidatesSound'
<1> SUFFICES ASSUME NEW c \in Handles, NEW p \in prepared'[c] PROVE Sound(p)'
  BY Zenon DEF CandidatesSound
<1>1. \/ p \in prepared[c]
      \/ handle[c] \in SessionChain /\ p.session = handle[c].session /\ Sound(p)
  BY Zenon, HandlesMove
<1>2. Sound(p)
  BY Zenon, <1>1 DEF CandidatesSound
<1>3. p.session \in Sessions /\ Exists(p.session)
  <2>1. CASE p \in prepared[c]
    BY <2>1 DEF TypeInv, Candidate, SessionsExist
  <2>2. CASE handle[c] \in SessionChain /\ p.session = handle[c].session
    BY <2>2 DEF SessionChain, SessionsExist
  <2> QED BY <1>1, <2>1, <2>2
<1>4. genesis'[p.session] = genesis[p.session]
  BY Zenon, <1>3 DEF Grown
<1>5. HeadTime(p.session, p.base)' = HeadTime(p.session, p.base)
  BY Zenon, <1>4 DEF HeadTime, Last
<1> QED BY Zenon, <1>2, <1>5 DEF Sound, transition_validate

(* Where a genesis record comes from. *)
LEMMA GenesisMoves ==
    ASSUME TypeInv, [Next]_vars, NEW s \in Sessions
    PROVE  \/ genesis'[s] = genesis[s]
           \/ genesis'[s].predecessor = NoRef
           \/ \E c \in Handles : \E p \in prepared[c] :
                 /\ commit_finalised(c, p)
                 /\ p.block.successor # NoSession
                 /\ p.block.successor.target = s
                 /\ genesis'[s] = [predecessor |-> Place(p), time |-> p.block.time]
<1> USE DEF storeVars
<1>1. ASSUME \/ UNCHANGED vars
             \/ \E d : \/ prepare_block(d) \/ load_consensus_wal(d) \/ WriteWal(d)
                       \/ \E p : CommitRefused(d, p)
                       \/ \E t : Recover(d, t)
             \/ \E m : Acknowledge(m) \/ AppendEvidence(m) \/ Offload(m)
      PROVE  genesis' = genesis
  BY Zenon, <1>1 DEF prepare_block, load_consensus_wal, WriteWal, CommitRefused, Recover,
     compare_and_set_consensus_wal, Acknowledge, acknowledge_outbox, AppendEvidence,
     compare_and_set_evidence, Offload, offload_block, vars
<1>2. ASSUME NEW c, NEW t, Create(c, t)
      PROVE  genesis'[s] = genesis[s] \/ genesis'[s].predecessor = NoRef
  <2>1. genesis' = [genesis EXCEPT ![t] = [predecessor |-> NoRef, time |-> 0]]
    BY Zenon, <1>2 DEF Create, create_session
  <2> QED BY <2>1 DEF TypeInv
<1>3. ASSUME NEW c \in Handles, NEW p \in prepared[c], commit_finalised(c, p)
      PROVE  \/ genesis'[s] = genesis[s]
             \/ /\ p.block.successor # NoSession
                /\ p.block.successor.target = s
                /\ genesis'[s] = [predecessor |-> Place(p), time |-> p.block.time]
  <2>1. genesis' = IF p.block.successor = NoSession THEN genesis
                   ELSE [genesis EXCEPT ![p.block.successor.target] =
                            [predecessor |-> Place(p), time |-> p.block.time]]
    BY ZenonT(30), <1>3, CommitFacts
  <2> QED BY <2>1 DEF TypeInv
<1> QED BY ZenonT(30), <1>1, <1>2, <1>3, PlanTypes DEF Next, TypeInv

(* The head of a session that a commit extends. *)
LEMMA CommitSeals ==
    ASSUME TypeInv, NEW c \in Handles, NEW p \in prepared[c], commit_finalised(c, p)
    PROVE  /\ p.session \in Sessions
           /\ Place(p) = [session |-> p.session, height |-> Len(chain[p.session])]
           /\ Len(chain[p.session]) \in Nat
           /\ Len(chain'[p.session]) = Len(chain[p.session]) + 1
           /\ chain'[p.session] # <<>>
           /\ Last(chain'[p.session]) = p.block
           /\ sealed_by_successor(chain'[p.session]) = p.block.successor
<1>1. p.session \in Sessions
  BY ZenonT(30), CommitFacts
<1>2. /\ chain[p.session] \in Seq(FinalisedBlock)
      /\ Len(chain'[p.session]) = Len(chain[p.session]) + 1
      /\ chain'[p.session][Len(chain[p.session]) + 1] = p.block
  BY ZenonT(30), CommitExtends
<1>3. Len(chain[p.session]) \in Nat
  BY <1>2
<1>4. chain'[p.session] # <<>>
  <2>1. Len(chain'[p.session]) # 0
    BY <1>2, <1>3
  <2> QED BY <2>1
<1>5. Last(chain'[p.session]) = p.block
  BY Zenon, <1>2 DEF Last
<1> QED BY Zenon, <1>1, <1>2, <1>3, <1>4, <1>5 DEF Place, sealed_by_successor

LEMMA LineagesStep ==
    ASSUME TypeInv, TypeInv', SessionsExist, LineagesAudited, Grown, [Next]_vars
    PROVE  LineagesAudited'
<1> SUFFICES ASSUME NEW s \in Sessions, Exists(s)' PROVE audit_lineage(s)'
  BY Zenon DEF LineagesAudited
<1>1. \A t \in Sessions :
          /\ sealed_by_successor(chain[t]) # NoSession => chain'[t] = chain[t]
          /\ Exists(t) => Exists(t)' /\ genesis'[t] = genesis[t]
  BY Zenon DEF Grown
<1>2. ASSUME NEW q, q = genesis'[s].predecessor, q # NoRef
      PROVE  /\ Len(chain'[q.session]) = q.height + 1
             /\ sealed_by_successor(chain'[q.session]) # NoSession
             /\ Last(chain'[q.session]).successor.target = s
  <2>1. CASE genesis'[s] = genesis[s]
    <3>1. Exists(s) /\ q = genesis[s].predecessor
      BY Zenon, <1>2, <2>1 DEF Exists
    <3>2. /\ Len(chain[q.session]) = q.height + 1
          /\ sealed_by_successor(chain[q.session]) # NoSession
          /\ Last(chain[q.session]).successor.target = s
      BY Zenon, <1>2, <3>1 DEF LineagesAudited, audit_lineage
    <3>3. q.session \in Sessions
      <4>1. genesis[s] \in SessionGenesis
        BY <3>1 DEF TypeInv, Exists
      <4> QED BY <1>2, <3>1, <4>1 DEF SessionGenesis, BlockRef
    <3> QED BY Zenon, <1>1, <3>2, <3>3
  <2>2. ASSUME NEW c \in Handles, NEW p \in prepared[c], commit_finalised(c, p),
               p.block.successor # NoSession, p.block.successor.target = s,
               genesis'[s] = [predecessor |-> Place(p), time |-> p.block.time]
        PROVE  /\ Len(chain'[q.session]) = q.height + 1
               /\ sealed_by_successor(chain'[q.session]) # NoSession
               /\ Last(chain'[q.session]).successor.target = s
    <3>1. q = Place(p)
      BY <1>2, <2>2
    <3>2. /\ Place(p) = [session |-> p.session, height |-> Len(chain[p.session])]
          /\ Len(chain'[p.session]) = Len(chain[p.session]) + 1
          /\ Last(chain'[p.session]) = p.block
          /\ sealed_by_successor(chain'[p.session]) = p.block.successor
      BY Zenon, <2>2, CommitSeals
    <3>3. q.session = p.session /\ q.height = Len(chain[p.session])
      BY <3>1, <3>2
    <3> QED BY Zenon, <2>2, <3>2, <3>3
  <2> QED BY Zenon, <1>2, <2>1, <2>2, GenesisMoves
<1>3. ASSUME sealed_by_successor(chain'[s]) # NoSession,
             NEW t, t = Last(chain'[s]).successor.target
      PROVE  Exists(t)' /\ genesis'[t].predecessor = [session |-> s, height |-> Len(chain'[s]) - 1]
  <2>1. CASE chain'[s] = chain[s]
    <3>1. sealed_by_successor(chain[s]) # NoSession /\ t = Last(chain[s]).successor.target
      BY Zenon, <1>3, <2>1
    <3>2. chain[s] # <<>>
      BY Zenon, <3>1 DEF sealed_by_successor
    <3>3. Exists(s)
      BY Zenon, <3>2 DEF SessionsExist
    <3>4. Exists(t) /\ genesis[t].predecessor = [session |-> s, height |-> Len(chain[s]) - 1]
      BY Zenon, <3>1, <3>3 DEF LineagesAudited, audit_lineage
    <3>5. t \in Sessions
      <4>1. Last(chain[s]) \in FinalisedBlock
        <5>1. chain[s] \in Seq(FinalisedBlock)
          BY DEF TypeInv
        <5> QED BY <3>2, <5>1 DEF Last
      <4>2. Last(chain[s]).successor # NoSession
        BY Zenon, <3>1, <3>2 DEF sealed_by_successor
      <4> QED BY <3>1, <4>1, <4>2 DEF FinalisedBlock, Successor
    <3> QED BY Zenon, <1>1, <2>1, <3>4, <3>5
  <2>2. CASE chain'[s] # chain[s]
    <3>1. PICK c \in Handles : \E p \in prepared[c] : commit_finalised(c, p)
      BY Zenon, <2>2, StoreCases
    <3>2. PICK p \in prepared[c] : commit_finalised(c, p)
      BY Zenon, <3>1
    <3>3. s = p.session
      <4>1. \A x \in Sessions \ {p.session} : chain'[x] = chain[x]
        BY Zenon, <3>2, CommitExtends
      <4> QED BY Zenon, <2>2, <4>1
    <3>4. /\ Place(p) = [session |-> s, height |-> Len(chain[s])]
          /\ Len(chain[s]) \in Nat
          /\ Len(chain'[s]) = Len(chain[s]) + 1
          /\ Last(chain'[s]) = p.block
          /\ sealed_by_successor(chain'[s]) = p.block.successor
      BY Zenon, <3>2, <3>3, CommitSeals
    <3>5. p.block.successor # NoSession /\ t = p.block.successor.target
      BY Zenon, <1>3, <3>4
    <3>6. p.block \in FinalisedBlock /\ Place(p) \in BlockRef
      BY ZenonT(30), <3>2, CommitFacts
    <3>7. t \in Sessions /\ p.block.time \in Nat
      BY <3>5, <3>6 DEF FinalisedBlock, Successor
    <3>8. genesis' = [genesis EXCEPT ![t] = [predecessor |-> Place(p), time |-> p.block.time]]
      BY ZenonT(30), <3>2, <3>5, CommitFacts
    <3>9. genesis'[t] = [predecessor |-> Place(p), time |-> p.block.time]
      BY Zenon, <3>7, <3>8 DEF TypeInv
    <3>10. genesis'[t] \in SessionGenesis
      BY <3>6, <3>7, <3>9 DEF SessionGenesis
    <3>11. Exists(t)'
      BY Zenon, <3>10, SentinelsAssumption DEF Exists
    <3>12. Len(chain'[s]) - 1 = Len(chain[s])
      BY <3>4
    <3>13. genesis'[t].predecessor = Place(p)
      BY <3>9
    <3> QED BY Zenon, <3>4, <3>11, <3>12, <3>13
  <2> QED BY <2>1, <2>2
<1>4. genesis'[s].predecessor # NoRef =>
          LET q == genesis'[s].predecessor IN
          /\ Len(chain'[q.session]) = q.height + 1
          /\ sealed_by_successor(chain'[q.session]) # NoSession
          /\ Last(chain'[q.session]).successor.target = s
  BY Zenon, <1>2
<1>5. sealed_by_successor(chain'[s]) # NoSession =>
          LET t == Last(chain'[s]).successor.target IN
          /\ genesis'[t] # NoGenesis
          /\ genesis'[t].predecessor = [session |-> s, height |-> Len(chain'[s]) - 1]
  BY Zenon, <1>3 DEF Exists
<1> QED BY Zenon, <1>4, <1>5 DEF audit_lineage, Exists, sealed_by_successor, Last

LEMMA RecordsStep ==
    ASSUME TypeInv, CandidatesChecked, SessionsExist, CandidatesSound, RecordsAudited,
           Grown, [Next]_vars
    PROVE  RecordsAudited'
<1> SUFFICES ASSUME NEW s \in Sessions, NEW n \in 0..(Len(chain'[s]) - 1)
             PROVE  audit_record(s, n)'
  BY Zenon DEF RecordsAudited
<1>1. chain[s] \in Seq(FinalisedBlock) /\ Len(chain[s]) \in Nat
  <2>1. chain[s] \in Seq(FinalisedBlock)
    BY Zenon DEF TypeInv
  <2> QED BY <2>1
<1> DEFINE Extends(below, b) ==
              /\ sealed_by_successor(below) = NoSession
              /\ b.time >= HeadTime(s, below)
              /\ b.successor # NoSession => transition_validate(s, b.successor)
              /\ \A i \in b.issued : i.expires_at > b.time
<1>2. ASSUME n \in 0..(Len(chain[s]) - 1)
      PROVE  Extends(SubSeq(chain[s], 1, n), chain[s][n + 1])
  BY Zenon, <1>2 DEF RecordsAudited, audit_record
<1>3. ASSUME NEW below, NEW b, below = SubSeq(chain'[s], 1, n), b = chain'[s][n + 1],
             Extends(below, b), Exists(s)
      PROVE  audit_record(s, n)'
  <2>1. genesis'[s] = genesis[s]
    BY Zenon, <1>3 DEF Grown
  <2>2. HeadTime(s, below)' = HeadTime(s, below)
    BY Zenon, <2>1 DEF HeadTime, Last
  <2> QED BY Zenon, <1>3, <2>2
          DEF audit_record, sealed_by_successor, HeadTime, Last, transition_validate
<1> HIDE DEF Extends
<1>4. CASE chain'[s] = chain[s]
  <2>1. n \in 0..(Len(chain[s]) - 1)
    BY Zenon, <1>4
  <2>2. chain[s] # <<>>
    BY <1>1, <2>1
  <2>3. Exists(s)
    BY Zenon, <2>2 DEF SessionsExist
  <2> QED BY Zenon, <1>2, <1>3, <1>4, <2>1, <2>3
<1>5. CASE chain'[s] # chain[s]
  <2>1. PICK c \in Handles : \E p \in prepared[c] : commit_finalised(c, p)
    BY Zenon, <1>5, StoreCases
  <2>2. PICK p \in prepared[c] : commit_finalised(c, p)
    BY Zenon, <2>1
  <2>3. s = p.session
    <3>1. \A x \in Sessions \ {p.session} : chain'[x] = chain[x]
      BY Zenon, <2>2, CommitExtends
    <3> QED BY Zenon, <1>5, <3>1
  <2>4. p.block \in FinalisedBlock /\ p.base = chain[s]
    BY ZenonT(30), <2>2, <2>3, CommitFacts
  <2>5. chain' = [chain EXCEPT ![s] = Append(chain[s], p.block)]
    BY ZenonT(30), <2>2, <2>3, CommitFacts
  <2>6. chain'[s] = Append(chain[s], p.block)
    BY <2>5 DEF TypeInv
  <2>7. Exists(s)
    BY Zenon, <2>3 DEF SessionsExist
  <2>8. n \in Nat /\ n <= Len(chain[s])
    BY <1>1, <2>4, <2>6
  <2>9. CASE n < Len(chain[s])
    <3>1. n \in 0..(Len(chain[s]) - 1)
      BY <1>1, <2>8, <2>9
    <3>2. chain'[s][n + 1] = chain[s][n + 1]
      BY <1>1, <2>4, <2>6, <2>8, <2>9
    <3>3. SubSeq(chain'[s], 1, n) = SubSeq(chain[s], 1, n)
      BY <1>1, <2>4, <2>6, <2>8, <2>9
    <3> QED BY Zenon, <1>2, <1>3, <2>7, <3>1, <3>2, <3>3
  <2>10. CASE n = Len(chain[s])
    <3>1. chain'[s][n + 1] = p.block
      BY <1>1, <2>4, <2>6, <2>10
    <3>2. SubSeq(chain'[s], 1, n) = p.base
      BY <1>1, <2>4, <2>6, <2>10
    <3>3. Sound(p) /\ sealed_by_successor(p.base) = NoSession
      BY Zenon DEF CandidatesSound, CandidatesChecked
    <3>4. Extends(p.base, p.block)
      BY Zenon, <2>3, <3>3 DEF Extends, Sound
    <3> QED BY Zenon, <1>3, <2>7, <3>1, <3>2, <3>4
  <2> QED BY <1>1, <2>8, <2>9, <2>10
<1> QED BY <1>4, <1>5

-----------------------------------------------------------------------------
(* The audit passes. *)

LEMMA RecoveryInit == ASSUME Init PROVE RecoveryInv
<1>1. \A s \in Sessions : chain[s] = <<>> /\ genesis[s] = NoGenesis
  BY DEF Init
<1>2. Refs = {} /\ Known = {}
  BY DEF Init, Refs, Known
<1>3. SessionsExist /\ CandidatesSound
  <2>1. ASSUME NEW c \in Handles PROVE handle[c] = NoHandle /\ prepared[c] = {}
    BY DEF Init
  <2> QED BY Zenon, <1>1, <2>1, SentinelsAssumption DEF SessionsExist, CandidatesSound
<1>4. LineagesAudited /\ RecordsAudited
  <2>1. \A s \in Sessions : 0..(Len(chain[s]) - 1) = {}
    BY <1>1
  <2> QED BY Zenon, <1>1, <2>1 DEF LineagesAudited, RecordsAudited, Exists
<1>5. HandoffsAudited /\ EffectsAudited
  BY Zenon, <1>2 DEF HandoffsAudited, EffectsAudited
<1> QED BY Zenon, <1>3, <1>4, <1>5 DEF RecoveryInv

LEMMA RecoveryStep == ASSUME IInv, IInv', RecoveryInv, [Next]_vars,
                             LeastNumbers, LineageUnfolds, LineageUnfolds', ActionsBack'
                      PROVE  RecoveryInv'
<1>1. Grown
  BY Zenon, StepGrows
<1>2. /\ TypeInv /\ TypeInv' /\ CandidatesChecked
      /\ SessionsExist /\ CandidatesSound /\ LineagesAudited /\ RecordsAudited
  BY Zenon DEF IInv, RecoveryInv
<1>3. SessionsExist' /\ CandidatesSound'
  BY Zenon, <1>1, <1>2, SessionsStep, SoundStep
<1>4. LineagesAudited' /\ RecordsAudited'
  BY Zenon, <1>1, <1>2, LineagesStep, RecordsStep
<1>5. HandoffsAudited' /\ EffectsAudited'
  BY Zenon, BackingStep, EffectsStep
<1> QED BY Zenon, <1>3, <1>4, <1>5 DEF RecoveryInv

(* The records of handoffs pass their audit. *)
LEMMA LifecycleAudited ==
    ASSUME TypeInv, HandoffsAudited, NEW h \in Known
    PROVE  audit_handoff_lifecycle(h)
<1>1. PICK t : t = resolve(h)
  OBVIOUS
<1>2. h \in SessionHandoff /\ t \in HandoffTerminal
  BY <1>1 DEF TypeInv, Known, resolve
<1>3. Backed(h, t)
  BY Zenon, <1>1 DEF HandoffsAudited
<1>4. IssuedAt(h) \in Refs /\ h.intent \in chain[h.source][h.height + 1].issued
  BY <1>3 DEF Backed, IssuedIn, BlockAt, IssuedAt
<1>5. h.height < Len(chain[h.source])
  <2>1. PICK s \in Sessions :
            \E n \in DOMAIN chain[s] : IssuedAt(h) = [session |-> s, height |-> n - 1]
    BY <1>4 DEF Refs
  <2> PICK n \in DOMAIN chain[s] : IssuedAt(h) = [session |-> s, height |-> n - 1]
    BY <2>1
  <2>2. chain[s] \in Seq(FinalisedBlock) /\ n \in 1..Len(chain[s]) /\ Len(chain[s]) \in Nat
    BY DEF TypeInv
  <2>3. h.source = s /\ h.height = n - 1
    BY DEF IssuedAt
  <2> QED BY <2>2, <2>3
<1>6. consumption(t) # NoRef => ConsumedIn(consumption(t), h)
  <2>1. CASE t.state = "Consumed"
    BY <1>3, <2>1 DEF consumption, Backed
  <2>2. CASE t.state = "Retired"
    BY <1>3, <2>2 DEF consumption, Backed
  <2>3. CASE t.state \notin {"Consumed", "Retired"}
    BY <2>3 DEF consumption
  <2> QED BY <2>1, <2>2, <2>3
<1>7. consumption(t) # NoRef =>
          h \in chain[consumption(t).session][consumption(t).height + 1].consumed
  BY Zenon, <1>6 DEF ConsumedIn, BlockAt
<1>8. validate_lifecycle(h, t)
  BY Zenon, <1>3 DEF Backed
<1>9. /\ t.state = "Retired" => ActedIn(t.at, Act("Retire", h, t.consumed_at))
      /\ t.state = "Cancelled" => ActedIn(t.at, Act("Cancel", h, NoRef))
      /\ t.state = "Reclaimed" =>
            /\ ActedIn(t.cancelled_at, Act("Cancel", h, NoRef))
            /\ ActedIn(t.at, Act("Reclaim", h, t.cancelled_at))
  BY Zenon, <1>3 DEF Backed
<1> QED BY Zenon, <1>1, <1>4, <1>5, <1>7, <1>8, <1>9
        DEF audit_handoff_lifecycle, ActedIn, BlockAt, Act

LEMMA AuditPasses == ASSUME IInv, RecoveryInv PROVE AlwaysRecoverable
<1>1. /\ TypeInv /\ CompactSettled /\ CommandsIndexed
      /\ HandoffsAudited /\ EffectsAudited /\ LineagesAudited /\ RecordsAudited
  BY Zenon DEF IInv, RecoveryInv
<1>2. TypeOK
  BY Zenon, TypeInvImpliesTypeOK DEF IInv
<1>3. \A h \in Known : Readable(h) /\ audit_handoff_lifecycle(h)
  <2>1. \A h \in Known : Readable(h)
    BY <1>1 DEF Readable, CompactSettled
  <2> QED BY Zenon, <1>1, <2>1, LifecycleAudited
<1>4. ASSUME NEW s \in Sessions, NEW n \in 0..(Len(chain[s]) - 1)
      PROVE  audit_indexes(s, n)
  <2>1. PICK at, b : at = [session |-> s, height |-> n] /\ b = chain[s][n + 1]
    OBVIOUS
  <2>2. n + 1 \in DOMAIN chain[s] /\ n = (n + 1) - 1
    <3>1. chain[s] \in Seq(FinalisedBlock)
      BY <1>1 DEF TypeInv
    <3> QED BY <3>1
  <2>3. at \in Refs
    BY <2>1, <2>2 DEF Refs
  <2>4. b = BlockAt(at)
    BY <2>1 DEF BlockAt
  <2>5. BlockAudited(at, b)
    BY Zenon, <1>1, <2>3, <2>4 DEF EffectsAudited
  <2>6. \A x \in b.commands : [session |-> s, command |-> x, height |-> n] \in receipts
    <3> TAKE x \in b.commands
    <3>1. [session |-> s, command |-> x, height |-> (n + 1) - 1] \in receipts
      BY Zenon, <1>1, <2>1, <2>2 DEF CommandsIndexed
    <3> QED BY Zenon, <2>2, <3>1
  <2>7. \A a \in b.actions : audit_action(a, at)
    BY Zenon, <1>3, <2>5 DEF BlockAudited, audit_action, AgreesOn
  <2>8. \A h \in IssuedBy(at, b) : Readable(h) /\ audit_handoff_lifecycle(h)
    BY Zenon, <1>3, <2>5 DEF BlockAudited
  <2>9. ASSUME NEW h \in b.consumed
        PROVE  /\ Readable(h)
               /\ consumption(resolve(h)) = at
               /\ s \in h.intent.targets
               /\ b.time <= h.intent.expires_at
               /\ validate_handoff_trust(s, h.source)
               /\ h.intent \in chain[h.source][h.height + 1].issued
    <3>1. h \in Known /\ consumption(resolve(h)) = at /\ MayConsume(at, b, h)
      BY Zenon, <2>5 DEF BlockAudited
    <3>2. at.session = s
      BY <2>1
    <3>3. Readable(h) /\ h.intent \in chain[h.source][h.height + 1].issued
      BY Zenon, <1>3, <3>1 DEF audit_handoff_lifecycle
    <3> QED BY Zenon, <3>1, <3>2, <3>3 DEF MayConsume
  <2> QED BY Zenon, <2>1, <2>6, <2>7, <2>8, <2>9 DEF audit_indexes
<1>5. \A s \in Sessions : Exists(s) => recovery_audit(s)
  BY Zenon, <1>1, <1>4 DEF recovery_audit, LineagesAudited, RecordsAudited
<1> QED BY Zenon, <1>2, <1>5 DEF AlwaysRecoverable
=============================================================================
