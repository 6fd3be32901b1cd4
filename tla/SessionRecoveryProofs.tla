----------------------- MODULE SessionRecoveryProofs ------------------------
(***************************************************************************)
(* Every session of SessionChains can always be recovered, its handoffs are*)
(* ended by their owners and archived once they are settled.               *)
(***************************************************************************)
EXTENDS SessionAuditProofs, NaturalsInduction, WellFoundedInduction

-----------------------------------------------------------------------------
(* Inductions. *)

LEMMA LeastNumber == LeastNumbers
<1> SUFFICES ASSUME NEW S \in SUBSET Nat, S # {}
             PROVE  \E n \in S : \A m \in S : ~ (m < n)
  BY Zenon DEF LeastNumbers
<1>1. PICK n \in S : \A m \in S : ~ (<<m, n>> \in OpToRel(<, Nat))
  BY Zenon, WFMin, NatLessThanWellFounded
<1>2. \A m \in S : ~ (m < n)
  BY ZenonT(30), <1>1 DEF OpToRel
<1> QED BY Zenon, <1>2

(* Path f follows the lineage of s for n successions. *)
Follows(f, s, n) ==
    f = [k \in 0..n |-> IF k = 0 THEN s
                        ELSE IF f[k - 1] = NoSession THEN NoSession
                        ELSE ContinuedFrom(f[k - 1])]

LEMMA PathsExist == ASSUME NEW s PROVE \A n \in Nat : \E f : Follows(f, s, n)
<1> DEFINE Bad == {n \in Nat : ~ \E f : Follows(f, s, n)}
<1> SUFFICES ASSUME Bad # {} PROVE FALSE
  OBVIOUS
<1>1. PICK n \in Bad : \A m \in Bad : ~ (m < n)
  <2> HIDE DEF Bad
  <2>1. Bad \in SUBSET Nat
    BY DEF Bad
  <2> QED BY Zenon, <2>1, LeastNumber DEF LeastNumbers
<1>2. \A m \in Nat : m < n => \E f : Follows(f, s, m)
  BY ZenonT(30), <1>1
<1>3. CASE n = 0
  <2> DEFINE f == [k \in 0..0 |-> s]
  <2>1. Follows(f, s, 0)
    BY DEF Follows
  <2> QED BY <1>3, <2>1
<1>4. CASE n # 0
  <2>1. n - 1 \in Nat /\ n - 1 < n
    BY <1>4
  <2>2. PICK f : Follows(f, s, n - 1)
    BY <1>2, <2>1
  <2> DEFINE g == [k \in 0..n |-> IF k = 0 THEN s
                                  ELSE IF f[k - 1] = NoSession THEN NoSession
                                  ELSE ContinuedFrom(f[k - 1])]
  <2>3. \A k \in 0..(n - 1) : k \in 0..n /\ g[k] = f[k]
    <3> TAKE k \in 0..(n - 1)
    <3>1. f[k] = IF k = 0 THEN s ELSE IF f[k - 1] = NoSession THEN NoSession
                 ELSE ContinuedFrom(f[k - 1])
      BY Zenon, <2>2 DEF Follows
    <3>2. k \in 0..n
      BY <2>1
    <3> QED BY Zenon, <3>1, <3>2
  <2>4. \A k \in 0..n : k # 0 => k - 1 \in 0..(n - 1)
    BY <2>1
  <2>5. Follows(g, s, n)
    BY Zenon, <2>3, <2>4 DEF Follows
  <2> QED BY <2>5
<1> QED BY <1>3, <1>4

LEMMA LineageUnfolding == LineageUnfolds
<1> DEFINE depth == MAX_HANDOFF_OWNER_DEPTH
<1> SUFFICES ASSUME NEW s \in Sessions
             PROVE  /\ continuation_lineage(s)[0] = s
                    /\ \A n \in 1..depth : \A t :
                          t = continuation_lineage(s)[n - 1] =>
                              continuation_lineage(s)[n] =
                                  IF t = NoSession THEN NoSession ELSE ContinuedFrom(t)
  BY Zenon DEF LineageUnfolds
<1>1. depth \in Nat
  BY BoundsAssumption
<1>2. PICK f : Follows(f, s, depth)
  BY <1>1, PathsExist
<1>3. Follows(continuation_lineage(s), s, depth)
  BY Zenon, <1>2 DEF Follows, continuation_lineage
<1>4. 0 \in 0..depth /\ \A n \in 1..depth : n \in 0..depth /\ n # 0
  BY <1>1
<1> HIDE DEF depth
<1> QED BY Zenon, <1>3, <1>4 DEF Follows

-----------------------------------------------------------------------------
(* Every session can be recovered. *)

LEMMA RecoveryInvariance == Spec => []RecoveryInv
<1>1. Init => RecoveryInv
  BY RecoveryInit
<1>2. /\ IInv /\ IInv' /\ RecoveryInv /\ [Next]_vars
      /\ LeastNumbers /\ LineageUnfolds /\ LineageUnfolds' /\ ActionsBack'
      => RecoveryInv'
  BY Zenon, RecoveryStep
<1> QED BY <1>1, <1>2, Invariance, LeastNumber, LineageUnfolding, ActionBacking,
        PTL DEF Spec

(* The recovery audit of every session that exists passes in every state:  *)
(* whatever the processes prepared, committed, lost the answer of, archived*)
(* or delivered, a crashed process can open its session and write again    *)
(* (audit of session/src/recovery.rs, commit_block and offload_block of    *)
(* session-store-rocksdb).                                                 *)
THEOREM Recoverable == Spec => []AlwaysRecoverable
<1>1. IInv /\ RecoveryInv => AlwaysRecoverable
  BY Zenon, AuditPasses
<1> QED BY <1>1, Invariance, RecoveryInvariance, PTL

-----------------------------------------------------------------------------
(* Handoffs are ended by their owners, and archived once they are settled. *)

(* The predecessor that a session continues is its declared one. *)
LEMMA ContinuationIsHeir ==
    ASSUME TypeInv, SessionsExist, LineagesAudited,
           NEW s \in Sessions, Exists(s), ContinuedFrom(s) # NoSession
    PROVE  /\ ContinuedFrom(s) \in Sessions /\ Exists(ContinuedFrom(s))
           /\ s \in Heir(ContinuedFrom(s))
<1> DEFINE q == genesis[s].predecessor
<1>1. /\ q # NoRef /\ ContinuedFrom(s) = q.session
      /\ Len(chain[q.session]) = q.height + 1
      /\ sealed_by_successor(chain[q.session]) = [target |-> s, state |-> "Continue"]
  BY Zenon DEF ContinuedFrom
<1>2. q.session \in Sessions /\ q.height \in Nat
  <2>1. genesis[s] \in SessionGenesis
    BY DEF TypeInv, Exists
  <2> QED BY <1>1, <2>1 DEF SessionGenesis, BlockRef
<1> HIDE DEF q
<1>3. chain[q.session] # <<>>
  BY <1>1, <1>2
<1>4. Exists(q.session)
  BY Zenon, <1>2, <1>3 DEF SessionsExist
<1>5. Last(chain[q.session]).successor = [target |-> s, state |-> "Continue"]
  BY Zenon, <1>1, <1>3 DEF sealed_by_successor
<1>6. s \in Heir(q.session)
  BY Zenon, <1>3, <1>5 DEF Heir
<1> QED BY Zenon, <1>1, <1>2, <1>4, <1>6

(* The lineage of a session, read backwards, is a line of heirs. *)
LEMMA LineageIsLine ==
    ASSUME TypeInv, SessionsExist, LineagesAudited, LineageUnfolds,
           NEW s \in Sessions, Exists(s), NEW m \in 0..MAX_HANDOFF_OWNER_DEPTH,
           continuation_lineage(s)[m] \in Sessions
    PROVE  \E line \in [0..m -> Sessions] :
              /\ line[0] = continuation_lineage(s)[m]
              /\ line[m] = s
              /\ \A k \in 1..m : line[k] \in Heir(line[k - 1])
<1> DEFINE path == continuation_lineage(s)
           Good(n) == path[n] # NoSession => path[n] \in Sessions /\ Exists(path[n])
           Bad == {n \in 0..MAX_HANDOFF_OWNER_DEPTH : ~Good(n)}
           Cut == {n \in 0..m : path[m - n] = NoSession}
<1>1. path[0] = s
  BY Zenon DEF LineageUnfolds
<1>2. ASSUME NEW n \in 1..MAX_HANDOFF_OWNER_DEPTH
      PROVE  path[n] = IF path[n - 1] = NoSession THEN NoSession ELSE ContinuedFrom(path[n - 1])
  BY DEF LineageUnfolds
<1> HIDE DEF path
<1>3. MAX_HANDOFF_OWNER_DEPTH \in Nat /\ m \in Nat
  BY BoundsAssumption
<1>4. Bad = {}
  <2> SUFFICES ASSUME Bad # {} PROVE FALSE
    OBVIOUS
  <2>1. Bad \subseteq Nat
    BY <1>3
  <2>2. PICK n \in Bad : \A x \in Bad : ~ (x < n)
    <3> HIDE DEF Bad
    <3> QED BY Zenon, <2>1, LeastNumber DEF LeastNumbers
  <2>3. n # 0
    BY Zenon, <1>1, <2>2
  <2>4. n - 1 \in 0..MAX_HANDOFF_OWNER_DEPTH /\ n \in 1..MAX_HANDOFF_OWNER_DEPTH /\ n - 1 < n
    BY <1>3, <2>3
  <2>5. Good(n - 1)
    BY ZenonT(30), <2>2, <2>4
  <2>6. Good(n)
    <3>1. CASE path[n - 1] = NoSession
      BY Zenon, <1>2, <2>4, <3>1
    <3>2. CASE path[n - 1] # NoSession
      <4>1. path[n] = ContinuedFrom(path[n - 1])
        BY Zenon, <1>2, <2>4, <3>2
      <4> QED BY Zenon, <2>5, <3>2, <4>1, ContinuationIsHeir
    <3> QED BY <3>1, <3>2
  <2> QED BY <2>2, <2>6
<1>5. Cut = {}
  <2> SUFFICES ASSUME Cut # {} PROVE FALSE
    OBVIOUS
  <2>1. Cut \subseteq Nat
    BY <1>3
  <2>2. PICK n \in Cut : \A x \in Cut : ~ (x < n)
    <3> HIDE DEF Cut
    <3> QED BY Zenon, <2>1, LeastNumber DEF LeastNumbers
  <2>3. n \in 0..m /\ path[m - n] = NoSession
    BY Zenon, <2>2
  <2>4. n # 0
    <3>1. m - 0 = m
      BY <1>3
    <3> QED BY Zenon, <2>3, <3>1, SentinelsAssumption DEF path
  <2>5. /\ n - 1 \in 0..m /\ n - 1 < n /\ n - 1 \in Nat
        /\ m - (n - 1) \in 1..MAX_HANDOFF_OWNER_DEPTH
        /\ m - n = (m - (n - 1)) - 1
    <3> HIDE DEF Cut
    <3> QED BY <1>3, <2>4, <2>3
  <2>6. path[m - (n - 1)] = NoSession
    <3>1. path[(m - (n - 1)) - 1] = NoSession
      BY Zenon, <2>2, <2>5
    <3> QED BY Zenon, <1>2, <2>5, <3>1
  <2>7. n - 1 \in Cut
    BY Zenon, <2>5, <2>6
  <2> QED BY ZenonT(30), <2>2, <2>5, <2>7
<1>6. \A n \in 0..m : path[n] \in Sessions /\ Exists(path[n])
  <2> TAKE n \in 0..m
  <2>1. m - n \in 0..m /\ m - (m - n) = n /\ n \in 0..MAX_HANDOFF_OWNER_DEPTH
    BY <1>3
  <2>2. path[n] # NoSession
    BY Zenon, <1>5, <2>1
  <2> QED BY Zenon, <1>4, <2>1, <2>2
<1> DEFINE line == [k \in 0..m |-> path[m - k]]
<1>7. \A k \in 0..m : m - k \in 0..m
  BY <1>3
<1>8. line \in [0..m -> Sessions]
  BY Zenon, <1>6, <1>7
<1>9. line[0] = path[m] /\ line[m] = s
  BY <1>1, <1>3
<1>10. ASSUME NEW k \in 1..m PROVE line[k] \in Heir(line[k - 1])
  <2>1. /\ k \in 0..m /\ k - 1 \in 0..m /\ m - k \in 0..m
        /\ m - (k - 1) \in 1..MAX_HANDOFF_OWNER_DEPTH /\ m - (k - 1) \in 0..m
        /\ (m - (k - 1)) - 1 = m - k
    BY <1>3
  <2>2. line[k] = path[m - k] /\ line[k - 1] = path[m - (k - 1)]
    BY Zenon, <2>1
  <2>3. path[m - k] \in Sessions /\ Exists(path[m - k]) /\ path[m - (k - 1)] \in Sessions
    BY Zenon, <1>6, <2>1
  <2>4. path[m - k] # NoSession /\ path[m - (k - 1)] # NoSession
    BY Zenon, <2>3, SentinelsAssumption
  <2>5. path[m - (k - 1)] = ContinuedFrom(path[m - k])
    BY Zenon, <1>2, <2>1, <2>4
  <2> QED BY Zenon, <2>2, <2>3, <2>4, <2>5, ContinuationIsHeir
<1> HIDE DEF line
<1> QED BY Zenon, <1>8, <1>9, <1>10 DEF path

LEMMA OwnersAct ==
    ASSUME TypeInv, SessionsExist, LineagesAudited, EffectsAudited, LineageUnfolds
    PROVE  OnlyOwnersAct
<1> SUFFICES ASSUME NEW s \in Sessions, NEW n \in DOMAIN chain[s],
                    NEW a \in chain[s][n].actions
             PROVE  \E m \in 0..MAX_HANDOFF_OWNER_DEPTH : \E line \in [0..m -> Sessions] :
                       /\ line[0] = a.handoff.source
                       /\ line[m] = s
                       /\ \A k \in 1..m : line[k] \in Heir(line[k - 1])
  BY Zenon DEF OnlyOwnersAct
<1>1. PICK at : at = [session |-> s, height |-> n - 1]
  OBVIOUS
<1>2. at \in Refs /\ at.session = s
  BY <1>1 DEF Refs
<1>3. chain[s] \in Seq(FinalisedBlock) /\ n \in 1..Len(chain[s])
  BY DEF TypeInv
<1>4. BlockAt(at) = chain[s][n] /\ chain[s][n] \in FinalisedBlock /\ chain[s] # <<>>
  BY <1>1, <1>3 DEF BlockAt
<1>5. Exists(s)
  BY Zenon, <1>4 DEF SessionsExist
<1>6. a \in HandoffAction /\ validate_handoff_action(a, at)
  <2>1. validate_handoff_action(a, at)
    BY Zenon, <1>2, <1>4 DEF EffectsAudited, BlockAudited
  <2> QED BY <1>4, <2>1 DEF FinalisedBlock
<1>7. PICK m \in handoff_owner_depths(s, a.handoff) : TRUE
  BY Zenon, <1>2, <1>6 DEF validate_handoff_action
<1>8. m \in 0..MAX_HANDOFF_OWNER_DEPTH /\ continuation_lineage(s)[m] = a.handoff.source
  BY Zenon, <1>7 DEF handoff_owner_depths
<1>9. a.handoff.source \in Sessions
  BY <1>6 DEF HandoffAction, SessionHandoff
<1>10. \E line \in [0..m -> Sessions] :
           /\ line[0] = continuation_lineage(s)[m]
           /\ line[m] = s
           /\ \A k \in 1..m : line[k] \in Heir(line[k - 1])
  BY ZenonT(30), <1>5, <1>8, <1>9, LineageIsLine
<1> QED BY Zenon, <1>8, <1>10

(* An archived block is below the head of its session, has no pending      *)
(* message, and touches settled handoffs only.                             *)
ColdSettled ==
    /\ \A ref \in cold :
          /\ ref \in Refs
          /\ ref.height + 1 < Len(chain[ref.session])
          /\ ref \notin outbox
          /\ \A h \in Touched(ref, BlockAt(ref)) : Closed(h)
    /\ \A h \in DOMAIN compact : IssuedAt(h) \in cold

(* A handoff that nothing more can be asked of stays so. *)
LEMMA ClosedStays ==
    ASSUME NEW h, NEW t, NEW u, t = resolve(h), u = resolve(h)', Progresses(t, u), Closed(h)
    PROVE  Closed(h)'
<1>1. \/ t.state \in {"Reclaimed", "Retired"}
      \/ t.state = "Consumed" /\ h.intent.copyable
  BY Zenon DEF Closed, terminal_is_final
<1>2. \/ u = t
      \/ u.state = "Retired"
  <2>1. t.state # "Issued" /\ t.state # "Cancelled"
    BY <1>1
  <2> QED BY <2>1 DEF Progresses, Issued, Cancelled, Retired
<1>3. \/ u.state \in {"Reclaimed", "Retired"}
      \/ u.state = "Consumed" /\ h.intent.copyable
  BY Zenon, <1>1, <1>2
<1> QED BY Zenon, <1>3 DEF Closed, terminal_is_final

(* What an archived block touches is in the index. *)
LEMMA TouchedKnown ==
    ASSUME EffectsAudited, NEW ref \in Refs
    PROVE  Touched(ref, BlockAt(ref)) \subseteq Known
BY Zenon DEF EffectsAudited, BlockAudited, Touched

LEMMA ColdStays ==
    ASSUME TypeInv, EffectsAudited, Grown, ColdSettled,
           \A h \in Known : Progresses(resolve(h), resolve(h)'),
           \A s \in Sessions : Len(chain[s]) <= Len(chain'[s]),
           NEW ref \in cold
    PROVE  /\ ref \in Refs'
           /\ ref.height + 1 < Len(chain'[ref.session])
           /\ \A h \in Touched(ref, BlockAt(ref))' : Closed(h)'
<1>1. /\ ref \in Refs /\ ref.height + 1 < Len(chain[ref.session])
      /\ \A h \in Touched(ref, BlockAt(ref)) : Closed(h)
  BY Zenon DEF ColdSettled
<1>2. ref \in Refs' /\ BlockAt(ref)' = BlockAt(ref)
  BY Zenon, <1>1 DEF Grown
<1>3. ref.session \in Sessions /\ ref.height \in Nat
  BY <1>1 DEF Refs, TypeInv
<1>4. ref.height + 1 < Len(chain'[ref.session])
  <2>1. Len(chain[ref.session]) \in Nat /\ Len(chain[ref.session]) <= Len(chain'[ref.session])
    BY <1>3 DEF TypeInv
  <2>2. ref.height + 1 \in Nat
    BY <1>3
  <2> QED BY <1>1, <2>1, <2>2
<1>5. Touched(ref, BlockAt(ref))' = Touched(ref, BlockAt(ref))
  BY Zenon, <1>2 DEF Touched, IssuedBy
<1>6. ASSUME NEW h \in Touched(ref, BlockAt(ref)) PROVE Closed(h)'
  <2>1. h \in Known /\ Closed(h)
    BY Zenon, <1>1, TouchedKnown
  <2>2. PICK t, u : t = resolve(h) /\ u = resolve(h)'
    OBVIOUS
  <2>3. Progresses(t, u)
    BY Zenon, <2>1, <2>2
  <2> QED BY ZenonT(30), <2>1, <2>2, <2>3, ClosedStays
<1> QED BY Zenon, <1>2, <1>4, <1>5, <1>6

(* Blocks are archived, and messages become pending, in no other steps. *)
LEMMA ColdCases ==
    ASSUME TypeInv, [Next]_vars
    PROVE  \/ UNCHANGED <<chain, full, compact, cold>> /\ outbox' \subseteq outbox
           \/ \E c \in Handles : \E p \in prepared[c] : commit_finalised(c, p)
           \/ \E s \in Sessions : \E n \in 1..Len(chain[s]) :
                 Offload([session |-> s, height |-> n - 1])
<1> USE DEF storeVars
<1>1. ASSUME \/ UNCHANGED vars
             \/ \E d : \/ prepare_block(d) \/ load_consensus_wal(d) \/ WriteWal(d)
                       \/ \E p : CommitRefused(d, p)
                       \/ \E s : Create(d, s) \/ Recover(d, s)
             \/ \E m : Acknowledge(m) \/ AppendEvidence(m)
      PROVE  UNCHANGED <<chain, full, compact, cold>> /\ outbox' \subseteq outbox
  BY Zenon, <1>1 DEF prepare_block, load_consensus_wal, WriteWal, CommitRefused, Recover,
     compare_and_set_consensus_wal, Acknowledge, acknowledge_outbox, AppendEvidence,
     compare_and_set_evidence, Create, create_session, vars
<1> QED BY ZenonT(30), <1>1, PlanTypes DEF Next, TypeInv

LEMMA ColdStep ==
    ASSUME IInv, RecoveryInv, ColdSettled, [Next]_vars
    PROVE  ColdSettled'
<1>1. /\ TypeInv /\ CandidatesChecked /\ CompactSettled /\ EffectsAudited
  BY Zenon DEF IInv, RecoveryInv
<1>2. Grown
  BY Zenon, StepGrows
<1>3. ASSUME \A h \in Known : Progresses(resolve(h), resolve(h)'),
             \A s \in Sessions : Len(chain[s]) <= Len(chain'[s]),
             NEW ref \in cold, ref \notin outbox'
      PROVE  (/\ ref \in Refs
              /\ ref.height + 1 < Len(chain[ref.session])
              /\ ref \notin outbox
              /\ \A h \in Touched(ref, BlockAt(ref)) : Closed(h))'
  BY ZenonT(30), <1>1, <1>2, <1>3, ColdStays
<1>4. \A ref \in cold : ref \notin outbox
  BY Zenon DEF ColdSettled
<1>5. \A s \in Sessions : Len(chain[s]) \in Nat
  BY <1>1 DEF TypeInv
<1>6. CASE UNCHANGED <<chain, full, compact, cold>> /\ outbox' \subseteq outbox
  <2>1. /\ chain' = chain /\ full' = full /\ compact' = compact /\ cold' = cold
        /\ outbox' \subseteq outbox
    BY <1>6
  <2>2. \A h \in Known : Progresses(resolve(h), resolve(h)')
    BY Zenon, <2>1 DEF Progresses, resolve
  <2>3. \A s \in Sessions : Len(chain[s]) <= Len(chain'[s])
    BY <1>5, <2>1
  <2>4. \A h \in DOMAIN compact' : IssuedAt(h) \in cold'
    BY Zenon, <2>1 DEF ColdSettled
  <2> QED BY Zenon, <1>3, <1>4, <2>1, <2>2, <2>3, <2>4 DEF ColdSettled, IssuedAt
<1>7. ASSUME NEW c \in Handles, NEW p \in prepared[c], commit_finalised(c, p)
      PROVE  ColdSettled'
  <2>1. /\ cold' = cold /\ compact' = compact
        /\ outbox' \subseteq outbox \cup {Place(p)}
    BY ZenonT(30), <1>1, <1>7, CommitFacts
  <2>2. \A h \in Known : Progresses(resolve(h), resolve(h)')
    BY ZenonT(30), <1>1, <1>7, CommitProgress
  <2>3. \A s \in Sessions : Len(chain[s]) <= Len(chain'[s])
    <3>1. Len(chain'[p.session]) = Len(chain[p.session]) + 1
      BY ZenonT(30), <1>1, <1>7, CommitExtends
    <3>2. \A s \in Sessions \ {p.session} : chain'[s] = chain[s]
      BY ZenonT(30), <1>1, <1>7, CommitExtends
    <3>3. \A s \in Sessions : \/ Len(chain'[s]) = Len(chain[s])
                              \/ Len(chain'[s]) = Len(chain[s]) + 1
      BY Zenon, <3>1, <3>2
    <3> QED BY <1>5, <3>3
  <2>4. \A ref \in cold : ref \notin outbox'
    <3>1. PICK at : at = Place(p)
      OBVIOUS
    <3>2. at \notin Refs
      BY ZenonT(30), <1>1, <1>7, <3>1, CommitBlocks
    <3> QED BY Zenon, <2>1, <3>1, <3>2 DEF ColdSettled
  <2>5. \A h \in DOMAIN compact' : IssuedAt(h) \in cold'
    BY Zenon, <2>1 DEF ColdSettled
  <2> QED BY Zenon, <1>3, <2>1, <2>2, <2>3, <2>4, <2>5 DEF ColdSettled, IssuedAt
<1>8. ASSUME NEW s \in Sessions, NEW n \in 1..Len(chain[s]),
             Offload([session |-> s, height |-> n - 1])
      PROVE  ColdSettled'
  <2>1. PICK at : at = [session |-> s, height |-> n - 1]
    OBVIOUS
  <2>2. offload_block(at)
    BY Zenon, <1>8, <2>1 DEF Offload
  <2>3. at \in Refs
    <3>1. n \in DOMAIN chain[s]
      BY <1>1 DEF TypeInv
    <3> QED BY <2>1, <3>1 DEF Refs
  <2>4. PICK b : b = BlockAt(at)
    OBVIOUS
  <2>5. /\ at.height + 1 < Len(chain[at.session])
        /\ at \notin outbox
        /\ at \notin cold => \A h \in Touched(at, b) : Closed(h)
        /\ cold' = cold \cup {at}
        /\ compact' = Put(compact, [h \in Compactable(at, b) |-> full[h]])
        /\ chain' = chain /\ outbox' = outbox
    BY Zenon, <2>2, <2>4 DEF offload_block, BlockAt
  <2>6. Known' = Known /\ \A h \in Known : resolve(h)' = resolve(h)
    BY Zenon, <1>1, <2>2, OffloadFacts
  <2>7. \A h \in Known : Progresses(resolve(h), resolve(h)')
    BY Zenon, <2>6 DEF Progresses
  <2>8. \A x \in Sessions : Len(chain[x]) <= Len(chain'[x])
    BY <1>5, <2>5
  <2>9. \A h \in DOMAIN compact' : IssuedAt(h) \in cold'
    <3>1. DOMAIN compact' = DOMAIN compact \cup Compactable(at, b)
      BY <2>5 DEF Put
    <3>2. \A h \in Compactable(at, b) : IssuedAt(h) = at
      BY <2>1 DEF Compactable, IssuedBy, IssuedAt
    <3> QED BY Zenon, <2>5, <3>1, <3>2 DEF ColdSettled
  <2>10. ASSUME at \notin cold
         PROVE  (/\ at \in Refs
                 /\ at.height + 1 < Len(chain[at.session])
                 /\ at \notin outbox
                 /\ \A h \in Touched(at, BlockAt(at)) : Closed(h))'
    <3>1. Refs' = Refs
      BY <2>5 DEF Refs
    <3>2. BlockAt(at)' = b
      BY Zenon, <2>4, <2>5 DEF BlockAt
    <3>3. Touched(at, BlockAt(at))' = Touched(at, b)
      BY Zenon, <3>2 DEF Touched, IssuedBy
    <3>4. ASSUME NEW h \in Touched(at, b) PROVE Closed(h)'
      <4>1. h \in Known /\ Closed(h)
        BY Zenon, <1>1, <2>3, <2>4, <2>5, <2>10, <3>4, TouchedKnown
      <4>2. PICK t : t = resolve(h) /\ t = resolve(h)'
        BY Zenon, <2>6, <4>1
      <4> QED BY Zenon, <4>1, <4>2 DEF Closed, terminal_is_final
    <3> QED BY Zenon, <2>3, <2>5, <3>1, <3>3, <3>4
  <2> QED BY Zenon, <1>3, <1>4, <2>5, <2>7, <2>8, <2>9, <2>10 DEF ColdSettled, IssuedAt
<1> QED BY Zenon, <1>1, <1>6, <1>7, <1>8, ColdCases

(* Lifecycle actions are taken by the owners of a handoff only, and a      *)
(* block is archived when nothing can be asked of its handoffs any more,   *)
(* in every state (handoff_owner_depths of session/src/lifecycle.rs,       *)
(* offload_block of session-store-rocksdb/src/archive.rs).                 *)
THEOREM OwnersEndHandoffs == Spec => []HandoffsKept
<1>1. Init => ColdSettled
  <2> SUFFICES ASSUME Init PROVE ColdSettled
    OBVIOUS
  <2>1. cold = {} /\ DOMAIN compact = {}
    BY DEF Init
  <2> QED BY Zenon, <2>1 DEF ColdSettled
<1>2. IInv /\ RecoveryInv /\ ColdSettled /\ [Next]_vars => ColdSettled'
  BY Zenon, ColdStep
<1>3. ASSUME IInv, RecoveryInv, ColdSettled, LineageUnfolds PROVE HandoffsKept
  <2>1. TypeInv /\ SessionsExist /\ LineagesAudited /\ EffectsAudited /\ CompactSettled
    BY Zenon, <1>3 DEF IInv, RecoveryInv
  <2>2. OnlyOwnersAct
    BY Zenon, <1>3, <2>1, OwnersAct
  <2>3. \A ref \in cold :
            /\ ref.height + 1 < Len(chain[ref.session])
            /\ ref \notin outbox
            /\ \A h \in Touched(ref, chain[ref.session][ref.height + 1]) :
                  \/ resolve(h).state \in {"Reclaimed", "Retired"}
                  \/ resolve(h).state = "Consumed" /\ h.intent.copyable
    BY Zenon, <1>3 DEF ColdSettled, Closed, terminal_is_final, BlockAt
  <2>4. \A h \in DOMAIN compact : IssuedAt(h) \in cold /\ terminal_is_final(compact[h])
    BY Zenon, <1>3, <2>1 DEF ColdSettled, CompactSettled
  <2> QED BY Zenon, <2>1, <2>2, <2>3, <2>4 DEF HandoffsKept, ArchivedIsSettled, CompactSettled
<1>4. IInv /\ RecoveryInv /\ ColdSettled /\ LineageUnfolds => HandoffsKept
  BY Zenon, <1>3
<1> QED BY <1>1, <1>2, <1>4, Invariance, RecoveryInvariance, LineageUnfolding, PTL DEF Spec
=============================================================================
