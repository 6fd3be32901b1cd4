------------------------ MODULE TendermintInvariant -------------------------
(***************************************************************************)
(* The inductive invariant of Tendermint, and that every kind of step      *)
(* preserves it when more validators have no less voting power.            *)
(***************************************************************************)
EXTENDS Tendermint, TLAPS

-----------------------------------------------------------------------------
(* The inductive invariant. *)

Committee == SUBSET Validators

(* What the induction needs of voting power.                               *)
PowerGrows ==
    \A T \in Committee : \A S \in SUBSET T :
        Power(S) \in Nat /\ Power(T) \in Nat /\ Power(S) <= Power(T)

RoundState ==
    [round: Rounds, locked_value: Values \cup {Nil}, locked_round: Rounds \cup {None},
     valid_value: Values \cup {Nil}, valid_round: Rounds \cup {None},
     proposal: Proposal \cup {Nil}, voted: SUBSET Steps,
     quorums: SUBSET (Rounds \X Values), decision: Values \cup {Nil}]

(* A lock and a valid value have their rounds, and a lock is not of a      *)
(* round to come.                                                          *)
Shape(s) ==
    /\ s \in RoundState
    /\ (s.locked_value = Nil) <=> (s.locked_round = None)
    /\ (s.valid_value = Nil) <=> (s.valid_round = None)
    /\ s.locked_round <= s.round

TypeInv ==
    /\ state \in [Correct -> RoundState]
    /\ wal \in [Correct -> RoundState]
    /\ \A v \in Correct : Shape(state[v]) /\ Shape(wal[v])
    /\ proposals \subseteq Proposal
    /\ votes \subseteq Vote

(* The log is at most some rounds and quorums behind, and never a lock. *)
LogInv ==
    \A v \in Correct :
        /\ wal[v].round <= state[v].round
        /\ wal[v].round = state[v].round => wal[v].voted \subseteq state[v].voted
        /\ wal[v].locked_value = state[v].locked_value
        /\ wal[v].locked_round = state[v].locked_round

(* Every vote that was sent counts in the log. *)
SentInv ==
    \A w \in votes :
        /\ w.round <= wal[w.validator].round
        /\ w.round = wal[w.validator].round => w.step \in wal[w.validator].voted

VotesOnce ==
    \A w, u \in votes :
        w.validator = u.validator /\ w.round = u.round /\ w.step = u.step => w = u

(* Who precommits a block has locked it, or since then a block of a later  *)
(* round.                                                                  *)
LockInv ==
    \A w \in votes :
        w.step = "Precommit" /\ w.value # Nil =>
            /\ w.round <= wal[w.validator].locked_round
            /\ w.round = wal[w.validator].locked_round =>
                   w.value = wal[w.validator].locked_value
            /\ HasQuorum(w.round, "Prevote", w.value)

(* What is retained as a prevote quorum, or locked, was one. *)
QuorumInv ==
    \A v \in Correct : \A s \in {state[v], wal[v]} :
        /\ \A r \in Rounds, x \in Values :
               <<r, x>> \in s.quorums => HasQuorum(r, "Prevote", x)
        /\ s.locked_value # Nil => HasQuorum(s.locked_round, "Prevote", s.locked_value)

(* A prevote against an own earlier precommit is answered for by a prevote *)
(* quorum of a round in between.                                           *)
Justified(u) ==
    \A w \in votes :
        /\ w.validator = u.validator
        /\ w.step = "Precommit"
        /\ w.value \notin {Nil, u.value}
        /\ w.round < u.round
        => \E r \in Rounds : /\ w.round <= r
                             /\ r < u.round
                             /\ HasQuorum(r, "Prevote", u.value)

Prevotes(r, x) == {w \in votes : w.step = "Prevote" /\ w.round = r /\ w.value = x}

JustifiedVoters(r, x) ==
    {w.validator : w \in {u \in Prevotes(r, x) : Justified(u)}} \cup Byzantine

(* A prevote that is not, by one who had locked the block in this very     *)
(* round, comes after a quorum of such that are.                           *)
JustifiedInv ==
    \A u \in votes :
        u.step = "Prevote" /\ u.value # Nil =>
            Justified(u) \/ Power(JustifiedVoters(u.round, u.value)) >= quorum_power

IInv ==
    /\ TypeInv
    /\ LogInv
    /\ SentInv
    /\ VotesOnce
    /\ LockInv
    /\ QuorumInv
    /\ JustifiedInv

-----------------------------------------------------------------------------
(* What a step does, whichever action takes it. *)

KnownQuorums(n) ==
    \A r \in Rounds, x \in Values : <<r, x>> \in n.quorums => HasQuorum(r, "Prevote", x)

SameLock(n, s) == n.locked_value = s.locked_value /\ n.locked_round = s.locked_round

(* Messages are received, a round ends, or the log is read. *)
QuietStep(v, n) ==
    /\ Shape(n)
    /\ state' = [state EXCEPT ![v] = n]
    /\ UNCHANGED <<wal, votes>>
    /\ wal[v].round <= n.round
    /\ wal[v].round = n.round => wal[v].voted \subseteq n.voted
    /\ SameLock(n, wal[v])
    /\ KnownQuorums(n)

(* A vote is sent; the log is then the state itself. *)
CastStep(v, n, step, x) ==
    /\ Shape(n)
    /\ state' = [state EXCEPT ![v] = n]
    /\ wal' = [wal EXCEPT ![v] = n]
    /\ votes' = votes \cup {[round |-> n.round, step |-> step, value |-> x, validator |-> v]}
    /\ n.round = state[v].round
    /\ step \notin state[v].voted
    /\ n.voted = state[v].voted \cup {step}
    /\ KnownQuorums(n)

PrevoteStep(v, n, x) ==
    /\ CastStep(v, n, "Prevote", x)
    /\ SameLock(n, state[v])
    /\ \/ x = Nil
       \/ n.locked_value \in {Nil, x}
       \/ \E r \in Rounds : n.locked_round <= r /\ r < n.round /\ <<r, x>> \in n.quorums

PrecommitStep(v, n, x) ==
    /\ CastStep(v, n, "Precommit", x)
    /\ IF x = Nil THEN SameLock(n, state[v])
       ELSE /\ n.locked_value = x
            /\ n.locked_round = n.round
            /\ HasQuorum(n.round, "Prevote", x)

AnyStep ==
    \E v \in Correct, n \in RoundState :
        \/ QuietStep(v, n)
        \/ \E x \in Values \cup {Nil} : PrevoteStep(v, n, x) \/ PrecommitStep(v, n, x)

(* A validator starts with a round state of the right form.                *)
LEMMA InitialShape == Shape(new_round_state)
BY CommitteeAssumption DEF Shape, new_round_state, RoundState, Rounds, None

(* A prevote quorum leaves a round state of the right type.                *)
LEMMA QuorumType ==
    ASSUME NEW s \in RoundState, NEW known \in SUBSET (Rounds \X Values),
           NEW r \in Rounds, NEW x \in Values
    PROVE  [s EXCEPT !.quorums = known, !.valid_value = x, !.valid_round = r] \in RoundState
<1>1. s \in RoundState /\ r \in Rounds \cup {None} /\ x \in Values \cup {Nil}
  OBVIOUS
<1> QED BY ZenonT(30), <1>1 DEF RoundState

(* The actions that send nothing.                                          *)
LEMMA QuietSteps ==
    ASSUME IInv, NEW v \in Correct,
           \/ Timeout(v)
           \/ Restart(v)
           \/ \E r \in Rounds, x \in Values : OnLatePrevotes(v, r, x) \/ OnPrecommits(v, r, x)
    PROVE  (\E n \in RoundState : QuietStep(v, n)) /\ proposals' \subseteq Proposal
<1> USE DEF IInv, TypeInv
<1>1. /\ Shape(state[v]) /\ Shape(wal[v])
      /\ KnownQuorums(state[v]) /\ KnownQuorums(wal[v])
      /\ SameLock(state[v], wal[v])
  BY DEF QuorumInv, KnownQuorums, LogInv, SameLock
<1>2. CASE Timeout(v)
  <2> DEFINE n == advance_round(state[v])
  <2>1. state[v].round + 1 \in Rounds
    BY <1>1, <1>2, CommitteeAssumption DEF Timeout, Shape, RoundState, Rounds
  <2>2. n \in RoundState
    BY ZenonT(30), <1>1, <2>1 DEF advance_round, Shape, RoundState
  <2>3. /\ n.round = state[v].round + 1
        /\ SameLock(n, state[v])
        /\ n.valid_value = state[v].valid_value /\ n.valid_round = state[v].valid_round
        /\ n.quorums = state[v].quorums
    BY ZenonT(30), <1>1 DEF advance_round, SameLock, Shape, RoundState
  <2>4. /\ state[v].round \in Nat /\ wal[v].round \in Nat
        /\ state[v].locked_round \in Int
    BY SMTT(30), <1>1 DEF Shape, RoundState, Rounds, None
  <2>5. state' = [state EXCEPT ![v] = n] /\ UNCHANGED <<wal, proposals, votes>>
    BY <1>2 DEF Timeout, Becomes
  <2> HIDE DEF n
  <2>6. state[v].locked_round <= n.round /\ wal[v].round < n.round
    BY <1>1, <2>3, <2>4 DEF Shape, LogInv
  <2>7. Shape(n)
    BY ZenonT(30), <1>1, <2>2, <2>3, <2>6 DEF Shape, SameLock
  <2>8. SameLock(n, wal[v]) /\ KnownQuorums(n)
    BY ZenonT(30), <1>1, <2>3 DEF SameLock, KnownQuorums
  <2>9. wal[v].round <= n.round /\ wal[v].round # n.round
    BY <2>3, <2>4, <2>6
  <2>10. QuietStep(v, n)
    BY ZenonT(30), <2>5, <2>7, <2>8, <2>9 DEF QuietStep
  <2> QED BY ZenonT(30), <2>2, <2>5, <2>10
<1>3. CASE Restart(v)
  <2>1. QuietStep(v, wal[v])
    BY SMTT(30), <1>1, <1>3 DEF Restart, QuietStep, Becomes, SameLock, Shape, RoundState, Rounds
  <2> QED BY SMTT(30), <1>3, <2>1 DEF Restart
<1>4. ASSUME NEW r \in Rounds, NEW x \in Values, OnLatePrevotes(v, r, x)
      PROVE  (\E n \in RoundState : QuietStep(v, n)) /\ proposals' \subseteq Proposal
  <2> DEFINE n == receive_prevotes(state[v], r, x)
  <2>1. x # Nil
    BY CommitteeAssumption
  <2>2. n = [state[v] EXCEPT !.quorums = @ \cup {<<r, x>>}, !.valid_value = x, !.valid_round = r]
    BY SMTT(30), <2>1 DEF receive_prevotes
  <2> HIDE DEF n
  <2>3. n \in RoundState
    <3>1. state[v].quorums \cup {<<r, x>>} \in SUBSET (Rounds \X Values)
      BY SMTT(30), <1>1 DEF Shape, RoundState
    <3>2. state[v] \in RoundState
      BY SMTT(30), <1>1 DEF Shape
    <3> QED BY ZenonT(30), <2>2, <3>1, <3>2, QuorumType
  <2>4. /\ n.round = state[v].round /\ n.voted = state[v].voted
        /\ SameLock(n, state[v])
        /\ n.valid_value = x /\ n.valid_round = r
        /\ n.quorums = state[v].quorums \cup {<<r, x>>}
    BY ZenonT(30), <1>1, <2>2 DEF SameLock, Shape, RoundState
  <2>5. /\ state' = [state EXCEPT ![v] = n] /\ UNCHANGED <<wal, proposals, votes>>
        /\ HasQuorum(r, "Prevote", x)
    BY <1>4 DEF OnLatePrevotes, Becomes, n
  <2>6. r # None
    BY DEF Rounds, None
  <2>7. Shape(n)
    BY ZenonT(30), <1>1, <2>1, <2>3, <2>4, <2>6 DEF Shape, SameLock
  <2>8. KnownQuorums(n)
    BY ZenonT(30), <1>1, <2>4, <2>5 DEF KnownQuorums
  <2>9. SameLock(n, wal[v])
    BY ZenonT(30), <1>1, <2>4 DEF SameLock
  <2>10. QuietStep(v, n)
    BY ZenonT(30), <2>4, <2>5, <2>7, <2>8, <2>9 DEF QuietStep, LogInv
  <2> QED BY ZenonT(30), <2>3, <2>5, <2>10
<1>5. ASSUME NEW r \in Rounds, NEW x \in Values, OnPrecommits(v, r, x)
      PROVE  (\E n \in RoundState : QuietStep(v, n)) /\ proposals' \subseteq Proposal
  <2> DEFINE n == receive_precommits(state[v], x)
  <2>1. Shape(n) /\ n \in RoundState
    BY ZenonT(30), <1>1 DEF receive_precommits, Shape, RoundState
  <2>2. QuietStep(v, n)
    BY ZenonT(30), <1>1, <1>5, <2>1
    DEF OnPrecommits, receive_precommits, QuietStep, Becomes, LogInv, SameLock, KnownQuorums,
        Shape, RoundState
  <2> QED BY <1>5, <2>1, <2>2 DEF OnPrecommits
<1> QED BY SMTT(30), <1>2, <1>3, <1>4, <1>5

(* A prevote follows prevote_value of the state with the proposal in it. *)
LEMMA CastPrevote ==
    ASSUME IInv, NEW v \in Correct, NEW t \in RoundState,
           Cast(v, t, "Prevote", prevote_value(t)),
           \/ t = state[v] /\ t.proposal = Nil
           \/ \E p \in Proposal : Acceptable(state[v], p) /\ t = receive_proposal(state[v], p)
    PROVE  \E n \in RoundState, x \in Values \cup {Nil} : PrevoteStep(v, n, x)
<1> USE DEF IInv, TypeInv
<1> DEFINE n == [t EXCEPT !.voted = @ \cup {"Prevote"}]
           x == prevote_value(t)
<1>1. /\ Shape(state[v])
      /\ KnownQuorums(state[v])
  BY DEF QuorumInv, KnownQuorums
<1>2. /\ t.round = state[v].round /\ t.voted = state[v].voted
      /\ t.quorums = state[v].quorums /\ SameLock(t, state[v])
      /\ t.valid_value = state[v].valid_value /\ t.valid_round = state[v].valid_round
  BY <1>1 DEF receive_proposal, SameLock, Shape, RoundState
<1>3. Shape(n) /\ n \in RoundState
  BY ZenonT(30), <1>1, <1>2 DEF Shape, RoundState, Steps, SameLock
<1>4. x \in Values \cup {Nil}
  BY DEF prevote_value, RoundState, Proposal
<1>5. CastStep(v, n, "Prevote", x)
  BY <1>1, <1>2, <1>3, <1>4 DEF Cast, CastStep, Becomes, Logged, KnownQuorums, RoundState
<1>6. SameLock(n, state[v])
  BY <1>2 DEF SameLock, RoundState
<1>7. \/ x = Nil
      \/ n.locked_value \in {Nil, x}
      \/ \E r \in Rounds : n.locked_round <= r /\ r < n.round /\ <<r, x>> \in n.quorums
  <2> SUFFICES ASSUME x # Nil, n.locked_value \notin {Nil, x}
               PROVE  \E r \in Rounds : n.locked_round <= r /\ r < n.round /\ <<r, x>> \in n.quorums
    OBVIOUS
  <2>1. /\ t.proposal # Nil /\ x = t.proposal.value /\ Unlocks(t)
    BY DEF prevote_value, RoundState
  <2>2. PICK p \in Proposal : Acceptable(state[v], p) /\ t = receive_proposal(state[v], p)
    BY <2>1
  <2>3. t.proposal = p
    BY <1>1, <2>2 DEF receive_proposal, Shape, RoundState
  <2>4. p.valid_round >= t.locked_round /\ <<p.valid_round, x>> \in t.quorums
    BY <2>1, <2>3 DEF Unlocks
  <2>5. p.valid_round < t.round
    BY <2>2, <1>2 DEF Acceptable
  <2>6. p.valid_round \in Rounds
    BY <2>4 DEF RoundState
  <2>7. n.round = t.round /\ n.locked_round = t.locked_round /\ n.quorums = t.quorums
    BY DEF RoundState
  <2>8. t.locked_round <= p.valid_round
    BY <2>4, <2>6 DEF RoundState, Rounds, None
  <2> QED BY ZenonT(30), <2>4, <2>5, <2>6, <2>7, <2>8
<1> QED BY ZenonT(30), <1>3, <1>4, <1>5, <1>6, <1>7 DEF PrevoteStep

(* The actions that prevote: on a proposal of others, on an own one, and   *)
(* without one.                                                            *)
LEMMA PrevoteSteps ==
    ASSUME IInv, NEW v \in Correct,
           OnProposal(v) \/ OnProposeTimeout(v) \/ \E x \in Values : Propose(v, x)
    PROVE  /\ \E n \in RoundState, x \in Values \cup {Nil} : PrevoteStep(v, n, x)
           /\ proposals' \subseteq Proposal
<1> USE DEF IInv, TypeInv
<1>1. \A p \in Proposal : receive_proposal(state[v], p) \in RoundState
  <2>1. state[v] \in RoundState
    OBVIOUS
  <2> QED BY ZenonT(30), <2>1 DEF receive_proposal, RoundState
<1>2. CASE OnProposal(v)
  <2>1. PICK p \in Offered(state[v].round) :
            /\ Acceptable(state[v], p)
            /\ Cast(v, receive_proposal(state[v], p), "Prevote",
                    prevote_value(receive_proposal(state[v], p)))
            /\ UNCHANGED proposals
    BY <1>2 DEF OnProposal
  <2>2. p \in Proposal
    BY DEF Offered, Proposal, RoundState
  <2> QED BY <2>1, <2>2, <1>1, CastPrevote
<1>3. CASE OnProposeTimeout(v)
  BY SMTT(30), <1>3, CastPrevote DEF OnProposeTimeout
<1>4. ASSUME NEW x \in Values, Propose(v, x)
      PROVE  /\ \E n \in RoundState, y \in Values \cup {Nil} : PrevoteStep(v, n, y)
             /\ proposals' \subseteq Proposal
  <2> DEFINE p == [round |-> state[v].round, value |-> x, valid_round |-> state[v].valid_round]
  <2>1. p \in Proposal
    BY SMTT(30) DEF Proposal, RoundState
  <2>2. /\ Acceptable(state[v], p)
        /\ Cast(v, receive_proposal(state[v], p), "Prevote",
                prevote_value(receive_proposal(state[v], p)))
        /\ proposals' = proposals \cup {p}
    BY <1>4 DEF Propose
  <2> HIDE DEF p
  <2> QED BY SMTT(30), <2>1, <2>2, <1>1, CastPrevote
<1> QED BY <1>2, <1>3, <1>4

(* The action that precommits.                                             *)
LEMMA PrecommitSteps ==
    ASSUME IInv, NEW v \in Correct, NEW x \in Values \cup {Nil}, OnPrevotes(v, x)
    PROVE  (\E n \in RoundState : PrecommitStep(v, n, x)) /\ proposals' \subseteq Proposal
<1> USE DEF IInv, TypeInv
<1> DEFINE s == receive_prevotes(state[v], state[v].round, x)
           t == precommit_value(s, x)
           n == [t EXCEPT !.voted = @ \cup {"Precommit"}]
<1>1. /\ Shape(state[v])
      /\ KnownQuorums(state[v])
  BY DEF QuorumInv, KnownQuorums
<1>2. /\ HasQuorum(s.round, "Prevote", x)
      /\ Cast(v, t, "Precommit", x)
      /\ UNCHANGED proposals
  BY DEF OnPrevotes
<1>3. CASE x = Nil
  <2>1. s = state[v] /\ t = state[v]
    BY <1>3 DEF receive_prevotes, precommit_value
  <2>2. Shape(n) /\ n \in RoundState
    BY ZenonT(30), <1>1, <2>1 DEF Shape, RoundState, Steps
  <2>3. CastStep(v, n, "Precommit", x)
    BY <1>1, <1>2, <2>1, <2>2 DEF Cast, CastStep, Becomes, Logged, KnownQuorums, RoundState
  <2>4. SameLock(n, state[v])
    BY <1>1, <2>1 DEF SameLock, RoundState, Shape
  <2> QED BY SMTT(30), <1>2, <1>3, <2>2, <2>3, <2>4 DEF PrecommitStep
<1>4. CASE x # Nil
  <2>1. t = [state[v] EXCEPT !.quorums = @ \cup {<<state[v].round, x>>},
                             !.valid_value = x, !.valid_round = state[v].round,
                             !.locked_value = x, !.locked_round = state[v].round]
    BY ZenonT(30), <1>1, <1>4 DEF receive_prevotes, precommit_value, Shape, RoundState
  <2>2. s.round = state[v].round
    BY <1>1, <1>4 DEF receive_prevotes, Shape, RoundState
  <2> HIDE DEF s, t
  <2>3. t \in RoundState
    <3>1. state[v].quorums \cup {<<state[v].round, x>>} \in SUBSET (Rounds \X Values)
      BY SMTT(30), <1>1, <1>4 DEF Shape, RoundState
    <3> QED BY ZenonT(30), <1>1, <1>4, <2>1, <3>1 DEF Shape, RoundState
  <2>4. /\ t.locked_value = x /\ t.valid_value = x
        /\ t.locked_round = t.round /\ t.valid_round = t.round
    BY <1>1, <2>1 DEF Shape, RoundState
  <2>5. /\ n \in RoundState /\ n.round = t.round
        /\ n.locked_value = x /\ n.valid_value = x
        /\ n.locked_round = n.round /\ n.valid_round = n.round
    BY ZenonT(30), <2>3, <2>4 DEF RoundState, Steps
  <2> HIDE DEF n
  <2>6. Shape(n) /\ n \in RoundState /\ n.locked_value = x /\ n.locked_round = n.round
    BY <1>4, <2>5 DEF Shape, RoundState, Rounds, None
  <2> USE DEF n
  <2>7. KnownQuorums(n)
    <3>1. n.quorums = state[v].quorums \cup {<<state[v].round, x>>}
      BY ZenonT(30), <1>1, <2>1, <2>3 DEF Shape, RoundState
    <3>2. HasQuorum(state[v].round, "Prevote", x)
      BY Zenon, <1>2, <2>2
    <3> HIDE DEF n
    <3>3. \A r \in Rounds, y \in Values :
             <<r, y>> \in n.quorums => <<r, y>> \in state[v].quorums \/ (r = state[v].round /\ y = x)
      BY <3>1
    <3> QED BY Zenon, <1>1, <3>2, <3>3 DEF KnownQuorums
  <2>8. CastStep(v, n, "Precommit", x)
    BY ZenonT(30), <1>1, <1>2, <2>1, <2>3, <2>6, <2>7
       DEF Cast, CastStep, Becomes, Logged, RoundState, Shape
  <2> QED BY ZenonT(30), <1>2, <1>4, <2>1, <2>2, <2>3, <2>6, <2>8 DEF PrecommitStep, RoundState
<1> QED BY SMTT(30), <1>3, <1>4

(* There are no other steps.                                               *)
LEMMA EveryStep ==
    ASSUME IInv, Next
    PROVE  AnyStep /\ proposals' \subseteq Proposal
<1> PICK v \in Correct :
        \/ OnProposal(v) \/ OnProposeTimeout(v) \/ Timeout(v) \/ Restart(v)
        \/ \E x \in Values : Propose(v, x)
        \/ \E x \in Values \cup {Nil} : OnPrevotes(v, x)
        \/ \E r \in Rounds, x \in Values : OnLatePrevotes(v, r, x)
        \/ \E r \in Rounds, x \in Values : OnPrecommits(v, r, x)
  BY DEF Next
<1>1. CASE OnProposal(v) \/ OnProposeTimeout(v) \/ \E x \in Values : Propose(v, x)
  BY SMTT(30), <1>1, PrevoteSteps DEF AnyStep
<1>2. CASE \E x \in Values \cup {Nil} : OnPrevotes(v, x)
  BY SMTT(30), <1>2, PrecommitSteps DEF AnyStep
<1>3. CASE \/ Timeout(v) \/ Restart(v)
           \/ \E r \in Rounds, x \in Values : OnLatePrevotes(v, r, x) \/ OnPrecommits(v, r, x)
  BY <1>3, QuietSteps DEF AnyStep
<1> QED BY <1>1, <1>2, <1>3

-----------------------------------------------------------------------------
(* Each kind of step preserves the invariant. *)

(* Nothing the invariant speaks of is disturbed while no vote is sent:     *)
(* what was timed out, received or read from the log agrees with the       *)
(* votes.                                                                  *)
LEMMA QuietPreserves ==
    ASSUME IInv, proposals' \subseteq Proposal,
           NEW v \in Correct, NEW n \in RoundState, QuietStep(v, n)
    PROVE  IInv'
<1> USE DEF IInv
<1>1. /\ votes' = votes /\ wal' = wal /\ state' = [state EXCEPT ![v] = n]
      /\ Shape(n) /\ KnownQuorums(n) /\ SameLock(n, wal[v])
      /\ wal[v].round <= n.round
      /\ wal[v].round = n.round => wal[v].voted \subseteq n.voted
  BY DEF QuietStep
<1>2. \A r, step, x : HasQuorum(r, step, x)' <=> HasQuorum(r, step, x)
  BY <1>1 DEF HasQuorum
<1>3. TypeInv'
  BY <1>1 DEF TypeInv
<1>4. LogInv'
  BY SMTT(30), <1>1 DEF LogInv, TypeInv, SameLock
<1>5. SentInv' /\ VotesOnce'
  BY <1>1 DEF SentInv, VotesOnce
<1>6. LockInv'
  BY <1>1, <1>2 DEF LockInv
<1>7. QuorumInv'
  <2> SUFFICES ASSUME NEW u \in Correct, NEW t \in {state'[u], wal'[u]}
               PROVE  /\ \A r \in Rounds, x \in Values :
                             <<r, x>> \in t.quorums => HasQuorum(r, "Prevote", x)
                      /\ t.locked_value # Nil => HasQuorum(t.locked_round, "Prevote", t.locked_value)
    BY <1>2 DEF QuorumInv
  <2>1. CASE t \in {state[u], wal[u]}
    BY <2>1 DEF QuorumInv
  <2>2. CASE t = n /\ u = v
    <3>1. n.locked_value # Nil => HasQuorum(n.locked_round, "Prevote", n.locked_value)
      BY <1>1 DEF QuorumInv, SameLock
    <3> QED BY SMTT(30), <1>1, <2>2, <3>1 DEF KnownQuorums
  <2> QED BY SMTT(30), <1>1, <2>1, <2>2 DEF TypeInv
<1>8. JustifiedInv'
  <2>1. \A u : Justified(u)' <=> Justified(u)
    BY SMTT(30), <1>1, <1>2 DEF Justified
  <2>2. \A r, x : JustifiedVoters(r, x)' = JustifiedVoters(r, x)
    BY SMTT(30), <1>1, <2>1 DEF JustifiedVoters, Prevotes
  <2> QED BY SMTT(30), <1>1, <2>1, <2>2 DEF JustifiedInv
<1> QED BY SMTT(30), <1>3, <1>4, <1>5, <1>6, <1>7, <1>8

(* A prevote quorum holds one of prevotes that are answered for. *)
LEMMA QuorumJustified ==
    ASSUME JustifiedInv, NEW r \in Rounds, NEW x \in Values, HasQuorum(r, "Prevote", x)
    PROVE  Power(JustifiedVoters(r, x)) >= quorum_power
<1>1. CASE \A u \in Prevotes(r, x) : Justified(u)
  <2>1. {u \in Prevotes(r, x) : Justified(u)}
           = {u \in votes : u.round = r /\ u.step = "Prevote" /\ u.value = x}
    BY <1>1 DEF Prevotes
  <2> QED BY ZenonT(30), <2>1 DEF HasQuorum, vote_power, JustifiedVoters
<1>2. CASE \E u \in Prevotes(r, x) : ~ Justified(u)
  BY <1>2, CommitteeAssumption DEF JustifiedInv, Prevotes
<1> QED BY <1>1, <1>2

(* Who precommits a block has it locked, and a precommit replaces only a   *)
(* lock of an earlier round.                                               *)
LEMMA LockKept ==
    ASSUME TypeInv, LogInv, SentInv, LockInv,
           NEW v \in Correct, NEW n \in RoundState, NEW x \in Values \cup {Nil},
           PrecommitStep(v, n, x),
           \A r, s, y : HasQuorum(r, s, y) => HasQuorum(r, s, y)'
    PROVE  LockInv'
<1> DEFINE ballot == [round |-> n.round, step |-> "Precommit", value |-> x, validator |-> v]
<1>1. /\ votes' = votes \cup {ballot} /\ wal' = [wal EXCEPT ![v] = n]
      /\ n.round = state[v].round /\ Shape(n)
      /\ "Precommit" \notin state[v].voted
  BY DEF PrecommitStep, CastStep
<1>2. \/ x = Nil /\ SameLock(n, wal[v])
      \/ /\ x # Nil /\ n.locked_value = x /\ n.locked_round = n.round
         /\ HasQuorum(n.round, "Prevote", x)
  BY DEF PrecommitStep, SameLock, LogInv
<1>3. /\ ballot.round = n.round /\ ballot.step = "Precommit" /\ ballot.value = x
      /\ ballot.validator = v
  OBVIOUS
<1> HIDE DEF ballot
<1>4. wal \in [Correct -> RoundState] /\ votes \subseteq Vote
  BY DEF TypeInv
<1>5. wal'[v] = n /\ \A u \in Correct \ {v} : wal'[u] = wal[u]
  BY <1>1, <1>4
<1> SUFFICES ASSUME NEW w \in votes', w.step = "Precommit", w.value # Nil
             PROVE  /\ w.round <= wal'[w.validator].locked_round
                    /\ w.round = wal'[w.validator].locked_round =>
                           w.value = wal'[w.validator].locked_value
                    /\ HasQuorum(w.round, "Prevote", w.value)'
  BY DEF LockInv
<1>6. CASE w = ballot
  <2>1. n.round <= n.round
    BY DEF RoundState, Rounds
  <2> QED BY <1>2, <1>3, <1>5, <1>6, <2>1
<1>7. CASE w \in votes /\ w.validator # v
  <2>1. wal'[w.validator] = wal[w.validator]
    BY <1>4, <1>5, <1>7 DEF Vote
  <2> QED BY ZenonT(30), <1>7, <2>1 DEF LockInv
<1>8. CASE w \in votes /\ w.validator = v
  <2>1. /\ w.round <= wal[v].locked_round
        /\ w.round = wal[v].locked_round => w.value = wal[v].locked_value
        /\ HasQuorum(w.round, "Prevote", w.value)'
    BY ZenonT(30), <1>8 DEF LockInv
  <2>2. w.round \in Nat /\ wal[v].round \in Nat /\ n.round \in Nat
    <3>1. wal[v] \in RoundState /\ w \in Vote
      BY <1>4, <1>8
    <3> QED BY <3>1 DEF Vote, RoundState, Rounds
  <2>3. /\ w.round <= wal[v].round
        /\ w.round = wal[v].round => "Precommit" \in wal[v].voted
    BY ZenonT(30), <1>8 DEF SentInv
  <2>4. /\ wal[v].round <= n.round
        /\ wal[v].round = n.round => "Precommit" \notin wal[v].voted
    BY ZenonT(30), <1>1 DEF LogInv
  <2>5. w.round < n.round
    BY <2>2, <2>3, <2>4
  <2>6. w.round <= n.round /\ w.round # n.round
    BY <2>2, <2>5
  <2> QED BY ZenonT(30), <1>2, <1>5, <1>8, <2>1, <2>6 DEF SameLock
<1> QED BY ZenonT(30), <1>1, <1>6, <1>7, <1>8

-----------------------------------------------------------------------------
(* Votes only accumulate, so a quorum stays one. *)
LEMMA MoreVotes ==
    ASSUME PowerGrows,
           NEW us \in SUBSET Vote, NEW ws \in SUBSET us, NEW r, NEW step, NEW x,
           vote_power(ws, r, step, x) >= quorum_power
    PROVE  vote_power(us, r, step, x) >= quorum_power
<1> DEFINE A == {w.validator : w \in {u \in ws : u.round = r /\ u.step = step /\ u.value = x}}
                    \cup Byzantine
           B == {w.validator : w \in {u \in us : u.round = r /\ u.step = step /\ u.value = x}}
                    \cup Byzantine
<1>1. A \subseteq B
  OBVIOUS
<1>2. B \in Committee
  BY CommitteeAssumption DEF Committee, Vote, Correct
<1>3. A \in Committee
  BY <1>1, <1>2 DEF Committee
<1>4. Power(A) >= quorum_power
  BY DEF vote_power
<1> HIDE DEF A, B
<1>5. Power(A) <= Power(B) /\ Power(A) \in Nat /\ Power(B) \in Nat
  BY SMTT(30), <1>1, <1>2 DEF PowerGrows
<1>6. Power(B) >= quorum_power
  BY <1>4, <1>5, CommitteeAssumption
<1> QED BY <1>6 DEF vote_power, B

-----------------------------------------------------------------------------
(* Each vote preserves the invariant. *)

(* What every vote preserves. *)
LEMMA CastPreserves ==
    ASSUME PowerGrows, TypeInv, LogInv, SentInv, VotesOnce, proposals' \subseteq Proposal,
           NEW v \in Correct, NEW n \in RoundState, NEW step \in Steps,
           NEW x \in Values \cup {Nil}, CastStep(v, n, step, x)
    PROVE  /\ TypeInv' /\ LogInv' /\ SentInv' /\ VotesOnce'
           /\ \A r, s, y : HasQuorum(r, s, y) => HasQuorum(r, s, y)'
           /\ \A u \in votes : Justified(u) => Justified(u)'
           /\ \A r, y : Power(JustifiedVoters(r, y)) >= quorum_power =>
                            Power(JustifiedVoters(r, y)') >= quorum_power
<1> DEFINE ballot == [round |-> n.round, step |-> step, value |-> x, validator |-> v]
<1>1. /\ votes' = votes \cup {ballot} /\ wal' = [wal EXCEPT ![v] = n]
      /\ state' = [state EXCEPT ![v] = n]
      /\ Shape(n) /\ n.round = state[v].round
      /\ step \notin state[v].voted /\ n.voted = state[v].voted \cup {step}
  BY Zenon DEF CastStep
<1>2. n.round \in Rounds
  BY Zenon DEF RoundState
<1>3. /\ ballot \in Vote /\ ballot.round = n.round /\ ballot.step = step
      /\ ballot.value = x /\ ballot.validator = v
  BY <1>2 DEF Vote
<1> HIDE DEF ballot
<1>4. /\ state \in [Correct -> RoundState] /\ wal \in [Correct -> RoundState]
      /\ votes \subseteq Vote
      /\ \A u \in Correct : Shape(state[u]) /\ Shape(wal[u])
  BY Zenon DEF TypeInv
<1>5. /\ state'[v] = n /\ wal'[v] = n
      /\ \A u \in Correct : u # v => state'[u] = state[u] /\ wal'[u] = wal[u]
  BY Zenon, <1>1, <1>4
<1>6. \A w \in votes : w \in Vote /\ w.validator \in Correct /\ w.round \in Rounds
  BY Zenon, <1>4 DEF Vote
<1>7. n.round <= n.round
  BY <1>2 DEF Rounds
<1>8. TypeInv'
  <2>1. state' \in [Correct -> RoundState] /\ wal' \in [Correct -> RoundState]
    BY ZenonT(30), <1>1, <1>4
  <2>2. \A u \in Correct : Shape(state'[u]) /\ Shape(wal'[u])
    BY Zenon, <1>1, <1>4, <1>5
  <2>3. votes' \subseteq Vote
    BY Zenon, <1>1, <1>3, <1>4
  <2> QED BY Zenon, <2>1, <2>2, <2>3 DEF TypeInv
<1>9. LogInv'
  <2> SUFFICES ASSUME NEW u \in Correct
               PROVE  /\ wal'[u].round <= state'[u].round
                      /\ wal'[u].round = state'[u].round => wal'[u].voted \subseteq state'[u].voted
                      /\ wal'[u].locked_value = state'[u].locked_value
                      /\ wal'[u].locked_round = state'[u].locked_round
    BY Zenon DEF LogInv
  <2>1. CASE u = v
    BY Zenon, <1>5, <1>7, <2>1
  <2>2. CASE u # v
    BY Zenon, <1>5, <2>2 DEF LogInv
  <2> QED BY Zenon, <2>1, <2>2
<1>10. \A w \in votes : w.validator = v =>
         /\ w.round <= n.round
         /\ w.round = n.round => w.step \in state[v].voted
  <2> SUFFICES ASSUME NEW w \in votes, w.validator = v
               PROVE  /\ w.round <= n.round
                      /\ w.round = n.round => w.step \in state[v].voted
    BY Zenon
  <2>1. w.round \in Rounds /\ wal[v].round \in Rounds
    BY Zenon, <1>4, <1>6 DEF RoundState
  <2>2. w.round \in Int /\ wal[v].round \in Int /\ n.round \in Int
    BY <1>2, <2>1 DEF Rounds
  <2>3. /\ w.round <= wal[v].round
        /\ w.round = wal[v].round => w.step \in wal[v].voted
    BY Zenon DEF SentInv
  <2>4. /\ wal[v].round <= n.round
        /\ wal[v].round = n.round => wal[v].voted \subseteq state[v].voted
    BY Zenon, <1>1 DEF LogInv
  <2>5. w.round <= n.round /\ (w.round = n.round => w.round = wal[v].round /\ wal[v].round = n.round)
    BY <2>2, <2>3, <2>4
  <2> QED BY Zenon, <2>3, <2>4, <2>5
<1>11. SentInv'
  <2> SUFFICES ASSUME NEW w \in votes'
               PROVE  /\ w.round <= wal'[w.validator].round
                      /\ w.round = wal'[w.validator].round => w.step \in wal'[w.validator].voted
    BY Zenon DEF SentInv
  <2>1. CASE w = ballot
    BY Zenon, <1>1, <1>3, <1>5, <1>7, <2>1
  <2>2. CASE w \in votes /\ w.validator = v
    <3>1. w.round <= n.round /\ (w.round = n.round => w.step \in n.voted)
      BY Zenon, <1>1, <1>10, <2>2
    <3> QED BY Zenon, <1>5, <2>2, <3>1
  <2>3. CASE w \in votes /\ w.validator # v
    BY Zenon, <1>5, <1>6, <2>3 DEF SentInv
  <2> QED BY Zenon, <1>1, <2>1, <2>2, <2>3
<1>12. VotesOnce'
  <2>1. \A w \in votes : ~ (w.validator = v /\ w.round = n.round /\ w.step = step)
    BY Zenon, <1>1, <1>10
  <2> SUFFICES ASSUME NEW w \in votes', NEW u \in votes',
                      w.validator = u.validator, w.round = u.round, w.step = u.step
               PROVE  w = u
    BY Zenon DEF VotesOnce
  <2>2. CASE w \in votes /\ u \in votes
    BY Zenon, <2>2 DEF VotesOnce
  <2>3. CASE w = ballot \/ u = ballot
    BY Zenon, <1>1, <1>3, <2>1, <2>3
  <2> QED BY Zenon, <1>1, <2>2, <2>3
<1>13. \A r, s, y : HasQuorum(r, s, y) => HasQuorum(r, s, y)'
  <2>1. votes' \in SUBSET Vote /\ votes \in SUBSET votes'
    BY Zenon, <1>1, <1>3, <1>4
  <2> QED BY <2>1, MoreVotes DEF HasQuorum
<1>14. \A u \in votes : Justified(u) => Justified(u)'
  <2> SUFFICES ASSUME NEW u \in votes, Justified(u), NEW w \in votes',
                      w.validator = u.validator, w.step = "Precommit",
                      w.value \notin {Nil, u.value}, w.round < u.round
               PROVE  \E r \in Rounds : /\ w.round <= r /\ r < u.round
                                        /\ HasQuorum(r, "Prevote", u.value)'
    BY Zenon DEF Justified
  <2>1. CASE w \in votes
    BY Zenon, <2>1, <1>13 DEF Justified
  <2>2. CASE w = ballot
    <3>1. u.round <= n.round /\ u.round \in Rounds /\ w.round = n.round
      BY Zenon, <1>3, <1>6, <1>10, <2>2
    <3> QED BY <1>2, <3>1 DEF Rounds
  <2> QED BY Zenon, <1>1, <2>1, <2>2
<1>15. ASSUME NEW r, NEW y, Power(JustifiedVoters(r, y)) >= quorum_power
       PROVE  Power(JustifiedVoters(r, y)') >= quorum_power
  <2> DEFINE A == JustifiedVoters(r, y)
             B == JustifiedVoters(r, y)'
  <2>1. A \subseteq B
    <3>1. \A u \in Prevotes(r, y) : u \in Prevotes(r, y)' /\ u \in votes
      BY Zenon, <1>1 DEF Prevotes
    <3> QED BY Zenon, <1>14, <3>1 DEF JustifiedVoters
  <2>2. B \in Committee
    <3>1. \A w \in votes' : w.validator \in Correct
      BY Zenon, <1>1, <1>3, <1>6
    <3>2. \A u \in Prevotes(r, y)' : u \in votes'
      BY Zenon DEF Prevotes
    <3>3. B \subseteq Correct \cup Byzantine
      BY Zenon, <3>1, <3>2 DEF JustifiedVoters
    <3> QED BY Zenon, <3>3, CommitteeAssumption DEF Committee, Correct
  <2> HIDE DEF A, B
  <2>3. Power(A) <= Power(B) /\ Power(A) \in Nat /\ Power(B) \in Nat
    BY Zenon, <2>1, <2>2 DEF PowerGrows
  <2>4. Power(A) >= quorum_power
    BY Zenon, <1>15 DEF A
  <2>5. Power(B) >= quorum_power
    BY <2>3, <2>4, CommitteeAssumption
  <2> QED BY Zenon, <2>5 DEF B
<1> QED BY Zenon, <1>8, <1>9, <1>11, <1>12, <1>13, <1>14, <1>15

(* The retained quorums and the lock of whoever casts a vote, and those of *)
(* everyone else.                                                          *)
LEMMA CastQuorums ==
    ASSUME TypeInv, QuorumInv,
           NEW v \in Correct, NEW n \in RoundState, NEW step \in Steps,
           NEW x \in Values \cup {Nil}, CastStep(v, n, step, x),
           n.locked_value # Nil => HasQuorum(n.locked_round, "Prevote", n.locked_value),
           \A r, s, y : HasQuorum(r, s, y) => HasQuorum(r, s, y)'
    PROVE  QuorumInv'
<1>1. /\ state' = [state EXCEPT ![v] = n] /\ wal' = [wal EXCEPT ![v] = n]
      /\ KnownQuorums(n)
  BY Zenon DEF CastStep
<1>2. state \in [Correct -> RoundState] /\ wal \in [Correct -> RoundState]
  BY Zenon DEF TypeInv
<1> SUFFICES ASSUME NEW u \in Correct, NEW t \in {state'[u], wal'[u]}
             PROVE  /\ \A r \in Rounds, y \in Values :
                           <<r, y>> \in t.quorums => HasQuorum(r, "Prevote", y)'
                    /\ t.locked_value # Nil => HasQuorum(t.locked_round, "Prevote", t.locked_value)'
  BY Zenon DEF QuorumInv
<1>3. CASE t = n
  BY Zenon, <1>1, <1>3 DEF KnownQuorums
<1>4. CASE t \in {state[u], wal[u]}
  BY Zenon, <1>4 DEF QuorumInv
<1>5. t = n \/ t \in {state[u], wal[u]}
  BY Zenon, <1>1, <1>2
<1> QED BY Zenon, <1>3, <1>4, <1>5

(* A prevote keeps the invariant: what the lock permits is the locked      *)
(* block or one with a later quorum.                                       *)
LEMMA PrevotePreserves ==
    ASSUME PowerGrows, IInv, proposals' \subseteq Proposal,
           NEW v \in Correct, NEW n \in RoundState, NEW x \in Values \cup {Nil},
           PrevoteStep(v, n, x)
    PROVE  IInv'
<1> DEFINE ballot == [round |-> n.round, step |-> "Prevote", value |-> x, validator |-> v]
<1>1. /\ TypeInv /\ LogInv /\ SentInv /\ VotesOnce /\ LockInv /\ QuorumInv /\ JustifiedInv
      /\ "Prevote" \in Steps
  BY Zenon DEF IInv, Steps
<1>2. /\ CastStep(v, n, "Prevote", x) /\ SameLock(n, state[v])
      /\ votes' = votes \cup {ballot} /\ wal' = [wal EXCEPT ![v] = n]
      /\ n.round = state[v].round /\ Shape(n) /\ KnownQuorums(n)
  BY Zenon DEF PrevoteStep, CastStep
<1>3. SameLock(n, wal[v])
  BY Zenon, <1>1, <1>2 DEF LogInv, SameLock
<1>4. /\ TypeInv' /\ LogInv' /\ SentInv' /\ VotesOnce'
      /\ \A r, s, y : HasQuorum(r, s, y) => HasQuorum(r, s, y)'
      /\ \A u \in votes : Justified(u) => Justified(u)'
      /\ \A r, y : Power(JustifiedVoters(r, y)) >= quorum_power =>
                       Power(JustifiedVoters(r, y)') >= quorum_power
  BY Zenon, <1>1, <1>2, CastPreserves
<1>5. n.locked_value # Nil => HasQuorum(n.locked_round, "Prevote", n.locked_value)
  BY Zenon, <1>1, <1>3 DEF QuorumInv, SameLock
<1>6. QuorumInv'
  BY Zenon, <1>1, <1>2, <1>4, <1>5, CastQuorums
<1>7. /\ ballot.round = n.round /\ ballot.step = "Prevote" /\ ballot.value = x
      /\ ballot.validator = v
  OBVIOUS
<1> HIDE DEF ballot
<1>8. /\ wal \in [Correct -> RoundState] /\ votes \subseteq Vote
      /\ \A w \in votes : w.validator \in Correct /\ w.round \in Rounds
  BY Zenon, <1>1 DEF TypeInv, Vote
<1>9. \A w \in votes' : w.step = "Precommit" => w \in votes
  <2>1. "Prevote" # "Precommit"
    OBVIOUS
  <2> QED BY Zenon, <1>2, <1>7, <2>1
<1>10. LockInv'
  <2> SUFFICES ASSUME NEW w \in votes', w.step = "Precommit", w.value # Nil
               PROVE  /\ w.round <= wal'[w.validator].locked_round
                      /\ w.round = wal'[w.validator].locked_round =>
                             w.value = wal'[w.validator].locked_value
                      /\ HasQuorum(w.round, "Prevote", w.value)'
    BY Zenon DEF LockInv
  <2>1. w \in votes
    BY Zenon, <1>9
  <2>2. /\ wal'[w.validator].locked_round = wal[w.validator].locked_round
        /\ wal'[w.validator].locked_value = wal[w.validator].locked_value
    <3>1. CASE w.validator = v
      BY Zenon, <1>2, <1>3, <1>8, <3>1 DEF SameLock
    <3>2. CASE w.validator # v
      BY Zenon, <1>2, <1>8, <2>1, <3>2
    <3> QED BY Zenon, <3>1, <3>2
  <2> QED BY Zenon, <1>1, <1>4, <2>1, <2>2 DEF LockInv
<1>11. ASSUME x # Nil
       PROVE  \/ Justified(ballot)'
              \/ Power(JustifiedVoters(n.round, x)') >= quorum_power
  <2>1. /\ n.round \in Rounds /\ n.locked_round \in Rounds \cup {None} /\ x \in Values
        /\ n.locked_round <= n.round
        /\ n.locked_value = Nil <=> n.locked_round = None
    BY Zenon, <1>2, <1>11 DEF Shape, RoundState
  <2>2. n.round \in Nat /\ n.locked_round \in Int
    BY <2>1 DEF Rounds, None
  <2>3. CASE n.locked_value = x /\ n.locked_round = n.round
    <3>1. HasQuorum(n.round, "Prevote", x)
      BY Zenon, <1>5, <1>11, <2>3
    <3> QED BY Zenon, <1>1, <1>4, <2>1, <3>1, QuorumJustified
  <2>4. CASE ~ (n.locked_value = x /\ n.locked_round = n.round)
    <3> SUFFICES ASSUME NEW w \in votes', w.validator = v, w.step = "Precommit",
                        w.value \notin {Nil, x}, w.round < n.round
                 PROVE  \E r \in Rounds : /\ w.round <= r /\ r < n.round
                                          /\ HasQuorum(r, "Prevote", x)'
      BY Zenon, <1>7 DEF Justified
    <3>1. w \in votes /\ w.value # Nil /\ w.value # x /\ w.round \in Rounds
      BY Zenon, <1>8, <1>9
    <3>2. /\ w.round <= n.locked_round
          /\ w.round = n.locked_round => w.value = n.locked_value
      BY Zenon, <1>1, <1>3, <3>1 DEF LockInv, SameLock
    <3>3. w.round \in Nat /\ w.round >= 0
      BY <3>1 DEF Rounds
    <3>4. n.locked_round # None
      BY <2>2, <3>2, <3>3 DEF None
    <3>5. n.locked_value # Nil /\ n.locked_round \in Rounds
      BY Zenon, <2>1, <3>4
    <3>6. CASE n.locked_value = x
      <4>1. HasQuorum(n.locked_round, "Prevote", x)'
        BY Zenon, <1>4, <1>5, <3>5, <3>6
      <4>2. n.locked_round < n.round
        BY <2>1, <2>2, <2>4, <3>6
      <4> QED BY Zenon, <3>2, <3>5, <4>1, <4>2
    <3>7. CASE n.locked_value # x
      <4>1. PICK r \in Rounds : n.locked_round <= r /\ r < n.round /\ <<r, x>> \in n.quorums
        BY Zenon, <1>11, <3>5, <3>7 DEF PrevoteStep
      <4>2. HasQuorum(r, "Prevote", x)'
        BY Zenon, <1>2, <1>4, <2>1, <4>1 DEF KnownQuorums
      <4>3. r \in Nat
        BY DEF Rounds
      <4>4. w.round <= r
        BY <2>2, <3>2, <3>3, <4>1, <4>3
      <4> QED BY Zenon, <4>1, <4>2, <4>4
    <3> QED BY Zenon, <3>6, <3>7
  <2> QED BY Zenon, <2>3, <2>4
<1>12. JustifiedInv'
  <2> SUFFICES ASSUME NEW u \in votes', u.step = "Prevote", u.value # Nil
               PROVE  \/ Justified(u)'
                      \/ Power(JustifiedVoters(u.round, u.value)') >= quorum_power
    BY Zenon DEF JustifiedInv
  <2>1. CASE u \in votes
    BY Zenon, <1>1, <1>4, <2>1 DEF JustifiedInv
  <2>2. CASE u = ballot
    BY Zenon, <1>7, <1>11, <2>2
  <2> QED BY Zenon, <1>2, <2>1, <2>2
<1> QED BY Zenon, <1>4, <1>6, <1>10, <1>12 DEF IInv

(* A precommit keeps the invariant: it locks what it is for.               *)
LEMMA PrecommitPreserves ==
    ASSUME PowerGrows, IInv, proposals' \subseteq Proposal,
           NEW v \in Correct, NEW n \in RoundState, NEW x \in Values \cup {Nil},
           PrecommitStep(v, n, x)
    PROVE  IInv'
<1> DEFINE ballot == [round |-> n.round, step |-> "Precommit", value |-> x, validator |-> v]
<1>1. /\ TypeInv /\ LogInv /\ SentInv /\ VotesOnce /\ LockInv /\ QuorumInv /\ JustifiedInv
      /\ "Precommit" \in Steps
  BY Zenon DEF IInv, Steps
<1>2. CastStep(v, n, "Precommit", x) /\ votes' = votes \cup {ballot}
  BY Zenon DEF PrecommitStep, CastStep
<1>3. /\ TypeInv' /\ LogInv' /\ SentInv' /\ VotesOnce'
      /\ \A r, s, y : HasQuorum(r, s, y) => HasQuorum(r, s, y)'
      /\ \A u \in votes : Justified(u) => Justified(u)'
      /\ \A r, y : Power(JustifiedVoters(r, y)) >= quorum_power =>
                       Power(JustifiedVoters(r, y)') >= quorum_power
  BY Zenon, <1>1, <1>2, CastPreserves
<1>4. QuorumInv'
  <2>1. \/ SameLock(n, state[v])
        \/ n.locked_value = x /\ n.locked_round = n.round /\ HasQuorum(n.round, "Prevote", x)
    BY Zenon DEF PrecommitStep
  <2>2. n.locked_value # Nil => HasQuorum(n.locked_round, "Prevote", n.locked_value)
    BY Zenon, <1>1, <2>1 DEF QuorumInv, SameLock
  <2> QED BY Zenon, <1>1, <1>2, <1>3, <2>2, CastQuorums
<1>5. LockInv'
  BY Zenon, <1>1, <1>3, LockKept
<1>6. \A u \in votes' : u.step = "Prevote" => u \in votes
  <2>1. ballot.step = "Precommit" /\ "Precommit" # "Prevote"
    OBVIOUS
  <2> HIDE DEF ballot
  <2> QED BY Zenon, <1>2, <2>1
<1>7. JustifiedInv'
  BY Zenon, <1>1, <1>3, <1>6 DEF JustifiedInv
<1> QED BY Zenon, <1>3, <1>4, <1>5, <1>7 DEF IInv

(* The invariant holds before the first round.                             *)
LEMMA IInvInit == Init => IInv
<1> SUFFICES ASSUME Init PROVE IInv
  OBVIOUS
<1>1. /\ state = [v \in Correct |-> new_round_state] /\ wal = [v \in Correct |-> new_round_state]
      /\ proposals = {} /\ votes = {}
  BY Zenon DEF Init
<1>2. \A v \in Correct : state[v] = new_round_state /\ wal[v] = new_round_state
  BY Zenon, <1>1
<1>3. /\ new_round_state.round <= new_round_state.round
      /\ new_round_state.quorums = {} /\ new_round_state.locked_value = Nil
  BY DEF new_round_state
<1>4. TypeInv
  BY Zenon, <1>1, <1>2, InitialShape DEF TypeInv, Shape
<1>5. LogInv
  BY Zenon, <1>2, <1>3 DEF LogInv
<1>6. QuorumInv
  BY Zenon, <1>2, <1>3 DEF QuorumInv
<1>7. SentInv /\ VotesOnce /\ LockInv /\ JustifiedInv
  BY Zenon, <1>1 DEF SentInv, VotesOnce, LockInv, JustifiedInv
<1> QED BY Zenon, <1>4, <1>5, <1>6, <1>7 DEF IInv

(* Every step preserves the invariant.                                     *)
LEMMA IInvStep == PowerGrows /\ IInv /\ [Next]_vars => IInv'
<1> SUFFICES ASSUME PowerGrows, IInv, [Next]_vars PROVE IInv'
  OBVIOUS
<1>1. CASE Next
  <2>1. AnyStep /\ proposals' \subseteq Proposal
    BY Zenon, <1>1, EveryStep
  <2> QED BY Zenon, <2>1, QuietPreserves, PrevotePreserves, PrecommitPreserves DEF AnyStep
<1>2. CASE UNCHANGED vars
  <2>1. state' = state /\ wal' = wal /\ proposals' = proposals /\ votes' = votes
    BY <1>2 DEF vars
  <2>2. TypeInv /\ LogInv /\ SentInv /\ VotesOnce /\ LockInv /\ QuorumInv /\ JustifiedInv
    BY Zenon DEF IInv
  <2>3. TypeInv' /\ LogInv' /\ SentInv' /\ VotesOnce'
    BY Zenon, <2>1, <2>2 DEF TypeInv, LogInv, SentInv, VotesOnce
  <2>4. \A r, x : HasQuorum(r, "Prevote", x)' <=> HasQuorum(r, "Prevote", x)
    BY <2>1 DEF HasQuorum
  <2>5. LockInv' /\ QuorumInv'
    BY Zenon, <2>1, <2>2, <2>4 DEF LockInv, QuorumInv
  <2>6. \A u : Justified(u)' <=> Justified(u)
    BY Zenon, <2>1, <2>4 DEF Justified
  <2>7. \A r, x : JustifiedVoters(r, x)' = JustifiedVoters(r, x)
    BY <2>1, <2>6 DEF JustifiedVoters, Prevotes
  <2>8. JustifiedInv'
    BY Zenon, <2>1, <2>2, <2>6, <2>7 DEF JustifiedInv
  <2> QED BY Zenon, <2>3, <2>5, <2>8 DEF IInv
<1> QED BY Zenon, <1>1, <1>2
=============================================================================
