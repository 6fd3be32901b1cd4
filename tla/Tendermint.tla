------------------------------ MODULE Tendermint ------------------------------
(***************************************************************************)
(* One height of the closed-validator Tendermint engine.  Every correct    *)
(* validator runs the deterministic round state of the code; the driver    *)
(* around it, which the code leaves to its embedding, feeds messages in    *)
(* any order, any number of times or never, lets rounds time out, and      *)
(* writes the round state to the write-ahead log before a message it has   *)
(* signed leaves.  A validator may crash at any time and go on from its    *)
(* log.  Byzantine validators sign anything.                               *)
(*                                                                         *)
(* The round state retains every message; what it reads of them is kept    *)
(* here.  A proposal is read in its own round only.  A vote of another     *)
(* validator is read through the quorum it completes, so votes arrive one  *)
(* quorum at a time and `quorums` are the prevote quorums retained.  An    *)
(* own vote is read, in its round, as the reason not to vote again.        *)
(***************************************************************************)
EXTENDS Integers, Sequences, FiniteSets

CONSTANTS Validators,
          Byzantine,     \* the validators that do not follow the protocol
          Order,         \* the validators sorted by identifier
          Weight,        \* voting power of each
          quorum_power,
          height,        \* the height; it only turns the proposer schedule
          Values,        \* block hashes
          Nil,           \* no block
          MaxRound       \* bound on the rounds

VARIABLES state,       \* TendermintRoundState of each correct validator
          wal,         \* the one its log would restore
          proposals,   \* proposals correct validators sent
          votes        \* votes correct validators sent

vars == <<state, wal, proposals, votes>>

Correct == Validators \ Byzantine

PowerOf[S \in SUBSET Validators] ==
    IF S = {} THEN 0
    ELSE LET v == CHOOSE v \in S : TRUE IN Weight[v] + PowerOf[S \ {v}]

Power(S) == PowerOf[S]

total_power == Power(Validators)

validate_tendermint_quorum ==
    /\ quorum_power * 3 > total_power * 2
    /\ quorum_power <= total_power

ASSUME CommitteeAssumption ==
    /\ IsFiniteSet(Validators)
    /\ Byzantine \subseteq Validators
    /\ Weight \in [Validators -> Nat]
    /\ quorum_power \in Nat
    /\ MaxRound \in Nat
    /\ Nil \notin Values

(* A round state is only made for such a committee; less than a third of   *)
(* the power is Byzantine.                                                 *)
ASSUME QuorumAssumption ==
    /\ validate_tendermint_quorum
    /\ Power(Byzantine) * 3 < total_power

-----------------------------------------------------------------------------
Rounds == 0..MaxRound

None == -1

Steps == {"Prevote", "Precommit"}

Proposal == [round: Rounds, value: Values, valid_round: Rounds \cup {None}]

Vote == [round: Rounds, step: Steps, value: Values \cup {Nil}, validator: Correct]

(* The proposer whose share of the power line holds height + round. *)
Schedule ==
    [round \in Rounds |->
        LET target == ((height % total_power) + (round % total_power)) % total_power
            reach(i) == Power({Order[k] : k \in 1..i})
        IN  Order[CHOOSE i \in DOMAIN Order :
                     target < reach(i) /\ (i > 1 => target >= reach(i - 1))]]

proposer_id(round) == Schedule[round]

(* The power of the votes ws for x when all Byzantine validators join in. *)
vote_power(ws, round, step, x) ==
    Power({w.validator : w \in {u \in ws : u.round = round /\ u.step = step
                                            /\ u.value = x}} \cup Byzantine)

(* A quorum for x can be put together from the votes sent. *)
HasQuorum(round, step, x) ==
    vote_power(votes, round, step, x) >= quorum_power

new_round_state ==
    [round |-> 0, locked_value |-> Nil, locked_round |-> None,
     valid_value |-> Nil, valid_round |-> None,
     proposal |-> Nil, voted |-> {}, quorums |-> {}, decision |-> Nil]

ensure_live(s) == s.decision = Nil

-----------------------------------------------------------------------------
(* receive_proposal: one proposal per round, only in its round, and with   *)
(* the prevote quorum it claims among the retained votes.                  *)
Acceptable(s, p) ==
    /\ ensure_live(s)
    /\ p.round = s.round
    /\ p.valid_round < p.round
    /\ s.proposal = Nil
    /\ p.valid_round # None => <<p.valid_round, p.value>> \in s.quorums

receive_proposal(s, p) == [s EXCEPT !.proposal = p]

(* A lock is released only by a quorum at least as new as the lock. *)
Unlocks(s) ==
    /\ s.proposal.valid_round >= s.locked_round
    /\ <<s.proposal.valid_round, s.proposal.value>> \in s.quorums

(* A broken form of prevote_value: the lock is forgotten. *)
prevote_unlocked(s) == IF s.proposal = Nil THEN Nil ELSE s.proposal.value

(* prevote_value: nil without a proposal, else what the lock permits. *)
prevote_value(s) ==
    IF s.proposal = Nil THEN Nil
    ELSE IF s.locked_value \in {Nil, s.proposal.value} \/ Unlocks(s)
         THEN s.proposal.value ELSE Nil

(* receive_vote, when the vote completes a quorum for a block: a prevote   *)
(* quorum is retained and makes the block the valid value, a precommit     *)
(* quorum decides.  Votes of later rounds are refused.                     *)
Countable(s, round) == ensure_live(s) /\ round <= s.round

receive_prevotes(s, round, x) ==
    IF x = Nil THEN s
    ELSE [s EXCEPT !.quorums = @ \cup {<<round, x>>},
                   !.valid_value = x, !.valid_round = round]

receive_precommits(s, x) == [s EXCEPT !.decision = x]

(* precommit_value, given a prevote quorum for x in the own round. *)
precommit_value(s, x) ==
    IF x = Nil THEN s
    ELSE [s EXCEPT !.locked_value = x, !.locked_round = s.round,
                   !.valid_value = x, !.valid_round = s.round]

advance_round(s) == [s EXCEPT !.round = @ + 1, !.proposal = Nil, !.voted = {}]

-----------------------------------------------------------------------------
(* The driver. *)
Init ==
    /\ state = [v \in Correct |-> new_round_state]
    /\ wal = [v \in Correct |-> new_round_state]
    /\ proposals = {}
    /\ votes = {}

Becomes(v, s) == state' = [state EXCEPT ![v] = s]

(* A broken form of Logged: the log is written before the vote counts. *)
LoggedBefore(s, step) == s

(* What the log holds when a signed vote leaves: a state that counts it. *)
Logged(s, step) == [s EXCEPT !.voted = @ \cup {step}]

(* A vote is signed once, applied, logged and sent. *)
Cast(v, s, step, x) ==
    /\ ensure_live(s)
    /\ step \notin s.voted
    /\ Becomes(v, [s EXCEPT !.voted = @ \cup {step}])
    /\ wal' = [wal EXCEPT ![v] = Logged(s, step)]
    /\ votes' = votes \cup {[round |-> s.round, step |-> step, value |-> x,
                             validator |-> v]}

(* The proposer offers its valid value, or else a block of its own, and    *)
(* prevotes as everyone who receives the proposal does.                    *)
Propose(v, x) ==
    LET s == state[v]
        p == [round |-> s.round, value |-> x, valid_round |-> s.valid_round]
        t == receive_proposal(s, p)
    IN  /\ proposer_id(s.round) = v
        /\ s.valid_value \in {Nil, x}
        /\ Acceptable(s, p)
        /\ Cast(v, t, "Prevote", prevote_value(t))
        /\ proposals' = proposals \cup {p}

(* A Byzantine proposer may offer each validator something else. *)
Offered(round) ==
    IF proposer_id(round) \in Byzantine
    THEN [round: {round}, value: Values, valid_round: Rounds \cup {None}]
    ELSE {p \in proposals : p.round = round}

OnProposal(v) ==
    \E p \in Offered(state[v].round) :
        LET s == receive_proposal(state[v], p) IN
        /\ Acceptable(state[v], p)
        /\ Cast(v, s, "Prevote", prevote_value(s))
        /\ UNCHANGED proposals

(* No proposal came in time. *)
OnProposeTimeout(v) ==
    /\ state[v].proposal = Nil
    /\ Cast(v, state[v], "Prevote", prevote_value(state[v]))
    /\ UNCHANGED proposals

(* A prevote quorum of the own round is answered with a precommit. *)
OnPrevotes(v, x) ==
    LET s == receive_prevotes(state[v], state[v].round, x) IN
    /\ HasQuorum(s.round, "Prevote", x)
    /\ Cast(v, precommit_value(s, x), "Precommit", x)
    /\ UNCHANGED proposals

(* A prevote quorum of an earlier round comes late. *)
OnLatePrevotes(v, round, x) ==
    /\ Countable(state[v], round)
    /\ round < state[v].round
    /\ <<round, x>> \notin state[v].quorums
    /\ HasQuorum(round, "Prevote", x)
    /\ Becomes(v, receive_prevotes(state[v], round, x))
    /\ UNCHANGED <<wal, proposals, votes>>

OnPrecommits(v, round, x) ==
    /\ Countable(state[v], round)
    /\ HasQuorum(round, "Precommit", x)
    /\ Becomes(v, receive_precommits(state[v], x))
    /\ UNCHANGED <<wal, proposals, votes>>

Timeout(v) ==
    /\ ensure_live(state[v])
    /\ state[v].round < MaxRound
    /\ Becomes(v, advance_round(state[v]))
    /\ UNCHANGED <<wal, proposals, votes>>

Restart(v) ==
    /\ state[v] # wal[v]
    /\ Becomes(v, wal[v])
    /\ UNCHANGED <<wal, proposals, votes>>

Next ==
    \E v \in Correct :
        \/ OnProposal(v) \/ OnProposeTimeout(v) \/ Timeout(v) \/ Restart(v)
        \/ \E x \in Values : Propose(v, x)
        \/ \E x \in Values \cup {Nil} : OnPrevotes(v, x)
        \/ \E r \in Rounds, x \in Values : OnLatePrevotes(v, r, x)
        \/ \E r \in Rounds, x \in Values : OnPrecommits(v, r, x)

Spec == Init /\ [][Next]_vars

-----------------------------------------------------------------------------
(* Every variable has its type; a lock and a valid value have a round. *)
TypeOK ==
    /\ \A v \in Correct : \A s \in {state[v], wal[v]} :
          /\ s.round \in Rounds
          /\ s.proposal \in Proposal \cup {Nil}
          /\ s.voted \subseteq Steps
          /\ s.quorums \subseteq Rounds \X Values
          /\ {s.locked_value, s.valid_value, s.decision} \subseteq Values \cup {Nil}
          /\ {s.locked_round, s.valid_round} \subseteq Rounds \cup {None}
          /\ (s.locked_value = Nil) <=> (s.locked_round = None)
          /\ (s.valid_value = Nil) <=> (s.valid_round = None)
    /\ proposals \subseteq Proposal
    /\ votes \subseteq Vote

Support(ws, round, step, x) ==
    Power({w.validator : w \in {u \in ws : u.round = round /\ u.step = step
                                            /\ u.value = x}} \cup Byzantine)

(* No two decisions that finalise_block_with_decision would accept name    *)
(* different blocks, in whatever rounds their precommits were sent.        *)
Agreement ==
    LET Decidable == {x \in Values : \E r \in Rounds :
                          Support(votes, r, "Precommit", x) >= quorum_power}
    IN  \A x, y \in Decidable : x = y

(* A correct validator never signs two votes for one round and step, not   *)
(* even when it crashes and goes on from its log, and its lock and valid   *)
(* value always have their rounds.                                         *)
NoEquivocation ==
    /\ TypeOK
    /\ \A w, u \in votes :
           /\ w.validator = u.validator
           /\ w.round = u.round
           /\ w.step = u.step
           => w = u
===============================================================================
