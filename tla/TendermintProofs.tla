-------------------------- MODULE TendermintProofs --------------------------
(***************************************************************************)
(* Proofs about Tendermint for any committee, any weights, any number of   *)
(* rounds and any set of blocks: any two quorums have a correct validator  *)
(* in common, and no two blocks of a height are decided.                   *)
(***************************************************************************)
EXTENDS TendermintInvariant, FiniteSetTheorems

-----------------------------------------------------------------------------
(* Voting power. *)

(* Induction over sets of validators: a set of committees that is not      *)
(* empty has one that contains no other.                                   *)
LEMMA SmallestSet ==
    ASSUME NEW T \in SUBSET Committee, T # {}
    PROVE  \E S \in T : \A U \in T : U \subseteq S => U = S
<1>1. FiniteSubsetsOf(Validators) = Committee
  BY FS_FiniteSubsetsOfFinite, CommitteeAssumption, Zenon DEF Committee
<1>2. IsWellFoundedOn(StrictSubsetOrdering(Validators), FiniteSubsetsOf(Validators))
  BY FS_StrictSubsetOrderingWellFounded, Zenon
<1>3. PICK S \in T : \A U \in T : ~ (<<U, S>> \in StrictSubsetOrdering(Validators))
  BY <1>1, <1>2, WFMin, Zenon
<1> QED
  BY ZenonT(30), <1>3 DEF StrictSubsetOrdering, Committee

(* Sets of at most n validators. *)
UpTo(n) == {S \in Committee : Cardinality(S) <= n}

First(S) == CHOOSE v \in S : TRUE

Sums(f, n) ==
    f = [S \in UpTo(n) |-> IF S = {} THEN 0 ELSE Weight[First(S)] + f[S \ {First(S)}]]

(* What the induction needs of the size of a set of validators.            *)
LEMMA CardinalityFacts ==
    ASSUME NEW S \in Committee
    PROVE  /\ IsFiniteSet(S)
           /\ Cardinality(S) \in Nat
           /\ Cardinality(S) <= Cardinality(Validators)
           /\ Cardinality(S) = 0 <=> S = {}
           /\ S # {} => First(S) \in S
           /\ \A v \in S : /\ S \ {v} \in Committee
                           /\ Cardinality(S \ {v}) = Cardinality(S) - 1
<1>1. IsFiniteSet(S) /\ Cardinality(S) <= Cardinality(Validators)
  BY FS_Subset, CommitteeAssumption DEF Committee
<1>2. Cardinality(S) \in Nat /\ (Cardinality(S) = 0 <=> S = {})
  BY <1>1, FS_CardinalityType, FS_EmptySet
<1>3. \A v \in S : S \ {v} \in Committee /\ Cardinality(S \ {v}) = Cardinality(S) - 1
  BY <1>1, FS_RemoveElement DEF Committee
<1>4. S # {} => First(S) \in S
  BY DEF First
<1> QED BY <1>1, <1>2, <1>3, <1>4

(* Summing weights one validator at a time is well defined for sets of any *)
(* size.                                                                   *)
LEMMA SumsExist == \A n \in Nat : \E f : Sums(f, n)
<1> DEFINE Bad == {n \in Nat : ~ \E f : Sums(f, n)}
<1> SUFFICES ASSUME Bad # {} PROVE FALSE
  OBVIOUS
<1>1. PICK n \in Bad : \A m \in Bad : ~ (<<m, n>> \in OpToRel(<, Nat))
  BY WFMin, NatLessThanWellFounded
<1>2. \A m \in Nat : m < n => \E f : Sums(f, m)
  BY ZenonT(30), <1>1 DEF OpToRel
<1>3. CASE n = 0
  <2>1. UpTo(0) = {{}}
    BY CardinalityFacts, CommitteeAssumption DEF UpTo, Committee
  <2> DEFINE f == [S \in {{}} |-> 0]
  <2>2. Sums(f, 0)
    BY <2>1 DEF Sums
  <2> QED BY <2>2, <1>3
<1>4. CASE n # 0
  <2>1. PICK f : Sums(f, n - 1)
    BY <1>2, <1>4
  <2> DEFINE g == [S \in UpTo(n) |-> IF S = {} THEN 0
                                     ELSE Weight[First(S)] + f[S \ {First(S)}]]
  <2>2. \A S \in UpTo(n - 1) : g[S] = f[S]
    <3> TAKE S \in UpTo(n - 1)
    <3>1. S \in UpTo(n)
      BY CardinalityFacts, <1>4 DEF UpTo
    <3>2. f[S] = IF S = {} THEN 0 ELSE Weight[First(S)] + f[S \ {First(S)}]
      BY ZenonT(30), <2>1 DEF Sums
    <3> QED BY <3>1, <3>2
  <2>3. \A S \in UpTo(n) : S # {} => S \ {First(S)} \in UpTo(n - 1)
    BY CardinalityFacts, <1>4 DEF UpTo
  <2>4. g = [S \in UpTo(n) |-> IF S = {} THEN 0 ELSE Weight[First(S)] + g[S \ {First(S)}]]
    BY ZenonT(30), <2>2, <2>3
  <2>5. Sums(g, n)
    BY ZenonT(30), <2>4 DEF Sums
  <2> QED BY <2>5
<1> QED BY <1>3, <1>4

(* The recursion by which the power is defined holds.                      *)
LEMMA PowerEquation ==
    ASSUME NEW S \in Committee
    PROVE  Power(S) = IF S = {} THEN 0 ELSE Weight[First(S)] + Power(S \ {First(S)})
<1> DEFINE n == Cardinality(Validators)
<1>1. n \in Nat /\ UpTo(n) = Committee
  BY CardinalityFacts, CommitteeAssumption DEF UpTo, Committee
<1>2. PICK f : Sums(f, n)
  BY <1>1, SumsExist
<1>3. f = [T \in Committee |-> IF T = {} THEN 0 ELSE Weight[First(T)] + f[T \ {First(T)}]]
  BY ZenonT(30), <1>1, <1>2 DEF Sums
<1>4. PowerOf = [T \in Committee |-> IF T = {} THEN 0
                                     ELSE Weight[First(T)] + PowerOf[T \ {First(T)}]]
  BY ZenonT(30), <1>3 DEF PowerOf, Committee, First
<1> QED BY ZenonT(30), <1>4 DEF Power

(* Voting power is a natural number.                                       *)
LEMMA PowerType == \A S \in Committee : Power(S) \in Nat
<1> DEFINE Bad == {S \in Committee : Power(S) \notin Nat}
<1> SUFFICES ASSUME Bad # {} PROVE FALSE
  OBVIOUS
<1>1. PICK S \in Bad : \A U \in Bad : U \subseteq S => U = S
  <2>1. Bad \in SUBSET Committee
    OBVIOUS
  <2> HIDE DEF Bad
  <2> QED BY <2>1, SmallestSet
<1>2. S # {}
  BY SMTT(30), <1>1, PowerEquation
<1>3. First(S) \in S /\ S \ {First(S)} \in Committee
  BY ZenonT(30), <1>2, CardinalityFacts
<1>4. Power(S \ {First(S)}) \in Nat
  BY <1>1, <1>3
<1>5. Weight[First(S)] \in Nat
  BY <1>3, CommitteeAssumption DEF Committee
<1> QED BY <1>1, <1>2, <1>4, <1>5, PowerEquation

(* The power does not depend on the order in which weights are added. *)
LEMMA PowerRemove ==
    \A S \in Committee : \A v \in S : Power(S) = Weight[v] + Power(S \ {v})
<1> DEFINE Bad == {S \in Committee : \E v \in S : Power(S) # Weight[v] + Power(S \ {v})}
<1> SUFFICES ASSUME Bad # {} PROVE FALSE
  OBVIOUS
<1>1. PICK S \in Bad : \A U \in Bad : U \subseteq S => U = S
  <2>1. Bad \in SUBSET Committee
    OBVIOUS
  <2> HIDE DEF Bad
  <2> QED BY <2>1, SmallestSet
<1>2. PICK v \in S : Power(S) # Weight[v] + Power(S \ {v})
  BY <1>1
<1> DEFINE u == First(S)
<1>3. u \in S
  BY <1>2, CardinalityFacts
<1>4. Power(S) = Weight[u] + Power(S \ {u})
  BY <1>2, PowerEquation
<1>5. u # v
  BY <1>2, <1>4
<1>6. /\ S \ {u} \in Committee /\ v \in S \ {u} /\ S \ {u} \notin Bad
      /\ S \ {v} \in Committee /\ u \in S \ {v} /\ S \ {v} \notin Bad
  BY ZenonT(30), <1>1, <1>3, <1>5 DEF Committee
<1>7. Power(S \ {u}) = Weight[v] + Power((S \ {u}) \ {v})
  BY ZenonT(30), <1>6
<1>8. Power(S \ {v}) = Weight[u] + Power((S \ {v}) \ {u})
  BY ZenonT(30), <1>6
<1>9. (S \ {u}) \ {v} = (S \ {v}) \ {u} /\ (S \ {u}) \ {v} \in Committee
  BY DEF Committee
<1>10. /\ Weight[u] \in Nat /\ Weight[v] \in Nat
       /\ Power((S \ {u}) \ {v}) \in Nat
  BY <1>3, <1>9, PowerType, CommitteeAssumption DEF Committee
<1>11. Power((S \ {u}) \ {v}) = Power((S \ {v}) \ {u})
  BY <1>9
<1> HIDE DEF u, Bad
<1> QED BY SMTT(30), <1>2, <1>4, <1>7, <1>8, <1>10, <1>11

(* Voting power is additive.                                               *)
LEMMA PowerUnion ==
    \A S, T \in Committee : Power(S \cup T) + Power(S \cap T) = Power(S) + Power(T)
<1> SUFFICES ASSUME NEW S \in Committee
             PROVE  \A T \in Committee : Power(S \cup T) + Power(S \cap T) = Power(S) + Power(T)
  OBVIOUS
<1> DEFINE Bad == {T \in Committee : Power(S \cup T) + Power(S \cap T) # Power(S) + Power(T)}
<1> SUFFICES ASSUME Bad # {} PROVE FALSE
  BY ZenonT(30)
<1>1. PICK T \in Bad : \A U \in Bad : U \subseteq T => U = T
  <2>1. Bad \in SUBSET Committee
    OBVIOUS
  <2> HIDE DEF Bad
  <2> QED BY <2>1, SmallestSet
<1>2. T # {}
  <2>1. S \cup {} = S /\ S \cap {} = {}
    OBVIOUS
  <2> QED BY ZenonT(30), <1>1, <2>1, PowerType
<1>3. PICK v \in T : TRUE
  BY <1>2
<1> DEFINE R == T \ {v}
<1>4. R \in Committee /\ R \notin Bad
  BY <1>1, <1>3 DEF Committee
<1>5. Power(S \cup R) + Power(S \cap R) = Power(S) + Power(R)
  BY <1>4
<1>6. Power(T) = Weight[v] + Power(R)
  BY <1>1, <1>3, PowerRemove
<1>7. /\ S \cup R \in Committee /\ S \cap R \in Committee
      /\ S \cup T \in Committee /\ S \cap T \in Committee
      /\ Weight[v] \in Nat
  BY SMTT(30), <1>1, <1>3, CommitteeAssumption DEF Committee
<1>8. /\ Power(S) \in Nat /\ Power(R) \in Nat
      /\ Power(S \cup R) \in Nat /\ Power(S \cap R) \in Nat
  BY <1>4, <1>7, PowerType
<1>9. Power(S \cup T) + Power(S \cap T) = Weight[v] + Power(S \cup R) + Power(S \cap R)
  <2>1. CASE v \in S
    <3>1. S \cup T = S \cup R /\ (S \cap T) \ {v} = S \cap R /\ v \in S \cap T
      BY <2>1, <1>3
    <3>2. Power(S \cap T) = Weight[v] + Power(S \cap R)
      BY <3>1, <1>7, PowerRemove
    <3>3. Power(S \cup T) = Power(S \cup R)
      BY <3>1
    <3> HIDE DEF R, Bad
    <3> QED BY <3>2, <3>3, <1>7, <1>8
  <2>2. CASE v \notin S
    <3>1. (S \cup T) \ {v} = S \cup R /\ S \cap T = S \cap R /\ v \in S \cup T
      BY <2>2, <1>3
    <3>2. Power(S \cup T) = Weight[v] + Power(S \cup R)
      BY <3>1, <1>7, PowerRemove
    <3>3. Power(S \cap T) = Power(S \cap R)
      BY SMTT(30), <3>1
    <3> HIDE DEF R, Bad
    <3> QED BY <3>2, <3>3, <1>7, <1>8
  <2> QED BY <2>1, <2>2
<1> HIDE DEF R
<1>10. Power(S \cup T) + Power(S \cap T) = Power(S) + Power(T)
  BY <1>5, <1>6, <1>7, <1>8, <1>9
<1> QED BY <1>1, <1>10

(* More validators have no less power.                                     *)
LEMMA PowerMonotone ==
    ASSUME NEW T \in Committee, NEW S \in SUBSET T
    PROVE  Power(S) <= Power(T)
<1>1. /\ S \in Committee /\ T \ S \in Committee
      /\ S \cup (T \ S) = T /\ S \cap (T \ S) = {} /\ {} \in Committee
  BY DEF Committee
<1>2. Power(T) + Power({}) = Power(S) + Power(T \ S)
  BY <1>1, PowerUnion
<1>3. Power({}) = 0 /\ Power(S) \in Nat /\ Power(T) \in Nat /\ Power(T \ S) \in Nat
  BY SMTT(30), <1>1, PowerType, PowerEquation
<1> QED BY <1>2, <1>3

(* So voting power is what the induction needs it to be.                   *)
LEMMA PowerGrowing == PowerGrows
<1> SUFFICES ASSUME NEW T \in Committee, NEW S \in SUBSET T
             PROVE  Power(S) \in Nat /\ Power(T) \in Nat /\ Power(S) <= Power(T)
  BY DEF PowerGrows
<1>1. S \in Committee
  BY DEF Committee
<1> QED BY <1>1, PowerType, PowerMonotone

(* Any two quorums of a committee that validate_tendermint_quorum accepts, *)
(* with less than a third of its power Byzantine, have a correct validator *)
(* in common, whatever the weights.                                        *)
THEOREM QuorumsMeet ==
    ASSUME NEW S \in Committee, NEW T \in Committee,
           Power(S) >= quorum_power, Power(T) >= quorum_power
    PROVE  \E v \in Correct : v \in S /\ v \in T
<1> SUFFICES ASSUME S \cap T \subseteq Byzantine PROVE FALSE
  BY DEF Correct, Committee
<1>1. S \cup T \in Committee /\ S \cap T \in Committee /\ Validators \in Committee
      /\ Byzantine \in Committee
  BY CommitteeAssumption DEF Committee
<1>2. Power(S \cup T) <= Power(Validators)
  BY <1>1, PowerMonotone DEF Committee
<1>3. Power(S \cap T) <= Power(Byzantine)
  BY <1>1, PowerMonotone
<1>4. Power(S \cup T) + Power(S \cap T) = Power(S) + Power(T)
  BY PowerUnion
<1>5. /\ Power(S) \in Nat /\ Power(T) \in Nat /\ Power(Byzantine) \in Nat
      /\ Power(Validators) \in Nat /\ Power(S \cup T) \in Nat /\ Power(S \cap T) \in Nat
  BY <1>1, PowerType
<1>6. /\ quorum_power * 3 > Power(Validators) * 2
      /\ Power(Byzantine) * 3 < Power(Validators)
      /\ quorum_power \in Nat
  BY QuorumAssumption, CommitteeAssumption DEF validate_tendermint_quorum, total_power
<1> QED BY <1>2, <1>3, <1>4, <1>5, <1>6

-----------------------------------------------------------------------------
(* The theorems. *)

(* So it always holds.                                                     *)
LEMMA InvariantHolds == Spec => []IInv
<1>1. IInv /\ [Next]_vars => IInv'
  BY IInvStep, PowerGrowing
<1> QED BY IInvInit, <1>1, PTL DEF Spec

(* The precommits of a quorum are answered for by a prevote quorum of the  *)
(* same round.                                                             *)
LEMMA DecidedWasPrevoted ==
    ASSUME IInv, NEW r \in Rounds, NEW x \in Values, HasQuorum(r, "Precommit", x)
    PROVE  HasQuorum(r, "Prevote", x)
<1> USE DEF IInv
<1> DEFINE A == {w.validator : w \in {u \in votes : u.round = r /\ u.step = "Precommit"
                                                       /\ u.value = x}} \cup Byzantine
<1>1. A \in Committee
  BY CommitteeAssumption DEF Committee, TypeInv, Vote, Correct
<1>2. Power(A) >= quorum_power
  BY DEF HasQuorum, vote_power
<1>3. PICK v \in Correct : v \in A
  <2> HIDE DEF A
  <2> QED BY SMTT(30), <1>1, <1>2, QuorumsMeet
<1>4. PICK w \in votes : w.round = r /\ w.step = "Precommit" /\ w.value = x
  BY <1>3 DEF Correct
<1> QED BY <1>4, CommitteeAssumption DEF LockInv

(* Once a quorum precommits a block, no later round has a prevote quorum   *)
(* for another: the earliest such quorum would share with the precommits a *)
(* correct validator whose prevote is answered for by an earlier one.      *)
LEMMA DecisionBinds ==
    ASSUME IInv, NEW r \in Rounds, NEW x \in Values, HasQuorum(r, "Precommit", x),
           NEW q \in Rounds, r <= q, NEW y \in Values, HasQuorum(q, "Prevote", y)
    PROVE  x = y
<1> USE DEF IInv
<1> DEFINE Bad == {k \in Rounds : r <= k /\ \E z \in Values \ {x} : HasQuorum(k, "Prevote", z)}
<1> SUFFICES ASSUME Bad # {} PROVE FALSE
  OBVIOUS
<1>1. PICK k \in Bad : \A m \in Bad : ~ (m < k)
  <2>1. Bad \in SUBSET Nat
    BY DEF Rounds
  <2> HIDE DEF Bad
  <2>2. PICK k \in Bad : \A m \in Bad : ~ (<<m, k>> \in OpToRel(<, Nat))
    BY <2>1, WFMin, NatLessThanWellFounded
  <2> QED BY ZenonT(30), <2>1, <2>2 DEF OpToRel
<1>2. PICK z \in Values \ {x} : HasQuorum(k, "Prevote", z)
  BY <1>1
<1>3. k \in Nat /\ r \in Nat /\ k \in Rounds /\ r <= k
  BY <1>1 DEF Rounds
<1> DEFINE Prevoters(i, c) ==
               {w.validator : w \in {u \in votes : u.round = i /\ u.step = "Prevote"
                                                    /\ u.value = c}} \cup Byzantine
           Precommitters ==
               {w.validator : w \in {u \in votes : u.round = r /\ u.step = "Precommit"
                                                    /\ u.value = x}} \cup Byzantine
<1>4. CASE k = r
  <2>1. Power(Prevoters(r, x)) >= quorum_power /\ Power(Prevoters(r, z)) >= quorum_power
    BY SMTT(30), <1>2, <1>4, DecidedWasPrevoted DEF HasQuorum, vote_power
  <2>2. Prevoters(r, x) \in Committee /\ Prevoters(r, z) \in Committee
    BY SMTT(30), CommitteeAssumption DEF Committee, TypeInv, Vote, Correct
  <2>3. PICK v \in Correct : v \in Prevoters(r, x) /\ v \in Prevoters(r, z)
    <3> HIDE DEF Prevoters
    <3> QED BY SMTT(30), <2>1, <2>2, QuorumsMeet
  <2>4. \E w, u \in votes : /\ w.validator = v /\ w.round = r /\ w.step = "Prevote" /\ w.value = x
                            /\ u.validator = v /\ u.round = r /\ u.step = "Prevote" /\ u.value = z
    BY SMTT(30), <2>3 DEF Correct
  <2> QED BY SMTT(30), <1>2, <2>4 DEF VotesOnce
<1>5. CASE k # r
  <2>1. Power(JustifiedVoters(k, z)) >= quorum_power
    BY SMTT(30), <1>2, <1>3, QuorumJustified
  <2>2. Power(Precommitters) >= quorum_power
    BY SMTT(30) DEF HasQuorum, vote_power
  <2>3. JustifiedVoters(k, z) \in Committee /\ Precommitters \in Committee
    BY SMTT(30), CommitteeAssumption DEF Committee, TypeInv, Vote, Correct, JustifiedVoters, Prevotes
  <2>4. PICK v \in Correct : v \in JustifiedVoters(k, z) /\ v \in Precommitters
    <3> HIDE DEF Precommitters
    <3> QED BY SMTT(30), <2>1, <2>2, <2>3, QuorumsMeet
  <2>5. PICK u \in votes : /\ u.validator = v /\ u.step = "Prevote" /\ u.round = k /\ u.value = z
                           /\ Justified(u)
    BY SMTT(30), <2>4 DEF Correct, JustifiedVoters, Prevotes
  <2>6. PICK w \in votes : /\ w.validator = v /\ w.step = "Precommit" /\ w.round = r /\ w.value = x
    BY SMTT(30), <2>4 DEF Correct
  <2>7. PICK m \in Rounds : r <= m /\ m < k /\ HasQuorum(m, "Prevote", z)
    BY SMTT(30), <1>2, <1>3, <1>5, <2>5, <2>6, CommitteeAssumption DEF Justified
  <2>8. m \in Bad
    BY <1>2, <2>7
  <2> QED BY SMTT(30), <1>1, <2>7, <2>8
<1> QED BY <1>4, <1>5

(* No committee with less than a third of Byzantine power ever decides two *)
(* blocks of a height, whatever its size, its weights, the number of       *)
(* rounds, and the crashes of its correct validators.                      *)
THEOREM BlocksAgree == Spec => []Agreement
<1>1. IInv => Agreement
  <2> SUFFICES ASSUME IInv, NEW x \in Values, NEW y \in Values,
                      NEW r \in Rounds, NEW q \in Rounds,
                      Support(votes, r, "Precommit", x) >= quorum_power,
                      Support(votes, q, "Precommit", y) >= quorum_power
               PROVE  x = y
    BY DEF Agreement
  <2>1. HasQuorum(r, "Precommit", x) /\ HasQuorum(q, "Precommit", y)
    BY DEF HasQuorum, vote_power, Support
  <2>2. HasQuorum(r, "Prevote", x) /\ HasQuorum(q, "Prevote", y)
    BY <2>1, DecidedWasPrevoted
  <2>3. r <= q \/ q <= r
    BY SMTT(30) DEF Rounds
  <2> QED BY SMTT(30), <2>1, <2>2, <2>3, DecisionBinds
<1> QED BY <1>1, InvariantHolds, PTL

(* No correct validator signs two votes for one round and step, though it  *)
(* may crash between any two of its steps and go on from its log.          *)
THEOREM VotesAreUnique == Spec => []NoEquivocation
<1>1. IInv => NoEquivocation
  <2> SUFFICES ASSUME IInv PROVE NoEquivocation
    BY SMTT(30)
  <2>1. TypeOK
    BY DEF IInv, TypeInv, TypeOK, Shape, RoundState
  <2> QED BY <2>1 DEF IInv, VotesOnce, NoEquivocation
<1> QED BY <1>1, InvariantHolds, PTL
=============================================================================
