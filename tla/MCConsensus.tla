----------------------------- MODULE MCConsensus -----------------------------
(***************************************************************************)
(* Finality for TLC: a behaviour is of the rounds in which Tendermint      *)
(* validators decide one height, or of the proofs by which the nodes of a  *)
(* session finalise its blocks under whichever module they configured.     *)
(***************************************************************************)
EXTENDS Tendermint, TLC

CONSTANTS v1, v2, v3, a, b, n1, n2,
          Nodes, Sessions, Signers, Blocks, PublicKeys, LongIds,
          MAX_SIGNATURES, MaxU64, MaxLength, MaxSigned

VARIABLES session, engine, genesis, signed, stored, certified,  \* the proofs'
          part

Finality == INSTANCE FinalityProofs WITH Rounds <- {0, 1}

finalityVars == <<session, engine, genesis, signed, stored, certified>>
mcvars == <<vars, finalityVars, part>>

-----------------------------------------------------------------------------
(* Total power 7, quorum 5, one Byzantine validator of power 2: the heavy  *)
(* validator makes a quorum with either of the others.                     *)
MCValidators == {v1, v2, v3}
MCByzantine == {v3}
MCOrder == <<v1, v2, v3>>
MCWeight == (v1 :> 3) @@ (v2 :> 2) @@ (v3 :> 2)
MCValues == {a, b}

-----------------------------------------------------------------------------
(* Members and the configuration files that name them.                     *)
KeyOf(id) == CASE id = "a" -> "k1" [] id = "b" -> "k2" [] id = "c" -> "k3" [] OTHER -> "k4"
Weighing(id, w) == [id |-> id, public_key |-> KeyOf(id), weight |-> w]
Sealing(id) == [id |-> id, public_key |-> KeyOf(id)]

Absent == [kind |-> "none"]
File(kind, committee, authority, tendermint) ==
    [kind |-> kind, static_committee |-> committee, proof_of_authority |-> authority,
     tendermint |-> tendermint]
Section(quorum, validators) == [kind |-> "s", quorum |-> quorum, validators |-> validators]
Static(quorum, validators) ==
    File("static-closed-committee", Section(quorum, validators), Absent, Absent)
Authority(authorities) ==
    File("proof-of-authority", Absent, [kind |-> "s", authorities |-> authorities],
         Absent)
Bft(quorum, validators) ==
    File("tendermint", Absent, Absent, Section(quorum, validators))

InOrder == <<Weighing("a", 2), Weighing("b", 2), Weighing("c", 1)>>
OutOfOrder == <<Weighing("c", 1), Weighing("b", 2), Weighing("a", 2)>>

(* Files every committee must refuse: no quorum, a quorum nobody reaches,  *)
(* an overflowing one, no members, a member twice, without weight or       *)
(* identifier, with another's key or none, an unknown or missing section.  *)
Refused ==
    {Static(0, InOrder), Static(6, InOrder), Static(3, <<Weighing("a", 7), Weighing("b", 7)>>),
     Static(1, <<>>), Static(3, <<Weighing("a", 2), Weighing("a", 1)>>),
     Static(2, <<Weighing("a", 2), Weighing("b", 0)>>), Static(2, <<Weighing("", 2)>>),
     Static(2, <<[Weighing("a", 2) EXCEPT !.public_key = "k9"]>>),
     Static(2, <<[Weighing("a", 2) EXCEPT !.public_key = "unparsable"]>>),
     File("raft", Absent, Absent, Absent),
     File("tendermint", Absent, Absent, Absent)}

SharedKey == [Sealing("b") EXCEPT !.public_key = "k1"]

MCSessions ==
    {[domains |-> {"static"},
      files |-> Refused \union {Static(3, InOrder), Static(3, OutOfOrder)}],
     [domains |-> {"static"},
      files |-> {Static(3, <<Weighing("a", 2), Weighing("long", 1)>>),
                 Static(2, <<Weighing("a", 2), Weighing("b", 1)>>)}],
     [domains |-> {"poa"},
      files |-> {Authority(<<Sealing("a"), Sealing("b")>>), Authority(<<Sealing("b"), Sealing("a")>>),
                 Authority(<<Sealing("a"), SharedKey>>)}],
     [domains |-> {"vote"},
      files |-> {Bft(3, InOrder), Bft(3, OutOfOrder), Authority(<<Sealing("a"), Sealing("b")>>)}],
     [domains |-> {"weighted-precommit"}, files |-> {Bft(3, InOrder)}]}

Block(kind, n, l) == [number |-> n, consensus_kind |-> kind, label |-> l]
MCBlocks ==
    {Block(kind, 1, l) : kind \in {"static-closed-committee", "proof-of-authority", "tendermint"},
                         l \in {"x", "y"}}
        \union {Block("proof-of-authority", 2, "x")}

(* Every member with its own key, and one that signs in another's name.    *)
MCSigners ==
    {[id |-> i, key |-> KeyOf(i)] : i \in {"a", "b", "c", "long"}} \union {[id |-> "b", key |-> "k1"]}
MCLongIds == {"long"}
MCPublicKeys == {"k1", "k2", "k3", "k4"}

-----------------------------------------------------------------------------
(* One session stands for all in the behaviours of the rounds.             *)
MCInit ==
    /\ Init
    /\ Finality!Init
    /\ part \in {"rounds", "proofs"}
    /\ part = "rounds" => session = CHOOSE s \in Sessions : TRUE

MCNext ==
    /\ \/ part = "rounds" /\ Next /\ UNCHANGED finalityVars
       \/ part = "proofs" /\ Finality!Next /\ UNCHANGED vars
    /\ UNCHANGED part

MCSpec == MCInit /\ [][MCNext]_mcvars

Symmetry == Permutations(MCValues) \union Permutations({n1, n2})

(* What FinalityProofs promises: two blocks of a height are final only     *)
(* with members to blame, what one node finalises every other would, and   *)
(* what a node keeps it can read back and verify.                          *)
FinalityHolds == part = "proofs" => Finality!FinalityHolds
=============================================================================
