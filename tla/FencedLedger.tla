---------------------------- MODULE FencedLedger ----------------------------
(***************************************************************************)
(* What the single writer authority promises the workers of one session:   *)
(* one linear canonical history, in which every block was proposed by the  *)
(* writer whose epoch was the newest when the block became canonical, and  *)
(* certificates that only ever speak about that history.                   *)
(*                                                                         *)
(* A head is the sequence of the blocks below it: session heads carry the  *)
(* hash of a block that commits to its parent, so two heads are equal      *)
(* exactly when their histories are.  Block n of the code (numbered from   *)
(* 0) is position n + 1 of the sequence.                                   *)
(***************************************************************************)
EXTENDS Naturals, Sequences

CONSTANTS Workers,   \* the request-signing keys of workers
          Batches    \* the command sets a block request can carry

VARIABLES grants,    \* one writer grant per epoch, in epoch order
          chain,     \* the canonical blocks
          certs      \* the canonical certificates handed out so far

vars == <<grants, chain, certs>>

Block == [epoch: Nat \ {0}, owner: Workers, batch: Batches]

SessionHead == Seq(Block)

WriterGrant == [epoch: Nat \ {0}, owner: Workers, anchor: SessionHead]

CanonicalReceipt == [epoch: Nat \ {0}, owner: Workers, head: SessionHead]

(* The commands a history has made canonical. *)
Committed(h) == UNION {h[i].batch : i \in DOMAIN h}

(* History s is an initial part of history t. *)
IsInitial(s, t) ==
    /\ Len(s) <= Len(t)
    /\ \A i \in 1..Len(s) : s[i] = t[i]

Init ==
    /\ grants = <<>>
    /\ chain = <<>>
    /\ certs = {}

(* An administrator moves the session to a new epoch at the exact head. *)
Grant(owner, anchor) ==
    /\ anchor = chain
    /\ grants' = Append(grants, [epoch |-> Len(grants) + 1,
                                 owner |-> owner, anchor |-> anchor])
    /\ UNCHANGED <<chain, certs>>

(* The newest writer extends the head it signed for with fresh commands. *)
Commit(epoch, owner, base, batch) ==
    /\ grants # <<>>
    /\ epoch = Len(grants)
    /\ owner = grants[Len(grants)].owner
    /\ base = chain
    /\ batch \cap Committed(chain) = {}
    /\ chain' = Append(chain, [epoch |-> epoch, owner |-> owner, batch |-> batch])
    /\ UNCHANGED <<grants, certs>>

(* A certificate names a canonical block and the writer stamped into it. *)
Certify(n) ==
    /\ certs' = certs \cup {[epoch |-> chain[n].epoch,
                             owner |-> chain[n].owner,
                             head |-> SubSeq(chain, 1, n)]}
    /\ UNCHANGED <<grants, chain>>

Next ==
    \/ \E w \in Workers : Grant(w, chain)
    \/ \E w \in Workers, b \in Batches : Commit(Len(grants), w, chain, b)
    \/ \E n \in 1..Len(chain) : Certify(n)

Spec == Init /\ [][Next]_vars
=============================================================================
