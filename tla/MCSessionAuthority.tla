------------------------- MODULE MCSessionAuthority -------------------------
(***************************************************************************)
(* A small instance of the writer authority for TLC, seen from two sides.  *)
(* A behaviour is one of the authority itself, with or without restores of *)
(* older copies of its canonical store, or one of a worker's journal       *)
(* beside the ledger that the authority implements.                        *)
(***************************************************************************)
EXTENDS SessionAuthority

CONSTANTS w1, w2, c1, c2, c, p, NoReservation, NoSubmission

VARIABLES scene,          \* what the behaviour is of
          mem, disk, recovery_required, offered, grants, canonical,
          sent, certificates   \* the worker's journal and the ledger it sees

MCWorkers == {w1, w2}

MCBatches == {{c1}, {c2}, {c1, c2}}

(* One worker and one command, with room for enough commits, grants and    *)
(* reopenings that an epoch is revoked while its work is uncertain, and    *)
(* for two certificates: asking too often before that uses them up.        *)
Worker == INSTANCE FencedJournal
          WITH chain <- canonical, Workers <- {w1}, Ids <- {c}, Payloads <- {p},
               Offers <- {[id: {c}, payload: {p}]}, MaxEntries <- 2,
               MaxCommands <- 2, MaxToken <- 2, MaxHeight <- 1

workerVars == <<mem, disk, recovery_required, offered, grants, canonical,
                sent, certificates>>

MCInit == Init /\ Worker!Init /\ scene \in {"alone", "restores", "worker"}

MCNext ==
    /\ \/ /\ scene # "worker"
          /\ Next \/ (scene = "restores" /\ \E copy \in backups : RestoreStore(copy))
          /\ UNCHANGED workerVars
       \/ /\ scene = "worker"
          /\ Worker!Next
          /\ UNCHANGED vars
    /\ UNCHANGED scene

(* The fairness of the journal's FairSpec, where the journal is at work.   *)
MCSpec ==
    /\ MCInit
    /\ [][MCNext]_<<vars, workerVars, scene>>
    /\ WF_workerVars(scene = "worker" /\ Worker!Restart)
    /\ SF_workerVars(scene = "worker" /\ Worker!Observe)
    /\ \A token \in 1..2 : SF_workerVars(scene = "worker" /\ Worker!Settle(token))

(* As long as nobody replaces the canonical store, whatever the authority  *)
(* was doing when it stopped, and whichever of its failed writes reached   *)
(* the disk, open accepts the two databases it left behind.                *)
RecoverableUnlessReplaced == TypeOK /\ (scene = "alone" => Recoverable)

(* As long as nobody replaces the canonical store, the authority           *)
(* implements the ledger: grants and blocks appear one at a time, a block  *)
(* only under the newest grant and with commands no block has yet.         *)
LedgerUnlessReplaced ==
    Ledger!Init /\ [][Ledger!Next \/ scene = "restores"]_<<Ledger!vars>>

(* Uncertain work does not stay uncertain once the session has moved past  *)
(* its epoch: its reservation in the journal ends, unless the evidence the *)
(* journal retains has reached its limit.                                  *)
RevokedWorkIsSettled == Worker!RevokedWorkIsSettled
=============================================================================
