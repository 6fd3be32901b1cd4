-------------------------- MODULE HandoffLifecycle --------------------------
(***************************************************************************)
(* The records of a handoff's life and the rules on single records: which  *)
(* terminal state a lifecycle action may leave, and what it makes of it.   *)
(*                                                                         *)
(* A handoff is identified by the session, the height and the intent that  *)
(* issued it, as its id hashes all three.  A block reference is the place  *)
(* of a block: one height of one session never holds two blocks.           *)
(***************************************************************************)
EXTENDS Naturals, Sequences, FiniteSets

CONSTANTS Sessions,   \* session ids
          Intents,    \* what an application may ask to hand off
          NoRef       \* an action that refers to no earlier block

BlockRef == [session: Sessions, height: Nat]

(* targets: the sessions an exact or a policy target accepts; receipts:    *)
(* how many evidence receipts of the source block's message must exist.    *)
Intent == [targets: SUBSET Sessions, expires_at: Nat,
           receipts: Nat, copyable: BOOLEAN]

ASSUME IntentAssumption == Intents \subseteq Intent

ASSUME NoRefAssumption == NoRef \notin BlockRef

SessionHandoff == [source: Sessions, height: Nat, intent: Intents]

Issued == [state |-> "Issued"]

Consumed(at) == [state |-> "Consumed", at |-> at]

Cancelled(at) == [state |-> "Cancelled", at |-> at]

Reclaimed(cancelled_at, at) ==
    [state |-> "Reclaimed", cancelled_at |-> cancelled_at, at |-> at]

Retired(consumed_at, at) ==
    [state |-> "Retired", consumed_at |-> consumed_at, at |-> at]

HandoffTerminal ==
    [state: {"Issued"}]
        \cup [state: {"Consumed", "Cancelled"}, at: BlockRef]
        \cup [state: {"Reclaimed"}, cancelled_at: BlockRef, at: BlockRef]
        \cup [state: {"Retired"}, consumed_at: BlockRef, at: BlockRef]

(* evidence: the cancellation a refund rests on, the consumption a         *)
(* retirement rests on.                                                    *)
HandoffAction == [kind: {"Cancel", "Reclaim", "Retire"},
                  handoff: SessionHandoff, evidence: BlockRef \cup {NoRef}]

is_available(terminal) == terminal = Issued

terminal_is_final(terminal) == terminal.state \in {"Reclaimed", "Retired"}

consumption(terminal) ==
    CASE terminal.state = "Consumed" -> terminal.at
      [] terminal.state = "Retired" -> terminal.consumed_at
      [] OTHER -> NoRef

(* Within one session, block p comes before block q. *)
Earlier(p, q) == p.session = q.session => p.height < q.height

IssuedAt(h) == [session |-> h.source, height |-> h.height]

validate_for(a, at) ==
    /\ Earlier(IssuedAt(a.handoff), at)
    /\ a.kind = "Cancel" => a.evidence = NoRef
    /\ a.kind = "Retire" => a.evidence # NoRef /\ Earlier(a.evidence, at)
    /\ a.kind = "Reclaim" => /\ a.evidence # NoRef
                             /\ Earlier(a.evidence, at)
                             /\ Earlier(IssuedAt(a.handoff), a.evidence)

validate_lifecycle(h, terminal) ==
    CASE terminal.state = "Retired" ->
            /\ Earlier(IssuedAt(h), terminal.at)
            /\ Earlier(terminal.consumed_at, terminal.at)
      [] terminal.state = "Cancelled" -> Earlier(IssuedAt(h), terminal.at)
      [] terminal.state = "Reclaimed" ->
            /\ Earlier(IssuedAt(h), terminal.cancelled_at)
            /\ Earlier(terminal.cancelled_at, terminal.at)
      [] OTHER -> TRUE

(* The terminal state an action must find. *)
ExpectedTerminal(a) ==
    CASE a.kind = "Cancel" -> Issued
      [] a.kind = "Reclaim" -> Cancelled(a.evidence)
      [] a.kind = "Retire" -> Consumed(a.evidence)

(* The terminal state an action at block reference at leaves. *)
apply_action(a, at) ==
    CASE a.kind = "Cancel" -> Cancelled(at)
      [] a.kind = "Reclaim" -> Reclaimed(a.evidence, at)
      [] a.kind = "Retire" -> Retired(a.evidence, at)

(* The action an application can ask for, given the terminal state it read. *)
ActionsOn(h, terminal) ==
    CASE terminal.state = "Issued" ->
            {[kind |-> "Cancel", handoff |-> h, evidence |-> NoRef]}
      [] terminal.state = "Cancelled" ->
            {[kind |-> "Reclaim", handoff |-> h, evidence |-> terminal.at]}
      [] terminal.state = "Consumed" ->
            {[kind |-> "Retire", handoff |-> h, evidence |-> terminal.at]}
      [] OTHER -> {}
=============================================================================
