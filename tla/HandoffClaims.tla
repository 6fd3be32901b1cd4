---------------------------- MODULE HandoffClaims ----------------------------
(***************************************************************************)
(* What a handoff promises to the sessions that share a store.  A claim is *)
(* issued once; after that its value leaves by one of two doors and never  *)
(* by both: a target consumes it (and the source may retire its lock), or  *)
(* the source cancels it (and may reclaim the value).  The trail of a      *)
(* claim is what the committed blocks of all sessions say about it.        *)
(***************************************************************************)
CONSTANTS Claims,   \* the claims blocks can issue
          Blocks    \* the places blocks can have in the histories

VARIABLE trail      \* the events so far: a claim, what happened, and where

(* The event that may follow the kinds of event a claim has already seen. *)
Follows(kinds) ==
    CASE kinds = {} -> {"Issue"}
      [] kinds = {"Issue"} -> {"Consume", "Cancel"}
      [] kinds = {"Issue", "Cancel"} -> {"Reclaim"}
      [] kinds = {"Issue", "Consume"} -> {"Retire"}
      [] OTHER -> {}

Kinds(claim) == {e.kind : e \in {f \in trail : f.claim = claim}}

Init == trail = {}

(* One new block adds at most one event to each claim. *)
Commit(at, events) ==
    /\ \A e \in trail : e.at # at
    /\ \A e \in events : /\ e.claim \in Claims
                         /\ e.at = at
                         /\ e.kind \in Follows(Kinds(e.claim))
                         /\ \A f \in events : f.claim = e.claim => f = e
    /\ trail' = trail \cup events

Next ==
    LET events == trail' \ trail IN
    \E e \in events : e.at \in Blocks /\ Commit(e.at, events)

Spec == Init /\ [][Next]_trail
=============================================================================
