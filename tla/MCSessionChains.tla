--------------------------- MODULE MCSessionChains ---------------------------
(***************************************************************************)
(* Deployments for TLC.  A and B are created; S continues or replaces A, T *)
(* comes after S.                                                          *)
(***************************************************************************)
EXTENDS SessionChains, TLC

CONSTANTS A, B, S, T, c1, c2, x, y

MCSessions == {A, B, S, T}
MCHandles == {c1, c2}
MCCommands == {x, y}

(* A plain claim on B that expires at time 1; one that waits for a receipt *)
(* of its block's message; and one whose value is copied, not moved.       *)
Plain == [targets |-> {B}, expires_at |-> 1, receipts |-> 0, copyable |-> FALSE]
Evidenced == [Plain EXCEPT !.receipts = 1]
Copied == [Plain EXCEPT !.copyable = TRUE]

MCIntents == {Plain, Evidenced, Copied}

OfA(intents) == [s \in Sessions |-> IF s = A THEN intents ELSE {}]
Heights(a, others) == [s \in Sessions |-> IF s = A THEN a ELSE others]

(* Two processes, two sessions, one claim at a time. *)
Handoffs ==
    [sessions |-> {A, B}, roots |-> {A, B}, archived |-> {},
     handles |-> {c1, c2}, commands |-> {}, issues |-> OfA({Plain}),
     emits |-> {FALSE}, heights |-> Heights(3, 1), prepared |-> 1, revisions |-> 0]

(* Two processes whose sessions declare the same successor. *)
Succession ==
    [Handoffs EXCEPT !.sessions = {A, B, S}, !.issues = OfA({}),
                     !.heights = Heights(2, 1)]

(* A line of successors one longer than ownership reaches. *)
Lineage ==
    [Handoffs EXCEPT !.sessions = {A, S, T}, !.roots = {A}, !.handles = {c1},
                     !.heights = [s \in Sessions |-> IF s = T THEN 1 ELSE 2]]

(* Archival of blocks with messages, receipts and claims on them. *)
Archive ==
    [Handoffs EXCEPT !.archived = {A, B}, !.handles = {c1},
                     !.issues = OfA({Evidenced}), !.emits = {TRUE},
                     !.heights = Heights(2, 1)]

(* Archival of blocks with claims that are copied. *)
Copies ==
    [Archive EXCEPT !.issues = OfA({Copied}), !.emits = {FALSE}]

(* Two consensus processes with several candidates on one session. *)
WriteAhead ==
    [Handoffs EXCEPT !.sessions = {A}, !.roots = {A}, !.commands = {x},
                     !.issues = OfA({}), !.heights = Heights(2, 2),
                     !.prepared = 2, !.revisions = 2]

MCPlans ==
    [handoffs |-> Handoffs, succession |-> Succession, lineage |-> Lineage,
     archive |-> Archive, copies |-> Copies, wal |-> WriteAhead]

AllApplication == [s \in Sessions |-> "Application"]
SameProfile == [s \in Sessions |-> [rules |-> 0, codec |-> 0]]

Symmetry == Permutations(Handles) \cup Permutations(Commands)
=============================================================================
