--------------------------- MODULE MCCommandJournal ---------------------------
(***************************************************************************)
(* What a client of a session may rely on, for TLC: a behaviour is one of  *)
(* a command journal alone beside its session chain, of one fenced by a    *)
(* writer authority, or of the clients of the authority's gateways.        *)
(***************************************************************************)
EXTENDS CommandJournal, TLC

CONSTANTS a, b, p, q, w,
          Sessions, NoRef, Clients, Owners, Source, Target, Genesis, Scripts,
          in_flight, response_bytes, MAX_EFFECTS, MaxFailures

BothIds == {a, b}
BothPayloads == {p, q}
MCWorkers == {w}

(* Two commands, or two payloads under one identifier.  The set is closed  *)
(* under the permutations of Symmetry.                                     *)
MCOffers == {[id: BothIds, payload: {x}] : x \in BothPayloads}
                \cup {[id: {x}, payload: BothPayloads] : x \in BothIds}

Symmetry == Permutations(BothIds) \cup Permutations(BothPayloads)

VARIABLES chain, pc, result,                    \* the unfenced journal's
          offered, grants, sent, certificates,  \* the fenced one's, with chain
          histories, writers, uncertain, failures, jobs, reading,  \* the gateways'
          calls, replies, signed, learned, script, sink, made,
          part            \* which of the three a behaviour is of

Unfenced == INSTANCE UnfencedJournal WITH MaxHeight <- 2

Fenced == INSTANCE FencedJournal
          WITH Workers <- MCWorkers, Offers <- MCOffers, MaxEpochs <- 2, MaxHeight <- 1

Gateway == INSTANCE AuthorityGateway WITH chain <- histories, grants <- writers

journals == <<mem, disk, recovery_required, chain, pc, result,
              offered, grants, sent, certificates>>
gatewayVars == <<histories, writers, uncertain, failures, jobs, reading, calls, replies,
                 signed, learned, script, sink, made>>
mcvars == <<journals, gatewayVars, part>>

-----------------------------------------------------------------------------
(* Two claims of session s that session t may consume, issued in the first *)
(* block of s.                                                             *)
MCSource == [id \in {"k", "l"} |-> "s"]
MCTarget == [id \in {"k", "l"} |-> "t"]
MCGenesis ==
    [s \in {"s", "t"} |->
        IF s = "t" THEN <<>>
        ELSE <<[session |-> "s", number |-> 0, epoch |-> 1, owner |-> "w", commands |-> {},
                actions |-> {<<"Issue", "k">>, <<"Issue", "l">>}]>>]

(* What the clients of two gateways do, one after another each: commits    *)
(* and grants that race, claims looked up while they are consumed and      *)
(* retired, a claim cancelled and reclaimed under a new epoch, and effects *)
(* asked for beside the blocks they are of.                                *)
Via(s) == [session |-> s, gateways |-> {s}]
Does(commands, actions) == [commands |-> commands, actions |-> actions]
CommitOf(s, commands, actions) ==
    Via(s) @@ [kind |-> "Commit", candidate |-> Does(commands, actions)]
GrantTo(s, who) == Via(s) @@ [kind |-> "Grant", owner |-> who]
ReconcileOf(s) == Via(s) @@ [kind |-> "Reconcile"]
ObserveAt(s) == [session |-> s, gateways |-> {"s", "t"}, kind |-> "Observe"]
ClaimsOf(s, ids, minimum) == Via(s) @@ [kind |-> "Claims", ids |-> ids, minimum_epoch |-> minimum]
BlockAt(s, n) == Via(s) @@ [kind |-> "Block", height |-> n]
EffectAt(s, n, k) == Via(s) @@ [kind |-> "Effect", height |-> n, message |-> k]
Both(x, y) == ("c" :> x) @@ ("d" :> y)

MCScripts ==
    {Both(<<CommitOf("s", {"a"}, {}), ReconcileOf("s")>>,
          <<GrantTo("s", "x"), CommitOf("s", {"a"}, {}), ReconcileOf("s")>>),
     Both(<<ClaimsOf("s", <<"k", "l">>, 1), ClaimsOf("s", <<"k">>, 2)>>,
          <<CommitOf("t", {}, {<<"Consume", "k">>}), CommitOf("t", {}, {<<"Consume", "l">>}),
            CommitOf("s", {}, {<<"Retire", "k">>})>>),
     Both(<<CommitOf("s", {}, {<<"Cancel", "k">>}), CommitOf("s", {}, {<<"Reclaim", "k">>}),
            ClaimsOf("t", <<"k">>, 1)>>,
          <<GrantTo("s", "x"), ClaimsOf("s", <<"k">>, 2)>>),
     Both(<<CommitOf("s", {"a"}, {}), EffectAt("s", 1, "a"), ObserveAt("s")>>,
          <<CommitOf("s", {"b"}, {}), BlockAt("s", 1), EffectAt("s", 1, "a")>>)}

-----------------------------------------------------------------------------
MCInit ==
    /\ \/ /\ part = "fenced"
          /\ Fenced!Init
          /\ pc = "idle" /\ result = "none"
       \/ /\ part \in {"unfenced", "gateway"}
          /\ Unfenced!Init
          /\ offered = {} /\ grants = << >> /\ sent = {} /\ certificates = {}
    /\ Gateway!Init /\ (part # "gateway" => script = CHOOSE x \in Scripts : TRUE)

MCNext ==
    /\ \/ part = "fenced" /\ Fenced!Next /\ UNCHANGED <<pc, result, gatewayVars>>
       \/ part = "unfenced" /\ Unfenced!Next
             /\ UNCHANGED <<offered, grants, sent, certificates, gatewayVars>>
       \/ part = "gateway" /\ Gateway!Next /\ UNCHANGED journals
    /\ UNCHANGED part

MCSpec == MCInit /\ [][MCNext]_mcvars

(* Work is not done twice: a command the unfenced journal got committed is *)
(* never open for submission again, through crashes and uncertain answers, *)
(* and the fenced journal never puts work back into its queue while a      *)
(* request for it that it sent could still commit.                         *)
NoWorkRepeated ==
    /\ part = "unfenced" => Unfenced!CommittedNeverReleased
    /\ part = "fenced" => Fenced!NoLiveResubmission

(* The commands the unfenced journal gets committed follow their admission *)
(* order through all retries: stale work blocks later work.                *)
AdmissionOrder == part = "unfenced" => Unfenced!AdmissionOrder

(* What either journal tells a client about inclusion is true of the chain *)
(* it submits to, however old the evidence was when it was applied.  An    *)
(* interpreted outcome, an acknowledgement and a conflict are final,       *)
(* uncertain work ends only through a receipt or a definite refusal, and   *)
(* old or repeated evidence never moves newer work.                        *)
OutcomesAreFinal ==
    /\ [](part # "gateway" => Fenced!ReceiptsAreTrue)
    /\ [][part = "unfenced" => Unfenced!KeepsOutcomes]_mcvars
    /\ [][part = "fenced" => Fenced!OwnEvidenceOnly]_mcvars

(* What the gateways promise: an answer a client accepts is true of the    *)
(* sessions at some moment of its call.                                    *)
AnswersAreTrue == part = "gateway" => Gateway!AnswersAreTrue
=============================================================================
