----------------------------- MODULE MCDecisions -----------------------------
(***************************************************************************)
(* Two decisions over documents that other programs write: whether a       *)
(* source is current, as its file grows, and whether a credential speaks   *)
(* for the configured identity, as its files are replaced.  They share     *)
(* nothing, so a behaviour follows one of them.                            *)
(***************************************************************************)
EXTENDS MCForwardEligibility, CredentialSelector, TLC

(* Accounts of two projects; the carriers of the two kinds for each, and   *)
(* what may be wrong with them or left out.                                *)
CONSTANTS a, b, audience

MCProjectOf == (a :> "p") @@ (b :> "q")
MCCarriers ==
    LET nested == [closed |-> TRUE, type |-> "impersonated", target |-> a, quota |-> "p",
                   source |-> "account", email |-> a, complete |-> TRUE, delegates |-> "none",
                   scopes |-> "platform", audience |-> Missing]
        federated == [nested EXCEPT !.type = "external", !.source = Missing, !.email = Missing,
                                    !.audience = audience]
        Elsewhere(c) == [c EXCEPT !.target = b, !.quota = "q"]
    IN  {nested, federated, Elsewhere(nested), Elsewhere(federated),
         [nested EXCEPT !.email = b], [nested EXCEPT !.source = "user", !.email = Missing],
         [nested EXCEPT !.closed = FALSE], [nested EXCEPT !.target = Missing],
         [Elsewhere(nested) EXCEPT !.delegates = Missing, !.scopes = Missing, !.quota = Missing],
         [federated EXCEPT !.quota = Missing], [federated EXCEPT !.quota = "q"],
         [federated EXCEPT !.audience = Missing]}

(* A selector for every profile, and selectors that Validate refuses.      *)
MCSelectors ==
    LET Told(profile) == [closed |-> TRUE, profile |-> profile, identity |-> a, base |-> FALSE,
                          audience |-> IF profile = "workload" THEN audience ELSE Missing]
    IN  {Told(profile) : profile \in Profiles \cup {"other"}}
        \cup {[Told(profile) EXCEPT !.base = TRUE] : profile \in Profiles}
        \cup {[Told("workload") EXCEPT !.audience = Missing], [Told("device") EXCEPT !.audience = audience],
              [Told("attached") EXCEPT !.audience = "other"],
              [Told("impersonated") EXCEPT !.closed = FALSE]}

MCEnvironments == {{}, {"config"}, {"logging"}, {"override"}} \cup {{g, "carrier"} : g \in Groups}

VARIABLE part

sourceVars == <<content, cutoff>>

(* The part a behaviour does not follow stays in one initial state.        *)
MCInit ==
    \/ /\ part = "source" /\ Init /\ SelectorInit
       /\ selector = CHOOSE s \in Selectors : TRUE
       /\ environment = {} /\ client = "unset" /\ holds["adc"].says = CHOOSE c \in Carriers : TRUE
    \/ /\ part = "credential" /\ SelectorInit
       /\ content = Blank(CHOOSE k \in Kinds : TRUE) /\ cutoff = CHOOSE c \in Cutoffs : TRUE

MCNext ==
    \/ part = "source" /\ Next /\ UNCHANGED <<selectorVars, part>>
    \/ part = "credential" /\ SelectorNext /\ UNCHANGED <<sourceVars, part>>

MCSpec == MCInit /\ [][MCNext]_<<sourceVars, selectorVars, part>>
=============================================================================
