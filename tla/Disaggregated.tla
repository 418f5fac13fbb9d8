----------------------------- MODULE Disaggregated -----------------------------
(***************************************************************************)
(* DisaggregatedPrefillRouter.route_request: two filters by model label.   *)
(* A request for one token is the prefill of another one.                  *)
(***************************************************************************)
EXTENDS Naturals, FiniteSetsExt

CONSTANT Label      \* e.model_label of each URL

NoLabels == "None"

\* A plausible wrong Labelled, for the mutation run: no filter.
AnyLabel(endpoints, label) == DOMAIN endpoints

\* The positions of the endpoints whose label is in a list of one label.
Labelled(endpoints, label) == {n \in DOMAIN endpoints : Label[endpoints[n]] = label}

\* The URL of the first of them, or 0 for the TypeError of a router made without
\* both lists of labels and the IndexError of a role that no endpoint has.
RouteByRole(endpoints, isPrefill, prefillLabels, decodeLabels) ==
    LET able == Labelled(endpoints, IF isPrefill THEN prefillLabels ELSE decodeLabels)
    IN  IF NoLabels \in {prefillLabels, decodeLabels} \/ able = {} THEN 0
        ELSE endpoints[Min(able)]
=============================================================================
