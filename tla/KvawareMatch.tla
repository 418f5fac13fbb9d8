---------------------------- MODULE KvawareMatch ----------------------------
(***************************************************************************)
(* What kvaware makes of a lookup: KvawareRouter.route_request on the      *)
(* layout_info of KVController.  One token stands for a chunk.             *)
(***************************************************************************)
EXTENDS KVController

CONSTANT Threshold      \* kv_aware_threshold, in chunks

\* The matched_tokens of the first name, when there is one.
MatchedTokens(layout) ==
    layout.credit[CHOOSE i \in layout.first : TRUE].matched

FallsBack(request) ==
    LET layout == Lookup(request)
    IN  \/ layout.first = {}
        \/ MatchedTokens(layout) + Threshold < Len(request)

\* "Route the request to the appropriate engine URL by where the KV cache of
\* the longest prefix match is found" (the class docstring of KvawareRouter):
\* when it follows the cache, no other instance has more of the prompt.
FollowsLongestMatch ==
    \A r \in Requests :
        ~FallsBack(r) =>
            LET layout == Lookup(r)
            IN  \A i \in DOMAIN layout.credit :
                    layout.credit[i].matched <= MatchedTokens(layout)
=============================================================================
