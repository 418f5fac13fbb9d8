------------------------------ MODULE PrefixAware ------------------------------
(***************************************************************************)
(* PrefixAwareRouter.route_request: a request goes to one of the engines   *)
(* that the longest prefix of its prompt was sent to, as a trie remembers  *)
(* it.  The handler awaits the trie twice, so other requests come between  *)
(* its question and its insertion.  The trie is a library: it cuts a       *)
(* prompt into chunks and knows the engines of each path of chunks; a      *)
(* prompt is the sequence of its chunks here.  The text of a chat, all its *)
(* messages joined, is such a prompt like any other.                       *)
(***************************************************************************)
EXTENDS Naturals, FiniteSetsExt, SequencesExt

CONSTANTS
    EndpointLists,  \* the lists discovery may report, of URLs as numbers
    Prompts,        \* prompts, as sequences of chunks
    MaxSelected     \* bound on the requests between question and insertion

\* What a composition assumes of the constants.
PromptsAssumption == \A prompt \in Prompts : Len(prompt) \in Nat

VARIABLES
    hashtrie,   \* <<path, URL>> for the engines known at each path
    selected,   \* <<prompt, URL>> of requests that are not inserted yet
    served      \* history: <<prompt, URL>> of requests that were answered

vars == <<hashtrie, selected, served>>

Init == hashtrie = {} /\ selected = {} /\ served = {}

Paths(prompt) == {SubSeq(prompt, 1, n) : n \in 1..Len(prompt)}

\* hashtrie.longest_prefix_match: of the available engines, those known at the
\* longest path of the prompt that any of them is known at; or else all.
LongestPrefixMatch(prompt, available) ==
    LET Known(n) == {u \in available : <<SubSeq(prompt, 1, n), u>> \in hashtrie}
        matched == {n \in 1..Len(prompt) : Known(n) # {}}
    IN  IF matched = {} THEN available ELSE Known(Max(matched))

\* random.choice among the engines that match.
Select(prompt, endpoints) ==
    /\ Cardinality(selected) < MaxSelected
    /\ \E u \in LongestPrefixMatch(prompt, Range(endpoints)) :
           selected' = selected \union {<<prompt, u>>}
    /\ UNCHANGED <<hashtrie, served>>

\* A plausible wrong Insert, for the mutation run: only the whole prompt is
\* inserted, not the paths to it.
InsertWhole(prompt, u) ==
    /\ <<prompt, u>> \in selected
    /\ hashtrie' = hashtrie \union {<<prompt, u>>}
    /\ selected' = selected \ {<<prompt, u>>}
    /\ served' = served \union {<<prompt, u>>}

\* hashtrie.insert, and the return.
Insert(prompt, u) ==
    /\ <<prompt, u>> \in selected
    /\ hashtrie' = hashtrie \union {<<path, u>> : path \in Paths(prompt)}
    /\ selected' = selected \ {<<prompt, u>>}
    /\ served' = served \union {<<prompt, u>>}

Next ==
    \/ \E prompt \in Prompts, endpoints \in EndpointLists : Select(prompt, endpoints)
    \/ \E s \in selected : Insert(s[1], s[2])
-----------------------------------------------------------------------------
\* The chunks that a prompt begins with as another one does that u served.
Shared(u, prompt) ==
    Max({0} \union {n \in 1..Len(prompt) :
                        \E s \in served : s[2] = u /\ SubSeq(prompt, 1, n) \in Paths(s[1])})

\* "By where the longest prefix match is found": of the engines that discovery
\* lists, none was sent more of the prompt, by requests that were answered
\* before this one asked, than the engine it goes to; whatever engines came and
\* went, and whatever requests are under way.
LongestServedIsChosen ==
    [][\A prompt \in Prompts, endpoints \in EndpointLists :
          Select(prompt, endpoints) =>
              \A s \in selected' \ selected :
                  \A v \in Range(endpoints) : Shared(s[2], prompt) >= Shared(v, prompt)]_vars
=============================================================================
