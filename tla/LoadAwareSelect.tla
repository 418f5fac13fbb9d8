--------------------------- MODULE LoadAwareSelect ---------------------------
(***************************************************************************)
(* The pure placement decision of LoadAwareRouter (routing_logic.py).      *)
(* URLs are numbers, in their lexicographic order.  The code computes      *)
(*     min(matched, prompt) / max(prompt, 1) - beta * relative_load        *)
(*     relative_load = (load - mean) / max(1, mean)                        *)
(* in floats; here beta is a ratio num / den and a score is multiplied by  *)
(* max(prompt, 1) * den * max(n, total), which is one positive number for  *)
(* all n endpoints of a request.  A den of 0 stands for what else float()  *)
(* reads: 1/0 for inf, -1/0 for -inf, 0/0 for nan.  The rounding of floats *)
(* is left out: two scores that are equal here may differ in their last    *)
(* bit there, unless they come from equal loads and equal matches.         *)
(***************************************************************************)
EXTENDS Integers, FiniteSetsExt

NoUrl == 0      \* None

AtMost(x, y) == IF x < y THEN x ELSE y
AtLeast(x, y) == IF x > y THEN x ELSE y

\* In-flight requests of u; an engine without statistics has served none.
LoadPenalty(stats, u) ==
    IF u \in DOMAIN stats THEN stats[u].prefill + stats[u].decoding ELSE 0

TotalLoad(stats, endpoints) ==
    MapThenSumSet(LAMBDA u : LoadPenalty(stats, u), endpoints)

\* relative_loads, times n * max(1, mean) = max(n, total).
RelativeLoad(stats, endpoints, u) ==
    Cardinality(endpoints) * LoadPenalty(stats, u) - TotalLoad(stats, endpoints)

\* A plausible wrong LoadScale, for the mutation runs: relative_load divides by
\* no mean, so that it is the absolute distance from it.
AbsoluteScale(stats, endpoints) == Cardinality(endpoints)

LoadScale(stats, endpoints) ==
    AtLeast(Cardinality(endpoints), TotalLoad(stats, endpoints))

\* A plausible wrong Benefit, for the mutation run: no cap at a full hit.
RawBenefit(matched, prompt) == matched

Benefit(matched, prompt) == AtMost(matched, prompt)

\* A score is its infinity, 0 for none, and its value; or it is not a number.
MinusInfinity == <<-1, 0>>
NaN == <<>>

ScoreEndpoint(beta, matched, prompt, relative, scale) ==
    LET penalty == beta.num * relative
    IN  CASE beta.den # 0 -> <<0, Benefit(matched, prompt) * beta.den * scale
                                    - penalty * AtLeast(prompt, 1)>>
          [] beta.den = 0 /\ penalty # 0 -> <<IF penalty > 0 THEN -1 ELSE 1, 0>>
          [] beta.den = 0 /\ penalty = 0 -> NaN

Exceeds(s, t) ==
    NaN \notin {s, t} /\ (s[1] > t[1] \/ (s[1] = t[1] /\ s[2] > t[2]))

\* Plausible wrong versions of Better, for the mutation runs: >= for >; a best
\* score that starts at 0.
NoWorse(score, best) == score # NaN /\ ~Exceeds(best.score, score)
BetterThanNothing(score, best) == Exceeds(score, best.score) /\ Exceeds(score, <<0, 0>>)

\* score > best_score, which starts at minus infinity.
Better(score, best) == Exceeds(score, best.score)

\* sorted(endpoints, key=lambda e: e.url): the nth is the one with n up to it.
SortedByUrl(S) ==
    [n \in 1..Cardinality(S) |-> CHOOSE u \in S : Cardinality({v \in S : v <= u}) = n]

\* The URL that select_url returns, or None; matched is matched_tokens_by_url.
SelectUrl(beta, endpoints, stats, matched, prompt) ==
    LET sorted == SortedByUrl(endpoints)
        scale == LoadScale(stats, endpoints)
        Tokens(u) == IF u \in DOMAIN matched THEN matched[u] ELSE 0
        Score(u) == ScoreEndpoint(beta, Tokens(u), prompt,
                                  RelativeLoad(stats, endpoints, u), scale)
        best[n \in 0..Cardinality(endpoints)] ==
            IF n = 0 THEN [url |-> NoUrl, score |-> MinusInfinity]
            ELSE LET before == best[n-1]
                     score == Score(sorted[n])
                 IN  IF Better(score, before)
                     THEN [url |-> sorted[n], score |-> score] ELSE before
    IN  best[Cardinality(endpoints)].url
=============================================================================
