------------------------- MODULE MCConcurrentLookup -------------------------
(* Two interchangeable instances that share one worker id and location, a  *)
(* prompt of two chunks and one that is its prefix.                        *)
EXTENDS ConcurrentLookup

CONSTANTS k1, k2, a, b

MCMeta == [instance : {a, b}, worker : {0}, location : {"cpu"}]
MCRequests == {<<k1, k2>>, <<k1>>}
MCSymmetry == Permutations({a, b})
=============================================================================
