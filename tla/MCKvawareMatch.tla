--------------------------- MODULE MCKvawareMatch ---------------------------
(* Two instances and a prompt of three chunks; a band of two chunks.       *)
EXTENDS KvawareMatch

CONSTANTS k1, k2, k3, a, b

MCMeta == [instance : {a, b}, worker : {0}, location : {"cpu"}]
MCRequests == {<<k1, k2, k3>>}
=============================================================================
