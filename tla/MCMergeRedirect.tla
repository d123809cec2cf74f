--------------------------- MODULE MCMergeRedirect ---------------------------
(* One company met under an LEI, a CIK, a Wikidata item and a uuid.           *)
EXTENDS MergeRedirect, TLC

CONSTANTS lei, sec, wd, uuid

MCRank == [i \in Id |-> CASE i = lei -> 0 [] i = sec -> 1 [] i = wd -> 2 [] i = uuid -> 3]

Symmetry == Permutations(Worker)
=============================================================================
