----------------------------- MODULE MCOnDemand -----------------------------
(* One search, two requests, and what the two kinds of source can answer.     *)
EXTENDS OnDemand, TLC

CONSTANTS SecAnswers, WikidataAnswers

MCAnswers(s) == IF s = "sec" THEN SecAnswers ELSE WikidataAnswers
MCProcOf == [r \in Req |-> CHOOSE p \in Proc : TRUE]
Symmetry == Permutations(Req)
=============================================================================
