--------------------------- MODULE MCQueryStages ---------------------------
(***************************************************************************)
(* Small instances of the four parts of QueryStages: all graphs of four    *)
(* tables; an embeddings' file that lacks one or two of them and has one   *)
(* that the schema does not have any more; every ordered selection and     *)
(* every neighbourhood that it may have been chosen from.                  *)
(***************************************************************************)
EXTENDS QueryStages, TLC

CONSTANTS r1, r2

\* "slaa" is a typo of the term SLA and "tme" one of "time"; "as" is a stop word
\* a letter away from SLA; one term contains another one, and one ends in a
\* character that is no part of a word.
MCWord == {"sla", "SLA", "slaa", "tme", "time", "as", "v1"}
MCSeparator == {"-", "+", " "}
MCTechnical == {"v1"}
MCStopword == {"as"}
MCLower == [w \in MCWord |-> IF w = "SLA" THEN "sla" ELSE w]
MCDictionary == [w \in MCWord |-> IF w = "tme" THEN "time" ELSE w]
MCSpelled == ("SLA" :> <<"SLA">>) @@ ("tme SLA" :> <<"tme", " ", "SLA">>) @@ ("tme+" :> <<"tme", "+">>)
MCJargon == DOMAIN MCSpelled
MCLength == ("SLA" :> 3) @@ ("tme SLA" :> 7) @@ ("tme+" :> 4)
MCNear == {<<"slaa", "SLA">>, <<"as", "SLA">>, <<"time", "tme+">>}

\* Two runs whose prompts differ in size, so that the count of one can be told
\* from that of the other.  Three calls take a rerun from the feedback to a
\* validation and past it.
MCTokens == r1 :> 1 @@ r2 :> 2

\* The engines change places without a trace, so the first run's may be fixed.
MCInit == StagesInit /\ (part = "counts" => engines[r1] = "postgres")

MCSpec == MCInit /\ [][StagesNext]_all
=============================================================================
