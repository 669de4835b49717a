---------------------------- MODULE MCOrchestration ----------------------------
(* Plans of up to three steps for two agents, every graph of dependencies    *)
(* between them with and without a cycle, and plans the validator refuses.   *)
EXTENDS Orchestration

CONSTANTS Second, Third

MCThreeSteps ==
    {<<Step(Answer, a, <<>>, TRUE), Step(Second, b, d2, TRUE), Step(Third, c, d3, TRUE)>> :
        a \in {LegalAgent}, b \in Agents, c \in Agents,
        d2 \in {<<>>, <<Answer>>, <<Third>>},
        d3 \in {<<>>, <<Answer>>, <<Second>>, <<Answer, Second>>}}

MCRefused ==
    {<<>>,
     <<Step(Answer, LegalAgent, <<>>, FALSE)>>,
     <<Step(Answer, LegalAgent, <<Answer>>, TRUE)>>,
     <<Step(Answer, LegalAgent, <<Second>>, TRUE)>>,
     <<Step(Answer, LegalAgent, <<>>, TRUE), Step(Answer, ContractAgent, <<>>, TRUE)>>,
     <<Step(Answer, LegalAgent, <<>>, TRUE), Step(Second, LegalAgent, <<Answer, Answer>>, TRUE)>>,
     <<Step(Answer, LegalAgent, <<>>, TRUE), Step(Second, LegalAgent, <<Answer>>, TRUE),
       Step(Third, LegalAgent, <<Second>>, TRUE), Step("extra", LegalAgent, <<Third>>, TRUE)>>}

MCProposals == MCThreeSteps \cup MCRefused

MCWord(w, category, score) == [from |-> w, to |-> w, category |-> category, score |-> score]
MCAll(category, score) == [from |-> 1, to |-> 2, category |-> category, score |-> score]

\* Nothing, one detection, and two that overlap or stand side by side.
MCDetectedSets ==
    {{}, {MCWord(1, "structured", 1)}, {MCAll("named", 2)},
     {MCWord(1, "named", 1), MCWord(2, "named", 1)},
     {MCAll("named", 1), MCWord(1, "contact", 2)},
     {MCAll("named", 2), MCWord(2, "structured", 1)},
     {MCAll("named", 1), MCWord(1, "structured", 1)}}
================================================================================
