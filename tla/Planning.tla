------------------------------- MODULE Planning -------------------------------
(***************************************************************************)
(* Execution plans: the fixed templates, and what the validator accepts of *)
(* a plan the model wrote.  A plan is a sequence of steps; a step names an *)
(* agent and the steps it depends on.  "wellFormed" stands for the checks  *)
(* of one step's own fields: identifier, agent and instruction not empty,  *)
(* stage at least 1.  The mode and the stage choose nothing else.          *)
(***************************************************************************)
EXTENDS Naturals, Sequences, FiniteSets

CONSTANTS
    LegalAgent, ContractAgent,  \* AgentTypeEnum
    Answer,                     \* the step id of every template
    Templates,                  \* the request patterns, LegalResearch among them
    LegalResearch,
    MaxPlanSteps                \* PLAN_MAX_STEPS

ASSUME PlanningAssumption ==
    LegalResearch \in Templates /\ LegalAgent # ContractAgent /\ MaxPlanSteps \in Nat \ {0}

Agents == {LegalAgent, ContractAgent}

Step(id, agent, deps, wellFormed) ==
    [id |-> id, agent |-> agent, deps |-> deps, wellFormed |-> wellFormed]

TemplatePlan(t) ==
    <<Step(Answer, IF t = LegalResearch THEN LegalAgent ELSE ContractAgent, <<>>, TRUE)>>

\* The templates are used only when the message matches exactly one of them.
TemplateMatches(matched) == Cardinality(matched) = 1
Resolve(matched) == TemplatePlan(CHOOSE t \in matched : TRUE)

Elements(s) == {s[i] : i \in DOMAIN s}
StepIds(plan) == {plan[i].id : i \in DOMAIN plan}
UniqueElements(s) == Cardinality(Elements(s)) = Len(s)

StepOf(plan, id) == plan[CHOOSE i \in DOMAIN plan : plan[i].id = id]
DependsOn(plan, id) == Elements(StepOf(plan, id).deps)

\* _transitive_dependencies: everything found by following depends_on.
TransitiveDependencies(plan, id) ==
    LET Found[found \in SUBSET StepIds(plan)] ==
            LET more == found \cup UNION {DependsOn(plan, d) : d \in found}
            IN IF more = found THEN found ELSE Found[more]
    IN Found[DependsOn(plan, id)]

StepIdsUnique(plan) == Cardinality(StepIds(plan)) = Len(plan)

StepsWellFormed(plan) == \A i \in DOMAIN plan : plan[i].wellFormed

DependenciesKnown(plan) ==
    \A i \in DOMAIN plan :
        /\ UniqueElements(plan[i].deps)
        /\ Elements(plan[i].deps) \subseteq StepIds(plan) \ {plan[i].id}

\* _visit_dependency: the depth-first visit raises when it meets a step that it
\* is still visiting.  A visit is the steps under way and the step it comes to.
Acyclic(plan) ==
    LET Raises[visit \in (SUBSET StepIds(plan)) \X StepIds(plan)] ==
            \/ visit[2] \in visit[1]
            \/ \E d \in DependsOn(plan, visit[2]) : Raises[<<visit[1] \cup {visit[2]}, d>>]
    IN \A id \in StepIds(plan) : ~Raises[<<{}, id>>]

\* Two steps of one agent must be ordered by a chain of dependencies.
AgentsNotConcurrent(plan) ==
    \A s, t \in StepIds(plan) :
        s # t /\ StepOf(plan, s).agent = StepOf(plan, t).agent =>
            s \in TransitiveDependencies(plan, t) \/ t \in TransitiveDependencies(plan, s)

\* The checks in their order: each relies on those before it.
Verdict(plan) ==
    IF \/ plan = <<>>
       \/ ~StepIdsUnique(plan)
       \/ ~StepsWellFormed(plan)
       \/ ~DependenciesKnown(plan)
       \/ ~Acyclic(plan)
       \/ ~AgentsNotConcurrent(plan)
    THEN "invalid"
    ELSE IF Len(plan) > MaxPlanSteps THEN "tooLarge" ELSE "valid"
===============================================================================
