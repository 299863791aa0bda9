------------------------------ MODULE Admission ------------------------------
(***************************************************************************)
(* From the result of an inspection to a copy with a price: the request    *)
(* that the worker makes of a result or of a human's decision              *)
(* (services/hitl_service.py, worker.py), the grade under which the WMS    *)
(* admits the copy (services/used_inventory_service.py, domain/) and its   *)
(* first price (services/dynamic_pricing_service.py, ai/pricing_agent.py). *)
(* Agents, worker, WMS and pricing have each their own thresholds of the   *)
(* score.  Scores count half points as in Ubci and prices whole won.  When *)
(* a copy is admitted and priced is the matter of InspectionPipeline and   *)
(* Outbound.                                                               *)
(***************************************************************************)
EXTENDS AgentGraph

CONSTANT BasePrices      \* list prices of books

\* A price of 193 to 199 rounds to more than itself, which the code refuses.
ASSUME PricesAssumption ==
    \A base \in BasePrices : base \in Nat /\ base >= 100 /\ base \notin 193..199

-----------------------------------------------------------------------------
(***************************************************************************)
(* The request of the worker                                               *)
(***************************************************************************)
\* A clean book without a score has the full one.
RequestScore(s, decision) ==
    IF decision = "APPROVE" /\ s.policy.score < 0 /\ s.mint = "mint" /\ s.defects = <<>>
    THEN 200 ELSE s.policy.score

\* execute_wms_action
Request(s, decision, final) ==
    [decision |-> decision, score |-> RequestScore(s, decision), defects |-> s.defects,
     final |-> final]

\* An automatic result names no final grade.
AutomaticRequest(s) == Request(s, WorkerDecision(s), "none")

\* apply_hitl_final_decision: what is approved as it is has the final grade of
\* the result, which names none.
HumanRequest(s, action, target) ==
    IF action \in Rejections THEN Request(s, "REJECT", "REJECT")
    ELSE Request(s, "APPROVE", IF action = "APPROVE_DOWNGRADE" THEN target ELSE "none")

-----------------------------------------------------------------------------
(***************************************************************************)
(* The grade of the WMS                                                    *)
(***************************************************************************)
SellableGrades == {"MINT", "EXCELLENT", "NORMAL"}

\* FATAL_DEFECT_CODES; the limit on marked pages is for a code no agent reports.
FatalDefectCodes == {"WATER_DAMAGE", "PAGE_WARPING", "BINDING_SEPARATION", "MISSING_PAGE",
                     "EXCESSIVE_MARKING"}

\* determine_condition_grade
ConditionGrade(score, defects) ==
    IF (\E i \in DOMAIN defects : defects[i].type \in FatalDefectCodes) \/ score < 130
    THEN "REJECT"
    ELSE IF score >= 190 THEN "MINT"
    ELSE IF score >= 170 THEN "EXCELLENT"
    ELSE "NORMAL"

\* The mistake: what is to be rejected by its score is not refused
\* (NormalApprovalsAreSound).
SlipResolved(r) ==
    IF r.decision = "REJECT" THEN "REJECT"
    ELSE IF r.final \in SellableGrades THEN r.final
    ELSE IF r.score >= 0 THEN ConditionGrade(r.score, r.defects)
    ELSE "refused"

\* _resolve_condition_grade: an approval that is to be rejected by its score, or
\* that has neither score nor grade, is refused.
Resolved(r) ==
    IF r.decision = "REJECT" THEN "REJECT"
    ELSE IF r.final \in SellableGrades THEN r.final
    ELSE IF r.final = "none" /\ r.score >= 0 /\ ConditionGrade(r.score, r.defects) # "REJECT"
    THEN ConditionGrade(r.score, r.defects)
    ELSE "refused"

-----------------------------------------------------------------------------
(***************************************************************************)
(* The first price                                                         *)
(***************************************************************************)
\* CATEGORY_POLICY, in hundredths of the price.
CategoryPolicy ==
    [ COMIC |-> 78, STUDY_GUIDE |-> 74, NOVEL |-> 76, HUMANITIES |-> 66,
      SOCIAL_SCIENCE |-> 64, BUSINESS_ECONOMICS |-> 69, SCIENCE_TECHNOLOGY |-> 71,
      CHILDREN |-> 68, LANGUAGE |-> 72, ART_LIFESTYLE |-> 65 ]

Categories == DOMAIN CategoryPolicy

\* calculate_condition_retention, in parts of 400; steeper for the lower grades.
ConditionRetention(score) ==
    IF score >= 190 THEN 380 + 2 * (score - 190)
    ELSE IF score >= 170 THEN 300 + 4 * (score - 170)
    ELSE 180 + 3 * (score - 130)

\* round_to_hundred, half up, of the price in parts of 40000
RoundToHundred(parts) == 100 * ((parts + 50 * 40000) \div (100 * 40000))

RawPrice(base, category, score) == base * CategoryPolicy[category] * ConditionRetention(score)

\* The mistake: no copy is too cheap (AutomaticApprovalsAreSold).
SlipFinalPrice(base, category, score) == RoundToHundred(RawPrice(base, category, score))

\* calculate_final_price
FinalPrice(base, category, score) ==
    Max({100, RoundToHundred(RawPrice(base, category, score))})

\* calculate_discount_rate: whole percents, rounded up.
DiscountRate(base, final) == ((base - final) * 100 + base - 1) \div base

\* The request is valid, the price can be discounted to, and it is written.
Priced(base, category, score) ==
    LET final == FinalPrice(base, category, score)
    IN /\ base >= 100 /\ score \in 130..200
       /\ 0 < final /\ final <= base
       /\ 0 <= DiscountRate(base, final) /\ DiscountRate(base, final) < 100

Saleable(score) == \A base \in BasePrices, c \in Categories : Priced(base, c, score)

-----------------------------------------------------------------------------
(***************************************************************************)
(* Properties                                                              *)
(***************************************************************************)
\* The grades of agents and WMS.
SameGrade == [S |-> "MINT", A |-> "EXCELLENT", B |-> "NORMAL"]

\* What the worker approves without a human is admitted under the grade of the
\* report and gets a price: neither the WMS nor the pricing refuses it.
AutomaticApprovalsAreSold ==
    Automatic /\ WorkerDecision(st) = "APPROVE" =>
        /\ Resolved(AutomaticRequest(st)) \in SellableGrades
        /\ Resolved(AutomaticRequest(st)) = SameGrade[st.final.grade]
        /\ Saleable(AutomaticRequest(st).score)

\* What a human approves as it is comes on sale only with a score that the rules
\* give for its defects, none of which is fatal or without a rule; in all other
\* cases it is refused, and never put away with the rejected books.
NormalApprovalsAreSound ==
    node = "human_node" =>
        LET r == HumanRequest(st, "APPROVE_NORMAL", "none")
        IN \/ Resolved(r) = "refused"
           \/ /\ Resolved(r) \in SellableGrades
              /\ Scorable(st.defects) /\ ~Fatal(st.defects)
              /\ r.score = Score(st.defects)
              /\ Saleable(r.score)
=============================================================================
