--------------------------- MODULE AgentInvariant ----------------------------
(***************************************************************************)
(* The inductive invariant of the agent graph.                             *)
(***************************************************************************)
EXTENDS AgentGraph

\* A checkpoint has these keys; the defects are any list.
HasKeys(s) ==
    /\ s \in [feedback : {s.feedback}, reason : {s.reason}, target : {s.target},
              regions : {s.regions}, vision : {s.vision}, mint : {s.mint},
              defects : {s.defects}, quality : {s.quality}, missed : {s.missed},
              uncertain : {s.uncertain}, confidence : {s.confidence}, policy : {s.policy},
              code : {s.code}, revision : {s.revision}, final : {s.final}]
    /\ s.policy \in [score : {s.policy.score}, grade : {s.policy.grade},
                     fatal : {s.policy.fatal}]
    /\ s.final \in [grade : {s.final.grade}, by : {s.final.by}]

StateOK(s) ==
    /\ HasKeys(s)
    /\ s.feedback \in Decisions \cup {"none"}
    /\ s.reason \in BOOLEAN
    /\ s.target \in {"none", "A", "B"}
    /\ s.regions \in {"none", "ready", "failed"}
    /\ s.vision \in {"none", "COMPLETED", "REVIEW_REQUIRED", "FAILED"}
    /\ s.mint \in {"unknown", "mint", "damaged"}
    /\ s.code \in {"none", "OK", "UBCI_POLICY_VIOLATION", "VISION_LOW_CONFIDENCE",
                   "POLICY_REQUIRES_HITL"}
    /\ s.revision \in 0..MaxRevisions
    /\ s.policy.grade \in Grades \cup {"none"}

\* Every variable has its type.
TypeOK ==
    /\ StateOK(st)
    /\ node \in Agents \cup Stops \cup {"supervisor"}
    /\ resuming \in Decisions \cup {"none"}
    /\ attempt \in Nat \ {0}
    /\ resumes \in Nat
    /\ steps \in Nat
    /\ broke \in BOOLEAN

\* The agent that runs next is the one the supervisor chose, and its input is
\* what the supervisor saw.
Routed == node \in Agents \cup {"human_node"} => node = Route(st)

\* What a completed reading stands for; is_mint says whether defects were found
\* and is known only after a completed reading of three regions.
ReadingOK ==
    /\ st.vision = "COMPLETED" => /\ st.quality /\ ~st.missed /\ ~st.uncertain
                                  /\ st.confidence >= MinConfidence
    /\ st.mint # "unknown" => st.vision = "COMPLETED"
    /\ st.mint = "mint" => st.defects = <<>>
    /\ st.mint = "damaged" => st.defects # <<>>
    /\ st.vision # "none" => st.regions = "ready"
    /\ st.vision = "none" => st.revision = 0

\* The policy output is what the rules give for the defects as they are, and
\* the critic has come to the same.
PolicyOK ==
    /\ st.mint # "unknown" /\ st.policy # NoPolicy => st.policy = PolicyOf(st.defects)
    /\ st.code = "OK" => /\ st.mint # "unknown"
                         /\ PolicyComplete(st)
                         /\ Recomputes(st)

\* A decision is on the checkpoint until the report has been written.
DecisionOK ==
    /\ resuming \notin {"none", "RE_CHECK"} /\ node # "end" =>
           /\ node \in {"supervisor", "report_agent"}
           /\ st.feedback = resuming
           /\ st.reason
           /\ resuming = "APPROVE_DOWNGRADE" => st.target # "none"
    /\ st.feedback \notin {"none", "RE_CHECK"} => node # "end" /\ resuming = st.feedback
    /\ st.feedback = "RE_CHECK" => /\ st.vision = "none" /\ st.mint = "unknown"
                                   /\ node \notin Stops \ {"failed"} /\ st.revision = 0
                                   /\ st.code = "none"

\* What an automatic end says of the state it was reached in.
EndOK == Automatic => st.code = "OK" /\ st.final.grade = st.policy.grade

\* In a first run only a failure leads to a failed reading or missing regions.
CauseOK ==
    /\ attempt = 1 /\ (st.vision = "FAILED" \/ st.regions = "failed") => broke
    /\ node = "human_node" => st.vision # "FAILED" /\ st.regions # "failed"

\* What is proved by induction.
RunInvariant == /\ TypeOK
                /\ Routed
                /\ ReadingOK
                /\ PolicyOK
                /\ DecisionOK
                /\ EndOK
                /\ CauseOK
                /\ DecisionsAreKept
                /\ FailuresHaveACause
                /\ PrecedentsAreScored

-----------------------------------------------------------------------------
\* The defects on the checkpoint are a list of those the agents can report
\* (the schema of a defect allows no other type).
KnownDefects ==
    /\ IsFiniteSet(DOMAIN st.defects)
    /\ st.defects = [i \in DOMAIN st.defects |-> st.defects[i]]
    /\ \A i \in DOMAIN st.defects : st.defects[i].type \in DefectTypes

\* A score is there only after a completed reading, and stands for all the
\* defects there are unless a fatal one decides.
ScoredOK ==
    /\ st.mint = "unknown" => st.policy.score = -1
    /\ st.mint # "unknown" /\ st.policy # NoPolicy =>
           st.defects = <<>> \/ ~NeedsHuman(st.defects)

\* The supersteps that are left at most, from a supervisor that sees s: 16 for a
\* run that starts, and four for every revision that is left.
RevisionsLeft(s) == 4 * (MaxRevisions - s.revision)

Ahead(s) ==
    IF s.feedback = "none" /\ s.vision \in {"REVIEW_REQUIRED", "FAILED"} THEN 2
    ELSE IF s.mint = "unknown" THEN IF s.regions = "none" THEN 16 ELSE 14
    ELSE IF s.code \in HitlReasonCodes \cup {"OK"} THEN 2
    ELSE IF s.code = "none" /\ PolicyComplete(s) THEN RevisionsLeft(s) + 2
    ELSE RevisionsLeft(s) + 4

Remaining ==
    IF node = "supervisor" THEN Ahead(st)
    ELSE IF node = "book_detector" THEN 15
    ELSE IF node = "vision_agent" THEN 13
    ELSE IF node = "policy_agent" THEN RevisionsLeft(st) + 3
    ELSE IF node = "critic_agent" THEN RevisionsLeft(st) + 1
    ELSE IF node \in Stops THEN 0
    ELSE 1

\* Of the 16, none is taken twice.
RunIsBounded == steps + Remaining <= 16
=============================================================================
