----------------------------- MODULE AgentGraph -----------------------------
(***************************************************************************)
(* The inspection of a book by the agents (ai/supervisor.py, ai/agents.py, *)
(* ai/rag/critic_cases.py, services/langgraph_wrapper.py).  The supervisor *)
(* sends the inspection to an agent, which returns it to the supervisor,   *)
(* until a report is written, the inspection fails or a human must decide. *)
(*                                                                         *)
(* The inspections run one after the other.  A checkpoint keeps the state  *)
(* of an inspection between the runs of the graph; a retry of the worker   *)
(* starts the graph again on the same checkpoint if it comes to the same   *)
(* process, and on an empty one otherwise.  What the models answer is any  *)
(* member of a set of answers.  Texts, evidence and logs are left out.     *)
(***************************************************************************)
EXTENDS Ubci, Detection

CONSTANTS Scenes,          \* what the photos show: books and boxes per view
          InnerFindings,   \* lists of defects the inner page may be read as
          Reviews,         \* verdicts on a defect: decision, confidence, printed
          Impressions,     \* of the photos as a whole: quality, missed, confidence
          MinConfidence,   \* MIN_VISION_CONFIDENCE
          Tenants,
          RecursionLimit,  \* supersteps of a run the graph library allows
          MaxInspections,  \* bound: inspections
          MaxAttempts,     \* bound: runs the worker starts per inspection
          MaxResumes       \* bound: human decisions per inspection

ASSUME ReviewsAssumption ==
    /\ MinConfidence \in Int
    /\ \A r \in Reviews : r.confidence \in Int
    /\ \A w \in Impressions : w.quality \in BOOLEAN /\ w.missed \in BOOLEAN /\ w.confidence \in Int

ASSUME LimitAssumption == RecursionLimit \in Nat /\ RecursionLimit >= 16

VARIABLES node,       \* the node that runs next, or how the run ended
          st,         \* the checkpoint: WMSInspectionState
          book,       \* what is inspected: number, tenant and scene
          cases,      \* the collection of precedents
          resuming,   \* the decision whose resume_hitl has not returned
          attempt,    \* runs started by the worker for this inspection
          resumes,    \* decisions taken on this inspection
          steps,      \* supersteps of this run
          broke       \* a detector or a model failed in this run

vars == <<node, st, book, cases, resuming, attempt, resumes, steps, broke>>

\* The mistake: the critic may send the book back once too often (RunsWithinLimit).
SlipMaxRevisions == 9

MaxRevisions == 2

Decisions == {"APPROVE_NORMAL", "APPROVE_DOWNGRADE", "REJECT_RETURN", "REJECT_DISCARD",
              "RE_CHECK"}

Rejections == {"REJECT_RETURN", "REJECT_DISCARD"}

Agents == {"book_detector", "vision_agent", "policy_agent", "critic_agent",
           "technical_failure_node", "auto_refund_agent", "report_agent"}

\* human_node is interrupted before it runs.
Stops == {"human_node", "end", "failed"}

NoPolicy == [score |-> -1, grade |-> "none", fatal |-> FALSE]

NoFinal == [grade |-> "none", by |-> "none"]

\* build_initial_inspection_state on an empty checkpoint.  is_mint is "unknown"
\* until the vision agent has set it together with the other vision outputs.
Empty == [feedback |-> "none", reason |-> FALSE, target |-> "none", regions |-> "none",
          vision |-> "none", mint |-> "unknown", defects |-> <<>>, quality |-> FALSE,
          missed |-> FALSE, uncertain |-> FALSE, confidence |-> 0, policy |-> NoPolicy,
          code |-> "none", revision |-> 0, final |-> NoFinal]

\* build_initial_inspection_state on a checkpoint that exists: the keys it does
\* not name keep their values.
Restarted(s) == [s EXCEPT !.mint = "unknown", !.policy.score = -1, !.code = "none",
                          !.revision = 0, !.feedback = "none", !.defects = <<>>]

Init ==
    /\ node = "supervisor"
    /\ st = Empty
    /\ book \in [number : {1}, tenant : Tenants, scene : Scenes]
    /\ cases = {}
    /\ resuming = "none"
    /\ attempt = 1
    /\ resumes = 0
    /\ steps = 0
    /\ broke = FALSE

-----------------------------------------------------------------------------
(***************************************************************************)
(* route_from_supervisor                                                   *)
(***************************************************************************)
ByRegions(s, agent) ==
    IF s.regions = "none" THEN "book_detector"
    ELSE IF s.regions = "ready" THEN agent
    ELSE "technical_failure_node"

\* The decision of a human comes first.
HumanRoute(s) ==
    IF s.feedback = "RE_CHECK" THEN ByRegions(s, "vision_agent")
    ELSE IF \/ s.feedback = "APPROVE_NORMAL"
            \/ s.feedback = "APPROVE_DOWNGRADE" /\ s.target \in {"A", "B"} /\ s.reason
            \/ s.feedback \in Rejections /\ s.reason
         THEN "report_agent"
         ELSE "human_node"

PolicyComplete(s) == s.policy.grade \in Grades /\ s.policy.score \in 0..200

Contradicts(s) == \/ s.mint = "mint" /\ s.defects # <<>>
                  \/ s.mint = "damaged" /\ s.defects = <<>>

HitlReasonCodes == {"VISION_LOW_CONFIDENCE", "POLICY_REQUIRES_HITL"}

\* The reason code, once the vision output is there.
CodeRoute(s) ==
    IF s.code \in HitlReasonCodes THEN "human_node"
    ELSE IF s.code = "VISION_RESULT_CONFLICT" THEN "vision_agent"
    ELSE IF s.code = "UBCI_POLICY_VIOLATION" THEN "policy_agent"
    ELSE IF s.code = "OK" /\ s.reason THEN "human_node"
    ELSE IF ~PolicyComplete(s) THEN "policy_agent"
    ELSE IF Contradicts(s) THEN "technical_failure_node"
    ELSE IF s.code # "OK" THEN "critic_agent"
    ELSE IF s.mint = "mint" THEN "auto_refund_agent" ELSE "report_agent"

Route(s) ==
    IF s.feedback # "none" THEN HumanRoute(s)
    ELSE IF s.vision = "REVIEW_REQUIRED" THEN "human_node"
    ELSE IF s.vision = "FAILED" THEN "technical_failure_node"
    ELSE IF s.revision >= MaxRevisions THEN "human_node"
    ELSE IF s.mint = "unknown" THEN ByRegions(s, "vision_agent")
    ELSE CodeRoute(s)

\* A superstep of the graph.
Step(from, to) == /\ node = from
                  /\ node' = to
                  /\ steps' = steps + 1

Supervise == /\ Step("supervisor", Route(st))
             /\ UNCHANGED <<st, book, cases, resuming, attempt, resumes, broke>>

-----------------------------------------------------------------------------
(***************************************************************************)
(* book_detector_node and vision_agent                                     *)
(***************************************************************************)
\* The photos are loaded and the regions found, or a technical error occurs.
DetectBook ==
    /\ Step("book_detector", "supervisor")
    /\ \/ st' = [st EXCEPT !.regions = "ready"] /\ UNCHANGED broke
       \/ st' = [st EXCEPT !.regions = "failed"] /\ broke' = TRUE
    /\ UNCHANGED <<book, cases, resuming, attempt, resumes>>

\* downstream_reset; a reshoot starts the count of revisions again.
Reset(s) ==
    [s EXCEPT !.mint = "unknown", !.policy = NoPolicy, !.feedback = "none",
              !.reason = (s.feedback = "RE_CHECK") /\ @, !.target = "none",
              !.final = NoFinal, !.code = "none",
              !.revision = IF s.feedback = "RE_CHECK" THEN 0 ELSE @]

Failed(s) == [Reset(s) EXCEPT !.defects = <<>>, !.quality = FALSE, !.missed = FALSE,
                              !.uncertain = FALSE, !.confidence = 0,
                              !.vision = "FAILED", !.revision = @ + 1]

\* The defects of a cover are the candidates of the models.
CoverDefects(view) ==
    LET region == Region(view, book.scene.books[view])
        found == Candidates(book.scene.detections[view], region)
    IN [k \in DOMAIN found |->
           [view |-> view, type |-> found[k].type, bbox |-> found[k].bbox,
            ratio |-> AreaRatio(found[k].bbox, region.bbox),
            confidence |-> found[k].confidence, text_overlap |-> FALSE,
            morphology_severe |-> FALSE]]

\* The defects of the inner page are those the full reading reports.
InnerDefects(findings) ==
    [k \in DOMAIN findings |->
        [view |-> "INNER", type |-> findings[k].type, bbox |-> findings[k].bbox,
         ratio |-> AreaRatio(findings[k].bbox, FullImage),
         confidence |-> findings[k].confidence, text_overlap |-> findings[k].text_overlap,
         morphology_severe |-> findings[k].morphology_severe]]

Preliminary(findings) ==
    Deduplicate(CoverDefects("FRONT") \o CoverDefects("BACK") \o InnerDefects(findings))

Rejects(defect, review) == \/ review.decision = "REJECTED"
                           \/ defect.type \in {"WRITING", "HIGHLIGHTING"} /\ review.printed

Unsure(defect, review) == /\ ~Rejects(defect, review)
                          /\ \/ review.decision = "UNCERTAIN"
                             \/ review.confidence < MinConfidence

Confirms(defect, review) == ~Rejects(defect, review) /\ ~Unsure(defect, review)

\* The confirmed defects; what the full reading was sure of stays as it was.
Confirmed(defects, reviews) ==
    LET AddReviewed(kept, i) ==
            IF ~Confirms(defects[i], reviews[i]) THEN kept
            ELSE Append(kept, IF defects[i].view = "INNER" THEN defects[i]
                              ELSE [defects[i] EXCEPT !.confidence = reviews[i].confidence])
    IN Deduplicate(FoldLeftDomain(AddReviewed, <<>>, defects))

\* The mistake: once a defect is confirmed, what is unclear beside it no longer
\* holds the book back (UnclearBooksReachAHuman).
SlipReviewed(s) ==
    IF /\ s.quality /\ s.confidence >= MinConfidence
       /\ s.defects # <<>> \/ (~s.missed /\ ~s.uncertain)
    THEN [s EXCEPT !.vision = "COMPLETED",
                   !.mint = IF s.defects = <<>> THEN "mint" ELSE "damaged"]
    ELSE [s EXCEPT !.vision = "REVIEW_REQUIRED", !.revision = @ + 1]

\* The status of a reading; anything unclear is for a human.
Reviewed(s) ==
    IF s.quality /\ ~s.missed /\ ~s.uncertain /\ s.confidence >= MinConfidence
    THEN [s EXCEPT !.vision = "COMPLETED",
                   !.mint = IF s.defects = <<>> THEN "mint" ELSE "damaged"]
    ELSE [s EXCEPT !.vision = "REVIEW_REQUIRED", !.revision = @ + 1]

Read(s, defects, reviews, whole) ==
    Reviewed([Reset(s) EXCEPT
        !.defects = Confirmed(defects, reviews),
        !.quality = whole.quality,
        !.missed = whole.missed,
        !.uncertain = \E i \in DOMAIN defects : Unsure(defects[i], reviews[i]),
        !.confidence = Min({whole.confidence} \cup {reviews[i].confidence : i \in DOMAIN defects})])

\* The models answer, or one of them fails or repeats or forgets a defect.
Inspect ==
    /\ Step("vision_agent", "supervisor")
    /\ \/ /\ \E findings \in InnerFindings :
                LET defects == Preliminary(findings)
                IN \E reviews \in [DOMAIN defects -> Reviews], whole \in Impressions :
                      st' = Read(st, defects, reviews, whole)
          /\ UNCHANGED broke
       \/ /\ st' = Failed(st)
          /\ broke' = TRUE
    /\ UNCHANGED <<book, cases, resuming, attempt, resumes>>

-----------------------------------------------------------------------------
(***************************************************************************)
(* policy_agent                                                            *)
(***************************************************************************)
\* The defects that have a rule, at the places they have among all.
RemoveManual(defects) ==
    Restrict(defects, {i \in DOMAIN defects : defects[i].type \notin HitlRequiredDefects})

\* Score and grade by the defects that have a rule.
PolicyOf(defects) ==
    IF defects = <<>> THEN [score |-> 200, grade |-> "S", fatal |-> FALSE]
    ELSE LET scorable == RemoveManual(defects)
         IN [score |-> Score(scorable), grade |-> Grade(Score(scorable), Fatal(scorable)),
             fatal |-> Fatal(scorable)]

\* Only a human can judge a defect without a rule, unless a fatal one decides.
NeedsHuman(defects) == ~Scorable(defects) /\ ~Fatal(RemoveManual(defects))

Appraised(s) ==
    IF s.vision # "COMPLETED"
    THEN [s EXCEPT !.mint = "unknown", !.policy = NoPolicy,
                   !.code = "UBCI_POLICY_VIOLATION", !.revision = @ + 1]
    ELSE IF s.defects # <<>> /\ NeedsHuman(s.defects)
    THEN [s EXCEPT !.mint = "damaged", !.policy = NoPolicy, !.code = "POLICY_REQUIRES_HITL"]
    ELSE [s EXCEPT !.mint = IF s.defects = <<>> THEN "mint" ELSE "damaged",
                   !.policy = PolicyOf(s.defects), !.code = "none"]

Appraise ==
    /\ Step("policy_agent", "supervisor")
    /\ st' = [Appraised(st) EXCEPT !.feedback = "none", !.reason = FALSE, !.target = "none",
                                   !.final = NoFinal]
    /\ UNCHANGED <<book, cases, resuming, attempt, resumes, broke>>

-----------------------------------------------------------------------------
(***************************************************************************)
(* critic_agent and the precedents                                         *)
(***************************************************************************)
\* The mistake: the critic believes the policy output (AutomaticResultsAreVerified).
SlipRecomputes(s) == TRUE

\* The policy output is computed again from the defects.
Recomputes(s) == /\ Scorable(s.defects)
                 /\ s.policy = [score |-> Score(s.defects),
                                grade |-> Grade(Score(s.defects), Fatal(s.defects)),
                                fatal |-> Fatal(s.defects)]

RuleCode(s) ==
    IF Contradicts(s) THEN "VISION_RESULT_CONFLICT"
    ELSE IF s.confidence < MinConfidence THEN "VISION_LOW_CONFIDENCE"
    ELSE IF ~Recomputes(s) THEN "UBCI_POLICY_VIOLATION"
    ELSE "OK"

\* search_similar_cases: those of the tenant.
Precedents == {c \in cases : c.tenant = book.tenant}

\* evaluate_with_precedents: an answer counts only if it cites retrieved cases,
\* is sure and has enough evidence; whatever fails leaves the rule result.
Answers == [cited : SUBSET {c.number : c \in cases}, sufficient : BOOLEAN, sure : BOOLEAN,
            consistent : BOOLEAN]

PrecedentCode(answer) ==
    IF /\ answer.cited \subseteq {c.number : c \in Precedents}
       /\ answer.sufficient /\ answer.sure /\ answer.cited # {}
       /\ ~answer.consistent
    THEN "UBCI_POLICY_VIOLATION" ELSE "OK"

\* The verdict: the rules, and then the precedents if there are any.
Verdicts(s) ==
    IF RuleCode(s) # "OK" \/ Precedents = {} THEN {RuleCode(s)}
    ELSE {"OK"} \cup {PrecedentCode(answer) : answer \in Answers}

Criticise ==
    /\ Step("critic_agent", "supervisor")
    /\ \E code \in Verdicts(st) :
          st' = [st EXCEPT !.code = code,
                           !.revision = IF code = "OK" THEN @ ELSE @ + 1]
    /\ UNCHANGED <<book, cases, resuming, attempt, resumes, broke>>

-----------------------------------------------------------------------------
(***************************************************************************)
(* The ends of a run                                                       *)
(***************************************************************************)
\* Both agents refuse a state they were not meant for.
MayRefund(s) == /\ s.vision = "COMPLETED" /\ s.quality /\ ~s.missed /\ ~s.uncertain
                /\ s.mint = "mint" /\ s.defects = <<>>
                /\ s.confidence >= MinConfidence

MayReport(s) == CASE s.feedback = "none" -> s.code = "OK" /\ s.policy.grade \in Grades
                  [] s.feedback = "APPROVE_NORMAL" -> TRUE
                  [] s.feedback = "APPROVE_DOWNGRADE" -> s.target \in {"A", "B"} /\ s.reason
                  [] s.feedback \in Rejections -> s.reason
                  [] OTHER -> FALSE

Refund ==
    /\ Step("auto_refund_agent", "end")
    /\ MayRefund(st)
    /\ st' = [st EXCEPT
          !.policy = [score |-> Score(st.defects),
                      grade |-> Grade(Score(st.defects), Fatal(st.defects)), fatal |-> FALSE],
          !.final = [grade |-> Grade(Score(st.defects), Fatal(st.defects)),
                     by |-> "AUTO_REFUND"]]
    /\ UNCHANGED <<book, cases, resuming, attempt, resumes, broke>>

\* The mistake: a normal approval keeps the grade of the policy (DecisionsAreKept).
SlipFinalGrade(s) == CASE s.feedback \in {"none", "APPROVE_NORMAL"} -> s.policy.grade
                       [] s.feedback = "APPROVE_DOWNGRADE" -> s.target
                       [] s.feedback \in Rejections -> "REJECT"

FinalGrade(s) == CASE s.feedback = "none" -> s.policy.grade
                   [] s.feedback = "APPROVE_NORMAL" -> "S"
                   [] s.feedback = "APPROVE_DOWNGRADE" -> s.target
                   [] s.feedback \in Rejections -> "REJECT"

Report ==
    /\ Step("report_agent", "end")
    /\ MayReport(st)
    /\ st' = [st EXCEPT !.feedback = "none",
                        !.final = [grade |-> FinalGrade(st),
                                   by |-> IF st.feedback = "none" THEN "AI" ELSE st.feedback]]
    /\ UNCHANGED <<book, cases, resuming, attempt, resumes, broke>>

\* technical_failure_node raises the error for the worker.
GiveUp == /\ Step("technical_failure_node", "failed")
          /\ resuming' = "none"
          /\ UNCHANGED <<st, book, cases, attempt, resumes, broke>>

-----------------------------------------------------------------------------
(***************************************************************************)
(* resume_hitl                                                             *)
(***************************************************************************)
\* A reshoot clears everything but the decision and its reason.
Decided(s, decision, target) ==
    LET kept == IF decision = "RE_CHECK" THEN Empty ELSE s
    IN [kept EXCEPT !.feedback = decision, !.reason = TRUE, !.target = target,
                    !.revision = 0, !.final = NoFinal]

Resume(decision, target) ==
    /\ node = "human_node"
    /\ (decision = "APPROVE_DOWNGRADE") <=> (target # "none")
    /\ resumes < MaxResumes
    /\ node' = "supervisor"
    /\ st' = Decided(st, decision, target)
    /\ resuming' = decision
    /\ resumes' = resumes + 1
    /\ steps' = 0
    /\ broke' = FALSE
    /\ UNCHANGED <<book, cases, attempt>>

\* upsert_authoritative_hitl_case
Complete(s) == s.mint # "unknown" /\ PolicyComplete(s) /\ s.final.grade # "none"

CaseOf(s) == [number |-> book.number, tenant |-> book.tenant, defects |-> s.defects,
              score |-> s.policy.score, predicted |-> s.policy.grade,
              decision |-> resuming, final |-> s.final.grade]

\* The decision becomes a precedent if score and grade are there and the store
\* is reached.
Return ==
    /\ node \in {"end", "human_node"}
    /\ resuming # "none"
    /\ \/ /\ resuming # "RE_CHECK"
          /\ Complete(st)
          /\ cases' = {c \in cases : c.number # book.number} \cup {CaseOf(st)}
       \/ UNCHANGED cases
    /\ resuming' = "none"
    /\ UNCHANGED <<node, st, book, attempt, resumes, steps, broke>>

-----------------------------------------------------------------------------
(***************************************************************************)
(* The worker: run_inspection                                              *)
(***************************************************************************)
\* The task failed, in the graph or in what the worker does with the result, and
\* is tried again under the same task id and so on the same thread.
Retry ==
    /\ node \in Stops
    /\ resuming = "none" /\ resumes = 0
    /\ attempt < MaxAttempts
    /\ attempt' = attempt + 1
    /\ node' = "supervisor"
    /\ st' \in {Restarted(st), Empty}
    /\ steps' = 0
    /\ broke' = FALSE
    /\ UNCHANGED <<book, cases, resuming, resumes>>

NextBook ==
    /\ node \in Stops
    /\ resuming = "none"
    /\ book.number < MaxInspections
    /\ \E tenant \in Tenants, scene \in Scenes :
          book' = [number |-> book.number + 1, tenant |-> tenant, scene |-> scene]
    /\ node' = "supervisor"
    /\ st' = Empty
    /\ attempt' = 1
    /\ resumes' = 0
    /\ steps' = 0
    /\ broke' = FALSE
    /\ UNCHANGED <<cases, resuming>>

\* Nothing is called any more; in every other state a step must be possible.
Rest == node \in Stops /\ resuming = "none" /\ UNCHANGED vars

GraphStep == Supervise \/ DetectBook \/ Inspect \/ Appraise \/ Criticise \/ Refund \/ Report
                \/ GiveUp

Next == \/ GraphStep
        \/ \E decision \in Decisions, target \in {"none", "A", "B"} : Resume(decision, target)
        \/ Return
        \/ Retry
        \/ NextBook
        \/ Rest

Spec == Init /\ [][Next]_vars

-----------------------------------------------------------------------------
\* convert_state_to_decision: what the worker reads off a state that ended.
ApprovalScoreThreshold == 140

WorkerDecision(s) ==
    IF \/ s.mint = "mint"
       \/ s.code = "OK" /\ s.policy.score >= ApprovalScoreThreshold
    THEN "APPROVE" ELSE "REJECT"

-----------------------------------------------------------------------------
(***************************************************************************)
(* Properties                                                              *)
(***************************************************************************)
Automatic == node = "end" /\ st.final.by \in {"AI", "AUTO_REFUND"}

\* A result without a human rests on the defects as they are at the end: every
\* one has a rule, score and grade are those the rules give, and what is
\* approved can be sold.
AutomaticResultsAreVerified ==
    Automatic => /\ Scorable(st.defects)
                 /\ st.policy.score = Score(st.defects)
                 /\ st.final.grade = Grade(st.policy.score, Fatal(st.defects))
                 /\ WorkerDecision(st) = "APPROVE" =>
                        st.final.grade # "REJECT" /\ ~Fatal(st.defects)

\* What the reading of the photos leaves open is never decided without a human.
UnclearBooksReachAHuman ==
    Automatic => /\ st.vision = "COMPLETED" /\ st.quality
                 /\ ~st.missed /\ ~st.uncertain
                 /\ st.confidence >= MinConfidence

\* The report that ends a human's decision has the grade of that decision, also
\* after a reshoot whose own result was still on the checkpoint.
DecisionsAreKept ==
    node = "end" /\ resuming \notin {"none", "RE_CHECK"} =>
        /\ st.final.by = resuming
        /\ resuming = "APPROVE_NORMAL" => st.final.grade = "S"
        /\ resuming = "APPROVE_DOWNGRADE" => st.final.grade \in {"A", "B"}
        /\ resuming \in Rejections => st.final.grade = "REJECT"

\* A precedent carries the score its defects have by the rules, and a decision
\* that fits its final grade.
PrecedentsAreScored ==
    \A c \in cases : /\ c.score = PolicyOf(c.defects).score
                     /\ c.predicted = PolicyOf(c.defects).grade
                     /\ (c.final = "REJECT") <=> (c.decision \in Rejections)

\* A first run gives up only when a detector or a model failed in it.
FailuresHaveACause == node = "failed" => broke \/ attempt > 1

\* What the supervisor says of technical failures: they go to the worker to be
\* tried again, so a run that fails had a failure of its own.
RetriesStartOver == node = "failed" => broke

\* No run exceeds the supersteps the graph library allows.
RunsWithinLimit == steps <= RecursionLimit
=============================================================================
