----------------------------- MODULE AgentProofs -----------------------------
(***************************************************************************)
(* What TLAPS proves of the agent graph, whatever the models answer, for   *)
(* any photos and any number of inspections, attempts and decisions: an    *)
(* automatic result is what the rules give for a clear reading, a decision *)
(* is what the report says, a run gives up only for a failure, the         *)
(* precedents are scored by the rules, a run ends within the limit of      *)
(* supersteps, and what is approved is admitted and priced as it was       *)
(* scored.                                                                 *)
(***************************************************************************)
EXTENDS AgentInvariant, Admission, Sums, TLAPS

(* The empty checkpoint.                                                   *)
LEMMA EmptyKeys ==
  /\ StateOK(Empty)
  /\ Empty.feedback = "none" /\ Empty.vision = "none" /\ Empty.mint = "unknown"
  /\ Empty.regions = "none" /\ Empty.code = "none" /\ Empty.revision = 0
PROOF
<1> DEFINE e == Empty
<1>1. /\ e.feedback = "none" /\ e.reason \in BOOLEAN /\ e.target = "none"
      /\ e.regions = "none" /\ e.vision = "none" /\ e.mint = "unknown"
      /\ e.code = "none" /\ e.revision = 0 /\ e.policy.grade = "none"
  BY DEF Empty, NoPolicy
<1>2. HasKeys(e)
  BY DEF Empty, HasKeys, NoPolicy, NoFinal
<1> HIDE DEF e
<1>3. StateOK(e)
  BY <1>1, <1>2 DEF StateOK, MaxRevisions
<1> QED BY <1>1, <1>3 DEF e

(* A checkpoint that is started again.                                     *)
LEMMA RestartedKeys ==
  ASSUME NEW s, StateOK(s)
  PROVE  LET r == Restarted(s)
         IN /\ StateOK(r)
            /\ r.feedback = "none" /\ r.mint = "unknown" /\ r.code = "none" /\ r.revision = 0
            /\ r.vision = s.vision /\ r.regions = s.regions /\ r.quality = s.quality
            /\ r.missed = s.missed /\ r.uncertain = s.uncertain
            /\ r.confidence = s.confidence
PROOF
<1> DEFINE r == Restarted(s)
<1>1. /\ r.feedback = "none" /\ r.mint = "unknown" /\ r.code = "none" /\ r.revision = 0
      /\ r.vision = s.vision /\ r.regions = s.regions /\ r.quality = s.quality
      /\ r.missed = s.missed /\ r.uncertain = s.uncertain /\ r.confidence = s.confidence
      /\ r.reason = s.reason /\ r.target = s.target /\ r.final = s.final
      /\ r.policy.grade = s.policy.grade
  BY DEF Restarted, StateOK, HasKeys
<1>2. HasKeys(r)
  BY DEF Restarted, StateOK, HasKeys
<1> QED BY <1>1, <1>2 DEF StateOK, MaxRevisions

(* The keys a reset sets.                                                  *)
LEMMA ResetKeys ==
  ASSUME NEW s, HasKeys(s)
  PROVE  LET r == Reset(s)
         IN /\ HasKeys(r)
            /\ r.mint = "unknown" /\ r.policy = NoPolicy /\ r.feedback = "none"
            /\ r.reason = ((s.feedback = "RE_CHECK") /\ s.reason)
            /\ r.target = "none" /\ r.final = NoFinal /\ r.code = "none"
            /\ r.revision = (IF s.feedback = "RE_CHECK" THEN 0 ELSE s.revision)
            /\ r.regions = s.regions /\ r.vision = s.vision
PROOF
  BY DEF Reset, HasKeys, NoPolicy, NoFinal

(* What the vision agent leaves on a checkpoint: the reading failed, is for*)
(* a human, or is complete and clear.                                      *)
ReadingOf(s, r) ==
  /\ StateOK(r)
  /\ r.feedback = "none" /\ r.policy = NoPolicy /\ r.final = NoFinal /\ r.code = "none"
  /\ r.regions = s.regions
  /\ \/ r.vision = "FAILED" /\ r.mint = "unknown"
     \/ r.vision = "REVIEW_REQUIRED" /\ r.mint = "unknown"
     \/ /\ r.vision = "COMPLETED" /\ r.quality /\ ~r.missed /\ ~r.uncertain
        /\ r.confidence >= MinConfidence
        /\ r.mint = IF r.defects = <<>> THEN "mint" ELSE "damaged"

(* A reading that fails.                                                   *)
LEMMA FailedKeys ==
  ASSUME NEW s, StateOK(s), s.feedback = "RE_CHECK" \/ s.revision < MaxRevisions
  PROVE  ReadingOf(s, Failed(s)) /\ Failed(s).vision = "FAILED"
PROOF
<1> DEFINE q == Reset(s)
           r == Failed(s)
<1>1. /\ HasKeys(q)
      /\ q.mint = "unknown" /\ q.policy = NoPolicy /\ q.feedback = "none"
      /\ q.reason = ((s.feedback = "RE_CHECK") /\ s.reason)
      /\ q.target = "none" /\ q.final = NoFinal /\ q.code = "none"
      /\ q.revision = (IF s.feedback = "RE_CHECK" THEN 0 ELSE s.revision)
      /\ q.regions = s.regions /\ q.vision = s.vision
  BY ResetKeys DEF StateOK
<1> HIDE DEF q
<1>2. r = [q EXCEPT !.defects = <<>>, !.quality = FALSE, !.missed = FALSE,
                    !.uncertain = FALSE, !.confidence = 0,
                    !.vision = "FAILED", !.revision = @ + 1]
  BY DEF Failed, q
<1> HIDE DEF r
<1>3. /\ HasKeys(r)
      /\ r.mint = "unknown" /\ r.policy = NoPolicy /\ r.feedback = "none"
      /\ r.reason = q.reason /\ r.target = "none" /\ r.final = NoFinal /\ r.code = "none"
      /\ r.revision = q.revision + 1 /\ r.regions = s.regions /\ r.vision = "FAILED"
  BY <1>1, <1>2 DEF HasKeys
<1>4. r.revision \in 0..MaxRevisions
  BY <1>1, <1>3 DEF StateOK, MaxRevisions
<1>5. StateOK(r)
  BY <1>1, <1>3, <1>4 DEF StateOK, NoPolicy
<1> QED BY <1>3, <1>5 DEF ReadingOf, r

(* A reading that is completed, or that leaves something to a human.       *)
LEMMA ReadKeys ==
  ASSUME NEW s, StateOK(s), s.feedback = "RE_CHECK" \/ s.revision < MaxRevisions,
         NEW defects, NEW reviews, NEW whole
  PROVE  ReadingOf(s, Read(s, defects, reviews, whole))
           /\ Read(s, defects, reviews, whole).vision # "FAILED"
PROOF
<1> DEFINE q == Reset(s)
           found == Confirmed(defects, reviews)
           quality == whole.quality
           missed == whole.missed
           uncertain == \E i \in DOMAIN defects : Unsure(defects[i], reviews[i])
           confidence == Min({whole.confidence}
                                 \cup {reviews[i].confidence : i \in DOMAIN defects})
           p == [q EXCEPT !.defects = found, !.quality = quality, !.missed = missed,
                          !.uncertain = uncertain, !.confidence = confidence]
           r == Reviewed(p)
<1>1. /\ HasKeys(q)
      /\ q.mint = "unknown" /\ q.policy = NoPolicy /\ q.feedback = "none"
      /\ q.reason = ((s.feedback = "RE_CHECK") /\ s.reason)
      /\ q.target = "none" /\ q.final = NoFinal /\ q.code = "none"
      /\ q.revision = (IF s.feedback = "RE_CHECK" THEN 0 ELSE s.revision)
      /\ q.regions = s.regions
  BY ResetKeys DEF StateOK
<1>2. Read(s, defects, reviews, whole) = r
  BY DEF Read
<1> HIDE DEF q, found, quality, missed, uncertain, confidence
<1>3. /\ HasKeys(p)
      /\ p.mint = "unknown" /\ p.policy = NoPolicy /\ p.feedback = "none"
      /\ p.reason = q.reason /\ p.target = "none" /\ p.final = NoFinal /\ p.code = "none"
      /\ p.revision = q.revision /\ p.regions = s.regions
  BY <1>1 DEF HasKeys
<1> HIDE DEF p
<1>4. /\ p.revision \in 0..MaxRevisions /\ p.revision + 1 \in 0..MaxRevisions
      /\ p.reason \in BOOLEAN /\ p.policy.grade = "none" /\ s.regions = p.regions
      /\ p.regions \in {"none", "ready", "failed"}
  BY <1>1, <1>3 DEF StateOK, MaxRevisions, NoPolicy
<1>5. CASE p.quality /\ ~p.missed /\ ~p.uncertain /\ p.confidence >= MinConfidence
  <2>1. r = [p EXCEPT !.vision = "COMPLETED",
                      !.mint = IF p.defects = <<>> THEN "mint" ELSE "damaged"]
    BY <1>5 DEF Reviewed
  <2> HIDE DEF r
  <2>2. /\ HasKeys(r)
        /\ r.vision = "COMPLETED" /\ r.mint = (IF p.defects = <<>> THEN "mint" ELSE "damaged")
        /\ r.defects = p.defects /\ r.quality = p.quality /\ r.missed = p.missed
        /\ r.uncertain = p.uncertain /\ r.confidence = p.confidence
        /\ r.policy = p.policy /\ r.feedback = p.feedback /\ r.reason = p.reason
        /\ r.target = p.target /\ r.final = p.final /\ r.code = p.code
        /\ r.revision = p.revision /\ r.regions = p.regions
    BY <1>3, <2>1 DEF HasKeys
  <2>3. StateOK(r)
    BY <1>3, <1>4, <2>2 DEF StateOK
  <2> QED BY <1>2, <1>3, <1>4, <1>5, <2>2, <2>3 DEF ReadingOf
<1>6. CASE ~(p.quality /\ ~p.missed /\ ~p.uncertain /\ p.confidence >= MinConfidence)
  <2>1. r = [p EXCEPT !.vision = "REVIEW_REQUIRED", !.revision = @ + 1]
    BY <1>6 DEF Reviewed
  <2> HIDE DEF r
  <2>2. /\ HasKeys(r)
        /\ r.vision = "REVIEW_REQUIRED" /\ r.mint = p.mint
        /\ r.policy = p.policy /\ r.feedback = p.feedback /\ r.reason = p.reason
        /\ r.target = p.target /\ r.final = p.final /\ r.code = p.code
        /\ r.revision = p.revision + 1 /\ r.regions = p.regions
    BY <1>3, <2>1 DEF HasKeys
  <2>3. StateOK(r)
    BY <1>3, <1>4, <2>2 DEF StateOK
  <2> QED BY <1>2, <1>3, <1>4, <2>2, <2>3 DEF ReadingOf
<1> QED BY <1>5, <1>6

-----------------------------------------------------------------------------
(* What the rules give.                                                    *)
LEMMA RulesGive ==
  ASSUME NEW defects
  PROVE  /\ Grade(Score(defects), Fatal(defects)) \in Grades
         /\ PolicyOf(defects).grade \in Grades
         /\ Fatal(defects) \in BOOLEAN
         /\ Fatal(defects) => Score(defects) = 0
PROOF
<1>1. \A n, fatal : Grade(n, fatal) \in Grades
  BY DEF Grade, Grades
<1>2. Fatal(defects) \in BOOLEAN
  BY DEF Fatal
<1>3. Fatal(defects) => Score(defects) = 0
  BY DEF Score
<1>4. CASE defects = <<>>
  BY <1>1, <1>2, <1>3, <1>4 DEF PolicyOf, Grades
<1>5. CASE defects # <<>>
  <2> DEFINE rest == RemoveManual(defects)
  <2>1. PolicyOf(defects).grade = Grade(Score(rest), Fatal(rest))
    BY <1>5 DEF PolicyOf
  <2> QED BY <1>1, <1>2, <1>3, <2>1
<1> QED BY <1>4, <1>5

(* Where the supervisor sends a checkpoint.                                *)
LEMMA RouteSends ==
  ASSUME NEW s, StateOK(s)
  PROVE  LET to == Route(s)
         IN /\ to \in Agents \cup {"human_node"}
            /\ s.feedback = "RE_CHECK" =>
                   to \in {"book_detector", "vision_agent", "technical_failure_node"}
            /\ to = "book_detector" => s.regions = "none" /\ s.feedback \in {"none", "RE_CHECK"}
            /\ to = "vision_agent" =>
                   /\ s.regions = "ready"
                   /\ \/ s.feedback = "RE_CHECK"
                      \/ s.feedback = "none" /\ s.revision < MaxRevisions
            /\ to \in {"policy_agent", "critic_agent", "auto_refund_agent"} =>
                   /\ s.feedback = "none" /\ s.mint # "unknown"
                   /\ s.revision < MaxRevisions
            /\ to = "critic_agent" => PolicyComplete(s) /\ s.code = "none" /\ ~Contradicts(s)
            /\ to = "auto_refund_agent" => s.code = "OK" /\ s.mint = "mint"
            /\ to = "report_agent" /\ s.feedback = "none" => s.code = "OK"
            /\ to = "technical_failure_node" =>
                   \/ s.regions = "failed"
                   \/ s.vision = "FAILED"
                   \/ s.mint # "unknown" /\ Contradicts(s)
PROOF
<1>1. CASE s.feedback = "RE_CHECK"
  <2>1. Route(s) = ByRegions(s, "vision_agent")
    BY <1>1 DEF Route, HumanRoute
  <2>2. s.regions \in {"none", "ready", "failed"}
    BY DEF StateOK
  <2> QED BY <1>1, <2>1, <2>2 DEF ByRegions, Agents
<1>2. CASE s.feedback \notin {"none", "RE_CHECK"}
  BY <1>2 DEF StateOK, Route, HumanRoute, Agents
<1>3. CASE s.feedback = "none" /\ s.mint = "unknown"
  BY <1>3 DEF StateOK, Route, ByRegions, Agents, MaxRevisions
<1>4. CASE s.feedback = "none" /\ s.mint # "unknown"
  <2>1. CASE s.vision \in {"REVIEW_REQUIRED", "FAILED"} \/ s.revision >= MaxRevisions
    BY <1>4, <2>1 DEF StateOK, Route, Agents, MaxRevisions
  <2>2. CASE s.vision \notin {"REVIEW_REQUIRED", "FAILED"} /\ ~(s.revision >= MaxRevisions)
    <3>1. Route(s) = CodeRoute(s) /\ s.revision < MaxRevisions
      BY <1>4, <2>2 DEF Route, StateOK, MaxRevisions
    <3> QED BY <1>4, <2>2, <3>1 DEF CodeRoute, StateOK, HitlReasonCodes, Agents
  <2> QED BY <2>1, <2>2
<1> QED BY <1>1, <1>2, <1>3, <1>4 DEF StateOK

(* A run is with a human only if nothing failed in it.                     *)
LEMMA HumanSees ==
  ASSUME TypeOK, ReadingOK, DecisionOK, node \in {"supervisor", "human_node"},
         Route(st) = "human_node"
  PROVE  st.vision # "FAILED" /\ st.regions # "failed"
PROOF
<1>1. st.feedback # "RE_CHECK"
  BY RouteSends DEF TypeOK
<1>2. ASSUME st.feedback \notin {"none", "RE_CHECK"}
      PROVE  FALSE
  <2>1. /\ resuming = st.feedback /\ node # "end" /\ st.reason
        /\ resuming = "APPROVE_DOWNGRADE" => st.target # "none"
    BY <1>2 DEF DecisionOK
  <2> QED BY <1>2, <2>1 DEF Route, HumanRoute, TypeOK, StateOK, Decisions, Rejections
<1>3. CASE st.feedback = "none"
  BY <1>3 DEF Route, ReadingOK, ByRegions, TypeOK, StateOK, MaxRevisions
<1> QED BY <1>1, <1>2, <1>3

(* The policy output and the critic's word are about these keys only.      *)
LEMMA PolicyDependsOn ==
  ASSUME NEW s, NEW r, r.policy = s.policy, r.defects = s.defects
  PROVE  (PolicyComplete(r) <=> PolicyComplete(s)) /\ (Recomputes(r) <=> Recomputes(s))
PROOF
  BY DEF PolicyComplete, Recomputes

-----------------------------------------------------------------------------
(* A run starts with an empty checkpoint and no precedents.                *)
THEOREM RunsStartRight == Init => RunInvariant
PROOF
<1> SUFFICES ASSUME Init
             PROVE  RunInvariant
  OBVIOUS
<1>1. /\ node = "supervisor" /\ cases = {} /\ resuming = "none" /\ attempt = 1
      /\ resumes = 0 /\ steps = 0 /\ broke \in BOOLEAN
      /\ StateOK(st) /\ st.feedback = "none" /\ st.vision = "none" /\ st.mint = "unknown"
      /\ st.regions = "none" /\ st.code = "none" /\ st.revision = 0
  BY EmptyKeys DEF Init
<1>2. TypeOK
  BY <1>1 DEF TypeOK
<1>3. Routed /\ ReadingOK /\ PolicyOK
  BY <1>1 DEF Routed, Agents, ReadingOK, PolicyOK
<1>4. DecisionOK /\ EndOK /\ CauseOK
  BY <1>1 DEF DecisionOK, EndOK, Automatic, CauseOK, Stops
<1>5. DecisionsAreKept /\ FailuresHaveACause /\ PrecedentsAreScored
  BY <1>1 DEF DecisionsAreKept, FailuresHaveACause, PrecedentsAreScored
<1> QED BY <1>2, <1>3, <1>4, <1>5 DEF RunInvariant

(* The supervisor follows the checkpoint.                                  *)
LEMMA SuperviseKeeps ==
  ASSUME RunInvariant, Supervise
  PROVE  RunInvariant'
PROOF
<1>1. /\ TypeOK /\ Routed /\ ReadingOK /\ PolicyOK /\ DecisionOK /\ CauseOK
      /\ PrecedentsAreScored
  BY DEF RunInvariant
<1>2. /\ node = "supervisor" /\ node' = Route(st) /\ steps' = steps + 1 /\ st' = st
      /\ cases' = cases /\ resuming' = resuming /\ attempt' = attempt
      /\ resumes' = resumes /\ broke' = broke
  BY DEF Supervise, Step
<1>3. StateOK(st)
  BY <1>1 DEF TypeOK
<1>4. node' \in Agents \cup {"human_node"}
  BY <1>2, <1>3, RouteSends
<1>5. node' \notin {"end", "failed", "supervisor"}
  BY <1>4 DEF Agents
<1>6. TypeOK'
  BY <1>1, <1>2, <1>4 DEF TypeOK, Stops
<1>7. Routed' /\ ReadingOK'
  BY <1>1, <1>2 DEF Routed, ReadingOK
<1>8. PolicyOK' /\ PrecedentsAreScored'
  BY <1>1, <1>2 DEF PolicyOK, PolicyComplete, Recomputes, PrecedentsAreScored
<1>9. DecisionOK'
  <2>1. ASSUME resuming \notin {"none", "RE_CHECK"}
        PROVE  node' = "report_agent"
    <3>1. /\ st.feedback = resuming /\ st.reason
          /\ resuming = "APPROVE_DOWNGRADE" => st.target # "none"
      BY <1>1, <1>2, <2>1 DEF DecisionOK
    <3> QED BY <1>1, <1>2, <1>3, <2>1, <3>1
            DEF Route, HumanRoute, TypeOK, StateOK, Decisions, Rejections
  <2>2. st.feedback = "RE_CHECK" => node' \notin Stops \ {"failed"}
    BY <1>2, <1>3, RouteSends DEF Stops
  <2> QED BY <1>1, <1>2, <1>5, <2>1, <2>2 DEF DecisionOK
<1>10. EndOK' /\ DecisionsAreKept' /\ FailuresHaveACause'
  BY <1>5 DEF EndOK, Automatic, DecisionsAreKept, FailuresHaveACause
<1>11. CauseOK'
  BY <1>1, <1>2, HumanSees DEF CauseOK
<1> QED BY <1>6, <1>7, <1>8, <1>9, <1>10, <1>11 DEF RunInvariant

(* The detector sets the regions and nothing else.                         *)
LEMMA DetectBookKeeps ==
  ASSUME RunInvariant, DetectBook
  PROVE  RunInvariant'
PROOF
<1>1. /\ TypeOK /\ Routed /\ ReadingOK /\ PolicyOK /\ DecisionOK /\ CauseOK
      /\ PrecedentsAreScored
  BY DEF RunInvariant
<1>2. PICK found \in {"ready", "failed"} :
         st' = [st EXCEPT !.regions = found] /\ (found = "failed" => broke')
  BY DEF DetectBook
<1>3. /\ node = "book_detector" /\ node' = "supervisor" /\ steps' = steps + 1
      /\ cases' = cases /\ resuming' = resuming /\ attempt' = attempt
      /\ resumes' = resumes /\ broke' \in BOOLEAN /\ (broke => broke')
  BY <1>1 DEF DetectBook, Step, TypeOK
<1>4. StateOK(st)
  BY <1>1 DEF TypeOK
<1>5. st.regions = "none" /\ st.feedback \in {"none", "RE_CHECK"}
  BY <1>1, <1>3, <1>4, RouteSends DEF Routed, Agents
<1>6. st.vision = "none" /\ st.mint = "unknown"
  BY <1>1, <1>5 DEF ReadingOK, TypeOK, StateOK
<1>7. /\ HasKeys(st') /\ st'.regions = found
      /\ st'.feedback = st.feedback /\ st'.reason = st.reason /\ st'.target = st.target
      /\ st'.vision = st.vision /\ st'.mint = st.mint /\ st'.code = st.code
      /\ st'.revision = st.revision /\ st'.policy = st.policy /\ st'.defects = st.defects
  BY <1>2, <1>4 DEF StateOK, HasKeys
<1>8. StateOK(st')
  BY <1>4, <1>7 DEF StateOK
<1>9. TypeOK'
  BY <1>1, <1>3, <1>8 DEF TypeOK
<1>10. Routed' /\ ReadingOK' /\ PolicyOK'
  <2>1. st.code # "OK"
    BY <1>1, <1>6 DEF PolicyOK
  <2> QED BY <1>1, <1>3, <1>6, <1>7, <2>1 DEF Routed, Agents, ReadingOK, PolicyOK
<1>11. DecisionOK'
  BY <1>1, <1>3, <1>5, <1>7 DEF DecisionOK, Stops
<1>12. EndOK' /\ DecisionsAreKept' /\ FailuresHaveACause' /\ PrecedentsAreScored'
  BY <1>1, <1>3 DEF EndOK, Automatic, DecisionsAreKept, FailuresHaveACause,
                    PrecedentsAreScored
<1>13. CauseOK'
  BY <1>1, <1>2, <1>3, <1>6, <1>7 DEF CauseOK
<1> QED BY <1>9, <1>10, <1>11, <1>12, <1>13 DEF RunInvariant

(* The vision agent leaves a reading that failed, is for a human or is     *)
(* complete, and nothing of what was derived from an earlier one.          *)
LEMMA InspectKeeps ==
  ASSUME RunInvariant, Inspect
  PROVE  RunInvariant'
PROOF
<1>1. /\ TypeOK /\ Routed /\ ReadingOK /\ DecisionOK /\ CauseOK /\ PrecedentsAreScored
  BY DEF RunInvariant
<1>2. /\ node = "vision_agent" /\ node' = "supervisor" /\ steps' = steps + 1
      /\ cases' = cases /\ resuming' = resuming /\ attempt' = attempt
      /\ resumes' = resumes
  BY DEF Inspect, Step
<1>3. StateOK(st)
  BY <1>1 DEF TypeOK
<1>4. /\ st.regions = "ready"
      /\ st.feedback = "RE_CHECK" \/ st.revision < MaxRevisions
  BY <1>1, <1>2, <1>3, RouteSends DEF Routed, Agents
<1>5. /\ ReadingOf(st, st')
      /\ st'.vision = "FAILED" => broke'
      /\ broke' \in BOOLEAN
  <2>1. CASE st' = Failed(st) /\ broke' = TRUE
    BY <1>3, <1>4, <2>1, FailedKeys
  <2>2. CASE \E defects, reviews, whole : st' = Read(st, defects, reviews, whole)
                                            /\ broke' = broke
    BY <1>1, <1>3, <1>4, <2>2, ReadKeys DEF TypeOK
  <2> QED BY <2>1, <2>2 DEF Inspect
<1>6. TypeOK'
  BY <1>1, <1>2, <1>5 DEF TypeOK, ReadingOf
<1>7. Routed' /\ ReadingOK' /\ PolicyOK'
  BY <1>2, <1>4, <1>5 DEF Routed, Agents, ReadingOK, PolicyOK, ReadingOf
<1>8. DecisionOK'
  BY <1>1, <1>2, <1>5 DEF DecisionOK, ReadingOf
<1>9. EndOK' /\ DecisionsAreKept' /\ FailuresHaveACause' /\ PrecedentsAreScored'
  BY <1>1, <1>2 DEF EndOK, Automatic, DecisionsAreKept, FailuresHaveACause,
                    PrecedentsAreScored
<1>10. CauseOK'
  BY <1>2, <1>4, <1>5 DEF CauseOK, ReadingOf
<1> QED BY <1>6, <1>7, <1>8, <1>9, <1>10 DEF RunInvariant

(* The policy agent leaves the output the rules give, or none.             *)
LEMMA AppraiseKeeps ==
  ASSUME RunInvariant, Appraise
  PROVE  RunInvariant'
PROOF
<1>1. /\ TypeOK /\ Routed /\ ReadingOK /\ DecisionOK /\ CauseOK /\ PrecedentsAreScored
  BY DEF RunInvariant
<1>2. /\ node = "policy_agent" /\ node' = "supervisor" /\ steps' = steps + 1
      /\ cases' = cases /\ resuming' = resuming /\ attempt' = attempt
      /\ resumes' = resumes /\ broke' = broke
  BY DEF Appraise, Step
<1>3. StateOK(st)
  BY <1>1 DEF TypeOK
<1>4. st.feedback = "none" /\ st.mint # "unknown"
  BY <1>1, <1>2, <1>3, RouteSends DEF Routed, Agents
<1>5. st.vision = "COMPLETED"
  BY <1>1, <1>4 DEF ReadingOK
<1> DEFINE q == Appraised(st)
<1>6. /\ HasKeys(q)
      /\ q.regions = st.regions /\ q.vision = st.vision /\ q.defects = st.defects
      /\ q.quality = st.quality /\ q.missed = st.missed /\ q.uncertain = st.uncertain
      /\ q.confidence = st.confidence /\ q.revision = st.revision
      /\ q.mint = (IF st.defects = <<>> THEN "mint" ELSE "damaged")
      /\ \/ q.policy = NoPolicy /\ q.code = "POLICY_REQUIRES_HITL"
         \/ q.policy = PolicyOf(st.defects) /\ q.code = "none"
  <2>1. CASE st.defects # <<>> /\ NeedsHuman(st.defects)
    <3>1. q = [st EXCEPT !.mint = "damaged", !.policy = NoPolicy,
                         !.code = "POLICY_REQUIRES_HITL"]
      BY <1>5, <2>1 DEF Appraised
    <3> HIDE DEF q
    <3> QED BY <1>3, <2>1, <3>1 DEF StateOK, HasKeys, NoPolicy
  <2>2. CASE ~(st.defects # <<>> /\ NeedsHuman(st.defects))
    <3> DEFINE p == PolicyOf(st.defects)
               m == IF st.defects = <<>> THEN "mint" ELSE "damaged"
    <3>1. p \in [score : {p.score}, grade : {p.grade}, fatal : {p.fatal}]
      BY DEF PolicyOf
    <3>2. q = [st EXCEPT !.mint = m, !.policy = p, !.code = "none"]
      BY <1>5, <2>2 DEF Appraised
    <3> HIDE DEF p, q, m
    <3>3. /\ HasKeys(q)
          /\ q.regions = st.regions /\ q.vision = st.vision /\ q.defects = st.defects
          /\ q.quality = st.quality /\ q.missed = st.missed /\ q.uncertain = st.uncertain
          /\ q.confidence = st.confidence /\ q.revision = st.revision
          /\ q.mint = m /\ q.policy = p /\ q.code = "none"
      BY <1>3, <3>1, <3>2 DEF StateOK, HasKeys
    <3> QED BY <3>3 DEF p, m
  <2> QED BY <2>1, <2>2
<1>7. st' = [q EXCEPT !.feedback = "none", !.reason = FALSE, !.target = "none",
                      !.final = NoFinal]
  BY DEF Appraise
<1> HIDE DEF q
<1>8. /\ HasKeys(st')
      /\ st'.regions = st.regions /\ st'.vision = st.vision /\ st'.defects = st.defects
      /\ st'.quality = st.quality /\ st'.missed = st.missed
      /\ st'.uncertain = st.uncertain /\ st'.confidence = st.confidence
      /\ st'.revision = st.revision /\ st'.mint = q.mint /\ st'.policy = q.policy
      /\ st'.code = q.code /\ st'.feedback = "none" /\ st'.reason \in BOOLEAN
      /\ st'.target = "none"
  BY <1>6, <1>7 DEF HasKeys, NoFinal
<1>9. st'.policy.grade \in Grades \cup {"none"}
  BY <1>6, <1>8, RulesGive DEF NoPolicy
<1>10. StateOK(st')
  BY <1>3, <1>6, <1>8, <1>9 DEF StateOK
<1>11. TypeOK'
  BY <1>1, <1>2, <1>10 DEF TypeOK
<1>12. Routed' /\ ReadingOK' /\ PolicyOK'
  BY <1>1, <1>2, <1>4, <1>5, <1>6, <1>8 DEF Routed, Agents, ReadingOK, PolicyOK
<1>13. DecisionOK'
  BY <1>1, <1>2, <1>8 DEF DecisionOK
<1>14. EndOK' /\ DecisionsAreKept' /\ FailuresHaveACause' /\ PrecedentsAreScored'
  BY <1>1, <1>2 DEF EndOK, Automatic, DecisionsAreKept, FailuresHaveACause,
                    PrecedentsAreScored
<1>15. CauseOK'
  BY <1>1, <1>2, <1>8 DEF CauseOK
<1> QED BY <1>11, <1>12, <1>13, <1>14, <1>15 DEF RunInvariant

(* The critic says OK only of a policy output it has come to itself.       *)
LEMMA CriticiseKeeps ==
  ASSUME RunInvariant, Criticise
  PROVE  RunInvariant'
PROOF
<1>1. /\ TypeOK /\ Routed /\ ReadingOK /\ PolicyOK /\ DecisionOK /\ CauseOK
      /\ PrecedentsAreScored
  BY DEF RunInvariant
<1>2. /\ node = "critic_agent" /\ node' = "supervisor" /\ steps' = steps + 1
      /\ cases' = cases /\ resuming' = resuming /\ attempt' = attempt
      /\ resumes' = resumes /\ broke' = broke
  BY DEF Criticise, Step
<1>3. StateOK(st)
  BY <1>1 DEF TypeOK
<1>4. /\ st.feedback = "none" /\ st.mint # "unknown" /\ st.revision < MaxRevisions
      /\ PolicyComplete(st) /\ ~Contradicts(st)
  BY <1>1, <1>2, <1>3, RouteSends DEF Routed, Agents
<1>5. PICK code \in Verdicts(st) :
         st' = [st EXCEPT !.code = code, !.revision = IF code = "OK" THEN @ ELSE @ + 1]
  BY DEF Criticise
<1>6. /\ code \in {"OK", "UBCI_POLICY_VIOLATION", "VISION_LOW_CONFIDENCE"}
      /\ code = "OK" => Recomputes(st)
  <2>1. /\ RuleCode(st) \in {"OK", "UBCI_POLICY_VIOLATION", "VISION_LOW_CONFIDENCE"}
        /\ RuleCode(st) = "OK" => Recomputes(st)
    BY <1>4 DEF RuleCode
  <2>2. \A answer : PrecedentCode(answer) \in {"OK", "UBCI_POLICY_VIOLATION"}
    BY DEF PrecedentCode
  <2>3. \/ code = RuleCode(st)
        \/ /\ RuleCode(st) = "OK"
           /\ code \in {"OK", "UBCI_POLICY_VIOLATION"}
    BY <2>2 DEF Verdicts
  <2> QED BY <2>1, <2>3
<1>7. /\ HasKeys(st') /\ st'.regions = st.regions
      /\ st'.feedback = st.feedback /\ st'.reason = st.reason /\ st'.target = st.target
      /\ st'.vision = st.vision /\ st'.mint = st.mint /\ st'.code = code
      /\ st'.revision = (IF code = "OK" THEN st.revision ELSE st.revision + 1)
      /\ st'.policy = st.policy /\ st'.defects = st.defects
      /\ st'.quality = st.quality /\ st'.missed = st.missed
      /\ st'.uncertain = st.uncertain /\ st'.confidence = st.confidence
  BY <1>3, <1>5 DEF StateOK, HasKeys
<1>8. st'.revision \in 0..MaxRevisions
  BY <1>3, <1>4, <1>7 DEF StateOK, MaxRevisions
<1>9. StateOK(st')
  BY <1>3, <1>6, <1>7, <1>8 DEF StateOK
<1>10. TypeOK'
  BY <1>1, <1>2, <1>9 DEF TypeOK
<1>11. Routed' /\ ReadingOK'
  <2>1. st.vision = "COMPLETED"
    BY <1>1, <1>4 DEF ReadingOK
  <2> QED BY <1>1, <1>2, <1>7, <2>1 DEF Routed, Agents, ReadingOK
<1>12. PolicyOK'
  BY <1>1, <1>4, <1>6, <1>7 DEF PolicyOK, PolicyComplete, Recomputes
<1>13. DecisionOK'
  BY <1>1, <1>2, <1>4, <1>7 DEF DecisionOK
<1>14. EndOK' /\ DecisionsAreKept' /\ FailuresHaveACause' /\ PrecedentsAreScored'
  BY <1>1, <1>2 DEF EndOK, Automatic, DecisionsAreKept, FailuresHaveACause,
                    PrecedentsAreScored
<1>15. CauseOK'
  BY <1>1, <1>2, <1>7 DEF CauseOK
<1> QED BY <1>10, <1>11, <1>12, <1>13, <1>14, <1>15 DEF RunInvariant

(* A refund is given for a clear book, whose policy output it repeats.     *)
LEMMA RefundKeeps ==
  ASSUME RunInvariant, Refund
  PROVE  RunInvariant'
PROOF
<1>1. /\ TypeOK /\ Routed /\ ReadingOK /\ PolicyOK /\ DecisionOK /\ CauseOK
      /\ PrecedentsAreScored
  BY DEF RunInvariant
<1>2. /\ node = "auto_refund_agent" /\ node' = "end" /\ steps' = steps + 1
      /\ cases' = cases /\ resuming' = resuming /\ attempt' = attempt
      /\ resumes' = resumes /\ broke' = broke
  BY DEF Refund, Step
<1>3. StateOK(st)
  BY <1>1 DEF TypeOK
<1>4. /\ st.feedback = "none" /\ st.mint = "mint" /\ st.code = "OK"
  BY <1>1, <1>2, <1>3, RouteSends DEF Routed, Agents
<1>5. /\ st.defects = <<>> /\ PolicyComplete(st) /\ Recomputes(st)
      /\ st.vision = "COMPLETED" /\ st.policy # NoPolicy
  BY <1>1, <1>4 DEF ReadingOK, PolicyOK, PolicyComplete, NoPolicy, Grades
<1>6. /\ PolicyOf(st.defects) = [score |-> 200, grade |-> "S", fatal |-> FALSE]
      /\ st.policy = PolicyOf(st.defects)
  BY <1>1, <1>4, <1>5 DEF PolicyOK, PolicyOf
<1> DEFINE p == [score |-> Score(st.defects),
                 grade |-> Grade(Score(st.defects), Fatal(st.defects)), fatal |-> FALSE]
           f == [grade |-> Grade(Score(st.defects), Fatal(st.defects)), by |-> "AUTO_REFUND"]
<1>7. p = st.policy
  <2>1. st.policy = [score |-> Score(st.defects),
                     grade |-> Grade(Score(st.defects), Fatal(st.defects)),
                     fatal |-> Fatal(st.defects)]
    BY <1>5 DEF Recomputes
  <2>2. st.policy.fatal = FALSE
    BY <1>6
  <2>3. Fatal(st.defects) = FALSE
    BY <2>1, <2>2
  <2> QED BY <2>1, <2>3
<1>8. f.grade = st.policy.grade /\ f.by = "AUTO_REFUND"
  BY <1>7
<1>9. f \in [grade : {f.grade}, by : {f.by}]
  OBVIOUS
<1>10. st' = [st EXCEPT !.policy = p, !.final = f]
  BY DEF Refund
<1> HIDE DEF p, f
<1>11. /\ HasKeys(st') /\ st'.regions = st.regions
       /\ st'.feedback = st.feedback /\ st'.reason = st.reason /\ st'.target = st.target
       /\ st'.vision = st.vision /\ st'.mint = st.mint /\ st'.code = st.code
       /\ st'.revision = st.revision /\ st'.policy = st.policy /\ st'.defects = st.defects
       /\ st'.quality = st.quality /\ st'.missed = st.missed
       /\ st'.uncertain = st.uncertain /\ st'.confidence = st.confidence
       /\ st'.final = f
  BY <1>3, <1>7, <1>9, <1>10 DEF StateOK, HasKeys
<1>12. StateOK(st')
  BY <1>3, <1>11 DEF StateOK
<1>13. TypeOK'
  BY <1>1, <1>2, <1>12 DEF TypeOK, Stops
<1>14. Routed' /\ ReadingOK'
  BY <1>1, <1>2, <1>11 DEF Routed, Agents, ReadingOK
<1>15. PolicyOK'
  BY <1>1, <1>11 DEF PolicyOK, PolicyComplete, Recomputes
<1>16. resuming \in {"none", "RE_CHECK"}
  BY <1>1, <1>2 DEF DecisionOK
<1>17. DecisionOK' /\ DecisionsAreKept'
  BY <1>2, <1>4, <1>11, <1>16 DEF DecisionOK, DecisionsAreKept
<1>18. EndOK' /\ FailuresHaveACause' /\ PrecedentsAreScored' /\ CauseOK'
  BY <1>1, <1>2, <1>4, <1>8, <1>11
     DEF EndOK, Automatic, FailuresHaveACause, PrecedentsAreScored, CauseOK
<1> QED BY <1>13, <1>14, <1>15, <1>17, <1>18 DEF RunInvariant

(* A report has the grade of the policy or of the decision.                *)
LEMMA ReportKeeps ==
  ASSUME RunInvariant, Report
  PROVE  RunInvariant'
PROOF
<1>1. /\ TypeOK /\ Routed /\ ReadingOK /\ PolicyOK /\ DecisionOK /\ CauseOK
      /\ PrecedentsAreScored
  BY DEF RunInvariant
<1>2. /\ node = "report_agent" /\ node' = "end" /\ steps' = steps + 1
      /\ cases' = cases /\ resuming' = resuming /\ attempt' = attempt
      /\ resumes' = resumes /\ broke' = broke
  BY DEF Report, Step
<1>3. StateOK(st) /\ MayReport(st)
  BY <1>1 DEF TypeOK, Report
<1>4. st.feedback = "none" => st.code = "OK"
  BY <1>1, <1>2, <1>3, RouteSends DEF Routed, Agents
<1> DEFINE f == [grade |-> FinalGrade(st),
                 by |-> IF st.feedback = "none" THEN "AI" ELSE st.feedback]
<1>5. /\ f.grade = FinalGrade(st)
      /\ f.by = (IF st.feedback = "none" THEN "AI" ELSE st.feedback)
      /\ f \in [grade : {f.grade}, by : {f.by}]
  OBVIOUS
<1>6. st' = [st EXCEPT !.feedback = "none", !.final = f]
  BY DEF Report
<1> HIDE DEF f
<1>7. /\ HasKeys(st') /\ st'.regions = st.regions
      /\ st'.feedback = "none" /\ st'.reason = st.reason /\ st'.target = st.target
      /\ st'.vision = st.vision /\ st'.mint = st.mint /\ st'.code = st.code
      /\ st'.revision = st.revision /\ st'.policy = st.policy /\ st'.defects = st.defects
      /\ st'.quality = st.quality /\ st'.missed = st.missed
      /\ st'.uncertain = st.uncertain /\ st'.confidence = st.confidence
      /\ st'.final = f
  BY <1>3, <1>5, <1>6 DEF StateOK, HasKeys
<1>8. StateOK(st')
  BY <1>3, <1>7 DEF StateOK
<1>9. TypeOK'
  BY <1>1, <1>2, <1>8 DEF TypeOK, Stops
<1>10. Routed' /\ ReadingOK'
  BY <1>1, <1>2, <1>7 DEF Routed, Agents, ReadingOK
<1>11. PolicyOK'
  BY <1>1, <1>7 DEF PolicyOK, PolicyComplete, Recomputes
<1>12. resuming \notin {"none", "RE_CHECK"} => st.feedback = resuming
  BY <1>1, <1>2 DEF DecisionOK
<1>13. DecisionsAreKept'
  <2> SUFFICES ASSUME resuming \notin {"none", "RE_CHECK"}
               PROVE  /\ f.by = resuming
                      /\ resuming = "APPROVE_NORMAL" => f.grade = "S"
                      /\ resuming = "APPROVE_DOWNGRADE" => f.grade \in {"A", "B"}
                      /\ resuming \in Rejections => f.grade = "REJECT"
    BY <1>2, <1>7 DEF DecisionsAreKept
  <2>1. st.feedback = resuming
    BY <1>12
  <2> QED BY <1>3, <1>5, <2>1 DEF FinalGrade, MayReport, Rejections
<1>14. DecisionOK'
  BY <1>2, <1>7 DEF DecisionOK
<1>15. EndOK'
  <2>1. CASE st.feedback = "none"
    BY <1>2, <1>4, <1>5, <1>7, <2>1 DEF EndOK, Automatic, FinalGrade, Rejections
  <2>2. CASE st.feedback # "none"
    BY <1>3, <1>5, <1>7, <2>2 DEF EndOK, Automatic, StateOK, Decisions
  <2> QED BY <2>1, <2>2
<1>16. FailuresHaveACause' /\ PrecedentsAreScored' /\ CauseOK'
  BY <1>1, <1>2, <1>7 DEF FailuresHaveACause, PrecedentsAreScored, CauseOK
<1> QED BY <1>9, <1>10, <1>11, <1>13, <1>14, <1>15, <1>16 DEF RunInvariant

(* A run gives up only for a failure.                                      *)
LEMMA GiveUpKeeps ==
  ASSUME RunInvariant, GiveUp
  PROVE  RunInvariant'
PROOF
<1>1. /\ TypeOK /\ Routed /\ ReadingOK /\ PolicyOK /\ DecisionOK /\ CauseOK
      /\ PrecedentsAreScored
  BY DEF RunInvariant
<1>2. /\ node = "technical_failure_node" /\ node' = "failed" /\ steps' = steps + 1
      /\ st' = st /\ cases' = cases /\ resuming' = "none" /\ attempt' = attempt
      /\ resumes' = resumes /\ broke' = broke
  BY DEF GiveUp, Step
<1>3. StateOK(st)
  BY <1>1 DEF TypeOK
<1>4. st.regions = "failed" \/ st.vision = "FAILED"
  <2>1. \/ st.regions = "failed"
        \/ st.vision = "FAILED"
        \/ st.mint # "unknown" /\ Contradicts(st)
    BY <1>1, <1>2, <1>3, RouteSends DEF Routed, Agents
  <2> QED BY <1>1, <2>1 DEF Contradicts, ReadingOK
<1>5. FailuresHaveACause'
  BY <1>1, <1>2, <1>4 DEF FailuresHaveACause, CauseOK, TypeOK
<1>6. TypeOK'
  BY <1>1, <1>2 DEF TypeOK, Stops
<1>7. Routed' /\ ReadingOK' /\ PolicyOK'
  BY <1>1, <1>2 DEF Routed, Agents, ReadingOK, PolicyOK, PolicyComplete, Recomputes
<1>8. DecisionOK'
  BY <1>1, <1>2 DEF DecisionOK
<1>9. EndOK' /\ DecisionsAreKept' /\ PrecedentsAreScored' /\ CauseOK'
  BY <1>1, <1>2 DEF EndOK, Automatic, DecisionsAreKept, PrecedentsAreScored, CauseOK
<1> QED BY <1>5, <1>6, <1>7, <1>8, <1>9 DEF RunInvariant

(* A decision is taken where a human is waited for.                        *)
LEMMA ResumeKeeps ==
  ASSUME RunInvariant, NEW decision \in Decisions, NEW target \in {"none", "A", "B"},
         Resume(decision, target)
  PROVE  RunInvariant'
PROOF
<1>1. /\ TypeOK /\ Routed /\ ReadingOK /\ PolicyOK /\ DecisionOK /\ CauseOK
      /\ PrecedentsAreScored
  BY DEF RunInvariant
<1>2. /\ node = "human_node" /\ node' = "supervisor" /\ steps' = 0
      /\ cases' = cases /\ resuming' = decision /\ attempt' = attempt
      /\ resumes' = resumes + 1 /\ broke' \in BOOLEAN
      /\ (decision = "APPROVE_DOWNGRADE") <=> (target # "none")
  BY DEF Resume
<1>3. StateOK(st)
  BY <1>1 DEF TypeOK
<1> DEFINE kept == IF decision = "RE_CHECK" THEN Empty ELSE st
<1>4. /\ StateOK(kept)
      /\ kept.vision # "FAILED" /\ kept.regions # "failed"
      /\ kept.vision = "COMPLETED" => /\ kept.quality /\ ~kept.missed /\ ~kept.uncertain
                                      /\ kept.confidence >= MinConfidence
      /\ kept.mint # "unknown" => kept.vision = "COMPLETED"
      /\ kept.mint = "mint" => kept.defects = <<>>
      /\ kept.mint = "damaged" => kept.defects # <<>>
      /\ kept.vision # "none" => kept.regions = "ready"
      /\ kept.mint # "unknown" /\ kept.policy # NoPolicy
             => kept.policy = PolicyOf(kept.defects)
      /\ kept.code = "OK" => /\ kept.mint # "unknown"
                             /\ PolicyComplete(kept)
                             /\ Recomputes(kept)
      /\ decision = "RE_CHECK" => /\ kept.vision = "none" /\ kept.mint = "unknown"
                                  /\ kept.code = "none"
  <2>1. CASE decision = "RE_CHECK"
    BY <2>1, EmptyKeys
  <2>2. CASE decision # "RE_CHECK"
    BY <1>1, <1>2, <1>3, <2>2 DEF CauseOK, ReadingOK, PolicyOK
  <2> QED BY <2>1, <2>2
<1>5. st' = [kept EXCEPT !.feedback = decision, !.reason = TRUE, !.target = target,
                         !.revision = 0, !.final = NoFinal]
  BY DEF Resume, Decided
<1> HIDE DEF kept
<1>6. /\ HasKeys(st') /\ st'.regions = kept.regions
      /\ st'.feedback = decision /\ st'.reason \in BOOLEAN /\ st'.reason /\ st'.target = target
      /\ st'.vision = kept.vision /\ st'.mint = kept.mint /\ st'.code = kept.code
      /\ st'.revision = 0 /\ st'.policy = kept.policy /\ st'.defects = kept.defects
      /\ st'.quality = kept.quality /\ st'.missed = kept.missed
      /\ st'.uncertain = kept.uncertain /\ st'.confidence = kept.confidence
  BY <1>4, <1>5 DEF StateOK, HasKeys, NoFinal
<1>7. StateOK(st')
  BY <1>4, <1>6 DEF StateOK, MaxRevisions
<1>8. TypeOK'
  BY <1>1, <1>2, <1>7 DEF TypeOK
<1>9. Routed' /\ ReadingOK'
  BY <1>2, <1>4, <1>6 DEF Routed, Agents, ReadingOK
<1>10. PolicyOK'
  BY <1>4, <1>6 DEF PolicyOK, PolicyComplete, Recomputes
<1>11. DecisionOK'
  BY <1>2, <1>4, <1>6 DEF DecisionOK, Stops
<1>12. EndOK' /\ DecisionsAreKept' /\ FailuresHaveACause' /\ PrecedentsAreScored'
  BY <1>1, <1>2 DEF EndOK, Automatic, DecisionsAreKept, FailuresHaveACause,
                    PrecedentsAreScored
<1>13. CauseOK'
  BY <1>2, <1>4, <1>6 DEF CauseOK
<1> QED BY <1>8, <1>9, <1>10, <1>11, <1>12, <1>13 DEF RunInvariant

(* A decision becomes a precedent with the score of its defects.           *)
LEMMA ReturnKeeps ==
  ASSUME RunInvariant, Return
  PROVE  RunInvariant'
PROOF
<1>1. /\ TypeOK /\ Routed /\ ReadingOK /\ PolicyOK /\ DecisionOK /\ EndOK /\ CauseOK
      /\ DecisionsAreKept /\ PrecedentsAreScored
  BY DEF RunInvariant
<1>2. /\ node \in {"end", "human_node"} /\ node' = node /\ steps' = steps
      /\ st' = st /\ resuming # "none" /\ resuming' = "none" /\ attempt' = attempt
      /\ resumes' = resumes /\ broke' = broke
  BY DEF Return
<1>3. TypeOK'
  BY <1>1, <1>2 DEF TypeOK
<1>4. Routed' /\ ReadingOK' /\ PolicyOK' /\ EndOK' /\ CauseOK'
  BY <1>1, <1>2 DEF Routed, ReadingOK, PolicyOK, PolicyComplete, Recomputes, EndOK,
                    Automatic, CauseOK
<1>5. DecisionOK'
  BY <1>1, <1>2 DEF DecisionOK
<1>6. DecisionsAreKept' /\ FailuresHaveACause'
  BY <1>2 DEF DecisionsAreKept, FailuresHaveACause
<1>7. PrecedentsAreScored'
  <2>1. CASE cases' = cases
    BY <1>1, <2>1 DEF PrecedentsAreScored
  <2>2. CASE /\ resuming # "RE_CHECK"
             /\ Complete(st)
             /\ cases' = {c \in cases : c.number # book.number} \cup {CaseOf(st)}
    <3>1. node = "end"
      BY <1>1, <1>2, <2>2 DEF DecisionOK
    <3>2. st.policy = PolicyOf(st.defects)
      BY <1>1, <2>2 DEF Complete, PolicyComplete, PolicyOK, NoPolicy, Grades
    <3>3. (st.final.grade = "REJECT") <=> (resuming \in Rejections)
      <4>1. resuming \in Decisions \ {"RE_CHECK"}
        BY <1>1, <1>2, <2>2 DEF TypeOK
      <4> QED BY <1>1, <3>1, <4>1 DEF DecisionsAreKept, Decisions, Rejections
    <3>4. /\ CaseOf(st).score = PolicyOf(CaseOf(st).defects).score
          /\ CaseOf(st).predicted = PolicyOf(CaseOf(st).defects).grade
          /\ (CaseOf(st).final = "REJECT") <=> (CaseOf(st).decision \in Rejections)
      BY <3>2, <3>3 DEF CaseOf
    <3> QED BY <1>1, <2>2, <3>4 DEF PrecedentsAreScored
  <2> QED BY <2>1, <2>2 DEF Return
<1> QED BY <1>3, <1>4, <1>5, <1>6, <1>7 DEF RunInvariant

(* A retry starts on an empty checkpoint or on what the run left.          *)
LEMMA RetryKeeps ==
  ASSUME RunInvariant, Retry
  PROVE  RunInvariant'
PROOF
<1>1. /\ TypeOK /\ ReadingOK /\ PrecedentsAreScored
  BY DEF RunInvariant
<1>2. /\ node' = "supervisor" /\ steps' = 0 /\ st' \in {Restarted(st), Empty}
      /\ cases' = cases /\ resuming = "none" /\ resuming' = resuming
      /\ attempt' = attempt + 1 /\ resumes' = resumes /\ broke' \in BOOLEAN
  BY DEF Retry
<1>3. StateOK(st)
  BY <1>1 DEF TypeOK
<1>4. /\ StateOK(st') /\ st'.feedback = "none" /\ st'.mint = "unknown"
      /\ st'.code = "none" /\ st'.revision = 0
      /\ st'.vision = "COMPLETED" => /\ st'.quality /\ ~st'.missed /\ ~st'.uncertain
                                     /\ st'.confidence >= MinConfidence
      /\ st'.vision # "none" => st'.regions = "ready"
  <2>1. CASE st' = Empty
    BY <2>1, EmptyKeys
  <2>2. CASE st' = Restarted(st)
    BY <1>1, <1>3, <2>2, RestartedKeys DEF ReadingOK
  <2> QED BY <1>2, <2>1, <2>2
<1>5. attempt' \in Nat \ {0} /\ attempt' # 1
  BY <1>1, <1>2 DEF TypeOK
<1>6. TypeOK'
  BY <1>1, <1>2, <1>4, <1>5 DEF TypeOK
<1>7. Routed' /\ ReadingOK' /\ PolicyOK'
  BY <1>2, <1>4 DEF Routed, Agents, ReadingOK, PolicyOK
<1>8. DecisionOK' /\ CauseOK'
  BY <1>2, <1>4, <1>5 DEF DecisionOK, CauseOK
<1>9. EndOK' /\ DecisionsAreKept' /\ FailuresHaveACause' /\ PrecedentsAreScored'
  BY <1>1, <1>2 DEF EndOK, Automatic, DecisionsAreKept, FailuresHaveACause,
                    PrecedentsAreScored
<1> QED BY <1>6, <1>7, <1>8, <1>9 DEF RunInvariant

(* The next book starts on a checkpoint of its own.                        *)
LEMMA NextBookKeeps ==
  ASSUME RunInvariant, NextBook
  PROVE  RunInvariant'
PROOF
<1>1. TypeOK /\ PrecedentsAreScored
  BY DEF RunInvariant
<1>2. /\ node' = "supervisor" /\ cases' = cases /\ resuming' = "none" /\ attempt' = 1
      /\ resumes' = 0 /\ steps' = 0 /\ broke' \in BOOLEAN /\ st' = Empty
  BY DEF NextBook
<1>3. /\ StateOK(st') /\ st'.feedback = "none" /\ st'.vision = "none"
      /\ st'.mint = "unknown" /\ st'.regions = "none" /\ st'.code = "none"
      /\ st'.revision = 0
  BY <1>2, EmptyKeys
<1>4. TypeOK'
  BY <1>2, <1>3 DEF TypeOK
<1>5. Routed' /\ ReadingOK' /\ PolicyOK'
  BY <1>2, <1>3 DEF Routed, Agents, ReadingOK, PolicyOK
<1>6. DecisionOK' /\ EndOK' /\ CauseOK'
  BY <1>2, <1>3 DEF DecisionOK, EndOK, Automatic, CauseOK
<1>7. DecisionsAreKept' /\ FailuresHaveACause' /\ PrecedentsAreScored'
  BY <1>1, <1>2 DEF DecisionsAreKept, FailuresHaveACause, PrecedentsAreScored
<1> QED BY <1>4, <1>5, <1>6, <1>7 DEF RunInvariant

(* Nothing changes.                                                        *)
LEMMA RunsStutter ==
  ASSUME RunInvariant, UNCHANGED vars
  PROVE  RunInvariant'
PROOF
<1>1. /\ node' = node /\ st' = st /\ cases' = cases /\ resuming' = resuming
      /\ attempt' = attempt /\ resumes' = resumes /\ steps' = steps /\ broke' = broke
  BY DEF vars
<1>2. (TypeOK /\ Routed /\ ReadingOK /\ PolicyOK)'
  BY <1>1 DEF RunInvariant, TypeOK, Routed, ReadingOK, PolicyOK, PolicyComplete, Recomputes
<1>3. (DecisionOK /\ EndOK /\ CauseOK)'
  BY <1>1 DEF RunInvariant, DecisionOK, EndOK, Automatic, CauseOK
<1>4. (DecisionsAreKept /\ FailuresHaveACause /\ PrecedentsAreScored)'
  BY <1>1 DEF RunInvariant, DecisionsAreKept, FailuresHaveACause, PrecedentsAreScored
<1> QED BY <1>2, <1>3, <1>4 DEF RunInvariant

(* Every step keeps the invariant.                                         *)
THEOREM RunsStayRight == RunInvariant /\ [Next]_vars => RunInvariant'
PROOF
<1> SUFFICES ASSUME RunInvariant, [Next]_vars
             PROVE  RunInvariant'
  OBVIOUS
<1>1. CASE Next
  <2>1. ASSUME GraphStep
        PROVE  RunInvariant'
    BY <2>1, SuperviseKeeps, DetectBookKeeps, InspectKeeps, AppraiseKeeps, CriticiseKeeps,
       RefundKeeps, ReportKeeps, GiveUpKeeps DEF GraphStep
  <2>2. CASE Return
    BY <2>2, ReturnKeeps
  <2>3. CASE Retry
    BY <2>3, RetryKeeps
  <2>4. CASE NextBook
    BY <2>4, NextBookKeeps
  <2>5. CASE UNCHANGED vars
    BY <2>5, RunsStutter
  <2>6. ASSUME NEW decision \in Decisions, NEW target \in {"none", "A", "B"},
               Resume(decision, target)
        PROVE  RunInvariant'
    BY <2>6, ResumeKeeps
  <2> QED BY <1>1, <2>1, <2>2, <2>3, <2>4, <2>5, <2>6 DEF Next, Rest
<1>2. CASE UNCHANGED vars
  BY <1>2, RunsStutter
<1> QED BY <1>1, <1>2

(* The invariant holds in every state a run can reach.                     *)
THEOREM RunsKeepInvariant == Spec => []RunInvariant
PROOF
<1> QED BY RunsStartRight, RunsStayRight, PTL DEF Spec

-----------------------------------------------------------------------------
(* A result without a human is what the rules give for the defects.        *)
LEMMA AutomaticIsScored ==
  ASSUME RunInvariant, Automatic
  PROVE  /\ Scorable(st.defects)
         /\ st.policy.score = Score(st.defects)
         /\ st.final.grade = Grade(st.policy.score, Fatal(st.defects))
PROOF
<1>1. PolicyComplete(st) /\ Recomputes(st) /\ st.final.grade = st.policy.grade
  BY DEF RunInvariant, EndOK, PolicyOK
<1> QED BY <1>1 DEF Recomputes

(* What the worker approves has a score above its threshold, and so no     *)
(* fatal defect.                                                           *)
LEMMA ApprovedIsScored ==
  ASSUME RunInvariant, Automatic, WorkerDecision(st) = "APPROVE"
  PROVE  /\ st.policy.score \in ApprovalScoreThreshold..200
         /\ ~Fatal(st.defects)
PROOF
<1>1. ReadingOK /\ PolicyComplete(st)
  BY DEF RunInvariant, EndOK, PolicyOK
<1>2. st.policy.score \in 0..200 /\ st.policy.score >= ApprovalScoreThreshold
  <2>1. CASE st.mint = "mint"
    <3>1. st.defects = <<>>
      BY <1>1, <2>1 DEF ReadingOK
    <3>2. st.policy = PolicyOf(st.defects)
      BY <1>1, <2>1 DEF RunInvariant, PolicyOK, PolicyComplete, NoPolicy, Grades
    <3> QED BY <3>1, <3>2 DEF PolicyOf, ApprovalScoreThreshold
  <2>2. CASE st.mint # "mint"
    BY <1>1, <2>2 DEF WorkerDecision, PolicyComplete
  <2> QED BY <2>1, <2>2
<1>3. ~Fatal(st.defects)
  BY <1>2, AutomaticIsScored, RulesGive DEF ApprovalScoreThreshold
<1> QED BY <1>2, <1>3 DEF ApprovalScoreThreshold

(* A result without a human is what the rules give for the defects, and no *)
(* fatal or rejected book is approved by the worker.                       *)
THEOREM AutomaticRunsAreVerified == Spec => []AutomaticResultsAreVerified
PROOF
<1>1. RunInvariant => AutomaticResultsAreVerified
  <2>1. ASSUME RunInvariant, Automatic, WorkerDecision(st) = "APPROVE"
        PROVE  st.final.grade # "REJECT" /\ ~Fatal(st.defects)
    BY <2>1, AutomaticIsScored, ApprovedIsScored DEF Grade, ApprovalScoreThreshold
  <2> QED BY <2>1, AutomaticIsScored DEF AutomaticResultsAreVerified
<1> QED BY <1>1, RunsKeepInvariant, PTL

(* What the photos leave open is for a human.                              *)
THEOREM UnclearRunsReachAHuman == Spec => []UnclearBooksReachAHuman
PROOF
<1>1. RunInvariant => UnclearBooksReachAHuman
  BY DEF RunInvariant, EndOK, PolicyOK, ReadingOK, UnclearBooksReachAHuman
<1> QED BY <1>1, RunsKeepInvariant, PTL

(* A report that ends a decision says what was decided, a first run fails  *)
(* only for a failure, and a precedent has the score of its defects.       *)
THEOREM DecisionsAreReported ==
  Spec => [](DecisionsAreKept /\ FailuresHaveACause /\ PrecedentsAreScored)
PROOF
<1>1. RunInvariant => DecisionsAreKept /\ FailuresHaveACause /\ PrecedentsAreScored
  BY DEF RunInvariant
<1> QED BY <1>1, RunsKeepInvariant, PTL

-----------------------------------------------------------------------------
(* The larger of two numbers.                                              *)
LEMMA LargerOf ==
  ASSUME NEW m \in Int, NEW n \in Int
  PROVE  Max({m, n}) = IF m >= n THEN m ELSE n
PROOF
  BY DEF Max

(* A group of defects that have a rule costs a number of points.           *)
LEMMA PenaltyIsNumber ==
  ASSUME NEW defects, NEW i \in DOMAIN defects, defects[i].type \in DefectTypes,
         Scorable(defects), ~Fatal(defects)
  PROVE  Penalty(defects, Group(defects[i].type)) \in Nat
PROOF
<1> DEFINE g == Group(defects[i].type)
           k == Severity(TotalRatio(defects, g))
           weight == IF Overlaps(defects, g) THEN 3 ELSE 2
<1>1. g \in Groups(defects)
  BY DEF Groups
<1>2. g \notin HitlRequiredDefects /\ g \notin FatalDefects
  BY <1>1 DEF Scorable, Fatal, IsFatal
<1>3. g = "INNER_PAGE_DAMAGE" \/ g \in DOMAIN PenaltyMatrix
  BY <1>2 DEF Group, DefectTypes
<1>4. k \in {1, 2, 3} /\ weight \in {2, 3}
  BY DEF Severity
<1>5. \A t \in DOMAIN PenaltyMatrix : /\ PenaltyMatrix[t][1] \in Nat
                                      /\ PenaltyMatrix[t][2] \in Nat
                                      /\ PenaltyMatrix[t][3] \in Nat
  BY DEF PenaltyMatrix
<1>6. CASE g = "INNER_PAGE_DAMAGE"
  BY <1>6 DEF Penalty, InnerPageDamagePenalty
<1>7. CASE g # "INNER_PAGE_DAMAGE"
  <2>1. Penalty(defects, g) = PenaltyMatrix[g][k] * weight
    BY <1>7 DEF Penalty
  <2>2. PenaltyMatrix[g][k] \in Nat
    <3> HIDE DEF g, k
    <3> QED BY <1>3, <1>4, <1>5, <1>7
  <2>3. \A n \in Nat : n * 2 \in Nat /\ n * 3 \in Nat
    OBVIOUS
  <2>4. Penalty(defects, g) \in Nat
    <3> HIDE DEF g, k, weight
    <3> QED BY <1>4, <2>1, <2>2, <2>3
  <2> QED BY <2>4
<1> QED BY <1>6, <1>7

(* A score counts half points up to the full score, which a book without   *)
(* defects has.                                                            *)
LEMMA ScoreRange ==
  ASSUME NEW defects, IsFiniteSet(DOMAIN defects),
         \A i \in DOMAIN defects : defects[i].type \in DefectTypes,
         Scorable(defects)
  PROVE  /\ Score(defects) \in 0..200
         /\ DOMAIN defects = {} => Score(defects) = 200 /\ ~Fatal(defects)
PROOF
<1> DEFINE penalties == [g \in Groups(defects) |-> Penalty(defects, g)]
           total == SumFunctionOnSet(penalties, Groups(defects))
<1>1. CASE Fatal(defects)
  <2>1. DOMAIN defects # {}
    BY <1>1 DEF Fatal, Groups
  <2> QED BY <1>1, <2>1, RulesGive
<1>2. CASE ~Fatal(defects)
  <2>1. IsFiniteSet(Groups(defects))
    <3> DEFINE group == [i \in DOMAIN defects |-> Group(defects[i].type)]
    <3>1. group \in Surjection(DOMAIN defects, Groups(defects))
      BY DEF Surjection, Groups
    <3> HIDE DEF group
    <3> QED BY <3>1, FS_Surjection
  <2>2. \A g \in Groups(defects) : penalties[g] \in Nat
    <3> SUFFICES ASSUME NEW g \in Groups(defects) PROVE Penalty(defects, g) \in Nat
      OBVIOUS
    <3>1. PICK i \in DOMAIN defects : g = Group(defects[i].type)
      BY DEF Groups
    <3> QED BY <1>2, <3>1, PenaltyIsNumber
  <2>3. Score(defects) = Max({0, 200 - total})
    BY <1>2 DEF Score, SumFunction
  <2> HIDE DEF penalties
  <2>4. total \in Nat
    BY <2>1, <2>2, SumNat
  <2>5. DOMAIN defects = {} => total = 0
    <3>1. DOMAIN defects = {} => Groups(defects) = {}
      BY DEF Groups
    <3> QED BY <3>1, SumEmpty
  <2> HIDE DEF total
  <2>6. Score(defects) = IF 0 >= 200 - total THEN 0 ELSE 200 - total
    BY <2>3, <2>4, LargerOf
  <2> QED BY <1>2, <2>4, <2>5, <2>6
<1> QED BY <1>1, <1>2

(* What is scored is a part of the defects that have a rule.               *)
LEMMA ManualIsRemoved ==
  ASSUME KnownDefects
  PROVE  LET rest == RemoveManual(st.defects)
         IN /\ IsFiniteSet(DOMAIN rest) /\ Scorable(rest)
            /\ \A i \in DOMAIN rest : rest[i].type \in DefectTypes
            /\ Scorable(st.defects) => rest = st.defects
PROOF
<1> DEFINE d == st.defects
           kept == {i \in DOMAIN d : d[i].type \notin HitlRequiredDefects}
           rest == RemoveManual(d)
<1>1. rest = [i \in kept |-> d[i]]
  BY DEF RemoveManual, Restrict
<1>2. IsFiniteSet(kept)
  BY FS_Subset DEF KnownDefects
<1>3. DOMAIN rest = kept /\ \A i \in kept : rest[i] = d[i]
  BY <1>1
<1>4. \A i \in kept : rest[i].type \in DefectTypes /\ rest[i].type \notin HitlRequiredDefects
  BY <1>3 DEF KnownDefects
<1>5. Scorable(rest)
  <2> SUFFICES ASSUME NEW i \in DOMAIN rest PROVE Group(rest[i].type) \notin HitlRequiredDefects
    BY DEF Scorable, Groups
  <2> QED BY <1>3, <1>4 DEF Group, HitlRequiredDefects
<1>6. ASSUME Scorable(d) PROVE rest = d
  <2>1. ASSUME NEW i \in DOMAIN d PROVE i \in kept
    <3>1. Group(d[i].type) \notin HitlRequiredDefects
      BY <1>6 DEF Scorable, Groups
    <3> QED BY <3>1 DEF Group, InnerPageDamageTypes, HitlRequiredDefects
  <2>2. kept = DOMAIN d
    BY <2>1
  <2> QED BY <1>1, <2>2 DEF KnownDefects
<1> QED BY <1>2, <1>3, <1>4, <1>5, <1>6

(* The policy output of known defects is complete.                         *)
LEMMA PolicyIsComplete ==
  ASSUME KnownDefects
  PROVE  /\ PolicyOf(st.defects).score \in 0..200
         /\ PolicyOf(st.defects).grade \in Grades
         /\ Scorable(st.defects) => PolicyOf(st.defects).score = Score(st.defects)
PROOF
<1> DEFINE d == st.defects
           rest == RemoveManual(d)
<1>1. /\ IsFiniteSet(DOMAIN rest) /\ Scorable(rest)
      /\ \A i \in DOMAIN rest : rest[i].type \in DefectTypes
      /\ Scorable(d) => rest = d
  BY ManualIsRemoved
<1>2. PolicyOf(d).grade \in Grades
  BY RulesGive
<1>3. CASE d = <<>>
  <2>1. PolicyOf(d).score = 200 /\ DOMAIN d = {}
    BY <1>3 DEF PolicyOf
  <2>2. Scorable(d) => Score(d) = 200
    BY <2>1, ScoreRange DEF KnownDefects
  <2> QED BY <1>2, <2>1, <2>2
<1>4. CASE d # <<>>
  <2> HIDE DEF rest
  <2>1. PolicyOf(d).score = Score(rest)
    BY <1>4 DEF PolicyOf, rest
  <2>2. Score(rest) \in 0..200
    BY <1>1, ScoreRange
  <2> QED BY <1>1, <1>2, <2>1, <2>2
<1> QED BY <1>3, <1>4

-----------------------------------------------------------------------------
(* What the agents leave on the checkpoint, as far as the score and the    *)
(* length of a run depend on it.                                           *)
LEMMA InspectLeaves ==
  ASSUME RunInvariant, Inspect
  PROVE  /\ st'.feedback = "none" /\ st'.policy = NoPolicy /\ st'.code = "none"
         /\ \/ st'.vision \in {"REVIEW_REQUIRED", "FAILED"} /\ st'.mint = "unknown"
            \/ st'.vision = "COMPLETED" /\ st'.mint # "unknown"
PROOF
<1>1. /\ TypeOK /\ Routed /\ node = "vision_agent"
  BY DEF RunInvariant, Inspect, Step
<1>2. StateOK(st)
  BY <1>1 DEF TypeOK
<1>3. st.feedback = "RE_CHECK" \/ st.revision < MaxRevisions
  BY <1>1, <1>2, RouteSends DEF Routed, Agents
<1>4. st' = Failed(st) \/ \E defects, reviews, whole : st' = Read(st, defects, reviews, whole)
  BY DEF Inspect
<1>5. ReadingOf(st, st')
  BY <1>2, <1>3, <1>4, FailedKeys, ReadKeys
<1> QED BY <1>5 DEF ReadingOf

(* The policy agent leaves the score of the defects, or leaves them to a   *)
(* human.                                                                  *)
LEMMA AppraiseLeaves ==
  ASSUME RunInvariant, Appraise
  PROVE  /\ st'.feedback = "none" /\ st'.vision = "COMPLETED" /\ st'.mint # "unknown"
         /\ st'.defects = st.defects /\ st'.revision = st.revision
         /\ \/ st'.policy = NoPolicy /\ st'.code = "POLICY_REQUIRES_HITL"
            \/ /\ st'.policy = PolicyOf(st.defects) /\ st'.code = "none"
               /\ st.defects = <<>> \/ ~NeedsHuman(st.defects)
PROOF
<1>1. /\ TypeOK /\ Routed /\ ReadingOK /\ node = "policy_agent"
  BY DEF RunInvariant, Appraise, Step
<1>2. StateOK(st)
  BY <1>1 DEF TypeOK
<1>3. st.vision = "COMPLETED"
  BY <1>1, <1>2, RouteSends DEF Routed, Agents, ReadingOK
<1> DEFINE q == Appraised(st)
           needs == st.defects # <<>> /\ NeedsHuman(st.defects)
           mint == IF st.defects = <<>> THEN "mint" ELSE "damaged"
           policy == PolicyOf(st.defects)
<1>4. /\ needs => q = [st EXCEPT !.mint = "damaged", !.policy = NoPolicy,
                                 !.code = "POLICY_REQUIRES_HITL"]
      /\ ~needs => q = [st EXCEPT !.mint = mint, !.policy = policy, !.code = "none"]
  BY <1>3 DEF Appraised
<1>5. st' = [q EXCEPT !.feedback = "none", !.reason = FALSE, !.target = "none",
                      !.final = NoFinal]
  BY DEF Appraise
<1>6. mint # "unknown"
  OBVIOUS
<1> HIDE DEF q, mint, policy, needs
<1>7. CASE needs
  <2>1. q = [st EXCEPT !.mint = "damaged", !.policy = NoPolicy,
                       !.code = "POLICY_REQUIRES_HITL"]
    BY <1>4, <1>7
  <2>2. /\ q.vision = st.vision /\ q.mint = "damaged" /\ q.policy = NoPolicy
        /\ q.code = "POLICY_REQUIRES_HITL" /\ q.defects = st.defects
        /\ q.revision = st.revision /\ HasKeys(q)
    BY <1>2, <2>1 DEF StateOK, HasKeys, NoPolicy
  <2> QED BY <1>3, <1>5, <2>2 DEF HasKeys
<1>8. CASE ~needs
  <2>1. policy \in [score : {policy.score}, grade : {policy.grade}, fatal : {policy.fatal}]
    BY DEF PolicyOf, policy
  <2>2. q = [st EXCEPT !.mint = mint, !.policy = policy, !.code = "none"]
    BY <1>4, <1>8
  <2>3. /\ q.vision = st.vision /\ q.mint = mint /\ q.policy = policy
        /\ q.code = "none" /\ q.defects = st.defects
        /\ q.revision = st.revision /\ HasKeys(q)
    BY <1>2, <2>1, <2>2 DEF StateOK, HasKeys
  <2>4. /\ st'.feedback = "none" /\ st'.vision = q.vision /\ st'.mint = q.mint
        /\ st'.defects = q.defects /\ st'.revision = q.revision
        /\ st'.policy = q.policy /\ st'.code = q.code
    BY <1>5, <2>3 DEF HasKeys
  <2> QED BY <1>3, <1>6, <1>8, <2>3, <2>4 DEF policy, needs
<1> QED BY <1>7, <1>8

(* The critic agrees, or uses up a revision.                               *)
LEMMA CriticiseLeaves ==
  ASSUME RunInvariant, Criticise
  PROVE  /\ st'.feedback = st.feedback /\ st'.vision = st.vision /\ st'.mint = st.mint
         /\ st'.policy = st.policy /\ st'.defects = st.defects
         /\ st.feedback = "none" /\ st.mint # "unknown" /\ st.revision < MaxRevisions
         /\ \/ st'.code = "OK" /\ st'.revision = st.revision
            \/ /\ st'.code \in {"UBCI_POLICY_VIOLATION", "VISION_LOW_CONFIDENCE"}
               /\ st'.revision = st.revision + 1
PROOF
<1>1. /\ TypeOK /\ Routed /\ node = "critic_agent"
  BY DEF RunInvariant, Criticise, Step
<1>2. StateOK(st)
  BY <1>1 DEF TypeOK
<1>3. /\ st.feedback = "none" /\ st.mint # "unknown" /\ st.revision < MaxRevisions
      /\ ~Contradicts(st)
  BY <1>1, <1>2, RouteSends DEF Routed, Agents
<1>4. PICK code \in Verdicts(st) :
         st' = [st EXCEPT !.code = code, !.revision = IF code = "OK" THEN @ ELSE @ + 1]
  BY DEF Criticise
<1>5. code \in {"OK", "UBCI_POLICY_VIOLATION", "VISION_LOW_CONFIDENCE"}
  BY <1>3 DEF Verdicts, RuleCode, PrecedentCode
<1>6. /\ st'.feedback = st.feedback /\ st'.vision = st.vision /\ st'.mint = st.mint
      /\ st'.policy = st.policy /\ st'.defects = st.defects /\ st'.code = code
      /\ st'.revision = (IF code = "OK" THEN st.revision ELSE st.revision + 1)
  BY <1>2, <1>4 DEF StateOK, HasKeys
<1> QED BY <1>3, <1>5, <1>6

(* The automatic refund leaves defects and score as they are.              *)
LEMMA RefundLeaves ==
  ASSUME RunInvariant, Refund
  PROVE  st'.mint = st.mint /\ st'.policy = st.policy /\ st'.defects = st.defects
PROOF
<1>1. TypeOK /\ PolicyOK /\ ReadingOK /\ Routed /\ node = "auto_refund_agent"
  BY DEF RunInvariant, Refund, Step
<1>2. StateOK(st)
  BY <1>1 DEF TypeOK
<1>3. st.mint = "mint" /\ st.code = "OK"
  BY <1>1, <1>2, RouteSends DEF Routed, Agents
<1>4. Recomputes(st) /\ st.policy = PolicyOf(st.defects) /\ st.defects = <<>>
  BY <1>1, <1>3 DEF PolicyOK, ReadingOK, PolicyComplete, NoPolicy, Grades
<1> DEFINE p == [score |-> Score(st.defects),
                 grade |-> Grade(Score(st.defects), Fatal(st.defects)), fatal |-> FALSE]
           f == [grade |-> Grade(Score(st.defects), Fatal(st.defects)), by |-> "AUTO_REFUND"]
<1>5. p = st.policy
  <2>1. st.policy = [score |-> Score(st.defects),
                     grade |-> Grade(Score(st.defects), Fatal(st.defects)),
                     fatal |-> Fatal(st.defects)]
    BY <1>4 DEF Recomputes
  <2>2. st.policy.fatal = FALSE
    BY <1>4 DEF PolicyOf
  <2>3. Fatal(st.defects) = FALSE
    BY <2>1, <2>2
  <2> QED BY <2>1, <2>3
<1>6. st' = [st EXCEPT !.policy = p, !.final = f]
  BY DEF Refund
<1> HIDE DEF p, f
<1> QED BY <1>2, <1>5, <1>6 DEF StateOK, HasKeys

(* A score comes from a completed reading of defects that have rules.      *)
LEMMA ScoresStayOK ==
  ASSUME RunInvariant, ScoredOK, [Next]_vars
  PROVE  ScoredOK'
PROOF
<1>1. StateOK(st)
  BY DEF RunInvariant, TypeOK
<1>2. ASSUME st'.mint = st.mint, st'.policy = st.policy, st'.defects = st.defects
      PROVE  ScoredOK'
  BY <1>2 DEF ScoredOK
<1>3. ASSUME st'.policy.score = -1, st'.mint = "unknown" \/ st'.policy = NoPolicy
      PROVE  ScoredOK'
  BY <1>3 DEF ScoredOK
<1>4. Empty.policy.score = -1 /\ Empty.mint = "unknown" /\ NoPolicy.score = -1
  BY DEF Empty, NoPolicy
<1>5. CASE UNCHANGED st
  BY <1>2, <1>5
<1>6. CASE DetectBook
  <2>1. \E found \in {"ready", "failed"} : st' = [st EXCEPT !.regions = found]
    BY <1>6 DEF DetectBook
  <2> QED BY <1>1, <1>2, <2>1 DEF StateOK, HasKeys
<1>7. CASE Inspect
  BY <1>3, <1>4, <1>7, InspectLeaves
<1>8. CASE Appraise
  <2>1. /\ st'.mint # "unknown" /\ st'.defects = st.defects
        /\ st'.policy = NoPolicy \/ st.defects = <<>> \/ ~NeedsHuman(st.defects)
    BY <1>8, AppraiseLeaves
  <2> QED BY <2>1 DEF ScoredOK
<1>9. CASE Criticise
  BY <1>2, <1>9, CriticiseLeaves
<1>10. CASE Refund
  BY <1>2, <1>10, RefundLeaves
<1>11. CASE Report
  <2>1. \E f : st' = [st EXCEPT !.feedback = "none", !.final = f]
    BY <1>11 DEF Report
  <2> QED BY <1>1, <1>2, <2>1 DEF StateOK, HasKeys
<1>12. ASSUME NEW decision, NEW target, Resume(decision, target)
       PROVE  ScoredOK'
  <2> DEFINE kept == IF decision = "RE_CHECK" THEN Empty ELSE st
  <2>1. st' = [kept EXCEPT !.feedback = decision, !.reason = TRUE, !.target = target,
                           !.revision = 0, !.final = NoFinal]
    BY <1>12 DEF Resume, Decided
  <2>2. StateOK(kept)
    BY <1>1, EmptyKeys
  <2>3. kept = Empty \/ kept = st
    OBVIOUS
  <2> HIDE DEF kept
  <2>4. st'.mint = kept.mint /\ st'.policy = kept.policy /\ st'.defects = kept.defects
    BY <2>1, <2>2 DEF StateOK, HasKeys
  <2> QED BY <1>2, <1>3, <1>4, <2>3, <2>4
<1>13. CASE Retry
  <2>1. st' = Restarted(st) \/ st' = Empty
    BY <1>13 DEF Retry
  <2>2. Restarted(st).policy.score = -1 /\ Restarted(st).mint = "unknown"
    BY <1>1 DEF Restarted, StateOK, HasKeys
  <2> QED BY <1>3, <1>4, <2>1, <2>2
<1>14. CASE NextBook
  BY <1>3, <1>4, <1>14 DEF NextBook
<1> QED BY <1>5, <1>6, <1>7, <1>8, <1>9, <1>10, <1>11, <1>12, <1>13, <1>14
        DEF Next, GraphStep, Supervise, GiveUp, Return, Rest, vars

(* A score is on the checkpoint only after a completed reading, and stands *)
(* for all the defects there unless a fatal one decides.                   *)
THEOREM ScoresAreOK == Spec => []ScoredOK
PROOF
<1>1. Init => ScoredOK
  <2>1. Empty.policy.score = -1 /\ Empty.mint = "unknown"
    BY DEF Empty, NoPolicy
  <2> QED BY <2>1 DEF Init, ScoredOK
<1> QED BY <1>1, ScoresStayOK, RunsKeepInvariant, PTL DEF Spec

-----------------------------------------------------------------------------
(* The supervisor counts with what the agent it chooses may need.          *)
LEMMA AheadRange ==
  ASSUME NEW s, StateOK(s)
  PROVE  /\ RevisionsLeft(s) \in 0..8 /\ Ahead(s) \in 2..16
         /\ s.revision < MaxRevisions => RevisionsLeft(s) >= 4
PROOF
<1>1. /\ RevisionsLeft(s) \in 0..8
      /\ s.revision < MaxRevisions => RevisionsLeft(s) >= 4
  BY DEF StateOK, RevisionsLeft, MaxRevisions
<1> QED BY <1>1 DEF Ahead

(* What the routes to the agents that read and judge leave ahead.          *)
LEMMA AheadCovers ==
  ASSUME RunInvariant, node = "supervisor"
  PROVE  /\ Route(st) = "book_detector" => Ahead(st) = 16
         /\ Route(st) = "vision_agent" => Ahead(st) = 14
         /\ Route(st) = "policy_agent" => Ahead(st) = RevisionsLeft(st) + 4
         /\ Route(st) = "critic_agent" => Ahead(st) = RevisionsLeft(st) + 2
PROOF
<1>1. StateOK(st) /\ ReadingOK /\ PolicyOK /\ DecisionOK
  BY DEF RunInvariant, TypeOK
<1>2. CASE Route(st) = "book_detector"
  <2>1. st.regions = "none" /\ st.vision = "none" /\ st.mint = "unknown"
    BY <1>1, <1>2, RouteSends DEF ReadingOK
  <2> QED BY <1>2, <2>1 DEF Ahead
<1>3. CASE Route(st) = "vision_agent"
  <2>1. st.regions = "ready" /\ st.feedback \in {"none", "RE_CHECK"}
    BY <1>1, <1>3, RouteSends
  <2>2. CASE st.feedback = "RE_CHECK"
    BY <1>1, <1>3, <2>1, <2>2 DEF DecisionOK, Ahead
  <2>3. CASE st.feedback = "none"
    <3>1. st.vision \notin {"REVIEW_REQUIRED", "FAILED"} /\ st.mint = "unknown"
      BY <1>1, <1>3, <2>3 DEF Route, CodeRoute, StateOK
    <3> QED BY <1>3, <2>1, <3>1 DEF Ahead
  <2> QED BY <2>1, <2>2, <2>3
<1>4. CASE Route(st) \in {"policy_agent", "critic_agent"}
  <2>1. /\ st.feedback = "none" /\ st.mint # "unknown" /\ st.revision < MaxRevisions
        /\ st.vision = "COMPLETED"
    BY <1>1, <1>4, RouteSends DEF ReadingOK
  <2>2. Route(st) = CodeRoute(st)
    BY <1>1, <2>1 DEF Route, StateOK, MaxRevisions
  <2>3. CASE Route(st) = "critic_agent"
    <3>1. PolicyComplete(st) /\ st.code = "none"
      BY <1>1, <2>3, RouteSends
    <3> QED BY <2>1, <2>3, <3>1 DEF Ahead, HitlReasonCodes
  <2>4. CASE Route(st) = "policy_agent"
    <3>1. st.code \notin HitlReasonCodes
      BY <2>2, <2>4 DEF CodeRoute
    <3>2. st.code = "UBCI_POLICY_VIOLATION" \/ ~PolicyComplete(st)
      BY <1>1, <2>2, <2>4, <3>1 DEF CodeRoute, StateOK
    <3>3. st.code # "OK"
      BY <1>1, <3>2 DEF PolicyOK
    <3> QED BY <2>1, <2>4, <3>1, <3>2, <3>3 DEF Ahead
  <2> QED BY <1>4, <2>3, <2>4
<1> QED BY <1>2, <1>3, <1>4

(* Every superstep uses up one of those that were left.                    *)
LEMMA SuperviseIsBounded ==
  ASSUME RunInvariant, RunIsBounded, Supervise
  PROVE  RunIsBounded'
PROOF
<1>1. StateOK(st) /\ steps \in Nat
  BY DEF RunInvariant, TypeOK
<1>2. node = "supervisor" /\ node' = Route(st) /\ steps' = steps + 1 /\ st' = st
  BY DEF Supervise, Step
<1>3. Route(st) \in Agents \cup {"human_node"}
  BY <1>1, RouteSends
<1>4. RevisionsLeft(st) \in 0..8 /\ Ahead(st) \in 2..16 /\ steps + Ahead(st) <= 16
  BY <1>1, <1>2, AheadRange DEF RunIsBounded, Remaining
<1>5. Remaining' + 1 <= Ahead(st) /\ Remaining' \in Nat
  <2>1. RevisionsLeft(st') = RevisionsLeft(st)
    BY <1>2
  <2>2. CASE Route(st) = "book_detector"
    BY <1>2, <2>2, AheadCovers DEF Remaining
  <2>3. CASE Route(st) = "vision_agent"
    BY <1>2, <2>3, AheadCovers DEF Remaining
  <2>4. CASE Route(st) = "policy_agent"
    BY <1>2, <1>4, <2>1, <2>4, AheadCovers DEF Remaining
  <2>5. CASE Route(st) = "critic_agent"
    BY <1>2, <1>4, <2>1, <2>5, AheadCovers DEF Remaining
  <2>6. CASE Route(st) \in {"technical_failure_node", "auto_refund_agent", "report_agent",
                            "human_node"}
    BY <1>2, <1>4, <2>6 DEF Remaining, Stops
  <2> QED BY <1>3, <2>2, <2>3, <2>4, <2>5, <2>6 DEF Agents
<1>6. \A k \in Nat, a \in 2..16, r \in Nat : k + a <= 16 /\ r + 1 <= a => (k + 1) + r <= 16
  OBVIOUS
<1>7. (steps + 1) + Remaining' <= 16
  BY <1>1, <1>4, <1>5, <1>6
<1> QED BY <1>2, <1>7 DEF RunIsBounded

(* Every agent takes one of the supersteps that are left.                  *)
LEMMA AgentsAreBounded ==
  ASSUME RunInvariant, RunIsBounded, KnownDefects,
         DetectBook \/ Inspect \/ Appraise \/ Criticise \/ Refund \/ Report \/ GiveUp
  PROVE  RunIsBounded'
PROOF
<1>1. StateOK(st) /\ steps \in Nat /\ steps' = steps + 1
  BY DEF RunInvariant, TypeOK, DetectBook, Inspect, Appraise, Criticise, Refund, Report, GiveUp,
         Step
<1>2. StateOK(st') /\ RunInvariant'
  <2>1. RunInvariant'
    BY DetectBookKeeps, InspectKeeps, AppraiseKeeps, CriticiseKeeps, RefundKeeps, ReportKeeps,
       GiveUpKeeps
  <2> QED BY <2>1 DEF RunInvariant, TypeOK
<1>3. /\ RevisionsLeft(st) \in 0..8 /\ RevisionsLeft(st') \in 0..8
      /\ st.revision < MaxRevisions => RevisionsLeft(st) >= 4
  BY <1>1, <1>2, AheadRange
<1>4. CASE DetectBook
  <2>1. node = "book_detector" /\ node' = "supervisor"
    BY <1>4 DEF DetectBook, Step
  <2>2. st.regions = "none" /\ st.vision = "none" /\ st.mint = "unknown"
    BY <1>1, <2>1, RouteSends DEF RunInvariant, Routed, Agents, ReadingOK
  <2>3. st'.regions # "none" /\ st'.vision = "none" /\ st'.mint = "unknown"
    <3>1. \E found \in {"ready", "failed"} : st' = [st EXCEPT !.regions = found]
      BY <1>4 DEF DetectBook
    <3> QED BY <1>1, <2>2, <3>1 DEF StateOK, HasKeys
  <2>4. Ahead(st') = 14
    BY <2>3 DEF Ahead
  <2> QED BY <1>1, <2>1, <2>4 DEF RunIsBounded, Remaining
<1>5. CASE Inspect
  <2>1. node = "vision_agent" /\ node' = "supervisor"
    BY <1>5 DEF Inspect, Step
  <2>2. /\ st'.feedback = "none" /\ st'.policy = NoPolicy /\ st'.code = "none"
        /\ \/ st'.vision \in {"REVIEW_REQUIRED", "FAILED"} /\ st'.mint = "unknown"
           \/ st'.vision = "COMPLETED" /\ st'.mint # "unknown"
    BY <1>5, InspectLeaves
  <2>3. ~PolicyComplete(st')
    BY <2>2 DEF PolicyComplete, NoPolicy, Grades
  <2>4. Ahead(st') = 2 \/ Ahead(st') = RevisionsLeft(st') + 4
    BY <2>2, <2>3 DEF Ahead, HitlReasonCodes
  <2>5. Ahead(st') \in Nat /\ Ahead(st') <= 12
    BY <1>3, <2>4
  <2>6. steps + 13 <= 16
    BY <2>1 DEF RunIsBounded, Remaining
  <2>7. Remaining' = Ahead(st')
    BY <2>1 DEF Remaining
  <2> QED BY <1>1, <2>5, <2>6, <2>7 DEF RunIsBounded
<1>6. CASE Appraise
  <2>1. node = "policy_agent" /\ node' = "supervisor"
    BY <1>6 DEF Appraise, Step
  <2>2. /\ st'.feedback = "none" /\ st'.vision = "COMPLETED" /\ st'.mint # "unknown"
        /\ st'.revision = st.revision
        /\ \/ st'.policy = NoPolicy /\ st'.code = "POLICY_REQUIRES_HITL"
           \/ st'.policy = PolicyOf(st.defects) /\ st'.code = "none"
    BY <1>6, AppraiseLeaves
  <2>3. st'.code = "none" => PolicyComplete(st')
    BY <2>2, PolicyIsComplete DEF PolicyComplete
  <2>4. Ahead(st') = 2 \/ Ahead(st') = RevisionsLeft(st) + 2
    BY <2>2, <2>3 DEF Ahead, HitlReasonCodes, RevisionsLeft
  <2>5. Ahead(st') \in Nat /\ Ahead(st') <= RevisionsLeft(st) + 2
    BY <1>3, <2>4
  <2>6. steps + (RevisionsLeft(st) + 3) <= 16
    BY <2>1 DEF RunIsBounded, Remaining
  <2>7. Remaining' = Ahead(st')
    BY <2>1 DEF Remaining
  <2> QED BY <1>1, <1>3, <2>5, <2>6, <2>7 DEF RunIsBounded
<1>7. CASE Criticise
  <2>1. node = "critic_agent" /\ node' = "supervisor"
    BY <1>7 DEF Criticise, Step
  <2>2. /\ st'.feedback = "none" /\ st'.mint # "unknown" /\ st.revision < MaxRevisions
        /\ \/ st'.code = "OK" /\ st'.revision = st.revision
           \/ /\ st'.code \in {"UBCI_POLICY_VIOLATION", "VISION_LOW_CONFIDENCE"}
              /\ st'.revision = st.revision + 1
    BY <1>7, CriticiseLeaves
  <2>3. st'.vision = "COMPLETED"
    BY <1>2, <2>2 DEF RunInvariant, ReadingOK
  <2>4. Ahead(st') = 2 \/ Ahead(st') = RevisionsLeft(st)
    <3>1. CASE st'.code \in {"OK", "VISION_LOW_CONFIDENCE"}
      BY <2>2, <2>3, <3>1 DEF Ahead, HitlReasonCodes
    <3>2. CASE st'.code = "UBCI_POLICY_VIOLATION"
      <4>1. Ahead(st') = RevisionsLeft(st') + 4
        BY <2>2, <2>3, <3>2 DEF Ahead, HitlReasonCodes
      <4>2. RevisionsLeft(st') = RevisionsLeft(st) - 4
        BY <1>1, <2>2, <3>2 DEF RevisionsLeft, StateOK, MaxRevisions
      <4> QED BY <1>3, <4>1, <4>2
    <3> QED BY <2>2, <3>1, <3>2
  <2>5. Ahead(st') \in Nat /\ Ahead(st') <= RevisionsLeft(st)
    BY <1>3, <2>2, <2>4
  <2>6. steps + (RevisionsLeft(st) + 1) <= 16
    BY <2>1 DEF RunIsBounded, Remaining
  <2>7. Remaining' = Ahead(st')
    BY <2>1 DEF Remaining
  <2> QED BY <1>1, <1>3, <2>5, <2>6, <2>7 DEF RunIsBounded
<1>8. CASE Refund \/ Report \/ GiveUp
  <2>1. /\ node \in {"auto_refund_agent", "report_agent", "technical_failure_node"}
        /\ node' \in {"end", "failed"}
    BY <1>8 DEF Refund, Report, GiveUp, Step
  <2>2. Remaining = 1 /\ Remaining' = 0
    BY <2>1 DEF Remaining, Stops
  <2> QED BY <1>1, <2>2 DEF RunIsBounded
<1> QED BY <1>4, <1>5, <1>6, <1>7, <1>8

(* So does every step; a new run has all of them.                          *)
LEMMA RunsStayBounded ==
  ASSUME RunInvariant, RunIsBounded, KnownDefects, [Next]_vars
  PROVE  RunIsBounded'
PROOF
<1>1. RunInvariant'
  BY RunsStayRight
<1>2. StateOK(st')
  BY <1>1 DEF RunInvariant, TypeOK
<1>3. ASSUME node' = node, st' = st, steps' = steps
      PROVE  RunIsBounded'
  BY <1>3 DEF RunIsBounded, Remaining
<1>4. ASSUME node' = "supervisor", steps' = 0
      PROVE  RunIsBounded'
  <2>1. Ahead(st') \in 2..16
    BY <1>2, AheadRange
  <2>2. Remaining' = Ahead(st')
    BY <1>4 DEF Remaining
  <2> QED BY <1>4, <2>1, <2>2 DEF RunIsBounded
<1>5. CASE GraphStep
  BY <1>5, SuperviseIsBounded, AgentsAreBounded DEF GraphStep
<1>6. ASSUME NEW decision, NEW target, Resume(decision, target)
      PROVE  RunIsBounded'
  BY <1>4, <1>6 DEF Resume
<1>7. CASE Return \/ UNCHANGED vars
  BY <1>3, <1>7 DEF Return, vars
<1>8. CASE Retry \/ NextBook
  BY <1>4, <1>8 DEF Retry, NextBook
<1> QED BY <1>5, <1>6, <1>7, <1>8 DEF Next, Rest

(* Whatever models and people answer, a run comes to its end within the    *)
(* supersteps the graph library allows, as long as the agents report only  *)
(* defects of the types there are.                                         *)
THEOREM RunsStayWithinLimit == Spec /\ []KnownDefects => []RunsWithinLimit
PROOF
<1>1. Init => RunIsBounded
  <2>1. Init => node = "supervisor" /\ steps = 0 /\ StateOK(st)
    BY EmptyKeys DEF Init
  <2>2. StateOK(st) => Ahead(st) \in 2..16
    BY AheadRange
  <2> QED BY <2>1, <2>2 DEF RunIsBounded, Remaining
<1>2. RunInvariant /\ RunIsBounded => RunsWithinLimit
  <2> SUFFICES ASSUME RunInvariant, RunIsBounded PROVE RunsWithinLimit
    OBVIOUS
  <2>1. steps \in Nat /\ StateOK(st)
    BY DEF RunInvariant, TypeOK
  <2>2. Remaining \in Nat
    BY <2>1, AheadRange DEF Remaining
  <2> QED BY <2>1, <2>2, LimitAssumption DEF RunIsBounded, RunsWithinLimit
<1> QED BY <1>1, <1>2, RunsStayBounded, RunsKeepInvariant, PTL DEF Spec

-----------------------------------------------------------------------------
(* From an approval to a price: the thresholds of agents, worker, WMS and  *)
(* pricing agree, for any reading, any category and any list price that    *)
(* rounds well.                                                            *)

(* A fatal defect of the WMS that an agent can report is one of the agents'.*)
LEMMA FatalCodesAgree ==
  ASSUME KnownDefects, ~Fatal(st.defects)
  PROVE  \A i \in DOMAIN st.defects : st.defects[i].type \notin FatalDefectCodes
PROOF
<1> SUFFICES ASSUME NEW i \in DOMAIN st.defects, st.defects[i].type \in FatalDefectCodes
             PROVE  FALSE
  OBVIOUS
<1> DEFINE type == st.defects[i].type
<1>1. type \in FatalDefects
  BY DEF KnownDefects, DefectTypes, PenaltyMatrix, InnerPageDamageTypes, HitlRequiredDefects,
         FatalDefects, FatalDefectCodes
<1>2. Group(type) = type
  BY <1>1 DEF Group, FatalDefects, InnerPageDamageTypes
<1>3. type \in Groups(st.defects)
  BY <1>2 DEF Groups
<1> QED BY <1>1, <1>3 DEF Fatal, IsFatal

(* The retention of a category and of a condition.                         *)
LEMMA Retentions ==
  ASSUME NEW c \in Categories, NEW score \in 130..200
  PROVE  /\ CategoryPolicy[c] \in 64..78
         /\ ConditionRetention(score) \in 180..400
PROOF
<1>1. CategoryPolicy[c] \in 64..78
  BY DEF Categories, CategoryPolicy
<1>2. ConditionRetention(score) \in 180..400
  BY DEF ConditionRetention
<1> QED BY <1>1, <1>2

(* The bounds of a product.                                                *)
LEMMA ProductBounds ==
  ASSUME NEW base \in Nat, NEW c \in 64..78, NEW k \in 180..400
  PROVE  /\ base * c * k \in Nat
         /\ 11520 * base <= base * c * k /\ base * c * k <= 31200 * base
PROOF
<1>1. c * k \in Nat /\ 11520 <= c * k /\ c * k <= 31200
  OBVIOUS
<1>2. ASSUME NEW f \in Nat, 11520 <= f, f <= 31200
      PROVE  base * f \in Nat /\ 11520 * base <= base * f /\ base * f <= 31200 * base
  BY <1>2
<1>3. base * c * k = base * (c * k)
  OBVIOUS
<1> QED BY <1>1, <1>2, <1>3

(* Half up to a hundred.                                                   *)
LEMMA RoundingBounds ==
  ASSUME NEW parts \in Nat
  PROVE  LET r == RoundToHundred(parts)
         IN /\ r \in Nat
            /\ \E q \in Nat : r = 100 * q
            /\ 40000 * r <= parts + 2000000
            /\ parts < 40000 * r + 2000000
PROOF
<1> DEFINE q == (parts + 2000000) \div 4000000
<1>1. q \in Nat /\ 4000000 * q <= parts + 2000000 /\ parts + 2000000 < 4000000 * q + 4000000
  OBVIOUS
<1>2. RoundToHundred(parts) = 100 * q
  BY DEF RoundToHundred
<1> HIDE DEF q
<1> QED BY <1>1, <1>2

(* A quotient below a hundred.                                             *)
LEMMA QuotientBelow ==
  ASSUME NEW a \in Nat, NEW b \in Nat \ {0}, a < 100 * b
  PROVE  a \div b \in Nat /\ a \div b < 100
PROOF
  OBVIOUS

(* A score that can be sold has a price within the list price.             *)
LEMMA SaleableScores ==
  ASSUME NEW score \in 130..200
  PROVE  Saleable(score)
PROOF
<1> SUFFICES ASSUME NEW base \in BasePrices, NEW c \in Categories
             PROVE  Priced(base, c, score)
  BY DEF Saleable
<1> DEFINE parts == RawPrice(base, c, score)
           r == RoundToHundred(parts)
           final == FinalPrice(base, c, score)
<1>1. base \in Nat /\ base >= 100 /\ base \notin 193..199
  BY PricesAssumption
<1>2. parts \in Nat /\ 11520 * base <= parts /\ parts <= 31200 * base
  <2>1. /\ CategoryPolicy[c] \in 64..78
        /\ ConditionRetention(score) \in 180..400
    BY Retentions
  <2>2. parts = base * CategoryPolicy[c] * ConditionRetention(score)
    BY DEF RawPrice
  <2>3. \A x \in 64..78, y \in 180..400 :
           /\ base * x * y \in Nat
           /\ 11520 * base <= base * x * y /\ base * x * y <= 31200 * base
    BY <1>1, ProductBounds
  <2> HIDE DEF parts
  <2> QED BY <2>1, <2>2, <2>3
<1> HIDE DEF parts
<1>3. PICK q \in Nat : r = 100 * q /\ 40000 * r <= parts + 2000000
                           /\ parts < 40000 * r + 2000000
  BY <1>2, RoundingBounds
<1> HIDE DEF r
<1>4. final = IF 100 >= r THEN 100 ELSE r
  BY <1>3, LargerOf DEF FinalPrice, r, parts
<1> HIDE DEF final
<1>5. final \in Nat /\ 0 < final /\ final <= base
  BY <1>1, <1>2, <1>3, <1>4
<1>6. base < 100 * final
  BY <1>1, <1>2, <1>3, <1>4
<1>7. (base - final) * 100 + base - 1 \in Nat /\ (base - final) * 100 + base - 1 < 100 * base
  BY <1>1, <1>5, <1>6
<1>8. DiscountRate(base, final) \in Nat /\ DiscountRate(base, final) < 100
  BY <1>1, <1>7, QuotientBelow DEF DiscountRate
<1> QED BY <1>1, <1>5, <1>8 DEF Priced, final

(* What is approved without a human is admitted under the grade of its     *)
(* report and gets a price.                                                *)
THEOREM AutomaticApprovalsSell == Spec => [](KnownDefects => AutomaticApprovalsAreSold)
PROOF
<1>1. RunInvariant => (KnownDefects => AutomaticApprovalsAreSold)
  <2> SUFFICES ASSUME RunInvariant, KnownDefects, Automatic, WorkerDecision(st) = "APPROVE"
               PROVE  /\ Resolved(AutomaticRequest(st)) \in SellableGrades
                      /\ Resolved(AutomaticRequest(st)) = SameGrade[st.final.grade]
                      /\ Saleable(AutomaticRequest(st).score)
    BY DEF AutomaticApprovalsAreSold
  <2> DEFINE r == AutomaticRequest(st)
             score == st.policy.score
  <2>1. score \in 140..200 /\ ~Fatal(st.defects)
    BY ApprovedIsScored DEF ApprovalScoreThreshold
  <2>2. st.final.grade = Grade(score, FALSE)
    BY <2>1, AutomaticIsScored DEF Fatal
  <2>3. r.decision = "APPROVE" /\ r.score = score /\ r.defects = st.defects /\ r.final = "none"
    <3>1. ~(score < 0)
      BY <2>1
    <3>2. RequestScore(st, "APPROVE") = score
      BY <3>1, Zenon DEF RequestScore
    <3>3. r = [decision |-> "APPROVE", score |-> RequestScore(st, "APPROVE"),
               defects |-> st.defects, final |-> "none"]
      BY DEF AutomaticRequest, Request
    <3> QED BY <3>2, <3>3
  <2>4. ConditionGrade(score, st.defects) = IF score >= 190 THEN "MINT"
                                            ELSE IF score >= 170 THEN "EXCELLENT"
                                            ELSE "NORMAL"
    BY <2>1, FatalCodesAgree DEF ConditionGrade
  <2>5. Resolved(r) = ConditionGrade(score, st.defects)
    BY <2>1, <2>3, <2>4 DEF Resolved, SellableGrades
  <2>6. ConditionGrade(score, st.defects) = SameGrade[st.final.grade]
    BY <2>1, <2>2, <2>4 DEF Grade, SameGrade
  <2>7. Saleable(r.score)
    BY <2>1, <2>3, SaleableScores
  <2> QED BY <2>1, <2>4, <2>5, <2>6, <2>7 DEF SellableGrades
<1> QED BY <1>1, RunsKeepInvariant, PTL

(* A request has a score or none.                                          *)
LEMMA RequestScoreRange ==
  ASSUME RunInvariant, ScoredOK, KnownDefects
  PROVE  RequestScore(st, "APPROVE") \in -1..200
PROOF
<1>1. st.policy.score \in -1..200
  <2>1. CASE st.mint = "unknown" \/ st.policy = NoPolicy
    <3>1. st.policy.score = -1
      BY <2>1 DEF ScoredOK, NoPolicy
    <3> QED BY <3>1
  <2>2. CASE st.mint # "unknown" /\ st.policy # NoPolicy
    <3>1. st.policy = PolicyOf(st.defects)
      BY <2>2 DEF RunInvariant, PolicyOK
    <3>2. PolicyOf(st.defects).score \in 0..200
      BY PolicyIsComplete
    <3> QED BY <3>1, <3>2
  <2> QED BY <2>1, <2>2
<1>2. RequestScore(st, "APPROVE") = 200 \/ RequestScore(st, "APPROVE") = st.policy.score
  BY DEF RequestScore
<1> QED BY <1>1, <1>2

(* What a human approves as it is: a full score for a clean book, or the   *)
(* score that the rules give for its defects.                              *)
LEMMA ScoreOfApproval ==
  ASSUME RunInvariant, ScoredOK, KnownDefects,
         RequestScore(st, "APPROVE") >= 130
  PROVE  /\ Scorable(st.defects) /\ ~Fatal(st.defects)
         /\ RequestScore(st, "APPROVE") = Score(st.defects)
         /\ Score(st.defects) \in 130..200
PROOF
<1> DEFINE d == st.defects
           score == RequestScore(st, "APPROVE")
<1>1. CASE d = <<>>
  <2>1. /\ DOMAIN d = {} /\ Scorable(d)
    BY <1>1 DEF Scorable, Groups
  <2>2. Score(d) = 200 /\ ~Fatal(d)
    BY <2>1, ScoreRange DEF KnownDefects
  <2>3. score = 200
    <3>1. CASE st.policy.score < 0 /\ st.mint = "mint"
      BY <1>1, <3>1 DEF RequestScore
    <3>2. CASE ~(st.policy.score < 0 /\ st.mint = "mint")
      <4>1. score = st.policy.score
        BY <3>2 DEF RequestScore
      <4>2. st.mint # "unknown" /\ st.policy # NoPolicy
        BY <4>1 DEF ScoredOK, NoPolicy
      <4>3. st.policy = PolicyOf(d)
        BY <4>2 DEF RunInvariant, PolicyOK
      <4> QED BY <1>1, <4>1, <4>3 DEF PolicyOf
    <3> QED BY <3>1, <3>2
  <2> QED BY <2>1, <2>2, <2>3
<1>2. CASE d # <<>>
  <2>1. score = st.policy.score
    BY <1>2 DEF RequestScore
  <2>2. st.mint # "unknown" /\ st.policy # NoPolicy
    BY <2>1 DEF ScoredOK, NoPolicy
  <2>3. st.policy = PolicyOf(d) /\ ~NeedsHuman(d)
    BY <1>2, <2>2 DEF RunInvariant, PolicyOK, ScoredOK
  <2> DEFINE rest == RemoveManual(d)
  <2>4. st.policy.score = Score(rest)
    BY <1>2, <2>3 DEF PolicyOf
  <2> HIDE DEF score
  <2>5. ~Fatal(rest)
    BY <2>1, <2>4, RulesGive DEF score
  <2>6. Scorable(d)
    BY <2>3, <2>5 DEF NeedsHuman
  <2>7. rest = d
    BY <2>6, ManualIsRemoved
  <2>8. Score(d) \in 0..200
    BY <2>6, ScoreRange DEF KnownDefects
  <2>9. score = Score(d) /\ ~Fatal(d)
    BY <2>1, <2>4, <2>5, <2>7
  <2> QED BY <2>6, <2>8, <2>9 DEF score
<1> QED BY <1>1, <1>2

(* Whatever a human approves as it is comes on sale only with the score    *)
(* that the rules give for its defects, none of them fatal or without a    *)
(* rule; in all other cases the WMS refuses it.                            *)
THEOREM NormalApprovalsAreRight == Spec => [](KnownDefects => NormalApprovalsAreSound)
PROOF
<1>1. RunInvariant /\ ScoredOK => (KnownDefects => NormalApprovalsAreSound)
  <2> DEFINE r == HumanRequest(st, "APPROVE_NORMAL", "none")
             score == RequestScore(st, "APPROVE")
             grade == ConditionGrade(score, st.defects)
  <2> SUFFICES ASSUME RunInvariant, ScoredOK, KnownDefects, Resolved(r) # "refused"
               PROVE  /\ Resolved(r) \in SellableGrades
                      /\ Scorable(st.defects) /\ ~Fatal(st.defects)
                      /\ r.score = Score(st.defects)
                      /\ Saleable(r.score)
    BY DEF NormalApprovalsAreSound
  <2>1. r.decision = "APPROVE" /\ r.score = score /\ r.defects = st.defects /\ r.final = "none"
    <3>1. r = [decision |-> "APPROVE", score |-> score, defects |-> st.defects,
               final |-> "none"]
      BY DEF HumanRequest, Request, Rejections
    <3> HIDE DEF r, score
    <3> QED BY <3>1
  <2>2. score >= 0 /\ grade # "REJECT" /\ Resolved(r) = grade
    <3> HIDE DEF r, score, grade
    <3> USE DEF grade
    <3> QED BY <2>1 DEF Resolved, SellableGrades
  <2>3. ~(score < 130) /\ grade \in SellableGrades
    BY <2>2 DEF ConditionGrade, SellableGrades
  <2>4. score \in -1..200
    BY RequestScoreRange
  <2> HIDE DEF r, score, grade
  <2>5. score >= 130
    BY <2>3, <2>4
  <2>6. /\ Scorable(st.defects) /\ ~Fatal(st.defects)
        /\ score = Score(st.defects) /\ Score(st.defects) \in 130..200
    BY <2>5, ScoreOfApproval DEF score
  <2> QED BY <2>1, <2>2, <2>3, <2>6, SaleableScores
<1> QED BY <1>1, RunsKeepInvariant, ScoresAreOK, PTL
=============================================================================
