-------------------------------- MODULE Ubci --------------------------------
(***************************************************************************)
(* The Used Book Condition Index (ai/agents.py): the penalty of a list of  *)
(* defects, the score and the grade.  Areas are whole percentages of the   *)
(* book and scores count half points, the finest the penalties can differ  *)
(* by, so that 200 is the full score.                                      *)
(***************************************************************************)
EXTENDS Integers, Sequences, FiniteSets, FiniteSetsExt, Functions

Grades == {"S", "A", "B", "REJECT"}

\* PENALTY_MATRIX: minor, moderate and severe.
PenaltyMatrix ==
    [ COVER_SCRATCH  |-> <<2, 5, 10>>,
      COVER_TEAR     |-> <<5, 10, 15>>,
      STICKER_MARK   |-> <<2, 3, 5>>,
      CORNER_CRUSH   |-> <<3, 5, 10>>,
      EDGE_WEAR      |-> <<2, 4, 7>>,
      SPINE_CRACKING |-> <<0, 5, 10>>,
      LOOSE_BINDING  |-> <<0, 10, 0>>,
      GENERAL_STAIN  |-> <<2, 5, 8>>,
      FADING         |-> <<3, 6, 10>>,
      SIGNATURE      |-> <<0, 10, 10>>,
      LIBRARY_STAMP  |-> <<0, 15, 15>> ]

FatalDefects == {"WATER_DAMAGE", "PAGE_WARPING"}

InnerPageDamageTypes == {"WRITING", "HIGHLIGHTING", "PAGE_FOLD"}

InnerPageDamagePenalty == 10

\* Defects without a rule of deduction.
HitlRequiredDefects == {"BARCODE_DAMAGE", "OTHER_VISIBLE_DAMAGE"}

DefectTypes == DOMAIN PenaltyMatrix \cup FatalDefects \cup InnerPageDamageTypes
                   \cup HitlRequiredDefects

-----------------------------------------------------------------------------
\* Damages of the inner page count as one.
Group(type) == IF type \in InnerPageDamageTypes THEN "INNER_PAGE_DAMAGE" ELSE type

Groups(defects) == {Group(defects[i].type) : i \in DOMAIN defects}

Members(defects, g) == {i \in DOMAIN defects : Group(defects[i].type) = g}

\* The areas of a group add up, to the whole book at most.
TotalRatio(defects, g) ==
    LET ratio == [i \in DOMAIN defects |-> defects[i].ratio]
    IN Min({100, SumFunctionOnSet(ratio, Members(defects, g))})

\* get_severity
Severity(ratio) == IF ratio < 5 THEN 1 ELSE IF ratio < 15 THEN 2 ELSE 3

Overlaps(defects, g) == \E i \in Members(defects, g) : defects[i].text_overlap

MorphologySevere(defects, g) == \E i \in Members(defects, g) : defects[i].morphology_severe

IsFatal(defects, g) ==
    \/ g \in FatalDefects
    \/ /\ g = "LOOSE_BINDING"
       /\ Severity(TotalRatio(defects, g)) = 3 \/ MorphologySevere(defects, g)

\* In half points; a defect across the text counts one and a half times.
Penalty(defects, g) ==
    IF g = "INNER_PAGE_DAMAGE"
    THEN 2 * InnerPageDamagePenalty
    ELSE PenaltyMatrix[g][Severity(TotalRatio(defects, g))]
             * (IF Overlaps(defects, g) THEN 3 ELSE 2)

Fatal(defects) == \E g \in Groups(defects) : IsFatal(defects, g)

\* calculate_ubci_score refuses a defect without a rule.
Scorable(defects) == Groups(defects) \cap HitlRequiredDefects = {}

Score(defects) ==
    IF Fatal(defects) THEN 0
    ELSE LET penalties == [g \in Groups(defects) |-> Penalty(defects, g)]
         IN Max({0, 200 - SumFunction(penalties)})

\* calculate_ubci_grade
Grade(score, fatal) ==
    IF fatal \/ score < 130 THEN "REJECT"
    ELSE IF score >= 190 THEN "S"
    ELSE IF score >= 170 THEN "A"
    ELSE "B"
=============================================================================
