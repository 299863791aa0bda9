----------------------------- MODULE Detection ------------------------------
(***************************************************************************)
(* From the boxes of the detection models to a list of defects             *)
(* (ai/agents.py): the gate that keeps what lies on the book, the clusters *)
(* of boxes that overlap, the candidates, and the removal of duplicates.   *)
(*                                                                         *)
(* A box is <<x1, y1, x2, y2>> on a grid of Width by Height; a confidence  *)
(* is a number of percent.                                                 *)
(***************************************************************************)
EXTENDS Integers, Sequences, FiniteSets, SequencesExt

CONSTANTS Width, Height,   \* size of a photo
          EnsembleIou,     \* YOLO_ENSEMBLE_IOU, in percent
          DedupIou,        \* FINAL_DEFECT_DEDUP_IOU, in percent
          MinCoverage,     \* YOLO_BOOK_CANDIDATE_MIN_COVERAGE, in percent
          MinAreaRatio,    \* YOLO_BOOK_MIN_AREA_RATIO, in percent
          MaxCandidates    \* YOLO_MAX_ENSEMBLE_CANDIDATES

ASSUME DetectionAssumption ==
    /\ {Width, Height, MaxCandidates} \subseteq Nat \ {0}
    /\ {EnsembleIou, DedupIou, MinCoverage, MinAreaRatio} \subseteq 0..100

Views == <<"FRONT", "BACK", "INNER">>

-----------------------------------------------------------------------------
(***************************************************************************)
(* Geometry                                                                *)
(***************************************************************************)
Least(a, b) == IF a < b THEN a ELSE b
Greatest(a, b) == IF a > b THEN a ELSE b

Area(b) == Greatest(0, b[3] - b[1]) * Greatest(0, b[4] - b[2])

\* The part of a that lies on b.
Common(a, b) == Area(<<Greatest(a[1], b[1]), Greatest(a[2], b[2]),
                       Least(a[3], b[3]), Least(a[4], b[4])>>)

\* calculate_bbox_iou(a, b) >= percent
IouAtLeast(a, b, percent) ==
    LET union == Area(a) + Area(b) - Common(a, b)
    IN IF union <= 0 THEN percent = 0 ELSE 100 * Common(a, b) >= percent * union

\* A box of a model, clipped to the photo and at least one point wide.
Clamp(b) ==
    LET x1 == Greatest(0, Least(b[1], Width - 1))
        y1 == Greatest(0, Least(b[2], Height - 1))
    IN <<x1, y1, Greatest(x1 + 1, Least(b[3], Width)), Greatest(y1 + 1, Least(b[4], Height))>>

FullImage == <<0, 0, Width, Height>>

\* calculate_bbox_area_ratio, in whole percent of the book.
AreaRatio(b, book) == Least(100, (100 * Common(b, book)) \div Area(book))

-----------------------------------------------------------------------------
(***************************************************************************)
(* The book in the photo                                                   *)
(***************************************************************************)
FullImageRegion(view, fallback) == [view |-> view, bbox |-> FullImage, fallback |-> fallback]

\* The widest and surest book of a photo.
BestBook(books) ==
    CHOOSE b \in books : \A c \in books : Area(c.bbox) * c.confidence <= Area(b.bbox) * b.confidence

Usable(b) == 100 * Area(b) >= MinAreaRatio * Area(FullImage)

\* book_detector_node: the inner page is taken whole, and so is a photo in
\* which no book of a sufficient size is found.
Region(view, books) ==
    IF view = "INNER" THEN FullImageRegion(view, FALSE)
    ELSE IF books # {} /\ Usable(BestBook(books).bbox)
    THEN [view |-> view, bbox |-> BestBook(books).bbox, fallback |-> FALSE]
    ELSE FullImageRegion(view, TRUE)

\* evaluate_book_spatial_gate
CentreInside(b, book) == /\ b[1] + b[3] \in 2 * book[1] .. 2 * book[3]
                         /\ b[2] + b[4] \in 2 * book[2] .. 2 * book[4]

PassesGate(b, region) ==
    \/ region.view = "INNER"
    \/ region.fallback
    \/ CentreInside(b, region.bbox)
    \/ 100 * Common(b, region.bbox) >= MinCoverage * Area(b)

-----------------------------------------------------------------------------
(***************************************************************************)
(* Clusters and candidates                                                 *)
(***************************************************************************)
\* A model looks at the photos of its role: the inner page belongs to the
\* specialist for doodles, the covers to the others.
Responsible(detection, view) == (view = "INNER") <=> (detection.model = "doodle")

\* merge_model_detections: the surest box first; a box joins the first cluster
\* of which it overlaps a member.
Joins(cluster, d) == \E i \in DOMAIN cluster : IouAtLeast(d.bbox, cluster[i].bbox, EnsembleIou)

AddToClusters(clusters, d) ==
    LET fits == {k \in DOMAIN clusters : Joins(clusters[k], d)}
    IN IF fits = {} THEN Append(clusters, <<d>>)
       ELSE LET first == CHOOSE k \in fits : \A j \in fits : k <= j
            IN [clusters EXCEPT ![first] = Append(@, d)]

Clusters(detections) ==
    FoldLeft(AddToClusters, <<>>,
             SortSeq(detections, LAMBDA a, b : a.confidence > b.confidence))

Generic == "OTHER_VISIBLE_DAMAGE"

\* choose_proposed_type: the surest specific class; the clusters are in the
\* order of confidence.
ProposedType(cluster) ==
    LET specific == SelectSeq(cluster, LAMBDA d : d.type # Generic)
    IN IF specific = <<>> THEN Generic ELSE specific[1].type

SumOver(cluster, Value(_)) == FoldLeft(LAMBDA sum, d : sum + Value(d), 0, cluster)

\* weighted_bbox, to whole points of the grid.
WeightedBox(cluster) ==
    [i \in 1..4 |-> SumOver(cluster, LAMBDA d : d.bbox[i] * d.confidence)
                        \div SumOver(cluster, LAMBDA d : d.confidence)]

SourceModels(cluster) == {cluster[i].model : i \in DOMAIN cluster}

Candidate(cluster) ==
    [type |-> ProposedType(cluster), bbox |-> WeightedBox(cluster),
     confidence |-> SumOver(cluster, LAMBDA d : d.confidence) \div Len(cluster),
     best |-> cluster[1].confidence, models |-> Cardinality(SourceModels(cluster))]

\* More models first, then the surer one.
Precedes(a, b) == \/ a.models > b.models
                  \/ a.models = b.models /\ a.best > b.best

\* detect_yolo_candidates
Candidates(detections, region) ==
    LET mine == SelectSeq(detections, LAMBDA d : Responsible(d, region.view))
        clipped == [i \in DOMAIN mine |-> [mine[i] EXCEPT !.bbox = Clamp(@)]]
        onBook == SelectSeq(clipped, LAMBDA d : PassesGate(d.bbox, region))
        clusters == Clusters(onBook)
        found == [k \in DOMAIN clusters |-> Candidate(clusters[k])]
        ranked == SortSeq(found, Precedes)
    IN SubSeq(ranked, 1, Least(Len(ranked), MaxCandidates))

-----------------------------------------------------------------------------
(***************************************************************************)
(* Duplicates                                                              *)
(***************************************************************************)
\* FINAL_DEFECT_DEDUP_FAMILY
Family(type) == IF type \in {"COVER_TEAR", "CORNER_CRUSH", "EDGE_WEAR", Generic}
                THEN "PHYSICAL_EDGE_DAMAGE" ELSE type

SameDefect(a, b) == /\ a.view = b.view
                    /\ Family(a.type) = Family(b.type)
                    /\ IouAtLeast(a.bbox, b.bbox, DedupIou)

\* confidence_key: a specific type wins, then the surer one.
Outranks(a, b) ==
    \/ a.type # Generic /\ b.type = Generic
    \/ (a.type = Generic <=> b.type = Generic) /\ a.confidence > b.confidence

KeepBest(kept, d) ==
    LET same == {k \in DOMAIN kept : SameDefect(d, kept[k])}
    IN IF same = {} THEN Append(kept, d)
       ELSE LET first == CHOOSE k \in same : \A j \in same : k <= j
            IN IF Outranks(d, kept[first]) THEN [kept EXCEPT ![first] = d] ELSE kept

\* deduplicate_confirmed_defects
Deduplicate(defects) == FoldLeft(KeepBest, <<>>, defects)
=============================================================================
