------------------------------ MODULE MCAgents ------------------------------
(***************************************************************************)
(* Photos of ten by ten points.  A clean book; a book whose cover two      *)
(* models see torn at the same place while a third box lies beside it; an  *)
(* inner page that is clean, written on, stamped over its text in a book   *)
(* with a cracked spine, wet, damaged at its barcode, or stained at three  *)
(* places of which the third covers the first two.                         *)
(***************************************************************************)
EXTENDS AgentInvariant, Admission

Whole == [bbox |-> <<1, 1, 9, 9>>, confidence |-> 90]
Small == [bbox |-> <<0, 0, 2, 2>>, confidence |-> 95]

Box(model, type, bbox, confidence) ==
    [model |-> model, type |-> type, bbox |-> bbox, confidence |-> confidence]

Clean == [books |-> [v \in {"FRONT", "BACK", "INNER"} |-> {Whole}],
          detections |-> [v \in {"FRONT", "BACK", "INNER"} |-> <<>>]]

Torn == [books |-> [FRONT |-> {Whole, Small}, BACK |-> {Small}, INNER |-> {}],
         detections |-> [
             FRONT |-> <<Box("general", "OTHER_VISIBLE_DAMAGE", <<1, 1, 5, 3>>, 80),
                         Box("physical", "COVER_TEAR", <<1, 1, 5, 3>>, 60),
                         Box("physical", "EDGE_WEAR", <<0, 8, 1, 12>>, 70)>>,
             BACK |-> <<>>,
             INNER |-> <<Box("doodle", "WRITING", <<2, 2, 4, 4>>, 50)>>]]

Worn == [books |-> [FRONT |-> {Whole}, BACK |-> {Whole}, INNER |-> {}],
         detections |-> [
             FRONT |-> <<Box("physical", "GENERAL_STAIN", <<2, 2, 8, 8>>, 80)>>,
             BACK |-> <<>>,
             INNER |-> <<>>]]

Books == {Clean, Torn, Worn}

Finding(type, bbox, confidence) ==
    [type |-> type, bbox |-> bbox, confidence |-> confidence,
     text_overlap |-> FALSE, morphology_severe |-> FALSE]

Readings == { <<>>,
              <<Finding("WRITING", <<1, 1, 4, 4>>, 90)>>,
              <<[Finding("LIBRARY_STAMP", <<1, 1, 4, 4>>, 90) EXCEPT !.text_overlap = TRUE],
                Finding("SPINE_CRACKING", <<5, 1, 9, 6>>, 90)>>,
              <<Finding("WATER_DAMAGE", <<1, 1, 4, 4>>, 90)>>,
              <<Finding("BARCODE_DAMAGE", <<1, 1, 4, 4>>, 90),
                Finding("PAGE_WARPING", <<5, 5, 9, 9>>, 90)>>,
              <<Finding("GENERAL_STAIN", <<1, 1, 6, 3>>, 90),
                Finding("GENERAL_STAIN", <<4, 1, 9, 3>>, 90),
                Finding("GENERAL_STAIN", <<1, 1, 9, 3>>, 95)>> }

Review(decision, confidence, printed) ==
    [decision |-> decision, confidence |-> confidence, printed |-> printed]

Verdict == { Review("CONFIRMED", 90, FALSE), Review("CONFIRMED", 50, TRUE),
             Review("REJECTED", 90, FALSE), Review("UNCERTAIN", 90, FALSE) }

Impression(quality, missed, confidence) ==
    [quality |-> quality, missed |-> missed, confidence |-> confidence]

Seen == { Impression(TRUE, FALSE, 90), Impression(TRUE, FALSE, 50),
          Impression(TRUE, TRUE, 90), Impression(FALSE, FALSE, 90) }
=============================================================================
