-------------------------- MODULE NumbersInvariant --------------------------
(***************************************************************************)
(* The inductive invariant of the employee numbers: what an upload has     *)
(* read under its locks is what the accounts still say, up to single       *)
(* creations.                                                              *)
(***************************************************************************)
EXTENDS Accounts

\* Numbers have the digits the code gives them, and nobody shares one.
NumbersFit == \A e \in employees : e.sequence \in 1..MaxSequence
NumbersAreUnique ==
    \A d, e \in employees : d.month = e.month /\ d.sequence = e.sequence => d = e

\* A single creation has computed a number within the limit, an upload one
\* that leaves room for all its rows, for the months it has locked.
JobFits(j) ==
    /\ j.step = "single" => j.sequence \in 1..MaxSequence
    /\ j.step = "upload" =>
         /\ j = [step |-> "upload", rows |-> j.rows, base |-> j.base, upload |-> j.upload]
         /\ j.rows \in Seq(Person)
         /\ \A m \in DOMAIN j.base : j.base[m] \in Nat
                                     /\ j.base[m] + Joining(j.rows, m) <= MaxSequence

\* A month is locked by one upload.
MonthsExclude ==
    \A g, h \in Handlers : g # h /\ Uploading(g) /\ Uploading(h) =>
        DOMAIN job[g].base \cap DOMAIN job[h].base = {}

NumbersInvariant ==
    /\ job = [h \in Handlers |-> job[h]]
    /\ \A h \in Handlers : JobFits(job[h])
    /\ MonthsExclude
    /\ NumbersFit /\ NumbersAreUnique /\ UploadsDoNotCollide
=============================================================================
