---------------------------- MODULE MCNormalCase ----------------------------
(***************************************************************************)
(* Instances of NormalCase for TLC.                                        *)
(***************************************************************************)
EXTENDS NormalCase

\* Every batch but the phantom, which a faulty backup votes for, reaches the
\* pool of the first primary.
PrimaryHolds == [b \in Batches |-> IF b = "phantom" THEN 3 ELSE 0]

\* Faulty replicas that have crashed.
Silent == {}

BatchSymmetry == Permutations(Batches)

InViewZero(M) == {m \in M : m.from \in Faulty /\ m.view = 0 /\ m.digest # Nil}

\* A primary that proposes different batches to different replicas and sends
\* each of them every certificate it can assemble.
Equivocating ==
    LET qcs == {m \in InViewZero(PrepareQc) : m.stamp = "handler"}
    IN  Correct \X (InViewZero(PrePrepareMsg \cup FastPrepareQc) \cup qcs
                    \cup [type : {"CommitQc"}, from : Faulty, vote : qcs])

\* A backup that votes for any batch before, with and after the others.
DoubleVoting ==
    LET qcs == {m \in PrepareQc : m.from = 0 /\ m.view = 0 /\ m.digest # Nil}
    IN  {0} \X (InViewZero(PrepareMsg)
                \cup [type : {"Commit"}, from : Faulty, vote : qcs])

\* The part of a correct backup that matters to a slow replica 2: its vote and
\* the checkpoint it sends there.
Following ==
    ({0} \X {m \in InViewZero(PrepareMsg) : m.digest # "phantom"})
    \cup ({2} \X [type : {"Checkpoint"}, from : Faulty, sn : SNs])
=============================================================================
