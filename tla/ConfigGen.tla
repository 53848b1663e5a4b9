----------------------------- MODULE ConfigGen -----------------------------
(***************************************************************************)
(* The configuration generator (config_gen/main.go): from the number of    *)
(* addresses and of Byzantine replicas of each kind in the template it     *)
(* derives the key thresholds and the quorums, picks the replicas that     *)
(* will play Byzantine, and writes one file per replica.  The files differ *)
(* in the keys and the node type only, so that one record stands for all.  *)
(* A behaviour is one run of main.                                         *)
(***************************************************************************)
EXTENDS Quorums, FiniteSetsExt

CONSTANTS
    ClusterSizes,  \* the numbers of addresses that a template may list
    Unset          \* no configuration has been written yet

ASSUME SizeAssumption == ClusterSizes \subseteq Nat \ {0}

VARIABLE conf      \* what the configuration files contain

\* generateRandomNumber(1, n, count) for one kind; taken holds the kinds before.
\* The first primary is never picked.
EvilNodes(n, count, taken) == kSubset(count, (1..n-1) \ taken)

\* main panics on a template with too many Byzantine replicas and writes nothing.
generate(n, bg, abm, pbm) ==
    /\ conf = Unset /\ AcceptedConfig(n, bg, abm, pbm)
    /\ \E bgnodes \in EvilNodes(n, bg, {}) :
       \E abmnodes \in EvilNodes(n, abm, bgnodes) :
       \E pbmnodes \in EvilNodes(n, pbm, bgnodes \cup abmnodes) :
         conf' = [n |-> n, bgnodes |-> bgnodes, abmnodes |-> abmnodes,
                  pbmnodes |-> pbmnodes, numT |-> TsThreshold(n),
                  fastqcquorum |-> FastQuorum(n, abm, pbm),
                  viewChangeQuorum |-> ViewChangeQuorum(n, abm, pbm),
                  prePrepareSubsetCount |-> PrePrepareSubsetCount(n, pbm)]

Init == conf = Unset

Next == \E n \in ClusterSizes : \E bg, abm, pbm \in 0..n :
            generate(n, bg, abm, pbm)

Spec == Init /\ [][Next]_conf
-----------------------------------------------------------------------------
(***************************************************************************)
(* Properties of the quorums, over whatever configuration is written.      *)
(***************************************************************************)
Evil(c) == c.bgnodes \cup c.abmnodes \cup c.pbmnodes

Honest(c) == (0..c.n-1) \ Evil(c)

\* In a cluster of 3f+1 the correct replicas alone can make a slow certificate
\* and a stable checkpoint, the certificate verifies under the generated key, and
\* two certificates have a correct signer in common (checkIfPrepareQc,
\* handleCommitVote, recvCheckpoint against numT).
SlowPathSound ==
    conf # Unset /\ conf.n % 3 = 1 =>
        /\ Cardinality(Honest(conf)) >= SlowQuorum(conf.n)
        /\ Cardinality(Honest(conf)) >= CheckpointQuorum(conf.n)
        /\ SlowQuorum(conf.n) >= conf.numT
        /\ 2 * SlowQuorum(conf.n) - conf.n > Cardinality(Evil(conf))

\* A batch that a fast certificate was made for is reported often enough: among
\* any viewChangeQuorum reports, those of its voters, less f that lie, reach
\* prePrepareSubsetCount (fastNum, viewChangeQuorum, assignSequenceNumbers).
FastBatchReproposed ==
    conf # Unset =>
        conf.fastqcquorum + conf.viewChangeQuorum - conf.n - F(conf.n)
            >= conf.prePrepareSubsetCount

\* No other batch is: those that did not vote for it and the Byzantine generals
\* together stay below prePrepareSubsetCount.
FastBatchUnrivalled ==
    conf # Unset =>
        conf.n - conf.fastqcquorum + Cardinality(conf.bgnodes)
            < conf.prePrepareSubsetCount

\* In a cluster of 3f+1 any viewChangeQuorum reports include one by a correct
\* replica that took part in a given slow certificate.
SlowBatchReported ==
    conf # Unset /\ conf.n % 3 = 1 =>
        SlowQuorum(conf.n) + conf.viewChangeQuorum - conf.n
            > Cardinality(Evil(conf))

\* Slow certificates, which core/core.go makes of 2f+1 shares, verify under the
\* key of the generator in all clusters but those of 3f+2, where they never do.
SlowKeyFits ==
    conf # Unset => (SlowQuorum(conf.n) >= conf.numT <=> conf.n % 3 # 2)
=============================================================================
