------------------------------ MODULE Quorums ------------------------------
(***************************************************************************)
(* The quorum sizes Trebiz derives from the size of the cluster and from   *)
(* the number of Byzantine generals (bg), active (abm) and passive (pbm)   *)
(* Byzantine merchants in the configuration template.  The generator       *)
(* config_gen/main.go writes some of them into the node configurations,    *)
(* core/node.go and core/core.go compute the others on their own.          *)
(***************************************************************************)
EXTENDS Integers

\* Mutant: the division is rounded up, as math.Ceil suggests.
F_Ceil(n) == (n + 2) \div 3

\* n.f in NewNode: int(math.Ceil(float64(replicaCount)) / 3.0) truncates, so
\* it is N/3 rounded down for every N and not (N-1)/3.
F(n) == n \div 3

\* The number of partial signatures a PrepareQc or a CommitQc is made from.
SlowQuorum(n) == 2 * F(n) + 1

\* Mutant: one share more than are collected.
TsThreshold_OneMore(n) == n - n \div 3 + 1

\* The threshold of the slow-path key: sign.GenTSKeys(numT, TotalNodeNum).
\* tbls.Recover interpolates SlowQuorum shares of a polynomial that TsThreshold
\* shares determine: with fewer the signature does not verify.
TsThreshold(n) == n - n \div 3

\* Mutant: all passive merchants are taken off, not half of them.
FastQuorum_AllMerchants(n, abm, pbm) == n - abm - pbm

\* The threshold of the fast-path key, and n.fastQcQuorum.
FastQuorum(n, abm, pbm) == n - abm - pbm \div 2

\* Mutant: the factor 2 of 2f+1 is missing.
ViewChangeQuorum_Weak(n, abm, pbm) == n \div 3 + 1 + abm + pbm

\* n.viewChangeQuorum.
ViewChangeQuorum(n, abm, pbm) == 2 * (n \div 3) + 1 + abm + pbm

\* Mutant: the f Byzantine replicas are forgotten.
PrePrepareSubsetCount_NoF(n, pbm) == 1 + (pbm + 1) \div 2

\* n.prePrepareSubsetCount: how many reports of the same pre-prepare make the
\* new primary propose it again.
PrePrepareSubsetCount(n, pbm) == n \div 3 + 1 + (pbm + 1) \div 2

\* Matching checkpoints that make a checkpoint stable.  The Go expression
\* math.Ceil(float64(2*(len(n.clusterAddr))/3.0))+1 divides integers.
CheckpointQuorum(n) == (2 * n) \div 3 + 1

\* The configurations config_gen does not refuse.
AcceptedConfig(n, bg, abm, pbm) == bg + abm + pbm <= n \div 3
=============================================================================
