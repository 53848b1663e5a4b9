---------------------------- MODULE QuorumProofs ----------------------------
(***************************************************************************)
(* The quorums of every configuration that the generator writes, for every *)
(* size of the cluster and every accepted number of Byzantine replicas.    *)
(***************************************************************************)
EXTENDS ConfigGen, FiniteSetTheorems, TLAPS

\* What generate writes: the node types are disjoint sets of backups, at most f
\* in all, and the quorums are computed from their sizes.
ConfigOK(c) ==
    \E n \in ClusterSizes, bg, abm, pbm \in Nat :
        /\ bg + abm + pbm <= n \div 3
        /\ c.n = n
        /\ IsFiniteSet(Evil(c)) /\ Evil(c) \subseteq 1..n-1
        /\ Cardinality(c.bgnodes) = bg
        /\ Cardinality(Evil(c)) = bg + abm + pbm
        /\ c.numT = n - n \div 3
        /\ c.fastqcquorum = n - abm - pbm \div 2
        /\ c.viewChangeQuorum = 2 * (n \div 3) + 1 + abm + pbm
        /\ c.prePrepareSubsetCount = n \div 3 + 1 + (pbm + 1) \div 2

\* The inductive invariant: a written configuration has that form.
Inv == conf # Unset => ConfigOK(conf)

\* Every configuration that is ever written has the form ConfigOK.
THEOREM Generated == Spec => []Inv
<1>1. Init => Inv
  BY DEF Init, Inv
<1>2. Inv /\ [Next]_conf => Inv'
  <2> SUFFICES ASSUME Inv, [Next]_conf PROVE Inv'
    OBVIOUS
  <2>1. CASE UNCHANGED conf
    BY <2>1 DEF Inv
  <2>2. CASE Next
    <3>1. PICK n \in ClusterSizes : \E bg, abm, pbm \in 0..n :
             generate(n, bg, abm, pbm)
      BY <2>2 DEF Next
    <3>2. PICK bg \in 0..n, abm \in 0..n, pbm \in 0..n :
             generate(n, bg, abm, pbm)
      BY <3>1
    <3> DEFINE Written(A, B, C) ==
                 [n |-> n, bgnodes |-> A, abmnodes |-> B, pbmnodes |-> C,
                  numT |-> TsThreshold(n),
                  fastqcquorum |-> FastQuorum(n, abm, pbm),
                  viewChangeQuorum |-> ViewChangeQuorum(n, abm, pbm),
                  prePrepareSubsetCount |-> PrePrepareSubsetCount(n, pbm)]
    <3>3. PICK A \in EvilNodes(n, bg, {}) :
             \E B \in EvilNodes(n, abm, A) :
             \E C \in EvilNodes(n, pbm, A \cup B) : conf' = Written(A, B, C)
      BY <3>2 DEF generate
    <3>4. PICK B \in EvilNodes(n, abm, A) :
             \E C \in EvilNodes(n, pbm, A \cup B) : conf' = Written(A, B, C)
      BY <3>3
    <3>5. PICK C \in EvilNodes(n, pbm, A \cup B) : conf' = Written(A, B, C)
      BY <3>4
    <3>6. n \in Nat /\ bg \in Nat /\ abm \in Nat /\ pbm \in Nat
      BY SizeAssumption
    <3>7. bg + abm + pbm <= n \div 3
      BY <3>2 DEF generate, AcceptedConfig
    <3>8. Evil(conf') = A \cup B \cup C /\ conf'.n = n /\ conf'.bgnodes = A
      BY <3>5 DEF Evil
    <3>9. /\ conf'.numT = n - n \div 3
          /\ conf'.fastqcquorum = n - abm - pbm \div 2
          /\ conf'.viewChangeQuorum = 2 * (n \div 3) + 1 + abm + pbm
          /\ conf'.prePrepareSubsetCount = n \div 3 + 1 + (pbm + 1) \div 2
      BY <3>5 DEF TsThreshold, FastQuorum, ViewChangeQuorum, PrePrepareSubsetCount
    <3>10. /\ A \subseteq 1..n-1 /\ B \subseteq (1..n-1) \ A
          /\ C \subseteq (1..n-1) \ (A \cup B)
          /\ Cardinality(A) = bg /\ Cardinality(B) = abm /\ Cardinality(C) = pbm
      BY DEF EvilNodes, kSubset
    <3>11. IsFiniteSet(1..n-1)
      BY <3>6, FS_Interval
    <3>12. /\ IsFiniteSet(A \cup B \cup C)
           /\ A \cup B \cup C \subseteq 1..n-1
           /\ Cardinality(A \cup B \cup C) =
                Cardinality(A) + Cardinality(B) + Cardinality(C)
      <4>1. IsFiniteSet(A) /\ IsFiniteSet(B) /\ IsFiniteSet(C)
        <5>1. A \subseteq 1..n-1 /\ B \subseteq 1..n-1 /\ C \subseteq 1..n-1
          BY <3>10
        <5> QED BY <5>1, <3>11, FS_Subset
      <4>2. /\ IsFiniteSet(A \cup B)
            /\ Cardinality(A \cup B) =
                 Cardinality(A) + Cardinality(B) - Cardinality(A \cap B)
        BY <4>1, FS_Union
      <4>3. /\ IsFiniteSet((A \cup B) \cup C)
            /\ Cardinality((A \cup B) \cup C) =
                 Cardinality(A \cup B) + Cardinality(C)
                   - Cardinality((A \cup B) \cap C)
        BY <4>1, <4>2, FS_Union
      <4>4. A \cap B = {} /\ (A \cup B) \cap C = {}
        BY <3>10
      <4>5. Cardinality(A \cap B) = 0 /\ Cardinality((A \cup B) \cap C) = 0
        BY <4>4, FS_EmptySet
      <4>6. /\ Cardinality(A) \in Nat /\ Cardinality(B) \in Nat
            /\ Cardinality(C) \in Nat
        BY <4>1, FS_CardinalityType
      <4>7. Cardinality((A \cup B) \cup C) =
              Cardinality(A) + Cardinality(B) + Cardinality(C)
        BY <4>2, <4>3, <4>5, <4>6
      <4>8. A \cup B \cup C \subseteq 1..n-1
        BY <3>10
      <4> QED BY <4>3, <4>7, <4>8
    <3>13. ConfigOK(conf')
      <4>1. /\ IsFiniteSet(Evil(conf')) /\ Evil(conf') \subseteq 1..n-1
            /\ Cardinality(conf'.bgnodes) = bg
            /\ Cardinality(Evil(conf')) = bg + abm + pbm
        BY <3>8, <3>10, <3>12
      <4> QED BY <3>6, <3>7, <3>8, <3>9, <4>1 DEF ConfigOK
    <3> QED BY <3>13 DEF Inv, ConfigOK, Evil
  <2> QED BY <2>1, <2>2
<1> QED BY <1>1, <1>2, PTL DEF Spec

\* Half of a natural number, rounded down and up, adds up to it.
LEMMA Halves ==
    ASSUME NEW p \in Nat
    PROVE  p \div 2 \in Nat /\ (p + 1) \div 2 \in Nat /\ p \div 2 + (p + 1) \div 2 = p
  OBVIOUS

\* Two thirds of 3f+1, rounded down, is 2f.
LEMMA Thirds ==
    ASSUME NEW n \in Nat, n % 3 = 1
    PROVE  /\ n \div 3 \in Nat /\ n = 3 * (n \div 3) + 1
           /\ (2 * n) \div 3 = 2 * (n \div 3)
  OBVIOUS

\* The correct replicas of a configuration are those that are not Byzantine.
LEMMA HonestCount ==
    ASSUME NEW c, NEW n \in Nat \ {0}, c.n = n, IsFiniteSet(Evil(c)),
           Evil(c) \subseteq 1..n-1
    PROVE  Cardinality(Honest(c)) = n - Cardinality(Evil(c))
<1>1. IsFiniteSet(0..n-1) /\ Cardinality(0..n-1) = n
  BY FS_Interval
<1>2. Evil(c) \subseteq 0..n-1
  OBVIOUS
<1>3. (0..n-1) \cap Evil(c) = Evil(c)
  BY <1>2
<1>4. Cardinality((0..n-1) \ Evil(c)) = Cardinality(0..n-1) - Cardinality((0..n-1) \cap Evil(c))
  BY <1>1, FS_Difference
<1>5. Cardinality(Evil(c)) \in Nat
  BY FS_CardinalityType
<1> QED BY <1>1, <1>3, <1>4, <1>5 DEF Honest

\* In every cluster of 3f+1 the slow path of core/core.go works under the keys the
\* generator made: correct replicas suffice and certificates cannot conflict.
THEOREM SlowPath == Spec => []SlowPathSound
<1>1. Inv => SlowPathSound
  <2> SUFFICES ASSUME Inv, conf # Unset, conf.n % 3 = 1
               PROVE  /\ Cardinality(Honest(conf)) >= SlowQuorum(conf.n)
                      /\ Cardinality(Honest(conf)) >= CheckpointQuorum(conf.n)
                      /\ SlowQuorum(conf.n) >= conf.numT
                      /\ 2 * SlowQuorum(conf.n) - conf.n > Cardinality(Evil(conf))
    BY DEF SlowPathSound
  <2>1. PICK n \in ClusterSizes, bg \in Nat, abm \in Nat, pbm \in Nat :
          /\ bg + abm + pbm <= n \div 3
          /\ conf.n = n
          /\ IsFiniteSet(Evil(conf)) /\ Evil(conf) \subseteq 1..n-1
          /\ Cardinality(Evil(conf)) = bg + abm + pbm
          /\ conf.numT = n - n \div 3
    BY DEF Inv, ConfigOK
  <2>2. n \in Nat \ {0}
    BY SizeAssumption
  <2>3. /\ n \div 3 \in Nat /\ n = 3 * (n \div 3) + 1
        /\ (2 * n) \div 3 = 2 * (n \div 3)
    BY <2>1, <2>2, Thirds
  <2>4. Cardinality(Honest(conf)) = n - Cardinality(Evil(conf))
    BY <2>1, <2>2, HonestCount
  <2> DEFINE f == n \div 3
             e == bg + abm + pbm
  <2>5. f \in Nat /\ e \in Nat /\ e <= f /\ n = 3 * f + 1
    BY <2>1, <2>2, <2>3
  <2>6. SlowQuorum(conf.n) = 2 * f + 1 /\ CheckpointQuorum(conf.n) = 2 * f + 1
    BY <2>1, <2>3 DEF SlowQuorum, CheckpointQuorum, F
  <2>7. conf.n = n /\ conf.numT = n - f /\ Cardinality(Evil(conf)) = e
    BY <2>1
  <2> HIDE DEF f, e
  <2> QED BY <2>2, <2>4, <2>5, <2>6, <2>7
<1> QED BY <1>1, Generated, PTL

\* Slow certificates verify in exactly the clusters whose size is not 3f+2, up to
\* any size (numT in config_gen/main.go against 2*n.f+1 in core/core.go).
THEOREM SlowKey == Spec => []SlowKeyFits
<1>1. Inv => SlowKeyFits
  <2> SUFFICES ASSUME Inv, conf # Unset
               PROVE  SlowQuorum(conf.n) >= conf.numT <=> conf.n % 3 # 2
    BY DEF SlowKeyFits
  <2>1. PICK n \in ClusterSizes : conf.n = n /\ conf.numT = n - n \div 3
    BY DEF Inv, ConfigOK
  <2>2. n \in Nat
    BY SizeAssumption
  <2>3. n \div 3 \in Nat /\ n % 3 \in 0..2 /\ n = 3 * (n \div 3) + (n % 3)
    BY <2>2
  <2>4. SlowQuorum(conf.n) = 2 * (n \div 3) + 1
    BY <2>1 DEF SlowQuorum, F
  <2> DEFINE f == n \div 3
             rest == n % 3
  <2>5. /\ f \in Nat /\ rest \in 0..2 /\ n = 3 * f + rest
        /\ SlowQuorum(conf.n) = 2 * f + 1 /\ conf.numT = n - f
        /\ conf.n % 3 = rest
    BY <2>1, <2>3, <2>4
  <2> HIDE DEF f, rest
  <2> QED BY <2>2, <2>5
<1> QED BY <1>1, Generated, PTL

\* The batch of a fast certificate reaches prePrepareSubsetCount in any view
\* change, whatever the size of the cluster: fastNum, viewChangeQuorum and
\* prePrepareSubsetCount fit together exactly.
THEOREM FastReproposed == Spec => []FastBatchReproposed
<1>1. Inv => FastBatchReproposed
  <2> SUFFICES ASSUME Inv, conf # Unset
               PROVE  conf.fastqcquorum + conf.viewChangeQuorum - conf.n - F(conf.n)
                        >= conf.prePrepareSubsetCount
    BY DEF FastBatchReproposed
  <2>1. PICK n \in ClusterSizes, bg \in Nat, abm \in Nat, pbm \in Nat :
          /\ conf.n = n
          /\ conf.fastqcquorum = n - abm - pbm \div 2
          /\ conf.viewChangeQuorum = 2 * (n \div 3) + 1 + abm + pbm
          /\ conf.prePrepareSubsetCount = n \div 3 + 1 + (pbm + 1) \div 2
    BY DEF Inv, ConfigOK
  <2>2. n \in Nat /\ abm \in Nat /\ pbm \in Nat /\ n \div 3 \in Nat
    BY SizeAssumption
  <2>3. /\ pbm \div 2 \in Nat /\ (pbm + 1) \div 2 \in Nat
        /\ pbm \div 2 + (pbm + 1) \div 2 = pbm
    BY <2>2, Halves
  <2>4. F(conf.n) = n \div 3
    BY <2>1 DEF F
  <2> DEFINE f == n \div 3
             lo == pbm \div 2
             hi == (pbm + 1) \div 2
  <2>5. f \in Nat /\ lo \in Nat /\ hi \in Nat /\ lo + hi = pbm
    BY <2>2, <2>3
  <2>6. /\ conf.n = n /\ F(conf.n) = f /\ conf.fastqcquorum = n - abm - lo
        /\ conf.viewChangeQuorum = 2 * f + 1 + abm + pbm
        /\ conf.prePrepareSubsetCount = f + 1 + hi
    BY <2>1, <2>4
  <2> HIDE DEF f, lo, hi
  <2> QED BY <2>2, <2>5, <2>6
<1> QED BY <1>1, Generated, PTL

\* In every accepted configuration the replicas that could report another batch
\* than the one of a fast certificate are too few to have it proposed again.
THEOREM FastUnrivalled == Spec => []FastBatchUnrivalled
<1>1. Inv => FastBatchUnrivalled
  <2> SUFFICES ASSUME Inv, conf # Unset
               PROVE  conf.n - conf.fastqcquorum + Cardinality(conf.bgnodes)
                        < conf.prePrepareSubsetCount
    BY DEF FastBatchUnrivalled
  <2>1. PICK n \in ClusterSizes, bg \in Nat, abm \in Nat, pbm \in Nat :
          /\ bg + abm + pbm <= n \div 3
          /\ conf.n = n
          /\ Cardinality(conf.bgnodes) = bg
          /\ conf.fastqcquorum = n - abm - pbm \div 2
          /\ conf.prePrepareSubsetCount = n \div 3 + 1 + (pbm + 1) \div 2
    BY DEF Inv, ConfigOK
  <2>2. /\ n \in Nat /\ bg \in Nat /\ abm \in Nat /\ pbm \in Nat
        /\ n \div 3 \in Nat
    BY SizeAssumption
  <2>3. /\ pbm \div 2 \in Nat /\ (pbm + 1) \div 2 \in Nat
        /\ pbm \div 2 + (pbm + 1) \div 2 = pbm
    BY <2>2, Halves
  <2> DEFINE f == n \div 3
             lo == pbm \div 2
             hi == (pbm + 1) \div 2
  <2>4. f \in Nat /\ lo \in Nat /\ hi \in Nat /\ lo + hi = pbm
    BY <2>2, <2>3
  <2>5. /\ bg + abm + pbm <= f
        /\ conf.n = n /\ conf.fastqcquorum = n - abm - lo
        /\ conf.prePrepareSubsetCount = f + 1 + hi
        /\ Cardinality(conf.bgnodes) = bg
    BY <2>1
  <2> HIDE DEF f, lo, hi
  <2> QED BY <2>2, <2>4, <2>5
<1> QED BY <1>1, Generated, PTL

\* In every cluster of 3f+1 the reports of a view change include one by a correct
\* signer of any slow certificate (viewChangeQuorum against checkIfPrepareQc).
THEOREM SlowReported == Spec => []SlowBatchReported
<1>1. Inv => SlowBatchReported
  <2> SUFFICES ASSUME Inv, conf # Unset, conf.n % 3 = 1
               PROVE  SlowQuorum(conf.n) + conf.viewChangeQuorum - conf.n
                        > Cardinality(Evil(conf))
    BY DEF SlowBatchReported
  <2>1. PICK n \in ClusterSizes, bg \in Nat, abm \in Nat, pbm \in Nat :
          /\ bg + abm + pbm <= n \div 3
          /\ conf.n = n
          /\ Cardinality(Evil(conf)) = bg + abm + pbm
          /\ conf.viewChangeQuorum = 2 * (n \div 3) + 1 + abm + pbm
    BY DEF Inv, ConfigOK
  <2>2. n \in Nat
    BY SizeAssumption
  <2>3. n \div 3 \in Nat /\ n = 3 * (n \div 3) + 1
    BY <2>1, <2>2, Thirds
  <2> DEFINE f == n \div 3
             e == bg + abm + pbm
  <2>4. f \in Nat /\ e \in Nat /\ e <= f /\ n = 3 * f + 1
    BY <2>1, <2>3
  <2>5. SlowQuorum(conf.n) = 2 * f + 1
    BY <2>1 DEF SlowQuorum, F
  <2>6. /\ conf.n = n /\ Cardinality(Evil(conf)) = e
        /\ conf.viewChangeQuorum = 2 * f + 1 + abm + pbm
    BY <2>1
  <2> HIDE DEF f, e
  <2> QED BY <2>1, <2>2, <2>4, <2>5, <2>6
<1> QED BY <1>1, Generated, PTL
=============================================================================
