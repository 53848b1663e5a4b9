-------------------------- MODULE NormalCaseProofs --------------------------
(***************************************************************************)
(* Theorems about NormalCase, for every cluster of 3f+1 replicas with at   *)
(* most f faulty ones, every set of batches and messages that the faulty   *)
(* ones may send, and every value of the other constants.                  *)
(*                                                                         *)
(* They follow from one inductive invariant, Inv: the variables have their *)
(* types, what replicas count, hold and send is backed by votes (VotesOK), *)
(* and the checkpoints they have stored were sent by replicas that have    *)
(* executed as much (CheckpointsOK).  The last section adds PanicFree to   *)
(* it: what replicas vote for, the first primary has a timer for.          *)
(***************************************************************************)
EXTENDS NormalCaseHandlers

\* All votes of the cluster; a faulty replica may have signed anything.
Ballots ==
    (Faulty \X (Ids \X Digests)) \cup
    {v \in Correct \X (Ids \X Digests) : v[2] \in node[v[1]].signed}

VotesOK == /\ \A r \in Correct : Sound(node[r], Ballots)
           /\ \A x \in net : MsgSound(x[2], Ballots)

Executed(q, sn) == sn % T = 0 /\ node[q].lastExec >= sn

StoreOK(n) ==
    /\ \A sn \in SNs : \A q \in n.checkpointStore[sn] \cap Correct :
         Executed(q, sn)
    /\ n.h > 0 =>
         Cardinality(n.checkpointStore[n.h]) >= CheckpointQuorum(N)

CheckpointsOK ==
    /\ \A r \in Correct : StoreOK(node[r])
    /\ \A x \in net : x[2].type = "Checkpoint" /\ x[2].from \in Correct
                        => Executed(x[2].from, x[2].sn)

Inv == TypeOK /\ VotesOK /\ CheckpointsOK
-----------------------------------------------------------------------------
\* What a replica takes from its inbox is a message of the type it asked for.
LEMMA InboxType ==
    ASSUME TypeOK, NEW r \in Replicas, NEW type, NEW m \in Inbox(r, type)
    PROVE  m \in Message /\ m.type = type
BY ForgeableAssumption DEF Inbox, TypeOK, Forged

\* The same for every case of the switch in StartPBFT.
LEMMA InboxTypes ==
    ASSUME TypeOK, NEW r \in Replicas
    PROVE  /\ Inbox(r, "PrePrepare") \subseteq PrePrepareMsg
           /\ Inbox(r, "Prepare") \subseteq PrepareMsg
           /\ Inbox(r, "PrepareQc") \subseteq PrepareQc
           /\ Inbox(r, "FastPrepareQc") \subseteq FastPrepareQc
           /\ Inbox(r, "Commit") \subseteq CommitMsg
           /\ Inbox(r, "CommitQc") \subseteq CommitQc
           /\ Inbox(r, "Checkpoint") \subseteq CheckpointMsg
BY InboxType DEF Message, PrePrepareMsg, PrepareMsg, PrepareQc, FastPrepareQc,
                 CommitMsg, CommitQc, CheckpointMsg, ViewChangeMsg

\* There are N replicas.
LEMMA ReplicasFinite == IsFiniteSet(Replicas) /\ Cardinality(Replicas) = N
<1>1. 0 \in Int /\ N - 1 \in Int /\ N \in Nat /\ N > 0
  BY ClusterAssumption
<1>2. IsFiniteSet(Replicas)
  BY <1>1, FS_Interval DEF Replicas
<1>3. Cardinality(Replicas) = (N - 1) - 0 + 1
  BY <1>1, FS_Interval DEF Replicas
<1> QED  BY <1>1, <1>2, <1>3

\* A replica's own votes are among the ballots.
LEMMA OwnVotes ==
    ASSUME TypeOK, NEW r \in Correct
    PROVE  Votes(node[r], Ballots) = Ballots
<1>1. node[r] \in Node /\ node[r].replicaId = r
  BY DEF TypeOK, Correct
<1>2. node[r].signed \subseteq Ids \X Digests
  BY <1>1 DEF Node
<1> QED  BY <1>1, <1>2 DEF Votes, Ballots

\* Those who can sign a certificate are those who have voted for it.
LEMMA PrepareSignersAreVoters ==
    ASSUME NEW id \in Ids, NEW d \in Digests
    PROVE  PrepareSigners(id, d) = Voters(Ballots, id, d)
BY ClusterAssumption DEF PrepareSigners, Voters, Ballots, Correct

\* Whatever a replica takes from its inbox is sound: what correct replicas
\* sent by VotesOK, what faulty ones send because they cannot sign for others.
LEMMA InboxSound ==
    ASSUME TypeOK, VotesOK, NEW r \in Replicas, NEW type, NEW m \in Inbox(r, type)
    PROVE  MsgSound(m, Ballots)
<1>1. PICK x \in net \cup Forged : x[2] = m
  BY DEF Inbox
<1>2. CASE x \in net
  BY <1>1, <1>2 DEF VotesOK
<1>3. CASE x \in Forged
  <2>1. Signable(m) /\ m \in Message /\ m.from \in Faulty
    BY <1>1, <1>3, ForgeableAssumption DEF Forged
  <2>2. ASSUME m.type = "Prepare"
        PROVE  <<m.from, <<<<m.sn, m.view>>, m.digest>>>> \in Ballots
    <3>1. m \in PrepareMsg
      BY <2>1, <2>2 DEF Message, PrePrepareMsg, PrepareMsg, PrepareQc,
         FastPrepareQc, CommitMsg, CommitQc, CheckpointMsg, ViewChangeMsg
    <3>2. <<<<m.sn, m.view>>, m.digest>> \in Ids \X Digests
      BY <3>1 DEF PrepareMsg, Ids
    <3> QED  BY <2>1, <3>2 DEF Ballots
  <2>3. ASSUME m.type \in {"PrepareQc", "FastPrepareQc"}
        PROVE  QcSound(m, Ballots)
    <3> DEFINE id == <<m.sn, m.view>>
    <3>1. m \in PrepareQc \cup FastPrepareQc
      BY <2>1, <2>3 DEF Message, PrePrepareMsg, PrepareMsg, PrepareQc,
         FastPrepareQc, CommitMsg, CommitQc, CheckpointMsg, ViewChangeMsg
    <3>2. id \in Ids /\ m.digest \in Digests
      BY <3>1 DEF PrepareQc, FastPrepareQc, Ids
    <3>3. Cardinality(PrepareSigners(id, m.digest)) >= SlowQuorum(N)
          \/ Cardinality(PrepareSigners(id, m.digest)) >= FastQuorum(N, Abm, Pbm)
      BY <2>1, <2>3 DEF Signable
    <3>4. Cardinality(PrepareSigners(id, m.digest)) \in Nat
      BY <3>2, PrepareSignersAreVoters, ReplicasFinite, FS_Subset,
         FS_CardinalityType DEF Voters
    <3>5. Cardinality(PrepareSigners(id, m.digest)) >= SlowQuorum(N)
      BY <3>3, <3>4, QuorumSizes
    <3> QED  BY <3>2, <3>5, PrepareSignersAreVoters DEF QcSound, Backed
  <2> QED  BY <2>2, <2>3 DEF MsgSound
<1> QED  BY <1>2, <1>3

\* What the others sign does a node no harm.
LEMMA SoundMore ==
    ASSUME NEW n, NEW V, NEW V2, V \subseteq V2, Sound(n, V)
    PROVE  Sound(n, V2)
<1>1. Votes(n, V) \subseteq Votes(n, V2)
  BY DEF Votes
<1> QED  BY <1>1, SoundMono, BackedMono DEF Sound
-----------------------------------------------------------------------------
(***************************************************************************)
(* Steps: if a handler of a correct replica returns a good node, the next  *)
(* state is good.                                                          *)
(***************************************************************************)
LEMMA StepType ==
    ASSUME TypeOK, NEW r \in Correct, NEW n \in Node, n.replicaId = r,
           NEW received, Step(r, n, received)
    PROVE  /\ node' \in [Replicas -> Node]
           /\ \A q \in Replicas : /\ node'[q].replicaId = q /\ node'[q].out = {}
                                  /\ node'[q].currenView < MaxView
           /\ net' \subseteq Correct \X Message
<1> DEFINE n1 == [n EXCEPT !.out = {}]
<1>1. n1 \in Node /\ n1.replicaId = r /\ n1.out = {} /\ n1.currenView < MaxView
  BY DEF Node, Step
<1>2. node' = [node EXCEPT ![r] = n1]
  BY DEF Step
<1>3. r \in Replicas
  BY DEF Correct
<1> HIDE DEF n1
<1>4. /\ node' \in [Replicas -> Node]
      /\ \A q \in Replicas : /\ node'[q].replicaId = q /\ node'[q].out = {}
                             /\ node'[q].currenView < MaxView
  BY <1>1, <1>2, <1>3 DEF TypeOK
<1>5. net' \subseteq Correct \X Message
  <2>1. PICK sent \in SUBSET n.out :
             net' = (net \ ({r} \X received)) \cup
                    UNION {(p[1] \cap Correct) \X {p[2]} : p \in sent}
    BY DEF Step
  <2>2. \A p \in sent : p[2] \in Message
    BY DEF Node
  <2>3. UNION {(p[1] \cap Correct) \X {p[2]} : p \in sent}
          \subseteq Correct \X Message
    BY <2>2
  <2> QED  BY <2>1, <2>3 DEF TypeOK
<1> QED  BY <1>4, <1>5

\* The fields of the nodes after a step.
LEMMA StepFields ==
    ASSUME TypeOK, NEW r \in Correct, NEW n \in Node, NEW received,
           Step(r, n, received)
    PROVE  /\ \A q \in Correct : q # r => node'[q] = node[q]
           /\ node'[r].replicaId = n.replicaId /\ node'[r].signed = n.signed
           /\ node'[r].cert = n.cert /\ node'[r].prepareTimer = n.prepareTimer
           /\ node'[r].lastExec = n.lastExec /\ node'[r].h = n.h
           /\ node'[r].checkpointStore = n.checkpointStore
           /\ node'[r].out = {}
           /\ \A x \in net' : x \in net \/ \E p \in n.out : p[2] = x[2]
<1> DEFINE n1 == [n EXCEPT !.out = {}]
<1>1. /\ n1.replicaId = n.replicaId /\ n1.signed = n.signed
      /\ n1.cert = n.cert /\ n1.prepareTimer = n.prepareTimer
      /\ n1.lastExec = n.lastExec /\ n1.h = n.h
      /\ n1.checkpointStore = n.checkpointStore
      /\ n1.out = {}
  BY DEF Node
<1>2. node' = [node EXCEPT ![r] = n1]
  BY DEF Step
<1> HIDE DEF n1
<1>3. node'[r] = n1 /\ \A q \in Correct : q # r => node'[q] = node[q]
  BY <1>2 DEF TypeOK, Correct
<1>4. \A x \in net' : x \in net \/ \E p \in n.out : p[2] = x[2]
  <2>1. PICK sent \in SUBSET n.out :
             net' = (net \ ({r} \X received)) \cup
                    UNION {(p[1] \cap Correct) \X {p[2]} : p \in sent}
    BY DEF Step
  <2> QED  BY <2>1
<1> QED  BY <1>1, <1>3, <1>4

\* A step whose handler moves its node keeps everything backed by votes.
LEMMA StepVotes ==
    ASSUME TypeOK, VotesOK, NEW r \in Correct, NEW n \in Node, n.replicaId = r,
           node[r].signed \subseteq n.signed, Sound(n, Ballots),
           NEW received, Step(r, n, received)
    PROVE  VotesOK'
<1>1. /\ node'[r].replicaId = r /\ node'[r].signed = n.signed
      /\ node'[r].cert = n.cert /\ node'[r].prepareTimer = n.prepareTimer
      /\ node'[r].out = {}
      /\ \A q \in Correct : q # r => node'[q] = node[q]
      /\ \A x \in net' : x \in net \/ \E p \in n.out : p[2] = x[2]
  BY StepFields
<1>2. n.signed \subseteq Ids \X Digests
  BY DEF Node
<1>3. Ballots' = Votes(n, Ballots)
  <2>1. \A v : v \in Ballots' <=> v \in Votes(n, Ballots)
    BY <1>1, <1>2 DEF Ballots, Votes
  <2> QED  BY <2>1
<1>4. Ballots \subseteq Ballots'
  BY <1>3 DEF Votes
<1>5. ASSUME NEW q \in Correct PROVE Sound(node'[q], Ballots')
  <2>1. CASE q = r
    <3>1. Votes(node'[r], Ballots') = Votes(n, Ballots)
      BY <1>1, <1>3 DEF Votes
    <3> QED  BY <1>1, <2>1, <3>1 DEF Sound
  <2>2. CASE q # r
    BY <1>1, <1>4, <2>2, SoundMore DEF VotesOK
  <2> QED  BY <2>1, <2>2
<1>6. ASSUME NEW x \in net' PROVE MsgSound(x[2], Ballots')
  <2>1. CASE x \in net
    BY <1>4, <2>1, SoundMono DEF VotesOK
  <2>2. CASE \E p \in n.out : p[2] = x[2]
    BY <1>3, <2>2 DEF Sound
  <2> QED  BY <1>1, <1>6, <2>1, <2>2
<1> QED  BY <1>5, <1>6 DEF VotesOK

\* A step whose handler moves its node keeps checkpoints truthful.
LEMMA StepCheckpoints ==
    ASSUME TypeOK, CheckpointsOK, NEW r \in Correct, NEW n \in Node,
           node[r].lastExec <= n.lastExec, n.replicaId = r,
           \A p \in n.out : HonestCheckpoint(n, p[2]), StoreOK(n),
           NEW received, Step(r, n, received)
    PROVE  CheckpointsOK'
<1>1. /\ node'[r].lastExec = n.lastExec /\ node'[r].h = n.h
      /\ node'[r].checkpointStore = n.checkpointStore
      /\ \A q \in Correct : q # r => node'[q] = node[q]
      /\ \A x \in net' : x \in net \/ \E p \in n.out : p[2] = x[2]
  BY StepFields
<1>2. \A x \in net \cup net' : x[2].type = "Checkpoint" => x[2].sn \in Nat
  <2>1. net' \subseteq Correct \X Message /\ net \subseteq Correct \X Message
    BY StepType DEF TypeOK
  <2> QED  BY <2>1 DEF Message, PrePrepareMsg, PrepareMsg, PrepareQc,
         FastPrepareQc, CommitMsg, CommitQc, CheckpointMsg, ViewChangeMsg, SNs
<1>3. \A q \in Correct : node[q].lastExec \in Nat
  BY DEF TypeOK, Node, Correct
<1>4. n.lastExec \in Nat
  BY DEF Node
<1>5. \A q \in Correct, sn \in Nat : Executed(q, sn) => Executed(q, sn)'
  BY <1>1, <1>3, <1>4 DEF Executed
<1>6. SNs \subseteq Nat
  BY DEF SNs
<1>7. ASSUME NEW q \in Correct PROVE StoreOK(node[q])'
  <2>1. CASE q = r
    BY <1>1, <1>5, <1>6, <2>1 DEF StoreOK
  <2>2. CASE q # r
    BY <1>1, <1>5, <1>6, <2>2 DEF StoreOK, CheckpointsOK
  <2> QED  BY <2>1, <2>2
<1>8. ASSUME NEW x \in net', x[2].type = "Checkpoint", x[2].from \in Correct
      PROVE  Executed(x[2].from, x[2].sn)'
  <2>1. x[2].sn \in Nat
    BY <1>2, <1>8
  <2>2. CASE x \in net
    BY <1>5, <1>8, <2>1, <2>2 DEF CheckpointsOK
  <2>3. CASE \E p \in n.out : p[2] = x[2]
    BY <1>1, <1>4, <1>8, <2>1, <2>3 DEF HonestCheckpoint, Executed
  <2> QED  BY <1>1, <1>8, <2>2, <2>3
<1> QED  BY <1>7, <1>8 DEF CheckpointsOK

\* A handler that moves its node keeps the invariant.
LEMMA StepInv ==
    ASSUME Inv, NEW r \in Correct, NEW n, Moves(node[r], n, Ballots),
           NEW received, Step(r, n, received),
           proposal' \in [Batches -> Proposal]
    PROVE  Inv'
<1>1. /\ node[r] \in Node /\ node[r].replicaId = r /\ node[r].out = {}
      /\ n \in Node /\ n.replicaId = r /\ Sound(n, Ballots)
      /\ node[r].signed \subseteq n.signed /\ node[r].lastExec <= n.lastExec
      /\ \A p \in n.out : HonestCheckpoint(n, p[2])
      /\ n.h = node[r].h /\ n.checkpointStore = node[r].checkpointStore
  BY DEF Inv, TypeOK, Correct, Moves
<1>2. StoreOK(n)
  BY <1>1 DEF StoreOK, Inv, CheckpointsOK
<1>3. TypeOK'
  BY <1>1, StepType DEF TypeOK, Inv
<1>4. VotesOK'
  BY <1>1, StepVotes DEF Inv
<1>5. CheckpointsOK'
  BY <1>1, <1>2, StepCheckpoints DEF Inv
<1> QED  BY <1>3, <1>4, <1>5 DEF Inv

\* The facts about a correct replica that the handlers' lemmas need.
LEMMA CorrectNode ==
    ASSUME Inv, NEW r \in Correct
    PROVE  /\ r \in Replicas /\ node[r] \in Node /\ node[r].replicaId = r
           /\ node[r].currenView < MaxView /\ Sound(node[r], Ballots)
           /\ Votes(node[r], Ballots) = Ballots
BY OwnVotes DEF Inv, TypeOK, VotesOK, Correct

\* recvCheckpoint adds the sender under one number and changes nothing else.
LEMMA StoreGrows ==
    ASSUME NEW D, NEW R, NEW old \in [D -> SUBSET R], NEW s \in D, NEW f, NEW new,
           new = old \/ new = [old EXCEPT ![s] = old[s] \cup {f}]
    PROVE  \A d \in D : /\ old[d] \subseteq new[d]
                        /\ \A q \in new[d] : q \in old[d] \/ (q = f /\ d = s)
<1> SUFFICES ASSUME NEW d \in D
             PROVE  /\ old[d] \subseteq new[d]
                    /\ \A q \in new[d] : q \in old[d] \/ (q = f /\ d = s)
  OBVIOUS
<1>1. CASE new = old
  BY <1>1
<1>2. CASE new = [old EXCEPT ![s] = old[s] \cup {f}]
  <2>1. d # s => new[d] = old[d]
    BY <1>2
  <2>2. d = s => new[d] = old[d] \cup {f}
    BY <1>2
  <2> QED  BY <2>1, <2>2
<1> QED  BY <1>1, <1>2

\* A checkpoint a replica receives from a correct one is an executed number.
LEMMA RecvCheckpointInv ==
    ASSUME Inv, NEW r \in Correct, RecvCheckpoint(r)
    PROVE  Inv'
<1> DEFINE n == node[r]
<1>1. PICK m \in Inbox(r, "Checkpoint") : Step(r, recvCheckpoint(n, m), {m})
  BY DEF RecvCheckpoint
<1> DEFINE n2 == recvCheckpoint(n, m)
<1>2. /\ r \in Replicas /\ n \in Node /\ n.replicaId = r /\ n.out = {}
      /\ Sound(n, Ballots) /\ StoreOK(n)
  BY CorrectNode DEF Inv, TypeOK, CheckpointsOK
<1>3. m \in CheckpointMsg
  BY <1>2, InboxTypes DEF Inv
<1>4. m.from \in Correct => Executed(m.from, m.sn)
  <2>1. PICK x \in net \cup Forged : x[2] = m
    BY DEF Inbox
  <2>2. x \in Forged => m.from \in Faulty
    BY <2>1, ForgeableAssumption DEF Forged
  <2>3. m.type = "Checkpoint"
    BY <1>3 DEF CheckpointMsg
  <2> QED  BY <2>1, <2>2, <2>3 DEF Inv, CheckpointsOK, Correct
<1>5. /\ n2 \in Node /\ Sound(n2, Ballots)
      /\ n2.replicaId = n.replicaId /\ n2.lastExec = n.lastExec
      /\ n2.signed = n.signed /\ n2.out = n.out
      /\ \/ n2.checkpointStore = n.checkpointStore
         \/ n2.checkpointStore = [n.checkpointStore EXCEPT ![m.sn] =
                                    n.checkpointStore[m.sn] \cup {m.from}]
      /\ \/ n2.h = n.h
         \/ /\ n2.h \in SNs
            /\ Cardinality(n2.checkpointStore[n2.h]) >= CheckpointQuorum(N)
  BY <1>2, <1>3, recvCheckpointMoves
<1>6. /\ m.sn \in SNs /\ m.from \in Replicas
      /\ n.checkpointStore \in [SNs -> SUBSET Replicas]
      /\ n2.checkpointStore \in [SNs -> SUBSET Replicas]
      /\ n.h \in {0} \cup SNs /\ n.lastExec <= n.lastExec
  BY <1>2, <1>3, <1>5 DEF CheckpointMsg, Node
<1>7. Step(r, n2, {m})
  BY <1>1
<1> HIDE DEF n2
<1>8. \A sn \in SNs : /\ n.checkpointStore[sn] \subseteq n2.checkpointStore[sn]
                      /\ \A q \in n2.checkpointStore[sn] :
                           q \in n.checkpointStore[sn] \/ (q = m.from /\ sn = m.sn)
  BY <1>5, <1>6, StoreGrows
<1>9. \A sn \in SNs : \A q \in n2.checkpointStore[sn] \cap Correct :
        Executed(q, sn)
  BY <1>2, <1>4, <1>8 DEF StoreOK
<1>10. ASSUME n2.h > 0
       PROVE  Cardinality(n2.checkpointStore[n2.h]) >= CheckpointQuorum(N)
  <2>1. CASE n2.h = n.h
    <3> DEFINE A == n.checkpointStore[n.h]
               B == n2.checkpointStore[n.h]
    <3>1. n.h \in SNs
      BY <1>6, <1>10, <2>1
    <3>2. Cardinality(A) >= CheckpointQuorum(N)
      BY <1>2, <1>10, <2>1 DEF StoreOK
    <3>3. A \subseteq B /\ B \subseteq Replicas
      BY <1>6, <1>8, <3>1
    <3>4. IsFiniteSet(B)
      BY <3>3, ReplicasFinite, FS_Subset
    <3>5. Cardinality(A) <= Cardinality(B) /\ IsFiniteSet(A)
      BY <3>3, <3>4, FS_Subset
    <3>6. Cardinality(A) \in Nat /\ Cardinality(B) \in Nat
      BY <3>4, <3>5, FS_CardinalityType
    <3>7. CheckpointQuorum(N) \in Int
      BY ClusterAssumption DEF CheckpointQuorum
    <3> HIDE DEF A, B
    <3>8. Cardinality(B) >= CheckpointQuorum(N)
      BY <3>2, <3>5, <3>6, <3>7
    <3> QED  BY <2>1, <3>8 DEF B
  <2>2. CASE n2.h # n.h
    BY <1>5, <2>2
  <2> QED  BY <2>1, <2>2
<1>11. StoreOK(n2)
  BY <1>9, <1>10 DEF StoreOK
<1>12. VotesOK'
  BY <1>2, <1>5, <1>7, StepVotes DEF Inv
<1>13. CheckpointsOK'
  BY <1>2, <1>5, <1>6, <1>7, <1>11, StepCheckpoints DEF Inv
<1>14. TypeOK'
  <2>1. proposal' = proposal
    BY DEF RecvCheckpoint
  <2> QED  BY <1>2, <1>5, <1>7, <2>1, StepType DEF TypeOK, Inv
<1> QED  BY <1>12, <1>13, <1>14 DEF Inv

\* Every case of the consumer loop StartPBFT preserves the invariant.
LEMMA ReceiveInv ==
    ASSUME Inv, NEW r \in Correct, Receive(r)
    PROVE  Inv'
<1> DEFINE n == node[r]
<1>1. /\ r \in Replicas /\ n \in Node /\ n.currenView < MaxView
      /\ Sound(n, Ballots) /\ Votes(n, Ballots) = Ballots
  BY CorrectNode
<1>2. TypeOK /\ VotesOK /\ proposal \in [Batches -> Proposal]
  BY DEF Inv, TypeOK
<1>3. ASSUME NEW n2, NEW received, Moves(n, n2, Ballots), Step(r, n2, received),
             proposal' = proposal
      PROVE  Inv'
  BY <1>2, <1>3, StepInv
<1>4. CASE RecvPrePrepare(r)
  <2>1. PICK m \in Inbox(r, "PrePrepare") :
             \E stop \in StopReads(n, <<m.sn, n.currenView>>) :
               Step(r, handlePrePrepareMsg(n, m, stop), {m})
    BY <1>4 DEF RecvPrePrepare
  <2>2. PICK stop \in BOOLEAN : Step(r, handlePrePrepareMsg(n, m, stop), {m})
    BY <2>1 DEF StopReads
  <2>3. m \in PrePrepareMsg
    BY <1>1, <1>2, InboxTypes
  <2>4. Moves(n, handlePrePrepareMsg(n, m, stop), Ballots)
    BY <1>1, <2>3, handlePrePrepareMsgMoves
  <2> QED  BY <1>3, <1>4, <2>2, <2>4 DEF RecvPrePrepare
<1>5. CASE RecvPrepare(r)
  <2>1. PICK m \in Inbox(r, "Prepare") :
             \E stop \in StopReads(n, <<m.sn, m.view>>) :
               Step(r, handlePrepareMsg(n, m, stop), {m})
    BY <1>5 DEF RecvPrepare
  <2>2. PICK stop \in BOOLEAN : Step(r, handlePrepareMsg(n, m, stop), {m})
    BY <2>1 DEF StopReads
  <2>3. m \in PrepareMsg /\ MsgSound(m, Ballots)
    BY <1>1, <1>2, InboxTypes, InboxSound
  <2>4. Moves(n, handlePrepareMsg(n, m, stop), Ballots)
    BY <1>1, <2>3, handlePrepareMsgMoves
  <2> QED  BY <1>3, <1>5, <2>2, <2>4 DEF RecvPrepare
<1>6. CASE RecvPrepareQc(r)
  <2>1. PICK m \in Inbox(r, "PrepareQc") : Step(r, handlePrepareQc(n, m), {m})
    BY <1>6 DEF RecvPrepareQc
  <2>2. m \in PrepareQc /\ MsgSound(m, Ballots)
    BY <1>1, <1>2, InboxTypes, InboxSound
  <2>3. Moves(n, handlePrepareQc(n, m), Ballots)
    BY <1>1, <2>2, handlePrepareQcMoves
  <2> QED  BY <1>3, <1>6, <2>1, <2>3 DEF RecvPrepareQc
<1>7. CASE RecvFastPrepareQc(r)
  <2>1. PICK m \in Inbox(r, "FastPrepareQc") :
             Step(r, handleFastPrepareQc(n, m), {m})
    BY <1>7 DEF RecvFastPrepareQc
  <2>2. m \in FastPrepareQc /\ MsgSound(m, Ballots)
    BY <1>1, <1>2, InboxTypes, InboxSound
  <2>3. Moves(n, handleFastPrepareQc(n, m), Ballots)
    BY <1>1, <2>2, handleFastPrepareQcMoves
  <2> QED  BY <1>3, <1>7, <2>1, <2>3 DEF RecvFastPrepareQc
<1>8. CASE RecvCommit(r)
  <2>1. PICK m \in Inbox(r, "Commit") : Step(r, handleCommitMsg(n, m), {m})
    BY <1>8 DEF RecvCommit
  <2>2. Moves(n, handleCommitMsg(n, m), Ballots)
    BY <1>1, <1>2, InboxTypes, handleCommitMsgMoves
  <2> QED  BY <1>3, <1>8, <2>1, <2>2 DEF RecvCommit
<1>9. CASE RecvCommitQc(r)
  <2>1. PICK m \in Inbox(r, "CommitQc") : Step(r, handleCommitQc(n, m), {m})
    BY <1>9 DEF RecvCommitQc
  <2>2. Moves(n, handleCommitQc(n, m), Ballots)
    BY <1>1, <1>2, InboxTypes, handleCommitQcMoves
  <2> QED  BY <1>3, <1>9, <2>1, <2>2 DEF RecvCommitQc
<1>10. CASE RecvCheckpoint(r)
  BY <1>10, RecvCheckpointInv
<1> QED  BY <1>4, <1>5, <1>6, <1>7, <1>8, <1>9, <1>10 DEF Receive

\* The goroutines beside the consumer loop preserve the invariant.
LEMMA GoroutineInv ==
    ASSUME Inv, NEW r \in Correct,
           goCheckIfPrepared(r) \/ prepareTimerFires(r) \/ prepareTimerSends(r)
    PROVE  Inv'
<1> DEFINE n == node[r]
<1>1. /\ r \in Replicas /\ n \in Node /\ n.currenView < MaxView
      /\ Sound(n, Ballots) /\ Votes(n, Ballots) = Ballots
  BY CorrectNode
<1>2. proposal \in [Batches -> Proposal]
  BY DEF Inv, TypeOK
<1>3. ASSUME NEW n2, NEW received, Moves(n, n2, Ballots), Step(r, n2, received),
             proposal' = proposal
      PROVE  Inv'
  BY <1>2, <1>3, StepInv
<1>4. CASE goCheckIfPrepared(r)
  <2>1. PICK id \in n.fastChecks :
             Step(r, checkIfPrepared([n EXCEPT !.fastChecks = @ \ {id}], id), {})
    BY <1>4 DEF goCheckIfPrepared
  <2> DEFINE n1 == [n EXCEPT !.fastChecks = @ \ {id}]
  <2>2. id \in Ids /\ n.fastChecks \ {id} \in SUBSET Ids
    BY <1>1 DEF Node
  <2>3. Moves(n, n1, Ballots) /\ n1.currenView < MaxView
    BY <1>1, <2>2, fastChecksMoves
  <2> HIDE DEF n1
  <2>4. n1 \in Node /\ Sound(n1, Ballots)
    BY <2>3 DEF Moves
  <2>5. Moves(n, checkIfPrepared(n1, id), Ballots)
    BY <1>1, <2>2, <2>3, <2>4, checkIfPreparedMoves, MovesTrans
  <2> QED  BY <1>3, <1>4, <2>1, <2>5 DEF goCheckIfPrepared, n1
<1>5. CASE prepareTimerFires(r)
  <2> DEFINE batch(id) == n.prepareTimer[id].batch
             ready(id) == PrepareQcReady(n, id, batch(id), SlowQuorum(N))
             pc(id) == IF ready(id) THEN "checked" ELSE "stopped"
  <2>1. PICK id \in Ids : Step(r, withTimer(n, id, pc(id), batch(id)), {})
    BY <1>5 DEF prepareTimerFires
  <2>2. batch(id) \in Digests
    BY <1>1 DEF Node, FastTimer
  <2>3. SlowQuorum(N) \in Int /\ SlowQuorum(N) >= SlowQuorum(N)
    BY QuorumSizes
  <2>4. ready(id) => Backed(Ballots, id, batch(id))
    BY <1>1, <2>3, ReadyBacked
  <2>5. pc(id) \in {"none", "running", "checked", "stopped"}
        /\ (pc(id) = "checked" => Backed(Ballots, id, batch(id)))
    BY <2>4
  <2> HIDE DEF pc, batch
  <2>6. Moves(n, withTimer(n, id, pc(id), batch(id)), Ballots)
    BY <1>1, <2>2, <2>5, withTimerMoves
  <2>7. proposal' = proposal
    BY <1>5 DEF prepareTimerFires
  <2> QED  BY <1>3, <2>1, <2>6, <2>7
<1>6. CASE prepareTimerSends(r)
  <2> DEFINE batch(id) == n.prepareTimer[id].batch
  <2>1. PICK id \in Ids :
             /\ n.prepareTimer[id].pc = "checked"
             /\ Step(r, sendPrepareQc(withTimer(n, id, "stopped", batch(id)),
                                      id, batch(id), "timer"), {})
    BY <1>6 DEF prepareTimerSends
  <2> DEFINE n1 == withTimer(n, id, "stopped", batch(id))
  <2>2. batch(id) \in Digests
    BY <1>1 DEF Node, FastTimer
  <2>3. Backed(Ballots, id, batch(id))
    BY <1>1, <2>1 DEF Sound
  <2> HIDE DEF batch
  <2>4. Moves(n, n1, Ballots) /\ Votes(n1, Ballots) = Ballots
    BY <1>1, <2>2, withTimerMoves
  <2>5. Step(r, sendPrepareQc(n1, id, batch(id), "timer"), {})
    BY <2>1
  <2> HIDE DEF n1
  <2>6. n1 \in Node /\ Sound(n1, Ballots)
    BY <2>4 DEF Moves
  <2>7. Moves(n1, sendPrepareQc(n1, id, batch(id), "timer"), Ballots)
    BY <2>2, <2>3, <2>4, <2>6, sendPrepareQcMoves DEF Stamps
  <2>8. Moves(n, sendPrepareQc(n1, id, batch(id), "timer"), Ballots)
    BY <1>1, <2>4, <2>7, MovesTrans
  <2>9. proposal' = proposal
    BY <1>6 DEF prepareTimerSends
  <2> QED  BY <1>3, <2>5, <2>8, <2>9
<1> QED  BY <1>4, <1>5, <1>6

\* The steps of a proposal, broadcastPrePrepareMsg, preserve the invariant.
LEMMA ProposeInv ==
    ASSUME Inv, NEW b \in Batches, Propose(b)
    PROVE  Inv'
<1> DEFINE r == Holder[b]
           n == node[r]
<1>1. r \in Correct
  BY DEF Propose, sendBatch, checkProposalWindow, createPrePrepareMsg,
         broadcastPrePrepareMsg, Stage, Running
<1>2. /\ r \in Replicas /\ n \in Node /\ n.replicaId = r /\ n.currenView < MaxView
      /\ Sound(n, Ballots) /\ Votes(n, Ballots) = Ballots
  BY <1>1, CorrectNode
<1>3. /\ proposal \in [Batches -> Proposal]
      /\ 0 \in Views /\ n.currenView \in Views /\ proposal[b].view \in Views
  BY <1>2, ParameterAssumption DEF Inv, TypeOK, Proposal, Views, Node
<1>4. \A from, to : Stage(b, from, to) /\ to \in Proposal
                    => proposal' \in [Batches -> Proposal]
  BY <1>3 DEF Stage
<1>5. proposal' \in [Batches -> Proposal]
  <2>1. CASE sendBatch(b)
    BY <1>3, <1>4, <2>1 DEF sendBatch, Proposal
  <2>2. CASE checkProposalWindow(b)
    BY <1>3, <1>4, <2>2 DEF checkProposalWindow, Proposal
  <2>3. CASE createPrePrepareMsg(b)
    BY <1>3, <1>4, <2>3 DEF createPrePrepareMsg, Proposal
  <2>4. CASE broadcastPrePrepareMsg(b)
    BY <1>3, <1>4, <2>4 DEF broadcastPrePrepareMsg, Proposal
  <2> QED  BY <2>1, <2>2, <2>3, <2>4 DEF Propose
<1>6. CASE UNCHANGED <<node, net>>
  <2>1. Ballots' = Ballots
    BY <1>6 DEF Ballots
  <2>2. VotesOK'
    BY <1>6, <2>1 DEF Inv, VotesOK
  <2>3. CheckpointsOK'
    BY <1>6 DEF Inv, CheckpointsOK, StoreOK, Executed
  <2>4. TypeOK'
    BY <1>5, <1>6 DEF Inv, TypeOK
  <2> QED  BY <2>2, <2>3, <2>4 DEF Inv
<1>7. CASE broadcastPrePrepareMsg(b)
  <2> DEFINE id == <<n.nextSN, proposal[b].view>>
             ppm == [type |-> "PrePrepare", from |-> n.replicaId, sn |-> id[1],
                     view |-> id[2], digest |-> b]
             n1 == [n EXCEPT !.nextSN = @ + 1]
             n2 == withTimer(n1, id, "running", b)
  <2>1. n.nextSN \in SNs /\ Step(r, broadcast(n2, ppm), {})
    BY <1>7 DEF broadcastPrePrepareMsg
  <2>2. id \in Ids /\ id[1] = n.nextSN /\ id[2] = proposal[b].view
    BY <1>3, <2>1 DEF Ids
  <2>3. ppm \in Message /\ ppm.type # "Checkpoint" /\ MsgSound(ppm, Votes(n2, Ballots))
    BY <1>2, <1>3, <2>1 DEF Message, PrePrepareMsg, MsgSound
  <2> HIDE DEF ppm, id
  <2>4. Moves(n, n1, Ballots)
    BY <1>2, nextSNMoves
  <2> HIDE DEF n1
  <2>5. n1 \in Node /\ Sound(n1, Ballots)
    BY <2>4 DEF Moves
  <2>6. Moves(n1, n2, Ballots)
    BY <2>2, <2>5, withTimerMoves DEF Digests
  <2> HIDE DEF n2
  <2>7. n2 \in Node /\ Sound(n2, Ballots)
    BY <2>6 DEF Moves
  <2>8. Moves(n2, broadcast(n2, ppm), Ballots)
    BY <2>3, <2>7, broadcastMoves
  <2>9. Moves(n, broadcast(n2, ppm), Ballots)
    BY <1>2, <2>4, <2>5, <2>6, <2>8, MovesTrans
  <2> HIDE DEF r
  <2> QED  BY <1>1, <1>5, <2>1, <2>9, StepInv
<1> QED  BY <1>6, <1>7 DEF Propose, sendBatch, checkProposalWindow,
                           createPrePrepareMsg
-----------------------------------------------------------------------------
(***************************************************************************)
(* Theorems.                                                               *)
(***************************************************************************)
\* NewNode (node.go) creates a well-formed Node.
LEMMA NewNodeType ==
    ASSUME NEW r \in Replicas
    PROVE  NewNode(r) \in Node
<1>1. EmptyCert \in MsgCert
  BY DEF EmptyCert, MsgCert, Digests
<1>2. [pc |-> "none", batch |-> Nil] \in FastTimer
  BY DEF FastTimer, Digests
<1>3. T + T \div 2 \in Nat
  BY ParameterAssumption
<1>4. [id \in Ids |-> EmptyCert] \in [Ids -> MsgCert]
  BY <1>1
<1>5. [id \in Ids |-> [pc |-> "none", batch |-> Nil]] \in [Ids -> FastTimer]
  BY <1>2
<1>6. /\ [sn \in SNs |-> Nil] \in [SNs -> Digests]
      /\ [sn \in SNs |-> {}] \in [SNs -> SUBSET Replicas]
      /\ 0 \in Views
  BY ParameterAssumption DEF Digests, Views
<1> QED  BY <1>3, <1>4, <1>5, <1>6 DEF NewNode, Node

\* The nodes that NewNode creates satisfy the invariant.
LEMMA InitInv == Init => Inv
<1> SUFFICES ASSUME Init PROVE Inv
  OBVIOUS
<1>1. TypeOK
  <2>1. \A r \in Replicas : node[r] = NewNode(r)
    BY DEF Init
  <2>2. node \in [Replicas -> Node]
    BY NewNodeType DEF Init
  <2>3. \A r \in Replicas : /\ node[r].replicaId = r /\ node[r].out = {}
                            /\ node[r].currenView < MaxView
    <3>1. \A r \in Replicas : /\ NewNode(r).replicaId = r /\ NewNode(r).out = {}
                              /\ NewNode(r).currenView = 0
      BY DEF NewNode
    <3>2. 0 < MaxView
      BY ParameterAssumption
    <3> QED  BY <2>1, <3>1, <3>2
  <2>4. proposal \in [Batches -> Proposal]
    BY ParameterAssumption DEF Init, Proposal, Views
  <2> QED  BY <2>2, <2>3, <2>4 DEF TypeOK, Init
<1>2. ASSUME NEW r \in Correct
      PROVE  Sound(node[r], Ballots) /\ StoreOK(node[r])
  <2>1. node[r] = NewNode(r)
    BY DEF Init, Correct
  <2>2. /\ node[r].signed = {} /\ node[r].out = {} /\ node[r].h = 0
        /\ node[r].cert = [id \in Ids |-> EmptyCert]
        /\ node[r].prepareTimer
             = [id \in Ids |-> [pc |-> "none", batch |-> Nil]]
        /\ node[r].checkpointStore = [sn \in SNs |-> {}]
    BY <2>1 DEF NewNode
  <2>3. \A id \in Ids : CertSound(id, EmptyCert, Votes(node[r], Ballots))
    BY DEF CertSound, EmptyCert
  <2>4. Sound(node[r], Ballots)
    BY <2>2, <2>3 DEF Sound
  <2>5. StoreOK(node[r])
    BY <2>2 DEF StoreOK
  <2> QED  BY <2>4, <2>5
<1> QED  BY <1>1, <1>2 DEF Inv, VotesOK, CheckpointsOK, Init

\* Every step preserves the invariant.
LEMMA NextInv == Inv /\ [Next]_vars => Inv'
<1> SUFFICES ASSUME Inv, [Next]_vars PROVE Inv'
  OBVIOUS
<1>1. ASSUME NEW b \in Batches, Propose(b) PROVE Inv'
  BY <1>1, ProposeInv
<1>2. ASSUME NEW r \in Correct, Receive(r) PROVE Inv'
  BY <1>2, ReceiveInv
<1>3. ASSUME NEW r \in Correct, \/ prepareTimerFires(r) \/ prepareTimerSends(r)
                                \/ goCheckIfPrepared(r)
      PROVE  Inv'
  BY <1>3, GoroutineInv
<1>4. CASE UNCHANGED vars
  <2>1. Ballots' = Ballots
    BY <1>4 DEF Ballots, vars
  <2> QED  BY <1>4, <2>1 DEF Inv, TypeOK, VotesOK, CheckpointsOK, StoreOK,
                             Executed, vars
<1> QED  BY <1>1, <1>2, <1>3, <1>4 DEF Next

\* The inductive invariant holds in every state the handlers of core.go reach.
THEOREM Invariant == Spec => []Inv
BY InitInv, NextInv, PTL DEF Spec

\* Every handler of core.go leaves a well-formed Node behind and sends every
\* message it has created.
THEOREM TypeCorrect == Spec => []TypeOK
<1>1. Inv => TypeOK
  BY DEF Inv
<1> QED  BY <1>1, Invariant, PTL

\* What recvCheckpoint stores and sets makes every low watermark backed.
LEMMA CheckpointsBacked ==
    ASSUME Inv
    PROVE  StableCheckpointBacked
<1> SUFFICES ASSUME NEW r \in Correct, node[r].h > 0
             PROVE  /\ node[r].h % T = 0
                    /\ Cardinality(Faulty \cup
                         {q \in Correct : node[q].lastExec >= node[r].h})
                         >= CheckpointQuorum(N)
  BY DEF StableCheckpointBacked
<1> DEFINE h == node[r].h
           A == node[r].checkpointStore[h]
           B == Faulty \cup {q \in Correct : node[q].lastExec >= h}
<1>1. node[r] \in Node /\ StoreOK(node[r])
  BY CorrectNode DEF Inv, CheckpointsOK
<1>2. h \in SNs /\ A \subseteq Replicas
  BY <1>1 DEF Node
<1>3. \A q \in A \cap Correct : Executed(q, h)
  BY <1>1, <1>2 DEF StoreOK
<1>4. Cardinality(A) >= CheckpointQuorum(N)
  BY <1>1 DEF StoreOK
<1>5. A \subseteq B /\ B \subseteq Replicas
  BY <1>2, <1>3, ClusterAssumption DEF Executed, Correct
<1>6. IsFiniteSet(A) /\ IsFiniteSet(B) /\ IsFiniteSet(Faulty)
  BY <1>2, <1>5, ReplicasFinite, ClusterAssumption, FS_Subset
<1>7. /\ Cardinality(A) \in Nat /\ Cardinality(B) \in Nat
      /\ Cardinality(Faulty) \in Nat /\ CheckpointQuorum(N) \in Int
  BY <1>6, FS_CardinalityType, ClusterAssumption DEF CheckpointQuorum
<1>8. Cardinality(A) <= Cardinality(B)
  BY <1>5, <1>6, FS_Subset
<1>9. h % T = 0
  <2>1. CheckpointQuorum(N) > Cardinality(Faulty)
    BY <1>7, ClusterAssumption DEF CheckpointQuorum, F
  <2>2. ~(A \subseteq Faulty)
    <3>1. A \subseteq Faulty => Cardinality(A) <= Cardinality(Faulty)
      BY <1>6, FS_Subset
    <3> HIDE DEF A, B, h
    <3> QED  BY <1>4, <1>7, <2>1, <3>1
  <2> QED  BY <1>2, <1>3, <2>2 DEF Executed, Correct
<1> HIDE DEF A, B, h
<1>10. Cardinality(B) >= CheckpointQuorum(N)
  BY <1>4, <1>7, <1>8
<1> QED  BY <1>9, <1>10 DEF B, h

\* A low watermark that recvCheckpoint sets is a multiple of the checkpoint
\* period, and all correct members of a checkpoint quorum have executed it.
THEOREM StableCheckpoint == Spec => []StableCheckpointBacked
<1>1. Inv => StableCheckpointBacked
  BY CheckpointsBacked
<1> QED  BY <1>1, Invariant, PTL

\* Two slow quorums of a cluster with at most f faulty replicas share a correct
\* one.
LEMMA SharedVoter ==
    ASSUME NEW A \in SUBSET Replicas, NEW B \in SUBSET Replicas,
           Cardinality(A) >= SlowQuorum(N), Cardinality(B) >= SlowQuorum(N)
    PROVE  \E r \in Correct : r \in A /\ r \in B
<1>1. IsFiniteSet(A) /\ IsFiniteSet(B) /\ IsFiniteSet(Faulty)
      /\ IsFiniteSet(A \cup B) /\ IsFiniteSet(A \cap B)
  BY ReplicasFinite, ClusterAssumption, FS_Subset
<1>2. /\ Cardinality(A) \in Nat /\ Cardinality(B) \in Nat
      /\ Cardinality(Faulty) \in Nat /\ Cardinality(A \cup B) \in Nat
      /\ Cardinality(A \cap B) \in Nat
  BY <1>1, FS_CardinalityType
<1>3. Cardinality(A \cup B)
        = Cardinality(A) + Cardinality(B) - Cardinality(A \cap B)
  BY <1>1, FS_Union
<1>4. Cardinality(A \cup B) <= N
  BY ReplicasFinite, FS_Subset
<1>5. Cardinality(A \cap B) > Cardinality(Faulty)
  BY <1>2, <1>3, <1>4, QuorumSizes, ClusterAssumption
<1>6. A \cap B \subseteq Faulty => Cardinality(A \cap B) <= Cardinality(Faulty)
  BY <1>1, FS_Subset
<1>7. ~(A \cap B \subseteq Faulty)
  BY <1>2, <1>5, <1>6
<1> QED  BY <1>7 DEF Correct

\* Two certificates share a correct voter, who signs the batch it has stored.
LEMMA QcsAgree ==
    ASSUME Inv
    PROVE  QcUnique
<1>1. ASSUME NEW c \in IssuedQcs
      PROVE  /\ c \in PrepareQc \cup FastPrepareQc
             /\ QcSound(c, Ballots)
  <2>1. CASE \E x \in net : x[2] = c /\ c.type \in {"PrepareQc", "FastPrepareQc"}
    <3>1. c \in Message
      BY <2>1 DEF Inv, TypeOK
    <3>2. c \in PrepareQc \cup FastPrepareQc
      BY <2>1, <3>1 DEF Message, PrePrepareMsg, PrepareMsg, PrepareQc,
         FastPrepareQc, CommitMsg, CommitQc, CheckpointMsg, ViewChangeMsg
    <3>3. QcSound(c, Ballots)
      BY <2>1 DEF Inv, VotesOK, MsgSound
    <3> QED  BY <3>2, <3>3
  <2>2. CASE \E r \in Correct, id \in Ids :
               /\ c \in {node[r].cert[id].prepareQc, node[r].cert[id].fastPrepareQc}
               /\ c # Nil
    <3>1. PICK r \in Correct, id \in Ids :
               /\ c \in {node[r].cert[id].prepareQc, node[r].cert[id].fastPrepareQc}
               /\ c # Nil
      BY <2>2
    <3>2. /\ node[r] \in Node /\ Sound(node[r], Ballots)
          /\ Votes(node[r], Ballots) = Ballots
      BY CorrectNode
    <3>3. node[r].cert[id] \in MsgCert
      BY <3>2, certType
    <3>4. CertSound(id, node[r].cert[id], Ballots)
      BY <3>2 DEF Sound
    <3>5. /\ node[r].cert[id].prepareQc \in PrepareQc \cup {Nil}
          /\ node[r].cert[id].fastPrepareQc \in FastPrepareQc \cup {Nil}
      BY <3>3 DEF MsgCert
    <3>6. CASE c = node[r].cert[id].prepareQc
      BY <3>1, <3>4, <3>5, <3>6, Zenon DEF CertSound
    <3>7. CASE c = node[r].cert[id].fastPrepareQc
      BY <3>1, <3>4, <3>5, <3>7, Zenon DEF CertSound
    <3> QED  BY <3>1, <3>6, <3>7
  <2> QED  BY <2>1, <2>2 DEF IssuedQcs
<1> SUFFICES ASSUME NEW c \in IssuedQcs, NEW d \in IssuedQcs,
                    c.sn = d.sn, c.view = d.view, c.digest # Nil, d.digest # Nil
             PROVE  c.digest = d.digest
  BY DEF QcUnique
<1> DEFINE id == <<c.sn, c.view>>
           A == Voters(Ballots, id, c.digest)
           B == Voters(Ballots, id, d.digest)
<1>2. Cardinality(A) >= SlowQuorum(N) /\ Cardinality(B) >= SlowQuorum(N)
  BY <1>1 DEF QcSound, Backed
<1>3. PICK r \in Correct : r \in A /\ r \in B
  BY <1>2, SharedVoter DEF Voters
<1>4. /\ <<id, c.digest>> \in node[r].signed
      /\ <<id, d.digest>> \in node[r].signed
  BY <1>3 DEF Voters, Ballots, Correct
<1>5. Sound(node[r], Ballots)
  BY CorrectNode
<1>6. /\ node[r].cert[id].reqBatchDigest = c.digest
      /\ node[r].cert[id].reqBatchDigest = d.digest
  BY <1>4, <1>5 DEF Sound
<1> QED  BY <1>6

\* The certificates of a number and view, whatever a faulty primary proposes to
\* whom and whatever faulty replicas sign, are all for the same batch:
\* handlePrePrepareMsg never replaces a batch and createPrepareMsg signs only
\* the stored one.
THEOREM CertificatesAgree == Spec => []QcUnique
<1>1. Inv => QcUnique
  BY QcsAgree
<1> QED  BY <1>1, Invariant, PTL
-----------------------------------------------------------------------------
(***************************************************************************)
(* No vote without a timer.  Only the vote handler can panic, and what     *)
(* keeps it from doing so is spread over the handlers of both sides: a     *)
(* proposal starts its timer before it is sent, and who votes for it is    *)
(* still in the view that it was made in.                                  *)
(*                                                                         *)
(* Calm(n, n2): the code that has brought n to n2 has touched no timer,    *)
(* has not panicked, and has changed the view only by leaving it.          *)
(***************************************************************************)
Timed(n) == {"replicaId", "currenView", "activeView", "prepareTimer", "panicked",
             "out"} \subseteq DOMAIN n

Remains(n, n2) == n2.activeView = n.activeView /\ n2.currenView = n.currenView

Calm(n, n2) ==
    /\ Timed(n2) /\ n2.replicaId = n.replicaId
    /\ n2.prepareTimer = n.prepareTimer /\ n2.panicked = n.panicked
    /\ ~n2.activeView \/ Remains(n, n2)

Harmless(m) == m.type \notin {"Prepare", "PrePrepare"}

\* It sends neither votes nor proposals.
Silent(n, n2) == \A x \in n2.out : x \in n.out \/ Harmless(x[2])

Mild(n, n2) == Calm(n, n2) /\ Silent(n, n2)

\* Handlers that call each other are mild together.
LEMMA MildTrans ==
    ASSUME NEW n0, NEW n1, NEW n2, Mild(n0, n1), Mild(n1, n2)
    PROVE  /\ Mild(n0, n2)
           /\ Remains(n0, n1) /\ Remains(n1, n2) => Remains(n0, n2)
<1>1. Remains(n0, n1) /\ Remains(n1, n2) => Remains(n0, n2)
  BY DEF Remains
<1>2. ~n2.activeView \/ Remains(n0, n2)
  <2>1. CASE ~n2.activeView
    BY <2>1
  <2>2. CASE Remains(n1, n2) /\ ~n1.activeView
    BY <2>2 DEF Remains
  <2>3. CASE Remains(n1, n2) /\ Remains(n0, n1)
    BY <1>1, <2>3
  <2> QED  BY <2>1, <2>2, <2>3 DEF Mild, Calm
<1>3. Silent(n0, n2)
  BY DEF Mild, Silent
<1> QED  BY <1>1, <1>2, <1>3 DEF Mild, Calm

\* Code that does nothing, or something to fields that are not timers, the view
\* or the outbox.
LEMMA MildSteps ==
    ASSUME NEW n, Timed(n)
    PROVE  /\ Mild(n, n) /\ Remains(n, n)
           /\ \A id, c : LET n2 == withCert(n, id, c)
                         IN  Mild(n, n2) /\ Remains(n, n2)
           /\ \A m : Harmless(m) =>
                /\ Mild(n, broadcast(n, m)) /\ Remains(n, broadcast(n, m))
                /\ Mild(n, sendToLeader(n, m)) /\ Remains(n, sendToLeader(n, m))
           /\ Mild(n, sendViewChange(n))
<1> USE DEF Mild, Calm, Silent, Remains, Timed
<1>1. Mild(n, n) /\ Remains(n, n)
  OBVIOUS
<1>2. ASSUME NEW id, NEW c
      PROVE  Mild(n, withCert(n, id, c)) /\ Remains(n, withCert(n, id, c))
  BY DEF withCert
<1>3. ASSUME NEW m, Harmless(m)
      PROVE  /\ Mild(n, broadcast(n, m)) /\ Remains(n, broadcast(n, m))
             /\ Mild(n, sendToLeader(n, m)) /\ Remains(n, sendToLeader(n, m))
  BY <1>3 DEF broadcast, sendToLeader
<1>4. Mild(n, sendViewChange(n))
  BY DEF sendViewChange, broadcast, Harmless
<1> QED  BY <1>1, <1>2, <1>3, <1>4

\* executeRequest, checkIfCommitted and checkIfPrepared (core.go) stay in the view
\* unless a change of primary is planned.
LEMMA checkIfMild ==
    ASSUME ~AutoViewChange, NEW n, Timed(n), NEW id
    PROVE  /\ Mild(n, checkIfPrepared(n, id)) /\ Remains(n, checkIfPrepared(n, id))
           /\ Mild(n, checkIfCommitted(n, id)) /\ Remains(n, checkIfCommitted(n, id))
<1> DEFINE Good(n1, n2) == Timed(n1) => Timed(n2) /\ Mild(n1, n2) /\ Remains(n1, n2)
<1>1. \A n1, n2, n3 : Good(n1, n2) /\ Good(n2, n3) => Good(n1, n3)
  BY MildTrans
<1>2. \A n1, c : Good(n1, withCert(n1, id, c))
  BY MildSteps DEF Mild, Calm
<1>3. \A n1 : Good(n1, n1)
  BY MildSteps
<1>4. \A n1 : Good(n1, executeRequest(n1, id))
  <2> SUFFICES ASSUME NEW n1, Timed(n1) PROVE Good(n1, executeRequest(n1, id))
    OBVIOUS
  <2> DEFINE buffer == [n1.execReqBuffer EXCEPT ![id[1]] = n1.cert[id].reqBatchDigest]
             run == ExecutionRun(n1, id[1], buffer)
             chkpts == {[type |-> "Checkpoint", from |-> n1.replicaId, sn |-> i] :
                          i \in {j \in run : checkIfCreateChkpt(j)}}
             done == [n1 EXCEPT
               !.execReqBuffer = buffer,
               !.lastExec = @ + Cardinality(run),
               !.executed = [i \in SNs |-> IF i \in run THEN buffer[i] ELSE @[i]],
               !.out = @ \cup {<<Replicas, c>> : c \in chkpts}]
  <2>1. \A c \in chkpts : Harmless(c)
    BY DEF Harmless
  <2>2. executeRequest(n1, id) = done
    BY DEF executeRequest
  <2> HIDE DEF run, buffer, chkpts
  <2>3. Good(n1, done)
    BY <2>1 DEF Mild, Calm, Silent, Remains, Timed
  <2> QED  BY <2>2, <2>3
<1> HIDE DEF Good
<1>5. \A n1 : Good(n1, checkIfCommitted(n1, id))
  BY <1>1, <1>2, <1>3, <1>4 DEF checkIfCommitted
<1>6. \A n1 : Good(n1, checkIfPrepared(n1, id))
  BY <1>1, <1>2, <1>3, <1>4, <1>5 DEF checkIfPrepared
<1> QED  BY <1>5, <1>6 DEF Good

\* handlePrepareVote (core.go) finds the timer, and counts the vote or sends a
\* certificate.
LEMMA handlePrepareMsgMild ==
    ASSUME NEW n, Timed(n), NEW pm, NEW stop,
           n.activeView => n.prepareTimer[<<pm.sn, pm.view>>].pc # "none"
    PROVE  LET n2 == handlePrepareMsg(n, pm, stop)
           IN  Mild(n, n2) /\ Remains(n, n2)
<1> DEFINE Good(n1, n2) == Timed(n1) => Timed(n2) /\ Mild(n1, n2) /\ Remains(n1, n2)
           vote == <<pm.sn, pm.view>>
<1>1. \A n1, n2, n3 : Good(n1, n2) /\ Good(n2, n3) => Good(n1, n3)
  BY MildTrans
<1>2. \A n1, id, c : Good(n1, withCert(n1, id, c))
  BY MildSteps DEF Mild, Calm
<1>3. \A n1, m : Harmless(m) => Good(n1, broadcast(n1, m))
  BY MildSteps DEF Mild, Calm
<1>4. Good(n, n)
  BY MildSteps
<1>5. \A n1, n2 : Good(n1, n2) /\ Timed(n1) => n2.prepareTimer = n1.prepareTimer
  BY DEF Mild, Calm
<1> HIDE DEF Good
<1>6. \A n1, id, d, s : /\ Good(n1, sendPrepareQc(n1, id, d, s))
                        /\ Good(n1, sendFastPrepareQc(n1, id, d))
  BY <1>1, <1>2, <1>3 DEF sendPrepareQc, sendFastPrepareQc, Harmless
<1>7. ASSUME NEW n1, Good(n, n1), n.activeView
      PROVE  Good(n, handlePrepareVote(n1, pm, stop))
  <2> DEFINE n2 == withCert(n1, vote, [n1.cert[vote] EXCEPT !.partialSigInPrepare =
                                         @ \cup {<<pm.from, pm.digest>>}])
  <2>1. n1.prepareTimer[vote].pc # "none"
    BY <1>5, <1>7
  <2>2. Good(n, n2)
    BY <1>1, <1>2, <1>7
  <2> HIDE DEF n2
  <2>3. handlePrepareVote(n1, pm, stop)
          \in {sendFastPrepareQc(n2, vote, pm.digest),
               sendPrepareQc(n2, vote, pm.digest, "handler"), n2}
    BY <2>1 DEF handlePrepareVote, n2
  <2> QED  BY <1>1, <1>6, <2>2, <2>3
<1>8. Good(n, handlePrepareMsg(n, pm, stop))
  <2>1. \A id, c : Good(n, withCert(n, id, c))
    BY <1>2
  <2> QED  BY <1>4, <1>7, <2>1 DEF handlePrepareMsg
<1> QED  BY <1>8 DEF Good

\* The other handlers send nothing that the vote handler or a backup would act on.
LEMMA HandlersMild ==
    ASSUME ~AutoViewChange, NEW n, Timed(n), NEW m
    PROVE  /\ Mild(n, handlePrepareQc(n, m)) /\ Mild(n, handleFastPrepareQc(n, m))
           /\ Mild(n, handleCommitMsg(n, m)) /\ Mild(n, handleCommitQc(n, m))
           /\ Mild(n, recvCheckpoint(n, m))
<1> DEFINE Good(n1, n2) == Timed(n1) => Timed(n2) /\ Mild(n1, n2)
<1>1. \A n1, n2, n3 : Good(n1, n2) /\ Good(n2, n3) => Good(n1, n3)
  BY MildTrans
<1>2. \A n1, id, c : Good(n1, withCert(n1, id, c))
  BY MildSteps DEF Mild, Calm
<1>3. \A n1, x : Harmless(x) => Good(n1, broadcast(n1, x)) /\ Good(n1, sendToLeader(n1, x))
  BY MildSteps DEF Mild, Calm
<1>4. \A n1 : Good(n1, n1) /\ Good(n1, sendViewChange(n1))
  BY MildSteps DEF Mild, Calm
<1>5. \A n1, id : Good(n1, checkIfPrepared(n1, id)) /\ Good(n1, checkIfCommitted(n1, id))
  BY checkIfMild DEF Mild, Calm
<1>6. \A n1, s : /\ Good(n1, [n1 EXCEPT !.signedCommits = s])
                 /\ Good(n1, [n1 EXCEPT !.fastChecks = s])
                 /\ Good(n1, [n1 EXCEPT !.checkpointStore = s])
                 /\ Good(n1, [n1 EXCEPT !.h = s])
  BY DEF Mild, Calm, Silent, Remains, Timed
<1> HIDE DEF Good
<1>7. Good(n, handlePrepareQc(n, m))
  <2>1. \A n1 : Good(n1, sendCommitMsg(n1, m))
    <3> SUFFICES ASSUME NEW n1 PROVE Good(n1, sendCommitMsg(n1, m))
      OBVIOUS
    <3> DEFINE n2 == [n1 EXCEPT !.signedCommits = n1.signedCommits \cup {m}]
               vote == [type |-> "Commit", from |-> n1.replicaId, vote |-> m]
    <3>1. Good(n1, n2) /\ Harmless(vote)
      BY <1>6 DEF Harmless
    <3>2. sendCommitMsg(n1, m) = sendToLeader(n2, vote)
      BY DEF sendCommitMsg
    <3> QED  BY <1>1, <1>3, <3>1, <3>2
  <2> QED  BY <1>1, <1>2, <1>4, <1>5, <2>1 DEF handlePrepareQc
<1>8. Good(n, handleFastPrepareQc(n, m))
  BY <1>1, <1>2, <1>4, <1>6 DEF handleFastPrepareQc
<1>9. Good(n, handleCommitMsg(n, m))
  BY <1>1, <1>2, <1>3, <1>4 DEF handleCommitMsg, Harmless
<1>10. Good(n, handleCommitQc(n, m))
  BY <1>1, <1>2, <1>4, <1>5 DEF handleCommitQc
<1>11. Good(n, recvCheckpoint(n, m))
  <2> DEFINE stores == [n.checkpointStore EXCEPT ![m.sn] = n.checkpointStore[m.sn]
                                                             \cup {m.from}]
             n1 == [n EXCEPT !.checkpointStore = stores]
  <2>1. Good(n, n1) /\ Good(n1, [n1 EXCEPT !.h = m.sn])
    BY <1>6
  <2>2. recvCheckpoint(n, m) \in {n, n1, [n1 EXCEPT !.h = m.sn]}
    BY DEF recvCheckpoint, moveWatermarks
  <2> QED  BY <1>1, <1>4, <2>1, <2>2
<1> QED  BY <1>7, <1>8, <1>9, <1>10, <1>11 DEF Good

\* A pre-prepare makes a backup vote in the view it is in, and the primary count
\* its own vote.
LEMMA handlePrePrepareMsgCalm ==
    ASSUME ~AutoViewChange, NEW n, Timed(n), NEW ppm, NEW stop,
           /\ n.activeView /\ ppm.from = Primary(n.currenView)
           /\ n.replicaId = Primary(n.currenView)
           => n.prepareTimer[<<ppm.sn, n.currenView>>].pc # "none"
    PROVE  LET n2 == handlePrePrepareMsg(n, ppm, stop)
           IN  /\ Calm(n, n2)
               /\ \/ Silent(n, n2)
                  \/ /\ n.activeView /\ ppm.from = Primary(n.currenView)
                     /\ \A x \in n2.out :
                          \/ x \in n.out \/ Harmless(x[2])
                          \/ /\ x[1] = {Primary(n.currenView)}
                             /\ x[2].type = "Prepare" /\ x[2].sn = ppm.sn
                             /\ x[2].view = n.currenView
<1> DEFINE id == <<ppm.sn, ppm.view>>
           stored == withCert(n, id, [n.cert[id] EXCEPT
                                        !.reqBatchStage = "received",
                                        !.reqBatchDigest = ppm.digest])
           n1 == checkIfPrepared(stored, id)
           pm == createPrepareMsg(n1, ppm.sn)
           n2 == Sign(n1, pm)
<1>1. Mild(n, stored) /\ Remains(n, stored) /\ Timed(stored)
  BY MildSteps DEF Mild, Calm
<1>2. Mild(stored, n1) /\ Remains(stored, n1)
  BY <1>1, checkIfMild
<1>3. Mild(n, n1) /\ Remains(n, n1)
  BY <1>1, <1>2, MildTrans
<1> HIDE DEF stored, n1
<1>4. pm.sn = ppm.sn /\ pm.view = n.currenView /\ pm.type = "Prepare"
  BY <1>3 DEF createPrepareMsg, Remains
<1> HIDE DEF pm
<1>5. Mild(n, n2) /\ Remains(n, n2) /\ Timed(n2) /\ n2.currenView = n1.currenView
      /\ n2.replicaId = n1.replicaId
  BY <1>3 DEF Sign, Mild, Calm, Silent, Remains, Timed
<1>6. CastVote(n1, ppm.sn, stop) =
        IF n1.replicaId # Primary(n1.currenView) THEN sendToLeader(n2, pm)
        ELSE handlePrepareMsg(n2, pm, stop)
  BY DEF CastVote, pm
<1> HIDE DEF n2
<1>7. CASE n.activeView /\ ~DistrustsPrePrepare(n, ppm) /\ inWatermarks(n, ppm.sn)
  <2>1. ppm.from = Primary(n.currenView)
    BY <1>7 DEF DistrustsPrePrepare
  <2>2. handlePrePrepareMsg(n, ppm, stop) = CastVote(n1, ppm.sn, stop)
    BY <1>7 DEF handlePrePrepareMsg, n1, stored
  <2>3. n1.replicaId = n.replicaId /\ n1.currenView = n.currenView
    BY <1>3 DEF Mild, Calm, Remains
  <2>4. CASE n.replicaId # Primary(n.currenView)
    <3> DEFINE n3 == sendToLeader(n2, pm)
    <3>1. handlePrePrepareMsg(n, ppm, stop) = n3
      BY <1>6, <2>2, <2>3, <2>4
    <3>2. n3.out = n2.out \cup {<<{Primary(n.currenView)}, pm>>} /\ Calm(n, n3)
      BY <1>5, <2>3 DEF sendToLeader, Mild, Calm, Remains, Timed
    <3>3. \A x \in n3.out : \/ x \in n.out \/ Harmless(x[2])
                            \/ /\ x[1] = {Primary(n.currenView)}
                               /\ x[2].type = "Prepare" /\ x[2].sn = ppm.sn
                               /\ x[2].view = n.currenView
      BY <1>4, <1>5, <3>2 DEF Mild, Silent
    <3> QED  BY <1>7, <2>1, <3>1, <3>2, <3>3
  <2>5. CASE n.replicaId = Primary(n.currenView)
    <3>1. handlePrePrepareMsg(n, ppm, stop) = handlePrepareMsg(n2, pm, stop)
      BY <1>6, <2>2, <2>3, <2>5
    <3>2. n2.prepareTimer = n.prepareTimer
      BY <1>5 DEF Mild, Calm
    <3>3. n2.prepareTimer[<<pm.sn, pm.view>>].pc # "none"
      BY <1>4, <1>7, <2>1, <2>5, <3>2
    <3>4. Mild(n2, handlePrepareMsg(n2, pm, stop))
      BY <1>5, <3>3, handlePrepareMsgMild
    <3>5. Mild(n, handlePrePrepareMsg(n, ppm, stop))
      BY <1>5, <3>1, <3>4, MildTrans
    <3> QED  BY <3>5 DEF Mild
  <2> QED  BY <2>4, <2>5
<1>8. CASE ~(n.activeView /\ ~DistrustsPrePrepare(n, ppm) /\ inWatermarks(n, ppm.sn))
  <2>1. handlePrePrepareMsg(n, ppm, stop) \in {n, sendViewChange(n)}
    BY <1>8 DEF handlePrePrepareMsg
  <2>2. Mild(n, handlePrePrepareMsg(n, ppm, stop))
    BY <2>1, MildSteps
  <2> QED  BY <2>2 DEF Mild
<1> QED  BY <1>7, <1>8

(***************************************************************************)
(* The inductive part of NoPanic.  Asked(id): the first primary, unless it *)
(* has left its view, has a timer for the request.                         *)
(***************************************************************************)
Asked(id) ==
    LET n == node[Primary(0)]
    IN  id \in Ids /\ (n.activeView => n.prepareTimer[id].pc # "none")

InFirstView(r) ==
    ~node[r].panicked /\ (node[r].activeView => node[r].currenView = 0)

\* A vote for, or a pre-prepare of, what the first primary has proposed.
Expected(x) ==
    /\ x[2].type = "Prepare" =>
         x[1] = Primary(0) /\ Asked(<<x[2].sn, x[2].view>>)
    /\ x[2].type = "PrePrepare" =>
         x[2].from = Primary(0) /\ Asked(<<x[2].sn, 0>>)

ProposedInFirstView(b) ==
    proposal[b].pc \in {"spawned", "checked", "created"} =>
    /\ Holder[b] = Primary(0)
    /\ proposal[b].pc = "created" /\ node[Primary(0)].activeView =>
         proposal[b].view = 0

PanicFree == /\ \A r \in Correct : InFirstView(r)
             /\ \A x \in net : Expected(x)
             /\ \A b \in Batches : ProposedInFirstView(b)

\* What a step whose handler forgets no timer leaves true.
LEMMA StepExpected ==
    ASSUME TypeOK, PanicFree, NEW r \in Correct, NEW n, Timed(n), ~n.panicked,
           n.activeView => node[r].activeView /\ n.currenView = node[r].currenView,
           \A id \in Ids : node[r].prepareTimer[id].pc # "none" =>
                             n.prepareTimer[id].pc # "none",
           NEW received, Step(r, n, received)
    PROVE  /\ \A q \in Correct : InFirstView(q)'
           /\ \A id : Asked(id) => Asked(id)'
           /\ node'[Primary(0)].activeView => node[Primary(0)].activeView
           /\ node'[r].prepareTimer = n.prepareTimer
           /\ (\A p \in n.out : \A q \in p[1] \cap Correct : Expected(<<q, p[2]>>)')
              => \A x \in net' : Expected(x)'
           /\ UNCHANGED proposal => \A b \in Batches : ProposedInFirstView(b)'
<1> DEFINE n1 == [n EXCEPT !.out = {}]
<1>1. /\ n1.activeView = n.activeView /\ n1.panicked = n.panicked
      /\ n1.currenView = n.currenView /\ n1.prepareTimer = n.prepareTimer
  BY DEF Timed
<1>2. node' = [node EXCEPT ![r] = n1]
  BY DEF Step
<1> HIDE DEF n1
<1>3. /\ node'[r] = n1
      /\ \A q \in Replicas : q # r => node'[q] = node[q]
      /\ Primary(0) \in Replicas /\ Correct \subseteq Replicas
  BY <1>2, ClusterAssumption DEF TypeOK, Correct, Primary, Replicas
<1>4. \A q \in Correct : InFirstView(q)'
  BY <1>1, <1>3 DEF InFirstView, PanicFree
<1>5. \A id : Asked(id) => Asked(id)'
  BY <1>1, <1>3 DEF Asked
<1>6. node'[Primary(0)].activeView => node[Primary(0)].activeView
  BY <1>1, <1>3
<1>7. ASSUME \A p \in n.out : \A q \in p[1] \cap Correct : Expected(<<q, p[2]>>)'
      PROVE  \A x \in net' : Expected(x)'
  <2>1. PICK sent \in SUBSET n.out :
             net' = (net \ ({r} \X received)) \cup
                    UNION {(p[1] \cap Correct) \X {p[2]} : p \in sent}
    BY DEF Step
  <2> SUFFICES ASSUME NEW x \in net' PROVE Expected(x)'
    OBVIOUS
  <2>2. CASE x \in net
    BY <1>5, <2>2 DEF Expected, PanicFree
  <2>3. CASE x \notin net
    <3>1. PICK p \in sent : x \in (p[1] \cap Correct) \X {p[2]}
      BY <2>1, <2>3
    <3>2. p \in n.out /\ x[1] \in p[1] \cap Correct /\ x[2] = p[2]
          /\ x = <<x[1], p[2]>>
      BY <3>1
    <3> QED  BY <1>7, <3>2
  <2> QED  BY <2>2, <2>3
<1>8. ASSUME UNCHANGED proposal PROVE \A b \in Batches : ProposedInFirstView(b)'
  BY <1>6, <1>8 DEF ProposedInFirstView, PanicFree
<1> QED  BY <1>1, <1>3, <1>4, <1>5, <1>6, <1>7, <1>8

\* Handlers that send neither votes nor proposals.
LEMMA StepMild ==
    ASSUME TypeOK, PanicFree, NEW r \in Correct, NEW n, Mild(node[r], n),
           NEW received, Step(r, n, received), UNCHANGED proposal
    PROVE  PanicFree'
<1>1. node[r].out = {} /\ ~node[r].panicked
  BY DEF TypeOK, PanicFree, InFirstView, Correct
<1>2. /\ Timed(n) /\ ~n.panicked /\ n.prepareTimer = node[r].prepareTimer
      /\ n.activeView => node[r].activeView /\ n.currenView = node[r].currenView
  BY <1>1 DEF Mild, Calm, Remains
<1>3. \A p \in n.out : \A q \in p[1] \cap Correct : Expected(<<q, p[2]>>)'
  BY <1>1 DEF Mild, Silent, Harmless, Expected
<1>4. /\ \A q \in Correct : InFirstView(q)'
      /\ \A x \in net' : Expected(x)'
      /\ \A b \in Batches : ProposedInFirstView(b)'
  BY <1>2, <1>3, StepExpected
<1> QED  BY <1>4 DEF PanicFree

\* RecvPrePrepare: a backup votes for what the first primary has proposed.
LEMMA RecvPrePreparePanicFree ==
    ASSUME ~AutoViewChange, TypeOK, PanicFree, NEW r \in Correct, RecvPrePrepare(r)
    PROVE  PanicFree'
<1> DEFINE n == node[r]
<1>1. PICK m \in Inbox(r, "PrePrepare"), stop \in BOOLEAN :
         Step(r, handlePrePrepareMsg(n, m, stop), {m})
  BY DEF RecvPrePrepare, StopReads
<1>2. /\ n \in Node /\ n.replicaId = r /\ n.out = {} /\ ~n.panicked
      /\ n.activeView => n.currenView = 0
      /\ UNCHANGED proposal
  BY DEF TypeOK, PanicFree, InFirstView, Correct, RecvPrePrepare
<1>3. Timed(n)
  BY <1>2 DEF Node, Timed
<1>4. m.from = Primary(0) => m.from \in Faulty \/ Asked(<<m.sn, 0>>)
  <2>1. PICK x \in net \cup Forged : x[1] = r /\ x[2] = m /\ m.type = "PrePrepare"
    BY DEF Inbox
  <2>2. x \in Forged => m.from \in Faulty
    BY <2>1, ForgeableAssumption DEF Forged
  <2>3. x \in net => Asked(<<m.sn, 0>>)
    BY <2>1 DEF PanicFree, Expected
  <2> QED  BY <2>1, <2>2, <2>3
<1> DEFINE n2 == handlePrePrepareMsg(n, m, stop)
<1>5. /\ n.activeView /\ m.from = Primary(n.currenView)
      /\ n.replicaId = Primary(n.currenView)
      => n.prepareTimer[<<m.sn, n.currenView>>].pc # "none"
  BY <1>2, <1>4 DEF Asked, Correct
<1>6. /\ Calm(n, n2)
      /\ \/ Silent(n, n2)
         \/ /\ n.activeView /\ m.from = Primary(n.currenView)
            /\ \A x \in n2.out :
                 \/ x \in n.out \/ Harmless(x[2])
                 \/ /\ x[1] = {Primary(n.currenView)}
                    /\ x[2].type = "Prepare" /\ x[2].sn = m.sn
                    /\ x[2].view = n.currenView
  BY <1>3, <1>5, handlePrePrepareMsgCalm
<1>7. Step(r, n2, {m})
  BY <1>1
<1> HIDE DEF n2
<1>8. CASE Silent(n, n2)
  BY <1>2, <1>6, <1>7, <1>8, StepMild DEF Mild
<1>9. CASE ~Silent(n, n2)
  <2>1. /\ n.activeView /\ m.from = Primary(0)
        /\ \A x \in n2.out : \/ Harmless(x[2])
                             \/ /\ x[1] = {Primary(0)}
                                /\ x[2].type = "Prepare" /\ x[2].sn = m.sn
                                /\ x[2].view = 0
    BY <1>2, <1>6, <1>9
  <2>2. /\ Timed(n2) /\ ~n2.panicked /\ n2.prepareTimer = n.prepareTimer
        /\ n2.activeView => n.activeView /\ n2.currenView = n.currenView
    BY <1>2, <1>6 DEF Calm, Remains
  <2>3. \A id : Asked(id) => Asked(id)'
    BY <1>7, <2>2, StepExpected
  <2>4. ASSUME NEW x \in n2.out, NEW q \in x[1] \cap Correct
        PROVE  Expected(<<q, x[2]>>)'
    <3>1. CASE Harmless(x[2])
      BY <3>1 DEF Expected, Harmless
    <3>2. CASE ~Harmless(x[2])
      <4>1. q = Primary(0) /\ x[2].type = "Prepare" /\ x[2].sn = m.sn /\ x[2].view = 0
        BY <2>1, <3>2
      <4>2. Asked(<<m.sn, 0>>)'
        BY <1>4, <2>1, <2>3, <4>1 DEF Correct
      <4> QED  BY <4>1, <4>2 DEF Expected
    <3> QED  BY <3>1, <3>2
  <2>5. /\ \A q \in Correct : InFirstView(q)'
        /\ \A x \in net' : Expected(x)'
        /\ \A b \in Batches : ProposedInFirstView(b)'
    BY <1>2, <1>7, <2>2, <2>4, StepExpected
  <2> QED  BY <2>5 DEF PanicFree
<1> QED  BY <1>8, <1>9

\* RecvPrepare: a vote is for something its receiver has proposed.
LEMMA RecvPreparePanicFree ==
    ASSUME \A x \in Forgeable : x[2].type # "Prepare",
           TypeOK, PanicFree, NEW r \in Correct, RecvPrepare(r)
    PROVE  PanicFree'
<1> DEFINE n == node[r]
<1>1. PICK m \in Inbox(r, "Prepare"), stop \in BOOLEAN :
         Step(r, handlePrepareMsg(n, m, stop), {m})
  BY DEF RecvPrepare, StopReads
<1>2. n \in Node /\ UNCHANGED proposal
  BY DEF TypeOK, Correct, RecvPrepare
<1>3. Timed(n)
  BY <1>2 DEF Node, Timed
<1>4. r = Primary(0) /\ Asked(<<m.sn, m.view>>)
  <2>1. PICK x \in net \cup Forged : x[1] = r /\ x[2] = m /\ m.type = "Prepare"
    BY DEF Inbox
  <2>2. x \in net
    BY <2>1 DEF Forged
  <2> QED  BY <2>1, <2>2 DEF PanicFree, Expected
<1>5. n.activeView => n.prepareTimer[<<m.sn, m.view>>].pc # "none"
  BY <1>4 DEF Asked
<1>6. Mild(n, handlePrepareMsg(n, m, stop))
  BY <1>3, <1>5, handlePrepareMsgMild
<1> QED  BY <1>1, <1>2, <1>6, StepMild

\* The other cases of the consumer loop, and the goroutines.
LEMMA OthersPanicFree ==
    ASSUME ~AutoViewChange, TypeOK, PanicFree, NEW r \in Correct,
           \/ RecvPrepareQc(r) \/ RecvFastPrepareQc(r) \/ RecvCommit(r)
           \/ RecvCommitQc(r) \/ RecvCheckpoint(r) \/ goCheckIfPrepared(r)
    PROVE  PanicFree'
<1> DEFINE n == node[r]
<1>1. Timed(n) /\ n \in Node
  BY DEF TypeOK, Correct, Node, Timed
<1>2. \A n2, received :
        Mild(n, n2) /\ Step(r, n2, received) /\ UNCHANGED proposal => PanicFree'
  BY StepMild
<1>3. CASE \/ RecvPrepareQc(r) \/ RecvFastPrepareQc(r) \/ RecvCommit(r)
           \/ RecvCommitQc(r) \/ RecvCheckpoint(r)
  BY <1>1, <1>2, <1>3, HandlersMild
     DEF RecvPrepareQc, RecvFastPrepareQc, RecvCommit, RecvCommitQc, RecvCheckpoint
<1>4. CASE goCheckIfPrepared(r)
  <2>1. PICK id \in n.fastChecks :
             Step(r, checkIfPrepared([n EXCEPT !.fastChecks = @ \ {id}], id), {})
    BY <1>4 DEF goCheckIfPrepared
  <2> DEFINE n1 == [n EXCEPT !.fastChecks = @ \ {id}]
  <2>2. Mild(n, n1) /\ Timed(n1)
    BY <1>1 DEF Mild, Calm, Silent, Remains, Timed
  <2>3. Step(r, checkIfPrepared(n1, id), {})
    BY <2>1
  <2> HIDE DEF n1
  <2>4. Mild(n1, checkIfPrepared(n1, id))
    BY <2>2, checkIfMild
  <2>5. UNCHANGED proposal
    BY <1>4 DEF goCheckIfPrepared
  <2> QED  BY <1>2, <2>2, <2>3, <2>4, <2>5, MildTrans
<1> QED  BY <1>3, <1>4

\* The fast-path timer's goroutine stops its timer, and never forgets it.
LEMMA TimerPanicFree ==
    ASSUME TypeOK, PanicFree, NEW r \in Correct,
           prepareTimerFires(r) \/ prepareTimerSends(r)
    PROVE  PanicFree'
<1> DEFINE n == node[r]
           Stopping(n2) ==
              /\ Timed(n2) /\ ~n2.panicked /\ Remains(n, n2)
              /\ \A x \in n2.out : Harmless(x[2])
              /\ \A id \in Ids : n.prepareTimer[id].pc # "none" =>
                                   n2.prepareTimer[id].pc # "none"
<1>1. /\ Timed(n) /\ n.out = {} /\ ~n.panicked
      /\ n.prepareTimer \in [Ids -> FastTimer]
  BY DEF TypeOK, PanicFree, InFirstView, Correct, Node, Timed
<1>2. ASSUME NEW id \in Ids, NEW pc, NEW batch, pc # "none"
      PROVE  Stopping(withTimer(n, id, pc, batch))
  BY <1>1, <1>2 DEF withTimer, Timed, Remains
<1>3. ASSUME NEW n2, Stopping(n2), Step(r, n2, {}), UNCHANGED proposal
      PROVE  PanicFree'
  <2>1. n2.activeView => n.activeView /\ n2.currenView = n.currenView
    BY <1>3 DEF Remains
  <2>2. \A p \in n2.out : \A q \in p[1] \cap Correct : Expected(<<q, p[2]>>)'
    BY <1>3 DEF Harmless, Expected
  <2>3. /\ \A q \in Correct : InFirstView(q)'
        /\ \A x \in net' : Expected(x)'
        /\ \A b \in Batches : ProposedInFirstView(b)'
    BY <1>3, <2>1, <2>2, StepExpected
  <2> QED  BY <2>3 DEF PanicFree
<1>4. CASE prepareTimerFires(r)
  <2>1. PICK id \in Ids, pc \in {"checked", "stopped"} :
             Step(r, withTimer(n, id, pc, n.prepareTimer[id].batch), {})
    BY <1>4 DEF prepareTimerFires
  <2>2. Stopping(withTimer(n, id, pc, n.prepareTimer[id].batch))
    BY <1>2
  <2> HIDE DEF Stopping
  <2> QED  BY <1>3, <1>4, <2>1, <2>2 DEF prepareTimerFires
<1>5. CASE prepareTimerSends(r)
  <2> DEFINE batch(id) == n.prepareTimer[id].batch
  <2>1. PICK id \in Ids :
             Step(r, sendPrepareQc(withTimer(n, id, "stopped", batch(id)),
                                   id, batch(id), "timer"), {})
    BY <1>5 DEF prepareTimerSends
  <2> DEFINE n1 == withTimer(n, id, "stopped", batch(id))
             n2 == sendPrepareQc(n1, id, batch(id), "timer")
  <2> HIDE DEF batch
  <2>2. Stopping(n1)
    BY <1>2
  <2>3. Step(r, n2, {})
    BY <2>1
  <2> HIDE DEF n1
  <2>4. Stopping(n2)
    BY <2>2 DEF sendPrepareQc, withCert, broadcast, Timed, Remains, Harmless
  <2> HIDE DEF n2, Stopping
  <2> QED  BY <1>3, <1>5, <2>3, <2>4 DEF prepareTimerSends
<1> QED  BY <1>4, <1>5

\* broadcastPrePrepareMsg starts the timer before it sends, and a primary that is
\* still active has made the proposal for the first view.
LEMMA ProposePanicFree ==
    ASSUME TypeOK, PanicFree, NEW b \in Batches, Propose(b)
    PROVE  PanicFree'
<1> DEFINE r == Holder[b]
           n == node[r]
<1>1. r \in Correct /\ r \in Replicas /\ n \in Node /\ n.replicaId = r /\ n.out = {}
      /\ ~n.panicked /\ (n.activeView => n.currenView = 0)
  BY DEF Propose, sendBatch, checkProposalWindow, createPrePrepareMsg,
         broadcastPrePrepareMsg, Stage, Running, TypeOK, Correct, PanicFree,
         InFirstView
<1>2. /\ proposal \in [Batches -> Proposal]
      /\ \A c \in Batches : ProposedInFirstView(c)
  BY DEF TypeOK, PanicFree
<1>3. ASSUME UNCHANGED <<node, net>>, \A c \in Batches : ProposedInFirstView(c)'
      PROVE  PanicFree'
  BY <1>3 DEF PanicFree, InFirstView, Expected, Asked
<1>4. CASE sendBatch(b)
  <2>1. n.activeView /\ Primary(n.currenView) = n.replicaId => r = Primary(0)
    BY <1>1
  <2>2. \A c \in Batches : ProposedInFirstView(c)'
    BY <1>2, <1>4, <2>1 DEF sendBatch, Stage, ProposedInFirstView
  <2> QED  BY <1>3, <1>4, <2>2 DEF sendBatch
<1>5. CASE checkProposalWindow(b)
  <2>1. \A c \in Batches : ProposedInFirstView(c)'
    BY <1>2, <1>5 DEF checkProposalWindow, Stage, ProposedInFirstView
  <2> QED  BY <1>3, <1>5, <2>1 DEF checkProposalWindow
<1>6. CASE createPrePrepareMsg(b)
  <2>1. \A c \in Batches : ProposedInFirstView(c)'
    BY <1>1, <1>2, <1>6 DEF createPrePrepareMsg, Stage, ProposedInFirstView
  <2> QED  BY <1>3, <1>6, <2>1 DEF createPrePrepareMsg
<1>7. CASE broadcastPrePrepareMsg(b)
  <2> DEFINE id == <<n.nextSN, proposal[b].view>>
             ppm == [type |-> "PrePrepare", from |-> n.replicaId, sn |-> id[1],
                     view |-> id[2], digest |-> b]
             n1 == withTimer([n EXCEPT !.nextSN = @ + 1], id, "running", b)
             n2 == broadcast(n1, ppm)
  <2>1. /\ n.nextSN \in SNs /\ proposal[b].pc = "created"
        /\ proposal' = [proposal EXCEPT ![b] = [pc |-> "proposed", view |-> id[2]]]
        /\ Step(r, n2, {})
    BY <1>7 DEF broadcastPrePrepareMsg, Stage
  <2>2. id \in Ids /\ <<n.nextSN, 0>> \in Ids
    BY <1>2, <2>1, ParameterAssumption DEF Proposal, Ids, Views
  <2>3. n.prepareTimer \in [Ids -> FastTimer] /\ Timed(n)
    BY <1>1 DEF Node, Timed
  <2>4. /\ Timed(n2) /\ ~n2.panicked /\ Remains(n, n2)
        /\ n2.out = {<<Replicas, ppm>>}
        /\ \A i \in Ids : n.prepareTimer[i].pc # "none" => n2.prepareTimer[i].pc # "none"
        /\ n2.prepareTimer[id].pc = "running"
    BY <1>1, <2>2, <2>3 DEF withTimer, broadcast, Timed, Remains
  <2>5. ppm.type = "PrePrepare" /\ ppm.from = r /\ ppm.sn = n.nextSN
    BY <1>1
  <2> HIDE DEF n2, ppm, r
  <2>6. /\ \A q \in Correct : InFirstView(q)'
        /\ node'[Primary(0)].activeView => node[Primary(0)].activeView
        /\ node'[r].prepareTimer = n2.prepareTimer
        /\ (\A p \in n2.out : \A q \in p[1] \cap Correct : Expected(<<q, p[2]>>)')
           => \A x \in net' : Expected(x)'
    BY <1>1, <2>1, <2>4, StepExpected DEF Remains
  <2>7. r = Primary(0) /\ (n.activeView => proposal[b].view = 0)
    BY <1>2, <2>1 DEF ProposedInFirstView, r
  <2>8. PICK sn : sn = n.nextSN
    OBVIOUS
  <2>9. Asked(<<sn, 0>>)'
    BY <2>2, <2>4, <2>6, <2>7, <2>8 DEF Asked
  <2>10. PICK q : q = ppm
    OBVIOUS
  <2>11. \A x \in net' : Expected(x)'
    <3>1. q.type = "PrePrepare" /\ q.from = Primary(0) /\ q.sn = sn
      BY <2>5, <2>7, <2>8, <2>10
    <3>2. \A p \in n2.out : \A i \in p[1] \cap Correct : Expected(<<i, p[2]>>)'
      BY <2>4, <2>9, <2>10, <3>1 DEF Expected
    <3> QED  BY <2>6, <3>2
  <2>12. \A c \in Batches : ProposedInFirstView(c)'
    BY <1>2, <2>1, <2>6 DEF ProposedInFirstView
  <2> QED  BY <2>6, <2>11, <2>12 DEF PanicFree
<1> QED  BY <1>4, <1>5, <1>6, <1>7 DEF Propose

\* Without a planned change of primary, and unless a faulty replica votes for what
\* was never proposed, no replica panics: the vote handler, handlePrepareVote
\* (core.go), finds the timer it dereferences without a check.
THEOREM VotesFindTimers ==
    ASSUME ~AutoViewChange, \A x \in Forgeable : x[2].type # "Prepare"
    PROVE  Spec => []NoPanic
<1>1. Init => PanicFree
  <2> SUFFICES ASSUME Init PROVE PanicFree
    OBVIOUS
  <2>1. \A r \in Correct : ~node[r].panicked /\ node[r].currenView = 0
    BY DEF Init, NewNode, Correct
  <2>2. net = {} /\ \A b \in Batches : proposal[b].pc = "pooled"
    BY DEF Init
  <2> QED  BY <2>1, <2>2 DEF PanicFree, InFirstView, ProposedInFirstView
<1>2. Inv /\ PanicFree /\ [Next]_vars => PanicFree'
  <2> SUFFICES ASSUME Inv, PanicFree, [Next]_vars PROVE PanicFree'
    OBVIOUS
  <2>1. TypeOK
    BY DEF Inv
  <2>2. CASE UNCHANGED vars
    BY <2>2 DEF vars, PanicFree, InFirstView, Expected, Asked, ProposedInFirstView
  <2>3. ASSUME NEW b \in Batches, Propose(b) PROVE PanicFree'
    BY <2>1, <2>3, ProposePanicFree
  <2>4. ASSUME NEW r \in Correct, prepareTimerFires(r) \/ prepareTimerSends(r)
        PROVE  PanicFree'
    BY <2>1, <2>4, TimerPanicFree
  <2>5. ASSUME NEW r \in Correct, goCheckIfPrepared(r) \/ Receive(r)
        PROVE  PanicFree'
    BY <1>1, <2>1, <2>5, RecvPrePreparePanicFree, RecvPreparePanicFree,
       OthersPanicFree DEF Receive
  <2> QED  BY <2>2, <2>3, <2>4, <2>5 DEF Next
<1>3. PanicFree => NoPanic
  BY DEF PanicFree, InFirstView, NoPanic
<1> QED  BY <1>1, <1>2, <1>3, Invariant, PTL DEF Spec
=============================================================================
