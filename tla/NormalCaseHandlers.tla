------------------------- MODULE NormalCaseHandlers -------------------------
(***************************************************************************)
(* Lemmas about the handlers of NormalCase: what one call does to a Node.  *)
(* NormalCaseProofs combines them into theorems about the specification.   *)
(***************************************************************************)
EXTENDS NormalCase, FiniteSetTheorems, TLAPS

(***************************************************************************)
(* A vote is a pair of a replica and what it has signed.  V holds the      *)
(* votes of the other replicas: a handler does not change them.            *)
(***************************************************************************)
Votes(n, V) == V \cup ({n.replicaId} \X n.signed)

Voters(W, id, digest) == {r \in Replicas : <<r, <<id, digest>>>> \in W}

Backed(W, id, digest) == Cardinality(Voters(W, id, digest)) >= SlowQuorum(N)

QcSound(qc, W) == Backed(W, <<qc.sn, qc.view>>, qc.digest)

MsgSound(m, W) ==
    /\ m.type = "Prepare" => <<m.from, <<<<m.sn, m.view>>, m.digest>>>> \in W
    /\ m.type \in {"PrepareQc", "FastPrepareQc"} => QcSound(m, W)

CertSound(id, cert, W) ==
    /\ \A s \in cert.partialSigInPrepare : <<s[1], <<id, s[2]>>>> \in W
    /\ cert.prepareQc # Nil => QcSound(cert.prepareQc, W)
    /\ cert.fastPrepareQc # Nil => QcSound(cert.fastPrepareQc, W)

(***************************************************************************)
(* Sound(n, V): the replica has signed only the batch of its certificate,  *)
(* and every vote it has counted, every certificate it holds or sends and  *)
(* the one its timer is about to send are backed by votes.                 *)
(***************************************************************************)
Sound(n, V) ==
    /\ \A x \in n.signed : x[2] # Nil => n.cert[x[1]].reqBatchDigest = x[2]
    /\ \A id \in Ids : CertSound(id, n.cert[id], Votes(n, V))
    /\ \A id \in Ids : n.prepareTimer[id].pc = "checked" =>
                         Backed(Votes(n, V), id, n.prepareTimer[id].batch)
    /\ \A p \in n.out : MsgSound(p[2], Votes(n, V))

HonestCheckpoint(n, m) ==
    m.type = "Checkpoint" =>
        m.from = n.replicaId /\ m.sn <= n.lastExec /\ m.sn % T = 0

(***************************************************************************)
(* Moves(n, n2, V): the struct n2 is well-formed, belongs to the replica   *)
(* of n, agrees with n on the checkpoints received, has executed and       *)
(* signed at least as much, sends in addition only checkpoints of what it  *)
(* has executed, and is sound.  Every handler but recvCheckpoint moves a   *)
(* sound node.                                                             *)
(***************************************************************************)
Moves(n, n2, V) ==
    /\ n2 \in Node
    /\ n2.replicaId = n.replicaId
    /\ n2.h = n.h /\ n2.checkpointStore = n.checkpointStore
    /\ n.lastExec <= n2.lastExec
    /\ n.signed \subseteq n2.signed
    /\ \A p \in n2.out : p \in n.out \/ HonestCheckpoint(n2, p[2])
    /\ Sound(n2, V)
-----------------------------------------------------------------------------
\* More votes back everything that fewer votes back.
LEMMA BackedMono ==
    ASSUME NEW W, NEW W2, W \subseteq W2, NEW id, NEW d, Backed(W, id, d)
    PROVE  Backed(W2, id, d)
<1>1. IsFiniteSet(Replicas)
  BY FS_Interval, ClusterAssumption DEF Replicas
<1>2. IsFiniteSet(Voters(W2, id, d))
  BY <1>1, FS_Subset DEF Voters
<1>3. Cardinality(Voters(W, id, d)) <= Cardinality(Voters(W2, id, d))
  BY <1>2, FS_Subset DEF Voters
<1>4. /\ Cardinality(Voters(W, id, d)) \in Nat
      /\ Cardinality(Voters(W2, id, d)) \in Nat
  BY <1>1, FS_Subset, FS_CardinalityType DEF Voters
<1>5. SlowQuorum(N) \in Int
  BY ClusterAssumption DEF SlowQuorum, F
<1> QED  BY <1>3, <1>4, <1>5 DEF Backed

\* A sound node that does nothing moves.
LEMMA MovesRefl ==
    ASSUME NEW V, NEW n \in Node, Sound(n, V)
    PROVE  Moves(n, n, V)
BY DEF Moves, Node

\* Moves compose: a handler may call another.
LEMMA MovesTrans ==
    ASSUME NEW V, NEW n0 \in Node, NEW n1, NEW n2,
           Moves(n0, n1, V), Moves(n1, n2, V)
    PROVE  Moves(n0, n2, V)
<1>1. \A p \in n2.out : p \in n0.out \/ HonestCheckpoint(n2, p[2])
  <2> SUFFICES ASSUME NEW p \in n2.out, p \in n1.out, p \notin n0.out
               PROVE  HonestCheckpoint(n2, p[2])
    BY DEF Moves
  <2>1. HonestCheckpoint(n1, p[2])
    BY DEF Moves
  <2>2. p[2].type = "Checkpoint" => p[2].sn \in Nat
    BY DEF Moves, Node, Message, PrePrepareMsg, PrepareMsg, PrepareQc,
           FastPrepareQc, CommitMsg, CommitQc, CheckpointMsg, ViewChangeMsg, SNs
  <2>3. n1.lastExec \in Nat /\ n2.lastExec \in Nat
    BY DEF Moves, Node
  <2> QED  BY <2>1, <2>2, <2>3 DEF Moves, HonestCheckpoint
<1>2. n0.lastExec \in Nat /\ n1.lastExec \in Nat /\ n2.lastExec \in Nat
  BY DEF Moves, Node
<1> QED  BY <1>1, <1>2 DEF Moves

\* A handler that leaves the votes, certificates and timers alone, and sends
\* neither votes nor prepare certificates, moves its node.
LEMMA FrameMoves ==
    ASSUME NEW V, NEW n \in Node, Sound(n, V), NEW n2 \in Node,
           n2.replicaId = n.replicaId, n2.h = n.h,
           n2.checkpointStore = n.checkpointStore, n2.signed = n.signed,
           n2.cert = n.cert, n2.prepareTimer = n.prepareTimer,
           n.lastExec <= n2.lastExec,
           \A p \in n2.out : \/ p \in n.out
                             \/ /\ HonestCheckpoint(n2, p[2])
                                /\ MsgSound(p[2], Votes(n, V))
    PROVE  Moves(n, n2, V)
<1>1. Votes(n2, V) = Votes(n, V)
  BY DEF Votes
<1>2. Sound(n2, V)
  BY <1>1 DEF Sound
<1> QED  BY <1>2 DEF Moves

\* broadcast (node.go) moves a node if the message is backed by votes.
LEMMA broadcastMoves ==
    ASSUME NEW V, NEW n \in Node, Sound(n, V), NEW m \in Message, m.type # "Checkpoint",
           MsgSound(m, Votes(n, V))
    PROVE  Moves(n, broadcast(n, m), V)
<1> DEFINE n2 == broadcast(n, m)
<1>1. /\ n2 \in Node /\ n2.replicaId = n.replicaId /\ n2.h = n.h
      /\ n2.checkpointStore = n.checkpointStore /\ n2.lastExec = n.lastExec
      /\ n2.signed = n.signed /\ n2.cert = n.cert
      /\ n2.prepareTimer = n.prepareTimer
  BY DEF broadcast, Node
<1>2. \A p \in n2.out : p \in n.out \/ p[2] = m
  BY DEF broadcast, Node
<1>3. n.lastExec <= n2.lastExec
  BY <1>1 DEF Node
<1> HIDE DEF n2
<1>4. Moves(n, n2, V)
  BY <1>1, <1>2, <1>3, FrameMoves DEF HonestCheckpoint
<1> QED  BY <1>4 DEF n2

\* sendToLeader (node.go) moves a node if the message is backed by votes.
LEMMA sendToLeaderMoves ==
    ASSUME NEW V, NEW n \in Node, Sound(n, V), NEW m \in Message, m.type # "Checkpoint",
           MsgSound(m, Votes(n, V))
    PROVE  Moves(n, sendToLeader(n, m), V)
<1> DEFINE n2 == sendToLeader(n, m)
<1>1. Primary(n.currenView) \in Replicas
  BY ClusterAssumption, ParameterAssumption DEF Primary, Replicas, Node, Views
<1>2. /\ n2 \in Node /\ n2.replicaId = n.replicaId /\ n2.h = n.h
      /\ n2.checkpointStore = n.checkpointStore /\ n2.lastExec = n.lastExec
      /\ n2.signed = n.signed /\ n2.cert = n.cert
      /\ n2.prepareTimer = n.prepareTimer
  BY <1>1 DEF sendToLeader, Node
<1>3. \A p \in n2.out : p \in n.out \/ p[2] = m
  BY DEF sendToLeader, Node
<1>4. n.lastExec <= n2.lastExec
  BY <1>2 DEF Node
<1> HIDE DEF n2
<1>5. Moves(n, n2, V)
  BY <1>2, <1>3, <1>4, FrameMoves DEF HonestCheckpoint
<1> QED  BY <1>5 DEF n2

\* sendViewChange (viewchange.go) moves a node.
LEMMA sendViewChangeMoves ==
    ASSUME NEW V, NEW n \in Node, Sound(n, V), n.currenView < MaxView
    PROVE  Moves(n, sendViewChange(n), V)
<1> DEFINE live == ReportedIds(n)
           vc == [type |-> "ViewChange", from |-> n.replicaId,
               view |-> n.currenView + 1, lastStableCk |-> n.h,
               pset |-> {p \in live \X Batches :
                           p[2] = n.cert[p[1]].reqBatchDigest},
               qset |-> {n.cert[id].prepareQc : id \in live} \ {Nil}]
           left == [n EXCEPT !.currenView = @ + 1, !.activeView = FALSE]
<1>1. n.currenView + 1 \in Views
  BY ParameterAssumption DEF Node, Views
<1>2. vc.pset \in SUBSET (Ids \X Batches)
  BY DEF ReportedIds
<1>3. vc.qset \in SUBSET PrepareQc
  BY DEF Node, MsgCert, ReportedIds
<1>4. vc \in Message /\ vc.type = "ViewChange"
  BY <1>1, <1>2, <1>3 DEF Message, ViewChangeMsg, Node
<1>5. left \in Node
  BY <1>1 DEF Node
<1>6. /\ left.replicaId = n.replicaId /\ left.h = n.h /\ left.out = n.out
      /\ left.checkpointStore = n.checkpointStore
      /\ left.lastExec = n.lastExec /\ n.lastExec \in Nat
      /\ left.signed = n.signed /\ left.cert = n.cert
      /\ left.prepareTimer = n.prepareTimer
  BY DEF Node
<1> HIDE DEF vc, left
<1>7. Moves(n, left, V)
  <2>1. n.lastExec <= left.lastExec
    BY <1>6
  <2>2. \A p \in left.out : p \in n.out
    BY <1>6
  <2> QED  BY <1>5, <1>6, <2>1, <2>2, FrameMoves
<1>8. Moves(left, broadcast(left, vc), V)
  BY <1>4, <1>5, <1>7, broadcastMoves DEF MsgSound, Moves
<1>9. Moves(n, broadcast(left, vc), V)
  BY <1>7, <1>8, MovesTrans
<1> QED  BY <1>9 DEF sendViewChange, left, vc

\* The numbers from a+1 to b are b-a many.
LEMMA IntervalCardinality ==
    ASSUME NEW a \in Nat, NEW b \in Nat, a < b
    PROVE  Cardinality((a + 1)..b) = b - a
<1>1. a + 1 \in Int /\ b \in Int /\ ~(a + 1 > b)
  OBVIOUS
<1>2. Cardinality((a + 1)..b) = b - (a + 1) + 1
  BY <1>1, FS_Interval
<1> QED  BY <1>2

\* The loop of executeRequest goes through consecutive numbers, from the one
\* after lastExec.
LEMMA ExecutionRunIsInterval ==
    ASSUME NEW n \in Node, NEW sn, NEW buffer
    PROVE  LET run == ExecutionRun(n, sn, buffer)
           IN  /\ IsFiniteSet(run) /\ Cardinality(run) \in Nat
               /\ run = (n.lastExec + 1)..(n.lastExec + Cardinality(run))
<1> DEFINE run == ExecutionRun(n, sn, buffer)
           a == n.lastExec
           k == Cardinality(run)
<1>1. IsFiniteSet(run) /\ k \in Nat
  <2>1. IsFiniteSet(SNs)
    BY FS_Interval, ParameterAssumption DEF SNs
  <2>2. IsFiniteSet(run)
    BY <2>1, FS_Subset DEF ExecutionRun
  <2> QED  BY <2>2, FS_CardinalityType
<1>2. a \in Nat
  BY DEF Node
<1>3. ASSUME NEW i \in run
      PROVE  i \in (a + 1)..(a + k)
  <2>1. i \in Nat /\ a < i
    BY ParameterAssumption DEF SNs, ExecutionRun
  <2>2. (a + 1)..i \subseteq run
    BY <1>2, <2>1, ParameterAssumption DEF SNs, ExecutionRun
  <2>3. Cardinality((a + 1)..i) <= k
    BY <1>1, <2>2, FS_Subset
  <2>4. Cardinality((a + 1)..i) = i - a
    BY <1>2, <2>1, IntervalCardinality
  <2> HIDE DEF run, a, k
  <2> QED  BY <1>1, <1>2, <2>1, <2>3, <2>4
<1> HIDE DEF a, k
<1>4. run \subseteq (a + 1)..(a + k)
  BY <1>3
<1>5. Cardinality((a + 1)..(a + k)) = k
  <2>1. CASE k = 0
    <3>1. (a + 1)..(a + k) = {}
      BY <1>2, <2>1
    <3> QED  BY <2>1, <3>1, FS_EmptySet
  <2>2. CASE k > 0
    <3>1. a + k \in Nat /\ a < a + k /\ (a + k) - a = k
      BY <1>1, <1>2, <2>2
    <3> QED  BY <1>2, <3>1, IntervalCardinality
  <2> QED  BY <1>1, <2>1, <2>2
<1>6. IsFiniteSet((a + 1)..(a + k))
  <2>1. a + 1 \in Int /\ a + k \in Int
    BY <1>1, <1>2
  <2> QED  BY <2>1, FS_Interval
<1>7. run = (a + 1)..(a + k)
  BY <1>4, <1>5, <1>6, FS_Subset DEF k
<1> QED  BY <1>1, <1>7 DEF a, k

\* The loop of executeRequest (core.go) moves a node: it executes up to what it
\* announces in checkpoints.
LEMMA executedMoves ==
    ASSUME NEW V, NEW n \in Node, Sound(n, V), NEW id \in Ids
    PROVE  LET buffer == [n.execReqBuffer EXCEPT
                            ![id[1]] = n.cert[id].reqBatchDigest]
               run == ExecutionRun(n, id[1], buffer)
               chkpts == {[type |-> "Checkpoint", from |-> n.replicaId,
                           sn |-> i] : i \in {j \in run : checkIfCreateChkpt(j)}}
           IN  Moves(n, [n EXCEPT
                  !.execReqBuffer = buffer,
                  !.lastExec = @ + Cardinality(run),
                  !.executed = [i \in SNs |-> IF i \in run THEN buffer[i]
                                              ELSE @[i]],
                  !.out = @ \cup {<<Replicas, c>> : c \in chkpts}], V)
<1> DEFINE buffer == [n.execReqBuffer EXCEPT ![id[1]] = n.cert[id].reqBatchDigest]
           run == ExecutionRun(n, id[1], buffer)
           chkpts == {[type |-> "Checkpoint", from |-> n.replicaId, sn |-> i] :
                     i \in {j \in run : checkIfCreateChkpt(j)}}
           done == [n EXCEPT
            !.execReqBuffer = buffer,
            !.lastExec = @ + Cardinality(run),
            !.executed = [i \in SNs |-> IF i \in run THEN buffer[i] ELSE @[i]],
            !.out = @ \cup {<<Replicas, c>> : c \in chkpts}]
           sends == {<<Replicas, c>> : c \in chkpts}
           history == [i \in SNs |-> IF i \in run THEN buffer[i]
                                     ELSE n.executed[i]]
<1>1. buffer \in [SNs -> Digests]
  BY DEF Node, MsgCert, Ids
<1>2. /\ Cardinality(run) \in Nat
      /\ run = (n.lastExec + 1)..(n.lastExec + Cardinality(run))
  BY ExecutionRunIsInterval
<1>3. \A i \in run : i <= n.lastExec + Cardinality(run)
  BY <1>2 DEF Node
<1>4. chkpts \subseteq Message
  BY DEF Message, CheckpointMsg, Node, ExecutionRun
<1>5. n.out \cup sends \in SUBSET ((SUBSET Replicas) \X Message)
  BY <1>4 DEF Node
<1>6. history \in [SNs -> Digests]
  BY <1>1 DEF Node
<1>7. n.lastExec \in Nat /\ n.lastExec + Cardinality(run) \in Nat
  BY <1>2 DEF Node
<1>8. \A p \in sends : /\ p[2].type = "Checkpoint" /\ p[2].from = n.replicaId
                       /\ p[2].sn <= n.lastExec + Cardinality(run)
                       /\ p[2].sn % T = 0
  BY <1>3 DEF checkIfCreateChkpt
<1> HIDE DEF buffer, run, sends, history
<1>9. /\ [n EXCEPT !.execReqBuffer = buffer,
                   !.lastExec = n.lastExec + Cardinality(run),
                   !.executed = history, !.out = n.out \cup sends] \in Node
  BY <1>1, <1>5, <1>6, <1>7 DEF Node
<1>10. done \in Node
  BY <1>9 DEF sends, history
<1>11. /\ done.currenView = n.currenView /\ done.replicaId = n.replicaId
       /\ done.h = n.h /\ done.checkpointStore = n.checkpointStore
       /\ done.lastExec = n.lastExec + Cardinality(run)
       /\ done.out = n.out \cup sends
       /\ done.signed = n.signed /\ done.cert = n.cert
       /\ done.prepareTimer = n.prepareTimer
  BY DEF Node, sends
<1> HIDE DEF done
<1>12. Moves(n, done, V)
  <2>1. \A p \in done.out :
          \/ p \in n.out
          \/ HonestCheckpoint(done, p[2]) /\ MsgSound(p[2], Votes(n, V))
    BY <1>8, <1>11 DEF HonestCheckpoint, MsgSound
  <2>2. n.lastExec <= done.lastExec
    BY <1>2, <1>7, <1>11
  <2> QED  BY <1>10, <1>11, <2>1, <2>2, FrameMoves
<1> QED  BY <1>12 DEF done, chkpts, run, buffer

\* executeRequest (core.go) moves a node.
LEMMA executeRequestMoves ==
    ASSUME NEW V, NEW n \in Node, Sound(n, V), n.currenView < MaxView, NEW id \in Ids
    PROVE  Moves(n, executeRequest(n, id), V)
<1> DEFINE buffer == [n.execReqBuffer EXCEPT ![id[1]] = n.cert[id].reqBatchDigest]
           run == ExecutionRun(n, id[1], buffer)
           chkpts == {[type |-> "Checkpoint", from |-> n.replicaId, sn |-> i] :
                     i \in {j \in run : checkIfCreateChkpt(j)}}
           done == [n EXCEPT
            !.execReqBuffer = buffer,
            !.lastExec = @ + Cardinality(run),
            !.executed = [i \in SNs |-> IF i \in run THEN buffer[i] ELSE @[i]],
            !.out = @ \cup {<<Replicas, c>> : c \in chkpts}]
<1>1. Moves(n, done, V)
  BY executedMoves
<1>2. done.currenView = n.currenView
  BY DEF Node
<1> HIDE DEF done
<1>3. Moves(n, sendViewChange(done), V)
  BY <1>1, <1>2, sendViewChangeMoves, MovesTrans DEF Moves
<1> QED  BY <1>1, <1>3 DEF executeRequest, done, chkpts, run, buffer

(***************************************************************************)
(* Updates of a certificate.                                               *)
(***************************************************************************)
LEMMA withCertMoves ==
    ASSUME NEW V, NEW n \in Node, Sound(n, V), NEW id \in Ids, NEW c \in MsgCert,
           \/ c.reqBatchDigest = n.cert[id].reqBatchDigest
           \/ n.cert[id].reqBatchDigest = Nil,
           CertSound(id, c, Votes(n, V))
    PROVE  /\ withCert(n, id, c) \in Node
           /\ withCert(n, id, c).currenView = n.currenView
           /\ withCert(n, id, c).cert[id] = c
           /\ withCert(n, id, c).replicaId = n.replicaId
           /\ Votes(withCert(n, id, c), V) = Votes(n, V)
           /\ Moves(n, withCert(n, id, c), V)
<1> DEFINE n2 == withCert(n, id, c)
<1>1. n2 \in Node
  BY DEF Node, withCert
<1>2. /\ n2.currenView = n.currenView /\ n2.replicaId = n.replicaId
      /\ n2.h = n.h /\ n2.checkpointStore = n.checkpointStore
      /\ n2.lastExec = n.lastExec /\ n2.out = n.out
      /\ n2.signed = n.signed /\ n2.prepareTimer = n.prepareTimer
  BY DEF Node, withCert
<1>3. n2.cert = [n.cert EXCEPT ![id] = c] /\ n.cert \in [Ids -> MsgCert]
  BY DEF Node, withCert
<1>4. n.lastExec \in Nat /\ n.signed \subseteq Ids \X Digests
  BY DEF Node
<1> HIDE DEF n2
<1>5. Votes(n2, V) = Votes(n, V)
  BY <1>2 DEF Votes
<1>6. Sound(n2, V)
  <2>1. ASSUME NEW x \in n2.signed, x[2] # Nil
        PROVE  n2.cert[x[1]].reqBatchDigest = x[2]
    <3>1. x \in n.signed /\ x[1] \in Ids
      BY <1>2, <1>4
    <3>2. n.cert[x[1]].reqBatchDigest = x[2]
      BY <2>1, <3>1 DEF Sound
    <3>3. CASE x[1] = id
      BY <1>3, <2>1, <3>2, <3>3
    <3>4. CASE x[1] # id
      BY <1>3, <3>1, <3>2, <3>4
    <3> QED  BY <3>3, <3>4
  <2>2. ASSUME NEW i \in Ids PROVE CertSound(i, n2.cert[i], Votes(n2, V))
    BY <1>3, <1>5 DEF Sound
  <2> QED  BY <1>2, <1>5, <2>1, <2>2 DEF Sound
<1>7. n.lastExec <= n2.lastExec
  BY <1>2, <1>4
<1>8. Moves(n, n2, V)
  BY <1>1, <1>2, <1>6, <1>7 DEF Moves
<1> QED  BY <1>1, <1>2, <1>3, <1>5, <1>8 DEF n2

\* The certificate that getCert returns is well-formed.
LEMMA certType ==
    ASSUME NEW n \in Node, NEW id \in Ids
    PROVE  n.cert[id] \in MsgCert
BY DEF Node

\* A certificate that differs from the node's in other fields is sound too.
LEMMA SameCertMoves ==
    ASSUME NEW V, NEW n \in Node, Sound(n, V), NEW id \in Ids, NEW c \in MsgCert,
           c.reqBatchDigest = n.cert[id].reqBatchDigest,
           c.prepareQc = n.cert[id].prepareQc,
           c.fastPrepareQc = n.cert[id].fastPrepareQc,
           c.partialSigInPrepare = n.cert[id].partialSigInPrepare
    PROVE  /\ withCert(n, id, c) \in Node
           /\ withCert(n, id, c).currenView = n.currenView
           /\ withCert(n, id, c).replicaId = n.replicaId
           /\ Votes(withCert(n, id, c), V) = Votes(n, V)
           /\ Moves(n, withCert(n, id, c), V)
<1>1. CertSound(id, c, Votes(n, V))
  BY DEF Sound, CertSound
<1> QED  BY <1>1, withCertMoves

\* checkIfCommitted (core.go) moves a node.
LEMMA checkIfCommittedMoves ==
    ASSUME NEW V, NEW n \in Node, Sound(n, V), n.currenView < MaxView, NEW id \in Ids
    PROVE  Moves(n, checkIfCommitted(n, id), V)
<1> DEFINE c == [n.cert[id] EXCEPT !.reqBatchStage = "committed"]
<1>1. n.cert[id] \in MsgCert
  BY certType
<1>2. /\ c \in MsgCert /\ c.reqBatchDigest = n.cert[id].reqBatchDigest
      /\ c.prepareQc = n.cert[id].prepareQc
      /\ c.fastPrepareQc = n.cert[id].fastPrepareQc
      /\ c.partialSigInPrepare = n.cert[id].partialSigInPrepare
  BY <1>1 DEF MsgCert
<1> HIDE DEF c
<1>3. Moves(n, executeRequest(withCert(n, id, c), id), V)
  <2>1. /\ Moves(n, withCert(n, id, c), V)
        /\ withCert(n, id, c).currenView = n.currenView
    BY <1>2, SameCertMoves
  <2> QED  BY <2>1, executeRequestMoves, MovesTrans DEF Moves
<1> QED  BY <1>3, MovesRefl DEF checkIfCommitted, c

\* checkIfPrepared (core.go) moves a node.
LEMMA checkIfPreparedMoves ==
    ASSUME NEW V, NEW n \in Node, Sound(n, V), n.currenView < MaxView, NEW id \in Ids
    PROVE  Moves(n, checkIfPrepared(n, id), V)
<1> DEFINE c == [n.cert[id] EXCEPT !.reqBatchStage = "committed"]
           d == [n.cert[id] EXCEPT !.reqBatchStage = "prepared"]
<1>1. n.cert[id] \in MsgCert
  BY certType
<1>2. /\ c \in MsgCert /\ c.reqBatchDigest = n.cert[id].reqBatchDigest
      /\ c.prepareQc = n.cert[id].prepareQc
      /\ c.fastPrepareQc = n.cert[id].fastPrepareQc
      /\ c.partialSigInPrepare = n.cert[id].partialSigInPrepare
  BY <1>1 DEF MsgCert
<1>3. /\ d \in MsgCert /\ d.reqBatchDigest = n.cert[id].reqBatchDigest
      /\ d.prepareQc = n.cert[id].prepareQc
      /\ d.fastPrepareQc = n.cert[id].fastPrepareQc
      /\ d.partialSigInPrepare = n.cert[id].partialSigInPrepare
  BY <1>1 DEF MsgCert
<1> HIDE DEF c, d
<1>4. Moves(n, executeRequest(withCert(n, id, c), id), V)
  <2>1. /\ Moves(n, withCert(n, id, c), V)
        /\ withCert(n, id, c).currenView = n.currenView
    BY <1>2, SameCertMoves
  <2> QED  BY <2>1, executeRequestMoves, MovesTrans DEF Moves
<1>5. Moves(n, checkIfCommitted(withCert(n, id, d), id), V)
  <2>1. /\ Moves(n, withCert(n, id, d), V)
        /\ withCert(n, id, d).currenView = n.currenView
    BY <1>3, SameCertMoves
  <2> QED  BY <2>1, checkIfCommittedMoves, MovesTrans DEF Moves
<1> QED  BY <1>4, <1>5, MovesRefl DEF checkIfPrepared, c, d

(***************************************************************************)
(* Prepare votes and certificates.                                         *)
(***************************************************************************)
LEMMA sendPrepareQcMoves ==
    ASSUME NEW V, NEW n \in Node, Sound(n, V), NEW id \in Ids, NEW d \in Digests,
           NEW s \in Stamps, Backed(Votes(n, V), id, d)
    PROVE  /\ Moves(n, sendPrepareQc(n, id, d, s), V)
           /\ Moves(n, sendFastPrepareQc(n, id, d), V)
<1> DEFINE c == [n.cert[id] EXCEPT !.prepareQcStage = TRUE, !.qcSent = @ \cup {s}]
           e == [n.cert[id] EXCEPT !.prepareQcStage = TRUE,
                                   !.qcSent = @ \cup {"fast"}]
           qc == [type |-> "PrepareQc", from |-> n.replicaId, sn |-> id[1],
                  view |-> id[2], digest |-> d, stamp |-> s]
           fqc == [type |-> "FastPrepareQc", from |-> n.replicaId, sn |-> id[1],
                   view |-> id[2], digest |-> d]
<1>1. n.cert[id] \in MsgCert
  BY certType
<1>2. /\ c \in MsgCert /\ c.reqBatchDigest = n.cert[id].reqBatchDigest
      /\ c.prepareQc = n.cert[id].prepareQc
      /\ c.fastPrepareQc = n.cert[id].fastPrepareQc
      /\ c.partialSigInPrepare = n.cert[id].partialSigInPrepare
  BY <1>1 DEF MsgCert
<1>3. /\ e \in MsgCert /\ e.reqBatchDigest = n.cert[id].reqBatchDigest
      /\ e.prepareQc = n.cert[id].prepareQc
      /\ e.fastPrepareQc = n.cert[id].fastPrepareQc
      /\ e.partialSigInPrepare = n.cert[id].partialSigInPrepare
  BY <1>1 DEF MsgCert
<1>4. n.replicaId \in Replicas /\ id[1] \in SNs /\ id[2] \in Views
      /\ id = <<id[1], id[2]>>
  BY DEF Node, Ids
<1>5. qc \in PrepareQc /\ fqc \in FastPrepareQc
  BY <1>4 DEF PrepareQc, FastPrepareQc
<1>6. /\ qc \in Message /\ qc.type # "Checkpoint"
      /\ fqc \in Message /\ fqc.type # "Checkpoint"
  BY <1>5 DEF Message
<1>7. MsgSound(qc, Votes(n, V)) /\ MsgSound(fqc, Votes(n, V))
  BY <1>4 DEF MsgSound, QcSound
<1> HIDE DEF c, e, qc, fqc
<1>8. /\ withCert(n, id, c) \in Node /\ Votes(withCert(n, id, c), V) = Votes(n, V)
      /\ Moves(n, withCert(n, id, c), V)
  BY <1>2, SameCertMoves
<1>9. /\ withCert(n, id, e) \in Node /\ Votes(withCert(n, id, e), V) = Votes(n, V)
      /\ Moves(n, withCert(n, id, e), V)
  BY <1>3, SameCertMoves
<1>10. Sound(withCert(n, id, c), V) /\ Sound(withCert(n, id, e), V)
  BY <1>8, <1>9 DEF Moves
<1>11. Moves(n, broadcast(withCert(n, id, c), qc), V)
  BY <1>6, <1>7, <1>8, <1>10, broadcastMoves, MovesTrans
<1>12. Moves(n, broadcast(withCert(n, id, e), fqc), V)
  BY <1>6, <1>7, <1>9, <1>10, broadcastMoves, MovesTrans
<1> QED  BY <1>11, <1>12 DEF sendPrepareQc, sendFastPrepareQc, c, e, qc, fqc

\* A nil dereference changes nothing that others depend on.
LEMMA panickedMoves ==
    ASSUME NEW V, NEW n \in Node, Sound(n, V)
    PROVE  Moves(n, [n EXCEPT !.panicked = TRUE], V)
<1> DEFINE n2 == [n EXCEPT !.panicked = TRUE]
<1>1. n2 \in Node
  BY DEF Node
<1>2. /\ n2.replicaId = n.replicaId /\ n2.h = n.h
      /\ n2.checkpointStore = n.checkpointStore
      /\ n2.lastExec = n.lastExec /\ n2.out = n.out
      /\ n2.signed = n.signed /\ n2.cert = n.cert
      /\ n2.prepareTimer = n.prepareTimer
  BY DEF Node
<1>3. n.lastExec <= n.lastExec
  BY DEF Node
<1> HIDE DEF n2
<1>4. Moves(n, n2, V)
  BY <1>1, <1>2, <1>3, FrameMoves
<1> QED  BY <1>4 DEF n2

\* Starting or finishing a goroutine of handleFastPrepareQc moves a node.
LEMMA fastChecksMoves ==
    ASSUME NEW V, NEW n \in Node, Sound(n, V), NEW S \in SUBSET Ids
    PROVE  /\ Moves(n, [n EXCEPT !.fastChecks = S], V)
           /\ [n EXCEPT !.fastChecks = S].currenView = n.currenView
           /\ [n EXCEPT !.fastChecks = S].cert = n.cert
           /\ Votes([n EXCEPT !.fastChecks = S], V) = Votes(n, V)
<1> DEFINE n2 == [n EXCEPT !.fastChecks = S]
<1>1. n2 \in Node
  BY DEF Node
<1>2. /\ n2.replicaId = n.replicaId /\ n2.h = n.h
      /\ n2.checkpointStore = n.checkpointStore
      /\ n2.lastExec = n.lastExec /\ n2.out = n.out
      /\ n2.signed = n.signed /\ n2.cert = n.cert
      /\ n2.prepareTimer = n.prepareTimer /\ n2.currenView = n.currenView
  BY DEF Node
<1>3. n.lastExec <= n.lastExec
  BY DEF Node
<1> HIDE DEF n2
<1>4. Moves(n, n2, V)
  BY <1>1, <1>2, <1>3, FrameMoves
<1> QED  BY <1>2, <1>4 DEF n2, Votes

\* Signing a commit vote (createCommitMsg) moves a node.
LEMMA signedCommitsMoves ==
    ASSUME NEW V, NEW n \in Node, Sound(n, V), NEW S \in SUBSET PrepareQc
    PROVE  Moves(n, [n EXCEPT !.signedCommits = S], V)
<1> DEFINE n2 == [n EXCEPT !.signedCommits = S]
<1>1. n2 \in Node
  BY DEF Node
<1>2. /\ n2.replicaId = n.replicaId /\ n2.h = n.h
      /\ n2.checkpointStore = n.checkpointStore
      /\ n2.lastExec = n.lastExec /\ n2.out = n.out
      /\ n2.signed = n.signed /\ n2.cert = n.cert
      /\ n2.prepareTimer = n.prepareTimer
  BY DEF Node
<1>3. n.lastExec <= n.lastExec
  BY DEF Node
<1> HIDE DEF n2
<1>4. Moves(n, n2, V)
  BY <1>1, <1>2, <1>3, FrameMoves
<1> QED  BY <1>4 DEF n2

\* A quorum of counted votes is a quorum of votes.
LEMMA ReadyBacked ==
    ASSUME NEW V, NEW n \in Node, Sound(n, V), NEW id \in Ids, NEW d,
           NEW q \in Int, q >= SlowQuorum(N), PrepareQcReady(n, id, d, q)
    PROVE  Backed(Votes(n, V), id, d)
<1> DEFINE A == Signers(n.cert[id].partialSigInPrepare, d)
           B == Voters(Votes(n, V), id, d)
<1>1. A \subseteq B
  <2> SUFFICES ASSUME NEW r \in Replicas,
                      <<r, d>> \in n.cert[id].partialSigInPrepare
               PROVE  <<r, <<id, d>>>> \in Votes(n, V)
    BY DEF Signers, Voters
  <2> QED  BY DEF Sound, CertSound
<1>2. IsFiniteSet(B)
  <2>1. IsFiniteSet(Replicas)
    BY FS_Interval, ClusterAssumption DEF Replicas
  <2> QED  BY <2>1, FS_Subset DEF Voters
<1>3. Cardinality(A) <= Cardinality(B) /\ IsFiniteSet(A)
  BY <1>1, <1>2, FS_Subset
<1>4. Cardinality(A) \in Nat /\ Cardinality(B) \in Nat
  BY <1>2, <1>3, FS_CardinalityType
<1>5. Cardinality(A) >= q
  BY DEF PrepareQcReady
<1>6. SlowQuorum(N) \in Int
  BY ClusterAssumption DEF SlowQuorum, F
<1> HIDE DEF A, B
<1>7. Cardinality(B) >= SlowQuorum(N)
  BY <1>3, <1>4, <1>5, <1>6
<1> QED  BY <1>7 DEF Backed, B

\* In a cluster of 3f+1 replicas a fast quorum holds a slow one.
LEMMA QuorumSizes ==
    /\ F(N) \in Nat /\ N = 3 * F(N) + 1
    /\ SlowQuorum(N) = 2 * F(N) + 1
    /\ FastQuorum(N, Abm, Pbm) \in Int
    /\ FastQuorum(N, Abm, Pbm) >= SlowQuorum(N)
<1>1. F(N) \in Nat /\ N = 3 * F(N) + 1
  BY ClusterAssumption DEF F
<1>2. Pbm \div 2 \in Nat /\ Pbm \div 2 <= Pbm
  BY ClusterAssumption
<1> QED  BY <1>1, <1>2, ClusterAssumption DEF SlowQuorum, FastQuorum

\* handlePrepareVote (core.go) moves a node if the vote was cast: a certificate
\* it sends has its quorum.
LEMMA handlePrepareVoteMoves ==
    ASSUME NEW V, NEW n \in Node, Sound(n, V), NEW pm \in PrepareMsg,
           NEW stop \in BOOLEAN, MsgSound(pm, Votes(n, V))
    PROVE  Moves(n, handlePrepareVote(n, pm, stop), V)
<1> DEFINE id == <<pm.sn, pm.view>>
           c == [n.cert[id] EXCEPT !.partialSigInPrepare =
                   @ \cup {<<pm.from, pm.digest>>}]
           n1 == withCert(n, id, c)
<1>1. id \in Ids /\ pm.from \in Replicas /\ pm.digest \in Digests
  BY DEF PrepareMsg, Ids
<1>2. <<pm.from, <<id, pm.digest>>>> \in Votes(n, V)
  BY DEF MsgSound, PrepareMsg
<1> HIDE DEF id
<1>3. n.cert[id] \in MsgCert
  BY <1>1, certType
<1>4. n.cert[id].partialSigInPrepare \cup {<<pm.from, pm.digest>>}
        \in SUBSET (Replicas \X Digests)
  BY <1>1, <1>3 DEF MsgCert
<1>5. /\ c \in MsgCert /\ c.reqBatchDigest = n.cert[id].reqBatchDigest
      /\ c.prepareQc = n.cert[id].prepareQc
      /\ c.fastPrepareQc = n.cert[id].fastPrepareQc
      /\ c.partialSigInPrepare = n.cert[id].partialSigInPrepare
                                   \cup {<<pm.from, pm.digest>>}
  BY <1>3, <1>4 DEF MsgCert
<1> HIDE DEF c
<1>6. CertSound(id, n.cert[id], Votes(n, V))
  BY <1>1 DEF Sound
<1>7. CertSound(id, c, Votes(n, V))
  BY <1>2, <1>5, <1>6 DEF CertSound
<1>8. n1 \in Node /\ Moves(n, n1, V) /\ Sound(n1, V)
  BY <1>1, <1>5, <1>7, withCertMoves DEF Moves
<1> HIDE DEF n1
<1>9. Moves(n, [n1 EXCEPT !.panicked = TRUE], V)
  BY <1>8, panickedMoves, MovesTrans
<1>10. ASSUME PrepareQcReady(n1, id, pm.digest, SlowQuorum(N))
              \/ PrepareQcReady(n1, id, pm.digest, FastQuorum(N, Abm, Pbm))
       PROVE  /\ Moves(n, sendPrepareQc(n1, id, pm.digest, "handler"), V)
              /\ Moves(n, sendFastPrepareQc(n1, id, pm.digest), V)
  <2>1. SlowQuorum(N) \in Int /\ SlowQuorum(N) >= SlowQuorum(N)
    BY QuorumSizes
  <2>2. Backed(Votes(n1, V), id, pm.digest)
    BY <1>1, <1>8, <1>10, <2>1, QuorumSizes, ReadyBacked
  <2>3. /\ Moves(n1, sendPrepareQc(n1, id, pm.digest, "handler"), V)
        /\ Moves(n1, sendFastPrepareQc(n1, id, pm.digest), V)
    BY <1>1, <1>8, <2>2, sendPrepareQcMoves DEF Stamps
  <2> QED  BY <1>8, <2>3, MovesTrans
<1> QED  BY <1>8, <1>9, <1>10 DEF handlePrepareVote, n1, c, id

\* handlePrepareMsg (core.go) moves a node if the vote was cast.
LEMMA handlePrepareMsgMoves ==
    ASSUME NEW V, NEW n \in Node, Sound(n, V), NEW pm \in PrepareMsg,
           NEW stop \in BOOLEAN, MsgSound(pm, Votes(n, V))
    PROVE  Moves(n, handlePrepareMsg(n, pm, stop), V)
<1> DEFINE id == <<pm.sn, n.currenView>>
           c == [n.cert[id] EXCEPT !.prePareStore = @ \cup {pm.from}]
<1>1. id \in Ids /\ pm.from \in Replicas
  BY DEF PrepareMsg, Ids, Node
<1> HIDE DEF id
<1>2. n.cert[id] \in MsgCert
  BY <1>1, certType
<1>3. n.cert[id].prePareStore \cup {pm.from} \in SUBSET Replicas
  BY <1>1, <1>2 DEF MsgCert
<1>4. /\ c \in MsgCert /\ c.reqBatchDigest = n.cert[id].reqBatchDigest
      /\ c.prepareQc = n.cert[id].prepareQc
      /\ c.fastPrepareQc = n.cert[id].fastPrepareQc
      /\ c.partialSigInPrepare = n.cert[id].partialSigInPrepare
  BY <1>2, <1>3 DEF MsgCert
<1> HIDE DEF c
<1>5. /\ withCert(n, id, c) \in Node /\ Moves(n, withCert(n, id, c), V)
      /\ Sound(withCert(n, id, c), V)
      /\ Votes(withCert(n, id, c), V) = Votes(n, V)
  BY <1>1, <1>4, SameCertMoves DEF Moves
<1>6. Moves(n, handlePrepareVote(withCert(n, id, c), pm, stop), V)
  BY <1>5, handlePrepareVoteMoves, MovesTrans
<1> QED  BY <1>6, MovesRefl DEF handlePrepareMsg, c, id

(***************************************************************************)
(* Pre-prepares: the replica signs the batch of its own certificate.       *)
(***************************************************************************)
LEMMA createPrepareMsgType ==
    ASSUME NEW n \in Node, NEW sn \in SNs
    PROVE  createPrepareMsg(n, sn) \in PrepareMsg
<1>1. <<sn, n.currenView>> \in Ids /\ n.replicaId \in Replicas
      /\ n.currenView \in Views
  BY DEF Node, Ids
<1>2. n.cert[<<sn, n.currenView>>].reqBatchDigest \in Digests
  BY <1>1, certType DEF MsgCert
<1> QED  BY <1>1, <1>2 DEF createPrepareMsg, PrepareMsg

\* Signing adds votes and takes none away.
LEMMA SoundMono ==
    ASSUME NEW W, NEW W2, W \subseteq W2
    PROVE  /\ \A m : MsgSound(m, W) => MsgSound(m, W2)
           /\ \A id, c : CertSound(id, c, W) => CertSound(id, c, W2)
<1>1. \A qc : QcSound(qc, W) => QcSound(qc, W2)
  BY BackedMono DEF QcSound
<1>2. ASSUME NEW m, MsgSound(m, W) PROVE MsgSound(m, W2)
  BY <1>1, <1>2 DEF MsgSound
<1>3. ASSUME NEW id, NEW c, CertSound(id, c, W) PROVE CertSound(id, c, W2)
  BY <1>1, <1>3 DEF CertSound
<1> QED  BY <1>2, <1>3

\* createPrepareMsg (core.go) moves a node: it signs the batch of its certificate.
LEMMA SignMoves ==
    ASSUME NEW V, NEW n \in Node, Sound(n, V), NEW pm \in PrepareMsg,
           pm.from = n.replicaId,
           pm.digest = n.cert[<<pm.sn, pm.view>>].reqBatchDigest
    PROVE  Moves(n, Sign(n, pm), V) /\ MsgSound(pm, Votes(Sign(n, pm), V))
<1> DEFINE sig == <<<<pm.sn, pm.view>>, pm.digest>>
           n2 == [n EXCEPT !.signed = n.signed \cup {sig}]
<1>1. sig \in Ids \X Digests /\ sig[1] = <<pm.sn, pm.view>> /\ sig[2] = pm.digest
  BY DEF PrepareMsg, Ids
<1> HIDE DEF sig
<1>2. n.signed \cup {sig} \in SUBSET (Ids \X Digests)
  BY <1>1 DEF Node
<1>3. n2 \in Node
  BY <1>2 DEF Node
<1>4. /\ n2.replicaId = n.replicaId /\ n2.h = n.h
      /\ n2.checkpointStore = n.checkpointStore
      /\ n2.lastExec = n.lastExec /\ n2.out = n.out
      /\ n2.signed = n.signed \cup {sig} /\ n2.cert = n.cert
      /\ n2.prepareTimer = n.prepareTimer
  BY DEF Node
<1>5. n.lastExec <= n.lastExec
  BY DEF Node
<1> HIDE DEF n2
<1>6. Votes(n, V) \subseteq Votes(n2, V)
  BY <1>4 DEF Votes
<1>7. Sound(n2, V)
  <2>1. ASSUME NEW x \in n2.signed, x[2] # Nil
        PROVE  n2.cert[x[1]].reqBatchDigest = x[2]
    BY <1>1, <1>4, <2>1 DEF Sound
  <2>2. \A id \in Ids : CertSound(id, n2.cert[id], Votes(n2, V))
    BY <1>4, <1>6, SoundMono DEF Sound
  <2>3. ASSUME NEW id \in Ids, n2.prepareTimer[id].pc = "checked"
        PROVE  Backed(Votes(n2, V), id, n2.prepareTimer[id].batch)
    BY <1>4, <1>6, <2>3, BackedMono DEF Sound
  <2>4. \A p \in n2.out : MsgSound(p[2], Votes(n2, V))
    BY <1>4, <1>6, SoundMono DEF Sound
  <2> QED  BY <2>1, <2>2, <2>3, <2>4 DEF Sound
<1>8. Moves(n, n2, V)
  BY <1>3, <1>4, <1>5, <1>7 DEF Moves
<1>9. MsgSound(pm, Votes(n2, V))
  <2>1. pm.type = "Prepare"
    BY DEF PrepareMsg
  <2>2. <<n.replicaId, sig>> \in Votes(n2, V)
    BY <1>4 DEF Votes
  <2> QED  BY <2>1, <2>2 DEF MsgSound, sig
<1>10. Sign(n, pm) = n2
  BY DEF Sign, n2, sig
<1> QED  BY <1>8, <1>9, <1>10

\* Voting for a stored pre-prepare moves a node (handlePrePrepareMsg).
LEMMA CastVoteMoves ==
    ASSUME NEW V, NEW n \in Node, Sound(n, V), NEW sn \in SNs,
           NEW stop \in BOOLEAN
    PROVE  Moves(n, CastVote(n, sn, stop), V)
<1> DEFINE pm == createPrepareMsg(n, sn)
           n1 == Sign(n, pm)
<1>1. pm \in PrepareMsg
  BY createPrepareMsgType
<1>2. pm \in Message /\ pm.type # "Checkpoint"
  BY <1>1 DEF Message, PrepareMsg
<1>3. /\ pm.from = n.replicaId
      /\ pm.digest = n.cert[<<pm.sn, pm.view>>].reqBatchDigest
  BY DEF createPrepareMsg
<1> HIDE DEF pm
<1>4. n1 \in Node /\ Sound(n1, V) /\ Moves(n, n1, V)
      /\ MsgSound(pm, Votes(n1, V))
  BY <1>1, <1>3, SignMoves DEF Moves
<1> HIDE DEF n1
<1>5. Moves(n, sendToLeader(n1, pm), V)
  BY <1>2, <1>4, sendToLeaderMoves, MovesTrans
<1>6. Moves(n, handlePrepareMsg(n1, pm, stop), V)
  BY <1>1, <1>4, handlePrepareMsgMoves, MovesTrans
<1> QED  BY <1>5, <1>6 DEF CastVote, n1, pm

\* handlePrePrepareMsg (core.go) moves a node: a stored batch is never replaced.
LEMMA handlePrePrepareMsgMoves ==
    ASSUME NEW V, NEW n \in Node, Sound(n, V), n.currenView < MaxView,
           NEW ppm \in PrePrepareMsg, NEW stop \in BOOLEAN
    PROVE  Moves(n, handlePrePrepareMsg(n, ppm, stop), V)
<1> DEFINE id == <<ppm.sn, ppm.view>>
           c == [n.cert[id] EXCEPT !.reqBatchStage = "received",
                                   !.reqBatchDigest = ppm.digest]
           stored == withCert(n, id, c)
           n1 == checkIfPrepared(stored, id)
<1>1. id \in Ids /\ ppm.sn \in SNs /\ ppm.digest \in Digests
  BY DEF PrePrepareMsg, Ids, Digests
<1>2. ~DistrustsPrePrepare(n, ppm) /\ inWatermarks(n, ppm.sn)
      => n.cert[id].reqBatchDigest \in {Nil, ppm.digest}
  BY DEF DistrustsPrePrepare
<1> HIDE DEF id
<1>3. n.cert[id] \in MsgCert
  BY <1>1, certType
<1>4. /\ c \in MsgCert /\ c.reqBatchDigest = ppm.digest
      /\ c.prepareQc = n.cert[id].prepareQc
      /\ c.fastPrepareQc = n.cert[id].fastPrepareQc
      /\ c.partialSigInPrepare = n.cert[id].partialSigInPrepare
  BY <1>1, <1>3 DEF MsgCert
<1> HIDE DEF c
<1>5. CertSound(id, c, Votes(n, V))
  BY <1>1, <1>4 DEF Sound, CertSound
<1>6. ASSUME ~DistrustsPrePrepare(n, ppm), inWatermarks(n, ppm.sn)
      PROVE  Moves(n, CastVote(n1, ppm.sn, stop), V)
  <2>1. /\ stored \in Node /\ stored.currenView < MaxView
        /\ Moves(n, stored, V) /\ Sound(stored, V)
    BY <1>1, <1>2, <1>4, <1>5, <1>6, withCertMoves DEF Moves
  <2> HIDE DEF stored
  <2>2. Moves(n, n1, V)
    BY <1>1, <2>1, checkIfPreparedMoves, MovesTrans
  <2> HIDE DEF n1
  <2>3. n1 \in Node /\ Sound(n1, V)
    BY <2>2 DEF Moves
  <2> QED  BY <1>1, <2>2, <2>3, CastVoteMoves, MovesTrans
<1>7. Moves(n, sendViewChange(n), V)
  BY sendViewChangeMoves
<1> QED  BY <1>6, <1>7, MovesRefl DEF handlePrePrepareMsg, n1, stored, c, id

(***************************************************************************)
(* Certificates, commit votes and checkpoints.                             *)
(***************************************************************************)
LEMMA handlePrepareQcMoves ==
    ASSUME NEW V, NEW n \in Node, Sound(n, V), n.currenView < MaxView,
           NEW pqc \in PrepareQc, MsgSound(pqc, Votes(n, V))
    PROVE  Moves(n, handlePrepareQc(n, pqc), V)
<1> DEFINE id == <<pqc.sn, pqc.view>>
           c == [n.cert[id] EXCEPT !.prepareQc = pqc]
           stored == withCert(n, id, c)
           n1 == checkIfPrepared(stored, id)
           n2 == [n1 EXCEPT !.signedCommits = @ \cup {pqc}]
           cm == [type |-> "Commit", from |-> n1.replicaId, vote |-> pqc]
<1>1. id \in Ids /\ QcSound(pqc, Votes(n, V))
  BY DEF PrepareQc, Ids, MsgSound
<1> HIDE DEF id
<1>2. n.cert[id] \in MsgCert
  BY <1>1, certType
<1>3. /\ c \in MsgCert /\ c.reqBatchDigest = n.cert[id].reqBatchDigest
      /\ c.prepareQc = pqc /\ c.fastPrepareQc = n.cert[id].fastPrepareQc
      /\ c.partialSigInPrepare = n.cert[id].partialSigInPrepare
  BY <1>2 DEF MsgCert
<1> HIDE DEF c
<1>4. CertSound(id, c, Votes(n, V))
  BY <1>1, <1>3 DEF Sound, CertSound
<1>5. stored \in Node /\ stored.currenView < MaxView /\ Moves(n, stored, V)
      /\ Sound(stored, V)
  BY <1>1, <1>3, <1>4, withCertMoves DEF Moves
<1> HIDE DEF stored
<1>6. Moves(n, n1, V)
  BY <1>1, <1>5, checkIfPreparedMoves, MovesTrans
<1> HIDE DEF n1
<1>7. n1 \in Node /\ Sound(n1, V)
  BY <1>6 DEF Moves
<1>8. cm \in Message /\ cm.type # "Checkpoint" /\ MsgSound(cm, Votes(n2, V))
  BY <1>7 DEF Message, CommitMsg, Node, MsgSound
<1> HIDE DEF cm
<1>9. n1.signedCommits \cup {pqc} \in SUBSET PrepareQc
  BY <1>7 DEF Node
<1>10. n2 \in Node /\ Moves(n1, n2, V) /\ Sound(n2, V)
  BY <1>7, <1>9, signedCommitsMoves DEF Moves
<1> HIDE DEF n2
<1>11. Moves(n1, sendToLeader(n2, cm), V)
  BY <1>7, <1>8, <1>10, sendToLeaderMoves, MovesTrans
<1>12. Moves(n, sendToLeader(n2, cm), V)
  BY <1>6, <1>11, MovesTrans
<1>13. Moves(n, sendViewChange(n), V)
  BY sendViewChangeMoves
<1> QED  BY <1>12, <1>13, MovesRefl
         DEF handlePrepareQc, sendCommitMsg, cm, n2, n1, stored, c, id

\* handleFastPrepareQc (core.go) moves a node if the certificate is backed.
LEMMA handleFastPrepareQcMoves ==
    ASSUME NEW V, NEW n \in Node, Sound(n, V), NEW fpqc \in FastPrepareQc,
           MsgSound(fpqc, Votes(n, V))
    PROVE  Moves(n, handleFastPrepareQc(n, fpqc), V)
<1> DEFINE id == <<fpqc.sn, fpqc.view>>
           c == [n.cert[id] EXCEPT !.fastPrepareQc = fpqc]
           n1 == [n EXCEPT !.fastChecks = @ \cup {id}]
<1>1. id \in Ids /\ QcSound(fpqc, Votes(n, V))
  BY DEF FastPrepareQc, Ids, MsgSound
<1> HIDE DEF id
<1>2. n.cert[id] \in MsgCert
  BY <1>1, certType
<1>3. /\ c \in MsgCert /\ c.reqBatchDigest = n.cert[id].reqBatchDigest
      /\ c.prepareQc = n.cert[id].prepareQc /\ c.fastPrepareQc = fpqc
      /\ c.partialSigInPrepare = n.cert[id].partialSigInPrepare
  BY <1>2 DEF MsgCert
<1> HIDE DEF c
<1>4. CertSound(id, c, Votes(n, V))
  BY <1>1, <1>3 DEF Sound, CertSound
<1>5. n.fastChecks \cup {id} \in SUBSET Ids
  BY <1>1 DEF Node
<1>6. /\ Moves(n, n1, V) /\ n1.cert = n.cert /\ Votes(n1, V) = Votes(n, V)
  BY <1>5, fastChecksMoves
<1> HIDE DEF n1
<1>7. n1 \in Node /\ Sound(n1, V)
  BY <1>6 DEF Moves
<1>8. Moves(n1, withCert(n1, id, c), V)
  BY <1>1, <1>3, <1>4, <1>6, <1>7, withCertMoves
<1>9. Moves(n, withCert(n1, id, c), V)
  BY <1>6, <1>8, MovesTrans
<1> QED  BY <1>9, MovesRefl DEF handleFastPrepareQc, n1, c, id

\* handleCommitMsg, handleCommitVote and createCommitQc (core.go) move a node.
LEMMA handleCommitMsgMoves ==
    ASSUME NEW V, NEW n \in Node, Sound(n, V), NEW cm \in CommitMsg
    PROVE  Moves(n, handleCommitMsg(n, cm), V)
<1> DEFINE id == <<cm.vote.sn, cm.vote.view>>
           c == [n.cert[id] EXCEPT !.partialSigInCommit =
                   @ \cup {<<cm.from, cm.vote>>}]
           d == [c EXCEPT !.commitQcStage = TRUE]
           cqc == [type |-> "CommitQc", from |-> n.replicaId, vote |-> cm.vote]
<1>1. id \in Ids /\ cm.from \in Replicas /\ cm.vote \in PrepareQc
  BY DEF CommitMsg, PrepareQc, Ids
<1> HIDE DEF id
<1>2. n.cert[id] \in MsgCert
  BY <1>1, certType
<1>3. n.cert[id].partialSigInCommit \cup {<<cm.from, cm.vote>>}
        \in SUBSET (Replicas \X PrepareQc)
  BY <1>1, <1>2 DEF MsgCert
<1>4. /\ c \in MsgCert /\ c.reqBatchDigest = n.cert[id].reqBatchDigest
      /\ c.prepareQc = n.cert[id].prepareQc
      /\ c.fastPrepareQc = n.cert[id].fastPrepareQc
      /\ c.partialSigInPrepare = n.cert[id].partialSigInPrepare
  BY <1>2, <1>3 DEF MsgCert
<1> HIDE DEF c
<1>5. /\ d \in MsgCert /\ d.reqBatchDigest = n.cert[id].reqBatchDigest
      /\ d.prepareQc = n.cert[id].prepareQc
      /\ d.fastPrepareQc = n.cert[id].fastPrepareQc
      /\ d.partialSigInPrepare = n.cert[id].partialSigInPrepare
  BY <1>4 DEF MsgCert
<1> HIDE DEF d
<1>6. cqc \in Message /\ cqc.type # "Checkpoint"
      /\ MsgSound(cqc, Votes(withCert(n, id, d), V))
  BY <1>1 DEF Message, CommitQc, Node, MsgSound
<1> HIDE DEF cqc
<1>7. Moves(n, withCert(n, id, c), V)
  BY <1>1, <1>4, SameCertMoves
<1>8. /\ withCert(n, id, d) \in Node /\ Sound(withCert(n, id, d), V)
      /\ Moves(n, withCert(n, id, d), V)
  BY <1>1, <1>5, SameCertMoves DEF Moves
<1>9. Moves(n, broadcast(withCert(n, id, d), cqc), V)
  BY <1>6, <1>8, broadcastMoves, MovesTrans
<1> QED  BY <1>7, <1>9, MovesRefl DEF handleCommitMsg, cqc, d, c, id

\* handleCommitQc (core.go) moves a node.
LEMMA handleCommitQcMoves ==
    ASSUME NEW V, NEW n \in Node, Sound(n, V), n.currenView < MaxView,
           NEW cqc \in CommitQc
    PROVE  Moves(n, handleCommitQc(n, cqc), V)
<1> DEFINE id == <<cqc.vote.sn, cqc.vote.view>>
           c == [n.cert[id] EXCEPT !.commitQc = cqc]
           stored == withCert(n, id, c)
<1>1. id \in Ids
  BY DEF CommitQc, PrepareQc, Ids
<1> HIDE DEF id
<1>2. n.cert[id] \in MsgCert
  BY <1>1, certType
<1>3. /\ c \in MsgCert /\ c.reqBatchDigest = n.cert[id].reqBatchDigest
      /\ c.prepareQc = n.cert[id].prepareQc
      /\ c.fastPrepareQc = n.cert[id].fastPrepareQc
      /\ c.partialSigInPrepare = n.cert[id].partialSigInPrepare
  BY <1>2 DEF MsgCert
<1> HIDE DEF c
<1>4. stored \in Node /\ stored.currenView < MaxView /\ Moves(n, stored, V)
      /\ Sound(stored, V)
  BY <1>1, <1>3, SameCertMoves DEF Moves
<1> HIDE DEF stored
<1>5. Moves(n, checkIfCommitted(stored, id), V)
  BY <1>1, <1>4, checkIfCommittedMoves, MovesTrans
<1>6. Moves(n, sendViewChange(n), V)
  BY sendViewChangeMoves
<1> QED  BY <1>5, <1>6, MovesRefl DEF handleCommitQc, stored, c, id

\* recvCheckpoint stores the sender and moves the low watermark to the number
\* of the checkpoint only if it has a quorum for it.
LEMMA recvCheckpointMoves ==
    ASSUME NEW V, NEW n \in Node, Sound(n, V), NEW chkpt \in CheckpointMsg
    PROVE  LET n2 == recvCheckpoint(n, chkpt)
           IN  /\ n2 \in Node /\ Sound(n2, V)
               /\ n2.replicaId = n.replicaId /\ n2.lastExec = n.lastExec
               /\ n2.signed = n.signed /\ n2.out = n.out
               /\ \/ n2.checkpointStore = n.checkpointStore
                  \/ n2.checkpointStore =
                       [n.checkpointStore EXCEPT ![chkpt.sn] =
                          n.checkpointStore[chkpt.sn] \cup {chkpt.from}]
               /\ \/ n2.h = n.h
                  \/ /\ n2.h \in SNs
                     /\ Cardinality(n2.checkpointStore[n2.h])
                          >= CheckpointQuorum(N)
<1> DEFINE store == n.checkpointStore[chkpt.sn] \cup {chkpt.from}
           stores == [n.checkpointStore EXCEPT ![chkpt.sn] = store]
           n1 == [n EXCEPT !.checkpointStore = stores]
           n2 == [n1 EXCEPT !.h = chkpt.sn]
<1>1. chkpt.sn \in SNs /\ chkpt.from \in Replicas
  BY DEF CheckpointMsg
<1>2. n.checkpointStore \in [SNs -> SUBSET Replicas]
  BY DEF Node
<1>3. store \in SUBSET Replicas
  BY <1>1, <1>2
<1> HIDE DEF store
<1>4. stores \in [SNs -> SUBSET Replicas] /\ stores[chkpt.sn] = store
  BY <1>1, <1>2, <1>3
<1> HIDE DEF stores
<1>5. n1 \in Node
  BY <1>4 DEF Node
<1>6. /\ n1.replicaId = n.replicaId /\ n1.lastExec = n.lastExec
      /\ n1.out = n.out /\ n1.signed = n.signed /\ n1.cert = n.cert
      /\ n1.prepareTimer = n.prepareTimer /\ n1.h = n.h
      /\ n1.checkpointStore = stores
  BY DEF Node
<1> HIDE DEF n1
<1>7. n2 \in Node
  BY <1>1, <1>5 DEF Node
<1>8. /\ n2.replicaId = n1.replicaId /\ n2.lastExec = n1.lastExec
      /\ n2.out = n1.out /\ n2.signed = n1.signed /\ n2.cert = n1.cert
      /\ n2.prepareTimer = n1.prepareTimer /\ n2.h = chkpt.sn
      /\ n2.checkpointStore = n1.checkpointStore
  BY <1>5 DEF Node
<1> HIDE DEF n2
<1>9. Sound(n1, V) /\ Sound(n2, V)
  BY <1>6, <1>8 DEF Sound, Votes
<1>10. recvCheckpoint(n, chkpt)
        = IF ~inWatermarks(n, chkpt.sn) THEN n
          ELSE IF Cardinality(store) >= CheckpointQuorum(N) THEN n2 ELSE n1
  BY DEF recvCheckpoint, moveWatermarks, n2, n1, stores, store
<1>11. CASE recvCheckpoint(n, chkpt) = n
  BY <1>11
<1>12. CASE recvCheckpoint(n, chkpt) = n1
  BY <1>5, <1>6, <1>9, <1>12 DEF stores, store
<1>13. CASE /\ recvCheckpoint(n, chkpt) = n2
            /\ Cardinality(store) >= CheckpointQuorum(N)
  <2>1. n2.checkpointStore[n2.h] = store
    BY <1>4, <1>6, <1>8
  <2> QED  BY <1>1, <1>6, <1>7, <1>8, <1>9, <1>13, <2>1 DEF stores, store
<1> QED  BY <1>10, <1>11, <1>12, <1>13

(***************************************************************************)
(* The proposer and its timer.                                             *)
(***************************************************************************)
LEMMA withTimerMoves ==
    ASSUME NEW V, NEW n \in Node, Sound(n, V), NEW id \in Ids,
           NEW pc \in {"none", "running", "checked", "stopped"},
           NEW b \in Digests, pc = "checked" => Backed(Votes(n, V), id, b)
    PROVE  /\ Moves(n, withTimer(n, id, pc, b), V)
           /\ Votes(withTimer(n, id, pc, b), V) = Votes(n, V)
           /\ withTimer(n, id, pc, b).replicaId = n.replicaId
<1> DEFINE timer == [pc |-> pc, batch |-> b]
           timers == [n.prepareTimer EXCEPT ![id] = timer]
           n2 == [n EXCEPT !.prepareTimer = timers]
<1>1. n.prepareTimer \in [Ids -> FastTimer]
  BY DEF Node
<1>2. timer \in FastTimer /\ timer.pc = pc /\ timer.batch = b
  BY DEF FastTimer
<1> HIDE DEF timer
<1>3. /\ timers \in [Ids -> FastTimer] /\ timers[id] = timer
      /\ \A i \in Ids : i # id => timers[i] = n.prepareTimer[i]
  BY <1>1, <1>2
<1> HIDE DEF timers
<1>4. n2 \in Node
  BY <1>3 DEF Node
<1>5. /\ n2.replicaId = n.replicaId /\ n2.h = n.h
      /\ n2.checkpointStore = n.checkpointStore
      /\ n2.lastExec = n.lastExec /\ n2.out = n.out
      /\ n2.signed = n.signed /\ n2.cert = n.cert
      /\ n2.prepareTimer = timers
  BY DEF Node
<1>6. n.lastExec <= n.lastExec
  BY DEF Node
<1> HIDE DEF n2
<1>7. Votes(n2, V) = Votes(n, V)
  BY <1>5 DEF Votes
<1>8. ASSUME NEW i \in Ids, n2.prepareTimer[i].pc = "checked"
      PROVE  Backed(Votes(n2, V), i, n2.prepareTimer[i].batch)
  <2>1. CASE i = id
    BY <1>2, <1>3, <1>5, <1>7, <1>8, <2>1
  <2>2. CASE i # id
    BY <1>3, <1>5, <1>7, <1>8, <2>2 DEF Sound
  <2> QED  BY <2>1, <2>2
<1>9. Sound(n2, V)
  BY <1>5, <1>7, <1>8 DEF Sound
<1>10. Moves(n, n2, V)
  BY <1>4, <1>5, <1>6, <1>9 DEF Moves
<1>11. withTimer(n, id, pc, b) = n2
  BY DEF withTimer, n2, timers, timer
<1> QED  BY <1>5, <1>7, <1>10, <1>11

\* Taking a sequence number (createPrePrepareMsg) moves a node.
LEMMA nextSNMoves ==
    ASSUME NEW V, NEW n \in Node, Sound(n, V)
    PROVE  Moves(n, [n EXCEPT !.nextSN = @ + 1], V)
<1> DEFINE n2 == [n EXCEPT !.nextSN = @ + 1]
<1>1. n2 \in Node
  BY DEF Node
<1>2. /\ n2.replicaId = n.replicaId /\ n2.h = n.h
      /\ n2.checkpointStore = n.checkpointStore
      /\ n2.lastExec = n.lastExec /\ n2.out = n.out
      /\ n2.signed = n.signed /\ n2.cert = n.cert
      /\ n2.prepareTimer = n.prepareTimer
  BY DEF Node
<1>3. n.lastExec <= n.lastExec
  BY DEF Node
<1> HIDE DEF n2
<1>4. Moves(n, n2, V)
  BY <1>1, <1>2, <1>3, FrameMoves
<1> QED  BY <1>4 DEF n2
=============================================================================
