-------------------------- MODULE ViewChangeProofs --------------------------
(***************************************************************************)
(* Theorems about ViewChange, for every cluster of 3f+1 replicas with at   *)
(* most f faulty ones, every set of messages that these may send, and      *)
(* every value of the other constants.                                     *)
(*                                                                         *)
(* The invariant of NormalCaseProofs survives the view change, since a new *)
(* view is processed by the handler of pre-prepares.  Beside it, ViewsOK   *)
(* ties the reports of a view to the views their senders are in.           *)
(***************************************************************************)
EXTENDS ViewChange, NormalCaseProofs, WellFoundedInduction

(***************************************************************************)
(* Stays(n, n2): from n to n2 a handler has changed the view at most by    *)
(* leaving it, has made no proposal, and the view-change messages it has   *)
(* sent are for views that it has reached.  Viewed are the fields this is  *)
(* about.                                                                  *)
(***************************************************************************)
Viewed(n) == /\ {"replicaId", "currenView", "activeView", "nextSN", "out"}
                  \subseteq DOMAIN n
             /\ n.currenView \in Nat

Reached(n, m) == m.type = "ViewChange" =>
                   /\ m.from = n.replicaId
                   /\ m.view \in Nat /\ m.view <= n.currenView

Stays(n, n2) ==
    /\ Viewed(n2)
    /\ n2.replicaId = n.replicaId /\ n2.nextSN = n.nextSN
    /\ n.currenView <= n2.currenView
    /\ n2.activeView => n.activeView /\ n2.currenView = n.currenView
    /\ \A p \in n2.out : p \in n.out \/ Reached(n2, p[2])
-----------------------------------------------------------------------------
\* A set of natural numbers has a least element: the induction below and Min in
\* follow rest on it.
LEMMA LeastNat ==
    ASSUME NEW S \in SUBSET Nat, S # {}
    PROVE  \E x \in S : \A y \in S : x <= y
<1> DEFINE R == OpToRel(<, Nat)
<1>1. IsWellFoundedOn(R, Nat)
  BY NatLessThanWellFounded
<1>2. \A x, y \in Nat : x < y => <<x, y>> \in R
  BY DEF OpToRel
<1> HIDE DEF R
<1>3. PICK x \in S : \A y \in S : ~(<<y, x>> \in R)
  BY <1>1, WFMin
<1>4. ASSUME NEW y \in S PROVE x <= y
  <2>1. x \in Nat /\ y \in Nat
    OBVIOUS
  <2>2. ~(y < x)
    BY <1>2, <1>3, <2>1
  <2> QED  BY <2>1, <2>2
<1> QED  BY <1>4

\* Code that does nothing stays.
LEMMA StaysRefl ==
    ASSUME NEW n, Viewed(n)
    PROVE  Stays(n, n)
BY DEF Stays, Viewed

\* Handlers that call each other stay.
LEMMA StaysTrans ==
    ASSUME NEW n0, NEW n1, NEW n2, Viewed(n0), Stays(n0, n1), Stays(n1, n2)
    PROVE  Stays(n0, n2)
<1>1. /\ n0.currenView \in Nat /\ n1.currenView \in Nat /\ n2.currenView \in Nat
      /\ n0.currenView <= n1.currenView /\ n1.currenView <= n2.currenView
      /\ n2.replicaId = n1.replicaId
  BY DEF Stays, Viewed
<1>2. \A m : Reached(n1, m) => Reached(n2, m)
  BY <1>1 DEF Reached
<1> QED  BY <1>1, <1>2 DEF Stays

\* A change of other fields is no change of the view.
LEMMA FieldStays ==
    ASSUME NEW n, Viewed(n), NEW v,
           NEW f \in {"signed", "signedCommits", "cert", "fastChecks", "panicked",
                      "prepareTimer", "h", "checkpointStore"}
    PROVE  LET n2 == [n EXCEPT ![f] = v] IN Viewed(n2) /\ Stays(n, n2)
BY DEF Stays, Viewed

\* broadcast and sendToLeader (node.go) stay.
LEMMA sendStays ==
    ASSUME NEW n, Viewed(n), NEW m, Reached(n, m)
    PROVE  Stays(n, broadcast(n, m)) /\ Stays(n, sendToLeader(n, m))
BY DEF Stays, Viewed, Reached, broadcast, sendToLeader

\* sendViewChange (viewchange.go) leaves the view and says so.
LEMMA sendViewChangeStays ==
    ASSUME NEW n, Viewed(n)
    PROVE  /\ Stays(n, sendViewChange(n))
           /\ sendViewChange(n).currenView = n.currenView + 1
           /\ ~sendViewChange(n).activeView
BY DEF Stays, Viewed, Reached, sendViewChange, broadcast

\* withCert assigns to a certificate.
LEMMA withCertStays ==
    ASSUME NEW n, Viewed(n), NEW id, NEW c
    PROVE  Stays(n, withCert(n, id, c)) /\ Viewed(withCert(n, id, c))
BY DEF Stays, Viewed, withCert

\* executeRequest (core.go) leaves the view at most.
LEMMA executeRequestStays ==
    ASSUME NEW n, Viewed(n), NEW id
    PROVE  Stays(n, executeRequest(n, id))
<1> DEFINE buffer == [n.execReqBuffer EXCEPT ![id[1]] = n.cert[id].reqBatchDigest]
           run == ExecutionRun(n, id[1], buffer)
           chkpts == {[type |-> "Checkpoint", from |-> n.replicaId, sn |-> i] :
                     i \in {j \in run : checkIfCreateChkpt(j)}}
           done == [n EXCEPT
            !.execReqBuffer = buffer,
            !.lastExec = @ + Cardinality(run),
            !.executed = [i \in SNs |-> IF i \in run THEN buffer[i] ELSE @[i]],
            !.out = @ \cup {<<Replicas, c>> : c \in chkpts}]
<1>1. \A c \in chkpts : c.type # "ViewChange"
  OBVIOUS
<1> HIDE DEF chkpts
<1>2. \A p \in {<<Replicas, c>> : c \in chkpts} : p[2] \in chkpts
  OBVIOUS
<1>3. Viewed(done) /\ Stays(n, done)
  BY <1>1, <1>2 DEF Stays, Viewed, Reached
<1>4. executeRequest(n, id) \in {done, sendViewChange(done)}
  BY DEF executeRequest, done, chkpts, run, buffer
<1> HIDE DEF done
<1>5. Stays(n, sendViewChange(done))
  BY <1>3, sendViewChangeStays, StaysTrans
<1> QED  BY <1>3, <1>4, <1>5

\* checkIfCommitted and checkIfPrepared (core.go) leave the view at most.
LEMMA checkIfStays ==
    ASSUME NEW n, Viewed(n), NEW id
    PROVE  Stays(n, checkIfCommitted(n, id)) /\ Stays(n, checkIfPrepared(n, id))
<1>1. \A n1, c : Viewed(n1) => /\ Stays(n1, withCert(n1, id, c))
                               /\ Viewed(withCert(n1, id, c))
  BY withCertStays
<1>2. \A n1, c : Viewed(n1)
                 => Stays(n1, executeRequest(withCert(n1, id, c), id))
  BY <1>1, executeRequestStays, StaysTrans
<1>3. \A n1 : Viewed(n1) => Stays(n1, checkIfCommitted(n1, id))
  BY <1>2, StaysRefl DEF checkIfCommitted
<1>4. \A n1, c : Viewed(n1)
                 => Stays(n1, checkIfCommitted(withCert(n1, id, c), id))
  BY <1>1, <1>3, StaysTrans
<1> QED  BY <1>2, <1>3, <1>4, StaysRefl DEF checkIfPrepared

\* handlePrepareVote and handlePrepareMsg (core.go) send certificates only.
LEMMA handlePrepareMsgStays ==
    ASSUME NEW n, Viewed(n), NEW pm, NEW stop
    PROVE  Stays(n, handlePrepareMsg(n, pm, stop))
<1>1. \A n1, id, c : Viewed(n1) => /\ Stays(n1, withCert(n1, id, c))
                                   /\ Viewed(withCert(n1, id, c))
  BY withCertStays
<1>2. \A n1, id, d, s : Viewed(n1) => /\ Stays(n1, sendPrepareQc(n1, id, d, s))
                                      /\ Stays(n1, sendFastPrepareQc(n1, id, d))
  <2>1. \A n1, id, c, m : Viewed(n1) /\ m.type # "ViewChange"
                          => Stays(n1, broadcast(withCert(n1, id, c), m))
    BY <1>1, sendStays, StaysTrans DEF Reached
  <2> QED  BY <2>1 DEF sendPrepareQc, sendFastPrepareQc
<1>3. \A n1 : Viewed(n1) => Stays(n1, [n1 EXCEPT !.panicked = TRUE])
  BY FieldStays
<1>4. ASSUME NEW n1, Viewed(n1) PROVE Stays(n1, handlePrepareVote(n1, pm, stop))
  <2> DEFINE id == <<pm.sn, pm.view>>
             n2 == withCert(n1, id, [n1.cert[id] EXCEPT !.partialSigInPrepare =
                                       @ \cup {<<pm.from, pm.digest>>}])
  <2>1. Viewed(n2) /\ Stays(n1, n2)
    BY <1>1, <1>4
  <2>2. \/ handlePrepareVote(n1, pm, stop) = [n2 EXCEPT !.panicked = TRUE]
        \/ handlePrepareVote(n1, pm, stop) = sendFastPrepareQc(n2, id, pm.digest)
        \/ handlePrepareVote(n1, pm, stop)
             = sendPrepareQc(n2, id, pm.digest, "handler")
        \/ handlePrepareVote(n1, pm, stop) = n2
    BY DEF handlePrepareVote
  <2> HIDE DEF n2
  <2>3. /\ Stays(n1, [n2 EXCEPT !.panicked = TRUE])
        /\ Stays(n1, sendFastPrepareQc(n2, id, pm.digest))
        /\ Stays(n1, sendPrepareQc(n2, id, pm.digest, "handler"))
    BY <1>2, <1>3, <1>4, <2>1, StaysTrans
  <2> QED  BY <2>1, <2>2, <2>3
<1>5. \A n1, id, c : Viewed(n1)
                     => Stays(n1, handlePrepareVote(withCert(n1, id, c), pm, stop))
  BY <1>1, <1>4, StaysTrans
<1> QED  BY <1>5, StaysRefl DEF handlePrepareMsg

\* handlePrePrepareMsg (core.go) leaves the view at most: on distrust, or by the
\* execution of what it has stored.
LEMMA handlePrePrepareMsgStays ==
    ASSUME NEW n, Viewed(n), NEW ppm, NEW stop
    PROVE  Stays(n, handlePrePrepareMsg(n, ppm, stop))
<1>1. ASSUME NEW n1, Viewed(n1) PROVE Stays(n1, CastVote(n1, ppm.sn, stop))
  <2> DEFINE pm == createPrepareMsg(n1, ppm.sn)
  <2>1. Viewed(Sign(n1, pm)) /\ Stays(n1, Sign(n1, pm))
    BY <1>1, FieldStays DEF Sign
  <2>2. Reached(Sign(n1, pm), pm)
    BY DEF Reached, createPrepareMsg
  <2> HIDE DEF pm
  <2>3. /\ Stays(n1, sendToLeader(Sign(n1, pm), pm))
        /\ Stays(n1, handlePrepareMsg(Sign(n1, pm), pm, stop))
    BY <1>1, <2>1, <2>2, sendStays, handlePrepareMsgStays, StaysTrans
  <2> QED  BY <2>3 DEF CastVote, pm
<1>2. ASSUME NEW id, NEW c
      PROVE  Stays(n, CastVote(checkIfPrepared(withCert(n, id, c), id),
                               ppm.sn, stop))
  <2> DEFINE n1 == withCert(n, id, c)
             n2 == checkIfPrepared(n1, id)
  <2>1. Stays(n, n1) /\ Viewed(n1)
    BY withCertStays
  <2> HIDE DEF n1
  <2>2. Stays(n, n2)
    BY <2>1, checkIfStays, StaysTrans
  <2> HIDE DEF n2
  <2>3. Viewed(n2)
    BY <2>2 DEF Stays
  <2>4. Stays(n, CastVote(n2, ppm.sn, stop))
    BY <1>1, <2>2, <2>3, StaysTrans
  <2> QED  BY <2>4 DEF n1, n2
<1> QED  BY <1>2, sendViewChangeStays, StaysRefl DEF handlePrePrepareMsg

\* The handlers of certificates, commit votes and checkpoints (core.go).
LEMMA HandlersStay ==
    ASSUME NEW n, Viewed(n), NEW m
    PROVE  /\ Stays(n, handlePrepareQc(n, m))
           /\ Stays(n, handleFastPrepareQc(n, m))
           /\ Stays(n, handleCommitMsg(n, m))
           /\ Stays(n, handleCommitQc(n, m))
           /\ Stays(n, recvCheckpoint(n, m))
<1>1. \A n1, id, c : Viewed(n1) => /\ Stays(n1, withCert(n1, id, c))
                                   /\ Viewed(withCert(n1, id, c))
  BY withCertStays
<1>2. \A id, c : /\ Stays(n, checkIfPrepared(withCert(n, id, c), id))
                 /\ Stays(n, checkIfCommitted(withCert(n, id, c), id))
  BY <1>1, checkIfStays, StaysTrans
<1>3. \A n1 : Viewed(n1) => Stays(n1, sendCommitMsg(n1, m))
  <2>1. \A n1, v : Viewed(n1) => LET n2 == [n1 EXCEPT !.signedCommits = v]
                                 IN  Viewed(n2) /\ Stays(n1, n2)
    BY FieldStays
  <2>2. \A n2, c : Viewed(n2) /\ c.type # "ViewChange"
                   => Stays(n2, sendToLeader(n2, c))
    BY sendStays DEF Reached
  <2> QED  BY <2>1, <2>2, StaysTrans DEF sendCommitMsg
<1>4. Stays(n, handlePrepareQc(n, m))
  <2>1. \A id, c : Stays(n, sendCommitMsg(checkIfPrepared(withCert(n, id, c), id), m))
    BY <1>2, <1>3, StaysTrans DEF Stays
  <2> QED  BY <2>1, sendViewChangeStays, StaysRefl DEF handlePrepareQc
<1>5. Stays(n, handleFastPrepareQc(n, m))
  <2>1. \A v : Viewed([n EXCEPT !.fastChecks = v])
               /\ Stays(n, [n EXCEPT !.fastChecks = v])
    BY FieldStays
  <2>2. \A v, id, c : Stays(n, withCert([n EXCEPT !.fastChecks = v], id, c))
    BY <1>1, <2>1, StaysTrans
  <2> QED  BY <2>2, StaysRefl DEF handleFastPrepareQc
<1>6. Stays(n, handleCommitMsg(n, m))
  <2>1. \A id, c, q : q.type # "ViewChange"
                      => Stays(n, broadcast(withCert(n, id, c), q))
    BY <1>1, sendStays, StaysTrans DEF Reached
  <2> QED  BY <1>1, <2>1, StaysRefl DEF handleCommitMsg
<1>7. Stays(n, handleCommitQc(n, m))
  BY <1>2, sendViewChangeStays, StaysRefl DEF handleCommitQc
<1>8. Stays(n, recvCheckpoint(n, m))
  BY DEF recvCheckpoint, moveWatermarks, Stays, Viewed
<1> QED  BY <1>4, <1>5, <1>6, <1>7, <1>8
-----------------------------------------------------------------------------
(***************************************************************************)
(* What a replica has stored in the first view.  Recalls(n, n2): from n to *)
(* n2 a handler has left these records alone, has started no timer of the  *)
(* first view and proposed nothing, and what it has sent of the first view *)
(* is its own: certificates of its proposals, and view-change messages     *)
(* that tell what it has stored.                                           *)
(***************************************************************************)
Batch0(n, sn) == n.cert[<<sn, 0>>].reqBatchDigest
Qc0(n, sn) == n.cert[<<sn, 0>>].prepareQc
Timer0(n, sn) == n.prepareTimer[<<sn, 0>>]

\* A view-change message tells what its sender n has stored in the first view
\* above the checkpoint of the message.
Tells(n, vc) ==
    \A sn \in SNs :
      /\ \A b \in Batches : <<<<sn, 0>>, b>> \in vc.pset => b = Batch0(n, sn)
      /\ sn > vc.lastStableCk =>
           /\ Batch0(n, sn) # Nil => <<<<sn, 0>>, Batch0(n, sn)>> \in vc.pset
           /\ Qc0(n, sn) # Nil => Qc0(n, sn) \in vc.qset

Honest(n, m) ==
    /\ m.type # "PrePrepare"
    /\ m.type = "PrepareQc" /\ m.view = 0 =>
         /\ m.from = n.replicaId
         /\ m.sn \in SNs => Timer0(n, m.sn).pc # "none"
    /\ m.type = "ViewChange" => m.from = n.replicaId /\ m.view > 0 /\ Tells(n, m)

\* The fields this is about, as far as it depends on them.
Recorded(n) ==
    /\ {"replicaId", "currenView", "activeView", "h", "cert", "prepareTimer",
        "signedCommits", "out"} \subseteq DOMAIN n
    /\ n.currenView \in Nat
    /\ DOMAIN n.cert = Ids /\ DOMAIN n.prepareTimer = Ids
    /\ \A id \in Ids : /\ {"reqBatchDigest", "prepareQc"} \subseteq DOMAIN n.cert[id]
                       /\ n.cert[id].reqBatchDigest \in Digests

\* A commit vote of the first view is for the certificate in store.
Stored(n, qc) == qc.view = 0 /\ qc.sn \in SNs => Qc0(n, qc.sn) = qc

\* A replica that is not active has left the first view.
Settled(n) == n.activeView \/ n.currenView > 0

SameRecords(n, n2) == \A sn \in SNs : /\ Batch0(n2, sn) = Batch0(n, sn)
                                      /\ Qc0(n2, sn) = Qc0(n, sn)

SameTimers(n, n2) ==
    \A sn \in SNs : /\ Timer0(n2, sn).batch = Timer0(n, sn).batch
                    /\ Timer0(n2, sn).pc = "none" <=> Timer0(n, sn).pc = "none"

Recalls(n, n2) ==
    /\ Recorded(n2) /\ n2.replicaId = n.replicaId
    /\ Settled(n) => Settled(n2)
    /\ SameRecords(n, n2) /\ SameTimers(n, n2)
    /\ \A qc \in n2.signedCommits : qc \in n.signedCommits \/ Stored(n2, qc)
    /\ \A p \in n2.out : p \in n.out \/ Honest(n2, p[2])
-----------------------------------------------------------------------------
\* What is honest or stored for one struct is so for another with the same
\* records and timers.
LEMMA HonestSame ==
    ASSUME NEW n, NEW n2, SameRecords(n, n2), SameTimers(n, n2),
           n2.replicaId = n.replicaId
    PROVE  /\ \A m : Honest(n, m) => Honest(n2, m)
           /\ \A qc : Stored(n, qc) => Stored(n2, qc)
<1>1. \A m : Tells(n, m) => Tells(n2, m)
  BY DEF Tells, SameRecords
<1>2. \A m : Honest(n, m) => Honest(n2, m)
  BY <1>1 DEF Honest, SameTimers
<1>3. \A qc : Stored(n, qc) => Stored(n2, qc)
  BY DEF Stored, SameRecords
<1> QED  BY <1>2, <1>3

\* Code that does nothing recalls.
LEMMA RecallsRefl ==
    ASSUME NEW n, Recorded(n)
    PROVE  Recalls(n, n)
BY DEF Recalls, SameRecords, SameTimers

\* Handlers that call each other recall together.
LEMMA RecallsTrans ==
    ASSUME NEW n0, NEW n1, NEW n2, Recalls(n0, n1), Recalls(n1, n2)
    PROVE  Recalls(n0, n2)
<1>1. /\ \A m : Honest(n1, m) => Honest(n2, m)
      /\ \A qc : Stored(n1, qc) => Stored(n2, qc)
  BY HonestSame DEF Recalls
<1>2. SameRecords(n0, n2) /\ SameTimers(n0, n2)
  BY DEF Recalls, SameRecords, SameTimers
<1> QED  BY <1>1, <1>2 DEF Recalls

\* A change of other fields changes no record.
LEMMA FieldRecalls ==
    ASSUME NEW n, Recorded(n), NEW v,
           NEW f \in {"signed", "fastChecks", "panicked", "h", "checkpointStore"}
    PROVE  LET n2 == [n EXCEPT ![f] = v] IN Recalls(n, n2)
BY DEF Recalls, Recorded, SameRecords, SameTimers, Settled, Batch0, Qc0, Timer0

\* broadcast and sendToLeader (node.go) recall if the message does.
LEMMA sendRecalls ==
    ASSUME NEW n, Recorded(n), NEW m, Honest(n, m)
    PROVE  Recalls(n, broadcast(n, m)) /\ Recalls(n, sendToLeader(n, m))
<1>1. ASSUME NEW S PROVE Recalls(n, [n EXCEPT !.out = @ \cup {<<S, m>>}])
  <2> DEFINE n2 == [n EXCEPT !.out = @ \cup {<<S, m>>}]
  <2>1. /\ Recorded(n2) /\ n2.replicaId = n.replicaId
        /\ Settled(n) => Settled(n2)
        /\ SameRecords(n, n2) /\ SameTimers(n, n2)
        /\ n2.signedCommits = n.signedCommits
        /\ n2.out = n.out \cup {<<S, m>>}
    BY DEF Recorded, SameRecords, SameTimers, Settled, Batch0, Qc0, Timer0
  <2> HIDE DEF n2
  <2>2. Honest(n2, m)
    BY <2>1, HonestSame
  <2> QED  BY <2>1, <2>2 DEF Recalls, n2
<1> QED  BY <1>1 DEF broadcast, sendToLeader

\* sendViewChange (viewchange.go) with calPQset: the message tells everything
\* above the low watermark.
LEMMA sendViewChangeRecalls ==
    ASSUME NEW n, Recorded(n)
    PROVE  Recalls(n, sendViewChange(n))
<1> DEFINE vc == [type |-> "ViewChange", from |-> n.replicaId,
                  view |-> n.currenView + 1, lastStableCk |-> n.h,
                  pset |-> {p \in ReportedIds(n) \X Batches :
                              p[2] = n.cert[p[1]].reqBatchDigest},
                  qset |-> {n.cert[id].prepareQc : id \in ReportedIds(n)} \ {Nil}]
           left == [n EXCEPT !.currenView = @ + 1, !.activeView = FALSE]
<1>1. /\ Recorded(left) /\ Recalls(n, left)
      /\ left.replicaId = n.replicaId /\ left.cert = n.cert
  BY DEF Recalls, Recorded, SameRecords, SameTimers, Settled, Batch0, Qc0, Timer0
<1>2. Tells(left, vc)
  <2>1. \A sn \in SNs : <<sn, 0>> \in Ids
    BY ParameterAssumption DEF Ids, Views
  <2>2. \A sn \in SNs : sn > n.h => <<sn, 0>> \in ReportedIds(n)
    BY <2>1 DEF ReportedIds
  <2>3. \A sn \in SNs : Batch0(left, sn) # Nil => Batch0(left, sn) \in Batches
    BY <1>1, <2>1 DEF Batch0, Recorded, Digests
  <2>4. vc.lastStableCk = n.h
    OBVIOUS
  <2>5. ASSUME NEW sn \in SNs, NEW b \in Batches, <<<<sn, 0>>, b>> \in vc.pset
        PROVE  b = Batch0(left, sn)
    BY <1>1, <2>5 DEF Batch0
  <2>6. ASSUME NEW sn \in SNs, sn > n.h, Batch0(left, sn) # Nil
        PROVE  <<<<sn, 0>>, Batch0(left, sn)>> \in vc.pset
    <3>1. <<<<sn, 0>>, Batch0(left, sn)>> \in ReportedIds(n) \X Batches
      BY <2>2, <2>3, <2>6
    <3>2. Batch0(left, sn) = n.cert[<<sn, 0>>].reqBatchDigest
      BY <1>1 DEF Batch0
    <3> QED  BY <3>1, <3>2
  <2>7. ASSUME NEW sn \in SNs, sn > n.h, Qc0(left, sn) # Nil
        PROVE  Qc0(left, sn) \in vc.qset
    BY <1>1, <2>2, <2>7 DEF Qc0
  <2> HIDE DEF vc
  <2> QED  BY <2>4, <2>5, <2>6, <2>7 DEF Tells
<1>3. Honest(left, vc)
  <2>1. /\ vc.type = "ViewChange" /\ vc.from = n.replicaId
        /\ vc.view = n.currenView + 1 /\ vc.view > 0
    BY DEF Recorded
  <2> HIDE DEF vc, left
  <2> QED  BY <1>1, <1>2, <2>1 DEF Honest
<1>4. sendViewChange(n) = broadcast(left, vc)
  BY DEF sendViewChange
<1> HIDE DEF vc, left
<1> QED  BY <1>1, <1>3, <1>4, sendRecalls, RecallsTrans


\* withCert assigns to a certificate: the records stay unless the certificate is
\* one of the first view and says otherwise.
LEMMA withCertRecalls ==
    ASSUME NEW n, Recorded(n), NEW id, NEW c,
           id \in Ids =>
             /\ {"reqBatchDigest", "prepareQc"} \subseteq DOMAIN c
             /\ c.reqBatchDigest \in Digests
             /\ id[2] = 0 => /\ c.reqBatchDigest = n.cert[id].reqBatchDigest
                             /\ c.prepareQc = n.cert[id].prepareQc
    PROVE  Recalls(n, withCert(n, id, c))
<1> DEFINE n2 == [n EXCEPT !.cert = [@ EXCEPT ![id] = c]]
<1>1. /\ DOMAIN n2 = DOMAIN n /\ n2.cert = [n.cert EXCEPT ![id] = c]
      /\ n2.replicaId = n.replicaId /\ n2.currenView = n.currenView
      /\ n2.activeView = n.activeView /\ n2.out = n.out
      /\ n2.prepareTimer = n.prepareTimer
      /\ n2.signedCommits = n.signedCommits
  BY DEF Recorded
<1>2. withCert(n, id, c) = n2
  BY DEF withCert, Recorded
<1> HIDE DEF n2
<1>3. /\ DOMAIN n2.cert = Ids
      /\ \A j \in Ids : n2.cert[j] = IF j = id THEN c ELSE n.cert[j]
  BY <1>1 DEF Recorded
<1>4. Recorded(n2)
  BY <1>1, <1>3 DEF Recorded
<1>5. SameRecords(n, n2)
  <2>1. \A sn \in SNs : <<sn, 0>> \in Ids
    BY ParameterAssumption DEF Ids, Views
  <2>2. ASSUME NEW sn \in SNs
        PROVE  Batch0(n2, sn) = Batch0(n, sn) /\ Qc0(n2, sn) = Qc0(n, sn)
    <3>1. CASE id = <<sn, 0>>
      <4>1. id \in Ids /\ id[2] = 0
        BY <2>1, <3>1
      <4>2. n2.cert[id] = c
        BY <1>3, <4>1
      <4> QED  BY <3>1, <4>1, <4>2 DEF Batch0, Qc0
    <3>2. CASE id # <<sn, 0>>
      BY <1>3, <2>1, <3>2 DEF Batch0, Qc0
    <3> QED  BY <3>1, <3>2
  <2> QED  BY <2>2 DEF SameRecords
<1>6. SameTimers(n, n2) /\ (Settled(n) => Settled(n2))
  BY <1>1 DEF SameTimers, Timer0, Settled
<1> QED  BY <1>1, <1>2, <1>4, <1>5, <1>6 DEF Recalls

\* Changes of a certificate in its other fields.
LEMMA sameCertRecalls ==
    ASSUME NEW n, Recorded(n), NEW id, NEW c,
           id \in Ids => /\ DOMAIN c = DOMAIN n.cert[id]
                         /\ c.reqBatchDigest = n.cert[id].reqBatchDigest
                         /\ c.prepareQc = n.cert[id].prepareQc
    PROVE  Recalls(n, withCert(n, id, c))
BY withCertRecalls DEF Recorded

\* executeRequest (core.go) changes no record, and may leave the view.
LEMMA executeRequestRecalls ==
    ASSUME NEW n, Recorded(n), NEW id
    PROVE  Recalls(n, executeRequest(n, id))
<1> DEFINE buffer == [n.execReqBuffer EXCEPT ![id[1]] = n.cert[id].reqBatchDigest]
           run == ExecutionRun(n, id[1], buffer)
           chkpts == {[type |-> "Checkpoint", from |-> n.replicaId, sn |-> i] :
                     i \in {j \in run : checkIfCreateChkpt(j)}}
           done == [n EXCEPT
            !.execReqBuffer = buffer,
            !.lastExec = @ + Cardinality(run),
            !.executed = [i \in SNs |-> IF i \in run THEN buffer[i] ELSE @[i]],
            !.out = @ \cup {<<Replicas, c>> : c \in chkpts}]
<1>1. \A c, m : c \in chkpts => Honest(m, c)
  BY DEF Honest
<1>2. executeRequest(n, id) \in {done, sendViewChange(done)}
  BY DEF executeRequest
<1> HIDE DEF chkpts, run, buffer
<1>3. \A p \in {<<Replicas, c>> : c \in chkpts} : p[2] \in chkpts
  OBVIOUS
<1>4. /\ Recorded(done) /\ done.replicaId = n.replicaId
      /\ Settled(n) => Settled(done)
      /\ SameRecords(n, done) /\ SameTimers(n, done)
      /\ done.signedCommits = n.signedCommits
      /\ done.out = n.out \cup {<<Replicas, c>> : c \in chkpts}
  BY DEF Recorded, SameRecords, SameTimers, Settled, Batch0, Qc0, Timer0
<1> HIDE DEF done
<1>5. Recalls(n, done)
  BY <1>1, <1>3, <1>4 DEF Recalls
<1>6. Recalls(n, sendViewChange(done))
  BY <1>4, <1>5, sendViewChangeRecalls, RecallsTrans
<1> QED  BY <1>2, <1>5, <1>6

\* checkIfCommitted and checkIfPrepared (core.go) change the stage of a
\* certificate.
LEMMA checkIfRecalls ==
    ASSUME NEW n, Recorded(n), NEW id
    PROVE  Recalls(n, checkIfCommitted(n, id)) /\ Recalls(n, checkIfPrepared(n, id))
<1>1. \A n1, s : Recorded(n1) =>
        LET n2 == withCert(n1, id, [n1.cert[id] EXCEPT !.reqBatchStage = s])
        IN  Recalls(n1, n2) /\ Recorded(n2)
  <2> SUFFICES ASSUME NEW n1, NEW s, Recorded(n1)
               PROVE  LET n2 == withCert(n1, id, [n1.cert[id] EXCEPT !.reqBatchStage = s])
                      IN  Recalls(n1, n2) /\ Recorded(n2)
    OBVIOUS
  <2>1. Recalls(n1, withCert(n1, id, [n1.cert[id] EXCEPT !.reqBatchStage = s]))
    <3> DEFINE c == [n1.cert[id] EXCEPT !.reqBatchStage = s]
    <3>1. id \in Ids => /\ DOMAIN c = DOMAIN n1.cert[id]
                        /\ c.reqBatchDigest = n1.cert[id].reqBatchDigest
                        /\ c.prepareQc = n1.cert[id].prepareQc
      BY DEF Recorded
    <3> HIDE DEF c
    <3>2. Recalls(n1, withCert(n1, id, c))
      BY <3>1, sameCertRecalls
    <3> QED  BY <3>2 DEF c
  <2> QED  BY <2>1 DEF Recalls
<1>2. \A n1, s : Recorded(n1) =>
        Recalls(n1, executeRequest(
                      withCert(n1, id, [n1.cert[id] EXCEPT !.reqBatchStage = s]), id))
  BY <1>1, executeRequestRecalls, RecallsTrans
<1>3. \A n1 : Recorded(n1) => Recalls(n1, checkIfCommitted(n1, id))
  BY <1>2, RecallsRefl DEF checkIfCommitted
<1>4. \A n1, s : Recorded(n1) =>
        Recalls(n1, checkIfCommitted(
                      withCert(n1, id, [n1.cert[id] EXCEPT !.reqBatchStage = s]), id))
  BY <1>1, <1>3, RecallsTrans
<1> QED  BY <1>2, <1>3, <1>4, RecallsRefl DEF checkIfPrepared

\* handlePrepareVote (core.go) sends a certificate only for a request that has a
\* timer.
LEMMA handlePrepareVoteRecalls ==
    ASSUME NEW n, Recorded(n), NEW pm, NEW stop
    PROVE  Recalls(n, handlePrepareVote(n, pm, stop))
<1> DEFINE id == <<pm.sn, pm.view>>
           Certified2(n1, s) == withCert(n1, id, [n1.cert[id] EXCEPT !.prepareQcStage = TRUE,
                                                             !.qcSent = @ \cup {s}])
           n2 == withCert(n, id, [n.cert[id] EXCEPT !.partialSigInPrepare =
                                    @ \cup {<<pm.from, pm.digest>>}])
<1>1. Recalls(n, n2) /\ Recorded(n2) /\ n2.prepareTimer = n.prepareTimer
  <2> DEFINE c == [n.cert[id] EXCEPT !.partialSigInPrepare =
                     @ \cup {<<pm.from, pm.digest>>}]
  <2>1. id \in Ids => /\ DOMAIN c = DOMAIN n.cert[id]
                      /\ c.reqBatchDigest = n.cert[id].reqBatchDigest
                      /\ c.prepareQc = n.cert[id].prepareQc
    BY DEF Recorded
  <2> HIDE DEF c
  <2>2. Recalls(n, withCert(n, id, c)) /\ withCert(n, id, c).prepareTimer = n.prepareTimer
    BY <2>1, sameCertRecalls DEF withCert, Recorded
  <2> QED  BY <2>2 DEF c, Recalls
<1>2. ASSUME NEW s
      PROVE  LET n3 == Certified2(n2, s)
             IN  /\ Recalls(n2, n3) /\ Recorded(n3) /\ n3.replicaId = n2.replicaId
                 /\ n3.prepareTimer = n2.prepareTimer
  <2> HIDE DEF n2
  <2> DEFINE c == [n2.cert[id] EXCEPT !.prepareQcStage = TRUE, !.qcSent = @ \cup {s}]
  <2>1. id \in Ids => /\ DOMAIN c = DOMAIN n2.cert[id]
                      /\ c.reqBatchDigest = n2.cert[id].reqBatchDigest
                      /\ c.prepareQc = n2.cert[id].prepareQc
    BY <1>1 DEF Recorded
  <2> HIDE DEF c
  <2>2. /\ Recalls(n2, withCert(n2, id, c))
        /\ withCert(n2, id, c).prepareTimer = n2.prepareTimer
    BY <1>1, <2>1, sameCertRecalls DEF withCert, Recorded
  <2> QED  BY <2>2 DEF c, Recalls
<1>3. CASE n.prepareTimer[id].pc = "none"
  <2>1. handlePrepareVote(n, pm, stop) = [n2 EXCEPT !.panicked = TRUE]
    BY <1>3 DEF handlePrepareVote
  <2> HIDE DEF n2
  <2>2. Recalls(n2, [n2 EXCEPT !.panicked = TRUE])
    BY <1>1, FieldRecalls
  <2> QED  BY <1>1, <2>1, <2>2, RecallsTrans
<1>4. CASE n.prepareTimer[id].pc # "none"
  <2> DEFINE qc(n1, s) == [type |-> "PrepareQc", from |-> n1.replicaId, sn |-> id[1],
                           view |-> id[2], digest |-> pm.digest, stamp |-> s]
             fqc(n1) == [type |-> "FastPrepareQc", from |-> n1.replicaId, sn |-> id[1],
                         view |-> id[2], digest |-> pm.digest]
  <2>1. \/ handlePrepareVote(n, pm, stop) = n2
        \/ handlePrepareVote(n, pm, stop) = broadcast(Certified2(n2, "fast"), fqc(n2))
        \/ handlePrepareVote(n, pm, stop)
             = broadcast(Certified2(n2, "handler"), qc(n2, "handler"))
    BY <1>4 DEF handlePrepareVote, sendPrepareQc, sendFastPrepareQc
  <2> HIDE DEF n2
  <2>2. ASSUME NEW s
        PROVE  /\ Honest(Certified2(n2, s), fqc(n2))
               /\ Honest(Certified2(n2, s), qc(n2, "handler"))
    <3> DEFINE n3 == Certified2(n2, s)
    <3>1. n3.replicaId = n2.replicaId /\ n3.prepareTimer = n2.prepareTimer
      BY <1>2
    <3> HIDE DEF n3
    <3>2. Honest(n3, fqc(n2)) /\ Honest(n3, qc(n2, "handler"))
      BY <1>1, <1>4, <3>1 DEF Honest, Timer0
    <3> QED  BY <3>2 DEF n3
  <2>3. \A s : Recalls(n, Certified2(n2, s)) /\ Recorded(Certified2(n2, s))
    BY <1>1, <1>2, RecallsTrans
  <2> HIDE DEF Certified2, qc, fqc
  <2> QED  BY <1>1, <2>1, <2>2, <2>3, sendRecalls, RecallsTrans
<1> QED  BY <1>3, <1>4

\* handlePrepareMsg (core.go) remembers who has voted.
LEMMA handlePrepareMsgRecalls ==
    ASSUME NEW n, Recorded(n), NEW pm, NEW stop
    PROVE  Recalls(n, handlePrepareMsg(n, pm, stop))
<1> DEFINE id == <<pm.sn, n.currenView>>
           c == [n.cert[id] EXCEPT !.prePareStore = @ \cup {pm.from}]
           n1 == withCert(n, id, c)
<1>1. id \in Ids => /\ DOMAIN c = DOMAIN n.cert[id]
                    /\ c.reqBatchDigest = n.cert[id].reqBatchDigest
                    /\ c.prepareQc = n.cert[id].prepareQc
  BY DEF Recorded
<1>2. handlePrepareMsg(n, pm, stop) \in {n, handlePrepareVote(n1, pm, stop)}
  BY DEF handlePrepareMsg
<1> HIDE DEF c, id
<1>3. Recalls(n, n1) /\ Recorded(n1)
  BY <1>1, sameCertRecalls DEF Recalls
<1> HIDE DEF n1
<1>4. Recalls(n, handlePrepareVote(n1, pm, stop))
  BY <1>3, handlePrepareVoteRecalls, RecallsTrans
<1> QED  BY <1>2, <1>4, RecallsRefl


\* CastVote (core.go) sends a vote, or counts it.
LEMMA CastVoteRecalls ==
    ASSUME NEW n, Recorded(n), NEW sn, NEW stop
    PROVE  Recalls(n, CastVote(n, sn, stop))
<1> DEFINE pm == createPrepareMsg(n, sn)
           n1 == Sign(n, pm)
<1>1. Recalls(n, n1) /\ Recorded(n1)
  <2>1. \A v : Recalls(n, [n EXCEPT !.signed = v])
    BY FieldRecalls
  <2> QED  BY <2>1 DEF Sign, Recalls
<1>2. Honest(n1, pm)
  BY DEF Honest, createPrepareMsg
<1>3. CastVote(n, sn, stop) \in {sendToLeader(n1, pm), handlePrepareMsg(n1, pm, stop)}
  BY DEF CastVote
<1> HIDE DEF n1, pm
<1> QED  BY <1>1, <1>2, <1>3, sendRecalls, handlePrepareMsgRecalls, RecallsTrans

(***************************************************************************)
(* The two handlers that write a record of the first view, and what they   *)
(* write.                                                                  *)
(***************************************************************************)
PutBatch(n, ppm) ==
    withCert(n, <<ppm.sn, ppm.view>>,
             [n.cert[<<ppm.sn, ppm.view>>] EXCEPT !.reqBatchStage = "received",
                                                  !.reqBatchDigest = ppm.digest])

PutQc(n, qc) ==
    withCert(n, <<qc.sn, qc.view>>,
             [n.cert[<<qc.sn, qc.view>>] EXCEPT !.prepareQc = qc])

\* All but the records of the first view is in n1 as it is in n.
Differ(n, n1) == /\ Recorded(n1) /\ SameTimers(n, n1) /\ n1.replicaId = n.replicaId
                 /\ Settled(n) => Settled(n1)
                 /\ n1.signedCommits = n.signedCommits /\ n1.out = n.out

\* handlePrePrepareMsg (core.go) writes one batch.
LEMMA PutBatchDiffers ==
    ASSUME NEW n, Recorded(n), NEW ppm, ppm.digest \in Digests,
           ppm.view = 0, ppm.sn \in SNs
    PROVE  LET n1 == PutBatch(n, ppm)
           IN  /\ Differ(n, n1)
               /\ \A sn \in SNs :
                    /\ Qc0(n1, sn) = Qc0(n, sn)
                    /\ Batch0(n1, sn) = IF sn = ppm.sn THEN ppm.digest ELSE Batch0(n, sn)
<1> DEFINE id == <<ppm.sn, 0>>
           c == [n.cert[id] EXCEPT !.reqBatchStage = "received",
                                   !.reqBatchDigest = ppm.digest]
           n1 == PutBatch(n, ppm)
<1>1. \A sn \in SNs : <<sn, 0>> \in Ids
  BY ParameterAssumption DEF Ids, Views
<1>2. /\ DOMAIN c = DOMAIN n.cert[id] /\ c.reqBatchDigest = ppm.digest
      /\ c.prepareQc = n.cert[id].prepareQc
  BY <1>1 DEF Recorded
<1>3. /\ DOMAIN n1 = DOMAIN n /\ n1.cert = [n.cert EXCEPT ![id] = c]
      /\ n1.replicaId = n.replicaId /\ n1.currenView = n.currenView
      /\ n1.activeView = n.activeView /\ n1.out = n.out
      /\ n1.prepareTimer = n.prepareTimer
      /\ n1.signedCommits = n.signedCommits
  BY DEF Recorded, PutBatch, withCert
<1> HIDE DEF n1, c
<1>4. /\ DOMAIN n1.cert = Ids
      /\ \A j \in Ids : n1.cert[j] = IF j = id THEN c ELSE n.cert[j]
  BY <1>3 DEF Recorded
<1>5. Recorded(n1)
  BY <1>1, <1>2, <1>3, <1>4 DEF Recorded
<1>6. ASSUME NEW sn \in SNs
      PROVE  /\ Qc0(n1, sn) = Qc0(n, sn)
             /\ Batch0(n1, sn) = IF sn = ppm.sn THEN ppm.digest ELSE Batch0(n, sn)
  BY <1>1, <1>2, <1>4 DEF Batch0, Qc0
<1>7. Differ(n, n1)
  BY <1>3, <1>5 DEF Differ, SameTimers, Timer0, Settled
<1> QED  BY <1>6, <1>7 DEF n1

\* handlePrepareQc (core.go) writes one certificate.
LEMMA PutQcDiffers ==
    ASSUME NEW n, Recorded(n), NEW qc, qc.view = 0, qc.sn \in SNs
    PROVE  LET n1 == PutQc(n, qc)
           IN  /\ Differ(n, n1)
               /\ \A sn \in SNs :
                    /\ Batch0(n1, sn) = Batch0(n, sn)
                    /\ Qc0(n1, sn) = IF sn = qc.sn THEN qc ELSE Qc0(n, sn)
<1> DEFINE id == <<qc.sn, 0>>
           c == [n.cert[id] EXCEPT !.prepareQc = qc]
           n1 == PutQc(n, qc)
<1>1. \A sn \in SNs : <<sn, 0>> \in Ids
  BY ParameterAssumption DEF Ids, Views
<1>2. /\ DOMAIN c = DOMAIN n.cert[id] /\ c.prepareQc = qc
      /\ c.reqBatchDigest = n.cert[id].reqBatchDigest
  BY <1>1 DEF Recorded
<1>3. /\ DOMAIN n1 = DOMAIN n /\ n1.cert = [n.cert EXCEPT ![id] = c]
      /\ n1.replicaId = n.replicaId /\ n1.currenView = n.currenView
      /\ n1.activeView = n.activeView /\ n1.out = n.out
      /\ n1.prepareTimer = n.prepareTimer
      /\ n1.signedCommits = n.signedCommits
  BY DEF Recorded, PutQc, withCert
<1> HIDE DEF n1, c
<1>4. /\ DOMAIN n1.cert = Ids
      /\ \A j \in Ids : n1.cert[j] = IF j = id THEN c ELSE n.cert[j]
  BY <1>3 DEF Recorded
<1>5. Recorded(n1)
  BY <1>1, <1>2, <1>3, <1>4 DEF Recorded
<1>6. ASSUME NEW sn \in SNs
      PROVE  /\ Batch0(n1, sn) = Batch0(n, sn)
             /\ Qc0(n1, sn) = IF sn = qc.sn THEN qc ELSE Qc0(n, sn)
  BY <1>1, <1>2, <1>4 DEF Batch0, Qc0
<1>7. Differ(n, n1)
  BY <1>3, <1>5 DEF Differ, SameTimers, Timer0, Settled
<1> QED  BY <1>6, <1>7 DEF n1

\* handlePrePrepareMsg (core.go) writes only as an active replica, the batch that
\* its primary proposes.
LEMMA handlePrePrepareMsgRecalls ==
    ASSUME NEW n, Recorded(n), NEW ppm, ppm.digest \in Digests, NEW stop
    PROVE  LET n1 == PutBatch(n, ppm)
               n2 == handlePrePrepareMsg(n, ppm, stop)
           IN  \/ Recalls(n, n2)
               \/ /\ n.activeView /\ ppm.from = Primary(n.currenView)
                  /\ ppm.view = 0 /\ ppm.sn \in SNs /\ Recalls(n1, n2)
<1> DEFINE id == <<ppm.sn, ppm.view>>
           n1 == PutBatch(n, ppm)
           n2 == handlePrePrepareMsg(n, ppm, stop)
<1>1. ASSUME Recorded(n1)
      PROVE  Recalls(n1, CastVote(checkIfPrepared(n1, id), ppm.sn, stop))
  <2> DEFINE n3 == checkIfPrepared(n1, id)
  <2>1. Recalls(n1, n3) /\ Recorded(n3)
    BY <1>1, checkIfRecalls DEF Recalls
  <2> HIDE DEF n1, n3
  <2>2. Recalls(n1, CastVote(n3, ppm.sn, stop))
    BY <2>1, CastVoteRecalls, RecallsTrans
  <2> QED  BY <2>2 DEF n3
<1>2. \/ n2 = n \/ n2 = sendViewChange(n)
      \/ /\ n2 = CastVote(checkIfPrepared(n1, id), ppm.sn, stop)
         /\ n.activeView /\ ppm.from = Primary(n.currenView)
  BY DEF handlePrePrepareMsg, DistrustsPrePrepare, PutBatch
<1> HIDE DEF n2
<1>3. CASE n2 = n \/ n2 = sendViewChange(n)
  BY <1>3, RecallsRefl, sendViewChangeRecalls DEF n2
<1>4. CASE /\ n2 = CastVote(checkIfPrepared(n1, id), ppm.sn, stop)
           /\ n.activeView /\ ppm.from = Primary(n.currenView)
  <2>1. CASE ppm.view = 0 /\ ppm.sn \in SNs
    <3>1. Recorded(n1)
      BY <2>1, PutBatchDiffers DEF Differ
    <3> QED  BY <1>1, <1>4, <2>1, <3>1 DEF n2
  <2>2. CASE ~(ppm.view = 0 /\ ppm.sn \in SNs)
    <3> DEFINE c == [n.cert[id] EXCEPT !.reqBatchStage = "received",
                                       !.reqBatchDigest = ppm.digest]
    <3>1. id \in Ids => /\ DOMAIN c = DOMAIN n.cert[id]
                        /\ {"reqBatchDigest", "prepareQc"} \subseteq DOMAIN c
                        /\ c.reqBatchDigest = ppm.digest
      BY DEF Recorded
    <3>2. id \in Ids => id[2] # 0
      BY <2>2 DEF Ids
    <3>3. Recalls(n, withCert(n, id, c))
      <4> HIDE DEF c, id
      <4> QED  BY <3>1, <3>2, withCertRecalls
    <3>4. Recalls(n, n1) /\ Recorded(n1)
      BY <3>3 DEF PutBatch, Recalls
    <3> HIDE DEF n1
    <3> QED  BY <1>1, <1>4, <3>4, RecallsTrans DEF n2
  <2> QED  BY <2>1, <2>2
<1> QED  BY <1>2, <1>3, <1>4

\* handlePrepareQc (core.go) writes only as an active replica, the certificate of
\* its primary where it has none.
LEMMA handlePrepareQcRecalls ==
    ASSUME NEW n, Recorded(n), NEW qc
    PROVE  LET n1 == PutQc(n, qc)
               n2 == handlePrepareQc(n, qc)
           IN  \/ Recalls(n, n2)
               \/ /\ n.activeView /\ qc.from = Primary(n.currenView)
                  /\ qc.view = 0 /\ qc.sn \in SNs /\ Qc0(n, qc.sn) = Nil
                  /\ Recalls(n1, n2)
<1> DEFINE id == <<qc.sn, qc.view>>
           n1 == PutQc(n, qc)
           n2 == handlePrepareQc(n, qc)
<1>1. ASSUME Recorded(n1), Stored(n1, qc)
      PROVE  Recalls(n1, sendCommitMsg(checkIfPrepared(n1, id), qc))
  <2> DEFINE n3 == checkIfPrepared(n1, id)
             n4 == [n3 EXCEPT !.signedCommits = @ \cup {qc}]
             cm == [type |-> "Commit", from |-> n3.replicaId, vote |-> qc]
  <2>1. Recalls(n1, n3) /\ Recorded(n3)
    BY <1>1, checkIfRecalls DEF Recalls
  <2>2. sendCommitMsg(n3, qc) = sendToLeader(n4, cm)
    BY DEF sendCommitMsg
  <2> HIDE DEF n1, n3
  <2>3. Stored(n3, qc)
    BY <1>1, <2>1, HonestSame DEF Recalls
  <2>4. /\ Recorded(n4) /\ n4.replicaId = n3.replicaId
        /\ Settled(n3) => Settled(n4)
        /\ SameRecords(n3, n4) /\ SameTimers(n3, n4) /\ n4.out = n3.out
        /\ n4.signedCommits = n3.signedCommits \cup {qc}
    BY <2>1 DEF Recorded, SameRecords, SameTimers, Settled, Batch0, Qc0, Timer0
  <2>5. Honest(n4, cm)
    BY DEF Honest
  <2> HIDE DEF n4, cm
  <2>6. Stored(n4, qc)
    BY <2>3, <2>4, HonestSame
  <2>7. Recalls(n3, n4)
    BY <2>4, <2>6 DEF Recalls
  <2>8. Recalls(n1, sendToLeader(n4, cm))
    BY <2>1, <2>4, <2>5, <2>7, sendRecalls, RecallsTrans
  <2> QED  BY <2>2, <2>8 DEF n3
<1>2. \/ n2 = n \/ n2 = sendViewChange(n)
      \/ /\ n2 = sendCommitMsg(checkIfPrepared(n1, id), qc)
         /\ n.activeView /\ qc.from = Primary(n.currenView)
         /\ n.cert[id].prepareQc = Nil
  BY DEF handlePrepareQc, PutQc
<1> HIDE DEF n2
<1>3. CASE n2 = n \/ n2 = sendViewChange(n)
  BY <1>3, RecallsRefl, sendViewChangeRecalls DEF n2
<1>4. CASE /\ n2 = sendCommitMsg(checkIfPrepared(n1, id), qc)
           /\ n.activeView /\ qc.from = Primary(n.currenView)
           /\ n.cert[id].prepareQc = Nil
  <2>1. CASE qc.view = 0 /\ qc.sn \in SNs
    <3>1. Recorded(n1) /\ Stored(n1, qc)
      BY <2>1, PutQcDiffers DEF Differ, Stored
    <3> QED  BY <1>1, <1>4, <2>1, <3>1 DEF n2, Qc0
  <2>2. CASE ~(qc.view = 0 /\ qc.sn \in SNs)
    <3> DEFINE c == [n.cert[id] EXCEPT !.prepareQc = qc]
    <3>1. id \in Ids => /\ {"reqBatchDigest", "prepareQc"} \subseteq DOMAIN c
                        /\ c.reqBatchDigest \in Digests
      BY DEF Recorded
    <3>2. id \in Ids => id[2] # 0
      BY <2>2 DEF Ids
    <3>3. Recalls(n, withCert(n, id, c))
      <4> HIDE DEF c, id
      <4> QED  BY <3>1, <3>2, withCertRecalls
    <3>4. Recalls(n, n1) /\ Recorded(n1)
      BY <3>3 DEF PutQc, Recalls
    <3>5. Stored(n1, qc)
      BY <2>2 DEF Stored
    <3> HIDE DEF n1
    <3> QED  BY <1>1, <1>4, <3>4, <3>5, RecallsTrans DEF n2
  <2> QED  BY <2>1, <2>2
<1> QED  BY <1>2, <1>3, <1>4

\* The other handlers of core.go write no record of the first view.
LEMMA HandlersRecall ==
    ASSUME NEW n, Recorded(n), NEW m
    PROVE  /\ Recalls(n, handleFastPrepareQc(n, m))
           /\ Recalls(n, handleCommitMsg(n, m))
           /\ Recalls(n, handleCommitQc(n, m))
           /\ Recalls(n, recvCheckpoint(n, m))
<1>1. Recalls(n, handleFastPrepareQc(n, m))
  <2> DEFINE id == <<m.sn, m.view>>
             n1 == [n EXCEPT !.fastChecks = @ \cup {id}]
             c == [n.cert[id] EXCEPT !.fastPrepareQc = m]
  <2>1. Recalls(n, n1) /\ Recorded(n1) /\ n1.cert = n.cert
    <3>1. \A v : LET n3 == [n EXCEPT !.fastChecks = v]
                 IN  Recalls(n, n3) /\ n3.cert = n.cert
      BY FieldRecalls DEF Recorded
    <3> QED  BY <3>1 DEF Recalls
  <2>2. handleFastPrepareQc(n, m) \in {n, withCert(n1, id, c)}
    BY DEF handleFastPrepareQc
  <2>3. id \in Ids => /\ DOMAIN c = DOMAIN n.cert[id]
                      /\ c.reqBatchDigest = n.cert[id].reqBatchDigest
                      /\ c.prepareQc = n.cert[id].prepareQc
    BY DEF Recorded
  <2> HIDE DEF n1, c, id
  <2>4. Recalls(n1, withCert(n1, id, c))
    BY <2>1, <2>3, sameCertRecalls
  <2> QED  BY <2>1, <2>2, <2>4, RecallsRefl, RecallsTrans
<1>2. Recalls(n, handleCommitMsg(n, m))
  <2> DEFINE id == <<m.vote.sn, m.vote.view>>
             c == [n.cert[id] EXCEPT !.partialSigInCommit = @ \cup {<<m.from, m.vote>>}]
             d == [c EXCEPT !.commitQcStage = TRUE]
             cqc == [type |-> "CommitQc", from |-> n.replicaId, vote |-> m.vote]
  <2>1. handleCommitMsg(n, m) \in {n, withCert(n, id, c),
                                   broadcast(withCert(n, id, d), cqc)}
    BY DEF handleCommitMsg
  <2>2. id \in Ids => /\ DOMAIN c = DOMAIN n.cert[id]
                      /\ c.reqBatchDigest = n.cert[id].reqBatchDigest
                      /\ c.prepareQc = n.cert[id].prepareQc
    BY DEF Recorded
  <2>3. id \in Ids => /\ DOMAIN d = DOMAIN n.cert[id]
                      /\ d.reqBatchDigest = n.cert[id].reqBatchDigest
                      /\ d.prepareQc = n.cert[id].prepareQc
    BY DEF Recorded
  <2>4. \A n1 : Honest(n1, cqc)
    BY DEF Honest
  <2> HIDE DEF c, d, id, cqc
  <2>5. /\ Recalls(n, withCert(n, id, c)) /\ Recalls(n, withCert(n, id, d))
        /\ Recorded(withCert(n, id, d))
    BY <2>2, <2>3, sameCertRecalls DEF Recalls
  <2> QED  BY <2>1, <2>4, <2>5, sendRecalls, RecallsRefl, RecallsTrans
<1>3. Recalls(n, handleCommitQc(n, m))
  <2> DEFINE id == <<m.vote.sn, m.vote.view>>
             c == [n.cert[id] EXCEPT !.commitQc = m]
             n1 == withCert(n, id, c)
  <2>1. handleCommitQc(n, m) \in {n, sendViewChange(n), checkIfCommitted(n1, id)}
    BY DEF handleCommitQc
  <2>2. id \in Ids => /\ DOMAIN c = DOMAIN n.cert[id]
                      /\ c.reqBatchDigest = n.cert[id].reqBatchDigest
                      /\ c.prepareQc = n.cert[id].prepareQc
    BY DEF Recorded
  <2> HIDE DEF c, id
  <2>3. Recalls(n, n1) /\ Recorded(n1)
    BY <2>2, sameCertRecalls DEF Recalls
  <2> HIDE DEF n1
  <2> QED  BY <2>1, <2>3, checkIfRecalls, sendViewChangeRecalls, RecallsRefl,
              RecallsTrans
<1>4. Recalls(n, recvCheckpoint(n, m))
  <2> DEFINE stored == n.checkpointStore[m.sn] \cup {m.from}
             n1 == [n EXCEPT !.checkpointStore[m.sn] = stored]
  <2>1. recvCheckpoint(n, m) \in {n, n1, [n1 EXCEPT !.h = m.sn]}
    BY DEF recvCheckpoint, moveWatermarks
  <2>2. n1 = [n EXCEPT !.checkpointStore = [@ EXCEPT ![m.sn] = stored]]
    OBVIOUS
  <2> HIDE DEF stored
  <2>3. Recalls(n, n1) /\ Recorded(n1)
    <3>1. \A v : Recalls(n, [n EXCEPT !.checkpointStore = v])
      BY FieldRecalls
    <3> QED  BY <2>2, <3>1 DEF Recalls
  <2> HIDE DEF n1
  <2>4. Recalls(n1, [n1 EXCEPT !.h = m.sn])
    BY <2>3, FieldRecalls
  <2> QED  BY <2>1, <2>3, <2>4, RecallsRefl, RecallsTrans
<1> QED  BY <1>1, <1>2, <1>3, <1>4

\* A timer that is none of the first view, or that was one already and stays one
\* for its batch.
LEMMA withTimerRecalls ==
    ASSUME NEW n, Recorded(n), NEW id, NEW pc, NEW b,
           id[2] # 0 \/ (pc # "none" /\ n.prepareTimer[id].pc # "none"
                         /\ b = n.prepareTimer[id].batch)
    PROVE  Recalls(n, withTimer(n, id, pc, b))
<1> DEFINE t == [pc |-> pc, batch |-> b]
           n2 == withTimer(n, id, pc, b)
<1>1. /\ DOMAIN n2 = DOMAIN n /\ n2.prepareTimer = [n.prepareTimer EXCEPT ![id] = t]
      /\ n2.cert = n.cert /\ n2.replicaId = n.replicaId
      /\ n2.currenView = n.currenView /\ n2.activeView = n.activeView
      /\ n2.out = n.out /\ n2.signedCommits = n.signedCommits
  BY DEF withTimer, Recorded
<1> HIDE DEF n2
<1>2. Recorded(n2) /\ SameRecords(n, n2) /\ (Settled(n) => Settled(n2))
  BY <1>1 DEF Recorded, SameRecords, Batch0, Qc0, Settled
<1>3. ASSUME NEW sn \in SNs
      PROVE  /\ Timer0(n2, sn).batch = Timer0(n, sn).batch
             /\ Timer0(n2, sn).pc = "none" <=> Timer0(n, sn).pc = "none"
  <2>1. <<sn, 0>> \in DOMAIN n.prepareTimer
    BY ParameterAssumption DEF Ids, Views, Recorded
  <2>2. CASE id = <<sn, 0>>
    <3>1. n2.prepareTimer[id] = t /\ id[2] = 0
      BY <1>1, <2>1, <2>2
    <3>2. t.pc = pc /\ t.batch = b
      OBVIOUS
    <3> QED  BY <2>2, <3>1, <3>2 DEF Timer0
  <2>3. CASE id # <<sn, 0>>
    BY <1>1, <2>1, <2>3 DEF Timer0
  <2> QED  BY <2>2, <2>3
<1>4. SameTimers(n, n2)
  BY <1>3 DEF SameTimers
<1>5. Recalls(n, n2)
  BY <1>1, <1>2, <1>4 DEF Recalls
<1> QED  BY <1>5 DEF n2
-----------------------------------------------------------------------------
(***************************************************************************)
(* Proposing again what the new view says.                                 *)
(***************************************************************************)
\* One turn of the loop of processNewView, on every struct of S.
Turn(n, nv, sn, S) == IF sn \in DOMAIN nv.oset /\ sn > n.h
                      THEN {repropose(m, nv, sn) : m \in S} ELSE S

\* The loop of processNewView does what one turn after the other does: its
\* recursion has a solution.
LEMMA reproposeAllTurns ==
    ASSUME NEW n, NEW nv
    PROVE  \E after : /\ reproposeAll(n, nv) = after[MaxSN]
                      /\ after[0] = {n}
                      /\ \A sn \in SNs :
                           after[sn] = Turn(n, nv, sn, after[sn - 1])
<1> DEFINE Def(f, k) == [sn \in 0..k |-> IF sn = 0 THEN {n} ELSE Turn(n, nv, sn, f[sn - 1])]
           Bad == {k \in Nat : ~\E f : f = Def(f, k)}
<1>1. Bad = {}
  <2> SUFFICES ASSUME Bad # {} PROVE FALSE
    OBVIOUS
  <2>1. PICK k \in Bad : \A j \in Bad : k <= j
    <3> HIDE DEF Bad
    <3>1. Bad \in SUBSET Nat
      BY DEF Bad
    <3> QED  BY <3>1, LeastNat
  <2>2. CASE k = 0
    <3> DEFINE f == [sn \in 0..0 |-> {n}]
    <3>1. f = Def(f, 0)
      OBVIOUS
    <3> QED  BY <2>1, <2>2, <3>1
  <2>3. CASE k # 0
    <3>1. k \in Nat /\ k - 1 \in Nat /\ k - 1 \notin Bad
      <4>1. k \in Nat
        OBVIOUS
      <4> HIDE DEF Bad
      <4> QED  BY <2>1, <2>3, <4>1
    <3>2. PICK f : f = Def(f, k - 1)
      BY <3>1
    <3> DEFINE g == [sn \in 0..k |-> IF sn = k THEN Turn(n, nv, k, f[k - 1]) ELSE f[sn]]
    <3>3. \A sn \in 0..(k - 1) : f[sn] = IF sn = 0 THEN {n} ELSE Turn(n, nv, sn, f[sn - 1])
      BY <3>2
    <3>4. ASSUME NEW sn \in 0..k
          PROVE  g[sn] = IF sn = 0 THEN {n} ELSE Turn(n, nv, sn, g[sn - 1])
      <4>1. CASE sn = k
        <5>1. g[k] = Turn(n, nv, k, f[k - 1]) /\ g[k - 1] = f[k - 1]
          BY <3>1
        <5> QED  BY <2>3, <4>1, <5>1
      <4>2. CASE sn # k /\ sn # 0
        <5>1. /\ sn \in 0..(k - 1) /\ sn - 1 \in 0..k /\ sn - 1 # k
          BY <3>1, <4>2
        <5>2. g[sn] = f[sn] /\ g[sn - 1] = f[sn - 1]
          BY <4>2, <5>1
        <5> QED  BY <3>3, <4>2, <5>1, <5>2
      <4>3. CASE sn = 0
        <5>1. 0 \in 0..(k - 1) /\ g[0] = f[0]
          BY <2>3, <3>1
        <5> QED  BY <3>3, <4>3, <5>1
      <4> QED  BY <4>1, <4>2, <4>3
    <3>5. g = [sn \in 0..k |-> g[sn]]
      OBVIOUS
    <3> HIDE DEF g
    <3>6. g = Def(g, k)
      BY <3>4, <3>5
    <3> QED  BY <2>1, <3>6
  <2> QED  BY <2>2, <2>3
<1>2. MaxSN \in Nat /\ MaxSN > 0
  BY ParameterAssumption
<1>3. \E f : f = Def(f, MaxSN)
  BY <1>1, <1>2
<1> DEFINE after == CHOOSE f : f = Def(f, MaxSN)
<1>4. after = Def(after, MaxSN)
  BY <1>3
<1>5. reproposeAll(n, nv) = after[MaxSN]
  BY DEF reproposeAll, Turn
<1> HIDE DEF after
<1>6. \A sn \in 0..MaxSN : after[sn] = IF sn = 0 THEN {n} ELSE Turn(n, nv, sn, after[sn - 1])
  BY <1>4
<1>7. after[0] = {n} /\ \A sn \in SNs : after[sn] = Turn(n, nv, sn, after[sn - 1])
  BY <1>2, <1>6 DEF SNs
<1> QED  BY <1>5, <1>7

\* What handlers do to a struct that may be about to enter the view that bounds
\* the instance: it stays, it is sound unless it enters that view, and it recalls
\* the first view once that is left.
Runs(n, n2, V) == /\ Stays(n, n2)
                  /\ n2.currenView < MaxView => Moves(n, n2, V)
                  /\ n.currenView > 0 => Recalls(n, n2)

\* A Node has the fields that Stays is about.
LEMMA NodeViewed ==
    ASSUME NEW n \in Node
    PROVE  Viewed(n)
BY DEF Viewed, Node, Views

\* A Node has the fields that Recalls is about.
LEMMA NodeRecorded ==
    ASSUME NEW n \in Node
    PROVE  Recorded(n)
BY DEF Recorded, Node, MsgCert, Views

\* Handlers run one after another.
LEMMA RunsTrans ==
    ASSUME NEW V, NEW n0 \in Node, NEW n1, NEW n2, Runs(n0, n1, V),
           Stays(n1, n2),
           n1 \in Node /\ Sound(n1, V) /\ n2.currenView < MaxView
             => Moves(n1, n2, V),
           n0.currenView > 0 => Recalls(n1, n2)
    PROVE  Runs(n0, n2, V)
<1>1. Viewed(n0)
  BY NodeViewed
<1>2. Stays(n0, n2)
  BY <1>1, StaysTrans DEF Runs
<1>3. ASSUME n2.currenView < MaxView PROVE Moves(n0, n2, V)
  <2>1. n1.currenView \in Nat /\ n2.currenView \in Nat
        /\ n1.currenView <= n2.currenView
    BY DEF Runs, Stays, Viewed
  <2>2. Moves(n0, n1, V)
    BY <1>3, <2>1, ParameterAssumption DEF Runs
  <2>3. n1 \in Node /\ Sound(n1, V)
    BY <2>2 DEF Moves
  <2> QED  BY <1>3, <2>2, <2>3, MovesTrans
<1>4. n0.currenView > 0 => Recalls(n0, n2)
  BY RecallsTrans DEF Runs
<1> QED  BY <1>2, <1>3, <1>4 DEF Runs

\* A view up to one below the bound is below the bound.
LEMMA Below ==
    ASSUME NEW v \in Nat, NEW w \in Nat, v <= w, w < MaxView
    PROVE  v < MaxView
BY ParameterAssumption

\* One turn of the loop of processNewView (viewchange.go): the primary restarts
\* the request's timer, and the pre-prepare is handled like one from the network.
LEMMA reproposeRuns ==
    ASSUME NEW V, NEW n0 \in Node, NEW n, Runs(n0, n, V),
           NEW nv \in NewViewMsg, NEW sn \in DOMAIN nv.oset
    PROVE  Runs(n0, repropose(n, nv, sn), V)
<1> DEFINE ppm == [type |-> "PrePrepare", from |-> nv.from, sn |-> sn,
                   view |-> n.currenView, digest |-> nv.oset[sn]]
           started == withTimer(n, <<sn, n.currenView>>, "running", ppm.digest)
           timed == IF n.replicaId = Primary(n.currenView) THEN started ELSE n
<1>1. nv.from \in Replicas /\ sn \in SNs /\ nv.oset[sn] \in Batches
  BY DEF NewViewMsg
<1>2. Viewed(n)
  BY DEF Runs, Stays
<1>3. Stays(n, timed) /\ Viewed(timed)
  <2>1. Stays(n, started) /\ Viewed(started)
    BY <1>2 DEF withTimer, Stays, Viewed
  <2> HIDE DEF started
  <2> QED  BY <1>2, <2>1, StaysRefl
<1>4. Stays(n, handlePrePrepareMsg(timed, ppm, FALSE))
  <2> HIDE DEF timed, ppm
  <2> QED  BY <1>2, <1>3, handlePrePrepareMsgStays, StaysTrans
<1>5. ASSUME n \in Node, Sound(n, V),
             handlePrePrepareMsg(timed, ppm, FALSE).currenView < MaxView
      PROVE  Moves(n, handlePrePrepareMsg(timed, ppm, FALSE), V)
  <2>1. n.currenView \in Views /\ ppm \in PrePrepareMsg /\ ppm.digest \in Digests
        /\ <<sn, n.currenView>> \in Ids
    BY <1>1, <1>5 DEF Node, PrePrepareMsg, Digests, Ids
  <2>2. Moves(n, timed, V)
    BY <1>5, <2>1, withTimerMoves, MovesRefl
  <2>3. timed.currenView < MaxView
    <3>1. timed.currenView
            <= handlePrePrepareMsg(timed, ppm, FALSE).currenView
          /\ timed.currenView \in Nat
          /\ handlePrePrepareMsg(timed, ppm, FALSE).currenView \in Nat
      <4> HIDE DEF timed, ppm
      <4> QED  BY <1>3, handlePrePrepareMsgStays DEF Stays, Viewed
    <3> HIDE DEF timed, ppm
    <3> QED  BY <1>5, <3>1, Below
  <2> HIDE DEF timed, ppm
  <2>4. timed \in Node /\ Sound(timed, V)
    BY <2>2 DEF Moves
  <2>5. Moves(timed, handlePrePrepareMsg(timed, ppm, FALSE), V)
    BY <2>1, <2>3, <2>4, handlePrePrepareMsgMoves
  <2> QED  BY <1>5, <2>2, <2>5, MovesTrans
<1>6. repropose(n, nv, sn) = handlePrePrepareMsg(timed, ppm, FALSE)
  BY DEF repropose
<1>7. ASSUME n0.currenView > 0
      PROVE  Recalls(n, handlePrePrepareMsg(timed, ppm, FALSE))
  <2>1. Recorded(n) /\ n.currenView # 0
    BY <1>7, NodeViewed DEF Runs, Stays, Recalls, Viewed
  <2>2. Recalls(n, timed)
    <3> DEFINE id == <<sn, n.currenView>>
    <3>1. id[2] # 0
      BY <2>1
    <3> HIDE DEF id
    <3>2. Recalls(n, withTimer(n, id, "running", ppm.digest))
      BY <2>1, <3>1, withTimerRecalls
    <3> QED  BY <2>1, <3>2, RecallsRefl DEF id
  <2>3. ppm.view # 0 /\ ppm.digest \in Digests
    BY <1>1, <2>1 DEF Digests
  <2> HIDE DEF timed, ppm
  <2>4. Recalls(timed, handlePrePrepareMsg(timed, ppm, FALSE))
    BY <2>2, <2>3, handlePrePrepareMsgRecalls DEF Recalls
  <2> QED  BY <2>2, <2>4, RecallsTrans
<1> HIDE DEF timed, ppm
<1> QED  BY <1>4, <1>5, <1>6, <1>7, RunsTrans

\* The loop of processNewView: by induction over its turns.
LEMMA reproposeAllRuns ==
    ASSUME NEW V, NEW n \in Node, Sound(n, V), NEW nv \in NewViewMsg,
           NEW m \in reproposeAll(n, nv)
    PROVE  Runs(n, m, V)
<1>1. PICK after : /\ reproposeAll(n, nv) = after[MaxSN]
                   /\ after[0] = {n}
                   /\ \A sn \in SNs : after[sn] = Turn(n, nv, sn, after[sn - 1])
  BY reproposeAllTurns
<1> DEFINE Bad == {k \in 0..MaxSN : ~\A q \in after[k] : Runs(n, q, V)}
<1>2. MaxSN \in Nat
  BY ParameterAssumption
<1>3. Bad = {}
  <2> SUFFICES ASSUME Bad # {} PROVE FALSE
    OBVIOUS
  <2>1. PICK k \in Bad : \A j \in Bad : k <= j
    <3> HIDE DEF Bad
    <3>1. Bad \in SUBSET Nat
      BY <1>2 DEF Bad
    <3> QED  BY <3>1, LeastNat
  <2>2. k \in 0..MaxSN /\ ~\A q \in after[k] : Runs(n, q, V)
    OBVIOUS
  <2>3. CASE k = 0
    <3>1. Runs(n, n, V)
      BY NodeViewed, StaysRefl, MovesRefl, NodeRecorded, RecallsRefl DEF Runs
    <3> QED  BY <1>1, <2>2, <2>3, <3>1
  <2>4. CASE k # 0
    <3>1. k \in SNs /\ k \in Nat /\ k - 1 \in 0..MaxSN
      BY <1>2, <2>2, <2>4 DEF SNs
    <3>2. k - 1 \notin Bad
      <4> HIDE DEF Bad
      <4> QED  BY <2>1, <3>1
    <3>3. \A q \in after[k - 1] : Runs(n, q, V)
      BY <3>1, <3>2
    <3>4. ASSUME NEW q \in after[k] PROVE Runs(n, q, V)
      <4>1. q \in Turn(n, nv, k, after[k - 1])
        BY <1>1, <3>1, <3>4
      <4>2. CASE k \in DOMAIN nv.oset /\ k > n.h
        <5>1. PICK p \in after[k - 1] : q = repropose(p, nv, k)
          BY <4>1, <4>2 DEF Turn
        <5>2. Runs(n, p, V)
          BY <3>3
        <5> QED  BY <4>2, <5>1, <5>2, reproposeRuns
      <4>3. CASE ~(k \in DOMAIN nv.oset /\ k > n.h)
        BY <3>3, <4>1, <4>3 DEF Turn
      <4> QED  BY <4>2, <4>3
    <3> QED  BY <2>2, <3>4
  <2> QED  BY <2>3, <2>4
<1>4. \A q \in after[MaxSN] : Runs(n, q, V)
  BY <1>2, <1>3
<1> QED  BY <1>1, <1>4
-----------------------------------------------------------------------------
(***************************************************************************)
(* Handlers of the view change, on contexts.                               *)
(***************************************************************************)
Typed(x) ==
    /\ {"n", "viewChangeStore", "newViewStore", "timer", "sent"} \subseteq DOMAIN x
    /\ x.viewChangeStore \subseteq Report
    /\ x.newViewStore \in [Views -> NewViewMsg \cup {Nil}]
    /\ x.timer \in BOOLEAN /\ x.sent \subseteq NewViewMsg

\* A quorum of view-change messages for view v.
ReportQuorum(S, v) ==
    Cardinality({rep \in S : rep.view = v}) >= ViewChangeQuorum(N, Abm, Pbm)

(***************************************************************************)
(* Carries(x, y, V): a handler has brought context x to y.  It makes new   *)
(* views only from a quorum of reports, where none is stored, enters a     *)
(* view only with a new-view message in the store, numbering on above the  *)
(* high watermark, and recalls the first view.                             *)
(***************************************************************************)
\* The new view nv of view v is made by replica r from the reports of S.
Made(r, S, nv, v) ==
    LET vset == {rep \in S : rep.view = v}
    IN  /\ ReportQuorum(S, v) /\ r = Primary(v) /\ nv.view = v
        /\ nv.oset \in assignSequenceNumbers(vset, selectInitialSequence(vset))

MadeIn(x, nv, v) == /\ Made(x.n.replicaId, x.viewChangeStore, nv, v)
                    /\ Settled(x.n) => v > 0

Carries(x, y, V) ==
    /\ Typed(y) /\ y.viewChangeStore = x.viewChangeStore
    /\ Viewed(y.n) /\ y.n.replicaId = x.n.replicaId
    /\ x.n.currenView <= y.n.currenView
    /\ \A p \in y.n.out : p \in x.n.out \/ Reached(y.n, p[2])
    /\ y.n.currenView < MaxView => Moves(x.n, y.n, V)
    /\ y.n.activeView =>
         \/ x.n.activeView /\ y.n.currenView = x.n.currenView
         \/ /\ y.newViewStore[y.n.currenView] # Nil
            /\ y.n.nextSN = x.n.h + K + 1
    /\ y.n.nextSN = x.n.nextSN \/ \E v \in Views : y.newViewStore[v] # Nil
    /\ Settled(x.n) => Recalls(x.n, y.n)
    /\ \A v \in Views : y.newViewStore[v] # x.newViewStore[v] =>
         x.newViewStore[v] = Nil /\ MadeIn(x, y.newViewStore[v], v)
    /\ \A nv \in y.sent :
         nv \in x.sent \/ (MadeIn(x, nv, nv.view) /\ y.newViewStore[nv.view] = nv)

\* A handler of the normal case on the struct of the context.
LEMMA CarriesRefl ==
    ASSUME NEW V, NEW x, Typed(x), x.n \in Node, Sound(x.n, V)
    PROVE  Carries(x, x, V)
<1>1. Viewed(x.n) /\ x.n.currenView \in Nat
  BY NodeViewed DEF Viewed
<1>2. Moves(x.n, x.n, V) /\ Recalls(x.n, x.n)
  BY MovesRefl, NodeRecorded, RecallsRefl
<1> QED  BY <1>1, <1>2 DEF Carries

\* enterView of processNewView (viewchange.go) moves a node.
LEMMA enterViewMoves ==
    ASSUME NEW V, NEW n \in Node, Sound(n, V)
    PROVE  LET e == enterView(n)
           IN  /\ Moves(n, e, V) /\ e.replicaId = n.replicaId /\ e.h = n.h
               /\ e.currenView = n.currenView /\ e.out = n.out
               /\ e.nextSN = n.h + K + 1 /\ Recalls(n, e)
<1> DEFINE a == n.h + K + 1
           b == n.h + K + K + T \div 2
           e == [n EXCEPT !.activeView = TRUE, !.nextSN = a,
                          !.viewChangeSeqNumber = b]
<1>1. n.h \in Nat /\ K \in Nat /\ T \div 2 \in Nat
  BY ParameterAssumption DEF Node, SNs
<1>2. a \in Nat /\ b \in Nat
  BY <1>1
<1>3. enterView(n) = e /\ e.nextSN = n.h + K + 1
  BY DEF enterView, Node
<1> HIDE DEF a, b
<1>4. /\ e \in Node /\ e.replicaId = n.replicaId /\ e.h = n.h
      /\ e.checkpointStore = n.checkpointStore /\ e.signed = n.signed
      /\ e.cert = n.cert /\ e.prepareTimer = n.prepareTimer
      /\ e.lastExec = n.lastExec /\ n.lastExec \in Nat
      /\ e.currenView = n.currenView /\ e.out = n.out
  BY <1>2 DEF Node
<1> HIDE DEF e
<1>5. n.lastExec <= e.lastExec /\ \A p \in e.out : p \in n.out
  BY <1>4
<1>6. Moves(n, e, V)
  BY <1>4, <1>5, FrameMoves
<1>7. Recalls(n, e)
  <2>1. Recorded(e) /\ Settled(e)
    <3>1. e.activeView
      BY <1>3 DEF enterView, Node
    <3> QED  BY <1>4, <3>1, NodeRecorded DEF Settled
  <2>2. SameRecords(n, e) /\ SameTimers(n, e)
    BY <1>4 DEF SameRecords, SameTimers, Batch0, Qc0, Timer0
  <2>3. e.signedCommits = n.signedCommits
    BY <1>3 DEF enterView, Node
  <2> QED  BY <1>4, <2>1, <2>2, <2>3 DEF Recalls
<1> QED  BY <1>3, <1>4, <1>6, <1>7

\* processNewView (viewchange.go) enters the view of a stored new-view message.
LEMMA processNewViewCarries ==
    ASSUME NEW V, NEW x, Typed(x), x.n \in Node, Sound(x.n, V),
           NEW y \in processNewView(x)
    PROVE  Carries(x, y, V)
<1> DEFINE nv == x.newViewStore[x.n.currenView]
           e == enterView(x.n)
<1>1. x.n.currenView \in Views
  BY DEF Node
<1>2. CASE nv = Nil \/ x.n.activeView
  BY <1>2, CarriesRefl DEF processNewView
<1>3. CASE nv # Nil /\ ~x.n.activeView
  <2>1. PICK m \in reproposeAll(e, nv) :
             y = [x EXCEPT !.n = m, !.timer = m.currenView # x.n.currenView]
    BY <1>3 DEF processNewView
  <2>2. nv \in NewViewMsg
    BY <1>1, <1>3 DEF Typed
  <2>3. /\ Moves(x.n, e, V) /\ e.replicaId = x.n.replicaId /\ e.h = x.n.h
        /\ e.currenView = x.n.currenView /\ e.out = x.n.out
        /\ e.nextSN = x.n.h + K + 1 /\ Recalls(x.n, e)
    BY enterViewMoves
  <2> HIDE DEF e
  <2>4. e \in Node /\ Sound(e, V)
    BY <2>3 DEF Moves
  <2>5. Runs(e, m, V)
    BY <2>1, <2>2, <2>4, reproposeAllRuns
  <2>6. /\ y.n = m /\ y.viewChangeStore = x.viewChangeStore /\ y.sent = x.sent
        /\ y.newViewStore = x.newViewStore /\ Typed(y)
    BY <2>1 DEF Typed
  <2>7. m.currenView < MaxView => Moves(x.n, m, V)
    BY <2>3, <2>4, <2>5, MovesTrans DEF Runs
  <2>8. m.activeView => m.currenView = x.n.currenView /\ m.nextSN = x.n.h + K + 1
    BY <2>3, <2>5 DEF Runs, Stays
  <2>9. /\ Viewed(m) /\ m.replicaId = x.n.replicaId
        /\ x.n.currenView <= m.currenView
        /\ \A p \in m.out : p \in x.n.out \/ Reached(m, p[2])
    BY <2>3, <2>5 DEF Runs, Stays
  <2>10. Settled(x.n) => Recalls(x.n, m)
    BY <1>3, <2>3, <2>5, RecallsTrans DEF Runs, Settled
  <2>11. y.newViewStore[x.n.currenView] # Nil
    BY <1>3, <2>6
  <2>12. m.activeView => /\ y.newViewStore[m.currenView] # Nil
                         /\ m.nextSN = x.n.h + K + 1
    BY <2>8, <2>11
  <2> HIDE DEF nv
  <2> QED  BY <1>1, <2>6, <2>7, <2>9, <2>10, <2>11, <2>12 DEF Carries
<1> QED  BY <1>2, <1>3

\* sendNewView (viewchange.go) makes a new view from the reports of its view.
LEMMA sendNewViewCarries ==
    ASSUME NEW V, NEW x, Typed(x), x.n \in Node, Sound(x.n, V),
           ReportQuorum(x.viewChangeStore, x.n.currenView), ~x.n.activeView,
           x.n.replicaId = Primary(x.n.currenView), NEW y \in sendNewView(x)
    PROVE  Carries(x, y, V)
<1> DEFINE view == x.n.currenView
           vset == {rep \in x.viewChangeStore : rep.view = view}
           made(nv) == [x EXCEPT !.newViewStore[view] = nv, !.sent = {nv}]
<1>1. CASE y = x
  BY <1>1, CarriesRefl
<1>2. CASE y # x
  <2>1. PICK nv \in NewViewOf(view, vset, selectInitialSequence(vset)) :
             y \in processNewView(made(nv)) /\ x.newViewStore[view] = Nil
    BY <1>2 DEF sendNewView
  <2>2. view \in Views /\ Primary(view) \in Replicas
    BY ClusterAssumption, ParameterAssumption DEF Node, Primary, Replicas, Views
  <2>3. /\ nv \in NewViewMsg /\ nv.view = view
        /\ nv.oset \in assignSequenceNumbers(vset, selectInitialSequence(vset))
    <3>1. PICK sn, oset : /\ oset \in [Window(sn) -> Batches]
                          /\ nv = [view |-> view, from |-> Primary(view), oset |-> oset]
      BY <2>1 DEF NewViewOf, assignSequenceNumbers
    <3>2. Window(sn) \in SUBSET SNs
      BY DEF Window
    <3>3. oset \in UNION {[S -> Batches] : S \in SUBSET SNs}
      BY <3>1, <3>2
    <3>4. nv \in NewViewMsg /\ nv.view = view
      BY <2>2, <3>1, <3>3 DEF NewViewMsg
    <3>5. nv.oset \in assignSequenceNumbers(vset, selectInitialSequence(vset))
      BY <2>1 DEF NewViewOf
    <3> QED  BY <3>4, <3>5
  <2> DEFINE x1 == made(nv)
  <2>4. /\ x1.n = x.n /\ x1.viewChangeStore = x.viewChangeStore /\ Typed(x1)
        /\ x1.sent = {nv} /\ x1.newViewStore[view] = nv
        /\ \A v \in Views : v # view => x1.newViewStore[v] = x.newViewStore[v]
    BY <2>2, <2>3 DEF Typed
  <2>5. MadeIn(x, nv, view)
    BY <2>2, <2>3 DEF MadeIn, Made, Settled
  <2> HIDE DEF x1, view
  <2>6. Carries(x1, y, V)
    BY <2>1, <2>4, processNewViewCarries DEF x1
  <2>7. \A z \in processNewView(x1) : /\ z.newViewStore = x1.newViewStore
                                       /\ z.sent = x1.sent
    BY <2>4 DEF processNewView, Typed
  <2>8. y.newViewStore = x1.newViewStore /\ y.sent = x1.sent
    BY <2>1, <2>7 DEF x1
  <2>9. \A v \in Views : y.newViewStore[v] # x.newViewStore[v] =>
           x.newViewStore[v] = Nil /\ MadeIn(x, y.newViewStore[v], v)
    BY <2>1, <2>4, <2>5, <2>8 DEF view
  <2>10. \A z \in y.sent : MadeIn(x, z, z.view) /\ y.newViewStore[z.view] = z
    BY <2>3, <2>4, <2>5, <2>8
  <2> QED  BY <2>4, <2>6, <2>9, <2>10 DEF Carries
<1> QED  BY <1>1, <1>2

\* The rest of recvViewChange (viewchange.go) counts the reports of one view.
LEMMA countReportsCarries ==
    ASSUME NEW V, NEW x, Typed(x), x.n \in Node, Sound(x.n, V),
           NEW view, NEW y \in countReports(x, view)
    PROVE  Carries(x, y, V)
BY CarriesRefl, sendNewViewCarries DEF countReports, ReportQuorum

\* follow (recvViewChange of viewchange.go) leaves the view for the least of the
\* later views that were reported.
LEMMA followMoves ==
    ASSUME NEW V, NEW x, Typed(x), x.n \in Node, Sound(x.n, V)
    PROVE  LET y == follow(x)
           IN  /\ Typed(y) /\ y.viewChangeStore = x.viewChangeStore
               /\ y.newViewStore = x.newViewStore /\ y.sent = x.sent
               /\ Moves(x.n, y.n, V) /\ Stays(x.n, y.n)
               /\ Settled(x.n) => Recalls(x.n, y.n)
<1> DEFINE later == {rep \in x.viewChangeStore : rep.view > x.n.currenView}
           views == {rep.view : rep \in later}
           y == follow(x)
<1>1. CASE ~(Cardinality({rep.from : rep \in later}) >= F(N) + 1)
  <2>1. follow(x) = x
    BY <1>1 DEF follow
  <2>2. Moves(x.n, x.n, V) /\ Stays(x.n, x.n) /\ Recalls(x.n, x.n)
    BY MovesRefl, NodeViewed, StaysRefl, NodeRecorded, RecallsRefl
  <2> QED  BY <2>1, <2>2
<1>2. CASE Cardinality({rep.from : rep \in later}) >= F(N) + 1
  <2>1. views # {}
    <3>1. later # {}
      <4> SUFFICES ASSUME later = {} PROVE FALSE
        OBVIOUS
      <4>1. Cardinality({rep.from : rep \in later}) = 0
        <5>1. {rep.from : rep \in later} = {}
          OBVIOUS
        <5> QED  BY <5>1, FS_EmptySet
      <4>2. F(N) + 1 > 0 /\ F(N) + 1 \in Int
        BY ClusterAssumption DEF F
      <4> QED  BY <1>2, <4>1, <4>2
    <3> QED  BY <3>1
  <2>2. /\ x.n.currenView \in Nat
        /\ \A v \in views : v \in Nat /\ v <= MaxView /\ v > x.n.currenView
    BY ParameterAssumption DEF Typed, Report, Views, Node
  <2> HIDE DEF views
  <2>3. \E v \in views : \A w \in views : v <= w
    <3>1. views \in SUBSET Nat
      BY <2>2
    <3> QED  BY <2>1, <3>1, LeastNat
  <2> DEFINE v == Min(views) - 1
             n1 == [x.n EXCEPT !.currenView = v]
  <2>4. Min(views) \in views
    BY <2>3 DEF Min
  <2>5. v \in Nat /\ v < MaxView /\ x.n.currenView <= v
    BY <2>2, <2>4, ParameterAssumption
  <2>6. v \in Views
    BY <2>5, ParameterAssumption DEF Views
  <2>7. y = leaveView([x EXCEPT !.n = n1])
    BY <1>2 DEF follow, views
  <2> HIDE DEF v
  <2>8. /\ n1 \in Node /\ n1.replicaId = x.n.replicaId /\ n1.h = x.n.h
        /\ n1.checkpointStore = x.n.checkpointStore /\ n1.signed = x.n.signed
        /\ n1.cert = x.n.cert /\ n1.prepareTimer = x.n.prepareTimer
        /\ n1.lastExec = x.n.lastExec /\ x.n.lastExec \in Nat
        /\ n1.out = x.n.out /\ n1.currenView = v /\ n1.nextSN = x.n.nextSN
        /\ n1.activeView = x.n.activeView /\ n1.signedCommits = x.n.signedCommits
    BY <2>6 DEF Node
  <2> HIDE DEF n1
  <2>9. Moves(x.n, n1, V)
    <3>1. x.n.lastExec <= n1.lastExec /\ \A p \in n1.out : p \in x.n.out
      BY <2>8
    <3> QED  BY <2>8, <3>1, FrameMoves
  <2>10. n1 \in Node /\ Sound(n1, V) /\ n1.currenView < MaxView
    BY <2>5, <2>8, <2>9 DEF Moves
  <2> DEFINE n2 == sendViewChange(n1)
  <2>11. Moves(x.n, n2, V)
    BY <2>9, <2>10, sendViewChangeMoves, MovesTrans
  <2>12. /\ Stays(n1, n2) /\ n2.currenView = n1.currenView + 1
         /\ ~n2.activeView
    BY <2>10, NodeViewed, sendViewChangeStays
  <2>13. Stays(x.n, n2)
    <3>1. x.n.currenView <= n2.currenView
      BY <2>2, <2>5, <2>8, <2>12
    <3> QED  BY <2>8, <2>12, <3>1 DEF Stays
  <2>15. ASSUME Settled(x.n) PROVE Recalls(x.n, n2)
    <3>1. Recorded(n1) /\ Settled(n1)
      BY <2>2, <2>5, <2>8, <2>15, NodeRecorded DEF Settled
    <3>2. SameRecords(x.n, n1) /\ SameTimers(x.n, n1)
      BY <2>8 DEF SameRecords, SameTimers, Batch0, Qc0, Timer0
    <3>3. Recalls(x.n, n1)
      BY <2>8, <3>1, <3>2 DEF Recalls
    <3> QED  BY <3>1, <3>3, sendViewChangeRecalls, RecallsTrans
  <2> HIDE DEF n2
  <2>14. /\ y.n = n2 /\ y.viewChangeStore = x.viewChangeStore /\ y.sent = x.sent
         /\ y.newViewStore = x.newViewStore /\ Typed(y)
    BY <2>7 DEF leaveView, Typed, n2
  <2> QED  BY <2>11, <2>13, <2>14, <2>15
<1> QED  BY <1>1, <1>2

\* recvViewChange (viewchange.go): what it makes and enters is backed by the
\* reports stored before and the one it has received.
LEMMA recvViewChangeCarries ==
    ASSUME NEW V, NEW x, Typed(x), x.n \in Node, Sound(x.n, V),
           NEW vc, NEW report \in Report,
           NEW y \in recvViewChange(x, vc, report)
    PROVE  \/ y = x
           \/ /\ correctViewChange(vc)
              /\ ~\E rep \in x.viewChangeStore :
                    rep.view = vc.view /\ rep.from = vc.from
              /\ Carries([x EXCEPT !.viewChangeStore = @ \cup {report}], y, V)
<1> DEFINE x1 == [x EXCEPT !.viewChangeStore = @ \cup {report}]
           x2 == follow(x1)
<1>1. CASE y = x
  BY <1>1
<1>2. CASE y # x
  <2>1. /\ ~\E rep \in x.viewChangeStore : rep.view = vc.view /\ rep.from = vc.from
        /\ y \in countReports(x2, vc.view) /\ correctViewChange(vc)
    BY <1>2 DEF recvViewChange
  <2>2. Typed(x1) /\ x1.n \in Node /\ Sound(x1.n, V)
    BY DEF Typed
  <2> HIDE DEF x1
  <2>3. /\ Typed(x2) /\ x2.viewChangeStore = x1.viewChangeStore
        /\ x2.newViewStore = x1.newViewStore /\ x2.sent = x1.sent
        /\ Moves(x1.n, x2.n, V) /\ Stays(x1.n, x2.n)
        /\ Settled(x1.n) => Recalls(x1.n, x2.n)
    BY <2>2, followMoves
  <2> HIDE DEF x2
  <2>4. x2.n \in Node /\ Sound(x2.n, V) /\ x2.n.h = x1.n.h
    BY <2>3 DEF Moves
  <2>5. Carries(x2, y, V)
    BY <2>1, <2>3, <2>4, countReportsCarries
  <2>6. Carries(x1, y, V)
    <3>1. /\ x1.n.currenView \in Nat /\ x2.n.currenView \in Nat
          /\ y.n.currenView \in Nat
          /\ x1.n.currenView <= x2.n.currenView
          /\ x2.n.currenView <= y.n.currenView
      BY <2>2, <2>3, <2>5, NodeViewed DEF Stays, Carries, Viewed
    <3>2. x1.n.currenView <= y.n.currenView
      BY <3>1
    <3>3. \A p \in y.n.out : p \in x1.n.out \/ Reached(y.n, p[2])
      <4>1. \A m : Reached(x2.n, m) => Reached(y.n, m)
        BY <2>5, <3>1 DEF Carries, Reached
      <4> QED  BY <2>3, <2>5, <4>1 DEF Carries, Stays
    <3>4. y.n.currenView < MaxView => Moves(x1.n, y.n, V)
      BY <2>2, <2>3, <2>5, MovesTrans DEF Carries
    <3>5. y.n.activeView =>
             \/ x1.n.activeView /\ y.n.currenView = x1.n.currenView
             \/ /\ y.newViewStore[y.n.currenView] # Nil
                /\ y.n.nextSN = x1.n.h + K + 1
      BY <2>3, <2>4, <2>5 DEF Carries, Stays
    <3>6. Settled(x1.n) => Settled(x2.n) /\ Recalls(x1.n, y.n)
      BY <2>3, <2>5, RecallsTrans DEF Carries, Recalls
    <3>7. \A nv, v : MadeIn(x2, nv, v) => MadeIn(x1, nv, v)
      BY <2>3, <3>6 DEF MadeIn, Stays
    <3>8. \/ y.n.nextSN = x1.n.nextSN
          \/ \E v \in Views : y.newViewStore[v] # Nil
      BY <2>3, <2>5 DEF Carries, Stays
    <3>9. \A nv \in y.sent :
            \/ nv \in x1.sent
            \/ /\ MadeIn(x1, nv, nv.view)
               /\ y.newViewStore[nv.view] = nv
      BY <2>3, <2>5, <3>7 DEF Carries
    <3>10. \A v \in Views :
             y.newViewStore[v] # x1.newViewStore[v] =>
               x1.newViewStore[v] = Nil /\ MadeIn(x1, y.newViewStore[v], v)
      BY <2>3, <2>5, <3>7 DEF Carries
    <3>11. /\ Typed(y) /\ y.viewChangeStore = x1.viewChangeStore
           /\ Viewed(y.n) /\ y.n.replicaId = x1.n.replicaId
      BY <2>3, <2>5 DEF Carries, Stays
    <3> QED  BY <3>2, <3>3, <3>4, <3>5, <3>6, <3>8, <3>9, <3>10, <3>11 DEF Carries
  <2> QED  BY <2>1, <2>6 DEF x1
<1> QED  BY <1>1, <1>2

\* recvNewView (viewchange.go) stores a new-view message and enters its view.
LEMMA recvNewViewCarries ==
    ASSUME NEW V, NEW x, Typed(x), x.n \in Node, Sound(x.n, V),
           NEW nv \in NewViewMsg, NEW y \in recvNewView(x, nv)
    PROVE  \/ y = x
           \/ /\ x.newViewStore[nv.view] = Nil
              /\ Carries([x EXCEPT !.newViewStore[nv.view] = nv], y, V)
<1> DEFINE x1 == [x EXCEPT !.newViewStore[nv.view] = nv]
<1>1. nv.view \in Views
  BY DEF NewViewMsg
<1>2. Typed(x1) /\ x1.n \in Node /\ Sound(x1.n, V)
  BY <1>1 DEF Typed
<1>3. y = x \/ (y \in processNewView(x1) /\ x.newViewStore[nv.view] = Nil)
  BY DEF recvNewView
<1> HIDE DEF x1
<1>4. y \in processNewView(x1) => Carries(x1, y, V)
  BY <1>2, processNewViewCarries
<1> QED  BY <1>3, <1>4 DEF x1
-----------------------------------------------------------------------------
(***************************************************************************)
(* The inductive invariant.                                                *)
(***************************************************************************)
\* A view-change quorum, but for the faulty replicas in it, has reached view v.
LeftIn(nodes, v) ==
    Cardinality(Faulty \cup {q \in Correct : nodes[q].currenView >= v})
      >= ViewChangeQuorum(N, Abm, Pbm)

InView(nodes, q, v) == q \in Correct => nodes[q].currenView >= v

OnePerSender(S) == \A a, b \in S : a.view = b.view /\ a.from = b.from => a = b

\* Reports of a view, under way or stored, come from replicas that have reached
\* it; a new view, made, stored or entered, from a quorum that has.
ViewsOK ==
    /\ \A x \in net : x[2].type = "ViewChange" => InView(node, x[2].from, x[2].view)
    /\ \A r \in Correct : \A rep \in store[r].viewChangeStore :
         InView(node, rep.from, rep.view)
    /\ \A r \in Correct, v \in Views :
         store[r].newViewStore[v] # Nil => LeftIn(node, v)
    /\ \A y \in newViews : LeftIn(node, y[2].view)
    /\ \A r \in Correct :
         node[r].activeView /\ node[r].currenView > 0
           => LeftIn(node, node[r].currenView)

ViewInv == Inv /\ ViewTypeOK /\ ViewsOK

\* The fields of a correct replica that ViewsOK is about.
LEMMA ViewFields ==
    ASSUME TypeOK, NEW r \in Correct
    PROVE  /\ r \in Replicas /\ node[r].currenView \in Nat
           /\ node[r].activeView \in BOOLEAN /\ node[r].out = {}
           /\ node[r].currenView \in Views /\ Viewed(node[r])
<1>1. r \in Replicas /\ node[r] \in Node /\ node[r].out = {}
  BY DEF TypeOK, Correct
<1>2. node[r].currenView \in Views /\ node[r].activeView \in BOOLEAN
  BY <1>1 DEF Node
<1> QED  BY <1>1, <1>2, NodeViewed DEF Views

\* The set in LeftIn is one of replicas, and the quorum is a number.
LEMMA LeftType ==
    ASSUME NEW nodes, NEW v
    PROVE  LET S == Faulty \cup {q \in Correct : nodes[q].currenView >= v}
           IN  /\ S \subseteq Replicas /\ IsFiniteSet(S) /\ Cardinality(S) \in Nat
               /\ ViewChangeQuorum(N, Abm, Pbm) \in Int
<1> DEFINE S == Faulty \cup {q \in Correct : nodes[q].currenView >= v}
<1>1. S \subseteq Replicas
  BY ClusterAssumption DEF Correct
<1> HIDE DEF S
<1>2. IsFiniteSet(S) /\ Cardinality(S) \in Nat
  BY <1>1, ReplicasFinite, FS_Subset, FS_CardinalityType
<1>3. ViewChangeQuorum(N, Abm, Pbm) \in Int
  BY ClusterAssumption DEF ViewChangeQuorum
<1> QED  BY <1>1, <1>2, <1>3 DEF S

\* A view that a quorum has left stays left: views only grow.
LEMMA LeftGrows ==
    ASSUME NEW nodes, NEW nodes2, NEW v \in Nat, LeftIn(nodes, v),
           \A q \in Correct : /\ nodes[q].currenView \in Nat
                              /\ nodes2[q].currenView \in Nat
                              /\ nodes[q].currenView <= nodes2[q].currenView
    PROVE  LeftIn(nodes2, v)
<1> DEFINE A == Faulty \cup {q \in Correct : nodes[q].currenView >= v}
           B == Faulty \cup {q \in Correct : nodes2[q].currenView >= v}
<1>1. A \subseteq B
  <2>1. \A q \in Correct : nodes[q].currenView >= v => nodes2[q].currenView >= v
    OBVIOUS
  <2> QED  BY <2>1
<1>2. /\ IsFiniteSet(A) /\ IsFiniteSet(B)
      /\ Cardinality(A) \in Nat /\ Cardinality(B) \in Nat
      /\ ViewChangeQuorum(N, Abm, Pbm) \in Int
  BY LeftType
<1>3. Cardinality(A) >= ViewChangeQuorum(N, Abm, Pbm)
  BY DEF LeftIn
<1> HIDE DEF A, B
<1>4. Cardinality(A) <= Cardinality(B)
  BY <1>1, <1>2, FS_Subset
<1>5. Cardinality(B) >= ViewChangeQuorum(N, Abm, Pbm)
  BY <1>2, <1>3, <1>4
<1> QED  BY <1>5 DEF LeftIn, B

\* recvViewChange takes one report of a view per sender: a quorum of reports is
\* a quorum of replicas.
LEMMA QuorumLeft ==
    ASSUME NEW nodes, NEW S \in SUBSET Report, OnePerSender(S), NEW v,
           \A rep \in S : InView(nodes, rep.from, rep.view), ReportQuorum(S, v)
    PROVE  LeftIn(nodes, v)
<1> DEFINE A == {rep \in S : rep.view = v}
           B == Faulty \cup {q \in Correct : nodes[q].currenView >= v}
           f == [rep \in A |-> rep.from]
<1>1. \A rep \in A : rep.from \in B
  <2>1. \A rep \in A : rep.from \in Replicas
    BY DEF Report
  <2>2. \A rep \in A : rep.from \in Correct => nodes[rep.from].currenView >= v
    BY DEF InView
  <2> QED  BY <2>1, <2>2 DEF Correct
<1>2. \A a, b \in A : f[a] = f[b] => a = b
  BY DEF OnePerSender
<1>3. /\ IsFiniteSet(B) /\ Cardinality(B) \in Nat
      /\ ViewChangeQuorum(N, Abm, Pbm) \in Int
  BY LeftType
<1>4. Cardinality(A) >= ViewChangeQuorum(N, Abm, Pbm)
  BY DEF ReportQuorum
<1> HIDE DEF A, B
<1>5. f \in Injection(A, B)
  BY <1>1, <1>2 DEF Injection, IsInjective
<1> HIDE DEF f
<1>6. IsFiniteSet(A) /\ Cardinality(A) <= Cardinality(B)
  BY <1>3, <1>5, FS_Injection
<1>7. Cardinality(A) \in Nat
  BY <1>6, FS_CardinalityType
<1>8. Cardinality(B) >= ViewChangeQuorum(N, Abm, Pbm)
  BY <1>3, <1>4, <1>6, <1>7
<1> QED  BY <1>8 DEF LeftIn, B
-----------------------------------------------------------------------------
(***************************************************************************)
(* Steps.                                                                  *)
(***************************************************************************)
\* What a step makes of the fields that ViewsOK is about, and of the network.
LEMMA StepViews ==
    ASSUME TypeOK, NEW r \in Correct, NEW n, Viewed(n), NEW received,
           Step(r, n, received)
    PROVE  /\ \A q \in Correct : q # r => node'[q] = node[q]
           /\ node'[r].currenView = n.currenView
           /\ node'[r].activeView = n.activeView
           /\ node'[r].nextSN = n.nextSN
           /\ n.currenView < MaxView
           /\ \A x \in net' : x \in net \/ \E p \in n.out : p[2] = x[2]
<1> DEFINE n1 == [n EXCEPT !.out = {}]
<1>1. /\ n1.currenView = n.currenView /\ n1.activeView = n.activeView
      /\ n1.nextSN = n.nextSN
  BY DEF Viewed
<1>2. node' = [node EXCEPT ![r] = n1] /\ n.currenView < MaxView
  BY DEF Step
<1> HIDE DEF n1
<1>3. node'[r] = n1 /\ \A q \in Correct : q # r => node'[q] = node[q]
  BY <1>2 DEF TypeOK, Correct
<1>4. PICK sent \in SUBSET n.out :
           net' = (net \ ({r} \X received)) \cup
                  UNION {(p[1] \cap Correct) \X {p[2]} : p \in sent}
  BY DEF Step
<1>5. \A x \in net' : x \in net \/ \E p \in n.out : p[2] = x[2]
  BY <1>4
<1> QED  BY <1>1, <1>2, <1>3, <1>5

\* Goes(r): replica r has not gone back, and the others have not moved.
Goes(r) ==
    \A q \in Correct : /\ node[q].currenView \in Nat /\ node'[q].currenView \in Nat
                       /\ node[q].currenView <= node'[q].currenView
                       /\ q # r => node'[q] = node[q]

\* What such a step leaves of ViewsOK.
LEMMA GoesKeeps ==
    ASSUME ViewInv, NEW r \in Correct, Goes(r)
    PROVE  /\ \A q, v : v \in Nat /\ InView(node, q, v) => InView(node', q, v)
           /\ \A v \in Nat : LeftIn(node, v) => LeftIn(node', v)
<1>1. ASSUME NEW q, NEW v \in Nat, InView(node, q, v) PROVE InView(node', q, v)
  BY <1>1 DEF InView, Goes
<1>2. ASSUME NEW v \in Nat, LeftIn(node, v) PROVE LeftIn(node', v)
  BY <1>2, LeftGrows DEF Goes
<1> QED  BY <1>1, <1>2

\* A view-change message in the network says which view its sender has reached.
LEMMA NetViews ==
    ASSUME ViewInv, NEW r \in Correct, Goes(r), NEW n, n.replicaId = r,
           Viewed(n), node'[r].currenView = n.currenView,
           \A p \in n.out : Reached(n, p[2]),
           \A x \in net' : x \in net \/ \E p \in n.out : p[2] = x[2]
    PROVE  \A x \in net' : x[2].type = "ViewChange"
                             => InView(node', x[2].from, x[2].view)
<1> SUFFICES ASSUME NEW x \in net', x[2].type = "ViewChange"
             PROVE  InView(node', x[2].from, x[2].view)
  OBVIOUS
<1>1. CASE x \in net
  <2>1. x[2] \in Message
    BY <1>1 DEF ViewInv, Inv, TypeOK
  <2>2. x[2] \in ViewChangeMsg
    BY <2>1 DEF Message, PrePrepareMsg, PrepareMsg, PrepareQc, FastPrepareQc,
                CommitMsg, CommitQc, CheckpointMsg, ViewChangeMsg
  <2>3. x[2].view \in Nat
    BY <2>2 DEF ViewChangeMsg, Views
  <2> QED  BY <1>1, <2>3, GoesKeeps DEF ViewInv, ViewsOK
<1>2. CASE \E p \in n.out : p[2] = x[2]
  BY <1>2 DEF Reached, InView, Viewed
<1> QED  BY <1>1, <1>2

\* The normal case leaves views and never enters one (handleMsg of node.go does
\* nothing to activeView but by sendViewChange).
LEMMA StaysInv ==
    ASSUME ViewInv, Inv', NEW r \in Correct, NEW n0, n0.replicaId = r,
           n0.currenView = node[r].currenView, n0.out = {},
           n0.activeView => node[r].activeView,
           NEW n, Stays(n0, n), NEW received, Step(r, n, received),
           store' = [q \in Replicas |->
                       IF node'[q].currenView # node[q].currenView
                       THEN [store[q] EXCEPT !.timer = TRUE] ELSE store[q]],
           UNCHANGED newViews
    PROVE  /\ ViewInv'
           /\ \A q \in Correct : node'[q].activeView => node[q].activeView
<1>1. /\ r \in Replicas
      /\ \A q \in Correct : /\ q \in Replicas /\ node[q].currenView \in Nat
                            /\ node[q].currenView \in Views
  BY ViewFields DEF ViewInv, Inv
<1>2. /\ Viewed(n) /\ n.replicaId = r /\ node[r].currenView <= n.currenView
      /\ n.activeView => node[r].activeView /\ n.currenView = node[r].currenView
      /\ \A p \in n.out : Reached(n, p[2])
  BY DEF Stays
<1>3. /\ \A q \in Correct : q # r => node'[q] = node[q]
      /\ node'[r].currenView = n.currenView /\ node'[r].activeView = n.activeView
      /\ \A x \in net' : x \in net \/ \E p \in n.out : p[2] = x[2]
  BY <1>2, StepViews DEF ViewInv, Inv
<1>4. Goes(r)
  BY <1>1, <1>2, <1>3 DEF Goes, Viewed
<1>5. \A x \in net' : x[2].type = "ViewChange"
                        => InView(node', x[2].from, x[2].view)
  BY <1>2, <1>3, <1>4, NetViews
<1>6. store \in [Replicas -> Store]
  BY DEF ViewInv, ViewTypeOK
<1>7. \A q \in Replicas : /\ store'[q].viewChangeStore = store[q].viewChangeStore
                          /\ store'[q].newViewStore = store[q].newViewStore
                          /\ store'[q] \in Store
  BY <1>6 DEF Store
<1>8. ViewTypeOK'
  <2>1. TypeOK'
    BY DEF Inv
  <2>2. store' \in [Replicas -> Store]
    BY <1>7
  <2> QED  BY <1>7, <2>1, <2>2 DEF ViewInv, ViewTypeOK
<1>9. ViewsOK'
  <2>1. ASSUME NEW q \in Correct, NEW rep \in store'[q].viewChangeStore
        PROVE  InView(node', rep.from, rep.view)
    <3>1. rep \in store[q].viewChangeStore /\ rep \in Report
      BY <1>1, <1>6, <1>7, <2>1 DEF Store
    <3>2. rep.view \in Nat
      BY <3>1 DEF Report, Views
    <3> QED  BY <1>4, <3>1, <3>2, GoesKeeps DEF ViewInv, ViewsOK
  <2>2. ASSUME NEW q \in Correct, NEW v \in Views, store'[q].newViewStore[v] # Nil
        PROVE  LeftIn(node', v)
    <3>1. store[q].newViewStore[v] # Nil /\ v \in Nat
      BY <1>1, <1>7, <2>2 DEF Views
    <3> QED  BY <1>4, <3>1, GoesKeeps DEF ViewInv, ViewsOK
  <2>3. ASSUME NEW y \in newViews' PROVE LeftIn(node', y[2].view)
    <3>1. y \in newViews /\ y[2] \in NewViewMsg
      BY DEF ViewInv, ViewTypeOK
    <3>2. y[2].view \in Nat
      BY <3>1 DEF NewViewMsg, Views
    <3> QED  BY <1>4, <3>1, <3>2, GoesKeeps DEF ViewInv, ViewsOK
  <2>4. ASSUME NEW q \in Correct, node'[q].activeView, node'[q].currenView > 0
        PROVE  LeftIn(node', node'[q].currenView)
    <3>1. /\ node[q].activeView /\ node'[q].currenView = node[q].currenView
          /\ node[q].currenView > 0
      BY <1>2, <1>3, <2>4
    <3> QED  BY <1>1, <1>4, <3>1, GoesKeeps DEF ViewInv, ViewsOK
  <2> QED  BY <1>5, <2>1, <2>2, <2>3, <2>4 DEF ViewsOK
<1>10. \A q \in Correct : node'[q].activeView => node[q].activeView
  BY <1>2, <1>3
<1> QED  BY <1>8, <1>9, <1>10 DEF ViewInv

\* The steps of the normal case: handlers of messages, goroutines, proposals.
LEMMA NormalStepInv ==
    ASSUME ViewInv, NormalStep
    PROVE  /\ ViewInv'
           /\ \A q \in Correct : node'[q].activeView => node[q].activeView
<1> USE DEF NormalStep
<1>1. Inv'
  <2>1. Inv /\ Next
    BY DEF ViewInv, Next
  <2> QED  BY <2>1, NextInv
<1>2. ASSUME NEW r \in Correct, NEW n, Stays(node[r], n), NEW received,
             Step(r, n, received)
      PROVE  /\ ViewInv'
             /\ \A q \in Correct : node'[q].activeView => node[q].activeView
  <2>1. node[r].replicaId = r /\ node[r].out = {}
    BY DEF ViewInv, Inv, TypeOK, Correct
  <2> QED  BY <1>1, <1>2, <2>1, StaysInv
<1>3. \A r \in Correct : Viewed(node[r]) /\ r \in Replicas
  BY ViewFields DEF ViewInv, Inv
<1>4. \A n, id, pc, b : Viewed(n) => /\ Viewed(withTimer(n, id, pc, b))
                                     /\ Stays(n, withTimer(n, id, pc, b))
  BY DEF withTimer, Stays, Viewed
<1>5. ASSUME NEW r \in Correct, Receive(r)
      PROVE  \E n, received : Stays(node[r], n) /\ Step(r, n, received)
  <2>1. CASE RecvPrePrepare(r)
    BY <1>3, <2>1, handlePrePrepareMsgStays DEF RecvPrePrepare
  <2>2. CASE RecvPrepare(r)
    BY <1>3, <2>2, handlePrepareMsgStays DEF RecvPrepare
  <2>3. CASE RecvPrepareQc(r)
    BY <1>3, <2>3, HandlersStay DEF RecvPrepareQc
  <2>4. CASE RecvFastPrepareQc(r)
    BY <1>3, <2>4, HandlersStay DEF RecvFastPrepareQc
  <2>5. CASE RecvCommit(r)
    BY <1>3, <2>5, HandlersStay DEF RecvCommit
  <2>6. CASE RecvCommitQc(r)
    BY <1>3, <2>6, HandlersStay DEF RecvCommitQc
  <2>7. CASE RecvCheckpoint(r)
    BY <1>3, <2>7, HandlersStay DEF RecvCheckpoint
  <2> QED  BY <1>5, <2>1, <2>2, <2>3, <2>4, <2>5, <2>6, <2>7 DEF Receive
<1>6. ASSUME NEW r \in Correct, \/ prepareTimerFires(r) \/ prepareTimerSends(r)
                                \/ goCheckIfPrepared(r)
      PROVE  \E n, received : Stays(node[r], n) /\ Step(r, n, received)
  <2>1. CASE prepareTimerFires(r)
    <3>1. PICK id, pc, b : Step(r, withTimer(node[r], id, pc, b), {})
      BY <2>1 DEF prepareTimerFires
    <3> QED  BY <1>3, <1>4, <3>1
  <2>2. CASE prepareTimerSends(r)
    <3>1. PICK id, b :
               Step(r, sendPrepareQc(withTimer(node[r], id, "stopped", b),
                                     id, b, "timer"), {})
      BY <2>2 DEF prepareTimerSends
    <3>2. \A n, s : Viewed(n) => Stays(n, sendPrepareQc(n, id, b, s))
      <4>1. \A n, c, m : Viewed(n) /\ m.type # "ViewChange"
                         => Stays(n, broadcast(withCert(n, id, c), m))
        BY withCertStays, sendStays, StaysTrans DEF Reached
      <4> QED  BY <4>1 DEF sendPrepareQc
    <3> DEFINE n1 == withTimer(node[r], id, "stopped", b)
    <3>3. Viewed(n1) /\ Stays(node[r], n1)
      BY <1>3, <1>4
    <3>4. Step(r, sendPrepareQc(n1, id, b, "timer"), {})
      BY <3>1
    <3> HIDE DEF n1
    <3>5. Stays(node[r], sendPrepareQc(n1, id, b, "timer"))
      BY <1>3, <3>2, <3>3, StaysTrans
    <3> QED  BY <3>4, <3>5
  <2>3. CASE goCheckIfPrepared(r)
    <3>1. PICK id \in node[r].fastChecks :
               Step(r, checkIfPrepared([node[r] EXCEPT !.fastChecks = @ \ {id}], id), {})
      BY <2>3 DEF goCheckIfPrepared
    <3> DEFINE n1 == [node[r] EXCEPT !.fastChecks = @ \ {id}]
    <3>2. Viewed(n1) /\ Stays(node[r], n1)
      BY <1>3 DEF Viewed, Stays
    <3>3. Step(r, checkIfPrepared(n1, id), {})
      BY <3>1
    <3> HIDE DEF n1
    <3>4. Stays(node[r], checkIfPrepared(n1, id))
      BY <1>3, <3>2, checkIfStays, StaysTrans
    <3> QED  BY <3>3, <3>4
  <2> QED  BY <1>6, <2>1, <2>2, <2>3
<1>7. ASSUME NEW b \in Batches, Propose(b)
      PROVE  /\ ViewInv'
             /\ \A q \in Correct : node'[q].activeView => node[q].activeView
  <2> DEFINE r == Holder[b]
  <2>1. r \in Correct
    BY <1>7 DEF Propose, sendBatch, checkProposalWindow, createPrePrepareMsg,
                broadcastPrePrepareMsg, Stage, Running
  <2>2. CASE UNCHANGED <<node, net>>
    <3>1. \A q \in Replicas : store'[q] = store[q]
      BY <2>2
    <3>2. store' = store
      BY <3>1 DEF ViewInv, ViewTypeOK
    <3>3. TypeOK'
      BY <1>1 DEF Inv
    <3>4. ViewTypeOK' /\ ViewsOK'
      BY <2>2, <3>2, <3>3 DEF ViewInv, ViewTypeOK, ViewsOK
    <3> QED  BY <1>1, <2>2, <3>4 DEF ViewInv
  <2>3. CASE broadcastPrePrepareMsg(b)
    <3> DEFINE n1 == [node[r] EXCEPT !.nextSN = @ + 1]
    <3>1. PICK id, m : /\ Step(r, broadcast(withTimer(n1, id, "running", b), m), {})
                       /\ m.type # "ViewChange"
      BY <2>3 DEF broadcastPrePrepareMsg
    <3> HIDE DEF r
    <3>2. /\ Viewed(n1) /\ n1.replicaId = r /\ n1.out = {}
          /\ n1.currenView = node[r].currenView
          /\ n1.activeView = node[r].activeView
      <4>1. Viewed(node[r]) /\ node[r].replicaId = r /\ node[r].out = {}
        BY <1>3, <2>1 DEF ViewInv, Inv, TypeOK
      <4> QED  BY <4>1 DEF Viewed
    <3> HIDE DEF n1
    <3>3. Stays(n1, broadcast(withTimer(n1, id, "running", b), m))
      <4>1. Reached(withTimer(n1, id, "running", b), m)
        BY <3>1 DEF Reached
      <4> QED  BY <1>4, <3>2, <4>1, sendStays, StaysTrans
    <3> QED  BY <1>1, <2>1, <3>1, <3>2, <3>3, StaysInv
  <2> QED  BY <1>7, <2>2, <2>3 DEF Propose, sendBatch, checkProposalWindow,
                                   createPrePrepareMsg
<1> QED  BY <1>2, <1>5, <1>6, <1>7
-----------------------------------------------------------------------------
(***************************************************************************)
(* The steps of the view change.                                           *)
(***************************************************************************)
\* A context that is backed by the reports of the replicas.
Backs(r, x) ==
    /\ Typed(x) /\ x.n = node[r] /\ x.sent = {} /\ OnePerSender(x.viewChangeStore)
    /\ \A rep \in x.viewChangeStore : InView(node, rep.from, rep.view)
    /\ \A v \in Views : x.newViewStore[v] # Nil => LeftIn(node, v)

\* What it has beside the store of replica r is the report in a message that r has
\* received and found correct, or a new view under way.
Taken(r, x) ==
    /\ \A rep \in x.viewChangeStore :
         \/ rep \in store[r].viewChangeStore
         \/ \E vc \in Inbox(r, "ViewChange") :
              correctViewChange(vc) /\ rep \in Reports(vc, r)
    /\ \A v \in Views : x.newViewStore[v] # store[r].newViewStore[v] =>
         /\ store[r].newViewStore[v] = Nil
         /\ \E z \in newViews : z[2] = x.newViewStore[v] /\ z[2].view = v

\* Replica r runs a handler of the view change.
Handles(r) == \E x, y, received, opened :
                /\ Backs(r, x) /\ Taken(r, x) /\ Carries(x, y, Ballots)
                /\ Apply(r, y, received, opened)

\* enterView (viewchange.go) continues numbering above the high watermark.
Renumbers ==
    \A q \in Correct : ~node[q].activeView /\ node'[q].activeView
                         => node'[q].nextSN = node[q].h + K + 1

\* What a handler of the view change gets is backed.
LEMMA ContextBacked ==
    ASSUME ViewInv, NEW r \in Correct
    PROVE  /\ Backs(r, Context(r)) /\ Taken(r, Context(r)) /\ Context(r).n \in Node
           /\ Sound(Context(r).n, Ballots) /\ Context(r).n.currenView < MaxView
<1>1. r \in Replicas /\ store[r] \in Store
  BY DEF ViewInv, ViewTypeOK, Correct
<1>2. /\ node[r] \in Node /\ Sound(node[r], Ballots)
      /\ node[r].currenView < MaxView
  BY CorrectNode DEF ViewInv
<1>3. Typed(Context(r)) /\ Context(r).n = node[r] /\ Context(r).sent = {}
  BY <1>1 DEF Typed, Context, Store
<1>4. /\ Context(r).viewChangeStore = store[r].viewChangeStore
      /\ Context(r).newViewStore = store[r].newViewStore
  BY DEF Context
<1>5. OnePerSender(store[r].viewChangeStore)
  BY <1>1 DEF ViewInv, ViewTypeOK, OnePerSender
<1>6. /\ \A rep \in store[r].viewChangeStore : InView(node, rep.from, rep.view)
      /\ \A v \in Views : store[r].newViewStore[v] # Nil => LeftIn(node, v)
  BY DEF ViewInv, ViewsOK
<1> QED  BY <1>2, <1>3, <1>4, <1>5, <1>6 DEF Backs, Taken

\* A step that runs a handler on a backed context.
LEMMA ApplyInv ==
    ASSUME ViewInv, NEW r \in Correct, NEW x, Backs(r, x), NEW y,
           Carries(x, y, Ballots), NEW received, NEW opened,
           Apply(r, y, received, opened)
    PROVE  ViewInv' /\ Renumbers
<1> USE DEF ViewInv
<1>1. /\ node[r].out = {} /\ node[r].replicaId = r /\ r \in Replicas
      /\ node[r].currenView \in Nat /\ node[r].h \in Nat
  <2>1. TypeOK
    BY DEF Inv
  <2>2. r \in Replicas /\ node[r].currenView \in Nat /\ node[r].out = {}
    BY <2>1, ViewFields
  <2>3. node[r] \in Node /\ node[r].replicaId = r
    BY CorrectNode
  <2>4. node[r].h \in Nat
    <3>1. node[r].h \in {0} \cup SNs
      BY <2>3 DEF Node
    <3> QED  BY <3>1 DEF SNs
  <2> QED  BY <2>2, <2>3, <2>4
<1>2. /\ Typed(y) /\ y.viewChangeStore = x.viewChangeStore
      /\ Viewed(y.n) /\ y.n.replicaId = r
      /\ node[r].currenView <= y.n.currenView
      /\ \A p \in y.n.out : Reached(y.n, p[2])
      /\ y.n.currenView < MaxView => Moves(node[r], y.n, Ballots)
      /\ y.n.activeView =>
           \/ node[r].activeView /\ y.n.currenView = node[r].currenView
           \/ /\ y.newViewStore[y.n.currenView] # Nil
              /\ y.n.nextSN = node[r].h + K + 1
      /\ \A v \in Views : y.newViewStore[v] # Nil =>
                    x.newViewStore[v] # Nil \/ ReportQuorum(x.viewChangeStore, v)
      /\ \A nv \in y.sent : ReportQuorum(x.viewChangeStore, nv.view)
  BY <1>1 DEF Carries, Backs, MadeIn, Made
<1>3. Step(r, y.n, received) /\ proposal' = proposal
  BY DEF Apply
<1>4. /\ \A q \in Correct : q # r => node'[q] = node[q]
      /\ node'[r].currenView = y.n.currenView
      /\ node'[r].activeView = y.n.activeView /\ node'[r].nextSN = y.n.nextSN
      /\ y.n.currenView < MaxView
      /\ \A m \in net' : m \in net \/ \E p \in y.n.out : p[2] = m[2]
  BY <1>2, <1>3, StepViews DEF Inv
<1>5. Inv'
  <2>1. proposal' \in [Batches -> Proposal]
    BY <1>3 DEF Inv, TypeOK
  <2> QED  BY <1>2, <1>3, <1>4, <2>1, StepInv
<1>6. Goes(r)
  <2>1. \A q \in Correct : node[q].currenView \in Nat
    BY ViewFields DEF Inv
  <2> QED  BY <1>2, <1>4, <2>1 DEF Goes, Viewed
<1>7. \A m \in net' : m[2].type = "ViewChange" => InView(node', m[2].from, m[2].view)
  BY <1>2, <1>4, <1>6, NetViews
<1> DEFINE s == [viewChangeStore |-> y.viewChangeStore,
                 newViewStore |-> y.newViewStore, timer |-> y.timer]
<1>8. /\ s \in Store /\ store \in [Replicas -> Store]
      /\ store' = [store EXCEPT ![r] = s]
  BY <1>2 DEF Apply, Typed, Store, ViewTypeOK
<1>9. /\ store'[r] = s /\ \A q \in Replicas : q # r => store'[q] = store[q]
      /\ store' \in [Replicas -> Store]
  BY <1>1, <1>8
<1>10. \A v \in Views : y.newViewStore[v] # Nil => LeftIn(node, v)
  BY <1>2, QuorumLeft DEF Backs, Typed
<1>11. \A nv \in y.sent : nv \in NewViewMsg /\ LeftIn(node, nv.view)
  BY <1>2, QuorumLeft DEF Backs, Typed
<1>12. \A z \in newViews' : z \in newViews \/ z \in Correct \X y.sent
  <2>1. PICK nvs \in SUBSET y.sent :
             newViews' = (newViews \ ({r} \X opened)) \cup Deliver(nvs, r)
    BY DEF Apply
  <2> QED  BY <2>1 DEF Deliver
<1>13. ViewTypeOK'
  <2>1. \A q \in Replicas : OnePerSender(store'[q].viewChangeStore)
    <3>1. OnePerSender(s.viewChangeStore)
      BY <1>2 DEF Backs
    <3>2. \A q \in Replicas : OnePerSender(store[q].viewChangeStore)
      BY DEF ViewTypeOK, OnePerSender
    <3> HIDE DEF s
    <3> QED  BY <1>9, <3>1, <3>2
  <2>2. newViews' \subseteq Correct \X NewViewMsg
    BY <1>11, <1>12 DEF ViewTypeOK
  <2>3. TypeOK'
    BY <1>5 DEF Inv
  <2> QED  BY <1>9, <2>1, <2>2, <2>3 DEF ViewTypeOK, OnePerSender
<1>14. ViewsOK'
  <2>1. ASSUME NEW q \in Correct, NEW rep \in store'[q].viewChangeStore
        PROVE  InView(node', rep.from, rep.view)
    <3>1. q \in Replicas
      BY DEF Correct
    <3>2. rep \in Report
      BY <1>9, <2>1, <3>1 DEF Store
    <3>3. InView(node, rep.from, rep.view)
      BY <1>2, <1>9, <2>1, <3>1 DEF Backs, ViewsOK
    <3>4. rep.view \in Nat
      BY <3>2 DEF Report, Views
    <3> QED  BY <1>6, <3>3, <3>4, GoesKeeps
  <2>2. ASSUME NEW q \in Correct, NEW v \in Views, store'[q].newViewStore[v] # Nil
        PROVE  LeftIn(node', v)
    <3>1. q \in Replicas /\ v \in Nat
      BY DEF Correct, Views
    <3>2. LeftIn(node, v)
      BY <1>9, <1>10, <2>2, <3>1 DEF ViewsOK
    <3> QED  BY <1>6, <3>1, <3>2, GoesKeeps
  <2>3. ASSUME NEW z \in newViews' PROVE LeftIn(node', z[2].view)
    <3>1. z[2] \in NewViewMsg /\ LeftIn(node, z[2].view)
      BY <1>11, <1>12, <2>3 DEF ViewsOK, ViewTypeOK
    <3>2. z[2].view \in Nat
      BY <3>1 DEF NewViewMsg, Views
    <3> QED  BY <1>6, <3>1, <3>2, GoesKeeps
  <2>4. ASSUME NEW q \in Correct, node'[q].activeView, node'[q].currenView > 0
        PROVE  LeftIn(node', node'[q].currenView)
    <3>1. PICK v \in Views : v = node'[q].currenView
      BY <1>5 DEF Inv, TypeOK, Node, Correct
    <3>2. v \in Nat
      BY DEF Views
    <3>3. ASSUME LeftIn(node, v) PROVE LeftIn(node', node'[q].currenView)
      BY <1>6, <3>1, <3>2, <3>3, GoesKeeps
    <3>4. CASE q # r
      BY <1>4, <2>4, <3>1, <3>3, <3>4 DEF ViewsOK
    <3>5. CASE q = r
      <4>1. y.n.currenView = v
        BY <1>4, <3>1, <3>5
      <4>2. y.n.activeView
        BY <1>4, <2>4, <3>5
      <4>3. CASE node[r].activeView /\ y.n.currenView = node[r].currenView
        BY <1>4, <2>4, <3>1, <3>3, <3>5, <4>1, <4>3 DEF ViewsOK
      <4>4. CASE y.newViewStore[y.n.currenView] # Nil
        BY <1>10, <3>3, <4>1, <4>4
      <4>5. y.n.activeView =>
              \/ node[r].activeView /\ y.n.currenView = node[r].currenView
              \/ y.newViewStore[y.n.currenView] # Nil
        BY <1>2
      <4> QED  BY <4>2, <4>3, <4>4, <4>5
    <3> QED  BY <3>4, <3>5
  <2> QED  BY <1>7, <2>1, <2>2, <2>3, <2>4 DEF ViewsOK
<1>15. Renumbers
  BY <1>2, <1>4 DEF Renumbers
<1> QED  BY <1>5, <1>13, <1>14, <1>15

\* leaveView (the timer's case of StartPBFT) enters no view.
LEMMA leaveViewCarries ==
    ASSUME NEW V, NEW x, Typed(x), x.n \in Node, Sound(x.n, V),
           x.n.currenView < MaxView
    PROVE  Carries(x, leaveView(x), V)
<1> DEFINE m == sendViewChange(x.n)
           y == leaveView(x)
<1>1. Moves(x.n, m, V)
  BY sendViewChangeMoves
<1>2. Stays(x.n, m) /\ ~m.activeView /\ Recalls(x.n, m)
  BY NodeViewed, sendViewChangeStays, NodeRecorded, sendViewChangeRecalls
<1> HIDE DEF m
<1>3. /\ y.n = m /\ y.viewChangeStore = x.viewChangeStore /\ y.sent = x.sent
      /\ y.newViewStore = x.newViewStore /\ Typed(y)
  BY DEF leaveView, Typed, m
<1> HIDE DEF y
<1>4. /\ Viewed(y.n) /\ y.n.replicaId = x.n.replicaId
      /\ x.n.currenView <= y.n.currenView /\ Moves(x.n, y.n, V)
      /\ \A p \in y.n.out : p \in x.n.out \/ Reached(y.n, p[2])
      /\ y.n.nextSN = x.n.nextSN /\ Recalls(x.n, y.n)
  BY <1>1, <1>2, <1>3 DEF Stays
<1>5. ~y.n.activeView
  BY <1>2, <1>3
<1>6. Carries(x, y, V)
  BY <1>3, <1>4, <1>5 DEF Carries
<1> QED  BY <1>6 DEF y

\* A handler that does nothing but consume its message.
LEMMA SameHandles ==
    ASSUME ViewInv, NEW r \in Correct, NEW received, NEW opened,
           Apply(r, Context(r), received, opened)
    PROVE  Handles(r)
<1>1. /\ Carries(Context(r), Context(r), Ballots)
      /\ Backs(r, Context(r)) /\ Taken(r, Context(r))
  BY ContextBacked, CarriesRefl DEF Backs
<1> QED  BY <1>1 DEF Handles

\* recvViewChange (viewchange.go): the report it stores comes from a replica that
\* has reached the view, or from a faulty one.
LEMMA RecvViewChangeHandles ==
    ASSUME ViewInv, NEW r \in Correct, RecvViewChange(r)
    PROVE  Handles(r)
<1> DEFINE c == Context(r)
<1> PICK vc \in Inbox(r, "ViewChange") :
         \E report \in Reports(vc, r) :
           \E x \in recvViewChange(c, vc, report) : Apply(r, x, {vc}, {})
  BY DEF RecvViewChange
<1> PICK report \in Reports(vc, r) :
         \E x \in recvViewChange(c, vc, report) : Apply(r, x, {vc}, {})
  OBVIOUS
<1>1. PICK x \in recvViewChange(c, vc, report) : Apply(r, x, {vc}, {})
  OBVIOUS
<1>2. Backs(r, c) /\ Taken(r, c) /\ c.n \in Node /\ Sound(c.n, Ballots)
  BY ContextBacked
<1> HIDE DEF c
<1>3. vc \in ViewChangeMsg
  <2>1. vc \in Message /\ vc.type = "ViewChange"
    BY InboxType DEF ViewInv, Inv, Correct
  <2> QED  BY <2>1 DEF Message, PrePrepareMsg, PrepareMsg, PrepareQc, FastPrepareQc,
                       CommitMsg, CommitQc, CheckpointMsg, ViewChangeMsg
<1>4. report \in Report /\ report.view = vc.view /\ report.from = vc.from
  BY <1>3 DEF Reports, Report, ViewChangeMsg
<1>5. InView(node, vc.from, vc.view)
  <2>1. PICK z \in net \cup Forged : z[2] = vc
    BY DEF Inbox
  <2>2. CASE z \in net
    BY <1>3, <2>1, <2>2 DEF ViewInv, ViewsOK, ViewChangeMsg
  <2>3. CASE z \in Forged
    BY <2>1, <2>3, ForgeableAssumption DEF Forged, InView, Correct
  <2> QED  BY <2>1, <2>2, <2>3
<1> DEFINE x1 == [c EXCEPT !.viewChangeStore = @ \cup {report}]
<1>6. CASE x = c
  BY <1>1, <1>6, SameHandles DEF c
<1>7. CASE x # c
  <2>1. /\ ~\E rep \in c.viewChangeStore : rep.view = vc.view /\ rep.from = vc.from
        /\ correctViewChange(vc) /\ Carries(x1, x, Ballots)
    <3>1. Typed(c)
      BY <1>2 DEF Backs
    <3> HIDE DEF x1
    <3>2. report \in Report /\ x \in recvViewChange(c, vc, report)
      BY <1>1, <1>4
    <3>3. \/ x = c
          \/ /\ correctViewChange(vc)
             /\ ~\E rep \in c.viewChangeStore :
                   rep.view = vc.view /\ rep.from = vc.from
             /\ Carries([c EXCEPT !.viewChangeStore = @ \cup {report}], x, Ballots)
      BY <1>2, <3>1, <3>2, recvViewChangeCarries
    <3> QED  BY <1>7, <3>3 DEF x1
  <2>2. /\ Typed(x1) /\ x1.n = c.n /\ x1.sent = c.sent
        /\ x1.newViewStore = c.newViewStore
        /\ x1.viewChangeStore = c.viewChangeStore \cup {report}
    BY <1>2, <1>4 DEF Backs, Typed
  <2> HIDE DEF x1
  <2>3. OnePerSender(x1.viewChangeStore)
    BY <1>2, <1>4, <2>1, <2>2 DEF Backs, OnePerSender
  <2>4. \A rep \in x1.viewChangeStore : InView(node, rep.from, rep.view)
    BY <1>2, <1>4, <1>5, <2>2 DEF Backs
  <2>5. Backs(r, x1)
    BY <1>2, <2>2, <2>3, <2>4 DEF Backs
  <2>6. Taken(r, x1)
    BY <1>2, <2>1, <2>2 DEF Taken
  <2> QED  BY <1>1, <2>1, <2>5, <2>6 DEF Handles
<1> QED  BY <1>6, <1>7

\* recvNewView (viewchange.go): the message was made from a quorum of reports.
LEMMA RecvNewViewHandles ==
    ASSUME ViewInv, NEW r \in Correct, RecvNewView(r)
    PROVE  Handles(r)
<1> DEFINE c == Context(r)
<1> PICK y \in newViews :
         \E x \in recvNewView(c, y[2]) : Apply(r, x, {}, {y[2]})
  BY DEF RecvNewView
<1>1. PICK x \in recvNewView(c, y[2]) : Apply(r, x, {}, {y[2]})
  OBVIOUS
<1>2. Backs(r, c) /\ Taken(r, c) /\ c.n \in Node /\ Sound(c.n, Ballots)
  BY ContextBacked
<1> HIDE DEF c
<1>3. y[2] \in NewViewMsg /\ LeftIn(node, y[2].view) /\ y[2].view \in Views
  BY DEF ViewInv, ViewTypeOK, ViewsOK, NewViewMsg
<1> DEFINE x1 == [c EXCEPT !.newViewStore[y[2].view] = y[2]]
<1>4. CASE x = c
  BY <1>1, <1>4, SameHandles DEF c
<1>5. CASE x # c
  <2>1. c.newViewStore[y[2].view] = Nil /\ Carries(x1, x, Ballots)
    BY <1>1, <1>2, <1>3, <1>5, recvNewViewCarries DEF Backs
  <2>2. /\ Typed(x1) /\ x1.n = c.n /\ x1.sent = c.sent
        /\ x1.viewChangeStore = c.viewChangeStore
        /\ x1.newViewStore[y[2].view] = y[2]
        /\ \A v \in Views : v # y[2].view => x1.newViewStore[v] = c.newViewStore[v]
    BY <1>2, <1>3 DEF Backs, Typed
  <2> HIDE DEF x1
  <2>3. Backs(r, x1)
    BY <1>2, <1>3, <2>2 DEF Backs
  <2>4. Taken(r, x1)
    BY <1>2, <2>1, <2>2 DEF Taken
  <2> QED  BY <1>1, <2>1, <2>3, <2>4 DEF Handles
<1> QED  BY <1>4, <1>5

\* The new-view timer (StartPBFT of core.go) makes a replica leave its view.
LEMMA TimeOutHandles ==
    ASSUME ViewInv, NEW r \in Correct, TimeOut(r)
    PROVE  Handles(r)
<1>1. /\ Carries(Context(r), leaveView(Context(r)), Ballots)
      /\ Backs(r, Context(r)) /\ Taken(r, Context(r))
  BY ContextBacked, leaveViewCarries DEF Backs
<1>2. Apply(r, leaveView(Context(r)), {}, {})
  BY DEF TimeOut
<1> QED  BY <1>1, <1>2 DEF Handles
-----------------------------------------------------------------------------
(***************************************************************************)
(* Theorems.                                                               *)
(***************************************************************************)
\* The replicas start in view 0, with empty stores.
LEMMA ViewInitInv == ViewInit => ViewInv
<1> SUFFICES ASSUME ViewInit PROVE ViewInv
  OBVIOUS
<1>1. Inv
  BY InitInv DEF ViewInit
<1>2. EmptyStore \in Store
  BY DEF EmptyStore, Store
<1>3. \A r \in Replicas : /\ store[r].viewChangeStore = {}
                          /\ \A v \in Views : store[r].newViewStore[v] = Nil
  BY DEF ViewInit, EmptyStore
<1>4. ViewTypeOK
  BY <1>1, <1>2, <1>3 DEF ViewTypeOK, ViewInit, Inv
<1>5. \A r \in Correct : node[r].currenView = 0 /\ r \in Replicas
  BY DEF ViewInit, Init, NewNode, Correct
<1>6. ViewsOK
  BY <1>3, <1>5 DEF ViewsOK, ViewInit, Init
<1> QED  BY <1>1, <1>4, <1>6 DEF ViewInv

\* Every step of ViewNext preserves the invariant, and a replica that becomes
\* active numbers on above its high watermark.
LEMMA ViewNextInv == ViewInv /\ [ViewNext]_vcVars => ViewInv' /\ Renumbers
<1> SUFFICES ASSUME ViewInv, [ViewNext]_vcVars PROVE ViewInv' /\ Renumbers
  OBVIOUS
<1>1. ASSUME NEW r \in Correct, RecvViewChange(r) \/ RecvNewView(r) \/ TimeOut(r)
      PROVE  ViewInv' /\ Renumbers
  <2>1. Handles(r)
    BY <1>1, RecvViewChangeHandles, RecvNewViewHandles, TimeOutHandles
  <2> QED  BY <2>1, ApplyInv DEF Handles
<1>2. CASE NormalStep
  BY <1>2, NormalStepInv DEF Renumbers
<1>3. CASE UNCHANGED vcVars
  <2>1. Ballots' = Ballots
    BY <1>3 DEF Ballots, vcVars
  <2>2. Inv'
    BY <1>3, <2>1 DEF ViewInv, Inv, TypeOK, VotesOK, CheckpointsOK, StoreOK,
                      Executed, vcVars
  <2>3. ViewTypeOK' /\ ViewsOK' /\ Renumbers
    BY <1>3, <2>2 DEF ViewInv, Inv, ViewTypeOK, ViewsOK, Renumbers, vcVars
  <2> QED  BY <2>2, <2>3 DEF ViewInv
<1> QED  BY <1>1, <1>2, <1>3 DEF ViewNext

\* The inductive invariant holds in every state that the handlers of core.go and
\* viewchange.go reach together.
THEOREM ViewInvariant == ViewSpec => []ViewInv
BY ViewInitInv, ViewNextInv, PTL DEF ViewSpec

\* What the handlers of viewchange.go store and send has its type, and a replica
\* never stores two reports of one sender for one view.
THEOREM ViewTypeCorrect == ViewSpec => []ViewTypeOK
<1>1. ViewInv => ViewTypeOK
  BY DEF ViewInv
<1> QED  BY <1>1, ViewInvariant, PTL

\* recvViewChange and processNewView let no replica be active in a later view
\* that a quorum has not reached, whatever faulty replicas report.
THEOREM EnteredByQuorum == ViewSpec => []ViewEnteredByQuorum
<1>1. ViewInv => ViewEnteredByQuorum
  BY DEF ViewInv, ViewsOK, ViewEnteredByQuorum, LeftIn
<1> QED  BY <1>1, ViewInvariant, PTL

\* enterView gives no batch a number that the new view it enters has given out
\* already, as long as the window of the new view is the replica's own.
THEOREM NumbersGoOn == ViewSpec => NumbersNotReused
<1>1. ViewInv /\ [ViewNext]_vcVars =>
        [\A r \in Correct :
           LET v == node'[r].currenView
               oset == store'[r].newViewStore[v].oset
           IN  /\ ~node[r].activeView /\ node'[r].activeView /\ r = Primary(v)
               /\ DOMAIN oset \subseteq (node[r].h + 1)..(node[r].h + K)
               => \A sn \in DOMAIN oset : sn < node'[r].nextSN]_vcVars
  <2> SUFFICES ASSUME ViewInv, Renumbers, NEW r \in Correct,
                      ~node[r].activeView, node'[r].activeView, NEW oset,
                      DOMAIN oset \subseteq (node[r].h + 1)..(node[r].h + K),
                      NEW sn \in DOMAIN oset
               PROVE  sn < node'[r].nextSN
    BY ViewNextInv
  <2>1. node[r].h \in Nat /\ K \in Nat
    BY CorrectNode, ParameterAssumption DEF ViewInv, Node, SNs
  <2>2. sn \in (node[r].h + 1)..(node[r].h + K)
    OBVIOUS
  <2>3. node'[r].nextSN = node[r].h + K + 1
    BY DEF Renumbers
  <2> QED  BY <2>1, <2>2, <2>3
<1> QED  BY <1>1, ViewInvariant, PTL DEF ViewSpec, NumbersNotReused

\* Certificates of one number and view stay unique when views change: a new view
\* is processed like pre-prepares, and a replica signs only what it has stored.
THEOREM CertificatesAgreeInViews == ViewSpec => []QcUnique
<1>1. ViewInv => QcUnique
  BY QcsAgree DEF ViewInv
<1> QED  BY <1>1, ViewInvariant, PTL

\* Low watermarks stay backed by a checkpoint quorum when views change.
THEOREM StableCheckpointInViews == ViewSpec => []StableCheckpointBacked
<1>1. ViewInv => StableCheckpointBacked
  BY CheckpointsBacked DEF ViewInv
<1> QED  BY <1>1, ViewInvariant, PTL
=============================================================================
