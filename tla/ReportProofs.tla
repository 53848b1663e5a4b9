---------------------------- MODULE ReportProofs ----------------------------
(***************************************************************************)
(* Theorems about what a replica stores and reports, for every instance of *)
(* NormalCase: a view-change message stays the truth about its sender, and *)
(* nothing is stored beyond the planned change of primary.                 *)
(*                                                                         *)
(* The invariant, Records, is about what NormalCaseProofs leaves open:     *)
(* where the certificates and batches of a replica come from.              *)
(***************************************************************************)
EXTENDS NormalCaseProofs

HasQc(c) == c.prepareQc # Nil \/ c.fastPrepareQc # Nil

\* Certificates are filed under their own number and view, have their votes
\* among W, and a prepared request has one.
Filed(id, c, W) ==
    /\ c.prepareQc # Nil =>
         /\ c.prepareQc.sn = id[1] /\ c.prepareQc.view = id[2]
         /\ Backed(W, id, c.prepareQc.digest)
    /\ c.fastPrepareQc # Nil =>
         /\ c.fastPrepareQc.sn = id[1] /\ c.fastPrepareQc.view = id[2]
         /\ Backed(W, id, c.fastPrepareQc.digest)
    /\ c.reqBatchStage = "prepared" => c.prepareQc # Nil

BeyondSwitch(n, sn) == AutoViewChange /\ sn > n.viewChangeSeqNumber

\* A batch stored under some view together with a certificate.
Justified(n, sn, b) ==
    \E view \in Views : /\ n.cert[<<sn, view>>].reqBatchDigest = b
                        /\ HasQc(n.cert[<<sn, view>>])

\* A replica votes about a number only if it has stored a batch for it, in a
\* later view only for a batch that had left the first view with a certificate.
VoteCast(n, x) ==
    \E view \in Views :
        LET c == n.cert[<<x[1][1], view>>]
        IN  /\ c.reqBatchDigest # Nil
            /\ view # 0 /\ x[1][2] # 0 => HasQc(c)
            /\ view = 0 /\ x[1][2] = 0 => x[2] = c.reqBatchDigest

(***************************************************************************)
(* Recorded(n, W, D): what the replica stores belongs to D, what it has    *)
(* certificates for is backed by the votes W, and what it has in its       *)
(* buffer or has executed it stores, with a certificate.                   *)
(***************************************************************************)
Recorded(n, W, D) ==
    /\ n.activeView => n.currenView = 0
    /\ \A id \in Ids :
         /\ Filed(id, n.cert[id], W)
         /\ n.cert[id].reqBatchDigest # Nil =>
              <<id, n.cert[id].reqBatchDigest>> \in D /\ ~BeyondSwitch(n, id[1])
    /\ \A sn \in SNs :
         n.execReqBuffer[sn] # Nil => Justified(n, sn, n.execReqBuffer[sn])
    /\ \A sn \in SNs :
         /\ n.executed[sn] # Nil => Justified(n, sn, n.executed[sn])
         /\ n.executed[sn] # Nil <=> sn <= n.lastExec
    /\ n.lastExec <= MaxSN
    /\ \A x \in n.signed : VoteCast(n, x)

Reported(id, c, vc) ==
    /\ c.reqBatchDigest # Nil => <<id, c.reqBatchDigest>> \in vc.pset
    /\ c.prepareQc \in vc.qset \cup {Nil}

\* What n has sent: pre-prepares of D, and view-change messages that tell the
\* truth as long as n stays in the view they lead to.
Truthful(n, m, D) ==
    /\ m.type = "PrePrepare" => <<<<m.sn, m.view>>, m.digest>> \in D
    /\ m.type = "ViewChange" =>
         /\ m.from = n.replicaId /\ m.view <= n.currenView
         /\ m.view = n.currenView =>
              /\ ~n.activeView
              /\ \A id \in Ids : id[1] > m.lastStableCk =>
                                   Reported(id, n.cert[id], m)

Records(D) ==
    /\ \A r \in Correct : Recorded(node[r], Ballots, D)
    /\ \A x \in net :
         /\ x[2].type = "ViewChange" => x[2].from \in Correct
         /\ Truthful(node[x[2].from], x[2], D)

Everything == Ids \X Batches
-----------------------------------------------------------------------------
(***************************************************************************)
(* What a handler leaves alone.                                            *)
(***************************************************************************)
Leaves(n, n2, f) == f \in DOMAIN n2 /\ n2[f] = n[f]

\* sendViewChange (viewchange.go) moves to the next view and sends.
LEMMA sendViewChangeLeaves ==
    ASSUME NEW n, NEW f \in DOMAIN n,
           f \notin {"currenView", "activeView", "out"}
    PROVE  Leaves(n, sendViewChange(n), f)
BY DEF Leaves, sendViewChange, broadcast

\* executeRequest (core.go) signs nothing.
LEMMA executeRequestLeaves ==
    ASSUME NEW n, "signed" \in DOMAIN n, NEW id
    PROVE  Leaves(n, executeRequest(n, id), "signed")
BY sendViewChangeLeaves DEF Leaves, executeRequest

\* checkIfPrepared and checkIfCommitted (core.go) sign nothing.
LEMMA checkIfPreparedLeaves ==
    ASSUME NEW n, "signed" \in DOMAIN n, NEW id
    PROVE  /\ Leaves(n, checkIfCommitted(n, id), "signed")
           /\ Leaves(n, checkIfPrepared(n, id), "signed")
<1>1. \A n1, c : "signed" \in DOMAIN n1
                 => Leaves(n1, withCert(n1, id, c), "signed")
  BY DEF Leaves, withCert
<1>2. \A n1 : "signed" \in DOMAIN n1
              => Leaves(n1, checkIfCommitted(n1, id), "signed")
  BY <1>1, executeRequestLeaves DEF Leaves, checkIfCommitted
<1>3. Leaves(n, checkIfPrepared(n, id), "signed")
  BY <1>1, <1>2, executeRequestLeaves DEF Leaves, checkIfPrepared
<1> QED  BY <1>2, <1>3

\* createPrepareQc (core.go) touches the certificate and sends.
LEMMA sendPrepareQcLeaves ==
    ASSUME NEW n, NEW f \in DOMAIN n, f \notin {"cert", "out"},
           NEW id, NEW d, NEW s
    PROVE  /\ Leaves(n, sendPrepareQc(n, id, d, s), f)
           /\ Leaves(n, sendFastPrepareQc(n, id, d), f)
BY DEF Leaves, sendPrepareQc, sendFastPrepareQc, withCert, broadcast

\* handlePrepareMsg and handlePrepareVote (core.go) count a vote: they neither
\* sign nor execute.
LEMMA handlePrepareMsgLeaves ==
    ASSUME NEW n, NEW f \in DOMAIN n, f \notin {"cert", "out", "panicked"},
           NEW pm, NEW stop
    PROVE  Leaves(n, handlePrepareMsg(n, pm, stop), f)
<1>1. \A n1, id, c : f \in DOMAIN n1 => Leaves(n1, withCert(n1, id, c), f)
  BY DEF Leaves, withCert
<1>2. \A n1 : f \in DOMAIN n1 => Leaves(n1, [n1 EXCEPT !.panicked = TRUE], f)
  BY DEF Leaves
<1>3. ASSUME NEW n1, f \in DOMAIN n1
      PROVE  Leaves(n1, handlePrepareVote(n1, pm, stop), f)
  <2> DEFINE id == <<pm.sn, pm.view>>
             n2 == withCert(n1, id, [n1.cert[id] EXCEPT !.partialSigInPrepare =
                                       @ \cup {<<pm.from, pm.digest>>}])
  <2>1. handlePrepareVote(n1, pm, stop) \in
          {[n2 EXCEPT !.panicked = TRUE], sendFastPrepareQc(n2, id, pm.digest),
           sendPrepareQc(n2, id, pm.digest, "handler"), n2}
    BY DEF handlePrepareVote
  <2>2. Leaves(n1, n2, f)
    BY <1>1, <1>3
  <2> HIDE DEF n2
  <2>3. /\ Leaves(n2, [n2 EXCEPT !.panicked = TRUE], f)
        /\ Leaves(n2, sendFastPrepareQc(n2, id, pm.digest), f)
        /\ Leaves(n2, sendPrepareQc(n2, id, pm.digest, "handler"), f)
    BY <1>2, <2>2, sendPrepareQcLeaves DEF Leaves
  <2> QED  BY <2>1, <2>2, <2>3 DEF Leaves
<1> QED  BY <1>1, <1>3 DEF Leaves, handlePrepareMsg

\* The handlers of certificates and commit votes (core.go) sign no prepare vote.
LEMMA HandlersLeave ==
    ASSUME NEW n, "signed" \in DOMAIN n, NEW m
    PROVE  /\ Leaves(n, handlePrepareQc(n, m), "signed")
           /\ Leaves(n, handleFastPrepareQc(n, m), "signed")
           /\ Leaves(n, handleCommitMsg(n, m), "signed")
           /\ Leaves(n, handleCommitQc(n, m), "signed")
           /\ Leaves(n, recvCheckpoint(n, m), "signed")
<1> DEFINE Same(n1, n2) == "signed" \in DOMAIN n1 => Leaves(n1, n2, "signed")
<1>1. \A n1, id, c : Same(n1, withCert(n1, id, c))
  BY DEF Leaves, withCert
<1>2. \A n1, id : /\ Same(n1, checkIfPrepared(n1, id))
                  /\ Same(n1, checkIfCommitted(n1, id))
  BY checkIfPreparedLeaves
<1>3. Leaves(n, sendViewChange(n), "signed")
  BY sendViewChangeLeaves
<1>4. \A n1 : Same(n1, sendCommitMsg(n1, m))
  BY DEF Leaves, sendCommitMsg, sendToLeader
<1>5. \A n1, c : Same(n1, broadcast(n1, c))
  BY DEF Leaves, broadcast
<1>6. Leaves(n, handlePrepareQc(n, m), "signed")
  BY <1>1, <1>2, <1>3, <1>4 DEF Leaves, handlePrepareQc
<1>7. Leaves(n, handleFastPrepareQc(n, m), "signed")
  BY <1>1 DEF Leaves, handleFastPrepareQc
<1>8. Leaves(n, handleCommitMsg(n, m), "signed")
  <2> DEFINE id == <<m.vote.sn, m.vote.view>>
             cert == [n.cert[id] EXCEPT !.partialSigInCommit =
                        @ \cup {<<m.from, m.vote>>}]
             cqc == [type |-> "CommitQc", from |-> n.replicaId, vote |-> m.vote]
             n1 == withCert(n, id, [cert EXCEPT !.commitQcStage = TRUE])
  <2>1. handleCommitMsg(n, m) \in {n, broadcast(n1, cqc), withCert(n, id, cert)}
    BY DEF handleCommitMsg
  <2>2. Leaves(n, n1, "signed") /\ Leaves(n, withCert(n, id, cert), "signed")
    BY <1>1
  <2> HIDE DEF n1, cert, cqc
  <2>3. Leaves(n1, broadcast(n1, cqc), "signed")
    BY <1>5, <2>2 DEF Leaves
  <2> QED  BY <2>1, <2>2, <2>3 DEF Leaves
<1>9. Leaves(n, handleCommitQc(n, m), "signed")
  BY <1>1, <1>2, <1>3 DEF Leaves, handleCommitQc
<1>10. Leaves(n, recvCheckpoint(n, m), "signed")
  BY DEF Leaves, recvCheckpoint, moveWatermarks
<1> QED  BY <1>6, <1>7, <1>8, <1>9, <1>10
-----------------------------------------------------------------------------
(***************************************************************************)
(* Extends(n, n2, W, D): n2 is the replica n after some of its code has    *)
(* run.  Stored batches and certificates stay; none are added after the    *)
(* view is left; what it has sent in addition is true; and it is recorded. *)
(* Follows says in addition that it has made no proposal.                  *)
(***************************************************************************)
Kept(c, c2) ==
    /\ c.reqBatchDigest # Nil => c2.reqBatchDigest = c.reqBatchDigest
    /\ c.prepareQc # Nil => c2.prepareQc = c.prepareQc
    /\ c.fastPrepareQc # Nil => c2.fastPrepareQc = c.fastPrepareQc

SameReport(c, c2) ==
    c2.reqBatchDigest = c.reqBatchDigest /\ c2.prepareQc = c.prepareQc

SameProposal(t, t2) == t2.batch = t.batch /\ (t2.pc = "none" <=> t.pc = "none")

Extends(n, n2, W, D) ==
    /\ n2 \in Node
    /\ n2.replicaId = n.replicaId /\ n.signed \subseteq n2.signed
    /\ n2.viewChangeSeqNumber = n.viewChangeSeqNumber
    /\ n.currenView <= n2.currenView /\ n.lastExec <= n2.lastExec
    /\ \A id \in Ids : Kept(n.cert[id], n2.cert[id])
    /\ ~n.activeView =>
         /\ ~n2.activeView
         /\ \A id \in Ids : SameReport(n.cert[id], n2.cert[id])
    /\ \A p \in n2.out : p \in n.out \/ Truthful(n2, p[2], D)
    /\ Recorded(n2, W, D)

Follows(n, n2, W, D) ==
    /\ Extends(n, n2, W, D)
    /\ n2.nextSN = n.nextSN
    /\ \A id \in Ids : SameProposal(n.prepareTimer[id], n2.prepareTimer[id])

\* It votes about one number at most, and if it executes something as well, it
\* has stored a batch with a certificate under that number.
VotesOnce(n, n2) ==
    \/ n2.signed = n.signed
    \/ \E sn \in SNs :
         /\ \A x \in n2.signed \ n.signed : x[1][1] = sn
         /\ \/ n2.executed = n.executed
            \/ \E b \in Batches : Justified(n2, sn, b)

\* A replica that does nothing follows itself.
LEMMA FollowsRefl ==
    ASSUME NEW W, NEW D, NEW n \in Node, Recorded(n, W, D)
    PROVE  Follows(n, n, W, D)
<1>1. n.currenView \in Nat /\ n.lastExec \in Nat
  BY DEF Node, Views
<1> QED  BY <1>1 DEF Follows, Extends, Kept, SameReport, SameProposal

\* A message that was true of a replica stays true as its code runs.
LEMMA TruthfulKept ==
    ASSUME NEW W, NEW D, NEW n \in Node, NEW n2, Extends(n, n2, W, D),
           NEW m \in Message, Truthful(n, m, D)
    PROVE  Truthful(n2, m, D)
<1> SUFFICES ASSUME m.type = "ViewChange"
             PROVE  /\ m.from = n2.replicaId /\ m.view <= n2.currenView
                    /\ m.view = n2.currenView =>
                         /\ ~n2.activeView
                         /\ \A id \in Ids : id[1] > m.lastStableCk =>
                                              Reported(id, n2.cert[id], m)
  BY DEF Truthful
<1>1. m \in ViewChangeMsg
  BY DEF Message, PrePrepareMsg, PrepareMsg, PrepareQc, FastPrepareQc,
         CommitMsg, CommitQc, CheckpointMsg, ViewChangeMsg
<1>2. m.view \in Nat /\ n.currenView \in Nat /\ n2.currenView \in Nat
  BY <1>1 DEF ViewChangeMsg, Extends, Node, Views
<1>3. /\ m.from = n.replicaId /\ m.view <= n.currenView
      /\ m.view = n.currenView =>
           /\ ~n.activeView
           /\ \A id \in Ids : id[1] > m.lastStableCk =>
                                Reported(id, n.cert[id], m)
  BY DEF Truthful
<1>4. n2.replicaId = n.replicaId /\ n.currenView <= n2.currenView
  BY DEF Extends
<1>5. m.from = n2.replicaId /\ m.view <= n2.currenView
  BY <1>2, <1>3, <1>4
<1>6. ASSUME m.view = n2.currenView
      PROVE  /\ ~n2.activeView
             /\ \A id \in Ids : id[1] > m.lastStableCk =>
                                  Reported(id, n2.cert[id], m)
  <2>1. m.view = n.currenView
    BY <1>2, <1>3, <1>4, <1>6
  <2>2. /\ ~n2.activeView
        /\ \A id \in Ids : SameReport(n.cert[id], n2.cert[id])
    BY <1>3, <2>1 DEF Extends
  <2> QED  BY <1>3, <2>1, <2>2 DEF SameReport, Reported
<1> QED  BY <1>5, <1>6

\* Code runs one piece after another.
LEMMA ExtendsTrans ==
    ASSUME NEW W, NEW D, NEW n0 \in Node, NEW n1, NEW n2,
           Extends(n0, n1, W, D), Extends(n1, n2, W, D)
    PROVE  Extends(n0, n2, W, D)
<1>1. n1 \in Node /\ n2 \in Node
  BY DEF Extends
<1>2. ASSUME NEW p \in n2.out, p \notin n0.out
      PROVE  Truthful(n2, p[2], D)
  <2>1. CASE p \in n1.out
    <3>1. Truthful(n1, p[2], D)
      BY <1>2, <2>1 DEF Extends
    <3>2. p[2] \in Message
      BY <1>1, <2>1 DEF Node
    <3> QED  BY <1>1, <3>1, <3>2, TruthfulKept
  <2>2. CASE p \notin n1.out
    BY <2>2 DEF Extends
  <2> QED  BY <2>1, <2>2
<1>3. n0.currenView <= n2.currenView /\ n0.lastExec <= n2.lastExec
  <2>1. /\ n0.currenView \in Nat /\ n1.currenView \in Nat /\ n2.currenView \in Nat
        /\ n0.lastExec \in Nat /\ n1.lastExec \in Nat /\ n2.lastExec \in Nat
    BY <1>1 DEF Node, Views
  <2>2. /\ n0.currenView <= n1.currenView /\ n1.currenView <= n2.currenView
        /\ n0.lastExec <= n1.lastExec /\ n1.lastExec <= n2.lastExec
    BY DEF Extends
  <2> QED  BY <2>1, <2>2
<1>4. \A id \in Ids : Kept(n0.cert[id], n2.cert[id])
  BY DEF Extends, Kept
<1>5. ~n0.activeView =>
        /\ ~n2.activeView
        /\ \A id \in Ids : SameReport(n0.cert[id], n2.cert[id])
  BY DEF Extends, SameReport
<1>6. /\ n2.replicaId = n0.replicaId /\ n0.signed \subseteq n2.signed
      /\ n2.viewChangeSeqNumber = n0.viewChangeSeqNumber
      /\ Recorded(n2, W, D)
  BY DEF Extends
<1> QED  BY <1>1, <1>2, <1>3, <1>4, <1>5, <1>6 DEF Extends

\* The same, for code that does not propose.
LEMMA FollowsTrans ==
    ASSUME NEW W, NEW D, NEW n0 \in Node, NEW n1, NEW n2,
           Follows(n0, n1, W, D), Follows(n1, n2, W, D)
    PROVE  Follows(n0, n2, W, D)
<1>1. Extends(n0, n2, W, D)
  BY ExtendsTrans DEF Follows
<1> QED  BY <1>1 DEF Follows, SameProposal

\* Recorded reads only some of the fields.
LEMMA SameRecorded ==
    ASSUME NEW W, NEW D, NEW n, Recorded(n, W, D), NEW n2,
           n2.viewChangeSeqNumber = n.viewChangeSeqNumber,
           n2.activeView => n2.currenView = 0,
           n2.cert = n.cert, n2.execReqBuffer = n.execReqBuffer,
           n2.executed = n.executed, n2.lastExec = n.lastExec,
           n2.signed = n.signed
    PROVE  Recorded(n2, W, D)
<1>1. \A sn : BeyondSwitch(n2, sn) <=> BeyondSwitch(n, sn)
  BY DEF BeyondSwitch
<1>2. \A sn, b : Justified(n, sn, b) => Justified(n2, sn, b)
  BY DEF Justified
<1>3. \A x : VoteCast(n, x) => VoteCast(n2, x)
  BY DEF VoteCast
<1> QED  BY <1>1, <1>2, <1>3 DEF Recorded

\* A piece of code that touches none of the fields Recorded is about, and sends
\* the truth.
LEMMA FrameExtends ==
    ASSUME NEW W, NEW D, NEW n \in Node, Recorded(n, W, D), NEW n2 \in Node,
           n2.replicaId = n.replicaId,
           n2.viewChangeSeqNumber = n.viewChangeSeqNumber,
           n2.currenView = n.currenView, n2.activeView = n.activeView,
           n2.cert = n.cert, n2.execReqBuffer = n.execReqBuffer,
           n2.executed = n.executed, n2.lastExec = n.lastExec,
           n2.signed = n.signed,
           \A p \in n2.out : p \in n.out \/ Truthful(n, p[2], D)
    PROVE  Extends(n, n2, W, D)
<1>1. n.currenView \in Nat /\ n.lastExec \in Nat
  BY DEF Node, Views
<1>2. Recorded(n2, W, D)
  <2>1. n2.activeView => n2.currenView = 0
    BY DEF Recorded
  <2> QED  BY <2>1, SameRecorded
<1>3. \A p \in n2.out : p \in n.out \/ Truthful(n2, p[2], D)
  BY DEF Truthful
<1>4. \A id \in Ids : /\ Kept(n.cert[id], n2.cert[id])
                      /\ SameReport(n.cert[id], n2.cert[id])
  BY DEF Kept, SameReport
<1> QED  BY <1>1, <1>2, <1>3, <1>4 DEF Extends

\* The same of code that does not propose.
LEMMA FrameFollows ==
    ASSUME NEW W, NEW D, NEW n \in Node, Recorded(n, W, D), NEW n2 \in Node,
           n2.replicaId = n.replicaId,
           n2.viewChangeSeqNumber = n.viewChangeSeqNumber,
           n2.nextSN = n.nextSN,
           \A id \in Ids : SameProposal(n.prepareTimer[id], n2.prepareTimer[id]),
           n2.currenView = n.currenView, n2.activeView = n.activeView,
           n2.cert = n.cert, n2.execReqBuffer = n.execReqBuffer,
           n2.executed = n.executed, n2.lastExec = n.lastExec,
           n2.signed = n.signed,
           \A p \in n2.out : p \in n.out \/ Truthful(n, p[2], D)
    PROVE  Follows(n, n2, W, D)
BY FrameExtends DEF Follows

\* getCert's pointer: a certificate that keeps what was stored may replace it.
LEMMA withCertFollows ==
    ASSUME NEW W, NEW D, NEW n \in Node, Recorded(n, W, D), NEW id \in Ids,
           NEW c \in MsgCert, withCert(n, id, c) \in Node,
           Filed(id, c, W), Kept(n.cert[id], c),
           c.reqBatchDigest # Nil =>
             <<id, c.reqBatchDigest>> \in D /\ ~BeyondSwitch(n, id[1]),
           ~n.activeView => SameReport(n.cert[id], c)
    PROVE  Follows(n, withCert(n, id, c), W, D)
<1> DEFINE n2 == withCert(n, id, c)
<1>1. /\ n2.replicaId = n.replicaId
      /\ n2.viewChangeSeqNumber = n.viewChangeSeqNumber
      /\ n2.nextSN = n.nextSN /\ n2.prepareTimer = n.prepareTimer
      /\ n2.currenView = n.currenView /\ n2.activeView = n.activeView
      /\ n2.execReqBuffer = n.execReqBuffer /\ n2.executed = n.executed
      /\ n2.lastExec = n.lastExec /\ n2.signed = n.signed /\ n2.out = n.out
  BY DEF Node, withCert
<1>2. n2.cert = [n.cert EXCEPT ![id] = c] /\ n.cert \in [Ids -> MsgCert]
  BY DEF Node, withCert
<1>3. /\ n.currenView \in Nat /\ n.lastExec \in Nat
      /\ n.signed \subseteq Ids \X Digests /\ n2 \in Node
  BY DEF Node, Views
<1> HIDE DEF n2
<1>4. ASSUME NEW i \in Ids
      PROVE  n2.cert[i] = n.cert[i] \/ (i = id /\ n2.cert[i] = c)
  BY <1>2
<1>5. \A i \in Ids : Kept(n.cert[i], n2.cert[i])
  BY <1>4 DEF Kept
<1>6. ~n.activeView => \A i \in Ids : SameReport(n.cert[i], n2.cert[i])
  BY <1>4 DEF SameReport
<1>7. \A i \in Ids : HasQc(n.cert[i]) => HasQc(n2.cert[i])
  BY <1>5 DEF Kept, HasQc
<1>8. ASSUME NEW sn \in SNs, NEW b, b # Nil, Justified(n, sn, b)
      PROVE  Justified(n2, sn, b)
  <2>1. PICK view \in Views : /\ n.cert[<<sn, view>>].reqBatchDigest = b
                              /\ HasQc(n.cert[<<sn, view>>])
    BY <1>8 DEF Justified
  <2>2. <<sn, view>> \in Ids
    BY DEF Ids
  <2>3. n2.cert[<<sn, view>>].reqBatchDigest = b /\ HasQc(n2.cert[<<sn, view>>])
    BY <1>5, <1>7, <1>8, <2>1, <2>2 DEF Kept
  <2> QED  BY <2>3 DEF Justified
<1>9. ASSUME NEW x \in n.signed
      PROVE  VoteCast(n2, x)
  <2>1. x[1][1] \in SNs
    BY <1>3 DEF Ids
  <2>2. PICK view \in Views :
             LET e == n.cert[<<x[1][1], view>>]
             IN  /\ e.reqBatchDigest # Nil
                 /\ view # 0 /\ x[1][2] # 0 => HasQc(e)
                 /\ view = 0 /\ x[1][2] = 0 => x[2] = e.reqBatchDigest
    BY <1>9 DEF Recorded, VoteCast
  <2> DEFINE i == <<x[1][1], view>>
  <2>3. i \in Ids
    BY <2>1 DEF Ids
  <2>4. /\ n2.cert[i].reqBatchDigest = n.cert[i].reqBatchDigest
        /\ HasQc(n.cert[i]) => HasQc(n2.cert[i])
    BY <1>5, <1>7, <2>2, <2>3 DEF Kept
  <2> QED  BY <2>2, <2>4 DEF VoteCast
<1>10. ASSUME NEW i \in Ids
       PROVE  /\ Filed(i, n2.cert[i], W)
              /\ n2.cert[i].reqBatchDigest # Nil =>
                   /\ <<i, n2.cert[i].reqBatchDigest>> \in D
                   /\ ~BeyondSwitch(n2, i[1])
  BY <1>1, <1>4 DEF Recorded, BeyondSwitch
<1>11. \A sn \in SNs :
         n2.execReqBuffer[sn] # Nil => Justified(n2, sn, n2.execReqBuffer[sn])
  BY <1>1, <1>8 DEF Recorded
<1>12. \A sn \in SNs :
         /\ n2.executed[sn] # Nil => Justified(n2, sn, n2.executed[sn])
         /\ n2.executed[sn] # Nil <=> sn <= n2.lastExec
  BY <1>1, <1>8 DEF Recorded
<1>13. Recorded(n2, W, D)
  BY <1>1, <1>9, <1>10, <1>11, <1>12 DEF Recorded
<1>14. Follows(n, n2, W, D)
  BY <1>1, <1>3, <1>5, <1>6, <1>13 DEF Follows, Extends, SameProposal
<1> QED  BY <1>14 DEF n2

\* A change of the other fields of a certificate.
LEMMA SameCertFollows ==
    ASSUME NEW W, NEW D, NEW n \in Node, Recorded(n, W, D), NEW id \in Ids,
           NEW c \in MsgCert, withCert(n, id, c) \in Node,
           c.reqBatchDigest = n.cert[id].reqBatchDigest,
           c.prepareQc = n.cert[id].prepareQc,
           c.fastPrepareQc = n.cert[id].fastPrepareQc,
           c.reqBatchStage = "prepared" =>
             n.cert[id].reqBatchStage = "prepared" \/ c.prepareQc # Nil
    PROVE  Follows(n, withCert(n, id, c), W, D)
<1>1. Filed(id, n.cert[id], W)
  BY DEF Recorded
<1>2. Filed(id, c, W)
  BY <1>1 DEF Filed
<1>3. Kept(n.cert[id], c) /\ SameReport(n.cert[id], c)
  BY DEF Kept, SameReport
<1>4. c.reqBatchDigest # Nil =>
        <<id, c.reqBatchDigest>> \in D /\ ~BeyondSwitch(n, id[1])
  BY DEF Recorded
<1> QED  BY <1>2, <1>3, <1>4, withCertFollows

\* broadcast and sendToLeader (node.go), of anything that is true.
LEMMA SendsFollow ==
    ASSUME NEW W, NEW D, NEW n \in Node, Recorded(n, W, D), NEW m,
           Truthful(n, m, D)
    PROVE  /\ broadcast(n, m) \in Node => Follows(n, broadcast(n, m), W, D)
           /\ sendToLeader(n, m) \in Node =>
                Follows(n, sendToLeader(n, m), W, D)
<1> SUFFICES ASSUME NEW n2 \in Node,
                    n2 = broadcast(n, m) \/ n2 = sendToLeader(n, m)
             PROVE  Follows(n, n2, W, D)
  OBVIOUS
<1>1. /\ n2.replicaId = n.replicaId
      /\ n2.viewChangeSeqNumber = n.viewChangeSeqNumber
      /\ n2.nextSN = n.nextSN /\ n2.prepareTimer = n.prepareTimer
      /\ n2.currenView = n.currenView /\ n2.activeView = n.activeView
      /\ n2.cert = n.cert
      /\ n2.execReqBuffer = n.execReqBuffer /\ n2.executed = n.executed
      /\ n2.lastExec = n.lastExec /\ n2.signed = n.signed
  BY DEF Node, broadcast, sendToLeader
<1>2. \A p \in n2.out : p \in n.out \/ p[2] = m
  BY DEF Node, broadcast, sendToLeader
<1>3. \A id \in Ids : SameProposal(n.prepareTimer[id], n2.prepareTimer[id])
  BY <1>1 DEF SameProposal
<1> QED  BY <1>1, <1>2, <1>3, FrameFollows

\* sendViewChange and calPQset (viewchange.go): the message reports everything
\* above the low watermark.
LEMMA sendViewChangeFollows ==
    ASSUME NEW W, NEW D, NEW n \in Node, Sound(n, W), Recorded(n, W, D),
           n.currenView < MaxView
    PROVE  Follows(n, sendViewChange(n), W, D)
<1> DEFINE live == ReportedIds(n)
           vc == [type |-> "ViewChange", from |-> n.replicaId,
               view |-> n.currenView + 1, lastStableCk |-> n.h,
               pset |-> {p \in live \X Batches :
                           p[2] = n.cert[p[1]].reqBatchDigest},
               qset |-> {n.cert[id].prepareQc : id \in live} \ {Nil}]
           n2 == sendViewChange(n)
<1>1. n2 \in Node
  BY sendViewChangeMoves DEF Moves
<1>2. /\ n2.replicaId = n.replicaId
      /\ n2.viewChangeSeqNumber = n.viewChangeSeqNumber
      /\ n2.nextSN = n.nextSN /\ n2.prepareTimer = n.prepareTimer
      /\ n2.currenView = n.currenView + 1 /\ ~n2.activeView
      /\ n2.cert = n.cert
      /\ n2.execReqBuffer = n.execReqBuffer /\ n2.executed = n.executed
      /\ n2.lastExec = n.lastExec /\ n2.signed = n.signed
  BY DEF Node, broadcast, sendViewChange
<1>3. \A p \in n2.out : p \in n.out \/ p[2] = vc
  <2> DEFINE left == [n EXCEPT !.currenView = @ + 1, !.activeView = FALSE]
  <2>1. n2 = broadcast(left, vc)
    BY DEF sendViewChange
  <2> HIDE DEF vc
  <2>2. broadcast(left, vc).out = n.out \cup {<<Replicas, vc>>}
    BY DEF Node, broadcast
  <2>3. n2.out = n.out \cup {<<Replicas, vc>>}
    BY <2>1, <2>2
  <2> QED  BY <2>3
<1>4. /\ vc.type = "ViewChange" /\ vc.from = n.replicaId
      /\ vc.view = n.currenView + 1 /\ vc.lastStableCk = n.h
  OBVIOUS
<1>5. ASSUME NEW id \in Ids, id[1] > n.h
      PROVE  Reported(id, n.cert[id], vc)
  <2>1. id \in live
    BY <1>5 DEF ReportedIds
  <2>2. n.cert[id] \in MsgCert
    BY certType
  <2>3. n.cert[id].reqBatchDigest # Nil
          => <<id, n.cert[id].reqBatchDigest>> \in vc.pset
    BY <2>1, <2>2 DEF MsgCert, Digests
  <2>4. n.cert[id].prepareQc \in vc.qset \cup {Nil}
    BY <2>1
  <2> QED  BY <2>3, <2>4 DEF Reported
<1> HIDE DEF n2, vc
<1>6. /\ n.currenView \in Nat /\ n.currenView <= n2.currenView
      /\ n.lastExec <= n2.lastExec
  BY <1>2 DEF Node, Views
<1>7. Truthful(n2, vc, D)
  <2>1. vc.view <= n2.currenView
    BY <1>2, <1>4, <1>6
  <2>2. \A id \in Ids : id[1] > vc.lastStableCk => Reported(id, n2.cert[id], vc)
    BY <1>2, <1>4, <1>5
  <2> QED  BY <1>2, <1>4, <2>1, <2>2 DEF Truthful
<1>8. \A p \in n2.out : p \in n.out \/ Truthful(n2, p[2], D)
  BY <1>3, <1>7
<1>9. Recorded(n2, W, D)
  BY <1>2, SameRecorded
<1>10. \A id \in Ids : /\ Kept(n.cert[id], n2.cert[id])
                       /\ SameReport(n.cert[id], n2.cert[id])
                       /\ SameProposal(n.prepareTimer[id], n2.prepareTimer[id])
  BY <1>2 DEF Kept, SameReport, SameProposal
<1> QED  BY <1>1, <1>2, <1>6, <1>8, <1>9, <1>10 DEF Follows, Extends, n2

\* executeRequest (core.go), of a request that has a certificate: what it
\* executes is stored with one.
LEMMA executeRequestFollows ==
    ASSUME NEW W, NEW D, NEW n \in Node, Sound(n, W), Recorded(n, W, D),
           n.currenView < MaxView, NEW id \in Ids, HasQc(n.cert[id])
    PROVE  Follows(n, executeRequest(n, id), W, D)
<1> DEFINE buffer == [n.execReqBuffer EXCEPT ![id[1]] = n.cert[id].reqBatchDigest]
           run == ExecutionRun(n, id[1], buffer)
           chkpts == {[type |-> "Checkpoint", from |-> n.replicaId, sn |-> i] :
                     i \in {j \in run : checkIfCreateChkpt(j)}}
           done == [n EXCEPT
            !.execReqBuffer = buffer,
            !.lastExec = @ + Cardinality(run),
            !.executed = [i \in SNs |-> IF i \in run THEN buffer[i] ELSE @[i]],
            !.out = @ \cup {<<Replicas, c>> : c \in chkpts}]
<1>1. /\ id = <<id[1], id[2]>> /\ id[1] \in SNs /\ id[2] \in Views
      /\ n.cert[id] \in MsgCert
  BY certType DEF Ids
<1>2. /\ n.execReqBuffer \in [SNs -> Digests] /\ n.executed \in [SNs -> Digests]
      /\ n.lastExec \in Nat
  BY DEF Node
<1>3. /\ buffer[id[1]] = n.cert[id].reqBatchDigest
      /\ \A sn \in SNs : sn # id[1] => buffer[sn] = n.execReqBuffer[sn]
  BY <1>1, <1>2
<1>4. /\ Cardinality(run) \in Nat
      /\ run = (n.lastExec + 1)..(n.lastExec + Cardinality(run))
  BY ExecutionRunIsInterval
<1>5. \A i \in run : i \in SNs /\ buffer[i] # Nil
  <2> SUFFICES ASSUME NEW i \in run PROVE i \in SNs /\ buffer[i] # Nil
    OBVIOUS
  <2>1. i \in SNs /\ n.lastExec < i
        /\ \A k \in (n.lastExec + 1)..i : buffer[k] # Nil
    BY DEF ExecutionRun
  <2>2. i \in (n.lastExec + 1)..i
    BY <1>2, <2>1 DEF SNs
  <2> QED  BY <2>1, <2>2
<1>6. /\ done.replicaId = n.replicaId
      /\ done.viewChangeSeqNumber = n.viewChangeSeqNumber
      /\ done.nextSN = n.nextSN /\ done.prepareTimer = n.prepareTimer
      /\ done.currenView = n.currenView /\ done.activeView = n.activeView
      /\ done.cert = n.cert /\ done.execReqBuffer = buffer
      /\ done.executed = [i \in SNs |-> IF i \in run THEN buffer[i]
                                        ELSE n.executed[i]]
      /\ done.lastExec = n.lastExec + Cardinality(run)
      /\ done.signed = n.signed
  BY DEF Node
<1>7. \A p \in done.out : p \in n.out \/ p[2].type = "Checkpoint"
  <2>1. done.out = n.out \cup {<<Replicas, c>> : c \in chkpts}
    BY DEF Node
  <2>2. \A c \in chkpts : c.type = "Checkpoint"
    OBVIOUS
  <2> HIDE DEF chkpts, done
  <2> QED  BY <2>1, <2>2
<1>8. done \in Node /\ Sound(done, W)
  BY executedMoves DEF Moves
<1> HIDE DEF done, run, buffer
<1>9. ASSUME NEW sn \in SNs, NEW b, Justified(n, sn, b)
      PROVE  Justified(done, sn, b)
  BY <1>6, <1>9 DEF Justified
<1>10. ASSUME NEW sn \in SNs, buffer[sn] # Nil
       PROVE  Justified(done, sn, buffer[sn])
  <2>1. CASE sn = id[1]
    <3>1. Justified(n, sn, buffer[sn])
      BY <1>1, <1>3, <2>1 DEF Justified
    <3> QED  BY <1>9, <3>1
  <2>2. CASE sn # id[1]
    BY <1>3, <1>9, <1>10, <2>2 DEF Recorded
  <2> QED  BY <2>1, <2>2
<1>11. ASSUME NEW sn \in SNs
       PROVE  /\ done.executed[sn] # Nil => Justified(done, sn, done.executed[sn])
              /\ done.executed[sn] # Nil <=> sn <= done.lastExec
  <2>1. n.executed[sn] # Nil <=> sn <= n.lastExec
    BY DEF Recorded
  <2>2. CASE sn \in run
    <3>1. done.executed[sn] = buffer[sn] /\ buffer[sn] # Nil
      BY <1>5, <1>6, <2>2
    <3>2. sn <= done.lastExec
      BY <1>2, <1>4, <1>6, <2>2
    <3> QED  BY <1>10, <3>1, <3>2
  <2>3. CASE sn \notin run
    <3>1. done.executed[sn] = n.executed[sn]
      BY <1>6, <2>3
    <3>2. sn <= done.lastExec <=> sn <= n.lastExec
      BY <1>2, <1>4, <1>6, <2>3 DEF SNs
    <3> QED  BY <1>9, <2>1, <3>1, <3>2 DEF Recorded
  <2> QED  BY <2>2, <2>3
<1>12. done.lastExec <= MaxSN
  <2>1. CASE Cardinality(run) = 0
    BY <1>2, <1>6, <2>1 DEF Recorded
  <2>2. CASE Cardinality(run) # 0
    <3>1. n.lastExec + Cardinality(run) \in run
      BY <1>2, <1>4, <2>2
    <3> QED  BY <1>5, <1>6, <3>1 DEF SNs
  <2> QED  BY <2>1, <2>2
<1>13. \A x \in done.signed : VoteCast(done, x)
  BY <1>6 DEF Recorded, VoteCast
<1>14. Recorded(done, W, D)
  BY <1>6, <1>10, <1>11, <1>12, <1>13 DEF Recorded, BeyondSwitch
<1>15. Follows(n, done, W, D)
  <2>1. \A p \in done.out : p \in n.out \/ Truthful(done, p[2], D)
    BY <1>7 DEF Truthful
  <2>2. n.currenView \in Nat /\ n.lastExec <= done.lastExec
    BY <1>2, <1>4, <1>6 DEF Node, Views
  <2>3. \A i \in Ids : /\ Kept(n.cert[i], done.cert[i])
                       /\ SameReport(n.cert[i], done.cert[i])
                       /\ SameProposal(n.prepareTimer[i], done.prepareTimer[i])
    BY <1>6 DEF Kept, SameReport, SameProposal
  <2> QED  BY <1>6, <1>8, <1>14, <2>1, <2>2, <2>3 DEF Follows, Extends
<1>16. Follows(n, sendViewChange(done), W, D)
  BY <1>6, <1>8, <1>14, <1>15, sendViewChangeFollows, FollowsTrans
<1> QED  BY <1>15, <1>16 DEF executeRequest, done, chkpts, run, buffer

\* checkIfCommitted (core.go): a prepared request has a certificate.
LEMMA checkIfCommittedFollows ==
    ASSUME NEW W, NEW D, NEW n \in Node, Sound(n, W), Recorded(n, W, D),
           n.currenView < MaxView, NEW id \in Ids
    PROVE  Follows(n, checkIfCommitted(n, id), W, D)
<1> DEFINE c == [n.cert[id] EXCEPT !.reqBatchStage = "committed"]
           n1 == withCert(n, id, c)
<1>1. n.cert[id] \in MsgCert
  BY certType
<1>2. /\ c \in MsgCert /\ c.reqBatchDigest = n.cert[id].reqBatchDigest
      /\ c.prepareQc = n.cert[id].prepareQc
      /\ c.fastPrepareQc = n.cert[id].fastPrepareQc
      /\ c.partialSigInPrepare = n.cert[id].partialSigInPrepare
      /\ c.reqBatchStage = "committed"
  BY <1>1 DEF MsgCert
<1> HIDE DEF c
<1>3. n1 \in Node /\ Sound(n1, W) /\ n1.currenView < MaxView
  BY <1>2, SameCertMoves DEF Moves
<1>4. n1.cert[id] = c
  BY DEF Node, withCert
<1>5. Follows(n, n1, W, D)
  BY <1>2, <1>3, SameCertFollows
<1> HIDE DEF n1
<1>6. ASSUME n.cert[id].reqBatchStage = "prepared"
      PROVE  Follows(n, executeRequest(n1, id), W, D)
  <2>1. n.cert[id].prepareQc # Nil
    BY <1>6 DEF Recorded, Filed
  <2>2. HasQc(n1.cert[id])
    BY <1>2, <1>4, <2>1 DEF HasQc
  <2>3. Recorded(n1, W, D)
    BY <1>5 DEF Follows, Extends
  <2> QED  BY <1>3, <1>5, <2>2, <2>3, executeRequestFollows, FollowsTrans
<1> QED  BY <1>6, FollowsRefl DEF checkIfCommitted, n1, c

\* checkIfPrepared (core.go): what it executes has a certificate.
LEMMA checkIfPreparedFollows ==
    ASSUME NEW W, NEW D, NEW n \in Node, Sound(n, W), Recorded(n, W, D),
           n.currenView < MaxView, NEW id \in Ids
    PROVE  Follows(n, checkIfPrepared(n, id), W, D)
<1> DEFINE c == [n.cert[id] EXCEPT !.reqBatchStage = "committed"]
           d == [n.cert[id] EXCEPT !.reqBatchStage = "prepared"]
           n1 == withCert(n, id, c)
           n2 == withCert(n, id, d)
<1>1. n.cert[id] \in MsgCert
  BY certType
<1>2. /\ c \in MsgCert /\ c.reqBatchDigest = n.cert[id].reqBatchDigest
      /\ c.prepareQc = n.cert[id].prepareQc
      /\ c.fastPrepareQc = n.cert[id].fastPrepareQc
      /\ c.partialSigInPrepare = n.cert[id].partialSigInPrepare
      /\ c.reqBatchStage = "committed"
  BY <1>1 DEF MsgCert
<1>3. /\ d \in MsgCert /\ d.reqBatchDigest = n.cert[id].reqBatchDigest
      /\ d.prepareQc = n.cert[id].prepareQc
      /\ d.fastPrepareQc = n.cert[id].fastPrepareQc
      /\ d.partialSigInPrepare = n.cert[id].partialSigInPrepare
  BY <1>1 DEF MsgCert
<1> HIDE DEF c, d
<1>4. n1 \in Node /\ Sound(n1, W) /\ n1.currenView < MaxView
  BY <1>2, SameCertMoves DEF Moves
<1>5. n2 \in Node /\ Sound(n2, W) /\ n2.currenView < MaxView
  BY <1>3, SameCertMoves DEF Moves
<1>6. n1.cert[id] = c
  BY DEF Node, withCert
<1>7. Follows(n, n1, W, D)
  BY <1>2, <1>4, SameCertFollows
<1>8. n.cert[id].prepareQc # Nil => Follows(n, n2, W, D)
  BY <1>3, <1>5, SameCertFollows
<1> HIDE DEF n1, n2
<1>9. ASSUME n.cert[id].fastPrepareQc # Nil
      PROVE  Follows(n, executeRequest(n1, id), W, D)
  <2>1. HasQc(n1.cert[id]) /\ Recorded(n1, W, D)
    BY <1>2, <1>6, <1>7, <1>9 DEF HasQc, Follows, Extends
  <2> QED  BY <1>4, <1>7, <2>1, executeRequestFollows, FollowsTrans
<1>10. ASSUME n.cert[id].prepareQc # Nil
       PROVE  Follows(n, checkIfCommitted(n2, id), W, D)
  <2>1. Recorded(n2, W, D)
    BY <1>8, <1>10 DEF Follows, Extends
  <2> QED  BY <1>5, <1>8, <1>10, <2>1, checkIfCommittedFollows, FollowsTrans
<1> QED  BY <1>9, <1>10, FollowsRefl DEF checkIfPrepared, n1, n2, c, d

\* Without a certificate there is nothing to execute.
LEMMA NothingPrepared ==
    ASSUME NEW n, NEW id, ~HasQc(n.cert[id])
    PROVE  checkIfPrepared(n, id) = n
BY DEF checkIfPrepared, HasQc

\* createPrepareQc and its broadcast (core.go).
LEMMA sendPrepareQcFollows ==
    ASSUME NEW W, NEW D, NEW n \in Node, Sound(n, W), Recorded(n, W, D),
           NEW id \in Ids, NEW d \in Digests, NEW s \in Stamps,
           Backed(Votes(n, W), id, d)
    PROVE  /\ Follows(n, sendPrepareQc(n, id, d, s), W, D)
           /\ Follows(n, sendFastPrepareQc(n, id, d), W, D)
<1> DEFINE c == [n.cert[id] EXCEPT !.prepareQcStage = TRUE, !.qcSent = @ \cup {s}]
           e == [n.cert[id] EXCEPT !.prepareQcStage = TRUE,
                                   !.qcSent = @ \cup {"fast"}]
           qc == [type |-> "PrepareQc", from |-> n.replicaId, sn |-> id[1],
                  view |-> id[2], digest |-> d, stamp |-> s]
           fqc == [type |-> "FastPrepareQc", from |-> n.replicaId, sn |-> id[1],
                   view |-> id[2], digest |-> d]
           n1 == withCert(n, id, c)
           n2 == withCert(n, id, e)
<1>1. n.cert[id] \in MsgCert
  BY certType
<1>2. /\ c \in MsgCert /\ c.reqBatchDigest = n.cert[id].reqBatchDigest
      /\ c.prepareQc = n.cert[id].prepareQc
      /\ c.fastPrepareQc = n.cert[id].fastPrepareQc
      /\ c.partialSigInPrepare = n.cert[id].partialSigInPrepare
      /\ c.reqBatchStage = n.cert[id].reqBatchStage
  BY <1>1 DEF MsgCert
<1>3. /\ e \in MsgCert /\ e.reqBatchDigest = n.cert[id].reqBatchDigest
      /\ e.prepareQc = n.cert[id].prepareQc
      /\ e.fastPrepareQc = n.cert[id].fastPrepareQc
      /\ e.partialSigInPrepare = n.cert[id].partialSigInPrepare
      /\ e.reqBatchStage = n.cert[id].reqBatchStage
  BY <1>1 DEF MsgCert
<1>4. \A m : Truthful(m, qc, D) /\ Truthful(m, fqc, D)
  BY DEF Truthful
<1>5. sendPrepareQc(n, id, d, s) = broadcast(n1, qc)
      /\ sendFastPrepareQc(n, id, d) = broadcast(n2, fqc)
  BY DEF sendPrepareQc, sendFastPrepareQc
<1> HIDE DEF c, e, qc, fqc
<1>6. n1 \in Node /\ n2 \in Node
  BY <1>2, <1>3, SameCertMoves
<1>7. broadcast(n1, qc) \in Node /\ broadcast(n2, fqc) \in Node
  BY <1>5, sendPrepareQcMoves DEF Moves
<1>8. Follows(n, n1, W, D) /\ Follows(n, n2, W, D)
  BY <1>2, <1>3, <1>6, SameCertFollows
<1> HIDE DEF n1, n2
<1>9. Recorded(n1, W, D) /\ Recorded(n2, W, D)
  BY <1>8 DEF Follows, Extends
<1>10. /\ Follows(n1, broadcast(n1, qc), W, D)
       /\ Follows(n2, broadcast(n2, fqc), W, D)
  BY <1>4, <1>6, <1>7, <1>9, SendsFollow
<1> QED  BY <1>5, <1>8, <1>10, FollowsTrans

\* handlePrepareVote (core.go).
LEMMA handlePrepareVoteFollows ==
    ASSUME NEW W, NEW D, NEW n \in Node, Sound(n, W), Recorded(n, W, D),
           NEW pm \in PrepareMsg, NEW stop \in BOOLEAN, MsgSound(pm, Votes(n, W))
    PROVE  Follows(n, handlePrepareVote(n, pm, stop), W, D)
<1> DEFINE id == <<pm.sn, pm.view>>
           c == [n.cert[id] EXCEPT !.partialSigInPrepare =
                   @ \cup {<<pm.from, pm.digest>>}]
           n1 == withCert(n, id, c)
           n2 == [n1 EXCEPT !.panicked = TRUE]
<1>1. id \in Ids /\ pm.from \in Replicas /\ pm.digest \in Digests
  BY DEF PrepareMsg, Ids
<1>2. <<pm.from, <<id, pm.digest>>>> \in Votes(n, W)
  BY DEF MsgSound, PrepareMsg
<1> HIDE DEF id
<1>3. n.cert[id] \in MsgCert
  BY <1>1, certType
<1>4. n.cert[id].partialSigInPrepare \cup {<<pm.from, pm.digest>>}
        \in SUBSET (Replicas \X Digests)
  BY <1>1, <1>3 DEF MsgCert
<1>5. /\ c \in MsgCert /\ c.reqBatchDigest = n.cert[id].reqBatchDigest
      /\ c.prepareQc = n.cert[id].prepareQc
      /\ c.fastPrepareQc = n.cert[id].fastPrepareQc
      /\ c.partialSigInPrepare = n.cert[id].partialSigInPrepare
                                   \cup {<<pm.from, pm.digest>>}
      /\ c.reqBatchStage = n.cert[id].reqBatchStage
  BY <1>3, <1>4 DEF MsgCert
<1> HIDE DEF c
<1>6. CertSound(id, c, Votes(n, W))
  <2>1. CertSound(id, n.cert[id], Votes(n, W))
    BY <1>1 DEF Sound
  <2> QED  BY <1>2, <1>5, <2>1 DEF CertSound
<1>7. n1 \in Node /\ Sound(n1, W)
  BY <1>1, <1>5, <1>6, withCertMoves DEF Moves
<1>8. Follows(n, n1, W, D)
  BY <1>1, <1>5, <1>7, SameCertFollows
<1> HIDE DEF n1
<1>9. Recorded(n1, W, D)
  BY <1>8 DEF Follows, Extends
<1>10. Follows(n, n2, W, D)
  <2>1. n2 \in Node
    BY <1>7 DEF Node
  <2>2. /\ n2.replicaId = n1.replicaId
        /\ n2.viewChangeSeqNumber = n1.viewChangeSeqNumber
        /\ n2.nextSN = n1.nextSN /\ n2.prepareTimer = n1.prepareTimer
        /\ n2.currenView = n1.currenView /\ n2.activeView = n1.activeView
        /\ n2.cert = n1.cert
        /\ n2.execReqBuffer = n1.execReqBuffer /\ n2.executed = n1.executed
        /\ n2.lastExec = n1.lastExec /\ n2.signed = n1.signed
        /\ n2.out = n1.out
    BY <1>7 DEF Node
  <2> HIDE DEF n2
  <2>3. \A i \in Ids : SameProposal(n1.prepareTimer[i], n2.prepareTimer[i])
    BY <2>2 DEF SameProposal
  <2>4. Follows(n1, n2, W, D)
    BY <1>7, <1>9, <2>1, <2>2, <2>3, FrameFollows
  <2> QED  BY <1>8, <2>4, FollowsTrans
<1>11. ASSUME PrepareQcReady(n1, id, pm.digest, SlowQuorum(N))
              \/ PrepareQcReady(n1, id, pm.digest, FastQuorum(N, Abm, Pbm))
       PROVE  /\ Follows(n, sendPrepareQc(n1, id, pm.digest, "handler"), W, D)
              /\ Follows(n, sendFastPrepareQc(n1, id, pm.digest), W, D)
  <2>1. SlowQuorum(N) \in Int /\ SlowQuorum(N) >= SlowQuorum(N)
    BY QuorumSizes
  <2>2. Backed(Votes(n1, W), id, pm.digest)
    BY <1>1, <1>7, <1>11, <2>1, QuorumSizes, ReadyBacked
  <2>3. /\ Follows(n1, sendPrepareQc(n1, id, pm.digest, "handler"), W, D)
        /\ Follows(n1, sendFastPrepareQc(n1, id, pm.digest), W, D)
    BY <1>1, <1>7, <1>9, <2>2, sendPrepareQcFollows DEF Stamps
  <2> QED  BY <1>8, <2>3, FollowsTrans
<1> QED  BY <1>8, <1>10, <1>11 DEF handlePrepareVote, n2, n1, c, id

\* handlePrepareMsg (core.go).
LEMMA handlePrepareMsgFollows ==
    ASSUME NEW W, NEW D, NEW n \in Node, Sound(n, W), Recorded(n, W, D),
           NEW pm \in PrepareMsg, NEW stop \in BOOLEAN, MsgSound(pm, Votes(n, W))
    PROVE  Follows(n, handlePrepareMsg(n, pm, stop), W, D)
<1> DEFINE id == <<pm.sn, n.currenView>>
           c == [n.cert[id] EXCEPT !.prePareStore = @ \cup {pm.from}]
           n1 == withCert(n, id, c)
<1>1. id \in Ids /\ pm.from \in Replicas
  BY DEF PrepareMsg, Ids, Node
<1> HIDE DEF id
<1>2. n.cert[id] \in MsgCert
  BY <1>1, certType
<1>3. n.cert[id].prePareStore \cup {pm.from} \in SUBSET Replicas
  BY <1>1, <1>2 DEF MsgCert
<1>4. /\ c \in MsgCert /\ c.reqBatchDigest = n.cert[id].reqBatchDigest
      /\ c.prepareQc = n.cert[id].prepareQc
      /\ c.fastPrepareQc = n.cert[id].fastPrepareQc
      /\ c.partialSigInPrepare = n.cert[id].partialSigInPrepare
      /\ c.reqBatchStage = n.cert[id].reqBatchStage
  BY <1>2, <1>3 DEF MsgCert
<1> HIDE DEF c
<1>5. n1 \in Node /\ Sound(n1, W) /\ Votes(n1, W) = Votes(n, W)
  BY <1>1, <1>4, SameCertMoves DEF Moves
<1>6. Follows(n, n1, W, D)
  BY <1>1, <1>4, <1>5, SameCertFollows
<1> HIDE DEF n1
<1>7. Recorded(n1, W, D)
  BY <1>6 DEF Follows, Extends
<1>8. Follows(n, handlePrepareVote(n1, pm, stop), W, D)
  BY <1>5, <1>6, <1>7, handlePrepareVoteFollows, FollowsTrans
<1> QED  BY <1>8, FollowsRefl DEF handlePrepareMsg, n1, c, id

\* createPrepareMsg (core.go) signs: a vote must have its cause.
LEMMA SignFollows ==
    ASSUME NEW W, NEW D, NEW n \in Node, Recorded(n, W, D), NEW pm \in PrepareMsg,
           Sign(n, pm) \in Node, VoteCast(n, <<<<pm.sn, pm.view>>, pm.digest>>)
    PROVE  Follows(n, Sign(n, pm), W, D)
<1> DEFINE n2 == Sign(n, pm)
           x == <<<<pm.sn, pm.view>>, pm.digest>>
<1>1. /\ n2.replicaId = n.replicaId
      /\ n2.viewChangeSeqNumber = n.viewChangeSeqNumber
      /\ n2.nextSN = n.nextSN /\ n2.prepareTimer = n.prepareTimer
      /\ n2.currenView = n.currenView /\ n2.activeView = n.activeView
      /\ n2.cert = n.cert /\ n2.execReqBuffer = n.execReqBuffer
      /\ n2.executed = n.executed /\ n2.lastExec = n.lastExec
      /\ n2.signed = n.signed \cup {x} /\ n2.out = n.out
  BY DEF Node, Sign
<1>2. n2 \in Node /\ n.currenView \in Nat /\ n.lastExec \in Nat
  BY DEF Node, Views
<1> HIDE DEF n2, x
<1>3. VoteCast(n, x)
  BY DEF x
<1>4. \A y \in n2.signed : VoteCast(n2, y)
  BY <1>1, <1>3 DEF Recorded, VoteCast
<1>5. Recorded(n2, W, D)
  BY <1>1, <1>4 DEF Recorded, Justified, BeyondSwitch
<1>6. \A id \in Ids : /\ Kept(n.cert[id], n2.cert[id])
                      /\ SameReport(n.cert[id], n2.cert[id])
                      /\ SameProposal(n.prepareTimer[id], n2.prepareTimer[id])
  BY <1>1 DEF Kept, SameReport, SameProposal
<1>7. Follows(n, n2, W, D)
  BY <1>1, <1>2, <1>5, <1>6 DEF Follows, Extends
<1> QED  BY <1>7 DEF n2

\* sendPrepareMsg (core.go), or the vote of the primary in place.
LEMMA CastVoteFollows ==
    ASSUME NEW W, NEW D, NEW n \in Node, Sound(n, W), Recorded(n, W, D),
           NEW id \in Ids, NEW stop \in BOOLEAN,
           n.cert[id].reqBatchDigest # Nil,
           id[2] # 0 /\ n.currenView # 0 => HasQc(n.cert[id])
    PROVE  Follows(n, CastVote(n, id[1], stop), W, D)
<1> DEFINE pm == createPrepareMsg(n, id[1])
           n1 == Sign(n, pm)
<1>1. id = <<id[1], id[2]>> /\ id[1] \in SNs /\ id[2] \in Views
  BY DEF Ids
<1>2. pm \in PrepareMsg /\ pm \in Message
  BY <1>1, createPrepareMsgType DEF Message
<1>3. /\ pm.type = "Prepare" /\ pm.from = n.replicaId /\ pm.sn = id[1]
      /\ pm.view = n.currenView
      /\ pm.digest = n.cert[<<pm.sn, pm.view>>].reqBatchDigest
  BY DEF createPrepareMsg
<1> HIDE DEF pm
<1>4. VoteCast(n, <<<<pm.sn, pm.view>>, pm.digest>>)
  BY <1>1, <1>3 DEF VoteCast
<1>5. n1 \in Node /\ Sound(n1, W) /\ MsgSound(pm, Votes(n1, W))
  BY <1>2, <1>3, SignMoves DEF Moves
<1>6. Follows(n, n1, W, D)
  BY <1>2, <1>4, <1>5, SignFollows
<1> HIDE DEF n1
<1>7. Recorded(n1, W, D)
  BY <1>6 DEF Follows, Extends
<1>8. Follows(n, sendToLeader(n1, pm), W, D)
  <2>1. Truthful(n1, pm, D) /\ pm.type # "Checkpoint"
    BY <1>3 DEF Truthful
  <2>2. sendToLeader(n1, pm) \in Node
    BY <1>2, <1>5, <2>1, sendToLeaderMoves DEF Moves
  <2> QED  BY <1>5, <1>6, <1>7, <2>1, <2>2, SendsFollow, FollowsTrans
<1>9. Follows(n, handlePrepareMsg(n1, pm, stop), W, D)
  BY <1>2, <1>5, <1>6, <1>7, handlePrepareMsgFollows, FollowsTrans
<1> QED  BY <1>8, <1>9 DEF CastVote, n1, pm

\* It signs one vote and executes nothing.
LEMMA CastVoteOnce ==
    ASSUME NEW n \in Node, NEW sn, NEW stop
    PROVE  /\ CastVote(n, sn, stop).executed = n.executed
           /\ \A x \in CastVote(n, sn, stop).signed \ n.signed : x[1][1] = sn
<1> DEFINE pm == createPrepareMsg(n, sn)
           x == <<<<pm.sn, pm.view>>, pm.digest>>
           n1 == Sign(n, pm)
<1>1. x[1][1] = sn
  BY DEF createPrepareMsg
<1> HIDE DEF pm, x
<1>2. /\ "signed" \in DOMAIN n1 /\ "executed" \in DOMAIN n1
      /\ n1.signed = n.signed \cup {x} /\ n1.executed = n.executed
  BY DEF Sign, Node, x
<1> HIDE DEF n1
<1>3. /\ sendToLeader(n1, pm).signed = n1.signed
      /\ sendToLeader(n1, pm).executed = n1.executed
  BY <1>2 DEF sendToLeader
<1>4. /\ handlePrepareMsg(n1, pm, stop).signed = n1.signed
      /\ handlePrepareMsg(n1, pm, stop).executed = n1.executed
  BY <1>2, handlePrepareMsgLeaves DEF Leaves
<1> QED  BY <1>1, <1>2, <1>3, <1>4 DEF CastVote, n1, pm

\* handlePrePrepareMsg (core.go) stores a pre-prepare of its primary only, in
\* the window and not beyond the switch.  checkIfPrepared may leave the view
\* before the vote: then the request had its certificate already.
LEMMA handlePrePrepareMsgFollows ==
    ASSUME NEW W, NEW D, NEW n \in Node, Sound(n, W), Recorded(n, W, D),
           n.currenView < MaxView, NEW ppm \in PrePrepareMsg,
           NEW stop \in BOOLEAN,
           ppm.from = Primary(0) => <<<<ppm.sn, ppm.view>>, ppm.digest>> \in D
    PROVE  /\ Follows(n, handlePrePrepareMsg(n, ppm, stop), W, D)
           /\ VotesOnce(n, handlePrePrepareMsg(n, ppm, stop))
<1> DEFINE id == <<ppm.sn, ppm.view>>
           c == [n.cert[id] EXCEPT !.reqBatchStage = "received",
                                   !.reqBatchDigest = ppm.digest]
           stored == withCert(n, id, c)
           n1 == checkIfPrepared(stored, id)
           n2 == CastVote(n1, ppm.sn, stop)
<1>1. /\ id \in Ids /\ id[1] = ppm.sn /\ ppm.digest \in Digests
      /\ ppm.digest # Nil /\ ppm.digest \in Batches /\ ppm.sn \in SNs
  BY BatchAssumption DEF PrePrepareMsg, Ids, Digests
<1>2. n.cert[id] \in MsgCert
  BY <1>1, certType
<1>3. /\ c \in MsgCert /\ c.reqBatchDigest = ppm.digest
      /\ c.prepareQc = n.cert[id].prepareQc
      /\ c.fastPrepareQc = n.cert[id].fastPrepareQc
      /\ c.partialSigInPrepare = n.cert[id].partialSigInPrepare
      /\ c.reqBatchStage = "received"
  BY <1>1, <1>2 DEF MsgCert
<1> HIDE DEF c
<1>4. ASSUME n.activeView, ~DistrustsPrePrepare(n, ppm), inWatermarks(n, ppm.sn)
      PROVE  Follows(n, n2, W, D) /\ VotesOnce(n, n2)
  <2>1. n.cert[id].reqBatchDigest \in {Nil, ppm.digest}
    BY <1>4 DEF DistrustsPrePrepare
  <2>2. ppm.from = Primary(n.currenView) /\ n.currenView = 0
        /\ ~BeyondSwitch(n, id[1])
    BY <1>4 DEF DistrustsPrePrepare, Recorded, BeyondSwitch
  <2>3. <<id, ppm.digest>> \in D
    BY <2>2
  <2> HIDE DEF id
  <2>4. CertSound(id, c, Votes(n, W))
    BY <1>1, <1>3 DEF Sound, CertSound
  <2>5. /\ stored \in Node /\ Sound(stored, W) /\ stored.currenView = 0
        /\ stored.cert[id] = c /\ stored.currenView < MaxView
    BY <1>1, <1>3, <2>1, <2>2, <2>4, withCertMoves DEF Moves
  <2>6. Follows(n, stored, W, D)
    <3>1. Filed(id, n.cert[id], W)
      BY <1>1 DEF Recorded
    <3>2. Filed(id, c, W)
      BY <1>3, <3>1 DEF Filed
    <3>3. Kept(n.cert[id], c)
      BY <1>3, <2>1 DEF Kept
    <3> QED  BY <1>1, <1>3, <1>4, <2>2, <2>3, <2>5, <3>2, <3>3, withCertFollows
  <2> HIDE DEF stored
  <2>7. Recorded(stored, W, D)
    BY <2>6 DEF Follows, Extends
  <2>8. Follows(stored, n1, W, D)
    BY <1>1, <2>5, <2>7, checkIfPreparedFollows
  <2>9. n1 \in Node /\ Sound(n1, W)
    BY <1>1, <2>5, checkIfPreparedMoves DEF Moves
  <2>10. n1 = stored \/ HasQc(stored.cert[id])
    BY NothingPrepared
  <2> HIDE DEF n1
  <2>11. Recorded(n1, W, D) /\ Kept(c, n1.cert[id])
    BY <1>1, <2>5, <2>8 DEF Follows, Extends
  <2>12. n1.cert[id].reqBatchDigest # Nil
    BY <1>1, <1>3, <2>11 DEF Kept
  <2>13. n1.currenView # 0 => HasQc(n1.cert[id])
    BY <2>5, <2>10, <2>11 DEF Kept, HasQc
  <2>14. Follows(n1, n2, W, D)
    BY <1>1, <2>9, <2>11, <2>12, <2>13, CastVoteFollows
  <2>15. Follows(n, n1, W, D)
    BY <2>6, <2>8, FollowsTrans
  <2>16. Follows(n, n2, W, D) /\ Follows(stored, n2, W, D)
    BY <2>5, <2>8, <2>14, <2>15, FollowsTrans
  <2>17. /\ n2.executed = n1.executed
         /\ \A x \in n2.signed \ n1.signed : x[1][1] = ppm.sn
    BY <2>9, CastVoteOnce
  <2> HIDE DEF n2
  <2>18. n1.signed = n.signed
    <3>1. "signed" \in DOMAIN stored /\ stored.signed = n.signed
      BY DEF stored, withCert, Node
    <3> QED  BY <3>1, checkIfPreparedLeaves DEF Leaves, n1
  <2>19. CASE n1 = stored
    <3>1. stored.executed = n.executed
      BY DEF stored, withCert, Node
    <3> QED  BY <1>1, <2>16, <2>17, <2>18, <2>19, <3>1 DEF VotesOnce
  <2>20. CASE HasQc(stored.cert[id])
    <3>1. Kept(stored.cert[id], n2.cert[id])
      BY <1>1, <2>16 DEF Follows, Extends
    <3>2. n2.cert[id].reqBatchDigest = ppm.digest /\ HasQc(n2.cert[id])
      BY <1>1, <1>3, <2>5, <2>20, <3>1 DEF Kept, HasQc
    <3>3. ppm.view \in Views /\ id = <<ppm.sn, ppm.view>>
      BY DEF PrePrepareMsg, id
    <3>4. Justified(n2, ppm.sn, ppm.digest)
      BY <3>2, <3>3 DEF Justified
    <3> QED  BY <1>1, <2>16, <2>17, <2>18, <3>4 DEF VotesOnce
  <2> QED  BY <2>10, <2>19, <2>20
<1>5. /\ Follows(n, sendViewChange(n), W, D)
      /\ VotesOnce(n, sendViewChange(n))
  <2>1. sendViewChange(n).signed = n.signed
    BY sendViewChangeLeaves DEF Leaves, Node
  <2> QED  BY <2>1, sendViewChangeFollows DEF VotesOnce
<1>6. Follows(n, n, W, D) /\ VotesOnce(n, n)
  BY FollowsRefl DEF VotesOnce
<1> QED  BY <1>4, <1>5, <1>6 DEF handlePrePrepareMsg, n2, n1, stored, c, id

\* handlePrepareQc and sendCommitMsg (core.go).
LEMMA handlePrepareQcFollows ==
    ASSUME NEW W, NEW D, NEW n \in Node, Sound(n, W), Recorded(n, W, D),
           n.currenView < MaxView, NEW pqc \in PrepareQc, MsgSound(pqc, W)
    PROVE  Follows(n, handlePrepareQc(n, pqc), W, D)
<1> DEFINE id == <<pqc.sn, pqc.view>>
           c == [n.cert[id] EXCEPT !.prepareQc = pqc]
           stored == withCert(n, id, c)
           n1 == checkIfPrepared(stored, id)
           n2 == [n1 EXCEPT !.signedCommits = @ \cup {pqc}]
           cm == [type |-> "Commit", from |-> n1.replicaId, vote |-> pqc]
<1>1. /\ id \in Ids /\ pqc.sn = id[1] /\ pqc.view = id[2]
      /\ Backed(W, id, pqc.digest)
  BY DEF PrepareQc, Ids, MsgSound, QcSound
<1> HIDE DEF id
<1>2. n.cert[id] \in MsgCert
  BY <1>1, certType
<1>3. /\ c \in MsgCert /\ c.reqBatchDigest = n.cert[id].reqBatchDigest
      /\ c.prepareQc = pqc /\ c.fastPrepareQc = n.cert[id].fastPrepareQc
      /\ c.partialSigInPrepare = n.cert[id].partialSigInPrepare
      /\ c.reqBatchStage = n.cert[id].reqBatchStage
  BY <1>2 DEF MsgCert
<1> HIDE DEF c
<1>4. ASSUME n.activeView, n.cert[id].prepareQc = Nil
      PROVE  Follows(n, sendCommitMsg(n1, pqc), W, D)
  <2>1. QcSound(pqc, Votes(n, W))
    BY SoundMono DEF MsgSound, Votes, PrepareQc
  <2>2. CertSound(id, c, Votes(n, W))
    BY <1>1, <1>3, <2>1 DEF Sound, CertSound
  <2>3. /\ stored \in Node /\ stored.currenView < MaxView /\ Sound(stored, W)
    BY <1>1, <1>3, <2>2, withCertMoves DEF Moves
  <2>4. Filed(id, n.cert[id], W) /\ n.cert[id].reqBatchStage # "prepared"
    BY <1>1, <1>4 DEF Recorded, Filed
  <2>5. Filed(id, c, W)
    BY <1>1, <1>3, <2>4 DEF Filed
  <2>6. Kept(n.cert[id], c)
    BY <1>3, <1>4 DEF Kept
  <2>7. c.reqBatchDigest # Nil =>
          <<id, c.reqBatchDigest>> \in D /\ ~BeyondSwitch(n, id[1])
    BY <1>1, <1>3 DEF Recorded
  <2>8. Follows(n, stored, W, D)
    BY <1>1, <1>3, <1>4, <2>3, <2>5, <2>6, <2>7, withCertFollows
  <2> HIDE DEF stored
  <2>9. Recorded(stored, W, D)
    BY <2>8 DEF Follows, Extends
  <2>10. Follows(stored, n1, W, D)
    BY <1>1, <2>3, <2>9, checkIfPreparedFollows
  <2>11. n1 \in Node /\ Sound(n1, W)
    BY <1>1, <2>3, checkIfPreparedMoves DEF Moves
  <2> HIDE DEF n1
  <2>12. Recorded(n1, W, D)
    BY <2>10 DEF Follows, Extends
  <2>13. n1.signedCommits \cup {pqc} \in SUBSET PrepareQc
    BY <2>11 DEF Node
  <2>14. n2 \in Node /\ Sound(n2, W)
    BY <2>11, <2>13, signedCommitsMoves DEF Moves
  <2>15. /\ n2.replicaId = n1.replicaId
         /\ n2.viewChangeSeqNumber = n1.viewChangeSeqNumber
         /\ n2.nextSN = n1.nextSN /\ n2.prepareTimer = n1.prepareTimer
         /\ n2.currenView = n1.currenView /\ n2.activeView = n1.activeView
         /\ n2.cert = n1.cert
         /\ n2.execReqBuffer = n1.execReqBuffer /\ n2.executed = n1.executed
         /\ n2.lastExec = n1.lastExec /\ n2.signed = n1.signed
         /\ n2.out = n1.out
    BY <2>11 DEF Node
  <2>16. cm \in Message /\ cm.type = "Commit"
    BY <2>11 DEF Message, CommitMsg, Node
  <2>17. sendCommitMsg(n1, pqc) = sendToLeader(n2, cm)
    BY DEF sendCommitMsg
  <2> HIDE DEF n2, cm
  <2>18. \A i \in Ids : SameProposal(n1.prepareTimer[i], n2.prepareTimer[i])
    BY <2>15 DEF SameProposal
  <2>19. Follows(n1, n2, W, D)
    BY <2>11, <2>12, <2>14, <2>15, <2>18, FrameFollows
  <2>20. Recorded(n2, W, D) /\ Truthful(n2, cm, D)
    BY <2>16, <2>19 DEF Follows, Extends, Truthful
  <2>21. sendToLeader(n2, cm) \in Node
    BY <2>14, <2>16, sendToLeaderMoves DEF Moves, MsgSound
  <2>22. Follows(n2, sendToLeader(n2, cm), W, D)
    BY <2>14, <2>20, <2>21, SendsFollow
  <2>23. Follows(n, n1, W, D)
    BY <2>8, <2>10, FollowsTrans
  <2>24. Follows(n, n2, W, D)
    BY <2>19, <2>23, FollowsTrans
  <2> QED  BY <2>17, <2>22, <2>24, FollowsTrans
<1>5. Follows(n, sendViewChange(n), W, D)
  BY sendViewChangeFollows
<1> QED  BY <1>4, <1>5, FollowsRefl DEF handlePrepareQc, n1, stored, c, id

\* handleFastPrepareQc (core.go) has no guard on the view, but the certificate
\* it stores is not one that is reported.
LEMMA handleFastPrepareQcFollows ==
    ASSUME NEW W, NEW D, NEW n \in Node, Sound(n, W), Recorded(n, W, D),
           NEW fpqc \in FastPrepareQc, MsgSound(fpqc, W)
    PROVE  Follows(n, handleFastPrepareQc(n, fpqc), W, D)
<1> DEFINE id == <<fpqc.sn, fpqc.view>>
           c == [n.cert[id] EXCEPT !.fastPrepareQc = fpqc]
           n1 == [n EXCEPT !.fastChecks = @ \cup {id}]
<1>1. /\ id \in Ids /\ fpqc.sn = id[1] /\ fpqc.view = id[2]
      /\ Backed(W, id, fpqc.digest)
  BY DEF FastPrepareQc, Ids, MsgSound, QcSound
<1> HIDE DEF id
<1>2. n.cert[id] \in MsgCert
  BY <1>1, certType
<1>3. /\ c \in MsgCert /\ c.reqBatchDigest = n.cert[id].reqBatchDigest
      /\ c.prepareQc = n.cert[id].prepareQc /\ c.fastPrepareQc = fpqc
      /\ c.partialSigInPrepare = n.cert[id].partialSigInPrepare
      /\ c.reqBatchStage = n.cert[id].reqBatchStage
  BY <1>2 DEF MsgCert
<1> HIDE DEF c
<1>4. n.fastChecks \cup {id} \in SUBSET Ids
  BY <1>1 DEF Node
<1>5. n1 \in Node
  BY <1>4, fastChecksMoves DEF Moves
<1>6. /\ n1.replicaId = n.replicaId
      /\ n1.viewChangeSeqNumber = n.viewChangeSeqNumber
      /\ n1.nextSN = n.nextSN /\ n1.prepareTimer = n.prepareTimer
      /\ n1.currenView = n.currenView /\ n1.activeView = n.activeView
      /\ n1.cert = n.cert
      /\ n1.execReqBuffer = n.execReqBuffer /\ n1.executed = n.executed
      /\ n1.lastExec = n.lastExec /\ n1.signed = n.signed /\ n1.out = n.out
  BY DEF Node
<1> HIDE DEF n1
<1>7. Follows(n, n1, W, D)
  <2>1. \A i \in Ids : SameProposal(n.prepareTimer[i], n1.prepareTimer[i])
    BY <1>6 DEF SameProposal
  <2> QED  BY <1>5, <1>6, <2>1, FrameFollows
<1>8. Recorded(n1, W, D)
  BY <1>7 DEF Follows, Extends
<1>9. withCert(n1, id, c) \in Node
  BY <1>1, <1>3, <1>5 DEF withCert, Node
<1>10. ASSUME n.cert[id].fastPrepareQc = Nil
       PROVE  Follows(n, withCert(n1, id, c), W, D)
  <2>1. Filed(id, n.cert[id], W)
    BY <1>1 DEF Recorded
  <2>2. Filed(id, c, W)
    BY <1>1, <1>3, <2>1 DEF Filed
  <2>3. Kept(n1.cert[id], c) /\ SameReport(n1.cert[id], c)
    BY <1>3, <1>6, <1>10 DEF Kept, SameReport
  <2>4. c.reqBatchDigest # Nil =>
          <<id, c.reqBatchDigest>> \in D /\ ~BeyondSwitch(n1, id[1])
    BY <1>1, <1>3, <1>6, <1>8 DEF Recorded
  <2>5. Follows(n1, withCert(n1, id, c), W, D)
    BY <1>1, <1>3, <1>5, <1>8, <1>9, <2>2, <2>3, <2>4, withCertFollows
  <2> QED  BY <1>7, <2>5, FollowsTrans
<1> QED  BY <1>10, FollowsRefl DEF handleFastPrepareQc, n1, c, id

\* handleCommitMsg, handleCommitVote and createCommitQc (core.go).
LEMMA handleCommitMsgFollows ==
    ASSUME NEW W, NEW D, NEW n \in Node, Sound(n, W), Recorded(n, W, D),
           NEW cm \in CommitMsg
    PROVE  Follows(n, handleCommitMsg(n, cm), W, D)
<1> DEFINE id == <<cm.vote.sn, cm.vote.view>>
           c == [n.cert[id] EXCEPT !.partialSigInCommit =
                   @ \cup {<<cm.from, cm.vote>>}]
           d == [c EXCEPT !.commitQcStage = TRUE]
           cqc == [type |-> "CommitQc", from |-> n.replicaId, vote |-> cm.vote]
           n1 == withCert(n, id, d)
<1>1. id \in Ids /\ cm.from \in Replicas /\ cm.vote \in PrepareQc
  BY DEF CommitMsg, PrepareQc, Ids
<1> HIDE DEF id
<1>2. n.cert[id] \in MsgCert
  BY <1>1, certType
<1>3. n.cert[id].partialSigInCommit \cup {<<cm.from, cm.vote>>}
        \in SUBSET (Replicas \X PrepareQc)
  BY <1>1, <1>2 DEF MsgCert
<1>4. /\ c \in MsgCert /\ c.reqBatchDigest = n.cert[id].reqBatchDigest
      /\ c.prepareQc = n.cert[id].prepareQc
      /\ c.fastPrepareQc = n.cert[id].fastPrepareQc
      /\ c.partialSigInPrepare = n.cert[id].partialSigInPrepare
      /\ c.reqBatchStage = n.cert[id].reqBatchStage
  BY <1>2, <1>3 DEF MsgCert
<1> HIDE DEF c
<1>5. /\ d \in MsgCert /\ d.reqBatchDigest = n.cert[id].reqBatchDigest
      /\ d.prepareQc = n.cert[id].prepareQc
      /\ d.fastPrepareQc = n.cert[id].fastPrepareQc
      /\ d.partialSigInPrepare = n.cert[id].partialSigInPrepare
      /\ d.reqBatchStage = n.cert[id].reqBatchStage
  BY <1>4 DEF MsgCert
<1> HIDE DEF d
<1>6. cqc \in Message /\ cqc.type = "CommitQc"
  BY <1>1 DEF Message, CommitQc, Node
<1> HIDE DEF cqc
<1>7. withCert(n, id, c) \in Node /\ n1 \in Node /\ Sound(n1, W)
  BY <1>1, <1>4, <1>5, SameCertMoves DEF Moves
<1>8. Follows(n, withCert(n, id, c), W, D)
  BY <1>1, <1>4, <1>7, SameCertFollows
<1>9. Follows(n, n1, W, D)
  BY <1>1, <1>5, <1>7, SameCertFollows
<1> HIDE DEF n1
<1>10. Recorded(n1, W, D) /\ Truthful(n1, cqc, D)
  BY <1>6, <1>9 DEF Follows, Extends, Truthful
<1>11. broadcast(n1, cqc) \in Node
  BY <1>6, <1>7, broadcastMoves DEF Moves, MsgSound
<1>12. Follows(n, broadcast(n1, cqc), W, D)
  BY <1>7, <1>9, <1>10, <1>11, SendsFollow, FollowsTrans
<1> QED  BY <1>8, <1>12, FollowsRefl DEF handleCommitMsg, n1, cqc, d, c, id

\* handleCommitQc (core.go).
LEMMA handleCommitQcFollows ==
    ASSUME NEW W, NEW D, NEW n \in Node, Sound(n, W), Recorded(n, W, D),
           n.currenView < MaxView, NEW cqc \in CommitQc
    PROVE  Follows(n, handleCommitQc(n, cqc), W, D)
<1> DEFINE id == <<cqc.vote.sn, cqc.vote.view>>
           c == [n.cert[id] EXCEPT !.commitQc = cqc]
           stored == withCert(n, id, c)
<1>1. id \in Ids
  BY DEF CommitQc, PrepareQc, Ids
<1> HIDE DEF id
<1>2. n.cert[id] \in MsgCert
  BY <1>1, certType
<1>3. /\ c \in MsgCert /\ c.reqBatchDigest = n.cert[id].reqBatchDigest
      /\ c.prepareQc = n.cert[id].prepareQc
      /\ c.fastPrepareQc = n.cert[id].fastPrepareQc
      /\ c.partialSigInPrepare = n.cert[id].partialSigInPrepare
      /\ c.reqBatchStage = n.cert[id].reqBatchStage
  BY <1>2 DEF MsgCert
<1> HIDE DEF c
<1>4. stored \in Node /\ stored.currenView < MaxView /\ Sound(stored, W)
  BY <1>1, <1>3, SameCertMoves DEF Moves
<1>5. Follows(n, stored, W, D)
  BY <1>1, <1>3, <1>4, SameCertFollows
<1> HIDE DEF stored
<1>6. Recorded(stored, W, D)
  BY <1>5 DEF Follows, Extends
<1>7. Follows(n, checkIfCommitted(stored, id), W, D)
  BY <1>1, <1>4, <1>5, <1>6, checkIfCommittedFollows, FollowsTrans
<1>8. Follows(n, sendViewChange(n), W, D)
  BY sendViewChangeFollows
<1> QED  BY <1>7, <1>8, FollowsRefl DEF handleCommitQc, stored, c, id

\* recvCheckpoint touches the checkpoint store and the low watermark only.
LEMMA recvCheckpointFollows ==
    ASSUME NEW W, NEW D, NEW n \in Node, Sound(n, W), Recorded(n, W, D),
           NEW chkpt \in CheckpointMsg
    PROVE  Follows(n, recvCheckpoint(n, chkpt), W, D)
<1> DEFINE n2 == recvCheckpoint(n, chkpt)
<1>1. n2 \in Node
  BY recvCheckpointMoves
<1>2. /\ n2.replicaId = n.replicaId
      /\ n2.viewChangeSeqNumber = n.viewChangeSeqNumber
      /\ n2.nextSN = n.nextSN /\ n2.prepareTimer = n.prepareTimer
      /\ n2.currenView = n.currenView /\ n2.activeView = n.activeView
      /\ n2.cert = n.cert
      /\ n2.execReqBuffer = n.execReqBuffer /\ n2.executed = n.executed
      /\ n2.lastExec = n.lastExec /\ n2.signed = n.signed /\ n2.out = n.out
  BY DEF recvCheckpoint, moveWatermarks, Node
<1> HIDE DEF n2
<1>3. \A i \in Ids : SameProposal(n.prepareTimer[i], n2.prepareTimer[i])
  BY <1>2 DEF SameProposal
<1>4. Follows(n, n2, W, D)
  BY <1>1, <1>2, <1>3, FrameFollows
<1> QED  BY <1>4 DEF n2

\* The fast-path timer of a proposal goes on.
LEMMA withTimerFollows ==
    ASSUME NEW W, NEW D, NEW n \in Node, Recorded(n, W, D), NEW id \in Ids,
           NEW pc \in {"running", "checked", "stopped"},
           n.prepareTimer[id].pc # "none",
           withTimer(n, id, pc, n.prepareTimer[id].batch) \in Node
    PROVE  Follows(n, withTimer(n, id, pc, n.prepareTimer[id].batch), W, D)
<1> DEFINE timer == [pc |-> pc, batch |-> n.prepareTimer[id].batch]
           n2 == withTimer(n, id, pc, n.prepareTimer[id].batch)
<1>1. /\ n2.replicaId = n.replicaId
      /\ n2.viewChangeSeqNumber = n.viewChangeSeqNumber
      /\ n2.nextSN = n.nextSN
      /\ n2.prepareTimer = [n.prepareTimer EXCEPT ![id] = timer]
      /\ n2.currenView = n.currenView /\ n2.activeView = n.activeView
      /\ n2.cert = n.cert
      /\ n2.execReqBuffer = n.execReqBuffer /\ n2.executed = n.executed
      /\ n2.lastExec = n.lastExec /\ n2.signed = n.signed /\ n2.out = n.out
  BY DEF withTimer, Node
<1>2. n.prepareTimer \in [Ids -> FastTimer]
  BY DEF Node
<1>3. timer.pc # "none" /\ timer.batch = n.prepareTimer[id].batch
  OBVIOUS
<1> HIDE DEF n2, timer
<1>4. \A i \in Ids : SameProposal(n.prepareTimer[i], n2.prepareTimer[i])
  BY <1>1, <1>2, <1>3 DEF SameProposal
<1>5. Follows(n, n2, W, D)
  BY <1>1, <1>4, FrameFollows DEF n2
<1> QED  BY <1>5 DEF n2
-----------------------------------------------------------------------------
(***************************************************************************)
(* Steps.                                                                  *)
(***************************************************************************)
\* More votes and more proposals do a record no harm.
LEMMA RecordedMono ==
    ASSUME NEW n, NEW W, NEW W2, W \subseteq W2, NEW D, NEW D2, D \subseteq D2,
           Recorded(n, W, D)
    PROVE  Recorded(n, W2, D2)
<1>1. \A id, c : Filed(id, c, W) => Filed(id, c, W2)
  BY BackedMono DEF Filed
<1> QED  BY <1>1 DEF Recorded

\* The node after a step is what the handler returned, with its messages gone.
LEMMA StepNode ==
    ASSUME TypeOK, NEW r \in Correct, NEW n \in Node, NEW received,
           Step(r, n, received)
    PROVE  /\ \A q \in Correct : q # r => node'[q] = node[q]
           /\ node'[r] \in Node
           /\ node'[r].replicaId = n.replicaId
           /\ node'[r].viewChangeSeqNumber = n.viewChangeSeqNumber
           /\ node'[r].nextSN = n.nextSN
           /\ node'[r].prepareTimer = n.prepareTimer
           /\ node'[r].currenView = n.currenView
           /\ node'[r].activeView = n.activeView
           /\ node'[r].cert = n.cert
           /\ node'[r].execReqBuffer = n.execReqBuffer
           /\ node'[r].executed = n.executed
           /\ node'[r].lastExec = n.lastExec /\ node'[r].signed = n.signed
           /\ node'[r].out = {}
           /\ \A x \in net' : x \in net \/ \E p \in n.out : p[2] = x[2]
<1> DEFINE n1 == [n EXCEPT !.out = {}]
<1>1. n1 \in Node
  BY DEF Node
<1>2. /\ n1.replicaId = n.replicaId
      /\ n1.viewChangeSeqNumber = n.viewChangeSeqNumber
      /\ n1.nextSN = n.nextSN /\ n1.prepareTimer = n.prepareTimer
      /\ n1.currenView = n.currenView /\ n1.activeView = n.activeView
      /\ n1.cert = n.cert
      /\ n1.execReqBuffer = n.execReqBuffer /\ n1.executed = n.executed
      /\ n1.lastExec = n.lastExec /\ n1.signed = n.signed /\ n1.out = {}
  BY DEF Node
<1>3. node' = [node EXCEPT ![r] = n1]
  BY DEF Step
<1> HIDE DEF n1
<1>4. node'[r] = n1 /\ \A q \in Correct : q # r => node'[q] = node[q]
  BY <1>3 DEF TypeOK, Correct
<1> QED  BY <1>1, <1>2, <1>4, StepFields

\* The votes after a step include those before it.
LEMMA BallotsGrow ==
    ASSUME TypeOK, NEW r \in Correct, NEW n \in Node, NEW received,
           Step(r, n, received), node[r].signed \subseteq n.signed
    PROVE  Ballots \subseteq Ballots'
<1>1. /\ \A q \in Correct : q # r => node'[q] = node[q]
      /\ node'[r].signed = n.signed
  BY StepNode
<1> QED  BY <1>1 DEF Ballots

\* If the code of a correct replica follows, the records stay good.
LEMMA StepRecords ==
    ASSUME TypeOK, NEW D, Records(D), NEW r \in Correct, NEW n,
           Extends(node[r], n, Ballots, D), NEW received, Step(r, n, received)
    PROVE  Records(D)'
<1>1. /\ node[r] \in Node /\ node[r].replicaId = r /\ node[r].out = {}
      /\ n \in Node /\ node[r].signed \subseteq n.signed
      /\ Recorded(n, Ballots, D)
  BY DEF TypeOK, Correct, Extends
<1> DEFINE n1 == node'[r]
<1>2. /\ \A q \in Correct : q # r => node'[q] = node[q]
      /\ n1 \in Node
      /\ n1.replicaId = n.replicaId
      /\ n1.viewChangeSeqNumber = n.viewChangeSeqNumber
      /\ n1.nextSN = n.nextSN /\ n1.prepareTimer = n.prepareTimer
      /\ n1.currenView = n.currenView /\ n1.activeView = n.activeView
      /\ n1.cert = n.cert
      /\ n1.execReqBuffer = n.execReqBuffer /\ n1.executed = n.executed
      /\ n1.lastExec = n.lastExec /\ n1.signed = n.signed /\ n1.out = {}
      /\ \A x \in net' : x \in net \/ \E p \in n.out : p[2] = x[2]
  BY <1>1, StepNode
<1>3. Ballots \subseteq Ballots'
  BY <1>1, BallotsGrow
<1> HIDE DEF n1
<1>4. Extends(n, n1, Ballots, D)
  BY <1>1, <1>2, FrameExtends
<1>5. Extends(node[r], n1, Ballots, D)
  BY <1>1, <1>4, ExtendsTrans
<1>6. ASSUME NEW q \in Correct PROVE Recorded(node'[q], Ballots', D)
  <2>1. Recorded(node'[q], Ballots, D)
    <3>1. CASE q = r
      BY <1>5, <3>1 DEF Extends, n1
    <3>2. CASE q # r
      BY <1>2, <3>2 DEF Records
    <3> QED  BY <3>1, <3>2
  <2> QED  BY <1>3, <2>1, RecordedMono
<1>7. ASSUME NEW x \in net'
      PROVE  /\ x[2].type = "ViewChange" => x[2].from \in Correct
             /\ Truthful(node'[x[2].from], x[2], D)
  <2>1. CASE x \in net
    <3>1. /\ x[2].type = "ViewChange" => x[2].from \in Correct
          /\ Truthful(node[x[2].from], x[2], D) /\ x[2] \in Message
      BY <2>1 DEF Records, TypeOK
    <3>2. CASE x[2].type # "ViewChange"
      BY <3>1, <3>2 DEF Truthful
    <3>3. CASE x[2].from = r
      BY <1>1, <1>5, <3>1, <3>3, TruthfulKept DEF n1
    <3>4. CASE x[2].type = "ViewChange" /\ x[2].from # r
      BY <1>2, <3>1, <3>4
    <3> QED  BY <3>1, <3>2, <3>3, <3>4
  <2>2. CASE \E p \in n.out : p[2] = x[2]
    <3>1. PICK p \in n.out : p[2] = x[2]
      BY <2>2
    <3>2. Truthful(n, x[2], D) /\ x[2] \in Message
      BY <1>1, <3>1 DEF Extends, Node
    <3>3. Truthful(n1, x[2], D)
      BY <1>1, <1>4, <3>2, TruthfulKept
    <3>4. CASE x[2].type # "ViewChange"
      BY <3>3, <3>4 DEF Truthful
    <3>5. CASE x[2].type = "ViewChange"
      <4>1. x[2].from = r
        BY <1>1, <3>2, <3>5 DEF Truthful, Extends
      <4> QED  BY <3>3, <4>1 DEF n1
    <3> QED  BY <3>4, <3>5
  <2> QED  BY <1>2, <1>7, <2>1, <2>2
<1> QED  BY <1>6, <1>7 DEF Records

\* All code of a correct replica but the proposer's follows: the pre-prepares it
\* takes as the primary's are proposals, for those of a correct primary are true
\* and with a faulty one everything counts as proposed.
LEMMA CodeFollows ==
    ASSUME Inv, NEW D, Records(D), Primary(0) \in Correct \/ Everything \subseteq D,
           NEW r \in Correct,
           \/ Receive(r) \/ goCheckIfPrepared(r)
           \/ prepareTimerFires(r) \/ prepareTimerSends(r)
    PROVE  /\ proposal' = proposal
           /\ \E n, received : /\ Follows(node[r], n, Ballots, D)
                               /\ VotesOnce(node[r], n)
                               /\ Step(r, n, received)
<1> DEFINE n == node[r]
<1>1. /\ r \in Replicas /\ n \in Node /\ n.currenView < MaxView
      /\ Sound(n, Ballots) /\ Votes(n, Ballots) = Ballots
      /\ Recorded(n, Ballots, D)
  BY CorrectNode DEF Records
<1>2. TypeOK /\ VotesOK /\ "signed" \in DOMAIN n
  BY <1>1 DEF Inv, Node
<1>3. CASE RecvPrePrepare(r)
  <2>1. PICK m \in Inbox(r, "PrePrepare") :
             \E stop \in StopReads(n, <<m.sn, n.currenView>>) :
               Step(r, handlePrePrepareMsg(n, m, stop), {m})
    BY <1>3 DEF RecvPrePrepare
  <2>2. PICK stop \in BOOLEAN : Step(r, handlePrePrepareMsg(n, m, stop), {m})
    BY <2>1 DEF StopReads
  <2>3. m \in PrePrepareMsg
    BY <1>1, <1>2, InboxTypes
  <2>4. m.from = Primary(0) => <<<<m.sn, m.view>>, m.digest>> \in D
    <3>1. CASE Everything \subseteq D
      BY <2>3, <3>1 DEF Everything, PrePrepareMsg, Ids
    <3>2. CASE Primary(0) \in Correct
      <4>1. m.from = Primary(0) => m.from \notin Faulty
        BY <3>2 DEF Correct
      <4>2. PICK x \in net \cup Forged : x[2] = m
        BY DEF Inbox
      <4>3. x \in net => Truthful(node[m.from], m, D)
        BY <4>2 DEF Records
      <4>4. x \in Forged => m.from \in Faulty
        BY <4>2, ForgeableAssumption DEF Forged
      <4> QED  BY <2>3, <4>1, <4>3, <4>4 DEF Truthful, PrePrepareMsg
    <3> QED  BY <3>1, <3>2
  <2>5. /\ Follows(n, handlePrePrepareMsg(n, m, stop), Ballots, D)
        /\ VotesOnce(n, handlePrePrepareMsg(n, m, stop))
    BY <1>1, <2>3, <2>4, handlePrePrepareMsgFollows
  <2> QED  BY <1>3, <2>2, <2>5 DEF RecvPrePrepare
<1>4. CASE RecvPrepare(r)
  <2>1. PICK m \in Inbox(r, "Prepare") :
             \E stop \in StopReads(n, <<m.sn, m.view>>) :
               Step(r, handlePrepareMsg(n, m, stop), {m})
    BY <1>4 DEF RecvPrepare
  <2>2. PICK stop \in BOOLEAN : Step(r, handlePrepareMsg(n, m, stop), {m})
    BY <2>1 DEF StopReads
  <2>3. m \in PrepareMsg /\ MsgSound(m, Ballots)
    BY <1>1, <1>2, InboxTypes, InboxSound
  <2>4. Follows(n, handlePrepareMsg(n, m, stop), Ballots, D)
    BY <1>1, <2>3, handlePrepareMsgFollows
  <2>5. VotesOnce(n, handlePrepareMsg(n, m, stop))
    BY <1>2, handlePrepareMsgLeaves DEF Leaves, VotesOnce
  <2> QED  BY <1>4, <2>2, <2>4, <2>5 DEF RecvPrepare
<1>5. CASE RecvPrepareQc(r)
  <2>1. PICK m \in Inbox(r, "PrepareQc") : Step(r, handlePrepareQc(n, m), {m})
    BY <1>5 DEF RecvPrepareQc
  <2>2. m \in PrepareQc /\ MsgSound(m, Ballots)
    BY <1>1, <1>2, InboxTypes, InboxSound
  <2>3. Follows(n, handlePrepareQc(n, m), Ballots, D)
    BY <1>1, <2>2, handlePrepareQcFollows
  <2>4. VotesOnce(n, handlePrepareQc(n, m))
    BY <1>2, HandlersLeave DEF Leaves, VotesOnce
  <2> QED  BY <1>5, <2>1, <2>3, <2>4 DEF RecvPrepareQc
<1>6. CASE RecvFastPrepareQc(r)
  <2>1. PICK m \in Inbox(r, "FastPrepareQc") :
             Step(r, handleFastPrepareQc(n, m), {m})
    BY <1>6 DEF RecvFastPrepareQc
  <2>2. m \in FastPrepareQc /\ MsgSound(m, Ballots)
    BY <1>1, <1>2, InboxTypes, InboxSound
  <2>3. Follows(n, handleFastPrepareQc(n, m), Ballots, D)
    BY <1>1, <2>2, handleFastPrepareQcFollows
  <2>4. VotesOnce(n, handleFastPrepareQc(n, m))
    BY <1>2, HandlersLeave DEF Leaves, VotesOnce
  <2> QED  BY <1>6, <2>1, <2>3, <2>4 DEF RecvFastPrepareQc
<1>7. CASE RecvCommit(r)
  <2>1. PICK m \in Inbox(r, "Commit") : Step(r, handleCommitMsg(n, m), {m})
    BY <1>7 DEF RecvCommit
  <2>2. Follows(n, handleCommitMsg(n, m), Ballots, D)
    BY <1>1, <1>2, InboxTypes, handleCommitMsgFollows
  <2>4. VotesOnce(n, handleCommitMsg(n, m))
    BY <1>2, HandlersLeave DEF Leaves, VotesOnce
  <2> QED  BY <1>7, <2>1, <2>2, <2>4 DEF RecvCommit
<1>8. CASE RecvCommitQc(r)
  <2>1. PICK m \in Inbox(r, "CommitQc") : Step(r, handleCommitQc(n, m), {m})
    BY <1>8 DEF RecvCommitQc
  <2>2. Follows(n, handleCommitQc(n, m), Ballots, D)
    BY <1>1, <1>2, InboxTypes, handleCommitQcFollows
  <2>4. VotesOnce(n, handleCommitQc(n, m))
    BY <1>2, HandlersLeave DEF Leaves, VotesOnce
  <2> QED  BY <1>8, <2>1, <2>2, <2>4 DEF RecvCommitQc
<1>9. CASE RecvCheckpoint(r)
  <2>1. PICK m \in Inbox(r, "Checkpoint") : Step(r, recvCheckpoint(n, m), {m})
    BY <1>9 DEF RecvCheckpoint
  <2>2. Follows(n, recvCheckpoint(n, m), Ballots, D)
    BY <1>1, <1>2, InboxTypes, recvCheckpointFollows
  <2>4. VotesOnce(n, recvCheckpoint(n, m))
    BY <1>2, HandlersLeave DEF Leaves, VotesOnce
  <2> QED  BY <1>9, <2>1, <2>2, <2>4 DEF RecvCheckpoint
<1>10. CASE goCheckIfPrepared(r)
  <2>1. PICK id \in n.fastChecks :
             Step(r, checkIfPrepared([n EXCEPT !.fastChecks = @ \ {id}], id), {})
    BY <1>10 DEF goCheckIfPrepared
  <2> DEFINE n1 == [n EXCEPT !.fastChecks = @ \ {id}]
  <2>2. id \in Ids /\ n.fastChecks \ {id} \in SUBSET Ids
    BY <1>1 DEF Node
  <2>3. Moves(n, n1, Ballots) /\ n1.currenView < MaxView
    BY <1>1, <2>2, fastChecksMoves
  <2>4. /\ n1.replicaId = n.replicaId
        /\ n1.viewChangeSeqNumber = n.viewChangeSeqNumber
        /\ n1.nextSN = n.nextSN /\ n1.prepareTimer = n.prepareTimer
        /\ n1.currenView = n.currenView /\ n1.activeView = n.activeView
        /\ n1.cert = n.cert
        /\ n1.execReqBuffer = n.execReqBuffer /\ n1.executed = n.executed
        /\ n1.lastExec = n.lastExec /\ n1.signed = n.signed /\ n1.out = n.out
    BY <1>1 DEF Node
  <2> HIDE DEF n1
  <2>5. n1 \in Node /\ Sound(n1, Ballots)
    BY <2>3 DEF Moves
  <2>6. \A i \in Ids : SameProposal(n.prepareTimer[i], n1.prepareTimer[i])
    BY <2>4 DEF SameProposal
  <2>7. Follows(n, n1, Ballots, D)
    BY <1>1, <2>4, <2>5, <2>6, FrameFollows
  <2>8. Recorded(n1, Ballots, D)
    BY <2>7 DEF Follows, Extends
  <2>9. Follows(n, checkIfPrepared(n1, id), Ballots, D)
    BY <1>1, <2>2, <2>3, <2>5, <2>7, <2>8, checkIfPreparedFollows, FollowsTrans
  <2>10. VotesOnce(n, checkIfPrepared(n1, id))
    BY <2>4, <2>5, checkIfPreparedLeaves DEF Leaves, VotesOnce, Node
  <2> QED  BY <1>10, <2>1, <2>9, <2>10 DEF goCheckIfPrepared, n1
<1>11. CASE prepareTimerFires(r)
  <2> DEFINE batch(id) == n.prepareTimer[id].batch
             ready(id) == PrepareQcReady(n, id, batch(id), SlowQuorum(N))
             pc(id) == IF ready(id) THEN "checked" ELSE "stopped"
  <2>1. PICK id \in Ids : /\ n.prepareTimer[id].pc = "running"
                          /\ Step(r, withTimer(n, id, pc(id), batch(id)), {})
    BY <1>11 DEF prepareTimerFires
  <2>2. batch(id) \in Digests
    BY <1>1 DEF Node, FastTimer
  <2>3. SlowQuorum(N) \in Int /\ SlowQuorum(N) >= SlowQuorum(N)
    BY QuorumSizes
  <2>4. ready(id) => Backed(Ballots, id, batch(id))
    BY <1>1, <2>3, ReadyBacked
  <2>5. /\ pc(id) \in {"running", "checked", "stopped"}
        /\ pc(id) \in {"none", "running", "checked", "stopped"}
        /\ pc(id) = "checked" => Backed(Ballots, id, batch(id))
    BY <2>4
  <2> HIDE DEF pc
  <2>6. withTimer(n, id, pc(id), batch(id)) \in Node
    BY <1>1, <2>2, <2>5, withTimerMoves DEF Moves
  <2>7. Follows(n, withTimer(n, id, pc(id), batch(id)), Ballots, D)
    BY <1>1, <2>1, <2>5, <2>6, withTimerFollows
  <2>8. proposal' = proposal
    BY <1>11 DEF prepareTimerFires
  <2>9. VotesOnce(n, withTimer(n, id, pc(id), batch(id)))
    BY <1>2 DEF VotesOnce, withTimer
  <2> QED  BY <2>1, <2>7, <2>8, <2>9
<1>12. CASE prepareTimerSends(r)
  <2> DEFINE batch(id) == n.prepareTimer[id].batch
  <2>1. PICK id \in Ids :
             /\ n.prepareTimer[id].pc = "checked"
             /\ Step(r, sendPrepareQc(withTimer(n, id, "stopped", batch(id)),
                                      id, batch(id), "timer"), {})
    BY <1>12 DEF prepareTimerSends
  <2> DEFINE n1 == withTimer(n, id, "stopped", batch(id))
  <2>2. batch(id) \in Digests
    BY <1>1 DEF Node, FastTimer
  <2>3. Backed(Ballots, id, batch(id))
    BY <1>1, <2>1 DEF Sound
  <2>4. Moves(n, n1, Ballots) /\ Votes(n1, Ballots) = Ballots
    BY <1>1, <2>2, withTimerMoves
  <2>5. n1 \in Node /\ Sound(n1, Ballots)
    BY <2>4 DEF Moves
  <2>6. Follows(n, n1, Ballots, D)
    BY <1>1, <2>1, <2>5, withTimerFollows
  <2>7. /\ Step(r, sendPrepareQc(n1, id, batch(id), "timer"), {})
        /\ "signed" \in DOMAIN n1 /\ n1.signed = n.signed
    BY <1>2, <2>1 DEF withTimer
  <2> HIDE DEF n1, batch
  <2>8. Recorded(n1, Ballots, D)
    BY <2>6 DEF Follows, Extends
  <2>9. Follows(n1, sendPrepareQc(n1, id, batch(id), "timer"), Ballots, D)
    BY <2>2, <2>3, <2>4, <2>5, <2>8, sendPrepareQcFollows DEF Stamps
  <2>10. Follows(n, sendPrepareQc(n1, id, batch(id), "timer"), Ballots, D)
    BY <1>1, <2>6, <2>9, FollowsTrans
  <2>11. proposal' = proposal
    BY <1>12 DEF prepareTimerSends
  <2>12. VotesOnce(n, sendPrepareQc(n1, id, batch(id), "timer"))
    BY <2>7, sendPrepareQcLeaves DEF Leaves, VotesOnce
  <2> QED  BY <2>7, <2>10, <2>11, <2>12
<1> QED  BY <1>3, <1>4, <1>5, <1>6, <1>7, <1>8, <1>9, <1>10, <1>11, <1>12
         DEF Receive

\* Records bear with more proposals.
LEMMA RecordsMono ==
    ASSUME NEW D, NEW D2, D \subseteq D2, Records(D)
    PROVE  Records(D2)
<1>1. \A r \in Correct : Recorded(node[r], Ballots, D2)
  BY RecordedMono DEF Records
<1> QED  BY <1>1 DEF Records, Truthful

\* The proposer's only step that is seen outside, at the end of
\* broadcastPrePrepareMsg (core.go): a new proposal under the next number.
LEMMA ProposalExtends ==
    ASSUME Inv, NEW D, Records(D), NEW b \in Batches, broadcastPrePrepareMsg(b)
    PROVE  LET r == Holder[b]
               id == <<node[r].nextSN, proposal[b].view>>
           IN  /\ r \in Correct /\ id \in Ids
               /\ \E n : /\ Extends(node[r], n, Ballots, D \cup {<<id, b>>})
                         /\ n.signed = node[r].signed
                         /\ n.executed = node[r].executed
                         /\ n.nextSN = node[r].nextSN + 1
                         /\ n.prepareTimer = [node[r].prepareTimer EXCEPT
                              ![id] = [pc |-> "running", batch |-> b]]
                         /\ Step(r, n, {})
<1> DEFINE r == Holder[b]
           n == node[r]
           id == <<n.nextSN, proposal[b].view>>
           ppm == [type |-> "PrePrepare", from |-> n.replicaId, sn |-> id[1],
                   view |-> id[2], digest |-> b]
           n1 == [n EXCEPT !.nextSN = @ + 1]
           n2 == withTimer(n1, id, "running", b)
           n3 == broadcast(n2, ppm)
           D2 == D \cup {<<id, b>>}
<1>1. n.nextSN \in SNs /\ Step(r, n3, {}) /\ r \in Correct
  BY DEF broadcastPrePrepareMsg, Stage, Running
<1>2. /\ r \in Replicas /\ n \in Node /\ n.replicaId = r
      /\ Sound(n, Ballots) /\ Votes(n, Ballots) = Ballots
      /\ Recorded(n, Ballots, D)
  BY <1>1, CorrectNode DEF Records
<1>3. proposal[b].view \in Views
  BY DEF Inv, TypeOK, Proposal
<1>4. id \in Ids /\ id[1] = n.nextSN /\ id[2] = proposal[b].view
  BY <1>1, <1>3 DEF Ids
<1>5. /\ ppm \in Message /\ ppm.type = "PrePrepare"
      /\ MsgSound(ppm, Votes(n2, Ballots))
  BY <1>1, <1>2, <1>3 DEF Message, PrePrepareMsg, MsgSound
<1>6. <<<<ppm.sn, ppm.view>>, ppm.digest>> \in D2
  BY <1>4
<1>7. /\ n1.replicaId = n.replicaId
      /\ n1.viewChangeSeqNumber = n.viewChangeSeqNumber
      /\ n1.nextSN = n.nextSN + 1 /\ n1.prepareTimer = n.prepareTimer
      /\ n1.currenView = n.currenView /\ n1.activeView = n.activeView
      /\ n1.cert = n.cert
      /\ n1.execReqBuffer = n.execReqBuffer /\ n1.executed = n.executed
      /\ n1.lastExec = n.lastExec /\ n1.signed = n.signed /\ n1.out = n.out
  BY <1>2 DEF Node
<1>8. n1 \in Node /\ Sound(n1, Ballots)
  BY <1>2, nextSNMoves DEF Moves
<1> HIDE DEF ppm, id, n1
<1>9. /\ n2.replicaId = n1.replicaId
      /\ n2.viewChangeSeqNumber = n1.viewChangeSeqNumber
      /\ n2.nextSN = n1.nextSN
      /\ n2.prepareTimer = [n1.prepareTimer EXCEPT
                              ![id] = [pc |-> "running", batch |-> b]]
      /\ n2.currenView = n1.currenView /\ n2.activeView = n1.activeView
      /\ n2.cert = n1.cert
      /\ n2.execReqBuffer = n1.execReqBuffer /\ n2.executed = n1.executed
      /\ n2.lastExec = n1.lastExec /\ n2.signed = n1.signed
      /\ n2.out = n1.out
  BY <1>8 DEF Node, withTimer
<1>10. n2 \in Node /\ Sound(n2, Ballots)
  <2>1. b \in Digests
    BY DEF Digests
  <2> QED  BY <1>4, <1>8, <2>1, withTimerMoves DEF Moves
<1> HIDE DEF n2
<1>11. /\ n3.replicaId = n2.replicaId
       /\ n3.viewChangeSeqNumber = n2.viewChangeSeqNumber
       /\ n3.nextSN = n2.nextSN /\ n3.prepareTimer = n2.prepareTimer
       /\ n3.currenView = n2.currenView /\ n3.activeView = n2.activeView
       /\ n3.cert = n2.cert
       /\ n3.execReqBuffer = n2.execReqBuffer /\ n3.executed = n2.executed
       /\ n3.lastExec = n2.lastExec /\ n3.signed = n2.signed
       /\ n3.out = n2.out \cup {<<Replicas, ppm>>}
  BY <1>10 DEF Node, broadcast
<1>12. n3 \in Node
  BY <1>5, <1>10, broadcastMoves DEF Moves
<1> HIDE DEF n3, D2
<1>13. Recorded(n, Ballots, D2)
  BY <1>2, RecordedMono DEF D2
<1>14. \A p \in n3.out : p \in n.out \/ Truthful(n, p[2], D2)
  BY <1>5, <1>6, <1>7, <1>9, <1>11 DEF Truthful
<1>15. Extends(n, n3, Ballots, D2)
  <2>1. /\ n3.replicaId = n.replicaId
        /\ n3.viewChangeSeqNumber = n.viewChangeSeqNumber
        /\ n3.currenView = n.currenView /\ n3.activeView = n.activeView
        /\ n3.cert = n.cert /\ n3.execReqBuffer = n.execReqBuffer
        /\ n3.executed = n.executed /\ n3.lastExec = n.lastExec
        /\ n3.signed = n.signed
    BY <1>7, <1>9, <1>11
  <2> QED  BY <1>2, <1>12, <1>13, <1>14, <2>1, FrameExtends
<1> QED  BY <1>1, <1>4, <1>7, <1>9, <1>11, <1>15 DEF D2, id

\* The records of the nodes that NewNode creates are empty.
LEMMA InitRecords ==
    ASSUME Init, NEW D
    PROVE  Records(D)
<1> SUFFICES ASSUME NEW r \in Correct PROVE Recorded(node[r], Ballots, D)
  BY DEF Records, Init
<1> DEFINE n == node[r]
<1>1. /\ n.activeView = TRUE /\ n.currenView = 0 /\ n.lastExec = 0
      /\ n.cert = [id \in Ids |-> EmptyCert]
      /\ n.execReqBuffer = [sn \in SNs |-> Nil]
      /\ n.executed = [sn \in SNs |-> Nil] /\ n.signed = {}
  BY DEF Init, NewNode, Correct
<1> HIDE DEF n
<1>2. /\ EmptyCert.prepareQc = Nil /\ EmptyCert.fastPrepareQc = Nil
      /\ EmptyCert.reqBatchDigest = Nil
      /\ EmptyCert.reqBatchStage # "prepared"
  BY DEF EmptyCert
<1>3. \A id \in Ids : /\ Filed(id, n.cert[id], Ballots)
                      /\ n.cert[id].reqBatchDigest = Nil
  BY <1>1, <1>2 DEF Filed
<1>4. \A sn \in SNs : ~(sn <= n.lastExec)
  BY <1>1 DEF SNs
<1>5. n.lastExec <= MaxSN
  BY <1>1, ParameterAssumption
<1>6. Recorded(n, Ballots, D)
  BY <1>1, <1>3, <1>4, <1>5 DEF Recorded
<1> QED  BY <1>6 DEF n

\* Every step keeps the records good, whatever is proposed.
LEMMA NextRecords ==
    Inv /\ Records(Everything) /\ [Next]_vars => Records(Everything)'
<1> SUFFICES ASSUME Inv, Records(Everything), [Next]_vars
             PROVE  Records(Everything)'
  OBVIOUS
<1> DEFINE D == Everything
<1>1. TypeOK
  BY DEF Inv
<1>2. ASSUME UNCHANGED <<node, net>> PROVE Records(Everything)'
  <2>1. Ballots' = Ballots
    BY <1>2 DEF Ballots
  <2> QED  BY <1>2, <2>1 DEF Records, Truthful, Reported
<1>3. ASSUME NEW b \in Batches, broadcastPrePrepareMsg(b)
      PROVE  Records(Everything)'
  <2> DEFINE r == Holder[b]
             id == <<node[r].nextSN, proposal[b].view>>
             D2 == D \cup {<<id, b>>}
  <2>1. /\ r \in Correct /\ id \in Ids
        /\ \E n : Extends(node[r], n, Ballots, D2) /\ Step(r, n, {})
    BY <1>3, ProposalExtends
  <2>2. D2 = D
    BY <2>1 DEF Everything
  <2> HIDE DEF r, D, D2
  <2>3. PICK n : Extends(node[r], n, Ballots, D) /\ Step(r, n, {})
    BY <2>1, <2>2
  <2> QED  BY <1>1, <2>1, <2>3, StepRecords DEF D
<1>4. ASSUME NEW r \in Correct,
             \/ Receive(r) \/ goCheckIfPrepared(r)
             \/ prepareTimerFires(r) \/ prepareTimerSends(r)
      PROVE  Records(Everything)'
  <2>1. PICK n, received : /\ Follows(node[r], n, Ballots, D)
                           /\ Step(r, n, received)
    BY <1>4, CodeFollows
  <2> HIDE DEF D
  <2>2. Extends(node[r], n, Ballots, D)
    BY <2>1 DEF Follows
  <2> QED  BY <1>1, <2>1, <2>2, StepRecords DEF D
<1>5. CASE UNCHANGED vars
  BY <1>2, <1>5 DEF vars
<1>6. ASSUME NEW b \in Batches, Propose(b) PROVE Records(Everything)'
  BY <1>2, <1>3, <1>6 DEF Propose, sendBatch, checkProposalWindow,
                          createPrePrepareMsg
<1> QED  BY <1>4, <1>5, <1>6 DEF Next
-----------------------------------------------------------------------------
(***************************************************************************)
(* Theorems.                                                               *)
(***************************************************************************)
\* In every state the records of a replica are good: what it executes, buffers,
\* votes for and reports comes from batches and certificates it has stored.
THEOREM RecordsKept == Spec => [](Inv /\ Records(Everything))
<1>1. Init => Inv /\ Records(Everything)
  BY InitInv, InitRecords
<1>2. Inv /\ Records(Everything) /\ [Next]_vars => (Inv /\ Records(Everything))'
  BY NextInv, NextRecords
<1> QED  BY <1>1, <1>2, PTL DEF Spec

\* What sendViewChange reports stays the truth about the replica as long as it is
\* in the view it leads to, whatever its goroutines still execute.
THEOREM ReportsStayTrue == Spec => []ViewChangeReports
<1>1. ASSUME Inv, Records(Everything) PROVE ViewChangeReports
  <2> SUFFICES ASSUME NEW x \in net, x[2].type = "ViewChange",
                      x[2].view = node[x[2].from].currenView,
                      NEW sn \in SNs, sn > x[2].lastStableCk
               PROVE  LET vc == x[2]
                          n == node[vc.from]
                      IN  /\ n.executed[sn] # Nil =>
                               \E view \in Views :
                                  <<<<sn, view>>, n.executed[sn]>> \in vc.pset
                          /\ \A view \in Views :
                               n.cert[<<sn, view>>].prepareQc
                                 \in vc.qset \cup {Nil}
    BY DEF ViewChangeReports
  <2> DEFINE vc == x[2]
             n == node[vc.from]
  <2>1. /\ vc.from \in Correct
        /\ \A id \in Ids : id[1] > vc.lastStableCk =>
                             Reported(id, n.cert[id], vc)
    BY <1>1 DEF Records, Truthful
  <2>2. \A view \in Views : /\ <<sn, view>> \in Ids
                            /\ Reported(<<sn, view>>, n.cert[<<sn, view>>], vc)
    BY <2>1 DEF Ids
  <2>3. n.executed[sn] # Nil => Justified(n, sn, n.executed[sn])
    BY <1>1, <2>1 DEF Records, Recorded
  <2> HIDE DEF vc, n
  <2>4. n.executed[sn] # Nil =>
          \E view \in Views : <<<<sn, view>>, n.executed[sn]>> \in vc.pset
    BY <2>2, <2>3 DEF Justified, Reported
  <2>5. \A view \in Views : n.cert[<<sn, view>>].prepareQc \in vc.qset \cup {Nil}
    BY <2>2 DEF Reported
  <2> QED  BY <2>4, <2>5 DEF vc, n
<1> QED  BY <1>1, RecordsKept, PTL

\* Nothing beyond the planned change of primary is executed or voted for in the
\* first view, whatever pre-prepares are sent: handlePrePrepareMsg takes none.
THEOREM SwitchIsABound == Spec => []NothingBeyondSwitch
<1>1. ASSUME Inv, Records(Everything) PROVE NothingBeyondSwitch
  <2> SUFFICES ASSUME AutoViewChange, NEW r \in Correct, NEW sn \in SNs,
                      sn > node[r].viewChangeSeqNumber
               PROVE  /\ node[r].executed[sn] = Nil
                      /\ \A b \in Batches : <<<<sn, 0>>, b>> \notin node[r].signed
    BY DEF NothingBeyondSwitch
  <2>1. Recorded(node[r], Ballots, Everything) /\ Sound(node[r], Ballots)
    BY <1>1, CorrectNode DEF Records
  <2>2. ASSUME NEW view \in Views
        PROVE  node[r].cert[<<sn, view>>].reqBatchDigest = Nil
    <3>1. <<sn, view>> \in Ids /\ <<sn, view>>[1] = sn
      BY DEF Ids
    <3>2. BeyondSwitch(node[r], sn)
      BY DEF BeyondSwitch
    <3> QED  BY <2>1, <3>1, <3>2 DEF Recorded
  <2>3. node[r].executed[sn] = Nil
    BY <2>1, <2>2 DEF Recorded, Justified
  <2>4. ASSUME NEW b \in Batches, <<<<sn, 0>>, b>> \in node[r].signed
        PROVE  FALSE
    <3>1. node[r].cert[<<sn, 0>>].reqBatchDigest = b /\ b # Nil
      BY <2>1, <2>4, BatchAssumption DEF Sound
    <3>2. 0 \in Views
      BY ParameterAssumption DEF Views
    <3> QED  BY <2>2, <3>1, <3>2
  <2> QED  BY <2>3, <2>4
<1> QED  BY <1>1, RecordsKept, PTL
=============================================================================
