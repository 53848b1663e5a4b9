----------------------------- MODULE NormalCase -----------------------------
(***************************************************************************)
(* The normal case of Trebiz (core/core.go and the parts of core/node.go   *)
(* and core/viewchange.go it calls): a primary numbers batches, collects   *)
(* prepare votes into a fast or a slow certificate and, on the slow path,  *)
(* commit votes into a second one; replicas execute certified batches in   *)
(* order, exchange checkpoints and leave the view when they distrust the   *)
(* primary or reach the number of the planned primary change.  What        *)
(* happens to a view-change message after it is sent is not part of this   *)
(* module.                                                                 *)
(*                                                                         *)
(* The handlers are operators from the Node struct before the call to the  *)
(* Node struct after it, named after the Go methods.  The messages a       *)
(* handler sends are collected in the field out, and Step puts them on the *)
(* network.  The consumer loop StartPBFT runs one handler at a time; the   *)
(* goroutines that run next to it are actions of their own.                *)
(***************************************************************************)
EXTENDS Quorums, FiniteSets, TLC

CONSTANTS
    N,              \* len(clusterAddr)
    Abm, Pbm,       \* abmnum and pbmnum of the configuration template
    Faulty,         \* replicas that run other code, or none
    Forgeable,      \* what they send, to whom, when they have the signatures
    Omitting,       \* replicas with nodeType # cn: they may skip any send
    Batches, Nil,   \* batches stand for their hashes; Nil is an empty hash
    Holder,         \* the replica whose pool each batch is taken from
    T, K,           \* checkpoint period and width of the watermark window
    AutoViewChange, \* autoViewChange == 1
    FastTimeout,    \* fastTimeout may pass before the votes are in
    MaxSN, MaxView  \* bounds: the largest number, the first view not entered

Replicas == 0..N-1
Correct  == Replicas \ Faulty
SNs      == 1..MaxSN
Views    == 0..MaxView
Ids      == SNs \X Views          \* MsgId
Digests  == Batches \cup {Nil}

\* The cluster has 3f+1 replicas; config_gen refuses more than f faulty ones.
ASSUME ClusterAssumption ==
    /\ N \in Nat /\ N % 3 = 1
    /\ Abm \in Nat /\ Pbm \in Nat /\ Abm + Pbm <= F(N)
    /\ Faulty \subseteq Replicas /\ Cardinality(Faulty) <= F(N)
    /\ Omitting \subseteq Replicas

ASSUME BatchAssumption == Nil \notin Batches /\ Holder \in [Batches -> Replicas]

ASSUME ParameterAssumption ==
    /\ T \in Nat \ {0} /\ K \in Nat \ {0} /\ AutoViewChange \in BOOLEAN
    /\ FastTimeout \in BOOLEAN
    /\ MaxSN \in Nat \ {0} /\ MaxView \in Nat \ {0}

VARIABLES
    node,     \* node[r] is the Node struct of replica r
    net,      \* messages under way, as pairs of destination and message
    proposal  \* where each batch is between the pool and its pre-prepare

vars == <<node, net, proposal>>

\* A batch and the goroutine of broadcastPrePrepareMsg that proposes it.
Proposal == [pc : {"pooled", "spawned", "checked", "created", "proposed",
                   "dropped"},
             view : Views]
-----------------------------------------------------------------------------
(***************************************************************************)
(* Messages.  A pre-prepare or a vote carries the hash of its batch.  Two  *)
(* PrepareQcs of the same vote differ in TimeStamp, and commit votes are   *)
(* signatures of the whole PrepareQc: stamp tells apart the one made by    *)
(* the vote handler and the one made by the fast-path timer.               *)
(***************************************************************************)
Stamps == {"handler", "timer"}

PrePrepareMsg == [type : {"PrePrepare"}, from : Replicas, sn : SNs,
                  view : Views, digest : Batches]
PrepareMsg    == [type : {"Prepare"}, from : Replicas, sn : SNs,
                  view : Views, digest : Digests]
PrepareQc     == [type : {"PrepareQc"}, from : Replicas, sn : SNs,
                  view : Views, digest : Digests, stamp : Stamps]
FastPrepareQc == [type : {"FastPrepareQc"}, from : Replicas, sn : SNs,
                  view : Views, digest : Digests]
CommitMsg     == [type : {"Commit"}, from : Replicas, vote : PrepareQc]
CommitQc      == [type : {"CommitQc"}, from : Replicas, vote : PrepareQc]
CheckpointMsg == [type : {"Checkpoint"}, from : Replicas, sn : SNs]
ViewChangeMsg == [type : {"ViewChange"}, from : Replicas, view : Views,
                  lastStableCk : {0} \cup SNs,
                  pset : SUBSET (Ids \X Batches), qset : SUBSET PrepareQc]

Message == PrePrepareMsg \cup PrepareMsg \cup PrepareQc \cup FastPrepareQc
           \cup CommitMsg \cup CommitQc \cup CheckpointMsg \cup ViewChangeMsg

ASSUME ForgeableAssumption ==
    /\ Forgeable \subseteq Correct \X Message
    /\ \A x \in Forgeable : x[2].from \in Faulty

(***************************************************************************)
(* The per-request certificate MsgCert.  prePrepareStore is set together   *)
(* with reqBatchDigest, which stands for both.  qcSent is a history of the *)
(* certificates sent under prepareQcStage.                                 *)
(***************************************************************************)
MsgCert == [reqBatchStage : {"received", "prepared", "committed"},
            reqBatchDigest : Digests,
            prepareQc : PrepareQc \cup {Nil},
            fastPrepareQc : FastPrepareQc \cup {Nil},
            prepareQcStage : BOOLEAN,
            commitQc : CommitQc \cup {Nil},
            commitQcStage : BOOLEAN,
            prePareStore : SUBSET Replicas,
            partialSigInPrepare : SUBSET (Replicas \X Digests),
            partialSigInCommit : SUBSET (Replicas \X PrepareQc),
            qcSent : SUBSET (Stamps \cup {"fast"})]

\* getCert creates this certificate; received is the zero value of the stage.
EmptyCert == [reqBatchStage |-> "received", reqBatchDigest |-> Nil,
              prepareQc |-> Nil, fastPrepareQc |-> Nil,
              prepareQcStage |-> FALSE, commitQc |-> Nil,
              commitQcStage |-> FALSE, prePareStore |-> {},
              partialSigInPrepare |-> {}, partialSigInCommit |-> {},
              qcSent |-> {}]

(***************************************************************************)
(* The fast-path timer of a proposal: running, then (its goroutine having  *)
(* set stop and found a slow quorum and no certificate sent) checked, then *)
(* stopped.  batch is the hash its closure captured.                       *)
(***************************************************************************)
FastTimer == [pc : {"none", "running", "checked", "stopped"}, batch : Digests]

(***************************************************************************)
(* The Node struct.  fastChecks are the Ids of the goroutines started by   *)
(* handleFastPrepareQc that have not run yet; executed is a history of     *)
(* what was executed under each number, signed and signedCommits are       *)
(* histories of the partial signatures produced.                           *)
(***************************************************************************)
Node == [replicaId : Replicas, currenView : Views, activeView : BOOLEAN,
         viewChangeSeqNumber : Nat, nextSN : Nat, h : {0} \cup SNs,
         lastExec : Nat, cert : [Ids -> MsgCert],
         prepareTimer : [Ids -> FastTimer],
         execReqBuffer : [SNs -> Digests],
         checkpointStore : [SNs -> SUBSET Replicas],
         fastChecks : SUBSET Ids, panicked : BOOLEAN,
         executed : [SNs -> Digests],
         signed : SUBSET (Ids \X Digests), signedCommits : SUBSET PrepareQc,
         out : SUBSET ((SUBSET Replicas) \X Message)]

NewNode(r) ==
    [replicaId |-> r, currenView |-> 0, activeView |-> TRUE,
     viewChangeSeqNumber |-> T + T \div 2, nextSN |-> 1, h |-> 0,
     lastExec |-> 0, cert |-> [id \in Ids |-> EmptyCert],
     prepareTimer |-> [id \in Ids |-> [pc |-> "none", batch |-> Nil]],
     execReqBuffer |-> [sn \in SNs |-> Nil],
     checkpointStore |-> [sn \in SNs |-> {}],
     fastChecks |-> {}, panicked |-> FALSE,
     executed |-> [sn \in SNs |-> Nil],
     signed |-> {}, signedCommits |-> {}, out |-> {}]
-----------------------------------------------------------------------------
(***************************************************************************)
(* Helpers of the Node methods.                                            *)
(***************************************************************************)
Primary(view) == view % N

\* The subtraction of inWatermarks is unsigned: a number below h wraps to one
\* far above K.
inWatermarks(n, sn) == sn - n.h \in 1..K

\* getCert returns a pointer into reqCertStore: what is assigned to the
\* certificate is assigned to the node.
withCert(n, id, cert) == [n EXCEPT !.cert[id] = cert]

\* Mutant: a timer that is done is taken out of prepareTimer.
withTimer_Forgets(n, id, pc, batch) ==
    [n EXCEPT !.prepareTimer[id] =
       [pc |-> IF pc = "stopped" THEN "none" ELSE pc, batch |-> batch]]

withTimer(n, id, pc, batch) ==
    [n EXCEPT !.prepareTimer[id] = [pc |-> pc, batch |-> batch]]

broadcast(n, m) == [n EXCEPT !.out = @ \cup {<<Replicas, m>>}]

sendToLeader(n, m) ==
    [n EXCEPT !.out = @ \cup {<<{Primary(n.currenView)}, m>>}]

\* Mutant: calPQset starts above lastExec instead of h.
ReportedIds_Unexecuted(n) == {id \in Ids : id[1] > n.lastExec}

\* Mutant: only requests that have reached the prepared stage are reported.
ReportedIds_Prepared(n) ==
    {id \in Ids : id[1] > n.h /\ n.cert[id].reqBatchStage # "received"}

\* calPQset keeps one entry per number; which one, when a number was used in
\* several views, depends on the map's iteration order.  The message carries
\* all of them.
ReportedIds(n) == {id \in Ids : id[1] > n.h}

sendViewChange(n) ==
    LET vc == [type |-> "ViewChange", from |-> n.replicaId,
               view |-> n.currenView + 1, lastStableCk |-> n.h,
               pset |-> {p \in ReportedIds(n) \X Batches :
                           p[2] = n.cert[p[1]].reqBatchDigest},
               qset |-> {n.cert[id].prepareQc : id \in ReportedIds(n)} \ {Nil}]
    IN  broadcast([n EXCEPT !.currenView = @ + 1, !.activeView = FALSE], vc)

(***************************************************************************)
(* Execution.  checkpoint runs in goroutines, which only broadcast.        *)
(***************************************************************************)
\* Mutant: the loop goes over gaps in the buffer.
ExecutionRun_Gaps(n, sn, buffer) ==
    {i \in SNs : n.lastExec < sn /\ n.lastExec < i /\ buffer[i] # Nil}

\* Mutant: no loop, only the request that was just committed is executed.
ExecutionRun_Single(n, sn, buffer) ==
    {i \in SNs : i = sn /\ i = n.lastExec + 1 /\ buffer[i] # Nil}

\* The numbers the loop of executeRequest goes through, called with number sn.
ExecutionRun(n, sn, buffer) ==
    {i \in SNs : /\ n.lastExec < sn /\ n.lastExec < i
                 /\ \A k \in (n.lastExec + 1)..i : buffer[k] # Nil}

\* Mutant: the remainder is compared with the wrong end of the period.
checkIfCreateChkpt_OffByOne(sn) == sn % T = 1

checkIfCreateChkpt(sn) == sn % T = 0

executeRequest(n, id) ==
    LET buffer == [n.execReqBuffer EXCEPT ![id[1]] = n.cert[id].reqBatchDigest]
        run == ExecutionRun(n, id[1], buffer)
        chkpts == {[type |-> "Checkpoint", from |-> n.replicaId, sn |-> i] :
                     i \in {j \in run : checkIfCreateChkpt(j)}}
        done == [n EXCEPT
            !.execReqBuffer = buffer,
            !.lastExec = @ + Cardinality(run),
            !.executed = [i \in SNs |-> IF i \in run THEN buffer[i] ELSE @[i]],
            !.out = @ \cup {<<Replicas, c>> : c \in chkpts}]
    IN  IF AutoViewChange /\ n.viewChangeSeqNumber \in run
        THEN sendViewChange(done)
        ELSE done

\* A CommitQc verifies against the PrepareQc its votes signed.
checkIfCommitted(n, id) ==
    LET cert == n.cert[id]
    IN  IF /\ cert.reqBatchStage = "prepared"
           /\ cert.commitQc # Nil /\ cert.commitQc.vote = cert.prepareQc
        THEN executeRequest(
                withCert(n, id, [cert EXCEPT !.reqBatchStage = "committed"]), id)
        ELSE n

\* Mutant: a CommitQc that came before the prepared stage is forgotten.
checkIfPrepared_NoRecheck(n, id) ==
    LET cert == n.cert[id]
    IN  IF cert.reqBatchStage = "received" /\ cert.fastPrepareQc # Nil
        THEN executeRequest(
                withCert(n, id, [cert EXCEPT !.reqBatchStage = "committed"]), id)
        ELSE IF cert.reqBatchStage = "received" /\ cert.prepareQc # Nil
        THEN withCert(n, id, [cert EXCEPT !.reqBatchStage = "prepared"])
        ELSE n

checkIfPrepared(n, id) ==
    LET cert == n.cert[id]
    IN  IF cert.reqBatchStage = "received" /\ cert.fastPrepareQc # Nil
        THEN executeRequest(
                withCert(n, id, [cert EXCEPT !.reqBatchStage = "committed"]), id)
        ELSE IF cert.reqBatchStage = "received" /\ cert.prepareQc # Nil
        THEN checkIfCommitted(
                withCert(n, id, [cert EXCEPT !.reqBatchStage = "prepared"]), id)
        ELSE n

(***************************************************************************)
(* Prepare votes.                                                          *)
(***************************************************************************)
createPrepareMsg(n, sn) ==
    [type |-> "Prepare", from |-> n.replicaId, sn |-> sn, view |-> n.currenView,
     digest |-> n.cert[<<sn, n.currenView>>].reqBatchDigest]

\* The partial signature createPrepareMsg produces.
Sign(n, pm) == [n EXCEPT !.signed = @ \cup {<<<<pm.sn, pm.view>>, pm.digest>>}]

\* Mutant: shares are counted per request, whatever was signed.
Signers_AnyDigest(sigs, what) == {sig[1] : sig \in sigs}

Signers(sigs, what) == {r \in Replicas : <<r, what>> \in sigs}

\* createPrepareQc and the broadcast of its result.
sendPrepareQc(n, id, digest, stamp) ==
    broadcast(withCert(n, id, [n.cert[id] EXCEPT !.prepareQcStage = TRUE,
                                                 !.qcSent = @ \cup {stamp}]),
              [type |-> "PrepareQc", from |-> n.replicaId, sn |-> id[1],
               view |-> id[2], digest |-> digest, stamp |-> stamp])

sendFastPrepareQc(n, id, digest) ==
    broadcast(withCert(n, id, [n.cert[id] EXCEPT !.prepareQcStage = TRUE,
                                                 !.qcSent = @ \cup {"fast"}]),
              [type |-> "FastPrepareQc", from |-> n.replicaId, sn |-> id[1],
               view |-> id[2], digest |-> digest])

\* Mutant: the primary counts its own vote a second time.
PrepareQcReady_CountsTwice(n, id, digest, quorum) ==
    /\ Cardinality(Signers(n.cert[id].partialSigInPrepare, digest)) + 1 >= quorum
    /\ ~n.cert[id].prepareQcStage

PrepareQcReady(n, id, digest, quorum) ==
    /\ Cardinality(Signers(n.cert[id].partialSigInPrepare, digest)) >= quorum
    /\ ~n.cert[id].prepareQcStage

\* stop is what the handler reads of the timer's flag.  A vote for a request
\* this replica has not proposed finds no timer: a nil dereference.
handlePrepareVote(n, pm, stop) ==
    LET id == <<pm.sn, pm.view>>
        n1 == withCert(n, id, [n.cert[id] EXCEPT !.partialSigInPrepare =
                                 @ \cup {<<pm.from, pm.digest>>}])
    IN  IF n.prepareTimer[id].pc = "none" THEN [n1 EXCEPT !.panicked = TRUE]
        ELSE IF ~stop /\ PrepareQcReady(n1, id, pm.digest, FastQuorum(N, Abm, Pbm))
        THEN sendFastPrepareQc(n1, id, pm.digest)
        ELSE IF stop /\ PrepareQcReady(n1, id, pm.digest, SlowQuorum(N))
        THEN sendPrepareQc(n1, id, pm.digest, "handler")
        ELSE n1

\* The vote is looked up under the current view and counted under its own.
handlePrepareMsg(n, pm, stop) ==
    LET id == <<pm.sn, n.currenView>>
    IN  IF /\ n.activeView /\ inWatermarks(n, pm.sn)
           /\ pm.from \notin n.cert[id].prePareStore
        THEN handlePrepareVote(
                withCert(n, id, [n.cert[id] EXCEPT !.prePareStore =
                                   @ \cup {pm.from}]), pm, stop)
        ELSE n

(***************************************************************************)
(* Pre-prepares.                                                           *)
(***************************************************************************)
\* Mutant: a second pre-prepare of a request replaces the first.
DistrustsPrePrepare_NoConflict(n, ppm) ==
    \/ AutoViewChange /\ ppm.sn > n.viewChangeSeqNumber
    \/ ppm.from # Primary(n.currenView)

\* Mutant: pre-prepares beyond the planned switch are taken.
DistrustsPrePrepare_NoSwitch(n, ppm) ==
    \/ ppm.from # Primary(n.currenView)
    \/ /\ inWatermarks(n, ppm.sn)
       /\ n.cert[<<ppm.sn, ppm.view>>].reqBatchDigest \notin {Nil, ppm.digest}

DistrustsPrePrepare(n, ppm) ==
    \/ AutoViewChange /\ ppm.sn > n.viewChangeSeqNumber
    \/ ppm.from # Primary(n.currenView)
    \/ /\ inWatermarks(n, ppm.sn)
       /\ n.cert[<<ppm.sn, ppm.view>>].reqBatchDigest \notin {Nil, ppm.digest}

\* sendPrepareMsg, or its replacement at the primary, which votes in place.
CastVote(n, sn, stop) ==
    LET pm == createPrepareMsg(n, sn)
    IN  IF n.replicaId # Primary(n.currenView)
        THEN sendToLeader(Sign(n, pm), pm)
        ELSE handlePrepareMsg(Sign(n, pm), pm, stop)

handlePrePrepareMsg(n, ppm, stop) ==
    LET id == <<ppm.sn, ppm.view>>
        stored == withCert(n, id, [n.cert[id] EXCEPT
                                     !.reqBatchStage = "received",
                                     !.reqBatchDigest = ppm.digest])
    IN  IF ~n.activeView THEN n
        ELSE IF DistrustsPrePrepare(n, ppm) THEN sendViewChange(n)
        ELSE IF inWatermarks(n, ppm.sn)
        THEN CastVote(checkIfPrepared(stored, id), ppm.sn, stop)
        ELSE n

(***************************************************************************)
(* Certificates and commit votes.                                          *)
(***************************************************************************)
\* The vote goes to the primary of the view the replica is in by then.
sendCommitMsg(n, pqc) ==
    sendToLeader([n EXCEPT !.signedCommits = @ \cup {pqc}],
                 [type |-> "Commit", from |-> n.replicaId, vote |-> pqc])

handlePrepareQc(n, pqc) ==
    LET id == <<pqc.sn, pqc.view>>
    IN  IF ~n.activeView \/ ~inWatermarks(n, pqc.sn) THEN n
        ELSE IF pqc.from # Primary(n.currenView) THEN sendViewChange(n)
        ELSE IF n.cert[id].prepareQc # Nil THEN n
        ELSE sendCommitMsg(
                checkIfPrepared(
                   withCert(n, id, [n.cert[id] EXCEPT !.prepareQc = pqc]), id),
                pqc)

\* Neither the view's state nor the watermarks are checked here.
handleFastPrepareQc(n, fpqc) ==
    LET id == <<fpqc.sn, fpqc.view>>
    IN  IF fpqc.from = Primary(n.currenView) /\ n.cert[id].fastPrepareQc = Nil
        THEN withCert([n EXCEPT !.fastChecks = @ \cup {id}], id,
                      [n.cert[id] EXCEPT !.fastPrepareQc = fpqc])
        ELSE n

handleCommitMsg(n, cm) ==
    LET id == <<cm.vote.sn, cm.vote.view>>
        cert == [n.cert[id] EXCEPT !.partialSigInCommit =
                   @ \cup {<<cm.from, cm.vote>>}]
        cqc == [type |-> "CommitQc", from |-> n.replicaId, vote |-> cm.vote]
    IN  IF \/ ~n.activeView \/ ~inWatermarks(n, cm.vote.sn)
           \/ \E sig \in n.cert[id].partialSigInCommit : sig[1] = cm.from
        THEN n
        ELSE IF /\ Cardinality(Signers(cert.partialSigInCommit, cm.vote))
                     >= SlowQuorum(N)
                /\ ~cert.commitQcStage
        THEN broadcast(withCert(n, id, [cert EXCEPT !.commitQcStage = TRUE]), cqc)
        ELSE withCert(n, id, cert)

\* The CommitQc is stored before it is verified.
handleCommitQc(n, cqc) ==
    LET id == <<cqc.vote.sn, cqc.vote.view>>
    IN  IF ~n.activeView \/ ~inWatermarks(n, cqc.vote.sn) THEN n
        ELSE IF cqc.from # Primary(n.currenView) THEN sendViewChange(n)
        ELSE IF n.cert[id].commitQc # Nil THEN n
        ELSE checkIfCommitted(
                withCert(n, id, [n.cert[id] EXCEPT !.commitQc = cqc]), id)

\* Mutant: the low watermark is set to the high one.
moveWatermarks_HighMark(n, sn) == [n EXCEPT !.h = sn + K]

moveWatermarks(n, sn) == [n EXCEPT !.h = sn]

\* Mutant: f checkpoints make a stable one.
recvCheckpoint_WeakQuorum(n, chkpt) ==
    LET store == n.checkpointStore[chkpt.sn] \cup {chkpt.from}
        n1 == [n EXCEPT !.checkpointStore[chkpt.sn] = store]
    IN  IF ~inWatermarks(n, chkpt.sn) THEN n
        ELSE IF Cardinality(store) >= F(N)
        THEN moveWatermarks(n1, chkpt.sn)
        ELSE n1

\* StateDigest is always empty: checkpoints of a number differ by sender only.
recvCheckpoint(n, chkpt) ==
    LET store == n.checkpointStore[chkpt.sn] \cup {chkpt.from}
        n1 == [n EXCEPT !.checkpointStore[chkpt.sn] = store]
    IN  IF ~inWatermarks(n, chkpt.sn) THEN n
        ELSE IF Cardinality(store) >= CheckpointQuorum(N)
        THEN moveWatermarks(n1, chkpt.sn)
        ELSE n1
-----------------------------------------------------------------------------
(***************************************************************************)
(* Steps.  A correct replica that has not panicked runs a handler and puts *)
(* its messages on the network; one that omits sends may skip some.  A     *)
(* faulty replica runs no handler: it may send any Forged message at any   *)
(* moment.                                                                 *)
(***************************************************************************)
Running(r) == r \in Correct /\ ~node[r].panicked

\* n is the expression of a handler call; after is its value.
Step(r, n, received) ==
    \E after \in {n} :
      /\ after.currenView < MaxView
      /\ \E sent \in SUBSET after.out :
           /\ r \notin Omitting => sent = after.out
           /\ net' = (net \ ({r} \X received)) \cup
                     UNION {(p[1] \cap Correct) \X {p[2]} : p \in sent}
      /\ node' = [node EXCEPT ![r] = [after EXCEPT !.out = {}]]

PrepareSigners(id, digest) ==
    Faulty \cup {r \in Correct : <<id, digest>> \in node[r].signed}

CommitSigners(pqc) == Faulty \cup {r \in Correct : pqc \in node[r].signedCommits}

\* A certificate needs its quorum of partial signatures; whatever else a faulty
\* replica sends it signs alone.
Signable(m) ==
    /\ m.type = "PrepareQc" =>
         Cardinality(PrepareSigners(<<m.sn, m.view>>, m.digest)) >= SlowQuorum(N)
    /\ m.type = "FastPrepareQc" =>
         Cardinality(PrepareSigners(<<m.sn, m.view>>, m.digest))
           >= FastQuorum(N, Abm, Pbm)
    /\ m.type = "CommitQc" => Cardinality(CommitSigners(m.vote)) >= SlowQuorum(N)

Forged == {x \in Forgeable : Signable(x[2])}

Inbox(r, type) ==
    {x[2] : x \in {y \in net \cup Forged : y[1] = r /\ y[2].type = type}}

\* What the consumer loop may read of the flag that the timer's goroutine
\* writes without synchronisation.
StopReads(n, id) ==
    IF n.prepareTimer[id].pc = "checked" THEN BOOLEAN
    ELSE {n.prepareTimer[id].pc = "stopped"}
-----------------------------------------------------------------------------
(***************************************************************************)
(* The proposer: HandleReqBatchLoop takes a batch from the pool, and the   *)
(* goroutine of broadcastPrePrepareMsg checks the window, reads the view,  *)
(* takes a number under its own lock and sends.                            *)
(***************************************************************************)
Stage(b, from, to) ==
    /\ proposal[b].pc = from
    /\ proposal' = [proposal EXCEPT ![b] = to]
    /\ Running(Holder[b])

sendBatch(b) ==
    LET n == node[Holder[b]]
        go == n.activeView /\ Primary(n.currenView) = n.replicaId
    IN  /\ Stage(b, "pooled", [pc |-> IF go THEN "spawned" ELSE "dropped",
                               view |-> 0])
        /\ UNCHANGED <<node, net>>

InProposalWindow(n) ==
    /\ inWatermarks(n, n.nextSN) /\ n.nextSN <= n.h + K \div 2
    /\ AutoViewChange => n.nextSN <= n.viewChangeSeqNumber

checkProposalWindow(b) ==
    /\ Stage(b, "spawned",
             [pc |-> IF InProposalWindow(node[Holder[b]]) THEN "checked"
                     ELSE "dropped",
              view |-> 0])
    /\ UNCHANGED <<node, net>>

createPrePrepareMsg(b) ==
    /\ Stage(b, "checked", [pc |-> "created",
                            view |-> node[Holder[b]].currenView])
    /\ UNCHANGED <<node, net>>

broadcastPrePrepareMsg(b) ==
    LET n == node[Holder[b]]
        id == <<n.nextSN, proposal[b].view>>
        ppm == [type |-> "PrePrepare", from |-> n.replicaId, sn |-> id[1],
                view |-> id[2], digest |-> b]
    IN  /\ n.nextSN \in SNs
        /\ Stage(b, "created", [pc |-> "proposed", view |-> id[2]])
        /\ Step(Holder[b],
                broadcast(withTimer([n EXCEPT !.nextSN = @ + 1], id, "running", b),
                          ppm),
                {})

(***************************************************************************)
(* The goroutine of the fast-path timer.  It sets stop and looks for a     *)
(* slow quorum; if there is one it sends, whatever happened in between.    *)
(***************************************************************************)
prepareTimerFires(r) ==
    /\ FastTimeout /\ Running(r)
    /\ \E id \in Ids :
         LET n == node[r]
             ready == PrepareQcReady(n, id, n.prepareTimer[id].batch,
                                     SlowQuorum(N))
         IN  /\ n.prepareTimer[id].pc = "running"
             /\ Step(r, withTimer(n, id, IF ready THEN "checked" ELSE "stopped",
                                  n.prepareTimer[id].batch), {})
    /\ UNCHANGED proposal

prepareTimerSends(r) ==
    /\ Running(r)
    /\ \E id \in Ids :
         LET n == node[r]
             batch == n.prepareTimer[id].batch
         IN  /\ n.prepareTimer[id].pc = "checked"
             /\ Step(r, sendPrepareQc(withTimer(n, id, "stopped", batch),
                                      id, batch, "timer"), {})
    /\ UNCHANGED proposal

(***************************************************************************)
(* The goroutine handleFastPrepareQc starts.                               *)
(***************************************************************************)
goCheckIfPrepared(r) ==
    /\ Running(r)
    /\ \E id \in node[r].fastChecks :
         Step(r, checkIfPrepared([node[r] EXCEPT !.fastChecks = @ \ {id}], id),
              {})
    /\ UNCHANGED proposal

(***************************************************************************)
(* The consumer loop: one case of the switch in StartPBFT each.            *)
(***************************************************************************)
RecvPrePrepare(r) ==
    /\ Running(r)
    /\ \E m \in Inbox(r, "PrePrepare") :
         \E stop \in StopReads(node[r], <<m.sn, node[r].currenView>>) :
           Step(r, handlePrePrepareMsg(node[r], m, stop), {m})
    /\ UNCHANGED proposal

RecvPrepare(r) ==
    /\ Running(r)
    /\ \E m \in Inbox(r, "Prepare") :
         \E stop \in StopReads(node[r], <<m.sn, m.view>>) :
           Step(r, handlePrepareMsg(node[r], m, stop), {m})
    /\ UNCHANGED proposal

RecvPrepareQc(r) ==
    /\ Running(r)
    /\ \E m \in Inbox(r, "PrepareQc") : Step(r, handlePrepareQc(node[r], m), {m})
    /\ UNCHANGED proposal

RecvFastPrepareQc(r) ==
    /\ Running(r)
    /\ \E m \in Inbox(r, "FastPrepareQc") : Step(r, handleFastPrepareQc(node[r], m), {m})
    /\ UNCHANGED proposal

RecvCommit(r) ==
    /\ Running(r)
    /\ \E m \in Inbox(r, "Commit") : Step(r, handleCommitMsg(node[r], m), {m})
    /\ UNCHANGED proposal

RecvCommitQc(r) ==
    /\ Running(r)
    /\ \E m \in Inbox(r, "CommitQc") : Step(r, handleCommitQc(node[r], m), {m})
    /\ UNCHANGED proposal

RecvCheckpoint(r) ==
    /\ Running(r)
    /\ \E m \in Inbox(r, "Checkpoint") : Step(r, recvCheckpoint(node[r], m), {m})
    /\ UNCHANGED proposal

Receive(r) == \/ RecvPrePrepare(r) \/ RecvPrepare(r) \/ RecvPrepareQc(r)
              \/ RecvFastPrepareQc(r) \/ RecvCommit(r) \/ RecvCommitQc(r)
              \/ RecvCheckpoint(r)

Propose(b) == \/ sendBatch(b) \/ checkProposalWindow(b)
              \/ createPrePrepareMsg(b) \/ broadcastPrePrepareMsg(b)

Init ==
    /\ node = [r \in Replicas |-> NewNode(r)]
    /\ net = {}
    /\ proposal = [b \in Batches |-> [pc |-> "pooled", view |-> 0]]

Next ==
    \/ \E b \in Batches : Propose(b)
    \/ \E r \in Correct : \/ prepareTimerFires(r) \/ prepareTimerSends(r)
                          \/ goCheckIfPrepared(r) \/ Receive(r)

Spec == Init /\ [][Next]_vars

\* The Go scheduler runs every goroutine that can run, TCP delivers what was
\* sent to a running peer, and every timer fires.  With silent faulty replicas
\* every step uses something up (a message, a timer, a goroutine), so that no
\* step can be postponed for ever without the system coming to a halt: fairness
\* of the whole next-state relation says as much as fairness of every part.
Fairness == WF_vars(Next)

FairSpec == Spec /\ Fairness
-----------------------------------------------------------------------------
(***************************************************************************)
(* Properties.                                                             *)
(***************************************************************************)
\* Every variable has its type, and no handler leaves unsent messages behind.
TypeOK ==
    /\ node \in [Replicas -> Node]
    /\ \A r \in Replicas : /\ node[r].replicaId = r /\ node[r].out = {}
                            /\ node[r].currenView < MaxView
    /\ net \subseteq Correct \X Message
    /\ proposal \in [Batches -> Proposal]

\* The prepare certificates that correct replicas hold or are about to get.
IssuedQcs ==
    {m \in {x[2] : x \in net} : m.type \in {"PrepareQc", "FastPrepareQc"}}
    \cup {c \in UNION {{node[r].cert[id].prepareQc, node[r].cert[id].fastPrepareQc} :
                         r \in Correct, id \in Ids} : c # Nil}

\* Whatever a faulty primary proposes to whom, no two certificates of the same
\* number and view are for different batches (handlePrePrepareMsg,
\* createPrepareMsg, handlePrepareVote).
QcUnique ==
    \A c, d \in IssuedQcs :
        /\ c.sn = d.sn /\ c.view = d.view
        /\ c.digest # Nil /\ d.digest # Nil
        => c.digest = d.digest

\* Under a correct primary a batch is executed only after a quorum of replicas
\* has signed it under the same number (checkIfPrepared, checkIfCommitted and
\* executeRequest never compare the certificate with the batch).
ExecutedIsCertified ==
    Primary(0) \in Correct =>
    \A r \in Correct, sn \in SNs :
        node[r].executed[sn] # Nil =>
        Cardinality(PrepareSigners(<<sn, 0>>, node[r].executed[sn]))
            >= SlowQuorum(N)

\* No two correct replicas execute different batches under one number.
ExecutionAgreement ==
    \A r, q \in Correct, sn \in SNs :
        node[r].executed[sn] # Nil /\ node[q].executed[sn] # Nil
        => node[r].executed[sn] = node[q].executed[sn]

\* A low watermark is a number that a checkpoint quorum, but for the faulty
\* ones in it, has executed (recvCheckpoint, moveWatermarks).
StableCheckpointBacked ==
    \A r \in Correct :
        node[r].h > 0 =>
        /\ node[r].h % T = 0
        /\ Cardinality(Faulty \cup
                       {q \in Correct : node[q].lastExec >= node[r].h})
             >= CheckpointQuorum(N)

\* What a replica reports when it leaves a view stays the truth about it: every
\* batch it has executed above its low watermark, even after the message was
\* sent, is in the P set, and every prepare certificate it holds is in the Q set
\* (sendViewChange against handleFastPrepareQc, which has no activeView guard).
ViewChangeReports ==
    \A x \in net :
        LET vc == x[2]
            n == node[vc.from]
        IN  vc.type = "ViewChange" /\ vc.view = n.currenView =>
            \A sn \in SNs : sn > vc.lastStableCk =>
                /\ n.executed[sn] # Nil =>
                     \E view \in Views : <<<<sn, view>>, n.executed[sn]>> \in vc.pset
                /\ \A view \in Views :
                     n.cert[<<sn, view>>].prepareQc \in vc.qset \cup {Nil}

\* No vote finds its request without a timer (handlePrepareVote dereferences
\* prepareTimer[Id] unchecked): TestViewChange expects every replica to go on.
NoPanic == \A r \in Correct : ~node[r].panicked

\* Nothing beyond the planned change of primary is voted for or executed in the
\* first view, although two proposals that race for numbers may pass the check of
\* broadcastPrePrepareMsg and be sent beyond it.
NothingBeyondSwitch ==
    AutoViewChange =>
    \A r \in Correct, sn \in SNs :
        sn > node[r].viewChangeSeqNumber =>
        /\ node[r].executed[sn] = Nil
        /\ \A b \in Batches : <<<<sn, 0>>, b>> \notin node[r].signed

\* At most one certificate is sent per request (prepareQcStage).
PrepareQcOnce ==
    \A r \in Correct, id \in Ids : Cardinality(node[r].cert[id].qcSent) <= 1

ExecutedBy(r, b) == \E sn \in SNs : node[r].executed[sn] = b

\* A proposed batch is eventually executed by every correct replica, unless the
\* vote handler and the timer's goroutine both sent a certificate for it.
Progress ==
    \A b \in Batches :
        proposal[b].pc = "proposed"
        ~> (\A r \in Correct : ExecutedBy(r, b)) \/ ~PrepareQcOnce

\* The same without the escape: TestNormalCase4Nodes expects it of one request.
EveryReplicaExecutes ==
    \A b \in Batches :
        proposal[b].pc = "proposed" ~> \A r \in Correct : ExecutedBy(r, b)

\* Once every correct replica has executed a checkpoint number, every one of
\* them eventually makes it (or a later one) its low watermark.
CheckpointsStabilise ==
    \A sn \in {s \in SNs : s % T = 0} :
        (\A r \in Correct : node[r].lastExec >= sn)
        ~> (\A r \in Correct : node[r].h >= sn)

(***************************************************************************)
(* Refinement: a slot of the common log is chosen when a quorum has signed *)
(* its batch.                                                              *)
(***************************************************************************)
ChosenBatches(sn) ==
    {b \in Batches : Cardinality(PrepareSigners(<<sn, 0>>, b)) >= SlowQuorum(N)}

Log == INSTANCE OrderedLog WITH
    Replicas <- Correct, Slots <- SNs, Values <- Batches,
    chosen <- [sn \in SNs |-> IF ChosenBatches(sn) = {} THEN Nil
                              ELSE CHOOSE b \in ChosenBatches(sn) : TRUE],
    log <- [r \in Correct |-> node[r].executed]

\* Under a correct primary the normal case implements the common log.
ImplementsOrderedLog == Log!Spec
=============================================================================
