--------------------------- MODULE FirstViewProofs ---------------------------
(***************************************************************************)
(* No batch that the first view may have executed is lost in the new view  *)
(* that follows it: NewViewKeepsBatches of ViewChange, for a correct first *)
(* primary.                                                                *)
(*                                                                         *)
(* FirstInv is the inductive invariant behind it: until a new view is      *)
(* made, every replica has stored the batch that the first primary         *)
(* proposed under a number, or none, and tells so when it leaves the view; *)
(* afterwards the new view of view 1 keeps, per number, what a quorum of   *)
(* those who have left has stored.                                         *)
(***************************************************************************)
EXTENDS ViewChangeProofs

\* The batch that the first primary has proposed under number sn, or Nil.
Proposed0(nodes, sn) == Timer0(nodes[Primary(0)], sn).batch

\* A stored report tells what its sender n has stored, for the numbers that the
\* report has an entry of.
Reported(n, rep) ==
    /\ \A p \in rep.pset : p[1][2] = 0 /\ p[2] = Batch0(n, p[1][1])
    /\ \A sn \in SNs : sn > rep.lastStableCk =>
         /\ Batch0(n, sn) # Nil => \E p \in rep.pset : p[1][1] = sn
         /\ Qc0(n, sn) # Nil => \E q \in rep.qset : q.sn = sn

RecordsOK(n) == /\ \A qc \in n.signedCommits : Stored(n, qc)
                /\ \A sn \in SNs : Qc0(n, sn) # Nil => Qc0(n, sn).sn = sn

\* Only the first primary proposes in the first view, and a replica commits to the
\* certificates that it has stored.
FirstViewOK ==
    /\ \A r \in Correct : /\ Settled(node[r]) /\ RecordsOK(node[r])
                          /\ \A sn \in SNs : r # Primary(0)
                               => Timer0(node[r], sn).pc = "none"
    /\ \A x \in net : x[2].type \in {"PrePrepare", "PrepareQc"} /\ x[2].view = 0
                        => x[2].from = Primary(0)

ProposersOK ==
    \A b \in Batches : Holder[b] \in Correct \ {Primary(0)} =>
      /\ proposal[b].pc \in {"spawned", "checked"} => node[Holder[b]].currenView > 0
      /\ proposal[b].pc = "created" => proposal[b].view > 0

\* A new view is in the store of its primary, and whoever is active in a later
\* view has its new view.
NewViewsOK ==
    /\ \A r \in Correct : node[r].activeView /\ node[r].currenView > 0
                            => store[r].newViewStore[node[r].currenView] # Nil
    /\ \A r \in Correct, v \in Views : store[r].newViewStore[v] # Nil =>
         /\ v > 0 /\ Primary(v) \in Correct /\ store[r].newViewStore[v].view = v
         /\ store[Primary(v)].newViewStore[v] = store[r].newViewStore[v]
    /\ \A y \in newViews : /\ y[2].view > 0 /\ Primary(y[2].view) \in Correct
                           /\ store[Primary(y[2].view)].newViewStore[y[2].view] = y[2]

\* No new view has been made; none but that of view 1 has.
Before(stores) ==
    \A r \in Correct, v \in Views : stores[r].newViewStore[v] = Nil

OnlyFirst(stores) ==
    \A r \in Correct, v \in Views : stores[r].newViewStore[v] # Nil => v = 1

\* The reports of view 1 in S are true.
TrueReports(nodes, S) ==
    \A rep \in S : rep.view = 1 =>
      IF rep.from \in Correct THEN Reported(nodes[rep.from], rep) ELSE rep.pset = {}

ReportsOK ==
    /\ \A x \in net : x[2].type = "ViewChange" =>
         x[2].from \in Correct /\ x[2].view > 0 /\ Tells(node[x[2].from], x[2])
    /\ Primary(1) \in Correct => TrueReports(node, store[Primary(1)].viewChangeStore)

\* Every replica has stored the proposed batch of a number or none.
OneBatch(nodes) ==
    \A q \in Correct, sn \in SNs : Batch0(nodes[q], sn) \in {Nil, Proposed0(nodes, sn)}

ProposalsOK ==
    /\ OneBatch(node)
    /\ \A x \in net : x[2].type = "PrePrepare" /\ x[2].view = 0
                        => x[2].digest = Proposed0(node, x[2].sn)
    /\ \A sn \in SNs : sn >= node[Primary(0)].nextSN => Proposed0(node, sn) = Nil

\* A view-change quorum S has left the first view ...
Left(nodes, S) == /\ S \subseteq Replicas
                  /\ Cardinality(S) >= ViewChangeQuorum(N, Abm, Pbm)
                  /\ \A q \in S \cap Correct : nodes[q].currenView > 0

\* ... with no batch but b for number sn, or with too few batches and no
\* certificate beside one of them.
Agrees(nodes, S, sn, b) == \A q \in S \cap Correct : Batch0(nodes[q], sn) \in {Nil, b}

Undecided(nodes, S, sn) ==
    /\ \A q \in S \cap Correct : Batch0(nodes[q], sn) = Nil \/ Qc0(nodes[q], sn) = Nil
    /\ Cardinality({q \in S \cap Correct : Batch0(nodes[q], sn) # Nil})
         < PrePrepareSubsetCount(N, Pbm)

Keeps(nodes, nv) ==
    \A sn \in DOMAIN nv.oset : \E S \in SUBSET Replicas :
      /\ Left(nodes, S)
      /\ Agrees(nodes, S, sn, nv.oset[sn]) \/ Undecided(nodes, S, sn)

KeepsFirst ==
    OnlyFirst(store) /\ Primary(1) \in Correct
      /\ store[Primary(1)].newViewStore[1] # Nil
      => Keeps(node, store[Primary(1)].newViewStore[1])

FirstInv == /\ FirstViewOK /\ ProposersOK /\ NewViewsOK
            /\ Before(store) => ReportsOK /\ ProposalsOK
            /\ KeepsFirst

(***************************************************************************)
(* The theorem is about a correct first primary, and about faulty replicas *)
(* that, when they report for view 1, withhold but invent nothing.         *)
(***************************************************************************)
FirstPrimary == N > 1 /\ Primary(0) \in Correct

Withholding == \A x \in Forgeable : x[2].type = "ViewChange" /\ x[2].view = 1
                                      => x[2].pset = {}
-----------------------------------------------------------------------------
(***************************************************************************)
(* Follows(r): a step of replica r may start a request of the first view   *)
(* only at the first primary, may add to its records only what that        *)
(* primary proposes, or nothing once it has left the first view, and says  *)
(* the truth about them.                                                   *)
(***************************************************************************)
Sends(r, m) ==
    \/ Honest(node'[r], m)
    \/ /\ m.type = "PrePrepare"
       /\ m.view = 0 => /\ r = Primary(0) /\ m.from = r
                        /\ m.digest = Proposed0(node', m.sn)

Follows(r) ==
    /\ Goes(r) /\ Settled(node'[r]) /\ RecordsOK(node'[r])
    /\ \A sn \in SNs : r # Primary(0) => Timer0(node'[r], sn).pc = "none"
    /\ OnlyFirst(store) /\ node[r].currenView > 0 => SameRecords(node[r], node'[r])
    /\ Before(store) => \A sn \in SNs :
         /\ Batch0(node'[r], sn) \in {Batch0(node[r], sn), Proposed0(node, sn)}
         /\ \/ Proposed0(node', sn) = Proposed0(node, sn)
            \/ /\ Proposed0(node, sn) = Nil /\ sn = node[Primary(0)].nextSN
               /\ node'[Primary(0)].nextSN = sn + 1
    /\ \A x \in net' : x \in net \/ Sends(r, x[2])

\* The struct of r with one more record, perhaps.
Writes(r, n1) ==
    /\ Differ(node[r], n1) /\ RecordsOK(n1)
    /\ OnlyFirst(store) /\ node[r].currenView > 0 => SameRecords(node[r], n1)
    /\ Before(store) => \A sn \in SNs :
         Batch0(n1, sn) \in {Batch0(node[r], sn), Proposed0(node, sn)}

\* What a step makes of the fields that the records depend on.
LEMMA StepRecords ==
    ASSUME TypeOK, NEW r \in Correct, NEW n, Recorded(n), NEW received,
           Step(r, n, received)
    PROVE  /\ \A q \in Correct : q # r => node'[q] = node[q]
           /\ SameRecords(n, node'[r]) /\ SameTimers(n, node'[r])
           /\ node'[r].replicaId = n.replicaId
           /\ node'[r].signedCommits = n.signedCommits
           /\ node'[r].currenView = n.currenView
           /\ node'[r].activeView = n.activeView
           /\ node'[r].prepareTimer = n.prepareTimer
           /\ \A x \in net' : x \in net \/ \E p \in n.out : p[2] = x[2]
<1> DEFINE n1 == [n EXCEPT !.out = {}]
<1>1. /\ n1.replicaId = n.replicaId /\ n1.signedCommits = n.signedCommits
      /\ n1.currenView = n.currenView /\ n1.activeView = n.activeView
      /\ n1.cert = n.cert /\ n1.prepareTimer = n.prepareTimer
  BY DEF Recorded
<1>2. node' = [node EXCEPT ![r] = n1]
  BY DEF Step
<1> HIDE DEF n1
<1>3. node'[r] = n1 /\ \A q \in Correct : q # r => node'[q] = node[q]
  BY <1>2 DEF TypeOK, Correct
<1>4. PICK sent \in SUBSET n.out :
           net' = (net \ ({r} \X received)) \cup
                  UNION {(p[1] \cap Correct) \X {p[2]} : p \in sent}
  BY DEF Step
<1>5. \A x \in net' : x \in net \/ \E p \in n.out : p[2] = x[2]
  BY <1>4
<1>6. SameRecords(n, node'[r]) /\ SameTimers(n, node'[r])
  BY <1>1, <1>3 DEF SameRecords, SameTimers, Batch0, Qc0, Timer0
<1> QED  BY <1>1, <1>3, <1>5, <1>6

\* Records that are the same are as good.
LEMMA SameRecordsOK ==
    ASSUME NEW n, NEW n2, SameRecords(n, n2), RecordsOK(n),
           \A qc \in n2.signedCommits : qc \in n.signedCommits \/ Stored(n2, qc)
    PROVE  RecordsOK(n2)
BY DEF RecordsOK, Stored, SameRecords

\* A handler that recalls follows.
LEMMA StepFollows ==
    ASSUME FirstPrimary, ViewInv, FirstInv, NEW r \in Correct,
           NEW n1, Writes(r, n1), NEW n2, Recalls(n1, n2), Viewed(n2),
           node[r].currenView <= n2.currenView,
           NEW received, Step(r, n2, received)
    PROVE  Follows(r)
<1>1. /\ Settled(node[r]) /\ RecordsOK(node[r]) /\ node[r].out = {}
      /\ \A sn \in SNs : r # Primary(0) => Timer0(node[r], sn).pc = "none"
  BY ViewFields DEF FirstInv, FirstViewOK, ViewInv, Inv
<1>2. /\ Recorded(n1) /\ SameTimers(node[r], n1) /\ RecordsOK(n1)
      /\ Settled(n1) /\ n1.out = {}
  BY <1>1 DEF Writes, Differ
<1>3. /\ Recorded(n2) /\ SameRecords(n1, n2) /\ SameTimers(n1, n2) /\ Settled(n2)
      /\ \A p \in n2.out : Honest(n2, p[2])
  BY <1>2 DEF Recalls
<1>4. /\ \A q \in Correct : q # r => node'[q] = node[q]
      /\ SameRecords(n2, node'[r]) /\ SameTimers(n2, node'[r])
      /\ node'[r].replicaId = n2.replicaId
      /\ node'[r].signedCommits = n2.signedCommits
      /\ node'[r].currenView = n2.currenView
      /\ node'[r].activeView = n2.activeView
      /\ \A x \in net' : x \in net \/ \E p \in n2.out : p[2] = x[2]
  BY <1>3, StepRecords DEF ViewInv, Inv
<1>5. SameRecords(n1, node'[r]) /\ SameTimers(node[r], node'[r])
  BY <1>2, <1>3, <1>4 DEF SameRecords, SameTimers
<1>6. Settled(node'[r])
  BY <1>3, <1>4 DEF Settled
<1>7. RecordsOK(node'[r])
  <2>1. \A qc \in node'[r].signedCommits :
          qc \in n1.signedCommits \/ Stored(node'[r], qc)
    BY <1>4, HonestSame DEF Recalls
  <2> QED  BY <1>2, <1>5, <2>1, SameRecordsOK
<1>8. Goes(r)
  <2>1. \A q \in Correct : node[q].currenView \in Nat
    BY ViewFields DEF ViewInv, Inv
  <2> QED  BY <1>4, <2>1 DEF Goes, Viewed
<1>9. \A sn \in SNs : r # Primary(0) => Timer0(node'[r], sn).pc = "none"
  BY <1>1, <1>5 DEF SameTimers
<1>10. OnlyFirst(store) /\ node[r].currenView > 0 => SameRecords(node[r], node'[r])
  BY <1>5 DEF Writes, SameRecords
<1>11. ASSUME NEW sn \in SNs PROVE Proposed0(node', sn) = Proposed0(node, sn)
  BY <1>4, <1>5 DEF Proposed0, SameTimers, FirstPrimary
<1>12. Before(store) => \A sn \in SNs :
         Batch0(node'[r], sn) \in {Batch0(node[r], sn), Proposed0(node, sn)}
  BY <1>5 DEF Writes, SameRecords
<1>13. ASSUME NEW x \in net' PROVE x \in net \/ Sends(r, x[2])
  BY <1>3, <1>4, HonestSame DEF Sends
<1> QED  BY <1>6, <1>7, <1>8, <1>9, <1>10, <1>11, <1>12, <1>13 DEF Follows

\* A handler that writes nothing.
LEMMA WritesNothing ==
    ASSUME ViewInv, FirstInv, NEW r \in Correct
    PROVE  Writes(r, node[r]) /\ Recorded(node[r])
<1>1. Recorded(node[r])
  BY CorrectNode, NodeRecorded DEF ViewInv
<1>2. RecordsOK(node[r])
  BY DEF FirstInv, FirstViewOK
<1> QED  BY <1>1, <1>2 DEF Writes, Differ, SameRecords, SameTimers

\* A message of the first view that an active replica takes from its primary is
\* one of the first primary, and the replica has not left the first view if no
\* later view than view 1 is entered.
LEMMA TakenInFirstView ==
    ASSUME FirstPrimary, ViewInv, FirstInv, NEW r \in Correct, node[r].activeView,
           NEW type \in {"PrePrepare", "PrepareQc"}, NEW m \in Inbox(r, type),
           m.from = Primary(node[r].currenView), m.view = 0
    PROVE  /\ OnlyFirst(store) => node[r].currenView = 0
           /\ Before(store) => \E x \in net : x[2] = m
<1>1. PICK x \in net \cup Forged : x[2] = m /\ x[2].type = type
  BY DEF Inbox
<1>2. node[r].currenView \in Views /\ node[r].currenView \in Nat
  BY ViewFields DEF ViewInv, Inv
<1>3. ASSUME Primary(node[r].currenView) \in Correct
      PROVE  x \in net /\ Primary(node[r].currenView) = Primary(0)
  <2>1. x \in net
    BY <1>1, <1>3, ForgeableAssumption DEF Forged, Correct
  <2>2. x[2].type \in {"PrePrepare", "PrepareQc"} /\ x[2].view = 0
    BY <1>1
  <2> QED  BY <1>1, <2>1, <2>2 DEF FirstInv, FirstViewOK
<1>4. Primary(1) # Primary(0)
  BY ClusterAssumption DEF FirstPrimary, Primary
<1>5. ASSUME OnlyFirst(store), node[r].currenView > 0 PROVE FALSE
  <2>1. store[r].newViewStore[node[r].currenView] # Nil
    BY <1>5 DEF FirstInv, NewViewsOK
  <2>2. node[r].currenView = 1 /\ Primary(1) \in Correct
    BY <1>2, <1>5, <2>1 DEF OnlyFirst, FirstInv, NewViewsOK
  <2> QED  BY <1>3, <1>4, <2>2
<1>6. ASSUME Before(store) PROVE x \in net
  <2>1. node[r].currenView = 0
    BY <1>2, <1>6 DEF FirstInv, NewViewsOK, Before
  <2> QED  BY <1>3, <2>1 DEF FirstPrimary
<1> QED  BY <1>1, <1>2, <1>5, <1>6

\* handlePrePrepareMsg (core.go) writes the batch of the proposal.
LEMMA WritesBatch ==
    ASSUME FirstPrimary, ViewInv, FirstInv, NEW r \in Correct, node[r].activeView,
           NEW m \in Inbox(r, "PrePrepare"), m.from = Primary(node[r].currenView),
           m.view = 0
    PROVE  Writes(r, PutBatch(node[r], m))
<1> DEFINE n1 == PutBatch(node[r], m)
<1>1. m.sn \in SNs /\ m.digest \in Digests
  BY InboxTypes DEF ViewInv, Inv, Correct, PrePrepareMsg, Digests
<1>2. /\ Differ(node[r], n1)
      /\ \A sn \in SNs : /\ Qc0(n1, sn) = Qc0(node[r], sn)
                         /\ Batch0(n1, sn) = IF sn = m.sn THEN m.digest
                                             ELSE Batch0(node[r], sn)
  BY <1>1, WritesNothing, PutBatchDiffers
<1> HIDE DEF n1
<1>3. RecordsOK(n1)
  BY <1>2 DEF FirstInv, FirstViewOK, RecordsOK, Stored, Differ
<1>4. OnlyFirst(store) => ~(node[r].currenView > 0)
  BY TakenInFirstView
<1>5. Before(store) => m.digest = Proposed0(node, m.sn)
  <2>1. SUFFICES ASSUME Before(store) PROVE m.digest = Proposed0(node, m.sn)
    OBVIOUS
  <2>2. PICK x \in net : x[2] = m
    BY <2>1, TakenInFirstView
  <2>3. m.type = "PrePrepare"
    BY DEF Inbox
  <2> QED  BY <2>1, <2>2, <2>3 DEF FirstInv, ProposalsOK
<1> QED  BY <1>2, <1>3, <1>4, <1>5 DEF Writes, n1

\* handlePrepareQc (core.go) writes a certificate where there is none, so that
\* commit votes stay votes for what is in store.
LEMMA WritesQc ==
    ASSUME FirstPrimary, ViewInv, FirstInv, NEW r \in Correct, node[r].activeView,
           NEW m \in Inbox(r, "PrepareQc"), m.from = Primary(node[r].currenView),
           m.view = 0, Qc0(node[r], m.sn) = Nil
    PROVE  Writes(r, PutQc(node[r], m))
<1> DEFINE n1 == PutQc(node[r], m)
<1>1. m.sn \in SNs
  BY InboxTypes DEF ViewInv, Inv, Correct, PrepareQc
<1>2. /\ Differ(node[r], n1)
      /\ \A sn \in SNs : /\ Batch0(n1, sn) = Batch0(node[r], sn)
                         /\ Qc0(n1, sn) = IF sn = m.sn THEN m ELSE Qc0(node[r], sn)
  BY <1>1, WritesNothing, PutQcDiffers
<1> HIDE DEF n1
<1>3. RecordsOK(n1)
  <2>1. node[r].signedCommits \subseteq PrepareQc /\ Nil \notin PrepareQc
    BY CorrectNode, NilAssumption DEF ViewInv, Node
  <2>2. RecordsOK(node[r]) /\ n1.signedCommits = node[r].signedCommits
    BY <1>2 DEF FirstInv, FirstViewOK, Differ
  <2>3. ASSUME NEW qc \in n1.signedCommits PROVE Stored(n1, qc)
    <3>1. qc # Nil /\ Stored(node[r], qc)
      BY <2>1, <2>2 DEF RecordsOK
    <3> QED  BY <1>2, <3>1 DEF Stored
  <2>4. ASSUME NEW sn \in SNs, Qc0(n1, sn) # Nil PROVE Qc0(n1, sn).sn = sn
    BY <1>2, <2>2, <2>4 DEF RecordsOK
  <2> QED  BY <2>3, <2>4 DEF RecordsOK
<1>4. OnlyFirst(store) => ~(node[r].currenView > 0)
  BY TakenInFirstView
<1> QED  BY <1>2, <1>3, <1>4 DEF Writes, n1

\* The messages and goroutines of the normal case follow.
LEMMA ReceiveFollows ==
    ASSUME FirstPrimary, ViewInv, FirstInv, NEW r \in Correct,
           \/ prepareTimerFires(r) \/ prepareTimerSends(r)
           \/ goCheckIfPrepared(r) \/ Receive(r)
    PROVE  /\ Follows(r) /\ proposal' = proposal
           /\ node'[r].nextSN = node[r].nextSN
           /\ node'[r].activeView => /\ node[r].activeView
                                     /\ node'[r].currenView = node[r].currenView
<1> DEFINE n == node[r]
<1>1. Recorded(n) /\ Writes(r, n) /\ Viewed(n) /\ r \in Replicas
  BY WritesNothing, ViewFields DEF ViewInv, Inv
<1>2. ASSUME NEW n1, Writes(r, n1), NEW n2, Recalls(n1, n2), Stays(n, n2),
             NEW received, Step(r, n2, received)
      PROVE  /\ Follows(r) /\ node'[r].nextSN = node[r].nextSN
             /\ node'[r].activeView => /\ node[r].activeView
                                       /\ node'[r].currenView = node[r].currenView
  <2>1. Viewed(n2) /\ n.currenView <= n2.currenView /\ Recorded(n2)
    BY <1>2 DEF Stays, Recalls
  <2>2. Follows(r)
    BY <1>2, <2>1, StepFollows
  <2>3. /\ node'[r].currenView = n2.currenView /\ node'[r].nextSN = n2.nextSN
        /\ node'[r].activeView = n2.activeView
    BY <1>2, <2>1, StepViews DEF ViewInv, Inv
  <2> QED  BY <1>2, <2>2, <2>3 DEF Stays
<1>3. \A n2, received : Recalls(n, n2) /\ Stays(n, n2) /\ Step(r, n2, received)
        => /\ Follows(r) /\ node'[r].nextSN = node[r].nextSN
           /\ node'[r].activeView => /\ node[r].activeView
                                     /\ node'[r].currenView = node[r].currenView
  BY <1>1, <1>2
<1>4. CASE prepareTimerFires(r)
  <2>1. PICK id \in Ids : \E pc : /\ n.prepareTimer[id].pc # "none" /\ pc # "none"
                          /\ Step(r, withTimer(n, id, pc, n.prepareTimer[id].batch), {})
    BY <1>4 DEF prepareTimerFires
  <2>2. PICK pc : /\ n.prepareTimer[id].pc # "none" /\ pc # "none"
                  /\ Step(r, withTimer(n, id, pc, n.prepareTimer[id].batch), {})
    BY <2>1
  <2> DEFINE n2 == withTimer(n, id, pc, n.prepareTimer[id].batch)
  <2>3. Recalls(n, n2)
    BY <1>1, <2>2, withTimerRecalls
  <2>4. Stays(n, n2)
    BY <1>1 DEF withTimer, Stays, Viewed
  <2> QED  BY <1>3, <1>4, <2>2, <2>3, <2>4 DEF prepareTimerFires
<1>5. CASE prepareTimerSends(r)
  <2>1. PICK id \in Ids :
             /\ n.prepareTimer[id].pc = "checked"
             /\ Step(r, sendPrepareQc(withTimer(n, id, "stopped", n.prepareTimer[id].batch),
                                      id, n.prepareTimer[id].batch, "timer"), {})
    BY <1>5 DEF prepareTimerSends
  <2> DEFINE b == n.prepareTimer[id].batch
             n2 == withTimer(n, id, "stopped", b)
             c == [n2.cert[id] EXCEPT !.prepareQcStage = TRUE,
                                      !.qcSent = @ \cup {"timer"}]
             n3 == withCert(n2, id, c)
             qc == [type |-> "PrepareQc", from |-> n2.replicaId, sn |-> id[1],
                    view |-> id[2], digest |-> b, stamp |-> "timer"]
             n4 == broadcast(n3, qc)
  <2>2. Recalls(n, n2) /\ Recorded(n2)
    <3>1. Recalls(n, n2)
      BY <1>1, <2>1, withTimerRecalls
    <3> HIDE DEF n2
    <3> QED  BY <3>1 DEF Recalls
  <2>3. n2.prepareTimer[id].pc = "stopped"
    BY <1>1, <2>1 DEF withTimer, Recorded
  <2>4. Stays(n, n2) /\ Viewed(n2)
    BY <1>1 DEF withTimer, Stays, Viewed
  <2> HIDE DEF n2
  <2>5. Recalls(n2, n3) /\ Recorded(n3)
    <3>1. id \in Ids => /\ DOMAIN c = DOMAIN n2.cert[id]
                        /\ c.reqBatchDigest = n2.cert[id].reqBatchDigest
                        /\ c.prepareQc = n2.cert[id].prepareQc
      BY <2>2 DEF Recorded
    <3> HIDE DEF c
    <3> QED  BY <2>2, <3>1, sameCertRecalls DEF Recalls
  <2>6. /\ n3.prepareTimer = n2.prepareTimer /\ n3.replicaId = n2.replicaId
        /\ Stays(n2, n3) /\ Viewed(n3)
    BY <2>2, <2>4, withCertStays DEF withCert, Recorded
  <2> HIDE DEF n3, c
  <2>7. Honest(n3, qc)
    <3>1. qc.view = 0 => id = <<qc.sn, 0>>
      BY <2>1 DEF Ids
    <3>2. Timer0(n3, qc.sn) = n3.prepareTimer[<<qc.sn, 0>>]
      BY DEF Timer0
    <3>3. qc.view = 0 => Timer0(n3, qc.sn).pc # "none"
      BY <2>3, <2>6, <3>1, <3>2
    <3>4. qc.type = "PrepareQc" /\ qc.from = n3.replicaId
      BY <2>6
    <3> HIDE DEF qc
    <3> QED  BY <3>3, <3>4 DEF Honest
  <2>8. Reached(n3, qc)
    BY DEF Reached
  <2>9. n4 = sendPrepareQc(n2, id, b, "timer")
    BY DEF sendPrepareQc, n3, c
  <2> HIDE DEF qc
  <2>10. Recalls(n, n4) /\ Stays(n, n4)
    BY <1>1, <2>2, <2>4, <2>5, <2>6, <2>7, <2>8, sendRecalls, sendStays,
       RecallsTrans, StaysTrans
  <2>11. Step(r, n4, {})
    BY <2>1, <2>9 DEF n2
  <2> HIDE DEF n4
  <2> QED  BY <1>3, <1>5, <2>10, <2>11 DEF prepareTimerSends
<1>6. CASE goCheckIfPrepared(r)
  <2>1. PICK id \in n.fastChecks :
             Step(r, checkIfPrepared([n EXCEPT !.fastChecks = @ \ {id}], id), {})
    BY <1>6 DEF goCheckIfPrepared
  <2> DEFINE n1 == [n EXCEPT !.fastChecks = @ \ {id}]
  <2>2. Viewed(n1) /\ Stays(n, n1)
    BY <1>1 DEF Viewed, Stays
  <2>3. Recalls(n, n1) /\ Recorded(n1)
    <3>1. \A v : Recalls(n, [n EXCEPT !.fastChecks = v])
      BY <1>1, FieldRecalls
    <3>2. n1 = [n EXCEPT !.fastChecks = n.fastChecks \ {id}]
      OBVIOUS
    <3> QED  BY <3>1, <3>2 DEF Recalls
  <2>4. Step(r, checkIfPrepared(n1, id), {})
    BY <2>1
  <2> HIDE DEF n1
  <2>5. Recalls(n, checkIfPrepared(n1, id)) /\ Stays(n, checkIfPrepared(n1, id))
    BY <1>1, <2>2, <2>3, checkIfRecalls, checkIfStays, RecallsTrans, StaysTrans
  <2> QED  BY <1>3, <1>6, <2>4, <2>5 DEF goCheckIfPrepared
<1>7. CASE RecvPrePrepare(r)
  <2>1. PICK m \in Inbox(r, "PrePrepare") :
             \E stop : Step(r, handlePrePrepareMsg(n, m, stop), {m})
    BY <1>7 DEF RecvPrePrepare
  <2>2. PICK stop : Step(r, handlePrePrepareMsg(n, m, stop), {m})
    BY <2>1
  <2> DEFINE n2 == handlePrePrepareMsg(n, m, stop)
  <2>3. m.digest \in Digests
    BY <1>1, InboxTypes DEF ViewInv, Inv, PrePrepareMsg, Digests
  <2>4. Stays(n, n2)
    BY <1>1, handlePrePrepareMsgStays
  <2>5. \/ Recalls(n, n2)
        \/ /\ n.activeView /\ m.from = Primary(n.currenView)
           /\ m.view = 0 /\ Recalls(PutBatch(n, m), n2)
    BY <1>1, <2>3, handlePrePrepareMsgRecalls
  <2>6. Step(r, n2, {m})
    BY <2>2
  <2> HIDE DEF n2
  <2>7. Recalls(n, n2) \/ (Writes(r, PutBatch(n, m)) /\ Recalls(PutBatch(n, m), n2))
    BY <2>5, WritesBatch
  <2> QED  BY <1>2, <1>3, <1>7, <2>4, <2>6, <2>7 DEF RecvPrePrepare
<1>8. CASE RecvPrepare(r)
  <2>1. PICK m, stop : Step(r, handlePrepareMsg(n, m, stop), {m})
    BY <1>8 DEF RecvPrepare
  <2>2. Recalls(n, handlePrepareMsg(n, m, stop)) /\ Stays(n, handlePrepareMsg(n, m, stop))
    BY <1>1, handlePrepareMsgRecalls, handlePrepareMsgStays
  <2> QED  BY <1>3, <1>8, <2>1, <2>2 DEF RecvPrepare
<1>9. CASE RecvPrepareQc(r)
  <2>1. PICK m \in Inbox(r, "PrepareQc") : Step(r, handlePrepareQc(n, m), {m})
    BY <1>9 DEF RecvPrepareQc
  <2> DEFINE n2 == handlePrepareQc(n, m)
  <2>2. Stays(n, n2)
    BY <1>1, HandlersStay
  <2>3. \/ Recalls(n, n2)
        \/ /\ n.activeView /\ m.from = Primary(n.currenView)
           /\ m.view = 0 /\ Qc0(n, m.sn) = Nil /\ Recalls(PutQc(n, m), n2)
    BY <1>1, handlePrepareQcRecalls
  <2>4. Step(r, n2, {m})
    BY <2>1
  <2> HIDE DEF n2
  <2>5. Recalls(n, n2) \/ (Writes(r, PutQc(n, m)) /\ Recalls(PutQc(n, m), n2))
    BY <2>3, WritesQc
  <2> QED  BY <1>2, <1>3, <1>9, <2>2, <2>4, <2>5 DEF RecvPrepareQc
<1>10. CASE \/ RecvFastPrepareQc(r) \/ RecvCommit(r)
            \/ RecvCommitQc(r) \/ RecvCheckpoint(r)
  <2>1. PICK m : \E n2 \in {handleFastPrepareQc(n, m), handleCommitMsg(n, m),
                            handleCommitQc(n, m), recvCheckpoint(n, m)} :
                   Step(r, n2, {m})
    BY <1>10 DEF RecvFastPrepareQc, RecvCommit, RecvCommitQc, RecvCheckpoint
  <2>2. PICK n2 \in {handleFastPrepareQc(n, m), handleCommitMsg(n, m),
                     handleCommitQc(n, m), recvCheckpoint(n, m)} : Step(r, n2, {m})
    BY <2>1
  <2>3. Recalls(n, n2) /\ Stays(n, n2)
    BY <1>1, HandlersRecall, HandlersStay
  <2> QED  BY <1>3, <1>10, <2>2, <2>3 DEF RecvFastPrepareQc, RecvCommit,
                                          RecvCommitQc, RecvCheckpoint
<1> QED  BY <1>4, <1>5, <1>6, <1>7, <1>8, <1>9, <1>10 DEF Receive

\* The first primary numbers on, and whoever gets active has the new view of the
\* view it enters in store.
Numbers == node[Primary(0)].nextSN <= node'[Primary(0)].nextSN

Enters(r) == node'[r].activeView =>
               \/ node[r].activeView /\ node'[r].currenView = node[r].currenView
               \/ store'[r].newViewStore[node'[r].currenView] # Nil

\* broadcastPrePrepareMsg (core.go) starts the timer of the number it takes, one
\* of the first view at the first primary only.
LEMMA broadcastPrePrepareFollows ==
    ASSUME FirstPrimary, ViewInv, FirstInv, NEW b \in Batches,
           broadcastPrePrepareMsg(b)
    PROVE  Follows(Holder[b]) /\ Enters(Holder[b]) /\ Numbers
<1> DEFINE r == Holder[b]
           n == node[r]
           id == <<n.nextSN, proposal[b].view>>
           ppm == [type |-> "PrePrepare", from |-> n.replicaId, sn |-> id[1],
                   view |-> id[2], digest |-> b]
           n2 == broadcast(withTimer([n EXCEPT !.nextSN = @ + 1], id, "running", b), ppm)
<1>1. /\ Step(r, n2, {}) /\ n.nextSN \in SNs /\ proposal[b].pc = "created"
      /\ r \in Correct
  BY DEF broadcastPrePrepareMsg, Stage, Running
<1>2. /\ n \in Node /\ Recorded(n) /\ n.replicaId = r /\ n.out = {} /\ RecordsOK(n)
      /\ Settled(n) /\ \A sn \in SNs : r # Primary(0) => Timer0(n, sn).pc = "none"
      /\ r # Primary(0) => id[2] > 0
  <2>1. n \in Node /\ n.replicaId = r /\ n.out = {}
    BY <1>1, CorrectNode, ViewFields DEF ViewInv, Inv
  <2>2. r # Primary(0) => proposal[b].view > 0
    BY <1>1 DEF FirstInv, ProposersOK
  <2>3. id[2] = proposal[b].view
    OBVIOUS
  <2> HIDE DEF n, id
  <2> QED  BY <1>1, <2>1, <2>2, <2>3, NodeRecorded DEF FirstInv, FirstViewOK, n
<1>3. id \in Ids
  BY <1>1 DEF ViewInv, Inv, TypeOK, Proposal, Ids
<1>4. /\ Recorded(n2) /\ n2.replicaId = r /\ n2.cert = n.cert
      /\ n2.currenView = n.currenView /\ n2.activeView = n.activeView
      /\ n2.signedCommits = n.signedCommits /\ n2.nextSN = n.nextSN + 1
      /\ n2.prepareTimer = [n.prepareTimer EXCEPT ![id] = [pc |-> "running", batch |-> b]]
      /\ n2.out = {<<Replicas, ppm>>} /\ Viewed(n2)
  <2> HIDE DEF id
  <2>1. Viewed(n)
    BY <1>2, NodeViewed
  <2> QED  BY <1>2, <2>1 DEF broadcast, withTimer, Recorded, Node, Viewed
<1>5. /\ ppm.type = "PrePrepare" /\ ppm.view = id[2] /\ ppm.from = r
      /\ ppm.sn = id[1] /\ ppm.digest = b /\ id[1] = n.nextSN
  BY <1>2
<1> HIDE DEF n2, ppm, id
<1>6. /\ \A q \in Correct : q # r => node'[q] = node[q]
      /\ SameRecords(n2, node'[r]) /\ SameTimers(n2, node'[r])
      /\ node'[r].signedCommits = n2.signedCommits
      /\ node'[r].currenView = n2.currenView
      /\ node'[r].activeView = n2.activeView
      /\ node'[r].prepareTimer = n2.prepareTimer
      /\ node'[r].nextSN = n2.nextSN
      /\ \A x \in net' : x \in net \/ \E p \in n2.out : p[2] = x[2]
  BY <1>1, <1>4, StepRecords, StepViews DEF ViewInv, Inv
<1>7. SameRecords(n, node'[r])
  BY <1>4, <1>6 DEF SameRecords, Batch0, Qc0
<1>8. Settled(node'[r]) /\ RecordsOK(node'[r])
  BY <1>2, <1>4, <1>6, <1>7, SameRecordsOK DEF Settled
<1>9. Goes(r)
  <2>1. \A q \in Correct : node[q].currenView \in Nat
    BY ViewFields DEF ViewInv, Inv
  <2> QED  BY <1>1, <1>4, <1>6, <2>1 DEF Goes
<1>10. ASSUME NEW sn \in SNs
       PROVE  Timer0(node'[r], sn) = IF id = <<sn, 0>> THEN [pc |-> "running", batch |-> b]
                                     ELSE Timer0(n, sn)
  <2>1. <<sn, 0>> \in DOMAIN n.prepareTimer
    BY <1>2, ParameterAssumption DEF Ids, Views, Recorded
  <2> QED  BY <1>4, <1>6, <2>1 DEF Timer0
<1>11. ASSUME NEW sn \in SNs, r # Primary(0) PROVE Timer0(node'[r], sn).pc = "none"
  BY <1>2, <1>10, <1>11
<1>12. ASSUME NEW sn \in SNs, Before(store)
       PROVE  \/ Proposed0(node', sn) = Proposed0(node, sn)
              \/ /\ Proposed0(node, sn) = Nil /\ sn = node[Primary(0)].nextSN
                 /\ node'[Primary(0)].nextSN = sn + 1
  <2>1. CASE r # Primary(0)
    BY <1>6, <2>1 DEF Proposed0, FirstPrimary
  <2>2. CASE r = Primary(0) /\ id # <<sn, 0>>
    BY <1>10, <2>2 DEF Proposed0
  <2>3. CASE r = Primary(0) /\ id = <<sn, 0>>
    <3>1. sn = n.nextSN /\ n.nextSN \in Nat
      BY <1>2, <1>5, <2>3 DEF Node
    <3>2. Proposed0(node, sn) = Nil
      BY <1>12, <2>3, <3>1 DEF FirstInv, ProposalsOK
    <3> QED  BY <1>4, <1>6, <2>3, <3>1, <3>2
  <2> QED  BY <2>1, <2>2, <2>3
<1>13. ASSUME NEW x \in net', x \notin net PROVE Sends(r, x[2])
  <2>1. x[2] = ppm
    BY <1>4, <1>6, <1>13
  <2>2. ASSUME id[2] = 0 PROVE r = Primary(0) /\ ppm.digest = Proposed0(node', ppm.sn)
    <3>1. r = Primary(0) /\ id = <<id[1], 0>> /\ id[1] \in SNs
      BY <1>2, <1>3, <2>2 DEF Ids
    <3>2. Timer0(node'[r], id[1]) = [pc |-> "running", batch |-> b]
      BY <1>10, <3>1
    <3> QED  BY <1>5, <3>1, <3>2 DEF Proposed0
  <2> QED  BY <1>5, <2>1, <2>2 DEF Sends
<1>14. Follows(r)
  BY <1>7, <1>8, <1>9, <1>11, <1>12, <1>13 DEF Follows, SameRecords
<1>15. Enters(r)
  BY <1>4, <1>6 DEF Enters
<1>16. Numbers
  <2>1. node[Primary(0)].nextSN \in Nat /\ n.nextSN \in Nat
    BY <1>2, CorrectNode DEF Node, FirstPrimary, ViewInv
  <2> QED  BY <1>4, <1>6, <2>1 DEF Numbers, FirstPrimary
<1> QED  BY <1>14, <1>15, <1>16

\* A step that leaves the nodes and the network alone follows.
LEMMA SameFollows ==
    ASSUME FirstPrimary, ViewInv, FirstInv, NEW r \in Correct,
           node' = node, net' = net
    PROVE  Follows(r) /\ Enters(r) /\ Numbers
<1>1. \A q \in Correct : node[q].currenView \in Nat
  BY ViewFields DEF ViewInv, Inv
<1>2. node[Primary(0)].nextSN \in Nat
  BY CorrectNode DEF FirstPrimary, ViewInv, Node
<1>3. Goes(r) /\ Enters(r) /\ Numbers
  BY <1>1, <1>2 DEF Goes, Enters, Numbers
<1>4. SameRecords(node[r], node'[r])
  BY DEF SameRecords
<1> QED  BY <1>3, <1>4 DEF Follows, FirstInv, FirstViewOK, SameRecords

\* Later proposals of other replicas than the first primary are of later views:
\* sendBatch spawns them at the primary of the current view only.
LEMMA ProposersKept ==
    ASSUME ViewInv, FirstInv, NEW r \in Correct, Goes(r), NEW b \in Batches,
           proposal' = proposal \/ Propose(b)
    PROVE  ProposersOK'
<1> SUFFICES ASSUME NEW c \in Batches, Holder[c] \in Correct \ {Primary(0)}
             PROVE  /\ proposal'[c].pc \in {"spawned", "checked"}
                         => node'[Holder[c]].currenView > 0
                    /\ proposal'[c].pc = "created" => proposal'[c].view > 0
  BY DEF ProposersOK
<1>1. /\ proposal[c].pc \in {"spawned", "checked"} => node[Holder[c]].currenView > 0
      /\ proposal[c].pc = "created" => proposal[c].view > 0
  BY DEF FirstInv, ProposersOK
<1>2. node[Holder[c]].currenView > 0 => node'[Holder[c]].currenView > 0
  BY DEF Goes
<1>3. CASE proposal'[c] = proposal[c]
  BY <1>1, <1>2, <1>3
<1>4. CASE proposal'[c] # proposal[c]
  <2>1. /\ c = b /\ Propose(b) /\ proposal \in [Batches -> Proposal]
        /\ node[Holder[c]].currenView \in Nat /\ node[Holder[c]].replicaId = Holder[c]
    BY <1>4, CorrectNode, ViewFields
       DEF Propose, sendBatch, checkProposalWindow, createPrePrepareMsg,
           broadcastPrePrepareMsg, Stage, ViewInv, Inv, TypeOK
  <2>2. CASE sendBatch(b)
    <3>1. /\ proposal'[b].pc = "spawned"
               => Primary(node[Holder[b]].currenView) = Holder[b]
          /\ proposal'[b].pc \in {"spawned", "dropped"}
      BY <2>1, <2>2 DEF sendBatch, Stage
    <3>2. node[Holder[b]].currenView = 0 => proposal'[b].pc # "spawned"
      BY <2>1, <3>1
    <3> QED  BY <1>2, <2>1, <3>1, <3>2
  <2>3. CASE checkProposalWindow(b)
    <3>1. proposal[b].pc = "spawned" /\ proposal'[b].pc \in {"checked", "dropped"}
      BY <2>1, <2>3 DEF checkProposalWindow, Stage
    <3> QED  BY <1>1, <1>2, <2>1, <3>1
  <2>4. CASE createPrePrepareMsg(b)
    <3>1. /\ proposal[b].pc = "checked" /\ proposal'[b].pc = "created"
          /\ proposal'[b].view = node[Holder[b]].currenView
      BY <2>1, <2>4 DEF createPrePrepareMsg, Stage
    <3> QED  BY <1>1, <2>1, <3>1
  <2>5. CASE broadcastPrePrepareMsg(b)
    <3>1. proposal'[b].pc = "proposed"
      BY <2>1, <2>5 DEF broadcastPrePrepareMsg, Stage
    <3> QED  BY <2>1, <3>1
  <2> QED  BY <2>1, <2>2, <2>3, <2>4, <2>5 DEF Propose
<1> QED  BY <1>3, <1>4
-----------------------------------------------------------------------------
(***************************************************************************)
(* FirstInv survives every step that follows, enters a view only with its  *)
(* new view in store, and stores new views and reports as Stores says.     *)
(***************************************************************************)
Stores(r) ==
    /\ \A q \in Correct : q # r =>
         /\ store'[q].viewChangeStore = store[q].viewChangeStore
         /\ store'[q].newViewStore = store[q].newViewStore
    /\ \A rep \in store'[r].viewChangeStore :
         \/ rep \in store[r].viewChangeStore
         \/ \E vc \in Inbox(r, "ViewChange") :
              correctViewChange(vc) /\ rep \in Reports(vc, r)
    /\ \A v \in Views : store'[r].newViewStore[v] # store[r].newViewStore[v] =>
         /\ store[r].newViewStore[v] = Nil
         /\ \/ v > 0 /\ Made(r, store'[r].viewChangeStore, store'[r].newViewStore[v], v)
            \/ \E y \in newViews : y[2] = store'[r].newViewStore[v] /\ y[2].view = v
    /\ \A y \in newViews' :
         \/ y \in newViews
         \/ /\ y[2].view > 0 /\ r = Primary(y[2].view)
            /\ store'[r].newViewStore[y[2].view] = y[2]

\* What a step of replica r does, as far as FirstInv depends on it.
Advances(r) == /\ Follows(r) /\ Enters(r) /\ Stores(r) /\ ProposersOK'
               /\ Before(store') => Numbers

\* A new view stays in the store once it is there.
LEMMA NewViewsStay ==
    ASSUME NEW r \in Correct, Stores(r)
    PROVE  /\ \A q \in Correct, v \in Views : store[q].newViewStore[v] # Nil
                => store'[q].newViewStore[v] = store[q].newViewStore[v]
           /\ Before(store') => Before(store)
           /\ OnlyFirst(store') => OnlyFirst(store)
<1>1. \A q \in Correct, v \in Views : store[q].newViewStore[v] # Nil
                => store'[q].newViewStore[v] = store[q].newViewStore[v]
  BY DEF Stores
<1> QED  BY <1>1 DEF Before, OnlyFirst

\* Messages and new views are of views in range.
LEMMA ViewsInRange ==
    ASSUME ViewInv
    PROVE  /\ \A x \in net : x[2] \in Message /\ (x[2].type = "ViewChange"
                => x[2] \in ViewChangeMsg)
           /\ \A y \in newViews : y[2].view \in Views /\ y[2].view \in Nat /\ y[2] # Nil
           /\ \A q \in Correct : \A rep \in store[q].viewChangeStore : rep \in Report
<1>1. \A x \in net : x[2] \in Message
  BY DEF ViewInv, Inv, TypeOK
<1>2. \A m \in Message : m.type = "ViewChange" => m \in ViewChangeMsg
  BY DEF Message, PrePrepareMsg, PrepareMsg, PrepareQc, FastPrepareQc,
         CommitMsg, CommitQc, CheckpointMsg, ViewChangeMsg
<1>3. \A y \in newViews : y[2] \in NewViewMsg
  BY DEF ViewInv, ViewTypeOK
<1>4. \A nv \in NewViewMsg : nv.view \in Views /\ nv.view \in Nat /\ nv # Nil
  BY NilAssumption DEF NewViewMsg, Views
<1>5. \A q \in Correct : store[q] \in Store
  BY DEF ViewInv, ViewTypeOK, Correct
<1>6. \A q \in Correct : \A rep \in store[q].viewChangeStore : rep \in Report
  BY <1>5 DEF Store
<1> QED  BY <1>1, <1>2, <1>3, <1>4, <1>6

\* New views: made by a correct primary, or received from one.
LEMMA NewViewsKept ==
    ASSUME ViewInv, FirstInv, NEW r \in Correct, Advances(r)
    PROVE  NewViewsOK'
<1>1. /\ \A q \in Correct, v \in Views : store[q].newViewStore[v] # Nil
           => store'[q].newViewStore[v] = store[q].newViewStore[v]
  BY NewViewsStay DEF Advances
<1>2. NewViewsOK
  BY DEF FirstInv
<1>3. /\ \A q \in Correct : node[q].currenView \in Views
      /\ \A y \in newViews : y[2].view \in Views /\ y[2] # Nil
  BY ViewFields, ViewsInRange DEF ViewInv, Inv
<1>4. ASSUME NEW q \in Correct, node'[q].activeView, node'[q].currenView > 0
      PROVE  store'[q].newViewStore[node'[q].currenView] # Nil
  <2>1. CASE q # r
    <3>1. node'[q] = node[q]
      BY <2>1 DEF Advances, Follows, Goes
    <3> QED  BY <1>1, <1>2, <1>3, <1>4, <3>1 DEF NewViewsOK
  <2>2. CASE q = r
    BY <1>1, <1>2, <1>3, <1>4, <2>2 DEF NewViewsOK, Advances, Enters
  <2> QED  BY <2>1, <2>2
<1>5. ASSUME NEW q \in Correct, NEW v \in Views, store'[q].newViewStore[v] # Nil
      PROVE  /\ v > 0 /\ Primary(v) \in Correct /\ store'[q].newViewStore[v].view = v
             /\ store'[Primary(v)].newViewStore[v] = store'[q].newViewStore[v]
  <2>1. CASE store'[q].newViewStore[v] = store[q].newViewStore[v]
    <3>1. /\ v > 0 /\ Primary(v) \in Correct /\ store[q].newViewStore[v].view = v
          /\ store[Primary(v)].newViewStore[v] = store[q].newViewStore[v]
      BY <1>2, <1>5, <2>1 DEF NewViewsOK
    <3> QED  BY <1>1, <1>5, <2>1, <3>1
  <2>2. CASE store'[q].newViewStore[v] # store[q].newViewStore[v]
    <3>1. q = r
      BY <2>2 DEF Advances, Stores
    <3>2. CASE v > 0 /\ Made(r, store'[r].viewChangeStore, store'[r].newViewStore[v], v)
      BY <3>1, <3>2 DEF Made
    <3>3. CASE \E y \in newViews : y[2] = store'[r].newViewStore[v] /\ y[2].view = v
      <4>1. PICK y \in newViews : y[2] = store'[r].newViewStore[v] /\ y[2].view = v
        BY <3>3
      <4>2. /\ v > 0 /\ Primary(v) \in Correct /\ y[2] # Nil
            /\ store[Primary(v)].newViewStore[v] = y[2]
        BY <1>2, <1>3, <4>1 DEF NewViewsOK
      <4> QED  BY <1>1, <3>1, <4>1, <4>2
    <3> QED  BY <2>2, <3>1, <3>2, <3>3 DEF Advances, Stores
  <2> QED  BY <2>1, <2>2
<1>6. ASSUME NEW y \in newViews'
      PROVE  /\ y[2].view > 0 /\ Primary(y[2].view) \in Correct
             /\ store'[Primary(y[2].view)].newViewStore[y[2].view] = y[2]
  <2>1. CASE y \in newViews
    BY <1>1, <1>2, <1>3, <2>1 DEF NewViewsOK
  <2>2. CASE y \notin newViews
    BY <2>2 DEF Advances, Stores
  <2> QED  BY <2>1, <2>2
<1> QED  BY <1>4, <1>5, <1>6 DEF NewViewsOK

\* The replicas' own records and messages.
LEMMA FirstViewKept ==
    ASSUME ViewInv, ViewInv', FirstInv, NEW r \in Correct, Advances(r)
    PROVE  FirstViewOK'
<1>1. FirstViewOK
  BY DEF FirstInv
<1>2. ASSUME NEW q \in Correct
      PROVE  /\ Settled(node'[q]) /\ RecordsOK(node'[q])
             /\ \A sn \in SNs : q # Primary(0) => Timer0(node'[q], sn).pc = "none"
  <2>1. q # r => node'[q] = node[q]
    BY DEF Advances, Follows, Goes
  <2> QED  BY <1>1, <2>1 DEF FirstViewOK, Advances, Follows
<1>3. ASSUME NEW x \in net', x[2].type \in {"PrePrepare", "PrepareQc"}, x[2].view = 0
      PROVE  x[2].from = Primary(0)
  <2>1. CASE x \in net
    BY <1>1, <1>3, <2>1 DEF FirstViewOK
  <2>2. CASE x \notin net
    <3>1. Sends(r, x[2])
      BY <2>2 DEF Advances, Follows
    <3>2. CASE x[2].type = "PrePrepare"
      BY <1>3, <3>1, <3>2 DEF Sends, Honest
    <3>3. CASE x[2].type = "PrepareQc"
      <4>1. x[2] \in Message
        BY DEF ViewInv, Inv, TypeOK
      <4>2. x[2].sn \in SNs
        BY <3>3, <4>1 DEF Message, PrePrepareMsg, PrepareMsg, PrepareQc,
           FastPrepareQc, CommitMsg, CommitQc, CheckpointMsg, ViewChangeMsg
      <4>3. Honest(node'[r], x[2]) /\ node'[r].replicaId = r
        BY <3>1, <3>3 DEF Sends, ViewInv, Inv, TypeOK, Correct
      <4>4. x[2].from = r /\ Timer0(node'[r], x[2].sn).pc # "none"
        BY <1>3, <3>3, <4>2, <4>3 DEF Honest
      <4> QED  BY <1>2, <4>2, <4>4
    <3> QED  BY <1>3, <3>2, <3>3
  <2> QED  BY <2>1, <2>2
<1> QED  BY <1>2, <1>3 DEF FirstViewOK

\* What was told of a replica in a later view than the first stays true.
LEMMA SameTells ==
    ASSUME NEW n, NEW n2, SameRecords(n, n2)
    PROVE  /\ \A vc : Tells(n, vc) => Tells(n2, vc)
           /\ \A rep : Reported(n, rep)
                /\ (\A p \in rep.pset : p[1][1] \in SNs) => Reported(n2, rep)
<1>1. \A vc : Tells(n, vc) => Tells(n2, vc)
  BY DEF Tells, SameRecords
<1>2. ASSUME NEW rep, Reported(n, rep), \A p \in rep.pset : p[1][1] \in SNs
      PROVE  Reported(n2, rep)
  BY <1>2 DEF Reported, SameRecords
<1> QED  BY <1>1, <1>2

\* recvViewChange stores what a message tells: correctViewChange has seen to it
\* that the message for view 1 is about the first view only.
LEMMA ReportsTrue ==
    ASSUME NEW n, RecordsOK(n), NEW vc \in ViewChangeMsg, Tells(n, vc), vc.view = 1,
           correctViewChange(vc), NEW rep \in Reports(vc, Primary(1))
    PROVE  Reported(n, rep)
<1>1. PICK x \in (SUBSET vc.pset) \X (SUBSET vc.qset) :
         /\ LastMet(vc, x[1], x[2])
         /\ rep = [view |-> vc.view, from |-> vc.from,
                   lastStableCk |-> vc.lastStableCk, pset |-> x[1], qset |-> x[2]]
  BY DEF Reports
<1>2. /\ rep.pset \subseteq vc.pset /\ rep.qset \subseteq vc.qset
      /\ rep.lastStableCk = vc.lastStableCk
      /\ \A p \in vc.pset : \E z \in rep.pset : z[1][1] = p[1][1]
      /\ \A q \in vc.qset : \E z \in rep.qset : z.sn = q.sn
  BY <1>1 DEF LastMet
<1>3. ASSUME NEW p \in rep.pset PROVE p[1][2] = 0 /\ p[2] = Batch0(n, p[1][1])
  <2>1. p \in vc.pset
    BY <1>2
  <2>2. p \in Ids \X Batches
    BY <2>1 DEF ViewChangeMsg
  <2>3. p[1][2] < 1
    BY <2>1 DEF correctViewChange
  <2>4. p[1][2] = 0 /\ p[1][1] \in SNs /\ p[2] \in Batches
    BY <2>2, <2>3 DEF Ids, Views
  <2>5. p = <<<<p[1][1], 0>>, p[2]>>
    BY <2>2, <2>4 DEF Ids
  <2> QED  BY <2>1, <2>4, <2>5 DEF Tells
<1>4. ASSUME NEW sn \in SNs, sn > rep.lastStableCk
      PROVE  /\ Batch0(n, sn) # Nil => \E p \in rep.pset : p[1][1] = sn
             /\ Qc0(n, sn) # Nil => \E q \in rep.qset : q.sn = sn
  <2>1. ASSUME Batch0(n, sn) # Nil PROVE \E p \in rep.pset : p[1][1] = sn
    <3>1. <<<<sn, 0>>, Batch0(n, sn)>> \in vc.pset
      BY <1>2, <1>4, <2>1 DEF Tells
    <3> QED  BY <1>2, <3>1
  <2>2. ASSUME Qc0(n, sn) # Nil PROVE \E q \in rep.qset : q.sn = sn
    <3>1. Qc0(n, sn) \in vc.qset /\ Qc0(n, sn).sn = sn
      BY <1>2, <1>4, <2>2 DEF Tells, RecordsOK
    <3> QED  BY <1>2, <3>1
  <2> QED  BY <2>1, <2>2
<1> QED  BY <1>3, <1>4 DEF Reported

\* Before a new view is made, whoever has been told of has records that stay.
LEMMA RecordsStay ==
    ASSUME ViewInv, NEW r \in Correct, Advances(r), Before(store),
           NEW q \in Correct, NEW v \in Nat, v > 0, InView(node, q, v)
    PROVE  SameRecords(node[q], node'[q])
<1>1. OnlyFirst(store)
  BY DEF Before, OnlyFirst
<1>2. node[q].currenView \in Nat /\ node[q].currenView >= v
  BY ViewFields DEF ViewInv, Inv, InView
<1>3. node[q].currenView > 0
  BY <1>2
<1>4. CASE q = r
  BY <1>1, <1>3, <1>4 DEF Advances, Follows
<1>5. CASE q # r
  BY <1>5 DEF Advances, Follows, Goes, SameRecords
<1> QED  BY <1>4, <1>5

\* sendViewChange sends and recvViewChange stores true reports.
LEMMA ReportsKept ==
    ASSUME Withholding, ViewInv, ViewInv', FirstInv, NEW r \in Correct, Advances(r),
           Before(store)
    PROVE  ReportsOK'
<1>1. ReportsOK
  BY DEF FirstInv
<1>2. \A q \in Correct : node'[q].replicaId = q
  BY DEF ViewInv, Inv, TypeOK, Correct
<1>3. ASSUME NEW x \in net, x[2].type = "ViewChange"
      PROVE  /\ x[2].from \in Correct /\ x[2].view > 0
             /\ Tells(node[x[2].from], x[2]) /\ Tells(node'[x[2].from], x[2])
  <2>1. /\ x[2].from \in Correct /\ x[2].view > 0 /\ Tells(node[x[2].from], x[2])
        /\ InView(node, x[2].from, x[2].view)
    BY <1>1, <1>3 DEF ReportsOK, ViewInv, ViewsOK
  <2>2. x[2].view \in Nat
    BY <1>3, ViewsInRange DEF ViewChangeMsg, Views
  <2> QED  BY <2>1, <2>2, RecordsStay, SameTells
<1>4. ASSUME NEW x \in net', x[2].type = "ViewChange"
      PROVE  x[2].from \in Correct /\ x[2].view > 0 /\ Tells(node'[x[2].from], x[2])
  <2>1. CASE x \in net
    BY <1>3, <1>4, <2>1
  <2>2. CASE x \notin net
    <3>1. Honest(node'[r], x[2])
      BY <1>4, <2>2 DEF Advances, Follows, Sends
    <3> QED  BY <1>2, <1>4, <3>1 DEF Honest
  <2> QED  BY <2>1, <2>2
<1>5. ASSUME Primary(1) \in Correct, NEW rep \in store'[Primary(1)].viewChangeStore,
             rep.view = 1
      PROVE  IF rep.from \in Correct THEN Reported(node'[rep.from], rep)
             ELSE rep.pset = {}
  <2>1. CASE rep \in store[Primary(1)].viewChangeStore
    <3>1. /\ IF rep.from \in Correct THEN Reported(node[rep.from], rep)
             ELSE rep.pset = {}
          /\ rep \in Report /\ InView(node, rep.from, rep.view)
      BY <1>1, <1>5, <2>1, ViewsInRange DEF ReportsOK, TrueReports, ViewInv, ViewsOK
    <3>2. \A p \in rep.pset : p[1][1] \in SNs
      BY <3>1 DEF Report, Ids
    <3> QED  BY <1>5, <3>1, <3>2, RecordsStay, SameTells
  <2>2. CASE rep \notin store[Primary(1)].viewChangeStore
    <3>1. Primary(1) = r
      BY <1>5, <2>2 DEF Advances, Stores
    <3>2. PICK vc \in Inbox(r, "ViewChange") :
               correctViewChange(vc) /\ rep \in Reports(vc, r)
      BY <1>5, <2>2, <3>1 DEF Advances, Stores
    <3>3. rep.view = vc.view /\ rep.from = vc.from /\ rep.pset \subseteq vc.pset
      BY <3>2 DEF Reports
    <3>4. PICK x \in net \cup Forged : x[2] = vc /\ vc.type = "ViewChange"
      BY DEF Inbox
    <3>5. CASE x \in net
      <4>1. vc \in ViewChangeMsg /\ vc.from \in Correct /\ Tells(node'[vc.from], vc)
        BY <1>3, <3>4, <3>5, ViewsInRange
      <4>2. RecordsOK(node'[vc.from])
        BY <4>1, FirstViewKept DEF FirstViewOK
      <4> QED  BY <1>5, <3>1, <3>2, <3>3, <4>1, <4>2, ReportsTrue
    <3>6. CASE x \in Forged
      <4>1. vc.from \notin Correct /\ vc.pset = {}
        BY <1>5, <3>3, <3>4, <3>6, ForgeableAssumption DEF Forged, Withholding, Correct
      <4> QED  BY <3>3, <4>1
    <3> QED  BY <3>5, <3>6
  <2> QED  BY <2>1, <2>2
<1> QED  BY <1>4, <1>5 DEF ReportsOK, TrueReports

\* Every replica gets the batch of the first primary's only proposal.
LEMMA ProposalsKept ==
    ASSUME FirstPrimary, ViewInv, ViewInv', FirstInv, NEW r \in Correct, Advances(r),
           Before(store)
    PROVE  OneBatch(node') /\ (Before(store') => ProposalsOK')
<1>1. ProposalsOK
  BY DEF FirstInv
<1>2. ASSUME NEW sn \in SNs
      PROVE  \/ Proposed0(node', sn) = Proposed0(node, sn)
             \/ /\ Proposed0(node, sn) = Nil /\ sn = node[Primary(0)].nextSN
                /\ node'[Primary(0)].nextSN = sn + 1
  BY DEF Advances, Follows
<1>3. OneBatch(node')
  <2> SUFFICES ASSUME NEW q \in Correct, NEW sn \in SNs
               PROVE  Batch0(node'[q], sn) \in {Nil, Proposed0(node', sn)}
    BY DEF OneBatch
  <2>1. Batch0(node[q], sn) \in {Nil, Proposed0(node, sn)}
    BY <1>1 DEF ProposalsOK, OneBatch
  <2>2. Batch0(node'[q], sn) \in {Batch0(node[q], sn), Proposed0(node, sn)}
    BY DEF Advances, Follows, Goes
  <2> QED  BY <1>2, <2>1, <2>2
<1>4. ASSUME NEW x \in net', x[2].type = "PrePrepare", x[2].view = 0
      PROVE  x[2].digest = Proposed0(node', x[2].sn)
  <2>1. CASE x \in net
    <3>1. x[2] \in Message
      BY <2>1, ViewsInRange
    <3>2. x[2].sn \in SNs /\ x[2].digest \in Batches
      BY <1>4, <3>1 DEF Message, PrePrepareMsg, PrepareMsg, PrepareQc,
           FastPrepareQc, CommitMsg, CommitQc, CheckpointMsg, ViewChangeMsg
    <3>3. x[2].digest = Proposed0(node, x[2].sn)
      BY <1>1, <1>4, <2>1 DEF ProposalsOK
    <3> QED  BY <1>2, <3>2, <3>3, BatchAssumption
  <2>2. CASE x \notin net
    BY <1>4, <2>2 DEF Advances, Follows, Sends, Honest
  <2> QED  BY <2>1, <2>2
<1>5. ASSUME Before(store'), NEW sn \in SNs, sn >= node'[Primary(0)].nextSN
      PROVE  Proposed0(node', sn) = Nil
  <2>1. /\ node[Primary(0)].nextSN \in Nat /\ node'[Primary(0)].nextSN \in Nat
        /\ sn \in Nat
    BY DEF ViewInv, Inv, TypeOK, Node, FirstPrimary, Correct, SNs
  <2>2. sn >= node[Primary(0)].nextSN
    BY <1>5, <2>1 DEF Advances, Numbers
  <2>3. Proposed0(node, sn) = Nil
    BY <1>1, <2>2 DEF ProposalsOK
  <2> QED  BY <1>2, <1>5, <2>1, <2>3
<1> QED  BY <1>3, <1>4, <1>5 DEF ProposalsOK
-----------------------------------------------------------------------------
(***************************************************************************)
(* The new view that the primary of view 1 makes.                          *)
(***************************************************************************)
\* selectInitialSequence is at or above every checkpoint reported.
LEMMA InitialSequence ==
    ASSUME NEW vset \in SUBSET Report, NEW rep \in vset
    PROVE  /\ selectInitialSequence(vset) \in Nat
           /\ rep.lastStableCk <= selectInitialSequence(vset)
<1> DEFINE S == {x.lastStableCk : x \in vset}
           D == {MaxSN - s : s \in S}
<1>1. /\ MaxSN \in Nat /\ rep.lastStableCk \in S
      /\ \A s \in S : s \in Nat /\ s <= MaxSN
  BY ParameterAssumption DEF Report, SNs
<1> HIDE DEF S
<1>2. D \subseteq Nat /\ D # {}
  <2>1. \A s \in S : MaxSN - s \in Nat
    BY <1>1
  <2> QED  BY <1>1, <2>1
<1>3. PICK d \in D : \A y \in D : d <= y
  BY <1>2, LeastNat
<1>4. PICK s \in S : d = MaxSN - s
  OBVIOUS
<1>5. \A t \in S : s >= t
  <2> TAKE t \in S
  <2>1. MaxSN - s <= MaxSN - t
    BY <1>3, <1>4
  <2> QED  BY <1>1, <2>1
<1>6. \E m \in S : \A t \in S : m >= t
  BY <1>5
<1>7. Max(S) \in S /\ \A t \in S : Max(S) >= t
  BY <1>6 DEF Max
<1>8. Max(S) \in Nat /\ rep.lastStableCk <= Max(S)
  BY <1>1, <1>7
<1> QED  BY <1>8 DEF selectInitialSequence, S

\* The reports of a view come from as many senders.
LEMMA Senders ==
    ASSUME NEW vset \in SUBSET Report, NEW v, \A rep \in vset : rep.view = v,
           OnePerSender(vset)
    PROVE  /\ {rep.from : rep \in vset} \subseteq Replicas
           /\ IsFiniteSet({rep.from : rep \in vset}) /\ IsFiniteSet(vset)
           /\ Cardinality(vset) <= Cardinality({rep.from : rep \in vset})
<1> DEFINE A == {rep.from : rep \in vset}
           f == [rep \in vset |-> rep.from]
<1>1. A \subseteq Replicas
  BY DEF Report
<1>2. f \in Injection(vset, A)
  BY DEF OnePerSender, Injection, IsInjective
<1> HIDE DEF A, f
<1>3. IsFiniteSet(A)
  BY <1>1, ReplicasFinite, FS_Subset
<1>4. IsFiniteSet(vset) /\ Cardinality(vset) <= Cardinality(A)
  BY <1>2, <1>3, FS_Injection
<1> QED  BY <1>1, <1>3, <1>4 DEF A

\* Each of the senders in D has a report in P: there are no more of them.
LEMMA SendersOf ==
    ASSUME NEW P, IsFiniteSet(P), NEW D, \A q \in D : \E rep \in P : rep.from = q
    PROVE  IsFiniteSet(D) /\ Cardinality(D) <= Cardinality(P)
<1> DEFINE g == [q \in D |-> CHOOSE rep \in P : rep.from = q]
<1>1. \A q \in D : g[q] \in P /\ g[q].from = q
  OBVIOUS
<1>2. g \in [D -> P]
  <2>1. \A q \in D : (CHOOSE rep \in P : rep.from = q) \in P
    OBVIOUS
  <2> QED  BY <2>1
<1> HIDE DEF g
<1>3. \A a, b \in D : g[a] = g[b] => a = b
  BY <1>1
<1>4. IsInjective(g)
  BY <1>2, <1>3 DEF IsInjective
<1>5. g \in Injection(D, P)
  BY <1>2, <1>4 DEF Injection
<1> QED  BY <1>5, FS_Injection

\* The batch of a true report with a pre-prepare of a number is the one that its
\* sender has stored.
LEMMA BatchTold ==
    ASSUME NEW nodes, NEW vset, TrueReports(nodes, vset), \A x \in vset : x.view = 1,
           OneBatch(nodes), NEW sn \in SNs, NEW rep \in Prepared(vset, sn),
           BatchOf(rep, sn) # Nil
    PROVE  /\ rep \in vset /\ rep.from \in Correct
           /\ BatchOf(rep, sn) = Batch0(nodes[rep.from], sn)
           /\ BatchOf(rep, sn) = Proposed0(nodes, sn)
<1>1. PICK p \in rep.pset : p = (CHOOSE z \in rep.pset : z[1][1] = sn) /\ p[1][1] = sn
  BY DEF Prepared
<1>2. rep \in vset /\ rep.view = 1 /\ BatchOf(rep, sn) = p[2]
  BY <1>1 DEF Prepared, BatchOf
<1>3. rep.from \in Correct /\ Reported(nodes[rep.from], rep)
  BY <1>1, <1>2 DEF TrueReports
<1>4. p[2] = Batch0(nodes[rep.from], sn)
  BY <1>1, <1>3 DEF Reported
<1>5. Batch0(nodes[rep.from], sn) \in {Nil, Proposed0(nodes, sn)}
  BY <1>3 DEF OneBatch
<1> QED  BY <1>2, <1>3, <1>4, <1>5

\* assignSequenceNumbers on true reports: what it chooses is the only batch among
\* those who reported, and it finds none only if too few have reported one and
\* none of these a certificate with it.
LEMMA AssignedKeeps ==
    ASSUME NEW nodes, NEW vset \in SUBSET Report, TrueReports(nodes, vset),
           \A x \in vset : x.view = 1, OnePerSender(vset), OneBatch(nodes),
           \A q \in Correct, s \in SNs : Batch0(nodes[q], s) \in Digests,
           NEW sn \in SNs, \A x \in vset : sn > x.lastStableCk,
           NEW b \in Batches, b \in Assigned(vset, sn)
    PROVE  LET S == {x.from : x \in vset}
           IN  Agrees(nodes, S, sn, b) \/ Undecided(nodes, S, sn)
<1> DEFINE S == {x.from : x \in vset}
<1>1. ASSUME NEW rep \in Prepared(vset, sn), BatchOf(rep, sn) = b
      PROVE  Agrees(nodes, S, sn, b)
  <2>1. b = Proposed0(nodes, sn)
    BY <1>1, BatchTold, BatchAssumption
  <2> QED  BY <2>1 DEF Agrees, OneBatch
<1>2. PrePrepareSubsetCount(N, Pbm) \in Nat /\ PrePrepareSubsetCount(N, Pbm) >= 1
  <2>1. N \div 3 \in Nat /\ (Pbm + 1) \div 2 \in Nat
    BY ClusterAssumption
  <2> QED  BY <2>1 DEF PrePrepareSubsetCount
<1>3. CASE Certified(vset, sn) # {}
  <2>1. \E rep \in Certified(vset, sn) : BatchOf(rep, sn) = b
    BY <1>3 DEF Assigned
  <2> QED  BY <1>1, <2>1 DEF Certified
<1>4. CASE Certified(vset, sn) = {} /\ Popular(vset, sn) # {}
  <2> DEFINE P == {rep \in Prepared(vset, sn) : BatchOf(rep, sn) = b}
  <2>1. Cardinality(P) >= PrePrepareSubsetCount(N, Pbm)
    BY <1>4 DEF Assigned, Popular
  <2>2. P # {}
    BY <1>2, <2>1, FS_EmptySet
  <2> QED  BY <1>1, <2>2
<1>5. CASE Certified(vset, sn) = {} /\ Popular(vset, sn) = {}
  <2> DEFINE D == {q \in S \cap Correct : Batch0(nodes[q], sn) # Nil}
  <2>1. ASSUME NEW q \in S \cap Correct, Batch0(nodes[q], sn) # Nil
        PROVE  /\ Qc0(nodes[q], sn) = Nil
               /\ \E rep \in Prepared(vset, sn) :
                    rep.from = q /\ BatchOf(rep, sn) = Proposed0(nodes, sn)
    <3>1. PICK rep \in vset : rep.from = q
      OBVIOUS
    <3>2. Reported(nodes[q], rep) /\ sn > rep.lastStableCk
      BY <3>1 DEF TrueReports
    <3>3. rep \in Prepared(vset, sn)
      BY <2>1, <3>1, <3>2 DEF Reported, Prepared
    <3>4. Qc0(nodes[q], sn) = Nil
      BY <1>5, <3>2, <3>3 DEF Reported, Certified
    <3>5. BatchOf(rep, sn) # Nil
      <4>1. PICK p \in rep.pset :
                p = (CHOOSE z \in rep.pset : z[1][1] = sn) /\ p[1][1] = sn
        BY <3>3 DEF Prepared
      <4>2. p[2] = Batch0(nodes[q], sn)
        BY <3>2, <4>1 DEF Reported
      <4> QED  BY <2>1, <4>1, <4>2 DEF BatchOf
    <3> QED  BY <3>1, <3>3, <3>4, <3>5, BatchTold
  <2>2. Cardinality(D) < PrePrepareSubsetCount(N, Pbm)
    <3> DEFINE c == Proposed0(nodes, sn)
               P == {rep \in Prepared(vset, sn) : BatchOf(rep, sn) = c}
    <3>1. CASE D = {}
      <4> HIDE DEF D
      <4>1. Cardinality(D) = 0
        BY <3>1, FS_EmptySet
      <4> QED  BY <1>2, <4>1
    <3>2. CASE D # {}
      <4>1. c \in Batches
        BY <3>2 DEF OneBatch, Digests
      <4>2. ~(Cardinality(P) >= PrePrepareSubsetCount(N, Pbm))
        BY <1>5, <4>1 DEF Popular
      <4>3. IsFiniteSet(P)
        <5>1. IsFiniteSet(vset)
          BY Senders
        <5> QED  BY <5>1, FS_Subset DEF Prepared
      <4>4. \A q \in D : \E rep \in P : rep.from = q
        BY <2>1
      <4> HIDE DEF P, D, c
      <4>5. IsFiniteSet(D) /\ Cardinality(D) <= Cardinality(P)
        BY <4>3, <4>4, SendersOf
      <4>6. Cardinality(D) \in Nat /\ Cardinality(P) \in Nat
        BY <4>3, <4>5, FS_CardinalityType
      <4> QED  BY <1>2, <4>2, <4>5, <4>6
    <3> QED  BY <3>1, <3>2
  <2> QED  BY <2>1, <2>2 DEF Undecided
<1> QED  BY <1>3, <1>4, <1>5

\* A new view made from true reports keeps the first view.
LEMMA MadeKeeps ==
    ASSUME NEW nodes, NEW R \in SUBSET Report, OnePerSender(R), TrueReports(nodes, R),
           \A rep \in R : InView(nodes, rep.from, rep.view), OneBatch(nodes),
           \A q \in Correct, s \in SNs : Batch0(nodes[q], s) \in Digests,
           \A q \in Correct : nodes[q].currenView \in Nat,
           NEW r, NEW nv, Made(r, R, nv, 1)
    PROVE  Keeps(nodes, nv)
<1> DEFINE vset == {rep \in R : rep.view = 1}
           S == {rep.from : rep \in vset}
           m == selectInitialSequence(vset)
<1>1. /\ vset \in SUBSET Report /\ OnePerSender(vset) /\ TrueReports(nodes, vset)
      /\ \A rep \in vset : rep.view = 1 /\ InView(nodes, rep.from, 1)
      /\ Cardinality(vset) >= ViewChangeQuorum(N, Abm, Pbm)
      /\ nv.oset \in assignSequenceNumbers(vset, m)
  BY DEF OnePerSender, TrueReports, Made, ReportQuorum
<1> HIDE DEF vset
<1>2. /\ nv.oset \in [Window(m) -> Batches]
      /\ \A sn \in Window(m) : nv.oset[sn] \in Assigned(vset, sn)
  BY <1>1 DEF assignSequenceNumbers
<1>3. /\ S \subseteq Replicas /\ IsFiniteSet(S) /\ IsFiniteSet(vset)
      /\ Cardinality(vset) <= Cardinality(S)
  BY <1>1, Senders
<1>4. Left(nodes, S)
  <2>1. Cardinality(S) >= ViewChangeQuorum(N, Abm, Pbm)
    <3>1. Cardinality(S) \in Nat /\ Cardinality(vset) \in Nat
      BY <1>3, FS_CardinalityType
    <3>2. ViewChangeQuorum(N, Abm, Pbm) \in Int
      BY ClusterAssumption DEF ViewChangeQuorum
    <3> HIDE DEF S
    <3> QED  BY <1>1, <1>3, <3>1, <3>2
  <2>2. ASSUME NEW q \in S \cap Correct PROVE nodes[q].currenView > 0
    <3>1. nodes[q].currenView \in Nat /\ nodes[q].currenView >= 1
      BY <1>1 DEF InView
    <3> QED  BY <3>1
  <2> QED  BY <1>3, <2>1, <2>2 DEF Left
<1>5. ASSUME NEW sn \in DOMAIN nv.oset
      PROVE  Agrees(nodes, S, sn, nv.oset[sn]) \/ Undecided(nodes, S, sn)
  <2>1. sn \in Window(m) /\ nv.oset[sn] \in Batches /\ nv.oset[sn] \in Assigned(vset, sn)
    BY <1>2
  <2>2. sn \in SNs
    BY <2>1 DEF Window
  <2>3. \A x \in vset : sn > x.lastStableCk
    <3> TAKE x \in vset
    <3>1. m \in Nat /\ x.lastStableCk <= m
      BY <1>1, InitialSequence
    <3>2. x.lastStableCk \in Nat
      BY <1>1 DEF Report, SNs
    <3> HIDE DEF m
    <3>3. sn \in Nat /\ sn >= m + 1
      BY <2>1, <2>2, <3>1 DEF Window, SNs
    <3> QED  BY <3>1, <3>2, <3>3
  <2> QED  BY <1>1, <2>1, <2>2, <2>3, AssignedKeeps
<1> QED  BY <1>3, <1>4, <1>5 DEF Keeps

\* What a new view keeps, it keeps: those who have left the first view add
\* nothing to their records until a view after the next is made.
LEMMA KeepsOn ==
    ASSUME NEW r \in Correct, Advances(r), OnlyFirst(store),
           NEW nv \in NewViewMsg, Keeps(node, nv)
    PROVE  Keeps(node', nv)
<1>1. ASSUME NEW q \in Correct, node[q].currenView > 0
      PROVE  node'[q].currenView > 0 /\ SameRecords(node[q], node'[q])
  <2>1. CASE q = r
    BY <1>1, <2>1 DEF Advances, Follows, Goes
  <2>2. CASE q # r
    BY <1>1, <2>2 DEF Advances, Follows, Goes, SameRecords
  <2> QED  BY <2>1, <2>2
<1> SUFFICES ASSUME NEW sn \in DOMAIN nv.oset
             PROVE  \E S \in SUBSET Replicas :
                      /\ Left(node', S)
                      /\ Agrees(node', S, sn, nv.oset[sn]) \/ Undecided(node', S, sn)
  BY DEF Keeps
<1>2. PICK S \in SUBSET Replicas :
           /\ Left(node, S)
           /\ Agrees(node, S, sn, nv.oset[sn]) \/ Undecided(node, S, sn)
  BY DEF Keeps
<1>3. sn \in SNs
  BY DEF NewViewMsg
<1>4. Left(node', S)
  BY <1>1, <1>2 DEF Left
<1>5. \A q \in S \cap Correct : /\ Batch0(node'[q], sn) = Batch0(node[q], sn)
                                /\ Qc0(node'[q], sn) = Qc0(node[q], sn)
  BY <1>1, <1>2, <1>3 DEF Left, SameRecords
<1>6. Agrees(node, S, sn, nv.oset[sn]) => Agrees(node', S, sn, nv.oset[sn])
  BY <1>5 DEF Agrees
<1>7. {q \in S \cap Correct : Batch0(node'[q], sn) # Nil}
        = {q \in S \cap Correct : Batch0(node[q], sn) # Nil}
  BY <1>5
<1>8. Undecided(node, S, sn) => Undecided(node', S, sn)
  BY <1>5, <1>7 DEF Undecided
<1> QED  BY <1>2, <1>4, <1>6, <1>8

\* The new view of view 1, when it is made and afterwards.
LEMMA KeptFirst ==
    ASSUME FirstPrimary, Withholding, ViewInv, ViewInv', FirstInv,
           NEW r \in Correct, Advances(r)
    PROVE  KeepsFirst'
<1> DEFINE p == Primary(1)
           nv == store'[p].newViewStore[1]
<1> SUFFICES ASSUME OnlyFirst(store'), p \in Correct, nv # Nil
             PROVE  Keeps(node', nv)
  BY DEF KeepsFirst
<1>1. 1 \in Views /\ OnlyFirst(store) /\ Stores(r)
  BY NewViewsStay, ParameterAssumption DEF Views, Advances
<1>2. CASE store[p].newViewStore[1] # Nil
  <2>1. store[p].newViewStore[1] = nv
    BY <1>1, <1>2, NewViewsStay
  <2>2. Keeps(node, nv)
    BY <1>1, <1>2, <2>1 DEF FirstInv, KeepsFirst
  <2>3. nv \in NewViewMsg
    <3>1. store[p] \in Store
      BY DEF ViewInv, ViewTypeOK, Correct
    <3> QED  BY <1>1, <1>2, <2>1, <3>1 DEF Store
  <2> HIDE DEF nv
  <2> QED  BY <1>1, <2>2, <2>3, KeepsOn
<1>3. CASE store[p].newViewStore[1] = Nil
  <2>1. Before(store)
    BY <1>1, <1>3 DEF OnlyFirst, Before, FirstInv, NewViewsOK
  <2>2. p = r
    BY <1>3 DEF Advances, Stores
  <2>3. Made(r, store'[r].viewChangeStore, nv, 1)
    <3>1. ~\E y \in newViews : y[2] = nv /\ y[2].view = 1
      BY <1>3 DEF FirstInv, NewViewsOK
    <3> QED  BY <1>1, <1>3, <2>2, <3>1 DEF Stores
  <2> DEFINE R == store'[r].viewChangeStore
  <2>4. ReportsOK' /\ OneBatch(node')
    BY <2>1, ReportsKept, ProposalsKept
  <2>5. TrueReports(node', R) /\ OneBatch(node')
    BY <2>2, <2>4 DEF ReportsOK
  <2>6. R \in SUBSET Report /\ OnePerSender(R)
        /\ \A rep \in R : InView(node', rep.from, rep.view)
    BY ViewsInRange DEF ViewInv, ViewTypeOK, ViewsOK, OnePerSender, Correct, Store
  <2>7. \A q \in Correct : node'[q].currenView \in Nat
    BY DEF Advances, Follows, Goes
  <2>8. \A q \in Correct, s \in SNs : Batch0(node'[q], s) \in Digests
    <3>1. \A q \in Correct : node'[q] \in Node
      BY DEF ViewInv, Inv, TypeOK, Correct
    <3>2. \A s \in SNs : <<s, 0>> \in Ids
      BY ParameterAssumption DEF Ids, Views
    <3> QED  BY <3>1, <3>2, NodeRecorded DEF Recorded, Batch0
  <2> HIDE DEF R, nv
  <2>9. Made(r, R, nv, 1)
    BY <2>3 DEF R
  <2> QED  BY <2>5, <2>6, <2>7, <2>8, <2>9, MadeKeeps
<1> QED  BY <1>2, <1>3

\* FirstInv survives.
LEMMA FirstKept ==
    ASSUME FirstPrimary, Withholding, ViewInv, ViewInv', FirstInv,
           NEW r \in Correct, Advances(r)
    PROVE  FirstInv'
<1>1. FirstViewOK' /\ NewViewsOK' /\ ProposersOK' /\ KeepsFirst'
  BY FirstViewKept, NewViewsKept, KeptFirst DEF Advances
<1>2. Before(store') => ReportsOK' /\ ProposalsOK'
  BY NewViewsStay, ReportsKept, ProposalsKept DEF Advances
<1> QED  BY <1>1, <1>2 DEF FirstInv
-----------------------------------------------------------------------------
\* The normal case makes no new view and stores no report.
LEMMA NormalStores ==
    ASSUME ViewInv, NEW r \in Correct, UNCHANGED newViews,
           store' = [q \in Replicas |->
                       IF node'[q].currenView # node[q].currenView
                       THEN [store[q] EXCEPT !.timer = TRUE] ELSE store[q]]
    PROVE  Stores(r)
<1>1. \A q \in Correct : q \in Replicas /\ store[q] \in Store
  BY DEF ViewInv, ViewTypeOK, Correct
<1>2. \A q \in Correct : /\ store'[q].viewChangeStore = store[q].viewChangeStore
                         /\ store'[q].newViewStore = store[q].newViewStore
  BY <1>1 DEF Store
<1> QED  BY <1>2 DEF Stores

\* The steps of the normal case.
LEMMA NormalAdvances ==
    ASSUME FirstPrimary, ViewInv, FirstInv, NormalStep
    PROVE  \E r \in Correct : Advances(r)
<1>1. ASSUME NEW r \in Correct PROVE Stores(r)
  BY NormalStores DEF NormalStep
<1>2. ASSUME NEW b \in Batches, Propose(b) PROVE \E r \in Correct : Advances(r)
  <2> DEFINE r == Holder[b]
  <2>1. r \in Correct
    BY <1>2 DEF Propose, sendBatch, checkProposalWindow, createPrePrepareMsg,
                broadcastPrePrepareMsg, Stage, Running
  <2>2. (node' = node /\ net' = net) \/ broadcastPrePrepareMsg(b)
    BY <1>2 DEF Propose, sendBatch, checkProposalWindow, createPrePrepareMsg
  <2>3. Follows(r) /\ Enters(r) /\ Numbers
    BY <2>1, <2>2, SameFollows, broadcastPrePrepareFollows
  <2>4. ProposersOK'
    BY <1>2, <2>1, <2>3, ProposersKept DEF Follows
  <2> QED  BY <1>1, <2>1, <2>3, <2>4 DEF Advances
<1>3. ASSUME NEW r \in Correct,
             \/ prepareTimerFires(r) \/ prepareTimerSends(r)
             \/ goCheckIfPrepared(r) \/ Receive(r)
      PROVE  Advances(r)
  <2>1. /\ Follows(r) /\ proposal' = proposal
        /\ node'[r].nextSN = node[r].nextSN
        /\ node'[r].activeView => /\ node[r].activeView
                                  /\ node'[r].currenView = node[r].currenView
    BY <1>3, ReceiveFollows
  <2>2. Enters(r)
    BY <2>1 DEF Enters
  <2>3. Numbers
    <3>1. node[Primary(0)].nextSN \in Nat
      BY CorrectNode DEF FirstPrimary, ViewInv, Node
    <3> QED  BY <2>1, <3>1 DEF Numbers, Follows, Goes, FirstPrimary
  <2>4. ProposersOK'
    BY <2>1, ProposersKept, NullAssumption DEF Follows
  <2> QED  BY <1>1, <2>1, <2>2, <2>3, <2>4 DEF Advances
<1> QED  BY <1>2, <1>3 DEF NormalStep

\* The steps of the view change.
LEMMA HandlesAdvances ==
    ASSUME FirstPrimary, ViewInv, FirstInv, NEW r \in Correct, Handles(r)
    PROVE  Advances(r)
<1>1. PICK x, y, received, opened :
           /\ Backs(r, x) /\ Taken(r, x) /\ Carries(x, y, Ballots)
           /\ Apply(r, y, received, opened)
  BY DEF Handles
<1>2. /\ x.n = node[r] /\ x.sent = {} /\ node[r].replicaId = r
      /\ Settled(node[r]) /\ r \in Replicas
  BY <1>1, CorrectNode DEF Backs, FirstInv, FirstViewOK, ViewInv
<1>3. /\ Viewed(y.n) /\ node[r].currenView <= y.n.currenView
      /\ y.n.activeView =>
           \/ node[r].activeView /\ y.n.currenView = node[r].currenView
           \/ y.newViewStore[y.n.currenView] # Nil
      /\ y.n.nextSN = node[r].nextSN \/ \E v \in Views : y.newViewStore[v] # Nil
      /\ Recalls(node[r], y.n) /\ y.viewChangeStore = x.viewChangeStore
      /\ \A v \in Views : y.newViewStore[v] # x.newViewStore[v] =>
           /\ x.newViewStore[v] = Nil /\ v > 0
           /\ Made(r, y.viewChangeStore, y.newViewStore[v], v)
      /\ \A nv \in y.sent : /\ nv.view > 0 /\ r = Primary(nv.view)
                            /\ y.newViewStore[nv.view] = nv
  BY <1>1, <1>2 DEF Carries, MadeIn, Made
<1>4. Step(r, y.n, received) /\ proposal' = proposal
  BY <1>1 DEF Apply
<1>5. /\ store'[r].viewChangeStore = y.viewChangeStore
      /\ store'[r].newViewStore = y.newViewStore
      /\ \A q \in Correct : q # r => store'[q] = store[q]
  BY <1>1, <1>2 DEF Apply, ViewInv, ViewTypeOK, Correct
<1>6. \A z \in newViews' : z \in newViews \/ z[2] \in y.sent
  <2>1. PICK nvs \in SUBSET y.sent :
             newViews' = (newViews \ ({r} \X opened)) \cup Deliver(nvs, r)
    BY <1>1 DEF Apply
  <2> QED  BY <2>1 DEF Deliver
<1>7. Follows(r)
  BY <1>3, <1>4, WritesNothing, StepFollows
<1>8. /\ node'[r].currenView = y.n.currenView /\ node'[r].nextSN = y.n.nextSN
      /\ node'[r].activeView = y.n.activeView
  BY <1>3, <1>4, StepViews DEF ViewInv, Inv
<1>9. Enters(r)
  BY <1>3, <1>5, <1>8 DEF Enters
<1>10. Before(store') => Numbers
  <2>1. node[Primary(0)].nextSN \in Nat
    BY CorrectNode DEF FirstPrimary, ViewInv, Node
  <2>2. Before(store') => node'[r].nextSN = node[r].nextSN
    BY <1>3, <1>5, <1>8 DEF Before
  <2> QED  BY <1>7, <2>1, <2>2 DEF Numbers, Follows, Goes, FirstPrimary
<1>11. Stores(r)
  <2>1. \A rep \in store'[r].viewChangeStore :
          \/ rep \in store[r].viewChangeStore
          \/ \E vc \in Inbox(r, "ViewChange") :
               correctViewChange(vc) /\ rep \in Reports(vc, r)
    BY <1>1, <1>3, <1>5 DEF Taken
  <2>2. ASSUME NEW v \in Views, store'[r].newViewStore[v] # store[r].newViewStore[v]
        PROVE  /\ store[r].newViewStore[v] = Nil
               /\ \/ v > 0 /\ Made(r, store'[r].viewChangeStore,
                                   store'[r].newViewStore[v], v)
                  \/ \E z \in newViews :
                       z[2] = store'[r].newViewStore[v] /\ z[2].view = v
    <3>1. x.newViewStore[v] # store[r].newViewStore[v] =>
            /\ store[r].newViewStore[v] = Nil
            /\ \E z \in newViews : z[2] = x.newViewStore[v] /\ z[2].view = v
      BY <1>1 DEF Taken
    <3>2. CASE y.newViewStore[v] = x.newViewStore[v]
      BY <1>5, <2>2, <3>1, <3>2
    <3>3. CASE y.newViewStore[v] # x.newViewStore[v]
      BY <1>3, <1>5, <3>1, <3>3
    <3> QED  BY <3>2, <3>3
  <2>3. \A z \in newViews' :
          \/ z \in newViews
          \/ /\ z[2].view > 0 /\ r = Primary(z[2].view)
             /\ store'[r].newViewStore[z[2].view] = z[2]
    BY <1>3, <1>5, <1>6
  <2> QED  BY <1>5, <2>1, <2>2, <2>3 DEF Stores
<1>12. ProposersOK'
  BY <1>4, <1>7, ProposersKept, NullAssumption DEF Follows
<1> QED  BY <1>7, <1>9, <1>10, <1>11, <1>12 DEF Advances
-----------------------------------------------------------------------------
(***************************************************************************)
(* What FirstInv says about the new view of view 1.                        *)
(***************************************************************************)
\* A fast quorum and a view-change quorum share as many correct replicas as make
\* assignSequenceNumbers propose a pre-prepare again.
LEMMA FastShared ==
    ASSUME NEW A \in SUBSET Replicas, NEW S \in SUBSET Replicas,
           Cardinality(A) >= FastQuorum(N, Abm, Pbm),
           Cardinality(S) >= ViewChangeQuorum(N, Abm, Pbm)
    PROVE  Cardinality(A \cap S \cap Correct) >= PrePrepareSubsetCount(N, Pbm)
<1> DEFINE B == A \cap S
           C == A \cap S \cap Correct
<1>1. /\ IsFiniteSet(A) /\ IsFiniteSet(S) /\ IsFiniteSet(Faulty)
      /\ IsFiniteSet(A \cup S) /\ IsFiniteSet(B) /\ IsFiniteSet(C)
      /\ IsFiniteSet(Faulty \cap C) /\ IsFiniteSet(Faulty \cup C)
      /\ B \subseteq Faulty \cup C
  <2>1. /\ A \cup S \subseteq Replicas /\ B \subseteq Replicas
        /\ C \subseteq Replicas /\ Faulty \subseteq Replicas
        /\ Faulty \cap C \subseteq Replicas /\ Faulty \cup C \subseteq Replicas
    BY ClusterAssumption DEF Correct
  <2>2. B \subseteq Faulty \cup C
    BY DEF Correct
  <2> QED  BY <2>1, <2>2, ReplicasFinite, FS_Subset
<1>2. /\ Cardinality(A) \in Nat /\ Cardinality(S) \in Nat
      /\ Cardinality(Faulty) \in Nat /\ Cardinality(A \cup S) \in Nat
      /\ Cardinality(B) \in Nat /\ Cardinality(C) \in Nat
      /\ Cardinality(Faulty \cap C) \in Nat /\ Cardinality(Faulty \cup C) \in Nat
  BY <1>1, FS_CardinalityType
<1>3. /\ Cardinality(A \cup S) = Cardinality(A) + Cardinality(S) - Cardinality(B)
      /\ Cardinality(A \cup S) <= N
  BY <1>1, ReplicasFinite, FS_Union, FS_Subset
<1>4. /\ Cardinality(Faulty \cup C)
           = Cardinality(Faulty) + Cardinality(C) - Cardinality(Faulty \cap C)
      /\ Cardinality(B) <= Cardinality(Faulty \cup C)
  BY <1>1, FS_Union, FS_Subset
<1> HIDE DEF B, C
<1>5. Cardinality(B) <= Cardinality(Faulty) + Cardinality(C)
  BY <1>2, <1>4
<1>6. /\ F(N) \in Nat /\ N = 3 * F(N) + 1 /\ Cardinality(Faulty) <= F(N)
      /\ N \in Nat /\ Abm \in Nat /\ Pbm \in Nat
  BY QuorumSizes, ClusterAssumption
<1>7. /\ FastQuorum(N, Abm, Pbm) = N - Abm - Pbm \div 2
      /\ ViewChangeQuorum(N, Abm, Pbm) = 2 * F(N) + 1 + Abm + Pbm
      /\ PrePrepareSubsetCount(N, Pbm) = F(N) + 1 + (Pbm + 1) \div 2
  BY DEF FastQuorum, ViewChangeQuorum, PrePrepareSubsetCount, F
<1>8. /\ Pbm \div 2 \in Nat /\ (Pbm + 1) \div 2 \in Nat
      /\ Pbm = Pbm \div 2 + (Pbm + 1) \div 2
  BY <1>6
<1>9. Cardinality(C) >= F(N) + 1 + (Pbm + 1) \div 2
  BY <1>2, <1>3, <1>5, <1>6, <1>7, <1>8
<1> QED  BY <1>7, <1>9 DEF C

\* A correct signer of a prepare vote has stored the batch.
LEMMA SignedBatch ==
    ASSUME ViewInv, NEW q \in Correct, NEW id \in Ids, NEW b \in Batches,
           <<id, b>> \in node[q].signed
    PROVE  node[q].cert[id].reqBatchDigest = b
<1>1. Sound(node[q], Ballots)
  BY CorrectNode DEF ViewInv
<1> QED  BY <1>1, BatchAssumption DEF Sound

\* A batch that may have been executed was seen by somebody in every quorum that
\* has left the first view: by as many as are enough to propose it again, or
\* together with its certificate.
LEMMA FirstDecided ==
    ASSUME ViewInv, FirstInv, NEW S, Left(node, S), NEW sn \in SNs, NEW b \in Batches,
           NEW c, Agrees(node, S, sn, c) \/ Undecided(node, S, sn),
           Decided(sn, b), ~Orphaned(sn)
    PROVE  c = b
<1> DEFINE id == <<sn, 0>>
<1>1. id \in Ids /\ id[1] = sn /\ id[2] = 0 /\ b \in Digests /\ b # Nil
  BY ParameterAssumption, BatchAssumption DEF Ids, Views, Digests
<1>2. /\ S \in SUBSET Replicas /\ PrepareSigners(id, b) \in SUBSET Replicas
      /\ Cardinality(S) >= ViewChangeQuorum(N, Abm, Pbm)
  BY ClusterAssumption DEF Left, PrepareSigners, Correct
<1>3. ASSUME NEW q \in PrepareSigners(id, b) \cap S \cap Correct
      PROVE  Batch0(node[q], sn) = b
  <2>1. <<id, b>> \in node[q].signed
    BY DEF PrepareSigners, Correct
  <2> QED  BY <1>1, <2>1, SignedBatch DEF Batch0
<1>4. Cardinality(S) >= SlowQuorum(N)
  <2>1. /\ F(N) \in Nat /\ Abm \in Nat /\ Pbm \in Nat
        /\ SlowQuorum(N) = 2 * F(N) + 1
        /\ ViewChangeQuorum(N, Abm, Pbm) = 2 * F(N) + 1 + Abm + Pbm
    BY QuorumSizes, ClusterAssumption DEF ViewChangeQuorum, F
  <2>2. Cardinality(S) \in Nat
    BY <1>2, ReplicasFinite, FS_Subset, FS_CardinalityType
  <2> QED  BY <1>2, <2>1, <2>2
<1>5. CASE Cardinality(PrepareSigners(id, b)) >= FastQuorum(N, Abm, Pbm)
  <2> DEFINE D == PrepareSigners(id, b) \cap S \cap Correct
             E == {q \in S \cap Correct : Batch0(node[q], sn) # Nil}
  <2>1. Cardinality(D) >= PrePrepareSubsetCount(N, Pbm)
    BY <1>2, <1>5, FastShared
  <2>2. D \subseteq E /\ E \subseteq Replicas /\ D \subseteq Correct \cap S
    BY <1>1, <1>2, <1>3
  <2>3. /\ IsFiniteSet(D) /\ IsFiniteSet(E) /\ Cardinality(D) <= Cardinality(E)
        /\ Cardinality(D) \in Nat /\ Cardinality(E) \in Nat
    <3> HIDE DEF D, E
    <3>1. IsFiniteSet(E)
      BY <2>2, ReplicasFinite, FS_Subset
    <3>2. IsFiniteSet(D) /\ Cardinality(D) <= Cardinality(E)
      BY <2>2, <3>1, FS_Subset
    <3> QED  BY <3>1, <3>2, FS_CardinalityType
  <2>4. PrePrepareSubsetCount(N, Pbm) \in Nat /\ PrePrepareSubsetCount(N, Pbm) >= 1
    <3>1. N \div 3 \in Nat /\ (Pbm + 1) \div 2 \in Nat
      BY ClusterAssumption
    <3> QED  BY <3>1 DEF PrePrepareSubsetCount
  <2>5. ~Undecided(node, S, sn)
    <3>1. ~(Cardinality(E) < PrePrepareSubsetCount(N, Pbm))
      <4> HIDE DEF D, E
      <4> QED  BY <2>1, <2>3, <2>4
    <3> QED  BY <3>1 DEF Undecided
  <2>6. D # {}
    <3> HIDE DEF D
    <3> QED  BY <2>1, <2>3, <2>4, FS_EmptySet
  <2>7. PICK q \in D : TRUE
    BY <2>6
  <2> QED  BY <1>1, <1>3, <2>5, <2>7 DEF Agrees
<1>6. CASE \E r \in Correct : \E pqc \in node[r].signedCommits :
             /\ pqc.sn = sn /\ pqc.view = 0 /\ pqc.digest = b
             /\ Cardinality(CommitSigners(pqc)) >= SlowQuorum(N)
  <2>1. PICK r \in Correct : \E pqc \in node[r].signedCommits :
               /\ pqc.sn = sn /\ pqc.view = 0 /\ pqc.digest = b
               /\ Cardinality(CommitSigners(pqc)) >= SlowQuorum(N)
    BY <1>6
  <2>2. PICK pqc \in node[r].signedCommits :
               /\ pqc.sn = sn /\ pqc.view = 0 /\ pqc.digest = b
               /\ Cardinality(CommitSigners(pqc)) >= SlowQuorum(N)
    BY <2>1
  <2>3. pqc # Nil
    BY <2>2, CorrectNode, NilAssumption DEF ViewInv, Node
  <2>4. CommitSigners(pqc) \in SUBSET Replicas
    BY ClusterAssumption DEF CommitSigners, Correct
  <2>5. PICK q \in Correct : q \in CommitSigners(pqc) /\ q \in S
    BY <1>2, <1>4, <2>2, <2>4, SharedVoter
  <2>6. pqc \in node[q].signedCommits
    BY <2>5 DEF CommitSigners, Correct
  <2>7. Qc0(node[q], sn) = pqc
    BY <2>2, <2>6 DEF FirstInv, FirstViewOK, RecordsOK, Stored
  <2>8. Batch0(node[q], sn) # Nil
    BY <2>3, <2>7 DEF Orphaned, Batch0, Qc0
  <2>9. ~Undecided(node, S, sn)
    BY <2>3, <2>5, <2>7, <2>8 DEF Undecided
  <2>10. Cardinality(PrepareSigners(id, b)) >= SlowQuorum(N)
    <3>1. CertSound(id, node[q].cert[id], Votes(node[q], Ballots))
      BY <1>1, CorrectNode DEF ViewInv, Sound
    <3>2. QcSound(pqc, Ballots)
      BY <2>3, <2>7, <3>1, CorrectNode, Zenon DEF CertSound, Qc0, ViewInv
    <3> QED  BY <1>1, <2>2, <3>2, PrepareSignersAreVoters DEF QcSound, Backed
  <2>11. PICK p \in Correct : p \in PrepareSigners(id, b) /\ p \in S
    BY <1>2, <1>4, <2>10, SharedVoter
  <2> QED  BY <1>1, <1>3, <2>9, <2>11 DEF Agrees
<1> QED  BY <1>5, <1>6 DEF Decided

\* NewViewKeepsBatches follows: while no view after the next is made, the new
\* view is in the store of its primary, with what it keeps.
LEMMA FirstInvKeeps == ViewInv /\ FirstInv => NewViewKeepsBatches
<1> SUFFICES ASSUME ViewInv, FirstInv, \A nv \in NewViewsMade : nv.view = 1,
                    NEW nv \in NewViewsMade, NEW sn \in DOMAIN nv.oset,
                    NEW b \in Batches, Decided(sn, b), ~Orphaned(sn)
             PROVE  nv.oset[sn] = b
  BY DEF NewViewKeepsBatches
<1>1. \A r \in Correct, v \in Views : store[r].newViewStore[v] # Nil
        => store[r].newViewStore[v] \in NewViewsMade
  BY DEF NewViewsMade
<1>2. OnlyFirst(store)
  BY <1>1 DEF OnlyFirst, FirstInv, NewViewsOK
<1>3. /\ Primary(1) \in Correct /\ store[Primary(1)].newViewStore[1] = nv
      /\ nv \in NewViewMsg
  <2>1. nv # Nil /\ nv.view = 1
    BY DEF NewViewsMade
  <2>2. CASE \E y \in newViews : y[2] = nv
    <3>1. nv \in NewViewMsg
      BY <2>2 DEF ViewInv, ViewTypeOK
    <3> QED  BY <2>1, <2>2, <3>1 DEF FirstInv, NewViewsOK
  <2>3. CASE \E r \in Correct, v \in Views : store[r].newViewStore[v] = nv
    <3>1. PICK r \in Correct, v \in Views : store[r].newViewStore[v] = nv
      BY <2>3
    <3>2. v = 1
      BY <1>2, <2>1, <3>1 DEF OnlyFirst
    <3>3. store[r] \in Store
      BY DEF ViewInv, ViewTypeOK, Correct
    <3>4. nv \in NewViewMsg
      BY <2>1, <3>1, <3>3 DEF Store
    <3> QED  BY <2>1, <3>1, <3>2, <3>4 DEF FirstInv, NewViewsOK
  <2> QED  BY <2>2, <2>3 DEF NewViewsMade
<1>4. sn \in SNs
  BY <1>3 DEF NewViewMsg
<1>5. Keeps(node, nv)
  <2>1. nv # Nil
    BY DEF NewViewsMade
  <2> QED  BY <1>2, <1>3, <2>1 DEF FirstInv, KeepsFirst
<1>6. PICK S \in SUBSET Replicas :
           /\ Left(node, S)
           /\ Agrees(node, S, sn, nv.oset[sn]) \/ Undecided(node, S, sn)
  BY <1>5 DEF Keeps
<1> QED  BY <1>4, <1>6, FirstDecided

\* The replicas start with empty records.
LEMMA FirstInit ==
    ASSUME FirstPrimary, ViewInit
    PROVE  FirstInv
<1>1. \A r \in Correct : node[r] = NewNode(r) /\ r \in Replicas
  BY DEF ViewInit, Init, Correct
<1>2. ASSUME NEW r \in Correct, NEW sn \in SNs
      PROVE  /\ Batch0(node[r], sn) = Nil /\ Qc0(node[r], sn) = Nil
             /\ Timer0(node[r], sn) = [pc |-> "none", batch |-> Nil]
  <2>1. <<sn, 0>> \in Ids
    BY ParameterAssumption DEF Ids, Views
  <2>2. /\ NewNode(r).cert[<<sn, 0>>] = EmptyCert
        /\ NewNode(r).prepareTimer[<<sn, 0>>] = [pc |-> "none", batch |-> Nil]
    BY <2>1 DEF NewNode
  <2>3. EmptyCert.reqBatchDigest = Nil /\ EmptyCert.prepareQc = Nil
    BY DEF EmptyCert
  <2> QED  BY <1>1, <2>2, <2>3 DEF Batch0, Qc0, Timer0
<1>3. \A r \in Correct : /\ node[r].signedCommits = {} /\ node[r].activeView = TRUE
                         /\ node[r].currenView = 0
  <2>1. \A r : /\ NewNode(r).signedCommits = {} /\ NewNode(r).activeView = TRUE
               /\ NewNode(r).currenView = 0
    BY DEF NewNode
  <2> QED  BY <1>1, <2>1
<1>4. net = {} /\ newViews = {}
  BY DEF ViewInit, Init
<1>5. \A r \in Correct : /\ store[r].viewChangeStore = {}
                         /\ \A v \in Views : store[r].newViewStore[v] = Nil
  BY <1>1 DEF ViewInit, EmptyStore
<1>6. FirstViewOK
  BY <1>2, <1>3, <1>4 DEF FirstViewOK, Settled, RecordsOK
<1>7. ProposersOK
  BY DEF ProposersOK, ViewInit, Init
<1>8. NewViewsOK
  BY <1>3, <1>4, <1>5 DEF NewViewsOK
<1>9. ReportsOK
  BY <1>4, <1>5 DEF ReportsOK, TrueReports
<1>10. ProposalsOK
  <2>1. \A sn \in SNs : Proposed0(node, sn) = Nil
    BY <1>2 DEF Proposed0, FirstPrimary
  <2> QED  BY <1>2, <1>4, <2>1 DEF ProposalsOK, OneBatch
<1>11. KeepsFirst
  BY <1>5, ParameterAssumption DEF KeepsFirst, Views
<1> QED  BY <1>6, <1>7, <1>8, <1>9, <1>10, <1>11 DEF FirstInv

\* Every step of ViewNext preserves FirstInv.
LEMMA FirstNext ==
    ASSUME FirstPrimary, Withholding, ViewInv, ViewInv', FirstInv, [ViewNext]_vcVars
    PROVE  FirstInv'
<1>1. CASE ViewNext
  <2>1. \E r \in Correct : Advances(r)
    <3>1. ASSUME NEW r \in Correct, RecvViewChange(r) \/ RecvNewView(r) \/ TimeOut(r)
          PROVE  Advances(r)
      BY <3>1, RecvViewChangeHandles, RecvNewViewHandles, TimeOutHandles,
         HandlesAdvances
    <3> QED  BY <1>1, <3>1, NormalAdvances DEF ViewNext
  <2> QED  BY <2>1, FirstKept
<1>2. CASE UNCHANGED vcVars
  BY <1>2 DEF vcVars, FirstInv, FirstViewOK, ProposersOK, NewViewsOK, ReportsOK,
              ProposalsOK, KeepsFirst
<1> QED  BY <1>1, <1>2

\* In a cluster whose first primary is correct, and whose faulty replicas invent
\* no batches when they report for view 1, no batch that view 0 may have executed
\* is lost in the new view of view 1, unless some replica got its certificate
\* before its pre-prepare.
THEOREM BatchesKept ==
    ASSUME FirstPrimary, Withholding
    PROVE  ViewSpec => []NewViewKeepsBatches
<1>1. ViewInit => FirstInv
  BY FirstInit
<1>2. ViewInv /\ ViewInv' /\ FirstInv /\ [ViewNext]_vcVars => FirstInv'
  BY FirstNext
<1>3. ViewInv /\ FirstInv => NewViewKeepsBatches
  BY FirstInvKeeps
<1> QED  BY <1>1, <1>2, <1>3, ViewInvariant, PTL DEF ViewSpec
=============================================================================
