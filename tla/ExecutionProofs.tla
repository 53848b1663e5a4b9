-------------------------- MODULE ExecutionProofs --------------------------
(***************************************************************************)
(* Theorems about NormalCase under a correct first primary, whatever the   *)
(* other faulty replicas send: what is executed has been signed by a       *)
(* quorum under its number, correct replicas execute the same, and the     *)
(* normal case implements the common log of OrderedLog.                    *)
(*                                                                         *)
(* Nothing in the code compares a certificate with the batch it is used to *)
(* execute.  That they agree rests on the proposer: it gives every number  *)
(* to one batch only, so that every vote for the number is a vote for that *)
(* batch.  ExecInv says so.                                                *)
(***************************************************************************)
EXTENDS ReportProofs

Proposals(n) == {<<id, n.prepareTimer[id].batch>> :
                    id \in {i \in Ids : n.prepareTimer[i].pc # "none"}}

\* What the first primary has proposed; its fast-path timers keep the record.
Proposed == Proposals(node[Primary(0)])

\* No number is used twice.
Functional(D) == \A p, q \in D : p[1][1] = q[1][1] => p = q

\* A vote is about a number of D; if it is about the view in which the number
\* was proposed, which is the first one, it is for the batch proposed.
Honest(x, D) ==
    \E p \in D : /\ p[1][1] = x[1][1]
                 /\ p[1][2] # 0 => x[1][2] = 0
                 /\ p[1][2] = 0 /\ x[1][2] = 0 => x[2] = p[2]

HonestVotes(D) == \A r \in Correct : \A x \in node[r].signed : Honest(x, D)

\* Only the first primary has a proposal on its way.
ProposerOK ==
    \A b \in Batches : proposal[b].pc \in {"spawned", "checked", "created"}
                       => Holder[b] = Primary(0)

NumbersOK == /\ Functional(Proposed)
             /\ \A p \in Proposed : p[1][1] < node[Primary(0)].nextSN

ExecInv == /\ Inv /\ Records(Proposed) /\ HonestVotes(Proposed)
           /\ ProposerOK /\ NumbersOK
-----------------------------------------------------------------------------
\* A stored batch of D that has a certificate is the one that a quorum has
\* signed under its number in the first view.
LEMMA CertifiedBatch ==
    ASSUME Inv, NEW D, Functional(D), HonestVotes(D),
           NEW n \in Node, Recorded(n, Ballots, D),
           NEW id \in Ids, n.cert[id].reqBatchDigest # Nil, HasQc(n.cert[id])
    PROVE  id[2] = 0 /\ Backed(Ballots, id, n.cert[id].reqBatchDigest)
<1> DEFINE c == n.cert[id]
           b == c.reqBatchDigest
<1>1. <<id, b>> \in D /\ Filed(id, c, Ballots)
  BY DEF Recorded
<1>2. PICK d : Backed(Ballots, id, d)
  BY <1>1 DEF HasQc, Filed
<1>3. PICK r \in Correct : <<id, d>> \in node[r].signed
  <2> DEFINE A == Voters(Ballots, id, d)
  <2>1. A \subseteq Replicas /\ Cardinality(A) >= SlowQuorum(N)
    BY <1>2 DEF Voters, Backed
  <2>2. PICK r \in Correct : r \in A
    BY <2>1, SharedVoter
  <2> QED  BY <2>2 DEF Voters, Ballots, Correct
<1>4. PICK p \in D : /\ p[1][1] = id[1]
                     /\ p[1][2] # 0 => id[2] = 0
                     /\ p[1][2] = 0 /\ id[2] = 0 => d = p[2]
  BY <1>3 DEF HonestVotes, Honest
<1>5. p = <<id, b>>
  BY <1>1, <1>4 DEF Functional
<1> HIDE DEF b
<1>6. id[2] = 0 /\ d = b
  BY <1>4, <1>5
<1> QED  BY <1>2, <1>6 DEF b

\* The votes of a replica with good records are honest: in a later view it votes
\* only about what was proposed in the first one.
LEMMA VotesHonest ==
    ASSUME Inv, NEW D, Functional(D), HonestVotes(D),
           NEW n \in Node, Recorded(n, Ballots, D), NEW x \in n.signed
    PROVE  Honest(x, D)
<1>1. x[1][1] \in SNs
  BY DEF Node, Ids
<1>2. PICK view \in Views :
         LET c == n.cert[<<x[1][1], view>>]
         IN  /\ c.reqBatchDigest # Nil
             /\ view # 0 /\ x[1][2] # 0 => HasQc(c)
             /\ view = 0 /\ x[1][2] = 0 => x[2] = c.reqBatchDigest
  BY DEF Recorded, VoteCast
<1> DEFINE id == <<x[1][1], view>>
           p == <<id, n.cert[id].reqBatchDigest>>
<1>3. id \in Ids /\ id[1] = x[1][1] /\ id[2] = view
  BY <1>1 DEF Ids
<1>4. p \in D
  BY <1>2, <1>3 DEF Recorded
<1>5. view # 0 => x[1][2] = 0
  BY <1>2, <1>3, CertifiedBatch
<1>6. p[1][1] = x[1][1] /\ p[1][2] = view /\ p[2] = n.cert[id].reqBatchDigest
  BY <1>3
<1> HIDE DEF id, p
<1>7. view = 0 /\ x[1][2] = 0 => x[2] = p[2]
  BY <1>2, <1>6 DEF id
<1> QED  BY <1>4, <1>5, <1>6, <1>7 DEF Honest

\* What is executed is backed by a quorum under its number.
LEMMA ExecutedBacked ==
    ASSUME Inv, NEW D, Functional(D), HonestVotes(D),
           NEW n \in Node, Recorded(n, Ballots, D), NEW sn \in SNs,
           NEW b, b # Nil, Justified(n, sn, b)
    PROVE  Backed(Ballots, <<sn, 0>>, b)
<1>1. PICK view \in Views : /\ n.cert[<<sn, view>>].reqBatchDigest = b
                            /\ HasQc(n.cert[<<sn, view>>])
  BY DEF Justified
<1>2. <<sn, view>> \in Ids /\ <<sn, view>>[2] = view
  BY DEF Ids
<1>3. view = 0 /\ Backed(Ballots, <<sn, view>>, b)
  BY <1>1, <1>2, CertifiedBatch
<1> QED  BY <1>3
-----------------------------------------------------------------------------
\* More proposals do honest votes no harm.
LEMMA HonestMono ==
    ASSUME NEW D, NEW D2, D \subseteq D2, HonestVotes(D)
    PROVE  HonestVotes(D2)
BY DEF HonestVotes, Honest

\* After a step whose code extends its node, all votes are honest.
LEMMA StepHonest ==
    ASSUME Inv, NEW D, Functional(D), HonestVotes(D),
           NEW r \in Correct, NEW n, Extends(node[r], n, Ballots, D),
           NEW received, Step(r, n, received)
    PROVE  HonestVotes(D)'
<1>1. n \in Node /\ Recorded(n, Ballots, D) /\ TypeOK
  BY DEF Extends, Inv
<1>2. /\ \A q \in Correct : q # r => node'[q] = node[q]
      /\ node'[r].signed = n.signed
  BY <1>1, StepNode
<1>3. \A x \in n.signed : Honest(x, D)
  BY <1>1, VotesHonest
<1>4. ASSUME NEW q \in Correct, NEW x \in node'[q].signed PROVE Honest(x, D)
  BY <1>2, <1>3, <1>4 DEF HonestVotes
<1> QED  BY <1>4 DEF HonestVotes, Honest

\* The parts of the invariant after a step, for the proposals D after it.
LEMMA ExecInvParts ==
    ASSUME NEW D, Proposed' = D, Functional(D), Inv', Records(D)',
           HonestVotes(D)', ProposerOK',
           \A p \in D : p[1][1] < node'[Primary(0)].nextSN
    PROVE  ExecInv'
<1>1. Records(Proposed)'
  BY DEF Records
<1>2. HonestVotes(Proposed)'
  BY DEF HonestVotes
<1>3. NumbersOK'
  BY DEF NumbersOK, Functional
<1> QED  BY <1>1, <1>2, <1>3 DEF ExecInv

\* The code that does not propose.
LEMMA CodeExec ==
    ASSUME Primary(0) \in Correct, ExecInv, NEW r \in Correct, Inv',
           \/ Receive(r) \/ goCheckIfPrepared(r)
           \/ prepareTimerFires(r) \/ prepareTimerSends(r)
    PROVE  ExecInv'
<1>1. PICK D : D = Proposed
  OBVIOUS
<1>2. /\ Inv /\ TypeOK /\ Records(D) /\ HonestVotes(D) /\ Functional(D)
      /\ ProposerOK /\ \A p \in D : p[1][1] < node[Primary(0)].nextSN
  BY <1>1 DEF ExecInv, Inv, NumbersOK
<1>3. /\ proposal' = proposal
      /\ \E n, received : /\ Follows(node[r], n, Ballots, D)
                          /\ Step(r, n, received)
  BY <1>2, CodeFollows
<1>4. PICK n, received : /\ Follows(node[r], n, Ballots, D)
                         /\ Step(r, n, received)
  BY <1>3
<1>5. Extends(node[r], n, Ballots, D) /\ n \in Node
  BY <1>4 DEF Follows, Extends
<1>6. /\ \A q \in Correct : q # r => node'[q] = node[q]
      /\ node'[r].nextSN = n.nextSN /\ node'[r].prepareTimer = n.prepareTimer
  BY <1>2, <1>4, <1>5, StepNode
<1>7. Records(D)'
  BY <1>2, <1>4, <1>5, StepRecords
<1>8. HonestVotes(D)'
  BY <1>2, <1>4, <1>5, StepHonest
<1>9. /\ node'[Primary(0)].nextSN = node[Primary(0)].nextSN
      /\ \A id \in Ids : SameProposal(node[Primary(0)].prepareTimer[id],
                                      node'[Primary(0)].prepareTimer[id])
  BY <1>4, <1>6 DEF Follows, SameProposal
<1>10. Proposed' = D
  BY <1>1, <1>9 DEF Proposed, Proposals, SameProposal
<1>11. ProposerOK'
  BY <1>2, <1>3 DEF ProposerOK
<1> QED  BY <1>2, <1>7, <1>8, <1>9, <1>10, <1>11, ExecInvParts

\* The proposer: numbers are given to one batch only.
LEMMA ProposeExec ==
    ASSUME Primary(0) \in Correct, ExecInv, NEW b \in Batches, Propose(b), Inv'
    PROVE  ExecInv'
<1> DEFINE r == Holder[b]
           n == node[r]
           p0 == Primary(0)
<1>1. /\ Inv /\ TypeOK /\ Records(Proposed) /\ HonestVotes(Proposed)
      /\ Functional(Proposed) /\ ProposerOK
      /\ \A p \in Proposed : p[1][1] < node[p0].nextSN
  BY DEF ExecInv, Inv, NumbersOK
<1>2. r \in Correct
  BY DEF Propose, sendBatch, checkProposalWindow, createPrePrepareMsg,
         broadcastPrePrepareMsg, Stage, Running
<1>3. n \in Node /\ n.replicaId = r /\ Recorded(n, Ballots, Proposed)
  BY <1>1, <1>2, CorrectNode DEF Records
<1>4. proposal \in [Batches -> Proposal]
  BY <1>1 DEF TypeOK
<1>5. ProposerOK'
  <2>1. ASSUME NEW to, proposal' = [proposal EXCEPT ![b] = to],
               to.pc \in {"spawned", "checked", "created"} => r = Primary(0)
        PROVE  ProposerOK'
    BY <1>1, <1>4, <2>1 DEF ProposerOK
  <2>2. CASE sendBatch(b)
    <3> DEFINE go == n.activeView /\ Primary(n.currenView) = n.replicaId
               to == [pc |-> IF go THEN "spawned" ELSE "dropped", view |-> 0]
    <3>1. proposal' = [proposal EXCEPT ![b] = to]
      BY <2>2 DEF sendBatch, Stage
    <3>2. go => r = Primary(0)
      BY <1>3 DEF Recorded
    <3> HIDE DEF go
    <3>3. to.pc \in {"spawned", "checked", "created"} => r = Primary(0)
      BY <3>2
    <3> QED  BY <2>1, <3>1, <3>3
  <2>3. CASE checkProposalWindow(b)
    <3>1. r = Primary(0)
      BY <1>1, <2>3 DEF checkProposalWindow, Stage, ProposerOK
    <3> QED  BY <2>1, <2>3, <3>1 DEF checkProposalWindow, Stage
  <2>4. CASE createPrePrepareMsg(b)
    <3>1. r = Primary(0)
      BY <1>1, <2>4 DEF createPrePrepareMsg, Stage, ProposerOK
    <3> QED  BY <2>1, <2>4, <3>1 DEF createPrePrepareMsg, Stage
  <2>5. CASE broadcastPrePrepareMsg(b)
    BY <2>1, <2>5 DEF broadcastPrePrepareMsg, Stage
  <2> QED  BY <2>2, <2>3, <2>4, <2>5 DEF Propose
<1>6. CASE UNCHANGED <<node, net>>
  <2>1. Ballots' = Ballots /\ Proposed' = Proposed
    BY <1>6 DEF Ballots, Proposed
  <2>2. Records(Proposed)'
    BY <1>1, <1>6, <2>1 DEF Records
  <2>3. HonestVotes(Proposed)' /\ NumbersOK'
    BY <1>1, <1>6, <2>1 DEF HonestVotes, NumbersOK
  <2> QED  BY <1>5, <2>2, <2>3 DEF ExecInv
<1>7. CASE broadcastPrePrepareMsg(b)
  <2> DEFINE id == <<n.nextSN, proposal[b].view>>
  <2>1. PICK D : D = Proposed
    OBVIOUS
  <2>2. PICK D2 : D2 = D \cup {<<id, b>>}
    OBVIOUS
  <2>3. /\ Records(D) /\ HonestVotes(D) /\ Functional(D)
        /\ \A p \in D : p[1][1] < node[p0].nextSN
    BY <1>1, <2>1
  <2>4. r = Primary(0)
    BY <1>1, <1>7 DEF broadcastPrePrepareMsg, Stage, ProposerOK
  <2>5. /\ id \in Ids
        /\ \E m : /\ Extends(n, m, Ballots, D2)
                  /\ m.nextSN = n.nextSN + 1
                  /\ m.prepareTimer = [n.prepareTimer EXCEPT
                       ![id] = [pc |-> "running", batch |-> b]]
                  /\ Step(r, m, {})
    BY <1>1, <1>7, <2>2, <2>3, ProposalExtends
  <2>6. PICK m : /\ Extends(n, m, Ballots, D2)
                 /\ m.nextSN = n.nextSN + 1
                 /\ m.prepareTimer = [n.prepareTimer EXCEPT
                      ![id] = [pc |-> "running", batch |-> b]]
                 /\ Step(r, m, {})
    BY <2>5
  <2>7. m \in Node
    BY <2>6 DEF Extends
  <2>8. node'[r].nextSN = m.nextSN /\ node'[r].prepareTimer = m.prepareTimer
    BY <1>1, <1>2, <2>6, <2>7, StepNode
  <2>9. n.nextSN \in Nat /\ id[1] = n.nextSN
    BY <1>3 DEF Node
  <2>10. n.prepareTimer \in [Ids -> FastTimer]
    BY <1>3 DEF Node
  <2>12. D = Proposals(n)
    BY <2>1, <2>4 DEF Proposed
  <2>11. \A p \in D : p[1][1] \in SNs /\ p[1][1] < n.nextSN
    <3>1. \A p \in D : p[1] \in Ids
      BY <2>12 DEF Proposals
    <3>2. \A i \in Ids : i[1] \in SNs
      BY DEF Ids
    <3>3. \A p \in D : p[1][1] < n.nextSN
      BY <2>3, <2>4
    <3> QED  BY <3>1, <3>2, <3>3
  <2>13. Proposed' = Proposals(node'[r])
    BY <2>4 DEF Proposed
  <2>14. Records(D2) /\ HonestVotes(D2)
    BY <2>2, <2>3, RecordsMono, HonestMono
  <2> HIDE DEF id, n, r
  <2>15. n.prepareTimer[id].pc = "none"
    <3>1. n.prepareTimer[id].pc # "none" => <<id, n.prepareTimer[id].batch>> \in D
      BY <2>5, <2>12 DEF Proposals
    <3>2. <<id, n.prepareTimer[id].batch>>[1][1] = n.nextSN
      BY <2>9
    <3> QED  BY <2>9, <2>11, <3>1, <3>2
  <2>16. Proposals(node'[r]) = D2
    <3> DEFINE t == n.prepareTimer
               t2 == node'[r].prepareTimer
    <3>1. t2 = [t EXCEPT ![id] = [pc |-> "running", batch |-> b]]
      BY <2>6, <2>8
    <3>2. \A i \in Ids : i # id => t2[i] = t[i]
      BY <2>10, <3>1
    <3>3. t2[id].pc = "running" /\ t2[id].batch = b
      BY <2>5, <2>10, <3>1
    <3> HIDE DEF t, t2
    <3>4. \A p : p \in Proposals(node'[r]) <=>
                 \E i \in Ids : t2[i].pc # "none" /\ p = <<i, t2[i].batch>>
      BY DEF Proposals, t2
    <3>5. \A p : p \in D <=>
                 \E i \in Ids : t[i].pc # "none" /\ p = <<i, t[i].batch>>
      BY <2>12 DEF Proposals, t
    <3>6. t[id].pc = "none"
      BY <2>15 DEF t
    <3>7. \A p : p \in Proposals(node'[r]) <=> p \in D \/ p = <<id, b>>
      BY <2>5, <3>2, <3>3, <3>4, <3>5, <3>6
    <3> QED  BY <2>2, <3>7
  <2>17. Functional(D2)
    <3>1. \A p \in D : p[1][1] # n.nextSN
      BY <2>9, <2>11 DEF SNs
    <3>2. <<id, b>>[1][1] = n.nextSN
      BY <2>9
    <3> QED  BY <2>2, <2>3, <3>1, <3>2 DEF Functional
  <2>18. \A p \in D2 : p[1][1] < node'[Primary(0)].nextSN
    <3>1. \A p \in D2 : p[1][1] \in Nat /\ p[1][1] <= n.nextSN
      BY <2>2, <2>9, <2>11 DEF SNs
    <3> QED  BY <2>4, <2>6, <2>8, <2>9, <3>1
  <2>19. Records(D2)' /\ HonestVotes(D2)'
    <3>1. Extends(node[r], m, Ballots, D2)
      BY <2>6 DEF n
    <3> QED  BY <1>1, <1>2, <2>6, <2>14, <2>17, <3>1, StepRecords, StepHonest
  <2> QED  BY <1>5, <2>13, <2>16, <2>17, <2>18, <2>19, ExecInvParts
<1> QED  BY <1>6, <1>7 DEF Propose, sendBatch, checkProposalWindow,
                           createPrePrepareMsg

\* Initially nothing is proposed or signed.
LEMMA InitExec ==
    ASSUME Primary(0) \in Correct, Init
    PROVE  ExecInv
<1>1. node[Primary(0)] = NewNode(Primary(0))
  BY DEF Init, Correct
<1>2. Proposed = {}
  <2>1. \A id \in Ids : node[Primary(0)].prepareTimer[id].pc = "none"
    BY <1>1 DEF NewNode
  <2> QED  BY <2>1 DEF Proposed, Proposals
<1>3. HonestVotes(Proposed)
  <2>1. \A r \in Correct : node[r].signed = {}
    BY DEF Init, NewNode, Correct
  <2> QED  BY <2>1 DEF HonestVotes
<1>4. ProposerOK
  BY DEF ProposerOK, Init
<1>5. NumbersOK
  BY <1>2 DEF NumbersOK, Functional
<1>6. Inv /\ Records(Proposed)
  BY InitInv, InitRecords
<1> QED  BY <1>3, <1>4, <1>5, <1>6 DEF ExecInv

\* Every step preserves the invariant.
LEMMA NextExec ==
    ASSUME Primary(0) \in Correct, ExecInv, Inv', [Next]_vars
    PROVE  ExecInv'
<1>1. ASSUME NEW b \in Batches, Propose(b) PROVE ExecInv'
  BY <1>1, ProposeExec
<1>2. ASSUME NEW r \in Correct,
             \/ Receive(r) \/ goCheckIfPrepared(r)
             \/ prepareTimerFires(r) \/ prepareTimerSends(r)
      PROVE  ExecInv'
  BY <1>2, CodeExec
<1>3. CASE UNCHANGED vars
  <2>1. /\ Ballots' = Ballots /\ Proposed' = Proposed /\ node' = node
        /\ net' = net /\ proposal' = proposal
    BY <1>3 DEF Ballots, Proposed, vars
  <2>2. Records(Proposed)'
    BY <2>1 DEF ExecInv, Records
  <2>3. HonestVotes(Proposed)' /\ NumbersOK' /\ ProposerOK'
    BY <2>1 DEF ExecInv, HonestVotes, NumbersOK, ProposerOK
  <2> QED  BY <2>2, <2>3 DEF ExecInv
<1> QED  BY <1>1, <1>2, <1>3 DEF Next
-----------------------------------------------------------------------------
(***************************************************************************)
(* Theorems.                                                               *)
(***************************************************************************)
\* Under a correct first primary, every vote for a number is a vote for the one
\* batch that it has proposed under it.
THEOREM ExecutionInvariant ==
    Spec => [](Inv /\ (Primary(0) \in Correct => ExecInv))
<1>1. Init => Inv /\ (Primary(0) \in Correct => ExecInv)
  BY InitInv, InitExec
<1>2. Inv /\ (Primary(0) \in Correct => ExecInv) /\ [Next]_vars
        => (Inv /\ (Primary(0) \in Correct => ExecInv))'
  BY NextInv, NextExec
<1> QED  BY <1>1, <1>2, PTL DEF Spec

\* Under a correct primary a batch is executed only if a quorum has signed it
\* under the same number, although checkIfPrepared, checkIfCommitted and
\* executeRequest never compare the certificate with the batch.
THEOREM ExecutionIsCertified == Spec => []ExecutedIsCertified
<1>1. ASSUME Inv, Primary(0) \in Correct => ExecInv PROVE ExecutedIsCertified
  <2> SUFFICES ASSUME Primary(0) \in Correct, NEW r \in Correct, NEW sn \in SNs,
                      node[r].executed[sn] # Nil
               PROVE  Cardinality(PrepareSigners(<<sn, 0>>, node[r].executed[sn]))
                        >= SlowQuorum(N)
    BY DEF ExecutedIsCertified
  <2> DEFINE b == node[r].executed[sn]
  <2>1. /\ Functional(Proposed) /\ HonestVotes(Proposed)
        /\ node[r] \in Node /\ Recorded(node[r], Ballots, Proposed)
    BY <1>1, CorrectNode DEF ExecInv, NumbersOK, Records
  <2>2. Backed(Ballots, <<sn, 0>>, b)
    BY <1>1, <2>1, ExecutedBacked DEF Recorded
  <2>3. <<sn, 0>> \in Ids /\ b \in Digests
    BY <2>1, ParameterAssumption DEF Ids, Views, Node
  <2> QED  BY <2>2, <2>3, PrepareSignersAreVoters DEF Backed
<1> QED  BY <1>1, ExecutionInvariant, PTL

\* A quorum signs one batch only under a number in the first view: a correct
\* replica signs what it has stored.
LEMMA OneBatchPerNumber ==
    ASSUME Inv, NEW sn \in SNs, NEW b, NEW c, b # Nil, c # Nil,
           Backed(Ballots, <<sn, 0>>, b), Backed(Ballots, <<sn, 0>>, c)
    PROVE  b = c
<1> DEFINE A == Voters(Ballots, <<sn, 0>>, b)
           B == Voters(Ballots, <<sn, 0>>, c)
<1>1. /\ A \in SUBSET Replicas /\ B \in SUBSET Replicas
      /\ Cardinality(A) >= SlowQuorum(N) /\ Cardinality(B) >= SlowQuorum(N)
  BY DEF Voters, Backed
<1> HIDE DEF A, B
<1>2. PICK r \in Correct : r \in A /\ r \in B
  BY <1>1, SharedVoter
<1>3. <<<<sn, 0>>, b>> \in node[r].signed /\ <<<<sn, 0>>, c>> \in node[r].signed
  BY <1>2 DEF A, B, Voters, Ballots, Correct
<1>4. Sound(node[r], Ballots)
  BY CorrectNode
<1> QED  BY <1>3, <1>4 DEF Sound

\* Under a correct primary no two correct replicas execute different batches
\* under one number: the disagreement that a faulty primary brings about needs a
\* faulty primary.
THEOREM AgreementUnderCorrectPrimary ==
    Spec => [](Primary(0) \in Correct => ExecutionAgreement)
<1>1. ASSUME Inv, Primary(0) \in Correct => ExecInv, Primary(0) \in Correct
      PROVE  ExecutionAgreement
  <2> SUFFICES ASSUME NEW r \in Correct, NEW q \in Correct, NEW sn \in SNs,
                      node[r].executed[sn] # Nil, node[q].executed[sn] # Nil
               PROVE  node[r].executed[sn] = node[q].executed[sn]
    BY DEF ExecutionAgreement
  <2>1. ASSUME NEW i \in Correct, node[i].executed[sn] # Nil
        PROVE  Backed(Ballots, <<sn, 0>>, node[i].executed[sn])
    <3>1. /\ Functional(Proposed) /\ HonestVotes(Proposed)
          /\ node[i] \in Node /\ Recorded(node[i], Ballots, Proposed)
      BY <1>1, CorrectNode DEF ExecInv, NumbersOK, Records
    <3> QED  BY <1>1, <2>1, <3>1, ExecutedBacked DEF Recorded
  <2> QED  BY <1>1, <2>1, OneBatchPerNumber
<1>2. Inv /\ (Primary(0) \in Correct => ExecInv)
        => (Primary(0) \in Correct => ExecutionAgreement)
  BY <1>1
<1> QED  BY <1>2, ExecutionInvariant, PTL
-----------------------------------------------------------------------------
(***************************************************************************)
(* Refinement: the slots of the log are filled by votes and read by        *)
(* executions.                                                             *)
(***************************************************************************)
ChosenSlots == [sn \in SNs |-> IF ChosenBatches(sn) = {} THEN Nil
                               ELSE CHOOSE b \in ChosenBatches(sn) : TRUE]

Logs == [r \in Correct |-> node[r].executed]

ChosenOnce == \A sn \in SNs : \A b, c \in ChosenBatches(sn) : b = c

\* A batch is chosen when it is backed by a quorum of votes.
LEMMA ChosenAreBacked ==
    \A sn \in SNs : ChosenBatches(sn)
                      = {b \in Batches : Backed(Ballots, <<sn, 0>>, b)}
<1> SUFFICES ASSUME NEW sn \in SNs
             PROVE  ChosenBatches(sn)
                      = {b \in Batches : Backed(Ballots, <<sn, 0>>, b)}
  OBVIOUS
<1>1. <<sn, 0>> \in Ids /\ Batches \subseteq Digests
  BY ParameterAssumption DEF Ids, Views, Digests
<1> QED  BY <1>1, PrepareSignersAreVoters DEF ChosenBatches, Backed

\* A slot is chosen at most once.
LEMMA ChosenIsUnique == Inv => ChosenOnce
<1> SUFFICES ASSUME Inv, NEW sn \in SNs, NEW b \in ChosenBatches(sn),
                    NEW c \in ChosenBatches(sn)
             PROVE  b = c
  BY DEF ChosenOnce
<1>1. b # Nil /\ c # Nil
  BY BatchAssumption DEF ChosenBatches
<1> QED  BY <1>1, ChosenAreBacked, OneBatchPerNumber

\* A replica with good records has executed the chosen slots up to lastExec.
LEMMA ExecutedIsChosen ==
    ASSUME Inv, NEW D, Functional(D), HonestVotes(D),
           NEW n \in Node, Recorded(n, Ballots, D)
    PROVE  /\ \A sn \in SNs : sn <= n.lastExec => ChosenSlots[sn] # Nil
           /\ n.executed = [sn \in SNs |-> IF sn <= n.lastExec
                                           THEN ChosenSlots[sn] ELSE Nil]
<1>1. n.executed \in [SNs -> Digests]
  BY DEF Node
<1>2. ASSUME NEW sn \in SNs, sn <= n.lastExec
      PROVE  ChosenSlots[sn] # Nil /\ n.executed[sn] = ChosenSlots[sn]
  <2> DEFINE b == n.executed[sn]
  <2>1. b # Nil /\ Justified(n, sn, b)
    BY <1>2 DEF Recorded
  <2>2. Backed(Ballots, <<sn, 0>>, b)
    BY <2>1, ExecutedBacked
  <2>3. b \in ChosenBatches(sn)
    BY <1>1, <2>1, <2>2, ChosenAreBacked DEF Digests
  <2>4. \A c \in ChosenBatches(sn) : c = b
    BY <2>3, ChosenIsUnique DEF ChosenOnce
  <2> QED  BY <2>1, <2>3, <2>4 DEF ChosenSlots
<1>3. \A sn \in SNs : ~(sn <= n.lastExec) => n.executed[sn] = Nil
  BY DEF Recorded
<1> QED  BY <1>1, <1>2, <1>3

\* A handler that executes something without a new slot being chosen executes
\* the log up to its new lastExec.
LEMMA ExecuteStep ==
    ASSUME Inv, NEW D, Functional(D), HonestVotes(D), Records(D),
           NEW r \in Correct, NEW n, Extends(node[r], n, Ballots, D),
           NEW received, Step(r, n, received), ChosenSlots' = ChosenSlots
    PROVE  Log!Next \/ UNCHANGED Log!vars
<1> DEFINE old == node[r]
<1>1. /\ old \in Node /\ Recorded(old, Ballots, D)
      /\ n \in Node /\ Recorded(n, Ballots, D) /\ old.lastExec <= n.lastExec
  BY CorrectNode DEF Records, Extends
<1>2. /\ old.lastExec \in Nat /\ n.lastExec \in Nat /\ n.lastExec <= MaxSN
      /\ MaxSN \in Nat
  BY <1>1, ParameterAssumption DEF Node, Recorded
<1>3. /\ \A sn \in SNs : sn <= n.lastExec => ChosenSlots[sn] # Nil
      /\ n.executed = [sn \in SNs |-> IF sn <= n.lastExec
                                      THEN ChosenSlots[sn] ELSE Nil]
  BY <1>1, ExecutedIsChosen
<1>4. old.executed = [sn \in SNs |-> IF sn <= old.lastExec
                                     THEN ChosenSlots[sn] ELSE Nil]
  BY <1>1, ExecutedIsChosen
<1>5. /\ node'[r].executed = n.executed
      /\ \A q \in Correct : q # r => node'[q] = node[q]
  BY <1>1, StepNode DEF Inv
<1>6. Logs' = [Logs EXCEPT ![r] = n.executed]
  BY <1>5 DEF Logs
<1>7. CASE n.lastExec = old.lastExec
  <2>1. n.executed = old.executed
    BY <1>3, <1>4, <1>7
  <2>2. Logs' = Logs
    BY <1>6, <2>1 DEF Logs
  <2> QED  BY <2>2 DEF Log!vars, ChosenSlots, Logs
<1>8. CASE n.lastExec # old.lastExec
  <2> DEFINE last == n.lastExec
  <2>1. last \in SNs /\ ~(last <= old.lastExec)
    BY <1>1, <1>2, <1>8 DEF SNs
  <2>2. old.executed[last] = Nil
    BY <1>4, <2>1
  <2>3. Logs[r][last] = Nil
    BY <2>2 DEF Logs
  <2>4. Logs' = [Logs EXCEPT ![r] = [s \in SNs |-> IF s <= last
                                       THEN ChosenSlots[s] ELSE Nil]]
    BY <1>3, <1>6
  <2>5. Log!Execute(r, last)
    BY <1>3, <2>3, <2>4 DEF Log!Execute, ChosenSlots, Logs
  <2> QED  BY <2>1, <2>5 DEF Log!Next
<1> QED  BY <1>7, <1>8

\* What is chosen stays chosen, and only votes about a slot choose it.
LEMMA SlotsKept ==
    ASSUME Inv, Inv', NEW r \in Correct, NEW n \in Node, NEW received,
           Step(r, n, received), node[r].signed \subseteq n.signed,
           NEW s \in SNs,
           \/ ChosenBatches(s) # {}
           \/ \A x \in n.signed \ node[r].signed : x[1][1] # s
    PROVE  ChosenSlots'[s] = ChosenSlots[s]
<1>1. Ballots \subseteq Ballots'
  BY BallotsGrow DEF Inv
<1>2. ChosenOnce'
  BY ChosenIsUnique, PTL
<1>3. ChosenBatches(s) = {b \in Batches : Backed(Ballots, <<s, 0>>, b)}
  BY ChosenAreBacked
<1>4. (ChosenBatches(s) = {b \in Batches : Backed(Ballots, <<s, 0>>, b)})'
  <2>1. (\A sn \in SNs : ChosenBatches(sn)
            = {b \in Batches : Backed(Ballots, <<sn, 0>>, b)})'
    BY ChosenAreBacked, PTL
  <2> QED  BY <2>1
<1>5. ChosenBatches(s) \subseteq ChosenBatches(s)'
  BY <1>1, <1>3, <1>4, BackedMono
<1>6. CASE ChosenBatches(s) # {}
  <2>1. PICK b : b \in ChosenBatches(s)
    BY <1>6
  <2>2. ChosenOnce
    BY ChosenIsUnique
  <2>3. \A c \in ChosenBatches(s) : c = b
    BY <2>1, <2>2 DEF ChosenOnce
  <2>4. b \in ChosenBatches(s)' /\ \A c \in ChosenBatches(s)' : c = b
    BY <1>2, <1>5, <2>1 DEF ChosenOnce
  <2>5. ChosenSlots[s] = b
    BY <2>1, <2>3 DEF ChosenSlots
  <2>6. ChosenSlots'[s] = b
    BY <2>4 DEF ChosenSlots
  <2> QED  BY <2>5, <2>6
<1>7. CASE \A x \in n.signed \ node[r].signed : x[1][1] # s
  <2>1. /\ \A q \in Correct : q # r => node'[q] = node[q]
        /\ node'[r].signed = n.signed
    BY StepNode DEF Inv
  <2>2. ASSUME NEW b PROVE Voters(Ballots', <<s, 0>>, b) = Voters(Ballots, <<s, 0>>, b)
    <3>1. <<<<s, 0>>, b>>[1][1] = s
      OBVIOUS
    <3>2. \A q \in Correct : <<<<s, 0>>, b>> \in node'[q].signed
                               <=> <<<<s, 0>>, b>> \in node[q].signed
      BY <1>7, <2>1, <3>1
    <3>3. \A q \in Replicas : <<q, <<<<s, 0>>, b>>>> \in Ballots'
                               <=> <<q, <<<<s, 0>>, b>>>> \in Ballots
      BY <3>2 DEF Ballots
    <3> QED  BY <3>3 DEF Voters
  <2>3. ChosenBatches(s)' = ChosenBatches(s)
    BY <1>3, <1>4, <2>2 DEF Backed
  <2> QED  BY <2>3 DEF ChosenSlots
<1> QED  BY <1>6, <1>7

\* The code of a correct replica takes a step of the log or none: a vote may fill
\* a slot; if the handler that votes has executed something too, the slot was
\* filled before.
LEMMA LogStep ==
    ASSUME Inv, Inv', NEW D, Functional(D), HonestVotes(D), Records(D),
           NEW r \in Correct, NEW n, Extends(node[r], n, Ballots, D),
           VotesOnce(node[r], n), NEW received, Step(r, n, received)
    PROVE  Log!Next \/ UNCHANGED Log!vars
<1>1. n \in Node /\ node[r].signed \subseteq n.signed /\ Recorded(n, Ballots, D)
  BY DEF Extends
<1>2. /\ node'[r].executed = n.executed
      /\ \A q \in Correct : q # r => node'[q] = node[q]
  BY <1>1, StepNode DEF Inv
<1>3. ASSUME \A s \in SNs : ChosenSlots'[s] = ChosenSlots[s]
      PROVE  Log!Next \/ UNCHANGED Log!vars
  <2>1. ChosenSlots' = ChosenSlots
    BY <1>3 DEF ChosenSlots
  <2> QED  BY <2>1, ExecuteStep
<1>4. CASE n.signed = node[r].signed
  BY <1>1, <1>3, <1>4, SlotsKept
<1>5. ASSUME NEW sn \in SNs, \A x \in n.signed \ node[r].signed : x[1][1] = sn,
             \/ n.executed = node[r].executed
             \/ \E b \in Batches : Justified(n, sn, b)
      PROVE  Log!Next \/ UNCHANGED Log!vars
  <2>1. \A s \in SNs : s # sn => ChosenSlots'[s] = ChosenSlots[s]
    BY <1>1, <1>5, SlotsKept
  <2>2. CASE ChosenBatches(sn) # {}
    <3>1. ChosenSlots'[sn] = ChosenSlots[sn]
      BY <1>1, <2>2, SlotsKept
    <3> QED  BY <1>3, <2>1, <3>1
  <2>3. CASE \E b \in Batches : Justified(n, sn, b)
    <3>1. PICK b \in Batches : Justified(n, sn, b)
      BY <2>3
    <3>2. Backed(Ballots, <<sn, 0>>, b)
      BY <1>1, <3>1, ExecutedBacked, BatchAssumption
    <3>3. ChosenBatches(sn) # {}
      BY <3>2, ChosenAreBacked
    <3> QED  BY <2>2, <3>3
  <2>4. CASE n.executed = node[r].executed /\ ChosenBatches(sn) = {}
    <3>1. Logs' = Logs
      BY <1>2, <2>4 DEF Logs
    <3>2. ChosenSlots[sn] = Nil
      BY <2>4 DEF ChosenSlots
    <3>3. CASE ChosenBatches(sn)' = {}
      <4>1. ChosenSlots'[sn] = Nil
        BY <3>3 DEF ChosenSlots
      <4> QED  BY <1>3, <2>1, <3>2, <4>1
    <3>4. CASE ChosenBatches(sn)' # {}
      <4> DEFINE v == CHOOSE b \in ChosenBatches(sn)' : TRUE
      <4>1. v \in Batches
        BY <3>4 DEF ChosenBatches
      <4>2. ChosenSlots'[sn] = v
        BY <3>4 DEF ChosenSlots
      <4> HIDE DEF v
      <4>3. ChosenSlots' = [ChosenSlots EXCEPT ![sn] = v]
        <5>1. ChosenSlots = [s \in SNs |-> ChosenSlots[s]]
          BY DEF ChosenSlots
        <5>2. ChosenSlots' = [s \in SNs |-> ChosenSlots'[s]]
          BY DEF ChosenSlots
        <5> QED  BY <2>1, <4>2, <5>1, <5>2
      <4>4. Log!Choose(sn, v)
        BY <3>1, <3>2, <4>3 DEF Log!Choose, ChosenSlots, Logs
      <4> QED  BY <4>1, <4>4 DEF Log!Next
    <3> QED  BY <3>3, <3>4
  <2> QED  BY <1>5, <2>2, <2>3, <2>4
<1> QED  BY <1>4, <1>5 DEF VotesOnce

\* A proposal neither votes nor executes.
LEMMA ProposeStep ==
    ASSUME Primary(0) \in Correct, ExecInv, Inv', NEW b \in Batches, Propose(b)
    PROVE  Log!Next \/ UNCHANGED Log!vars
<1>1. CASE UNCHANGED <<node, net>>
  <2>1. UNCHANGED Log!vars
    BY <1>1 DEF Log!vars, ChosenBatches, PrepareSigners
  <2> QED  BY <2>1
<1>2. CASE broadcastPrePrepareMsg(b)
  <2> DEFINE r == Holder[b]
             id == <<node[r].nextSN, proposal[b].view>>
  <2>1. PICK D : D = Proposed
    OBVIOUS
  <2>2. Inv /\ Records(D)
    BY <2>1 DEF ExecInv
  <2>3. /\ r \in Correct
        /\ \E n : /\ Extends(node[r], n, Ballots, D \cup {<<id, b>>})
                  /\ n.signed = node[r].signed
                  /\ n.executed = node[r].executed
                  /\ Step(r, n, {})
    BY <1>2, <2>2, ProposalExtends
  <2>4. PICK n : /\ Extends(node[r], n, Ballots, D \cup {<<id, b>>})
                 /\ n.signed = node[r].signed
                 /\ n.executed = node[r].executed
                 /\ Step(r, n, {})
    BY <2>3
  <2>5. n \in Node
    BY <2>4 DEF Extends
  <2>6. /\ \A q \in Correct : q # r => node'[q] = node[q]
        /\ node'[r].signed = n.signed /\ node'[r].executed = n.executed
    BY <2>2, <2>3, <2>4, <2>5, StepNode DEF Inv
  <2>7. \A s \in SNs : ChosenSlots'[s] = ChosenSlots[s]
    BY <2>2, <2>3, <2>4, <2>5, SlotsKept
  <2>8. ChosenSlots' = ChosenSlots
    BY <2>7 DEF ChosenSlots
  <2>9. Logs' = Logs
    BY <2>4, <2>6 DEF Logs
  <2> QED  BY <2>8, <2>9 DEF Log!vars, ChosenSlots, Logs
<1> QED  BY <1>1, <1>2 DEF Propose, sendBatch, checkProposalWindow,
                           createPrePrepareMsg

\* Every step of the normal case is a step of the log or leaves it alone.
LEMMA NextLog ==
    ASSUME Primary(0) \in Correct, ExecInv, Inv', [Next]_vars
    PROVE  [Log!Next]_Log!vars
<1>1. CASE UNCHANGED vars
  BY <1>1 DEF vars, Log!vars, ChosenBatches, PrepareSigners
<1>2. ASSUME NEW b \in Batches, Propose(b)
      PROVE  [Log!Next]_Log!vars
  BY <1>2, ProposeStep
<1>3. ASSUME NEW r \in Correct,
             \/ Receive(r) \/ goCheckIfPrepared(r)
             \/ prepareTimerFires(r) \/ prepareTimerSends(r)
      PROVE  [Log!Next]_Log!vars
  <2>1. PICK D : D = Proposed
    OBVIOUS
  <2>2. Inv /\ Records(D) /\ HonestVotes(D) /\ Functional(D)
    BY <2>1 DEF ExecInv, NumbersOK
  <2>3. PICK n, received : /\ Follows(node[r], n, Ballots, D)
                           /\ VotesOnce(node[r], n)
                           /\ Step(r, n, received)
    BY <1>3, <2>2, CodeFollows
  <2>4. Extends(node[r], n, Ballots, D)
    BY <2>3 DEF Follows
  <2> QED  BY <2>2, <2>3, <2>4, LogStep
<1> QED  BY <1>1, <1>2, <1>3 DEF Next

\* The log is empty at first: f faulty replicas are no quorum.
LEMMA InitLog == Init => Log!Init
<1> SUFFICES ASSUME Init PROVE Log!Init
  OBVIOUS
<1>1. \A r \in Correct : /\ node[r].signed = {}
                         /\ node[r].executed = [s \in SNs |-> Nil]
  BY DEF Init, NewNode, Correct
<1>2. ASSUME NEW sn \in SNs PROVE ChosenBatches(sn) = {}
  <2> SUFFICES ASSUME NEW b \in Batches
               PROVE  ~(Cardinality(PrepareSigners(<<sn, 0>>, b)) >= SlowQuorum(N))
    BY DEF ChosenBatches
  <2>1. PrepareSigners(<<sn, 0>>, b) = Faulty
    BY <1>1 DEF PrepareSigners
  <2>2. Cardinality(Faulty) \in Nat /\ Cardinality(Faulty) <= F(N)
    BY ReplicasFinite, FS_Subset, FS_CardinalityType, ClusterAssumption
  <2> QED  BY <2>1, <2>2, QuorumSizes
<1> QED  BY <1>1, <1>2 DEF Log!Init

\* Under a correct primary the normal case implements the common log: slots are
\* filled once, by votes, and executed in order and without gaps.
THEOREM Refinement == Primary(0) \in Correct => (Spec => ImplementsOrderedLog)
<1> SUFFICES ASSUME Primary(0) \in Correct PROVE Spec => ImplementsOrderedLog
  OBVIOUS
<1>1. Init => Log!Init
  BY InitLog
<1>2. /\ Inv /\ (Primary(0) \in Correct => ExecInv)
      /\ (Inv /\ (Primary(0) \in Correct => ExecInv))'
      /\ [Next]_vars
      => [Log!Next]_Log!vars
  BY NextLog
<1> QED  BY <1>1, <1>2, ExecutionInvariant, PTL
         DEF Spec, ImplementsOrderedLog, Log!Spec
=============================================================================
