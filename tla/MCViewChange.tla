---------------------------- MODULE MCViewChange ----------------------------
(***************************************************************************)
(* Instances of ViewChange for TLC.  They start late: the handlers have    *)
(* executed one batch on the fast path and made its checkpoint stable, a   *)
(* second batch has come as far in view 0 as the initial state says, and   *)
(* what else view 0 sent is lost.                                          *)
(***************************************************************************)
EXTENDS ViewChange, SequencesExt

CONSTANTS b1, b2

\* Batches are proposed in the initial state already.
NoneHeld == [b \in Batches |-> 0]

PrePrepareOf(sn, b) == [type |-> "PrePrepare", from |-> 0, sn |-> sn, view |-> 0,
                        digest |-> b]
VoteOf(r, sn, b) == [type |-> "Prepare", from |-> r, sn |-> sn, view |-> 0,
                     digest |-> b]
FastQcOf(sn, b) == [type |-> "FastPrepareQc", from |-> 0, sn |-> sn, view |-> 0,
                    digest |-> b]
QcOf(sn, b) == [type |-> "PrepareQc", from |-> 0, sn |-> sn, view |-> 0,
                digest |-> b, stamp |-> "handler"]
CommitQcOf(sn, b) == [type |-> "CommitQc", from |-> 0, vote |-> QcOf(sn, b)]

\* What a goroutine of the replica does: the number is taken, its fast-path timer
\* is gone, its fast certificate is looked at.
Local(type, sn, b) == [type |-> type, from |-> 0, sn |-> sn, view |-> 0, digest |-> b]

\* The same of the primary of view 1, in that view.
InView1(m) == [m EXCEPT !.view = 1, !.from = 1]

\* A message, or a step of a goroutine.
Handled(n, m) ==
    CASE m.type = "PrePrepare"    -> handlePrePrepareMsg(n, m, FALSE)
      [] m.type = "Prepare"       -> handlePrepareMsg(n, m,
                                       n.prepareTimer[<<m.sn, m.view>>].pc = "stopped")
      [] m.type = "FastPrepareQc" -> handleFastPrepareQc(n, m)
      [] m.type = "PrepareQc"     -> handlePrepareQc(n, m)
      [] m.type = "CommitQc"      -> handleCommitQc(n, m)
      [] m.type = "Checkpoint"    -> recvCheckpoint(n, m)
      [] m.type = "propose"       -> withTimer([n EXCEPT !.nextSN = m.sn + 1],
                                               <<m.sn, m.view>>, "running", m.digest)
      [] m.type = "timerGone"     -> withTimer(n, <<m.sn, m.view>>, "stopped", m.digest)
      [] m.type = "fastCheck"     -> checkIfPrepared([n EXCEPT !.fastChecks = {}],
                                                     <<m.sn, m.view>>)

\* The same for a context, where view changes may also happen.  Where a handler has
\* several outcomes any will do.
HandledIn(x, m) ==
    CASE m.type = "ViewChange" ->
           CHOOSE y \in UNION {recvViewChange(x, m, report) :
                                 report \in Reports(m, x.n.replicaId)} : TRUE
      [] m.type = "NewView" -> CHOOSE y \in recvNewView(x, m.message) : TRUE
      [] OTHER -> [x EXCEPT !.n = Handled(@, m)]

\* Replica r after these events.
After(r, events) ==
    FoldLeft(HandledIn, [n |-> NewNode(r), timer |-> FALSE, sent |-> {},
                         viewChangeStore |-> {},
                         newViewStore |-> EmptyStore.newViewStore], events)

\* The view-change message that brought the replica to its view.
LastReport(n) == {p[2] : p \in {q \in n.out : /\ q[2].type = "ViewChange"
                                             /\ q[2].view = n.currenView}}

When(cond, events) == IF cond THEN events ELSE <<>>

Each(Op(_), S) == LET s == SetToSeq(S) IN [i \in 1..Len(s) |-> Op(s[i])]

\* The votes of the replicas in S reach the primary.
Votes(r, S, sn, b) == When(r = 0, Each(LAMBDA q : VoteOf(q, sn, b), S))

Checkpoints(sn) ==
    Each(LAMBDA q : [type |-> "Checkpoint", from |-> q, sn |-> sn], Replicas)

\* The fast path of a batch, certified with the votes of all.
FastPath(r, sn, b, hasQc) ==
    When(r = 0, <<Local("propose", sn, b)>>)
    \o <<PrePrepareOf(sn, b)>> \o Votes(r, Replicas \ {0}, sn, b)
    \o When(hasQc, <<FastQcOf(sn, b), Local("fastCheck", sn, b)>>)
    \o When(r = 0, <<Local("timerGone", sn, b)>>)

\* The slow path: whether r got the certificate and the commit certificate; A are
\* the replicas that got the pre-prepare, and voted.
SlowPath(r, sn, b, A, hasQc, hasCommitQc) ==
    When(r = 0, <<Local("propose", sn, b)>>)
    \o When(r \in A, <<PrePrepareOf(sn, b)>>)
    \o When(r = 0, <<Local("timerGone", sn, b)>>)
    \o Votes(r, (A \ {0}) \cup Faulty, sn, b)
    \o When(hasQc, <<QcOf(sn, b)>>) \o When(hasCommitQc, <<CommitQcOf(sn, b)>>)

\* The first batch and, where the checkpoints have arrived, the new watermark.
First(r, stable) == FastPath(r, 1, b1, TRUE) \o When(stable, Checkpoints(1))

\* Replica 2 alone has executed the second batch, on the slow path: a quorum has
\* voted and a quorum of commit votes was cast by replicas with the certificate.
ExecutedSlowly(A, Q) ==
    /\ 2 \in A \cap Q
    /\ Cardinality(A \cup Faulty) >= SlowQuorum(N)
    /\ Cardinality(Q \cup Faulty) >= SlowQuorum(N)

SecondFast == [r \in Replicas |-> First(r, TRUE) \o FastPath(r, 2, b2, r = 2)]

\* How far the second batch has come.  In the last history replica 1, the primary
\* to be, has missed the checkpoints.
Histories ==
    {[r \in Replicas |-> First(r, TRUE) \o SlowPath(r, 2, b2, A, FALSE, FALSE)] :
       A \in {{}, {1}, Correct}}
    \cup {[r \in Replicas |-> First(r, TRUE)
                             \o SlowPath(r, 2, b2, x[1], r \in x[2], r = 2)] :
            x \in {y \in (SUBSET Correct) \X (SUBSET Correct) :
                     ExecutedSlowly(y[1], y[2])}}
    \cup {SecondFast}
    \cup {[r \in Replicas |-> First(r, r # 1)
                             \o SlowPath(r, 2, b2, {0, 2}, r # 1, r = 2)]}

\* The replicas in L leave view 0, distrusting a pre-prepare of a replica that is
\* not the primary.
Distrust(r, L) == When(r \in L, <<[PrePrepareOf(2, b1) EXCEPT !.from = 3]>>)

\* The state after the events h[r] of each replica r.  Only view-change messages are
\* still under way.
StateAfter(h) ==
    \E late \in {[r \in Replicas |-> After(r, h[r])]} :
      /\ node = [r \in Replicas |-> [late[r].n EXCEPT !.out = {}]]
      /\ net = Correct \X UNION {LastReport(late[r].n) : r \in Correct}
      /\ store = [r \in Replicas |->
                    [viewChangeStore |-> late[r].viewChangeStore,
                     newViewStore |-> late[r].newViewStore,
                     timer |-> ~late[r].n.activeView]]
      /\ proposal = [b \in Batches |-> [pc |-> "dropped", view |-> 0]]
      /\ newViews = {}

\* Replica 2 still has to leave view 0 or, once, the primary to be, or that one
\* has left alone.
LateInit ==
    \E x \in (Histories \X {{0, 1}}) \cup ({SecondFast} \X {{0, 2}, {1}}) :
      StateAfter([r \in Replicas |-> x[1][r] \o Distrust(r, x[2])])

LateSpec == LateInit /\ [][ViewNext]_vcVars /\ ViewFairness

Silent(r, view, h) == [type |-> "ViewChange", from |-> r, view |-> view,
                       lastStableCk |-> h, pset |-> {}, qset |-> {}]

\* A faulty replica that reports nothing, for the first view change once with and
\* once without its checkpoint.
Forgetful ==
    {<<1, Silent(r, x[1], x[2])>> :
       r \in Faulty, x \in {1} \X {0, 1} \cup (2..(MaxView - 1)) \X {1}}

(***************************************************************************)
(* A number that is used in two views.  In view 0 replica 2 alone gets the *)
(* certificate of the second batch, and replica 1 not even its pre-prepare.*)
(* View 1 is made of the reports of 0, 1 and 3, gives the number to the    *)
(* null batch and certifies that on the fast path; all but 2 get the       *)
(* certificate, and all leave view 1.                                      *)
(***************************************************************************)
InViewZero(r) ==
    First(r, TRUE) \o SlowPath(r, 2, b2, {0, 2}, r = 2, FALSE) \o Distrust(r, Correct)

ReportsFor1 == SetToSeq(LastReport(After(0, InViewZero(0)).n)
                        \cup LastReport(After(1, InViewZero(1)).n)
                        \cup {Silent(3, 1, 1)})

NewViewFor(r) ==
    IF r = 1 THEN ReportsFor1
    ELSE Each(LAMBDA nv : [type |-> "NewView", message |-> nv],
              After(1, InViewZero(1) \o ReportsFor1).sent)

InViewOne(r) ==
    When(r = 1, Each(LAMBDA q : [InView1(VoteOf(q, 2, NullBatch)) EXCEPT !.from = q],
                     Replicas \ {1}))
    \o When(r # 2, <<InView1(FastQcOf(2, NullBatch)),
                     InView1(Local("fastCheck", 2, NullBatch))>>)
    \o When(r \in Correct, <<[InView1(PrePrepareOf(2, b1)) EXCEPT !.from = 3]>>)

TwoViewsInit ==
    StateAfter([r \in Replicas |-> InViewZero(r) \o NewViewFor(r) \o InViewOne(r)])

TwoViewsSpec == TwoViewsInit /\ [][ViewNext]_vcVars /\ ViewFairness

\* A faulty replica that reports nothing and votes for what is proposed to it.
Voting == {<<2, Silent(r, 2, 1)>> : r \in Faulty}
          \cup {<<2, [VoteOf(r, 2, b2) EXCEPT !.view = 2]>> : r \in Faulty}
=============================================================================
