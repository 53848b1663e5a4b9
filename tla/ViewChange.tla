----------------------------- MODULE ViewChange -----------------------------
(***************************************************************************)
(* Entering a view (core/viewchange.go), composed with the normal case:    *)
(* replicas collect view-change messages, follow f+1 others out of a view, *)
(* and the primary of the next view decides from a quorum of reports which *)
(* batch each number of the window gets again.                             *)
(*                                                                         *)
(* The handlers are operators on a context: the Node struct of NormalCase  *)
(* together with the fields of the struct that only the view change uses.  *)
(***************************************************************************)
EXTENDS NormalCase, FiniteSetsExt

CONSTANTS
    NullBatch,      \* RequestBatch{}: what a number nobody reported gets
    EarlyTimeouts   \* viewChangeTimeout may be shorter than message delays

ASSUME NullAssumption == NullBatch \in Batches /\ EarlyTimeouts \in BOOLEAN

VARIABLES
    store,     \* store[r]: viewChangeStore, newViewStore and the timer of r
    newViews   \* new-view messages under way, as pairs of destination and message

vcVars == <<node, net, proposal, store, newViews>>

\* A stored view-change message.  Its sets have one entry per number, as the
\* maps of the code do.
Report == [view : Views, from : Replicas, lastStableCk : {0} \cup SNs,
           pset : SUBSET (Ids \X Batches), qset : SUBSET PrepareQc]

NewViewMsg == [view : Views, from : Replicas,
               oset : UNION {[S -> Batches] : S \in SUBSET SNs}]

\* A nil pointer is no message.
ASSUME NilAssumption == Nil \notin PrepareQc /\ Nil \notin NewViewMsg

Store == [viewChangeStore : SUBSET Report,
          newViewStore : [Views -> NewViewMsg \cup {Nil}],
          timer : BOOLEAN]

EmptyStore == [viewChangeStore |-> {}, newViewStore |-> [v \in Views |-> Nil],
               timer |-> FALSE]

\* The context of a handler of replica r; sent collects its new-view messages.
Context(r) == [n |-> node[r], viewChangeStore |-> store[r].viewChangeStore,
               newViewStore |-> store[r].newViewStore,
               timer |-> store[r].timer, sent |-> {}]
-----------------------------------------------------------------------------
(***************************************************************************)
(* View-change messages.                                                   *)
(***************************************************************************)
\* What calPQset may have put into the message: per number the entry that the
\* iteration over reqCertStore met last.  The two entries of a number come from
\* one iteration: they cannot each be later than the other.
LastMet(vc, pset, qset) ==
    /\ \A p \in vc.pset : \E x \in pset : x[1][1] = p[1][1]
    /\ \A q \in vc.qset : \E x \in qset : x.sn = q.sn
    /\ \A p, x \in pset : p[1][1] = x[1][1] => p = x
    /\ \A q, x \in qset : q.sn = x.sn => q = x
    /\ \A p \in pset, q \in qset :
         p[1][1] = q.sn /\ p[1][2] # q.view =>
           \/ ~\E x \in vc.qset : x.sn = q.sn /\ x.view = p[1][2]
           \/ ~\E x \in vc.pset : x[1] = <<q.sn, q.view>>

\* The contents of a report matter to the primary of its view only; the others
\* count it.
Reports(vc, r) ==
    IF r # Primary(vc.view)
    THEN {[view |-> vc.view, from |-> vc.from, lastStableCk |-> 0,
           pset |-> {}, qset |-> {}]}
    ELSE {[view |-> vc.view, from |-> vc.from,
           lastStableCk |-> vc.lastStableCk, pset |-> x[1], qset |-> x[2]] :
             x \in {y \in (SUBSET vc.pset) \X (SUBSET vc.qset) :
                      LastMet(vc, y[1], y[2])}}

\* The checkpoints in the message are always those of its LastStableCk.  The
\* upper bound is strict, while inWatermarks includes the high watermark.
correctViewChange(vc) ==
    /\ \A p \in vc.pset : /\ p[1][2] < vc.view
                          /\ p[1][1] > vc.lastStableCk
                          /\ p[1][1] < vc.lastStableCk + K
    /\ \A q \in vc.qset : Signable(q)

\* sendViewChange with the timer it starts.
leaveView(x) == [x EXCEPT !.n = sendViewChange(@), !.timer = TRUE]

(***************************************************************************)
(* What the primary of the new view proposes again.                        *)
(***************************************************************************)
\* The reports of number s whose pre-prepare counts, and the batch of each.
Prepared(vset, s) ==
    {rep \in vset : \E p \in rep.pset : p[1][1] = s}

BatchOf(rep, s) == (CHOOSE p \in rep.pset : p[1][1] = s)[2]

Certified(vset, s) ==
    {rep \in Prepared(vset, s) : \E q \in rep.qset : q.sn = s}

\* Mutant: the count has to be exceeded.
Popular_Exceeds(vset, s) ==
    {b \in Batches :
       Cardinality({rep \in Prepared(vset, s) : BatchOf(rep, s) = b})
         > PrePrepareSubsetCount(N, Pbm)}

\* prePrepareSubsetCount reports of one pre-prepare are enough.
Popular(vset, s) ==
    {b \in Batches :
       Cardinality({rep \in Prepared(vset, s) : BatchOf(rep, s) = b})
         >= PrePrepareSubsetCount(N, Pbm)}

\* The first report with both a pre-prepare and a certificate decides, in the
\* order of a map iteration; otherwise the batch that was reported often enough.
Assigned(vset, s) ==
    IF Certified(vset, s) # {}
    THEN {BatchOf(rep, s) : rep \in Certified(vset, s)}
    ELSE IF Popular(vset, s) = {} THEN {NullBatch}
    ELSE Popular(vset, s)

Window(sn) == (sn + 1)..(sn + K) \cap SNs

\* assignSequenceNumbers: the lists it may return, none when two batches of a
\* number were reported often enough (three cannot be: the count exceeds N/3).
assignSequenceNumbers(vset, sn) ==
    IF \E s \in Window(sn) : /\ Certified(vset, s) = {}
                             /\ Cardinality(Popular(vset, s)) = 2
    THEN {}
    ELSE {oset \in [Window(sn) -> Batches] :
            \A s \in Window(sn) : oset[s] \in Assigned(vset, s)}

selectInitialSequence(vset) == Max({rep.lastStableCk : rep \in vset})

(***************************************************************************)
(* Entering the view.                                                      *)
(***************************************************************************)
\* Mutant: numbering goes on at the high watermark.
enterView_HighMark(n) ==
    [n EXCEPT !.activeView = TRUE, !.nextSN = n.h + K,
              !.viewChangeSeqNumber = n.h + K + K + T \div 2]

\* nextSN and, with updateViewChangeSeqNo, the next planned switch.
enterView(n) ==
    [n EXCEPT !.activeView = TRUE, !.nextSN = n.h + K + 1,
              !.viewChangeSeqNumber = n.h + K + K + T \div 2]

\* One turn of the loop over the numbers of the new-view message.
repropose(n, nv, sn) ==
    LET ppm == [type |-> "PrePrepare", from |-> nv.from, sn |-> sn,
                view |-> n.currenView, digest |-> nv.oset[sn]]
        timed == IF n.replicaId = Primary(n.currenView)
                 THEN withTimer(n, <<sn, n.currenView>>, "running", ppm.digest)
                 ELSE n
    IN  handlePrePrepareMsg(timed, ppm, FALSE)

\* The loop, in increasing order of the numbers (GetMapkey sorts them).  Here and
\* below a handler that calls others in turn is the set of its outcomes, often
\* of one.
reproposeAll(n, nv) ==
    LET after[sn \in 0..MaxSN] ==
          IF sn = 0 THEN {n}
          ELSE IF sn \in DOMAIN nv.oset /\ sn > n.h
          THEN {repropose(m, nv, sn) : m \in after[sn - 1]}
          ELSE after[sn - 1]
    IN  after[MaxSN]

\* Execution in the loop may leave the view again, and then the timer runs.
processNewView(x) ==
    LET nv == x.newViewStore[x.n.currenView]
    IN  IF nv = Nil \/ x.n.activeView THEN {x}
        ELSE {[x EXCEPT !.n = m, !.timer = m.currenView # x.n.currenView] :
                m \in reproposeAll(enterView(x.n), nv)}

\* The new-view messages that the reports in vset allow: none when the primary
\* gives up.
NewViewOf(view, vset, initialS) ==
    IF initialS = 0 THEN {}
    ELSE {[view |-> view, from |-> Primary(view), oset |-> oset] :
            oset \in assignSequenceNumbers(vset, initialS)}

sendNewView(x) ==
    LET view == x.n.currenView
        nvs == UNION {NewViewOf(view, vset, selectInitialSequence(vset)) :
                        vset \in {{rep \in x.viewChangeStore : rep.view = view}}}
        outcomes == UNION {processNewView([x EXCEPT !.newViewStore[view] = nv,
                                                    !.sent = {nv}]) : nv \in nvs}
    IN  IF x.newViewStore[view] # Nil \/ nvs = {} THEN {x} ELSE outcomes

\* Mutant: only the timer makes a replica leave a view.
follow_Never(x) == x

\* f+1 replicas in later views take this one along, to the least of those.
follow(x) ==
    LET later == {rep \in x.viewChangeStore : rep.view > x.n.currenView}
    IN  IF Cardinality({rep.from : rep \in later}) >= F(N) + 1
        THEN leaveView([x EXCEPT !.n.currenView =
                                   Min({rep.view : rep \in later}) - 1])
        ELSE x

\* Mutant: reports count whatever view they are for.
countReports_AnyView(x, view) ==
    IF /\ ~x.n.activeView /\ view = x.n.currenView
       /\ Cardinality(x.viewChangeStore) >= ViewChangeQuorum(N, Abm, Pbm)
       /\ Primary(view) = x.n.replicaId
    THEN sendNewView(x)
    ELSE {x}

\* The rest of recvViewChange, once the report is stored.
countReports(x, view) ==
    IF /\ ~x.n.activeView /\ view = x.n.currenView
       /\ Cardinality({rep \in x.viewChangeStore : rep.view = view})
            >= ViewChangeQuorum(N, Abm, Pbm)
       /\ Primary(view) = x.n.replicaId
    THEN sendNewView(x)
    ELSE {x}

\* Mutant: a second report of a sender is taken as well.
recvViewChange_Again(x, vc, report) ==
    IF vc.view < x.n.currenView \/ ~correctViewChange(vc) THEN {x}
    ELSE UNION {countReports(y, vc.view) :
                  y \in {follow([x EXCEPT !.viewChangeStore = @ \cup {report}])}}

\* report has the contents of vc.
recvViewChange(x, vc, report) ==
    IF \/ vc.view < x.n.currenView \/ ~correctViewChange(vc)
       \/ \E rep \in x.viewChangeStore : rep.view = vc.view /\ rep.from = vc.from
    THEN {x}
    ELSE UNION {countReports(y, vc.view) :
                  y \in {follow([x EXCEPT !.viewChangeStore = @ \cup {report}])}}

\* A message for a later view is stored; only the one of the current view is
\* processed.
recvNewView(x, nv) ==
    IF /\ nv.view > 0 /\ nv.view >= x.n.currenView
       /\ Primary(nv.view) = nv.from /\ x.newViewStore[nv.view] = Nil
    THEN processNewView([x EXCEPT !.newViewStore[nv.view] = nv])
    ELSE {x}
-----------------------------------------------------------------------------
(***************************************************************************)
(* Steps.  Apply runs a handler: x is the context after it.  sendNewView   *)
(* broadcasts to all but the sender; a replica that omits sends may skip   *)
(* the whole broadcast.                                                    *)
(***************************************************************************)
Deliver(nvs, r) == UNION {(Correct \ {r}) \X {nv} : nv \in nvs}

Apply(r, x, received, opened) ==
    /\ Step(r, x.n, received)
    /\ store' = [store EXCEPT ![r] = [viewChangeStore |-> x.viewChangeStore,
                                      newViewStore |-> x.newViewStore,
                                      timer |-> x.timer]]
    /\ \E nvs \in SUBSET x.sent :
         /\ r \notin Omitting => nvs = x.sent
         /\ newViews' = (newViews \ ({r} \X opened)) \cup Deliver(nvs, r)
    /\ UNCHANGED proposal

RecvViewChange(r) ==
    /\ Running(r)
    /\ \E vc \in Inbox(r, "ViewChange") : \E report \in Reports(vc, r) :
         \E x \in recvViewChange(Context(r), vc, report) : Apply(r, x, {vc}, {})

RecvNewView(r) ==
    /\ Running(r)
    /\ \E y \in newViews :
         /\ y[1] = r
         /\ \E x \in recvNewView(Context(r), y[2]) : Apply(r, x, {}, {y[2]})

\* Nothing is under way to a replica that could handle it.
Quiet == /\ \A x \in net : ~Running(x[1])
         /\ \A y \in newViews : ~Running(y[1])

\* The new-view timer expires and its event reaches the consumer loop.
TimeOut(r) ==
    /\ Running(r) /\ store[r].timer
    /\ EarlyTimeouts \/ Quiet
    /\ \E x \in {leaveView(Context(r))} : Apply(r, x, {}, {})

\* A step of the normal case: sendViewChange is the only one to touch the
\* timer, and to change the view.
NormalStep ==
    /\ \/ \E b \in Batches : Propose(b)
       \/ \E r \in Correct : \/ prepareTimerFires(r) \/ prepareTimerSends(r)
                             \/ goCheckIfPrepared(r) \/ Receive(r)
    /\ store' = [r \in Replicas |->
                   IF node'[r].currenView # node[r].currenView
                   THEN [store[r] EXCEPT !.timer = TRUE] ELSE store[r]]
    /\ UNCHANGED newViews

ViewInit == Init /\ store = [r \in Replicas |-> EmptyStore] /\ newViews = {}

ViewNext ==
    \/ \E r \in Correct : RecvViewChange(r) \/ RecvNewView(r) \/ TimeOut(r)
    \/ NormalStep

\* Something is left to do that no faulty replica has to do.
Busy ==
    \/ ~Quiet
    \/ \E r \in Correct :
         /\ Running(r)
         /\ \/ node[r].fastChecks # {}
            \/ store[r].timer /\ node[r].currenView + 1 < MaxView

\* Messages to running replicas are delivered, goroutines run and the timer
\* expires: weak fairness of ViewNext, with the condition under which a correct
\* replica has a step spelled out.
ViewFairness == []<>~Busy \/ []<><<ViewNext>>_vcVars

ViewSpec == ViewInit /\ [][ViewNext]_vcVars /\ ViewFairness
-----------------------------------------------------------------------------
(***************************************************************************)
(* Properties.                                                             *)
(***************************************************************************)
\* Every variable has its type, and a store holds at most one report per view
\* and sender.
ViewTypeOK ==
    /\ TypeOK
    /\ store \in [Replicas -> Store]
    /\ \A r \in Replicas : \A a, b \in store[r].viewChangeStore :
         a.view = b.view /\ a.from = b.from => a = b
    /\ newViews \subseteq Correct \X NewViewMsg

NewViewsMade ==
    ({y[2] : y \in newViews}
     \cup {store[r].newViewStore[v] : r \in Correct, v \in Views}) \ {Nil}

\* A new view proposes again, under its number, every batch that a correct
\* replica has executed on the fast or on the slow path, whichever quorum of
\* reports its primary used.
NewViewKeeps(sn) ==
    \A nv \in NewViewsMade, r \in Correct :
        sn \in DOMAIN nv.oset /\ node[r].executed[sn] # Nil
        => nv.oset[sn] = node[r].executed[sn]

\* The comment on correctViewChange promises a pre-prepare with every
\* certificate of a report.
NewViewKeepsExecuted == \A sn \in SNs : NewViewKeeps(sn)

\* The first view may have executed b under number sn somewhere: there are the
\* votes of a fast certificate, or the commit votes of a commit certificate.
Decided(sn, b) ==
    \/ Cardinality(PrepareSigners(<<sn, 0>>, b)) >= FastQuorum(N, Abm, Pbm)
    \/ \E r \in Correct : \E pqc \in node[r].signedCommits :
         /\ pqc.sn = sn /\ pqc.view = 0 /\ pqc.digest = b
         /\ Cardinality(CommitSigners(pqc)) >= SlowQuorum(N)

\* A replica whose certificate of number sn came before the pre-prepare.
Orphaned(sn) ==
    \E r \in Correct : /\ node[r].cert[<<sn, 0>>].prepareQc # Nil
                       /\ node[r].cert[<<sn, 0>>].reqBatchDigest = Nil

\* What holds: the new view that follows the first one proposes again, under its
\* number, every batch that the first view may have executed, whichever quorum of
\* reports its primary used.  assignSequenceNumbers overlooks a certificate only
\* where it has no pre-prepare beside it.  Later new views do not keep as much:
\* it takes a certificate of an older view for one of the latest.
NewViewKeepsBatches ==
    (\A nv \in NewViewsMade : nv.view = 1) =>
    \A nv \in NewViewsMade : \A sn \in DOMAIN nv.oset, b \in Batches :
        Decided(sn, b) => nv.oset[sn] = b \/ Orphaned(sn)

\* A replica is active in a later view only if a view-change quorum, but for the
\* faulty ones in it, has left all earlier views (recvViewChange counts reports
\* of one view, one per sender).
ViewEnteredByQuorum ==
    \A r \in Correct :
        node[r].activeView /\ node[r].currenView > 0 =>
        Cardinality(Faulty \cup {q \in Correct :
                                   node[q].currenView >= node[r].currenView})
          >= ViewChangeQuorum(N, Abm, Pbm)

\* A primary that enters its view with the low watermark its new view starts
\* from never numbers another batch like one of the new view (processNewView sets
\* nextSN from its own h, sendNewView the numbers from the reports).
NumbersNotReused ==
    [][\A r \in Correct :
         LET v == node'[r].currenView
             oset == store'[r].newViewStore[v].oset
         IN  /\ ~node[r].activeView /\ node'[r].activeView /\ r = Primary(v)
             /\ DOMAIN oset \subseteq (node[r].h + 1)..(node[r].h + K)
             => \A sn \in DOMAIN oset : sn < node'[r].nextSN]_vcVars

\* A replica that got the new-view message of v while it was in an earlier view:
\* the message is stored, and nothing processes it when the replica arrives.
Stranded(r, v) ==
    /\ store[r].newViewStore[v] # Nil
    /\ ~(node[r].activeView /\ node[r].currenView = v)

ActiveIn(r, v) == node[r].activeView /\ node[r].currenView = v

\* A stable checkpoint, and no pre-prepare at the high watermark: sendNewView
\* gives up without the one, correctViewChange refuses the other.
Reportable(n) ==
    n.h > 0 /\ \A id \in Ids : id[1] >= n.h + K => n.cert[id].reqBatchDigest = Nil

LeaveTogether ==
    /\ Cardinality({r \in Correct : node[r].currenView > 0}) > F(N)
    /\ \A r \in Correct : Reportable(node[r])

Entered(v) ==
    /\ Primary(v) \in Correct /\ ActiveIn(Primary(v), v)
    /\ \A r \in Correct : ActiveIn(r, v) \/ Stranded(r, v)

\* Once more than f correct replicas have left the first view, and all of them
\* can report, the primary of some view becomes active and everyone joins it, but
\* for replicas that the new-view message reached too early.
ViewChangeCompletes == LeaveTogether ~> \E v \in Views \ {0} : Entered(v)
=============================================================================
