# Trebiz: a verification development

Trebiz is a Byzantine fault-tolerant replication protocol after PBFT, written in
Go. A primary numbers batches of requests; replicas vote for them; the primary
combines the votes into threshold-signed certificates. A *fast* certificate (all
votes but those of the configured "merchants") executes a batch after one round.
When the fast-path timer fires first, a *slow* certificate of 2f+1 votes is made
and a second round of commit votes follows. Replicas exchange checkpoints, which
move their watermark windows, and change the primary when they distrust it, when
a timer fires or, with `autoViewChange`, at a planned sequence number.

This directory holds TLA+ modules translated from the source, the TLC
configurations that check them, and proofs checked by TLAPS. It looks at the
program from two sides: *between* replicas (messages in any order, faulty replicas,
one handler at a time) and *inside* one replica (goroutines, channels, locks, the
timer and the request pool).

## 1. Inventory

| Component | State | Operations | Interacts with |
|---|---|---|---|
| Consumer loop (`core/node.go: StartPBFT`) | the `Node` struct | one handler per message type, one at a time | every handler; the transport's unbuffered channel; an error channel of capacity one that nobody reads |
| Normal case (`core/core.go`) | `reqCertStore` (a `MsgCert` per number and view), partial signatures, `execReqBuffer`, `lastExec`, `nextSN`, `prepareTimer` | propose, handle pre-prepare, prepare vote, (fast) prepare certificate, commit vote, commit certificate, execute | goroutines: one per proposal, one per fast-path timer, one per fast certificate, one per checkpoint |
| Checkpoints (`core/core.go`) | `checkpointStore`, `chkpts`, `h` | create, receive, move the window | execution; the window checks of all handlers |
| Leaving a view (`core/viewchange.go: sendViewChange, calPQset`) | `currenView`, `activeView` | bump the view, report pre-prepares and certificates, start the timer | called by the handlers, by execution and by the new-view timer |
| Entering a view (`core/viewchange.go`) | `viewChangeStore`, `newViewStore` | check and collect view-change messages, choose what to propose again, process a new-view message | normal case, timer |
| New-view timer (`core/timer_control.go`) | a goroutine with start and stop channels | start, stop, fire | posts to the consumer channel, drops the event if that is not ready |
| Request pool (`core/node.go: sendBatch, HandleReqBatchLoop`; `core/rpchandler.go`) | `BatchStore`, batch timer, `Leader` | append, take a batch on size or time | spawns proposals; reads the view without a lock |
| Transport (`core/net_transport.go`, `tcp_transport.go`) | connections | dial, send, listen, decode | consumer channel; failures go to the error channel |
| Configuration generator (`config_gen/main.go`) | none | derive thresholds and quorums, pick Byzantine replicas, write files | its quorums are used by all of the above |
| Loader, client, signatures, scripts | none | parse, generate load, sign | |

What is hard here:

* the consumer loop shares the `Node` struct, almost without locks, with the
  goroutines of proposals, timers and fast certificates;
* the loop, the timer and the connections meet at unbuffered channels;
* messages overtake each other (every send is a goroutine of its own), so that a
  certificate may come before its pre-prepare and a checkpoint before both;
* a replica may leave its view in the middle of a handler that goes on;
* a faulty primary may propose different batches to different replicas, and a
  faulty replica may report nothing in a view change;
* the quorums are computed in three places with different roundings.

What makes the parts correct: at most one batch is certified per number and view;
replicas execute certified batches only, in order, without gaps, the same
everywhere; a stable checkpoint is backed by a quorum; a view-change message
reports everything its sender has executed, and the next view keeps what anyone
has executed; a proposed batch is eventually executed and a view change ends; the
quorums intersect where the protocol needs it; every message that arrives is
handled and every request that arrives is proposed.

## 2. Modules

| Module | Content |
|---|---|
| `Quorums` | every quorum and threshold as a function of the cluster size and the numbers of Byzantine replicas |
| `ConfigGen` | the generator: which configurations are written, and what their quorums have to satisfy |
| `NormalCase` | proposals, votes, certificates, execution, checkpoints, leaving a view |
| `OrderedLog` | the abstract specification: a log whose slots are filled once, executed in order by every replica |
| `ViewChange` | extends `NormalCase` by the second half of the view change: a composition of both, with the timer as a flag |
| `EventLoop` | the goroutines of one replica: connections, consumer loop, fast certificates, execution, new-view timer, senders |
| `RequestPool` | the pool, the loop that cuts batches and the goroutines that propose them |
| `ReplicaProcess` | `EventLoop` and an instance of `RequestPool` over the same view: one process |
| `MCNormalCase`, `MCConfigGen`, `MCViewChange`, `MCReplicaProcess` | instances for TLC |
| `NormalCaseHandlers` | lemmas: what each handler does to a node |
| `NormalCaseProofs` | the invariant on votes and checkpoints and its theorems; votes find their timers |
| `ReportProofs` | what a replica stores, where it comes from, and that it reports it |
| `ExecutionProofs` | what is executed under a correct primary; the refinement of `OrderedLog` |
| `ViewChangeProofs` | the invariants and theorems about `ViewChange` |
| `FirstViewProofs` | no batch of the first view is lost in the new view that follows it |
| `ReplicaProcessProofs` | the inductive invariants and theorems about `EventLoop`, and about `ReplicaProcess`: the pool, and the loop inside the process |
| `QuorumProofs` | the theorems about `ConfigGen` |

### NormalCase and the code

* `node[r]` is the `Node` struct of replica r. Fields have the names of the Go
  fields; `reqCertStore` is the total function `cert`, because `getCert` creates
  what it does not find. The two maps of prepare shares always hold the same
  senders and are one set. `executed`, `signed`, `signedCommits` and `qcSent` are
  histories that only properties read. (`signed` also limits what a faulty
  replica can assemble.)
* A Go method is an operator from the struct before the call to the struct after
  it, with the method's name: `handlePrePrepareMsg`, `checkIfPrepared`,
  `executeRequest`, `sendViewChange` and so on, nested as the calls are. What a
  method sends is collected in `out`; `Step` moves it to the network.
* One action per case of the switch in `StartPBFT`. The goroutines are actions of
  their own: `sendBatch`, `checkProposalWindow`, `createPrePrepareMsg`,
  `broadcastPrePrepareMsg` are the stages of a proposal, cut where the
  code reads shared state (the window, then the view, then the number);
  `prepareTimerFires` and `prepareTimerSends` are the timer's goroutine, cut
  between its test of `prepareQcStage` and its send; `goCheckIfPrepared` is the
  goroutine of `handleFastPrepareQc`.
* `StopReads`: the flag `stop` is written by the timer's goroutine without
  synchronisation, so that while that goroutine is in its critical part the
  handler may read either value.
* A batch stands for its hash. Two PrepareQcs of the same vote differ in their time
  stamp, and a commit vote signs the whole PrepareQc; `stamp` keeps that apart.
* The network is a set of pairs of receiver and message: unordered, each
  delivered at most once. Nothing is lost, except that a replica in `Omitting`
  skips any of its sends (`broadcast` and `sendToLeader` with `nodeType` other
  than `cn`).
* `Faulty` replicas run no handler. At any moment they may send what is in
  `Forgeable`; a certificate only if enough replicas have signed it. `Signable`
  is what `verifyRsaSignature`, `tbls.Recover` and `VerifyTS` accept. A faulty
  replica with nothing in `Forgeable` is silent; it still accepts connections.
* `panicked` records a nil dereference in `handlePrepareVote`; the process is gone.

What the quorums are meant to tolerate, up to f replicas that do anything, is what
`Faulty` stands for; the code base itself only ships replicas that skip sends.

### ViewChange and the code

* `store[r]` has the fields of the struct that only the view change uses:
  `viewChangeStore`, `newViewStore` and whether the timer runs. A handler is an
  operator on a context, the struct of `NormalCase` with these fields. Where the
  code iterates over a map and the order decides, the operator yields the set of
  outcomes.
* `calPQset` keeps per number the entry it met last. `Reports` has every choice an
  iteration can make (`LastMet`), made when the message is received rather than when
  it is sent; only the primary to be looks at the contents, so that the other
  replicas store the sender alone.
* The checkpoints of a report are the ones of its `LastStableCk`, which is all that
  `correctViewChange` looks at in them; `selectInitialSequence` is a maximum.
* `assignSequenceNumbers` keeps its control: the first report with both a
  pre-prepare and a certificate decides; otherwise a batch reported
  `prePrepareSubsetCount` times; two of them make the primary give up; none gives
  the null batch.
* `processNewView` runs `handlePrePrepareMsg` of `NormalCase` for every number, in
  order. `nextSN` and the next planned switch come from the replica's own h.
* `NormalStep` is a step of `NormalCase`, which starts the timer where it leaves
  the view.

### EventLoop, RequestPool, ReplicaProcess and the code

* A thread is the consumer loop or the goroutine of a fast certificate; `pc` is
  the point at which it may be preempted: before a channel operation, before or
  after the lock of `exeSn`, before it writes `execReqBuffer`, between the
  comparison with `lastExec` and the lock.
* A message is reduced to what its handler does to channels, timer, view and
  execution. `Dispatch` has the guards of the handlers.
* A send to a channel without a receiver is a step that is not enabled; the send
  in `timerImpl.loop` has a default case and is always enabled (`PostEvent`).
* `sendToLeaderFails` writes to the error channel, or, under `processNewView`, to a
  nil channel; `SendRPC` is a goroutine of `broadcast`, which goes on with a nil
  connection. `down` is chosen once, at the start.
* `concurrentMapWrites` is the abort of the Go runtime that two writers of
  `execReqBuffer` risk.
* `overlap` records that two threads were changing the view at the same time.
* In `RequestPool` a request is its number in the order of arrival; the loop is
  cut at the lock of `sendBatch`, at the reads outside it and at its select.
  `ReceiveNewRequestForTest` runs when the timer of a primary finds the pool empty,
  as in the code. `lost` collects what is dropped because the replica is not the
  primary or the window is full.

### Bounds

`MaxSN` is the number of sequence numbers; `MaxView` the first view that is not
entered (a step that would enter it is not taken). In the runs of `NormalCase`
alone, leaving view 0 ends the normal case of a replica, and two views show
everything that still can happen to it. `K`, `T` and `viewChangeSeqNumber` keep the
code's relations at their smallest interesting values (T = 1 makes the first
batch a checkpoint and the planned switch). N = 4 is the smallest 3f+1 with f > 0;
proofs cover the rest.

`view_change`, `lost_batch` and `two_views` start late (`LateInit`, `TwoViewsInit`):
a whole normal case in front of the view change is out of TLC's reach. The initial
states are not written down field by field but made by the handlers of `NormalCase`,
applied in an order the network allows: batch 1 executed on the fast path and its
checkpoint stable, batch 2 as far as every combination of a voting quorum and a
certified quorum lets it come, or certified on the fast path with one replica that
executed it, or with a next primary that has missed the checkpoints; two replicas
have left the view, or the next primary alone. `two_views` starts when the replicas
have left view 1 as well, whose new view the handlers of `ViewChange` have made.
What the views before had still under way is lost, which asynchronous links permit.
Three views are two view changes in a row, three numbers the window of the second.
The timer there fires when nothing is under way (`EarlyTimeouts = FALSE`): with
early ones replicas may chase each other through the views for ever.

`MaxFailures` = 2 failed sends fill the error channel and then block; `MaxExpiry`
lets the timer expire in two views; the four messages of `SwitchTraffic` are the
ones that compete: a fast certificate for the number of the planned switch, a slow
one for the next number, a vote and a new view. `MaxRequests`, `BatchSize` and
`Window` give two full batches or up to four small ones for two numbers.

## 3. Runs

| Run | Instance | Shows |
|---|---|---|
| `slow_path` | 1 batch, timer races the votes, replica 3 skips any of its sends | refinement of `OrderedLog`, `NoPanic`, `Progress` |
| `two_batches` | 2 batches, replica 3 silent | order and no gaps when certificates come in any order; `Progress` |
| `faulty_primary` | primary equivocates between 2 batches | `QcUnique`; view-change reports stay true |
| `faulty_backup` | backup votes for anything | nothing is certified or executed without a quorum |
| `planned_switch` | `autoViewChange`, T = 1, 2 batches, replica 3 silent | reports stay true although batches are executed after them; nothing beyond the switch is taken; watermarks are backed by a quorum and follow execution |
| `generator` | 4 to 13 replicas, all accepted numbers of Byzantine ones | the quorums fit together; slow certificates verify except for 3f+2 |
| `view_change` | 3 correct replicas and one that reports nothing, late start | the first new view keeps what may have been executed; a new view is entered by a quorum, goes on with fresh numbers, and is reached |
| `event_loop` | one replica over a planned switch, peers down, sends that fail | order, no batch left behind, timer follows the view, messages are handled |
| `request_pool` | one primary, 4 requests, the view changes | every request is in exactly one batch or still waiting; proposed in time; clients learn of the new primary |
| `overtaken` | 3 replicas and the votes of a fourth, T = 1, abm = 1 | **violated**: checkpoints overtake a pre-prepare, the batch is never executed |
| `lost_batch` | as `view_change` | **violated**: a certificate without its pre-prepare does not count, an executed batch is replaced |
| `two_views` | as `view_change`, from where all have left view 1 | **violated**: a certificate of view 0 replaces what view 1 has executed |

The three violated runs each state what a comment, the README or a test says of
the program; PROJECT.json quotes the line.

`ViewChangeReports` is about the hazard that `handleFastPrepareQc` checks neither
`activeView` nor the watermarks: a batch may be executed after its replica has
left the view. It holds because a batch is reported as soon as its pre-prepare is
stored, and pre-prepares are not stored after the view is left.

Deadlock is not checked: batches and requests run out, and the system rests until
clients send more; `main` of the generator returns.

### What the properties leave out

Several properties hold with an exception. Each exception is a weakness of the code
that TLC found when the property was stated without it; with it the property says
that there is no other.

| Property | Exception | Code |
|---|---|---|
| `Progress` | two PrepareQcs with different time stamps were sent: the timer's goroutine and the vote handler both passed the test of `prepareQcStage`, and the commit votes split | `core.go:283` |
| `SlowKeyFits` | N = 3f+2: the threshold of the slow key, N - N/3, exceeds the 2f+1 votes of a slow certificate | `node.go:170` |
| `NewViewKeepsBatches` | a certificate came before its pre-prepare (`Orphaned`); `lost_batch` is the run without it | `viewchange.go:374` |
| `NumbersNotReused` | the next primary's low watermark is behind the one its new view starts from | `viewchange.go:279` |
| `ViewChangeCompletes` | no stable checkpoint, or a pre-prepare at the high watermark (`Reportable`); a new-view message that came before its replica had left the old view (`Stranded`) | `viewchange.go:204`, `:84`, `:256` |
| `TimerFollowsView` | the timer's event found the loop busy and was dropped; two threads changed the view at once | `timer_control.go:128`, `core.go:678` |
| `MessagesHandled` | the loop is blocked for ever on the error channel, by the second failed send to the leader or by the first in a new view; a panic | `core.go:182`, `viewchange.go:324` |
| `OnlyBroadcastsPanic` | a broadcast to a peer that is down dereferences nil; two threads write one map | `node.go:408`, `core.go:665` |
| `RequestsProposed` | the replica left its first view or the window is used up: the batch was cut off already and its requests are gone | `node.go:550` |

`NewViewKeepsBatches` is about the new view of view 1, as long as no later one is
made, and about every batch that view 0 *may* have executed (`Decided`: the votes of
a fast certificate or the commit votes of a commit certificate are there, executed
or not). Of later views it is false, which the attempt to prove it there brought to
light and `two_views` shows: replica 2 alone has the certificate of a batch in view
0; view 1, made without its report, gives the number to the null batch and executes
that on the fast path, whose certificates are not reported; and the primary of view
2 takes the certificate of view 0 that replica 2 still reports. PBFT compares the
views of certificates; `assignSequenceNumbers` does not. Replica 2, which has not
executed the null batch, then executes the old one.

`NoPanic` is checked, and proved, without two situations in which it does not hold.
A vote of a faulty backup may come before the proposal. And at the planned change
of primary a replica that has the fast certificate of the last number before its
pre-prepare executes inside `handlePrePrepareMsg` and leaves the view; the vote it
then creates is for the next view, carries an empty digest and goes to the next
primary, which, if it is still in the old view, has no timer for it and
dereferences nil (`core.go:145`, `:265`). TLC finds the second one in thirteen
states, with four correct replicas, when `NoPanic` is checked on the constants of
`planned_switch` with `Faulty = {}` and one batch.

A proposal that passed the check of the planned switch before others took their
numbers is sent beyond the switch; the receivers refuse it, which is what
`NothingBeyondSwitch` checks.

### Fairness

`FairSpec` adds `WF_vars(Next)`. The Go scheduler runs runnable goroutines, TCP
delivers to a running peer, timers fire; so every single action deserves weak
fairness. In the instances with liveness properties every step uses up something
finite (a message, a timer, a goroutine, a stage of a proposal, a vote that was
not counted yet), so no action can be postponed for ever by others: a behaviour
ends in a state where nothing is enabled, which weak fairness of `Next` already
forces. `FastTimeout = FALSE` is the case in which votes arrive before the
timer; the timer then plays no role.

`ViewFairness` is the same for `ViewChange`, with "a step is enabled" written out
as `Busy`: something is under way to a running replica, a goroutine waits, or a
timer runs. What a faulty replica might send does not count, so nothing makes it
send.

`ProcessFairness` is weak fairness per goroutine: the consumer loop, each thread,
the timer, each sender, the batch timer, the batch loop, the proposals. No message
or request has to come and no send has to fail. A thread at a channel
whose other end is gone is not enabled, so fairness does not hide a deadlock.

## 4. Proofs

Every theorem holds for every N = 3f+1, every fault set of at most f replicas,
every set of messages these may send, and every T, K, batch set and bound, unless
it says otherwise. Liveness apart, every property of the passing runs is
a theorem.

### NormalCaseProofs

* `TypeCorrect`: `Spec => []TypeOK`;
* `CertificatesAgree`: `Spec => []QcUnique`;
* `StableCheckpoint`: `Spec => []StableCheckpointBacked`;
* `VotesFindTimers`: `Spec => []NoPanic`, if no change of primary is planned and no
  faulty replica sends votes. Both hypotheses are needed (section 3).

The inductive invariant `Inv` has three parts. `TypeOK`. `VotesOK`: every replica
has signed, for each number and view, only the batch its certificate stores (or the
empty hash); every vote counted, every certificate held or under way and the
one a timer is about to send is backed by votes. `CheckpointsOK`: every checkpoint
stored or under way from a correct replica was sent by one that has executed as
much, and a low watermark has a quorum in the store. None of the three properties
is inductive alone: `QcUnique` speaks of certificates only, and one more
certificate contradicts it unless it is tied to votes.

The argument for `QcUnique`: two certificates have 2f+1 voters each, so that they
share a correct one (`SharedVoter`, from cardinalities); a correct replica signs
the digest its certificate stores, which `handlePrePrepareMsg` never replaces by
another. The lemma `<handler>Moves` for each handler (`NormalCaseHandlers`) says
that it turns a sound node into a sound node that has signed and executed at least
as much; `MovesTrans` composes them the way the code's calls nest; `StepInv` lifts
them to steps.

`NoPanic` needs facts of both sides: a pre-prepare or vote under way is for a
request that the first primary has a timer for, as long as that primary is active
(`Expected`, `Asked`); an active replica is in the first view; and a proposal on
its way was made for that view if its maker is still in it (`PanicFree` is their
conjunction). `Mild` is what most handlers are: they touch no timer, send neither
votes nor pre-prepares, and change the view only by leaving it.

### ReportProofs

* `ReportsStayTrue`: `Spec => []ViewChangeReports`;
* `SwitchIsABound`: `Spec => []NothingBeyondSwitch`.

`Records` says where things come from. What a replica has executed or buffered it
still stores, together with a certificate (`Justified`); certificates are filed
under their own number and backed by votes (`Filed`); who has voted about a number
has stored a batch for it (`VoteCast`); nothing is stored beyond the switch. A
view-change message lists what its sender stores as long as that one stays in the
view it leads to, and the sender is inactive there (`Truthful`), so that no later
pre-prepare makes it false. `<handler>Follows` are the lemmas per handler,
`FollowsTrans` composes them.

### ExecutionProofs

* `ExecutionIsCertified`: `Spec => []ExecutedIsCertified`;
* `AgreementUnderCorrectPrimary`: `ExecutionAgreement`, if the first primary is
  correct;
* `Refinement`: `Spec => ImplementsOrderedLog`, if the first primary is correct.

No handler compares a certificate with the batch it executes. That they agree rests
on the proposer: `ExecInv` adds to `Inv` and `Records` that a correct first primary
uses every number once (`NumbersOK`), that only its batches are on their way
(`ProposerOK`) and that every vote of a correct replica is about one of its
proposals (`HonestVotes`). A stored batch with a certificate then has a correct
voter, the vote is about the only proposal with that number, and so the batch is
the certified one. For the refinement, votes choose a slot (once, by quorum
intersection) and executions append chosen slots in order; everything else
stutters. The hypothesis is needed: TLC refutes `ExecutionAgreement` on the constants
of `faulty_primary` in eight states. An equivocating primary gets one batch certified,
and the replicas that hold the other one execute that (`core.go:407`).

### ViewChangeProofs

* `ViewTypeCorrect`: `ViewSpec => []ViewTypeOK`;
* `EnteredByQuorum`: `ViewSpec => []ViewEnteredByQuorum`;
* `NumbersGoOn`: `ViewSpec => NumbersNotReused`;
* `CertificatesAgreeInViews`, `StableCheckpointInViews`: `QcUnique` and
  `StableCheckpointBacked` hold through view changes as well.

`ViewInv` is `Inv`, `ViewTypeOK` and `ViewsOK`: a report of a correct replica,
under way or stored, is for a view that its sender has reached, and a new view
that is under way, stored or entered is one that a view-change quorum, but for the
faulty in it, has reached. Since one report per sender is stored, a quorum of
reports is a quorum of replicas (`QuorumLeft`). Faulty replicas report what they
like. `NumbersGoOn` is about steps: `enterView` sets `nextSN` above the window, and
processing the new view takes no number back. `Stays` (a handler of the normal
case changes the view only by leaving it), `Runs` (a new view is processed) and
`Carries` (a handler of the view change) are the relations the handlers are
composed by. The loop of `processNewView` is a recursive function over numbers; its
lemma (`reproposeAllRuns`) goes by the least number at which it could fail
(`LeastNat`), as the induction theorems of the library cannot be used.

`Recalls` says that the handlers of the view change leave what a replica has stored
and proposed in the first view as it is. `Made` and `Taken` say where a new
view and a stored report come from. `Handles(r)` puts these together for a step of
replica r, one lemma per action (`RecvViewChangeHandles`, `RecvNewViewHandles`,
`TimeOutHandles`), and is all that later proofs need to know of the handlers.

### FirstViewProofs

* `BatchesKept`: `ViewSpec => []NewViewKeepsBatches`, if the first primary is
  correct (`FirstPrimary`) and faulty replicas invent no batches in their reports
  for view 1 (`Withholding`).

`FirstInv` is the inductive invariant, in two halves. Until a new view is made,
every replica has stored, per number, the batch that the first primary proposed or
none (`OneBatch`), since that primary uses a number once and only its pre-prepares
are on their way (`ProposalsOK`); and the reports of view 1 tell what their senders
have stored (`ReportsOK`). From then on `KeepsFirst`: for each number of the new
view there is a view-change quorum of replicas that have left view 0 and either
stored no other batch than the one it has (`Agrees`) or had too few batches and no
certificate beside one (`Undecided`). What replicas have of view 0 no longer changes
once they have left it, so that the second half is stable.

That this keeps a decided batch is counting. Who signed a fast certificate has
stored the batch, and the overlap of its voters with the quorum that left, less the
faulty, is at least `prePrepareSubsetCount` (`FastShared`; the quorums of the
configuration are just large enough). A commit certificate's signers hold the
prepare certificate, and one of them is correct and in the quorum that left
(`SharedVoter`); unless it is `Orphaned`, the pre-prepare is beside it.

The hypotheses are needed. A faulty first primary proposes different batches under
one number, and replicas execute either. A faulty report may name batches nobody has proposed:
`assignSequenceNumbers` takes the batch of any report that has both a pre-prepare and
a certificate for the number, and nothing in a report is signed by others but its
certificates, whose digest is not compared with the pre-prepare (`viewchange.go:374`).
The theorem ends with the first new view because from then on a number may be used
in several views (`two_views` is the counterexample), and a pre-prepare on its way is taken by whoever finds that its
sender is the primary of the current view, whatever view it is for (`core.go:97`).

### ReplicaProcessProofs

* `LoopTypeCorrect`, `ExecutesInOrder`, `LeavesNoneBehind`, `TimerWithView`,
  `PanicsInBroadcasts`: the safety properties of `EventLoop`, for any traffic, set
  of peers and planned switch;
* `AccountsBalance`: `RequestsAccounted`;
* `ProcessRunsLoop`: `ProcessSpec` implements the specification of `EventLoop`;
  `ProcessSafe` carries the properties of the loop over to the process.

`LoopInv` says that whoever executes holds the lock (`LockOK`); that a number
which may be executed will be, by the holder of the lock or by a thread that is
about to compare or to take it (`NextWillBeExecuted`, the strengthening that
`NoneLeftBehind` needs); that a thread which changes the view alone finds the timer
as it left it (`AloneWithTimer`); and that nothing is broadcast before something is
executed or a view is left (`BroadcastsHaveCause`). `PoolInv` says that the loop's
hand and the pool are the last requests that came, in order (`WaitingOK`), and that
exactly the others are in batches, each in one (`BatchesOK`).

### QuorumProofs

`QuorumProofs` proves the five properties of `ConfigGen` for every cluster size,
from the form of the configurations (`ConfigOK`). `FastReproposed` is tight:
the overlap of a fast quorum with a view-change quorum, less f liars, is exactly
`prePrepareSubsetCount`. `SlowKey` says exactly which cluster sizes get a key that
their slow certificates can be verified with.

### Assumptions, and what is only model-checked

Assumptions on constants (`ClusterAssumption`, `BatchAssumption`,
`ParameterAssumption`, `ForgeableAssumption`, `SizeAssumption`, `NullAssumption`,
`NilAssumption`, `LoopAssumption`, `LockAssumption`, `PoolAssumption`) are evaluated
by TLC in the runs.

Only model-checked: liveness (`Progress`, `CheckpointsStabilise`,
`ViewChangeCompletes`, `MessagesHandled`, `RequestsProposed`, `LeaderFollows`),
which is out of the prover's reach.

## 5. Not modelled, and the plan

Not modelled:

* encoding of messages and the bytes on a connection; the shutdown of the
  transport and the `exit` and soft start of the timer, which nothing calls; the
  connection pool, which is commented out;
* loader, scripts and the client program, which sends requests to the address it
  was told last and keeps no protocol state;
* shares and signatures that do not verify (most handlers panic on them), and loss
  of messages other than skipped sends;
* `ViewChangeQuorumMsg`, which has a case in `StartPBFT` and is never sent;
* data races beyond the ones named: the stop flag, the stage test, the execution
  buffer, the view read by the pool.

The normal case and the goroutines of a replica are modelled in separate modules and
not composed: the state space of both together is out of reach, and they meet
only in the handler that a message starts. Crash recovery is not there to
model: the program persists nothing.

Worth proving next: what of `NormalCase` survives several views (the invariants of
`ReportProofs`, `ExecutionProofs` and `FirstViewProofs` are about the first one), and
which comparison of views in `assignSequenceNumbers` would make
`NewViewKeepsBatches` true of all of them.
