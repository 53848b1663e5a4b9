--------------------------- MODULE ReplicaProcess ---------------------------
(***************************************************************************)
(* The process of one replica: the goroutines of EventLoop and the request *)
(* pool, which reads the view that the former change.                      *)
(***************************************************************************)
EXTENDS EventLoop

CONSTANTS Replica, Cluster, BatchSize, Window, MaxRequests

ASSUME PoolAssumption ==
    /\ Cluster \in Nat \ {0} /\ Replica \in 0..(Cluster - 1)
    /\ BatchSize \in Nat \ {0} /\ Window \in Nat /\ MaxRequests \in Nat

VARIABLES received, BatchStore, loop, expired, inHand, toGenerate, spawned,
          proposed, lost, Leader

Pool == INSTANCE RequestPool

requestVars == <<received, BatchStore, loop, expired, inHand, toGenerate, spawned,
                 proposed, lost, Leader>>

processVars == <<loopVars, requestVars>>

\* A panic ends every goroutine.
PoolStep(A) == ~crashed /\ A /\ UNCHANGED loopVars

LoopStep(A) == /\ ~crashed /\ A /\ UNCHANGED requestVars
               /\ overlap' = (overlap \/ Overlapping')

ProcessInit == LoopInit /\ Pool!PoolInit

ProcessNext ==
    \/ LoopNext /\ UNCHANGED requestVars
    \/ PoolStep(Pool!PoolNext)

\* Every goroutine that can run does, and timers expire; no message or request
\* has to come, and no send has to fail.
ProcessFairness ==
    /\ WF_processVars(LoopStep(Consume))
    /\ \A t \in Threads : WF_processVars(LoopStep(ThreadStep(t)))
    /\ WF_processVars(LoopStep(TimerStep))
    /\ \A p \in Peers : WF_processVars(LoopStep(SendRPC(p)))
    /\ WF_processVars(PoolStep(Pool!BatchTimeOut))
    /\ WF_processVars(PoolStep(Pool!HandleReqBatchLoop))
    /\ WF_processVars(PoolStep(\E b \in spawned : Pool!proposeBatch(b)))

ProcessSpec == ProcessInit /\ [][ProcessNext]_processVars /\ ProcessFairness
-----------------------------------------------------------------------------
\* Every message that arrives is handled, whatever the threads, the timer and
\* the senders do, until two sends to the leader have failed, or one in a new
\* view (the loop and the timer wait for each other at unbuffered channels).
MessagesHandled ==
    \A m \in Msgs :
        msgs[m] = "offered"
        ~> msgs[m] = "handled" \/ crashed \/ thread[Loop].pc = "blocked"

\* The accounts of the pool balance while the view changes under it.
RequestsAccounted == Pool!RequestsAccounted

\* A request that the pool has got is proposed sooner or later, unless the
\* replica has left its first view or the window is used up (sendBatch cuts a
\* batch off before it knows whether it may be proposed).
RequestsProposed ==
    \A i \in 1..MaxRequests :
        received >= i ~> \/ \E b \in Pool!ToSet(proposed) : i \in Pool!ToSet(b)
                         \/ currenView > 0 \/ Len(proposed) = Window \/ crashed

\* Clients are told of every change of primary that lasts (HandleReqBatchLoop
\* reads the view without a lock).
LeaderFollows ==
    \A r \in 0..(Cluster - 1) :
        currenView % Cluster = r ~> Leader = r \/ currenView % Cluster # r \/ crashed
=============================================================================
