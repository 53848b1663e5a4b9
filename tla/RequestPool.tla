---------------------------- MODULE RequestPool ----------------------------
(***************************************************************************)
(* The request pool of one replica (core/node.go, core/rpchandler.go):     *)
(* RPC goroutines append requests under a lock, HandleReqBatchLoop cuts    *)
(* batches off the front when there are enough of them or its timer has    *)
(* expired, and a goroutine per batch proposes it.  The loop reads the     *)
(* view, which the consumer loop changes, without a lock.                  *)
(***************************************************************************)
EXTENDS Integers, Sequences, SequencesExt

CONSTANTS
    Replica,      \* replicaId
    Cluster,      \* len(clusterAddr)
    BatchSize,
    Window,       \* numbers the watermarks leave for proposals
    MaxRequests   \* bound: requests that are received

VARIABLES
    currenView, activeView,  \* of the replica
    received,    \* how many requests the pool has got; they are numbered by it
    BatchStore,
    loop,        \* where HandleReqBatchLoop is
    expired,     \* TimeOutControl.C can be read
    inHand,      \* the batch that sendBatch has cut off
    toGenerate,  \* requests ReceiveNewRequestForTest has still to make
    spawned,     \* batches whose goroutine has not run yet
    proposed,    \* batches with a number, in the order of their numbers
    lost,        \* requests of batches that were not proposed
    Leader       \* what clients are told

IsPrimary == activeView /\ currenView % Cluster = Replica

\* sendBatch is called because of the size, at the top, or of the time, in the
\* select.
LoopPoints == {"top", "cutFull", "decideFull", "select", "cutLate", "decideLate",
               "generate"}
-----------------------------------------------------------------------------
append ==
    /\ received < MaxRequests
    /\ received' = received + 1
    /\ BatchStore' = Append(BatchStore, received + 1)

\* An RPC goroutine.  The reply names Leader.
ReceiveNewRequest ==
    /\ append
    /\ UNCHANGED <<loop, expired, inHand, toGenerate, spawned, proposed, lost,
                   Leader>>

\* The timer that the loop resets.
BatchTimeOut ==
    /\ ~expired /\ expired' = TRUE
    /\ UNCHANGED <<received, BatchStore, loop, inHand, toGenerate, spawned,
                   proposed, lost, Leader>>

\* Mutant: the leader is the one of the configuration.
refreshLeader_Once == Leader' = 0

refreshLeader == Leader' = currenView % Cluster

\* The top of the loop; the length is read without the lock.
loopTop ==
    /\ loop = "top"
    /\ refreshLeader
    /\ loop' = IF Len(BatchStore) >= BatchSize THEN "cutFull" ELSE "select"
    /\ UNCHANGED <<received, BatchStore, expired, inHand, toGenerate, spawned,
                   proposed, lost>>

\* Mutant: the slice that is kept starts one too late.
Rest_Skips(store, end) == SubSeq(store, end + 2, Len(store))

Rest(store, end) == SubSeq(store, end + 1, Len(store))

\* sendBatch under its lock.
sendBatch(from, to) ==
    LET end == IF Len(BatchStore) < BatchSize THEN Len(BatchStore) ELSE BatchSize
    IN  /\ loop = from
        /\ inHand' = SubSeq(BatchStore, 1, end)
        /\ BatchStore' = Rest(BatchStore, end)
        /\ loop' = to
        /\ UNCHANGED <<received, expired, toGenerate, spawned, proposed, lost,
                       Leader>>

\* sendBatch after its lock.  The Reset of the loop's timer that follows leaves
\* an expiry in the channel that was not read yet.
decideBatch(from, to) ==
    /\ loop = from
    /\ IF IsPrimary
       THEN spawned' = spawned \cup {inHand} /\ lost' = lost
       ELSE spawned' = spawned /\ lost' = lost \cup ToSet(inHand)
    /\ inHand' = <<>> /\ loop' = to
    /\ UNCHANGED <<received, BatchStore, expired, toGenerate, proposed, Leader>>

\* Mutant: a batch that is not full waits.
AfterTimeOut_FullOnly ==
    IF Len(BatchStore) >= BatchSize THEN "cutLate" ELSE "top"

\* What the expired timer makes the loop do.
AfterTimeOut ==
    IF BatchStore # <<>> THEN "cutLate"
    ELSE IF IsPrimary THEN "generate"
    ELSE "top"

\* The select of the loop, whose default case goes back to the top.
selectTimeOut ==
    /\ loop = "select"
    /\ loop' = IF expired THEN AfterTimeOut ELSE "top"
    /\ toGenerate' = IF loop' = "generate" THEN BatchSize ELSE toGenerate
    /\ expired' = FALSE
    /\ UNCHANGED <<received, BatchStore, inHand, spawned, proposed, lost, Leader>>

\* ReceiveNewRequestForTest, one request a step; other requests come between.
generateRequest ==
    /\ loop = "generate"
    /\ IF toGenerate > 0 /\ received < MaxRequests
       THEN append /\ toGenerate' = toGenerate - 1 /\ loop' = loop
       ELSE /\ toGenerate' = 0 /\ loop' = "top"
            /\ UNCHANGED <<received, BatchStore>>
    /\ UNCHANGED <<expired, inHand, spawned, proposed, lost, Leader>>

\* broadcastPrePrepareMsg in the goroutine of batch b.
proposeBatch(b) ==
    /\ b \in spawned
    /\ spawned' = spawned \ {b}
    /\ IF Len(proposed) < Window
       THEN proposed' = Append(proposed, b) /\ lost' = lost
       ELSE proposed' = proposed /\ lost' = lost \cup ToSet(b)
    /\ UNCHANGED <<received, BatchStore, loop, expired, inHand, toGenerate, Leader>>

HandleReqBatchLoop ==
    \/ loopTop \/ selectTimeOut \/ generateRequest
    \/ sendBatch("cutFull", "decideFull") \/ decideBatch("decideFull", "select")
    \/ sendBatch("cutLate", "decideLate") \/ decideBatch("decideLate", "top")

PoolNext ==
    \/ ReceiveNewRequest \/ BatchTimeOut \/ HandleReqBatchLoop
    \/ \E b \in spawned : proposeBatch(b)

PoolInit ==
    /\ received = 0 /\ BatchStore = <<>> /\ loop = "top" /\ expired = FALSE
    /\ inHand = <<>> /\ toGenerate = 0 /\ spawned = {} /\ proposed = <<>>
    /\ lost = {} /\ Leader = 0
-----------------------------------------------------------------------------
(***************************************************************************)
(* Properties.                                                             *)
(***************************************************************************)
InBatch(i) == \/ \E b \in spawned : i \in ToSet(b)
              \/ \E b \in ToSet(proposed) : i \in ToSet(b)
              \/ i \in lost

\* Request i is in one batch only: with a goroutine, under one number, or lost.
OnceOnly(i) ==
    /\ \A b, c \in spawned : i \in ToSet(b) /\ i \in ToSet(c) => b = c
    /\ \A j, k \in DOMAIN proposed : i \in ToSet(proposed[j]) /\ i \in ToSet(proposed[k]) => j = k
    /\ \A b \in spawned : i \in ToSet(b) => i \notin lost
    /\ \A k \in DOMAIN proposed : i \in ToSet(proposed[k])
                                  => i \notin lost /\ \A b \in spawned : i \notin ToSet(b)

\* Every request that was received is in the pool, in the loop's hand or in one
\* batch, and only in one of them; those in the pool came last and in order
\* (sendBatch against ReceiveNewRequest and ReceiveNewRequestForTest).
RequestsAccounted ==
    \A i \in 1..received :
        LET rest == inHand \o BatchStore
        IN  IF i <= received - Len(rest)
            THEN InBatch(i) /\ OnceOnly(i) /\ i \notin ToSet(rest)
            ELSE rest[i - (received - Len(rest))] = i /\ ~InBatch(i)
=============================================================================
