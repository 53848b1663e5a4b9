------------------------- MODULE ReplicaProcessProofs -------------------------
(***************************************************************************)
(* The process of a replica, for every traffic, cluster and batch size.    *)
(* First the safety properties of the goroutines of EventLoop, for every   *)
(* set of messages, every set of peers and every planned switch: the       *)
(* inductive invariant says who is inside the lock of the execution        *)
(* counter, which thread will execute the next number that may be, what a  *)
(* thread that changes the view alone finds at the timer, and what must    *)
(* have happened before anything is broadcast.  Then the request pool next *)
(* to them: no request is lost track of or put in two batches.             *)
(***************************************************************************)
EXTENDS ReplicaProcess, TLAPS

\* The points of a thread that holds the lock: the execution loop, and
\* sendViewChange when the loop has called it.
Inside == {"loop", "unlock", "stop", "leave", "start"}

\* The holder of the lock, and only it, is in the execution loop.  The goroutine
\* of a fast certificate does not run before its message has been handled.
LockOK ==
    /\ \A t \in Threads : thread[t].pc \in {"loop", "unlock"} => lock = t
    /\ lock # Free => thread[lock].pc \in Inside
    /\ \A m \in Threads \ {Loop} : msgs[m] # "handled" => thread[m].pc = "idle"

\* t is going to look for the next number in the buffer.
WillExecute(t) ==
    \/ lock = t /\ thread[t].pc # "unlock"
    \/ thread[t].pc = "lock"
    \/ thread[t].pc = "compare" /\ lastExec < thread[t].sn

\* A number that may be executed is executed by the holder of the lock or by a
\* thread that is about to take it.
NextWillBeExecuted == lastExec + 1 \in buffer => \E t \in Threads : WillExecute(t)

\* A thread that changes the view alone finds the timer as it has left it.
AloneWithTimer ==
    overlap \/ /\ ~Overlapping
               /\ \A t \in Threads :
                     /\ thread[t].pc \in {"leave", "enter"} => timer = "nil"
                     /\ thread[t].pc = "start" => ~activeView

\* Nothing is broadcast before a number is executed or a view is left.
BroadcastsHaveCause == sends # {} => lastExec > 0 \/ currenView > 0

LoopInv ==
    /\ LoopTypeOK
    /\ LockOK
    /\ ExecutedInOrder
    /\ NextWillBeExecuted
    /\ AloneWithTimer /\ TimerFollowsView
    /\ BroadcastsHaveCause /\ OnlyBroadcastsPanic
-----------------------------------------------------------------------------
(***************************************************************************)
(* Threads.                                                                *)
(***************************************************************************)
\* Where a thread is, after the step of one of them.
At(u, t, pc) == IF u = t THEN pc ELSE thread[u].pc

\* A message of the loop is not the loop.
LEMMA LoopIsNoMessage == Loop \notin Msgs
  <1>1. Loop.kind \notin Kinds
    BY DEF Loop, Kinds
  <1> QED
    BY <1>1, LoopAssumption

\* Every thread but the loop is the goroutine that handleFastPrepareQc started for
\* a message.
LEMMA ThreadIsMessage ==
  ASSUME NEW t \in Threads, t # Loop
  PROVE  t \in Msgs /\ t.kind = "fast" /\ t.arg \in Nat
  BY LoopAssumption DEF Threads

\* What moving one thread does to all of them.
LEMMA GotoMoves ==
  ASSUME LoopTypeOK, NEW t \in Threads, NEW pc \in Points, Goto(t, pc)
  PROVE  /\ thread' \in [Threads -> [pc : Points, sn : Nat]]
         /\ \A u \in Threads : /\ thread'[u].pc = At(u, t, pc)
                               /\ thread'[u].sn = thread[u].sn
  BY DEF LoopTypeOK, Goto, At

\* What StartPBFT does to the threads: the loop dispatches the message, and the
\* goroutine of a fast certificate begins.
LEMMA StartPBFTMoves ==
  ASSUME LoopTypeOK, LockOK, NEW m \in Msgs, StartPBFT(m)
  PROVE  /\ thread' \in [Threads -> [pc : Points, sn : Nat]]
         /\ thread'[Loop].pc \in {"idle", "vote", "stop", "write", "stopEnter"}
         /\ \A t \in Threads \ {Loop} :
               \/ thread'[t] = thread[t]
               \/ t = m /\ thread[t].pc = "idle" /\ thread'[t].pc = "write"
  <1>1. m.kind \in Kinds /\ m.arg \in Nat /\ m # Loop
    BY LoopAssumption, LoopIsNoMessage
  <1>2. Dispatch(m) \in {"idle", "vote", "stop", "write", "stopEnter"}
    BY <1>1 DEF Dispatch, IfActive, Kinds
  <1>3. Loop \in Threads
    BY DEF Threads
  <1>4. ASSUME NEW t \in Threads
        PROVE  thread'[t] \in [pc : Points, sn : Nat]
    BY <1>1, <1>2, <1>4 DEF StartPBFT, LoopTypeOK, Points
  <1>5. thread' \in [Threads -> [pc : Points, sn : Nat]]
    BY <1>4 DEF StartPBFT
  <1>6. thread'[Loop].pc = Dispatch(m)
    BY <1>3 DEF StartPBFT
  <1>7. ASSUME NEW t \in Threads \ {Loop}, thread'[t] # thread[t]
        PROVE  t = m /\ thread[t].pc = "idle" /\ thread'[t].pc = "write"
    <2>1. t = m /\ thread'[t].pc = "write"
      BY <1>7 DEF StartPBFT
    <2>2. msgs[m] # "handled"
      BY DEF StartPBFT
    <2> QED
      BY <2>1, <2>2 DEF LockOK
  <1> QED
    BY <1>2, <1>5, <1>6, <1>7
-----------------------------------------------------------------------------
(***************************************************************************)
(* Each part of the invariant, through every step.                         *)
(***************************************************************************)
LEMMA TypeStep ==
  ASSUME LoopTypeOK, LockOK, LoopNext
  PROVE  LoopTypeOK'
  <1> USE DEF LoopTypeOK, viewVars, execVars, sendVars
  <1>0. overlap' \in BOOLEAN
    BY DEF LoopNext
  <1>1. ASSUME NEW m \in Msgs, handleCommand(m)
        PROVE  LoopTypeOK'
    BY <1>0, <1>1 DEF handleCommand
  <1>2. ASSUME NEW m \in Msgs, StartPBFT(m)
        PROVE  LoopTypeOK'
    <2>1. thread' \in [Threads -> [pc : Points, sn : Nat]]
      BY <1>2, StartPBFTMoves
    <2> QED
      BY <1>0, <1>2, <2>1 DEF StartPBFT
  <1>3. ASSUME NEW t \in Threads, ThreadStep(t)
        PROVE  LoopTypeOK'
    <2> USE <1>0, GotoMoves DEF Points
    <2>1. CASE sendToLeader(t)
      BY <2>1 DEF sendToLeader
    <2>2. CASE sendToLeaderFails(t)
      <3>1. failures' \in 0..MaxFailures /\ errs' \in 0..1
        BY <2>2, LoopAssumption DEF sendToLeaderFails
      <3>2. Goto(t, "idle") \/ Goto(t, "blocked")
        BY <2>2 DEF sendToLeaderFails
      <3>3. thread' \in [Threads -> [pc : Points, sn : Nat]]
        BY <3>2
      <3> QED
        BY <2>2, <3>1, <3>3 DEF sendToLeaderFails
    <2>3. CASE stopTimer(t, "stop", "leave") \/ stopTimer(t, "stopEnter", "enter")
      <3>1. thread' \in [Threads -> [pc : Points, sn : Nat]]
        BY <2>3 DEF stopTimer
      <3> QED
        BY <2>3, <3>1 DEF stopTimer
    <2>4. CASE leaveView(t)
      <3>1. currenView' = currenView + 1 /\ sends' = sends \cup Peers /\ Goto(t, "start")
        BY <2>4 DEF leaveView
      <3>2. currenView' \in Nat
        BY <3>1
      <3>3. sends' \subseteq Peers
        BY <3>1
      <3>4. thread' \in [Threads -> [pc : Points, sn : Nat]]
        BY <3>1
      <3> QED
        BY <2>4, <3>2, <3>3, <3>4 DEF leaveView
    <2>5. CASE startTimer(t)
      BY <2>5 DEF startTimer, Back
    <2>6. CASE processNewView(t)
      BY <2>6 DEF processNewView
    <2>7. CASE writeBuffer(t)
      <3>1. buffer' = buffer \cup {thread[t].sn} /\ Goto(t, "compare")
        BY <2>7 DEF writeBuffer
      <3>2. thread[t].sn \in Nat
        OBVIOUS
      <3>3. buffer' \subseteq Nat
        <4>1. buffer \subseteq Nat /\ buffer' = buffer \cup {thread[t].sn}
          BY <3>1
        <4> HIDE DEF LoopTypeOK
        <4> QED
          BY <3>2, <4>1
      <3>4. thread' \in [Threads -> [pc : Points, sn : Nat]]
        BY <3>1
      <3> QED
        BY <2>7, <3>3, <3>4 DEF writeBuffer
    <2>8. CASE compareLastExec(t)
      BY <2>8 DEF compareLastExec
    <2>9. CASE takeLock(t)
      BY <2>9 DEF takeLock
    <2>10. CASE executeNext(t)
      <3>1. executed' \in Seq(Nat) /\ lastExec' \in Nat
        BY <2>10 DEF executeNext
      <3>2. Goto(t, "stop") \/ Goto(t, "loop")
        BY <2>10 DEF executeNext
      <3>3. thread' \in [Threads -> [pc : Points, sn : Nat]]
        BY <3>2
      <3> QED
        BY <2>10, <3>1, <3>3 DEF executeNext
    <2>11. CASE leaveLoop(t)
      BY <2>11 DEF leaveLoop
    <2>12. CASE releaseLock(t)
      BY <2>12 DEF releaseLock
    <2> QED
      BY <1>3, <2>1, <2>2, <2>3, <2>4, <2>5, <2>6, <2>7, <2>8, <2>9, <2>10, <2>11,
         <2>12 DEF ThreadStep
  <1>4. CASE TimerStep
    <2>1. Loop \in Threads
      BY DEF Threads
    <2>2. thread' \in [Threads -> [pc : Points, sn : Nat]]
      BY <1>4, <2>1, GotoMoves DEF TimerStep, Expire, PostEvent, Points
    <2> QED
      BY <1>0, <1>4, <2>2 DEF TimerStep, Expire, PostEvent
  <1>5. ASSUME NEW p \in Peers, SendRPC(p)
        PROVE  LoopTypeOK'
    BY <1>0, <1>5 DEF SendRPC
  <1>6. CASE concurrentMapWrites
    BY <1>0, <1>6 DEF concurrentMapWrites
  <1> QED
    BY <1>1, <1>2, <1>3, <1>4, <1>5, <1>6 DEF LoopNext, Consume

\* A thread moves, and its lock with it: it keeps what it had, takes the lock to
\* enter the loop, or releases it.
LEMMA LockMoves ==
  ASSUME LoopTypeOK, LockOK, NEW t \in Threads, NEW pc \in Points, Goto(t, pc),
         thread[t].pc # "idle" \/ t = Loop, msgs' = msgs,
         \/ lock' = lock /\ IF lock = t THEN pc \in Inside ELSE pc \notin {"loop", "unlock"}
         \/ lock = Free /\ lock' = t /\ pc = "loop"
         \/ lock = t /\ lock' = Free /\ pc = "idle"
  PROVE  LockOK'
  <1>1. \A u \in Threads : thread'[u].pc = At(u, t, pc)
    BY GotoMoves
  <1>2. \A u \in Threads : thread'[u].pc \in {"loop", "unlock"} => lock' = u
    BY <1>1, LockAssumption DEF LockOK, At, LoopTypeOK
  <1>3. lock' # Free => thread'[lock'].pc \in Inside
    BY <1>1, LockAssumption DEF LockOK, At, Inside, LoopTypeOK
  <1>4. \A m \in Threads \ {Loop} : msgs'[m] # "handled" => thread'[m].pc = "idle"
    BY <1>1 DEF LockOK, At
  <1> QED
    BY <1>2, <1>3, <1>4 DEF LockOK

\* Only the holder of the lock is at the points inside it that are not also
\* outside it, and nobody holds it at the others.
LEMMA Holder ==
  ASSUME LoopTypeOK, LockOK, NEW t \in Threads
  PROVE  /\ thread[t].pc \in {"loop", "unlock"} => lock = t
         /\ thread[t].pc \notin Inside => lock # t
         /\ t # Free
  BY LockAssumption DEF LockOK

\* The mutex of executeRequest: whoever is in its loop has taken it.
LEMMA LockStep ==
  ASSUME LoopTypeOK, LockOK, LoopNext
  PROVE  LockOK'
  <1> USE DEF viewVars, execVars, sendVars
  <1>1. ASSUME NEW m \in Msgs, handleCommand(m)
        PROVE  LockOK'
    BY <1>1, ThreadIsMessage DEF handleCommand, LoopTypeOK, LockOK
  <1>2. ASSUME NEW m \in Msgs, StartPBFT(m)
        PROVE  LockOK'
    <2>1. /\ thread'[Loop].pc \notin {"loop", "unlock"} /\ Loop \in Threads
          /\ \A t \in Threads \ {Loop} :
               \/ thread'[t] = thread[t]
               \/ t = m /\ thread[t].pc = "idle" /\ thread'[t].pc = "write"
      BY <1>2, StartPBFTMoves DEF Threads
    <2>2. lock' = lock /\ lock # Loop /\ msgs' = [msgs EXCEPT ![m] = "handled"]
      BY <1>2, <2>1, Holder DEF StartPBFT, Inside
    <2>3. \A t \in Threads : thread'[t].pc \in {"loop", "unlock"} => lock' = t
      BY <2>1, <2>2 DEF LockOK
    <2>4. lock' # Free => thread'[lock'].pc \in Inside
      BY <2>1, <2>2 DEF LockOK, LoopTypeOK, Inside
    <2>5. ASSUME NEW u \in Threads \ {Loop}, msgs'[u] # "handled"
          PROVE  thread'[u].pc = "idle"
      BY <2>1, <2>2, <2>5, ThreadIsMessage DEF LockOK, LoopTypeOK
    <2> QED
      BY <2>3, <2>4, <2>5 DEF LockOK
  <1>3. ASSUME NEW t \in Threads, ThreadStep(t)
        PROVE  LockOK'
    <2> USE Holder DEF Inside
    <2>1. CASE sendToLeader(t)
      <3>1. Goto(t, "idle") /\ thread[t].pc # "idle" /\ msgs' = msgs /\ lock' = lock /\ lock # t
        BY <2>1 DEF sendToLeader, Voting
      <3> QED
        BY <3>1, LockMoves DEF Points
    <2>2. CASE sendToLeaderFails(t)
      <3>1. /\ Goto(t, "idle") \/ Goto(t, "blocked")
            /\ thread[t].pc # "idle" /\ msgs' = msgs /\ lock' = lock /\ lock # t
        BY <2>2 DEF sendToLeaderFails, Voting
      <3> QED
        BY <3>1, LockMoves DEF Points
    <2>3. CASE stopTimer(t, "stop", "leave")
      <3>1. Goto(t, "leave") /\ thread[t].pc # "idle" /\ msgs' = msgs /\ lock' = lock
        BY <2>3 DEF stopTimer
      <3> QED
        BY <3>1, LockMoves DEF Points
    <2>4. CASE stopTimer(t, "stopEnter", "enter")
      <3>1. Goto(t, "enter") /\ thread[t].pc # "idle" /\ msgs' = msgs /\ lock' = lock /\ lock # t
        BY <2>4 DEF stopTimer
      <3> QED
        BY <3>1, LockMoves DEF Points
    <2>5. CASE leaveView(t)
      <3>1. Goto(t, "start") /\ thread[t].pc # "idle" /\ msgs' = msgs /\ lock' = lock
        BY <2>5 DEF leaveView
      <3> QED
        BY <3>1, LockMoves DEF Points
    <2>6. CASE startTimer(t)
      <3>1. Goto(t, Back(t)) /\ thread[t].pc # "idle" /\ msgs' = msgs /\ lock' = lock
        BY <2>6 DEF startTimer
      <3> QED
        BY <3>1, LockMoves DEF Points, Back
    <2>7. CASE processNewView(t)
      <3>1. Goto(t, "voteNil") /\ thread[t].pc # "idle" /\ msgs' = msgs /\ lock' = lock /\ lock # t
        BY <2>7 DEF processNewView
      <3> QED
        BY <3>1, LockMoves DEF Points
    <2>8. CASE writeBuffer(t)
      <3>1. Goto(t, "compare") /\ thread[t].pc # "idle" /\ msgs' = msgs /\ lock' = lock /\ lock # t
        BY <2>8 DEF writeBuffer
      <3> QED
        BY <3>1, LockMoves DEF Points
    <2>9. CASE compareLastExec(t)
      <3>1. /\ Goto(t, "lock") \/ Goto(t, "idle")
            /\ thread[t].pc # "idle" /\ msgs' = msgs /\ lock' = lock /\ lock # t
        BY <2>9 DEF compareLastExec
      <3> QED
        BY <3>1, LockMoves DEF Points
    <2>10. CASE takeLock(t)
      <3>1. /\ Goto(t, "loop") /\ thread[t].pc # "idle" /\ msgs' = msgs
            /\ lock = Free /\ lock' = t
        BY <2>10 DEF takeLock
      <3> QED
        BY <3>1, LockMoves DEF Points
    <2>11. CASE executeNext(t)
      <3>1. /\ Goto(t, "stop") \/ Goto(t, "loop")
            /\ thread[t].pc # "idle" /\ msgs' = msgs /\ lock' = lock /\ lock = t
        BY <2>11 DEF executeNext
      <3> QED
        BY <3>1, LockMoves DEF Points
    <2>12. CASE leaveLoop(t)
      <3>1. Goto(t, "unlock") /\ thread[t].pc # "idle" /\ msgs' = msgs /\ lock' = lock /\ lock = t
        BY <2>12 DEF leaveLoop
      <3> QED
        BY <3>1, LockMoves DEF Points
    <2>13. CASE releaseLock(t)
      <3>1. /\ Goto(t, "idle") /\ thread[t].pc # "idle" /\ msgs' = msgs
            /\ lock = t /\ lock' = Free
        BY <2>13 DEF releaseLock
      <3> QED
        BY <3>1, LockMoves DEF Points
    <2> QED
      BY <1>3, <2>1, <2>2, <2>3, <2>4, <2>5, <2>6, <2>7, <2>8, <2>9, <2>10, <2>11,
         <2>12, <2>13 DEF ThreadStep
  <1>4. CASE TimerStep
    <2>1. CASE PostEvent /\ thread[Loop].pc = "idle"
      <3>1. Loop \in Threads /\ Goto(Loop, "stop") /\ msgs' = msgs /\ lock' = lock /\ lock # Loop
        BY <2>1, Holder DEF PostEvent, Threads, Inside
      <3> QED
        BY <3>1, LockMoves DEF Points
    <2> QED
      BY <1>4, <2>1 DEF TimerStep, Expire, PostEvent, LockOK
  <1>5. ASSUME NEW p \in Peers, SendRPC(p)
        PROVE  LockOK'
    BY <1>5 DEF SendRPC, LockOK
  <1>6. CASE concurrentMapWrites
    BY <1>6 DEF concurrentMapWrites, LockOK
  <1> QED
    BY <1>1, <1>2, <1>3, <1>4, <1>5, <1>6 DEF LoopNext, Consume

\* The numbers executed, which only a turn of the loop changes.
LEMMA ExecutedStep ==
  ASSUME LoopTypeOK, ExecutedInOrder, LoopNext
  PROVE  ExecutedInOrder'
  <1>1. CASE \E t \in Threads : executeNext(t)
    <2>1. executed' = Append(executed, lastExec + 1) /\ lastExec' = lastExec + 1
      BY <1>1 DEF executeNext
    <2> QED
      BY <2>1 DEF ExecutedInOrder, LoopTypeOK
  <1>2. CASE UNCHANGED <<lastExec, executed>>
    BY <1>2 DEF ExecutedInOrder
  <1> QED
    BY <1>1, <1>2 DEF LoopNext, Consume, TimerStep, ThreadStep, handleCommand, StartPBFT,
       sendToLeader, sendToLeaderFails, SendRPC, stopTimer, startTimer, Expire, PostEvent,
       leaveView, processNewView, writeBuffer, concurrentMapWrites, compareLastExec,
       takeLock, leaveLoop, releaseLock, execVars

\* A thread that moves and changes nothing of the execution still looks for the
\* next number if it did so before.
LEMMA ExecutionGoesOn ==
  ASSUME LoopTypeOK, LockOK, NextWillBeExecuted, NEW t \in Threads, NEW pc \in Points,
         Goto(t, pc), UNCHANGED <<buffer, lastExec, lock>>,
         ~WillExecute(t) \/ WillExecute(t)'
  PROVE  NextWillBeExecuted'
  <1>1. \A u \in Threads : /\ thread'[u].pc = At(u, t, pc)
                           /\ thread'[u].sn = thread[u].sn
    BY GotoMoves
  <1>2. ASSUME NEW u \in Threads, WillExecute(u)
        PROVE  WillExecute(u)'
    <2>1. CASE u = t
      BY <1>2, <2>1
    <2>2. CASE u # t
      BY <1>1, <1>2, <2>2 DEF WillExecute, At
    <2> QED
      BY <2>1, <2>2
  <1> QED
    BY <1>2 DEF NextWillBeExecuted

\* A number that may be executed stays somebody's: that of the thread that stores
\* it, or of the one whose execution makes it the next.
LEMMA NextStep ==
  ASSUME LoopTypeOK, LockOK, NextWillBeExecuted, LoopNext
  PROVE  NextWillBeExecuted'
  <1> USE DEF viewVars, execVars, sendVars
  <1>1. ASSUME NEW m \in Msgs, handleCommand(m)
        PROVE  NextWillBeExecuted'
    BY <1>1 DEF handleCommand, NextWillBeExecuted, WillExecute
  <1>2. ASSUME NEW m \in Msgs, StartPBFT(m)
        PROVE  NextWillBeExecuted'
    <2>1. /\ \A u \in Threads \ {Loop} : thread'[u] = thread[u] \/ thread[u].pc = "idle"
          /\ Loop \in Threads
      BY <1>2, StartPBFTMoves DEF Threads
    <2>2. thread[Loop].pc = "idle" /\ UNCHANGED <<buffer, lastExec, lock>>
      BY <1>2 DEF StartPBFT
    <2>3. \A u \in Threads : WillExecute(u) => WillExecute(u)'
      BY <2>1, <2>2, Holder DEF WillExecute, Inside
    <2> QED
      BY <2>2, <2>3 DEF NextWillBeExecuted
  <1>3. ASSUME NEW t \in Threads, ThreadStep(t)
        PROVE  NextWillBeExecuted'
    <2>1. CASE writeBuffer(t)
      <3>1. /\ Goto(t, "compare") /\ buffer' = buffer \cup {thread[t].sn} /\ thread[t].pc = "write"
            /\ lastExec' = lastExec /\ lock' = lock
        BY <2>1 DEF writeBuffer
      <3>2. \A u \in Threads : /\ thread'[u].pc = At(u, t, "compare")
                               /\ thread'[u].sn = thread[u].sn
        BY <3>1, GotoMoves DEF Points
      <3>3. ~WillExecute(t)
        BY <3>1, Holder DEF WillExecute, Inside
      <3>4. ASSUME NEW u \in Threads, WillExecute(u)
            PROVE  WillExecute(u)'
        BY <3>1, <3>2, <3>3, <3>4 DEF WillExecute, At
      <3>5. lastExec + 1 = thread[t].sn => WillExecute(t)'
        BY <3>1, <3>2 DEF WillExecute, At, LoopTypeOK
      <3> QED
        BY <3>1, <3>4, <3>5 DEF NextWillBeExecuted
    <2>2. CASE takeLock(t) \/ executeNext(t)
      <3>1. /\ lock' = t
            /\ \/ Goto(t, "loop") \/ Goto(t, "stop")
        BY <2>2, Holder DEF takeLock, executeNext
      <3>2. thread'[t].pc # "unlock"
        BY <3>1, GotoMoves DEF Points, At
      <3> QED
        BY <3>1, <3>2 DEF NextWillBeExecuted, WillExecute
    <2>3. CASE leaveLoop(t)
      BY <2>3 DEF leaveLoop, NextWillBeExecuted
    <2>4. CASE releaseLock(t)
      <3>1. /\ thread[t].pc = "unlock" /\ lock = t /\ Goto(t, "idle")
            /\ UNCHANGED <<buffer, lastExec>>
        BY <2>4, Holder DEF releaseLock
      <3>2. \A u \in Threads : /\ thread'[u].pc = At(u, t, "idle")
                               /\ thread'[u].sn = thread[u].sn
        BY <3>1, GotoMoves DEF Points
      <3>3. \A u \in Threads : WillExecute(u) => WillExecute(u)'
        BY <3>1, <3>2 DEF WillExecute, At
      <3> QED
        BY <3>1, <3>3 DEF NextWillBeExecuted
    <2>5. CASE compareLastExec(t)
      <3>1. UNCHANGED <<buffer, lastExec, lock>> /\ thread[t].pc = "compare"
        BY <2>5 DEF compareLastExec
      <3>2. CASE lastExec < thread[t].sn
        <4>1. Goto(t, "lock")
          BY <2>5, <3>2 DEF compareLastExec
        <4>2. WillExecute(t)'
          BY <4>1, GotoMoves DEF WillExecute, Points, At
        <4> QED
          BY <3>1, <4>1, <4>2, ExecutionGoesOn DEF Points
      <3>3. CASE ~(lastExec < thread[t].sn)
        <4>1. Goto(t, "idle") /\ ~WillExecute(t)
          BY <2>5, <3>1, <3>3, Holder DEF compareLastExec, WillExecute, Inside
        <4> QED
          BY <3>1, <4>1, ExecutionGoesOn DEF Points
      <3> QED
        BY <3>2, <3>3
    <2>6. CASE \/ stopTimer(t, "stop", "leave") \/ leaveView(t) \/ startTimer(t)
      <3>1. /\ UNCHANGED <<buffer, lastExec, lock>> /\ thread[t].pc \in {"stop", "leave", "start"}
            /\ \E pc \in {"leave", "start", "idle", "loop"} :
                  Goto(t, pc) /\ (lock = t => pc \notin {"unlock", "idle"})
        BY <2>6 DEF stopTimer, leaveView, startTimer, Back
      <3>2. PICK pc \in {"leave", "start", "idle", "loop"} :
                   Goto(t, pc) /\ (lock = t => pc \notin {"unlock", "idle"})
        BY <3>1
      <3>3. pc \in Points
        BY DEF Points
      <3>4. WillExecute(t) => WillExecute(t)'
        BY <3>1, <3>2, <3>3, GotoMoves DEF WillExecute, At
      <3> QED
        BY <3>1, <3>2, <3>3, <3>4, ExecutionGoesOn
    <2>7. CASE \/ sendToLeader(t) \/ sendToLeaderFails(t) \/ processNewView(t)
               \/ stopTimer(t, "stopEnter", "enter")
      <3>1. /\ UNCHANGED <<buffer, lastExec, lock>>
            /\ thread[t].pc \in {"vote", "voteNil", "stopEnter", "enter"}
            /\ \E pc \in Points : Goto(t, pc)
        BY <2>7 DEF sendToLeader, sendToLeaderFails, Voting, processNewView, stopTimer, Points
      <3>2. ~WillExecute(t)
        BY <3>1, Holder DEF WillExecute, Inside
      <3> QED
        BY <3>1, <3>2, ExecutionGoesOn
    <2> QED
      BY <1>3, <2>1, <2>2, <2>3, <2>4, <2>5, <2>6, <2>7 DEF ThreadStep
  <1>4. CASE TimerStep
    <2>1. CASE PostEvent /\ thread[Loop].pc = "idle"
      <3>1. /\ Loop \in Threads /\ Goto(Loop, "stop") /\ UNCHANGED <<buffer, lastExec, lock>>
            /\ ~WillExecute(Loop)
        BY <2>1, Holder DEF PostEvent, Threads, Inside, WillExecute
      <3> QED
        BY <3>1, ExecutionGoesOn DEF Points
    <2>2. CASE UNCHANGED <<thread, buffer, lastExec, lock>>
      BY <2>2 DEF NextWillBeExecuted, WillExecute
    <2> QED
      BY <1>4, <2>1, <2>2 DEF TimerStep, Expire, PostEvent
  <1>5. ASSUME NEW p \in Peers, SendRPC(p)
        PROVE  NextWillBeExecuted'
    BY <1>5 DEF SendRPC, NextWillBeExecuted, WillExecute
  <1>6. CASE concurrentMapWrites
    BY <1>6 DEF concurrentMapWrites, NextWillBeExecuted, WillExecute
  <1> QED
    BY <1>1, <1>2, <1>3, <1>4, <1>5, <1>6 DEF LoopNext, Consume

\* A thread that changes the view alone.
LEMMA Alone ==
  ASSUME ~Overlapping, NEW t \in Threads, NEW u \in Threads, Changing(t), Changing(u)
  PROVE  t = u
  BY DEF Overlapping

\* Threads that move between the points at which no view is changed, or begin to
\* change it, leave the timer as it is.
LEMMA OthersMove ==
  ASSUME LoopNext, AloneWithTimer, TimerFollowsView, UNCHANGED <<activeView, timer, dropped>>,
         \A u \in Threads : \/ thread'[u].pc = thread[u].pc
                            \/ ~Changing(u) /\ thread'[u].pc \notin {"leave", "enter", "start"}
  PROVE  AloneWithTimer' /\ TimerFollowsView'
  <1>1. overlap' = (overlap \/ Overlapping')
    BY DEF LoopNext
  <1>2. CASE overlap'
    BY <1>2 DEF AloneWithTimer, TimerFollowsView
  <1>3. CASE ~overlap'
    <2>1. ~overlap /\ ~Overlapping'
      BY <1>1, <1>3
    <2>2. \A u \in Threads : thread'[u].pc \in {"leave", "enter", "start"}
                             => thread'[u].pc = thread[u].pc
      OBVIOUS
    <2>3. AloneWithTimer'
      BY <2>1, <2>2 DEF AloneWithTimer
    <2>4. \A u \in Threads : Changing(u) => Changing(u)'
      BY DEF Changing
    <2>5. TimerFollowsView'
      BY <2>1, <2>4 DEF TimerFollowsView
    <2> QED
      BY <2>3, <2>5
  <1> QED
    BY <1>2, <1>3

\* The thread that changes the view, when it is alone.
LEMMA ChangeStep ==
  ASSUME LoopTypeOK, AloneWithTimer, LoopNext, NEW t \in Threads, ~overlap',
         \/ stopTimer(t, "stop", "leave") \/ stopTimer(t, "stopEnter", "enter")
         \/ leaveView(t) \/ startTimer(t) \/ processNewView(t)
  PROVE  AloneWithTimer' /\ TimerFollowsView'
  <1>1. ~overlap /\ ~Overlapping' /\ ~Overlapping
    BY DEF LoopNext, AloneWithTimer
  <1>2. Changing(t)
    BY DEF Changing, stopTimer, leaveView, startTimer, processNewView
  <1>3. \A u \in Threads : u # t => ~Changing(u)
    BY <1>1, <1>2, Alone
  <1>4. PICK pc \in Points : Goto(t, pc)
    BY DEF stopTimer, leaveView, startTimer, processNewView, Points, Back
  <1>5. \A u \in Threads : thread'[u].pc = At(u, t, pc)
    BY <1>4, GotoMoves
  <1>6. \A u \in Threads : u # t => thread'[u].pc \notin {"leave", "enter", "start"}
    BY <1>3, <1>5 DEF At, Changing
  <1>7. CASE stopTimer(t, "stop", "leave") \/ stopTimer(t, "stopEnter", "enter")
    <2>1. timer' = "nil" /\ (Goto(t, "leave") \/ Goto(t, "enter"))
      BY <1>7 DEF stopTimer
    <2>2. thread'[t].pc \in {"leave", "enter"}
      BY <2>1, GotoMoves DEF Points, At
    <2> QED
      BY <1>1, <1>6, <2>1, <2>2 DEF AloneWithTimer, TimerFollowsView, Changing
  <1>8. CASE leaveView(t)
    <2>1. activeView' = FALSE /\ Goto(t, "start")
      BY <1>8 DEF leaveView
    <2>2. thread'[t].pc = "start"
      BY <2>1, GotoMoves DEF Points, At
    <2> QED
      BY <1>1, <1>6, <2>1, <2>2 DEF AloneWithTimer, TimerFollowsView, Changing
  <1>9. CASE startTimer(t)
    <2>1. timer' = "counting" /\ activeView' = activeView /\ thread[t].pc = "start"
      BY <1>9 DEF startTimer, viewVars
    <2>2. Goto(t, "loop") \/ Goto(t, "idle")
      BY <1>9 DEF startTimer, Back
    <2>3. thread'[t].pc \in {"loop", "idle"}
      BY <2>2, GotoMoves DEF Points, At
    <2>4. ~activeView
      BY <1>1, <2>1 DEF AloneWithTimer
    <2> QED
      BY <1>1, <1>6, <2>1, <2>3, <2>4 DEF AloneWithTimer, TimerFollowsView
  <1>10. CASE processNewView(t)
    <2>1. timer' = timer /\ activeView' = TRUE /\ thread[t].pc = "enter" /\ Goto(t, "voteNil")
      BY <1>10 DEF processNewView
    <2>2. thread'[t].pc = "voteNil"
      BY <2>1, GotoMoves DEF Points, At
    <2>3. timer = "nil"
      BY <1>1, <2>1 DEF AloneWithTimer
    <2> QED
      BY <1>1, <1>6, <2>1, <2>2, <2>3 DEF AloneWithTimer, TimerFollowsView
  <1> QED
    BY <1>7, <1>8, <1>9, <1>10

\* Leaving and entering a view change activeView and the timer in several steps:
\* they stay together unless two threads do so at once.
LEMMA ViewTimerStep ==
  ASSUME LoopTypeOK, LockOK, AloneWithTimer, TimerFollowsView, LoopNext
  PROVE  AloneWithTimer' /\ TimerFollowsView'
  <1> USE DEF viewVars, execVars, sendVars
  <1>1. CASE overlap'
    BY <1>1 DEF AloneWithTimer, TimerFollowsView
  <1>2. ASSUME NEW m \in Msgs, StartPBFT(m)
        PROVE  AloneWithTimer' /\ TimerFollowsView'
    <2>1. UNCHANGED <<activeView, timer, dropped>> /\ thread[Loop].pc = "idle"
      BY <1>2 DEF StartPBFT
    <2>2. \A u \in Threads : \/ thread'[u].pc = thread[u].pc
                             \/ ~Changing(u) /\ thread'[u].pc \notin {"leave", "enter", "start"}
      BY <1>2, <2>1, StartPBFTMoves DEF Changing
    <2> QED
      BY <2>1, <2>2, OthersMove
  <1>3. ASSUME NEW t \in Threads, ThreadStep(t)
        PROVE  AloneWithTimer' /\ TimerFollowsView'
    <2>1. CASE \/ stopTimer(t, "stop", "leave") \/ stopTimer(t, "stopEnter", "enter")
               \/ leaveView(t) \/ startTimer(t) \/ processNewView(t)
      BY <1>1, <2>1, ChangeStep
    <2>2. CASE \/ sendToLeader(t) \/ sendToLeaderFails(t) \/ writeBuffer(t)
               \/ compareLastExec(t) \/ takeLock(t) \/ executeNext(t)
               \/ leaveLoop(t) \/ releaseLock(t)
      <3>1. /\ UNCHANGED <<activeView, timer, dropped>>
            /\ thread[t].pc \in {"vote", "voteNil", "write", "compare", "lock", "loop", "unlock"}
            /\ \E pc \in Points \ {"leave", "enter", "start"} : Goto(t, pc)
        BY <2>2 DEF sendToLeader, sendToLeaderFails, Voting, writeBuffer, compareLastExec,
           takeLock, executeNext, leaveLoop, releaseLock, Points
      <3>2. PICK pc \in Points \ {"leave", "enter", "start"} : Goto(t, pc)
        BY <3>1
      <3>3. \A u \in Threads : thread'[u].pc = At(u, t, pc)
        BY <3>2, GotoMoves
      <3>4. \A u \in Threads : \/ thread'[u].pc = thread[u].pc
                               \/ ~Changing(u) /\ thread'[u].pc \notin {"leave", "enter", "start"}
        BY <3>1, <3>3 DEF At, Changing
      <3> QED
        BY <3>1, <3>4, OthersMove
    <2> QED
      BY <1>3, <2>1, <2>2 DEF ThreadStep
  <1>4. ASSUME ~overlap', Expire
        PROVE  AloneWithTimer' /\ TimerFollowsView'
    <2>1. /\ ~overlap /\ timer = "counting" /\ timer' = "fired"
          /\ UNCHANGED <<thread, activeView, dropped>>
      BY <1>4 DEF Expire, LoopNext
    <2> QED
      BY <1>4, <2>1 DEF AloneWithTimer, TimerFollowsView, Changing, Overlapping
  <1>5. ASSUME ~overlap', PostEvent
        PROVE  AloneWithTimer' /\ TimerFollowsView'
    <2>1. /\ ~overlap /\ ~Overlapping' /\ timer = "fired" /\ timer' = "nil"
          /\ activeView' = activeView
      BY <1>5 DEF PostEvent, LoopNext
    <2>2. CASE thread[Loop].pc = "idle"
      <3>1. Goto(Loop, "stop") /\ Loop \in Threads
        BY <1>5, <2>2 DEF PostEvent, Threads
      <3>2. \A u \in Threads : thread'[u].pc = At(u, Loop, "stop")
        BY <3>1, GotoMoves DEF Points
      <3> QED
        BY <2>1, <3>1, <3>2 DEF AloneWithTimer, TimerFollowsView, Changing, At
    <2>3. CASE thread[Loop].pc # "idle"
      <3>1. dropped' /\ thread' = thread
        BY <1>5, <2>3 DEF PostEvent
      <3> QED
        BY <2>1, <3>1 DEF AloneWithTimer, TimerFollowsView, Changing, Overlapping
    <2> QED
      BY <2>2, <2>3
  <1>6. CASE \/ \E m \in Msgs : handleCommand(m)
             \/ \E p \in Peers : SendRPC(p)
             \/ concurrentMapWrites
    <2>1. UNCHANGED <<thread, activeView, timer, dropped>>
      BY <1>6 DEF handleCommand, SendRPC, concurrentMapWrites
    <2> QED
      BY <2>1, OthersMove
  <1> QED
    BY <1>1, <1>2, <1>3, <1>4, <1>5, <1>6 DEF LoopNext, Consume, TimerStep

\* Broadcasts, and the panics that they lead to.
LEMMA PanicStep ==
  ASSUME LoopTypeOK, BroadcastsHaveCause, LoopNext
  PROVE  BroadcastsHaveCause' /\ OnlyBroadcastsPanic'
  <1> USE DEF viewVars, execVars, sendVars
  <1>1. ASSUME NEW p \in Peers, SendRPC(p)
        PROVE  BroadcastsHaveCause' /\ OnlyBroadcastsPanic'
    BY <1>1 DEF SendRPC, GetConn, BroadcastsHaveCause, OnlyBroadcastsPanic
  <1>2. CASE concurrentMapWrites
    BY <1>2 DEF concurrentMapWrites, BroadcastsHaveCause, OnlyBroadcastsPanic
  <1>3. CASE \E t \in Threads : leaveView(t) \/ executeNext(t)
    <2>1. /\ lastExec' > 0 \/ currenView' > 0
          /\ ~crashed'
      BY <1>3 DEF leaveView, executeNext, LoopTypeOK, LoopNext
    <2> QED
      BY <2>1 DEF BroadcastsHaveCause, OnlyBroadcastsPanic
  <1>4. CASE UNCHANGED <<sends, lastExec, currenView, crashed>>
    BY <1>4 DEF LoopNext, BroadcastsHaveCause, OnlyBroadcastsPanic
  <1>5. \/ \E p \in Peers : SendRPC(p)
        \/ concurrentMapWrites
        \/ \E t \in Threads : leaveView(t) \/ executeNext(t)
        \/ UNCHANGED <<sends, lastExec, currenView, crashed>>
    BY DEF LoopNext, Consume, TimerStep, ThreadStep, handleCommand, StartPBFT,
       sendToLeader, sendToLeaderFails, stopTimer, startTimer, Expire, PostEvent,
       processNewView, writeBuffer, compareLastExec, takeLock, leaveLoop, releaseLock
  <1> QED
    BY <1>1, <1>2, <1>3, <1>4, <1>5
-----------------------------------------------------------------------------
(***************************************************************************)
(* The theorems.                                                           *)
(***************************************************************************)
LEMMA LoopInitInv == LoopInit => LoopInv
  <1> SUFFICES ASSUME LoopInit PROVE LoopInv
    OBVIOUS
  <1>1. LoopTypeOK
    <2>1. msgs \in [Msgs -> {"sent", "offered", "handled"}]
      BY DEF LoopInit
    <2>2. thread \in [Threads -> [pc : Points, sn : Nat]]
      BY DEF LoopInit, Points
    <2>3. executed \in Seq(Nat) /\ failures \in 0..MaxFailures /\ errs \in 0..1
      BY LoopAssumption DEF LoopInit
    <2> QED
      BY <2>1, <2>2, <2>3 DEF LoopInit, LoopTypeOK
  <1>2. LockOK
    BY DEF LoopInit, LockOK
  <1>6. NextWillBeExecuted
    BY DEF LoopInit, NextWillBeExecuted
  <1>3. ExecutedInOrder
    BY DEF LoopInit, ExecutedInOrder
  <1>4. AloneWithTimer /\ TimerFollowsView
    BY DEF LoopInit, AloneWithTimer, TimerFollowsView, Overlapping, Changing
  <1>5. BroadcastsHaveCause /\ OnlyBroadcastsPanic
    BY DEF LoopInit, BroadcastsHaveCause, OnlyBroadcastsPanic
  <1> QED
    BY <1>1, <1>2, <1>3, <1>4, <1>5, <1>6 DEF LoopInv

\* Every step of the loop and its goroutines preserves the invariant.
LEMMA LoopNextInv == LoopInv /\ [LoopNext]_loopVars => LoopInv'
  <1>1. ASSUME LoopInv, LoopNext
        PROVE  LoopInv'
    BY <1>1, TypeStep, LockStep, ExecutedStep, NextStep, ViewTimerStep, PanicStep DEF LoopInv
  <1>2. ASSUME LoopInv, UNCHANGED loopVars
        PROVE  LoopInv'
    <2> USE <1>2 DEF LoopInv, loopVars
    <2>1. LoopTypeOK'
      BY DEF LoopTypeOK
    <2>2. LockOK' /\ NextWillBeExecuted'
      BY DEF LockOK, NextWillBeExecuted, WillExecute
    <2>3. ExecutedInOrder'
      BY DEF ExecutedInOrder
    <2>4. AloneWithTimer' /\ TimerFollowsView'
      BY DEF AloneWithTimer, TimerFollowsView, Overlapping, Changing
    <2>5. BroadcastsHaveCause' /\ OnlyBroadcastsPanic'
      BY DEF BroadcastsHaveCause, OnlyBroadcastsPanic
    <2> QED
      BY <2>1, <2>2, <2>3, <2>4, <2>5
  <1> QED
    BY <1>1, <1>2

\* The invariant holds in every run of the goroutines, whatever the peers send
\* and however the scheduler interleaves them.
THEOREM LoopInvariant == LoopSpec => []LoopInv
  <1>1. LoopInit => LoopInv
    BY LoopInitInv
  <1>2. LoopInv /\ [LoopNext]_loopVars => LoopInv'
    BY LoopNextInv
  <1> QED
    BY <1>1, <1>2, PTL DEF LoopSpec

\* The holder of the lock, or a thread on its way to it, accounts for every number
\* that may be executed: when none is left, nothing is.
LEMMA InvExecutes == LoopInv => NoneLeftBehind
  <1> SUFFICES ASSUME LoopInv, lastExec + 1 \in buffer,
                      NEW t \in Threads, WillExecute(t)
               PROVE  \/ lock = t
                      \/ thread[t].pc \in {"write", "compare", "lock", "loop", "unlock"}
    BY DEF LoopInv, NextWillBeExecuted, NoneLeftBehind
  <1> QED
    BY DEF WillExecute

\* Every field keeps its type; in particular, at most one error is in the channel
\* of StartPBFT, which has room for one.
THEOREM LoopTypeCorrect == LoopSpec => []LoopTypeOK
  <1>1. LoopInv => LoopTypeOK
    BY DEF LoopInv
  <1> QED
    BY <1>1, LoopInvariant, PTL

\* Whichever threads run executeRequest, numbers are executed in order, each once:
\* lastExec is compared and the buffer written outside the lock, but only its
\* holder executes.
THEOREM ExecutesInOrder == LoopSpec => []ExecutedInOrder
  <1>1. LoopInv => ExecutedInOrder
    BY DEF LoopInv
  <1> QED
    BY <1>1, LoopInvariant, PTL

\* No schedule of the threads in executeRequest leaves a number behind: the one
\* that buffers it after the loop of another has ended finds lastExec below it.
THEOREM LeavesNoneBehind == LoopSpec => []NoneLeftBehind
  BY InvExecutes, LoopInvariant, PTL

\* Unless two threads have been in sendViewChange or processNewView at once, the
\* timer runs exactly in a view that is not active, up to the event that
\* timerImpl.loop drops.
THEOREM TimerWithView == LoopSpec => []TimerFollowsView
  <1>1. LoopInv => TimerFollowsView
    BY DEF LoopInv
  <1> QED
    BY <1>1, LoopInvariant, PTL

\* The process panics only in a broadcast to a peer that is down, or when the Go
\* runtime sees two writers of a map: no vote to a leader that is down does it.
THEOREM PanicsInBroadcasts == LoopSpec => []OnlyBroadcastsPanic
  <1>1. LoopInv => OnlyBroadcastsPanic
    BY DEF LoopInv
  <1> QED
    BY <1>1, LoopInvariant, PTL
-----------------------------------------------------------------------------
(***************************************************************************)
(* The request pool.                                                       *)
(***************************************************************************)
\* The requests that are not yet in a batch with a goroutine.
Waiting == Len(inHand) + Len(BatchStore)

PoolTypeOK ==
    /\ received \in Nat /\ BatchStore \in Seq(Nat) /\ inHand \in Seq(Nat)
    /\ loop \in Pool!LoopPoints
    /\ spawned \subseteq Seq(Nat) /\ proposed \in Seq(Seq(Nat)) /\ lost \subseteq Nat

\* Those in the loop's hand and in the pool are the last that were received, in
\* order.  The loop holds some only between sendBatch's lock and its end.
WaitingOK ==
    /\ Waiting <= received
    /\ \A i \in 1..Len(inHand) : inHand[i] = (received - Waiting) + i
    /\ \A i \in 1..Len(BatchStore) : BatchStore[i] = (received - Len(BatchStore)) + i
    /\ loop \notin {"decideFull", "decideLate"} => inHand = <<>>

\* Request i is in a batch: with a goroutine, under a number, or lost.
Spawned(i) == \E b \in spawned : i \in Pool!ToSet(b)

Proposed(i) == \E k \in DOMAIN proposed : i \in Pool!ToSet(proposed[k])

\* Exactly the others are in batches, each in one.
BatchesOK ==
    /\ \A i \in 1..(received - Waiting) : Spawned(i) \/ Proposed(i) \/ i \in lost
    /\ \A i \in Nat : Spawned(i) \/ Proposed(i) \/ i \in lost
                      => i \in 1..(received - Waiting) /\ Pool!OnceOnly(i)

PoolInv == PoolTypeOK /\ WaitingOK /\ BatchesOK
-----------------------------------------------------------------------------
(***************************************************************************)
(* Sequences of requests.                                                  *)
(***************************************************************************)
LEMMA ElementsOf ==
  ASSUME NEW s \in Seq(Nat)
  PROVE  /\ \A i : i \in Pool!ToSet(s) <=> \E k \in 1..Len(s) : s[k] = i
         /\ \A i \in Pool!ToSet(s) : i \in Nat
  BY DEF Pool!ToSet

\* What sendBatch cuts off and what it keeps.
LEMMA CutOff ==
  ASSUME NEW s \in Seq(Nat), NEW end \in 0..Len(s)
  PROVE  /\ SubSeq(s, 1, end) \in Seq(Nat) /\ Len(SubSeq(s, 1, end)) = end
         /\ \A i \in 1..end : SubSeq(s, 1, end)[i] = s[i]
         /\ Pool!Rest(s, end) \in Seq(Nat) /\ Len(Pool!Rest(s, end)) = Len(s) - end
         /\ \A i \in 1..(Len(s) - end) : Pool!Rest(s, end)[i] = s[end + i]
  <1>1. /\ SubSeq(s, 1, end) \in Seq(Nat) /\ Len(SubSeq(s, 1, end)) = end
        /\ \A i \in 1..end : SubSeq(s, 1, end)[i] = s[i]
    OBVIOUS
  <1>2. SubSeq(s, end + 1, Len(s)) \in Seq(Nat)
    OBVIOUS
  <1>3. Len(SubSeq(s, end + 1, Len(s))) = Len(s) - end
    OBVIOUS
  <1>4. ASSUME NEW i \in 1..(Len(s) - end)
        PROVE  SubSeq(s, end + 1, Len(s))[i] = s[end + i]
    <2>1. i \in 1..(Len(s) - (end + 1) + 1) /\ (end + 1) + i - 1 = end + i
      OBVIOUS
    <2> QED
      BY <2>1
  <1> QED
    BY <1>1, <1>2, <1>3, <1>4 DEF Pool!Rest
-----------------------------------------------------------------------------
(***************************************************************************)
(* Every step of the pool.                                                 *)
(***************************************************************************)
\* Steps that leave the batches and the number of their requests alone.
LEMMA BatchesStay ==
  ASSUME BatchesOK, UNCHANGED <<spawned, proposed, lost>>,
         received' - Waiting' = received - Waiting
  PROVE  BatchesOK'
  BY DEF BatchesOK, Spawned, Proposed, Pool!OnceOnly

\* append, by an RPC goroutine or by ReceiveNewRequestForTest.
LEMMA AppendInv ==
  ASSUME PoolInv, Pool!append, loop' \in Pool!LoopPoints,
         loop' \notin {"decideFull", "decideLate"} => loop \notin {"decideFull", "decideLate"},
         UNCHANGED <<inHand, spawned, proposed, lost>>
  PROVE  PoolInv'
  <1>1. received' = received + 1 /\ BatchStore' = Append(BatchStore, received + 1)
    BY DEF Pool!append
  <1>2. received' \in Nat /\ BatchStore' \in Seq(Nat) /\ Len(BatchStore') = Len(BatchStore) + 1
    BY <1>1 DEF PoolInv, PoolTypeOK
  <1>3. Waiting' = Waiting + 1 /\ Waiting \in Nat
    BY <1>2 DEF Waiting, PoolInv, PoolTypeOK
  <1>4. PoolTypeOK'
    BY <1>2 DEF PoolInv, PoolTypeOK
  <1>5. \A i \in 1..Len(BatchStore') : BatchStore'[i] = (received' - Len(BatchStore')) + i
    <2>1. BatchStore \in Seq(Nat) /\ received \in Nat /\ Len(BatchStore) \in Nat
      BY DEF PoolInv, PoolTypeOK
    <2>2. \A i \in 1..Len(BatchStore) : BatchStore[i] = (received - Len(BatchStore)) + i
      BY DEF PoolInv, WaitingOK
    <2>3. received' - Len(BatchStore') = received - Len(BatchStore)
      BY <1>1, <1>2, <2>1
    <2> SUFFICES ASSUME NEW i \in 1..(Len(BatchStore) + 1)
                 PROVE  BatchStore'[i] = (received - Len(BatchStore)) + i
      BY <1>2, <2>3
    <2>4. CASE i \in 1..Len(BatchStore)
      <3>1. BatchStore'[i] = BatchStore[i]
        BY <1>1, <2>1, <2>4
      <3> QED
        BY <2>2, <2>4, <3>1
    <2>5. CASE i = Len(BatchStore) + 1
      <3>1. BatchStore'[i] = received + 1
        BY <1>1, <2>1, <2>5
      <3> QED
        BY <2>1, <2>5, <3>1
    <2> QED
      BY <2>1, <2>4, <2>5
  <1>6. WaitingOK'
    BY <1>1, <1>3, <1>5 DEF PoolInv, PoolTypeOK, WaitingOK
  <1>7. BatchesOK'
    BY <1>1, <1>3, BatchesStay DEF PoolInv, PoolTypeOK
  <1> QED
    BY <1>4, <1>6, <1>7 DEF PoolInv

\* Steps that only move the loop, between points where it holds nothing.
LEMMA LoopMovesInv ==
  ASSUME PoolInv, loop' \in Pool!LoopPoints,
         loop' \notin {"decideFull", "decideLate"} => loop \notin {"decideFull", "decideLate"},
         UNCHANGED <<received, BatchStore, inHand, spawned, proposed, lost>>
  PROVE  PoolInv'
  <1>1. Waiting' = Waiting
    BY DEF Waiting
  <1>2. PoolTypeOK'
    BY DEF PoolInv, PoolTypeOK
  <1>3. WaitingOK'
    BY <1>1 DEF PoolInv, WaitingOK
  <1>4. BatchesOK'
    BY <1>1, BatchesStay DEF PoolInv
  <1> QED
    BY <1>2, <1>3, <1>4 DEF PoolInv

\* sendBatch under its lock: the front of the pool goes into the loop's hand.
LEMMA SendBatchInv ==
  ASSUME PoolInv, NEW from, NEW to, from \notin {"decideFull", "decideLate"},
         to \in {"decideFull", "decideLate"}, Pool!sendBatch(from, to)
  PROVE  PoolInv'
  <1> DEFINE end == IF Len(BatchStore) < BatchSize THEN Len(BatchStore) ELSE BatchSize
  <1>1. /\ loop = from /\ loop' = to
        /\ inHand' = SubSeq(BatchStore, 1, end) /\ BatchStore' = Pool!Rest(BatchStore, end)
        /\ UNCHANGED <<received, spawned, proposed, lost>>
    BY DEF Pool!sendBatch
  <1>2. end \in 0..Len(BatchStore) /\ Len(BatchStore) \in Nat
    BY PoolAssumption DEF PoolInv, PoolTypeOK
  <1> HIDE DEF end
  <1>3. /\ inHand' \in Seq(Nat) /\ Len(inHand') = end
        /\ BatchStore' \in Seq(Nat) /\ Len(BatchStore') = Len(BatchStore) - end
        /\ \A i \in 1..end : inHand'[i] = BatchStore[i]
        /\ \A i \in 1..(Len(BatchStore) - end) : BatchStore'[i] = BatchStore[end + i]
    BY <1>1, <1>2, CutOff DEF PoolInv, PoolTypeOK
  <1>4. inHand = <<>> /\ Waiting = Len(BatchStore) /\ Waiting' = Len(BatchStore)
    BY <1>1, <1>2, <1>3 DEF PoolInv, WaitingOK, Waiting
  <1>5. PoolTypeOK'
    BY <1>1, <1>3 DEF PoolInv, PoolTypeOK, Pool!LoopPoints
  <1>6. \A i \in 1..end : inHand'[i] = (received - Len(BatchStore)) + i
    BY <1>2, <1>3 DEF PoolInv, WaitingOK
  <1>7. ASSUME NEW i \in 1..(Len(BatchStore) - end)
        PROVE  BatchStore'[i] = (received - (Len(BatchStore) - end)) + i
    <2>1. end + i \in 1..Len(BatchStore) /\ end \in Nat /\ received \in Nat
      BY <1>2 DEF PoolInv, PoolTypeOK
    <2>2. BatchStore[end + i] = (received - Len(BatchStore)) + (end + i)
      BY <2>1 DEF PoolInv, WaitingOK
    <2> QED
      BY <1>2, <1>3, <2>1, <2>2
  <1>8. WaitingOK'
    BY <1>1, <1>3, <1>4, <1>6, <1>7 DEF PoolInv, WaitingOK
  <1>9. BatchesOK'
    BY <1>1, <1>4, BatchesStay DEF PoolInv
  <1> QED
    BY <1>5, <1>8, <1>9 DEF PoolInv

\* What the loop holds are the first numbers that are in no batch.
LEMMA HandOf ==
  ASSUME PoolInv
  PROVE  \A i : i \in Pool!ToSet(inHand)
                <=> i \in (received - Waiting + 1)..(received - Len(BatchStore))
  <1>1. /\ Waiting = Len(inHand) + Len(BatchStore) /\ Waiting <= received
        /\ Len(inHand) \in Nat /\ Len(BatchStore) \in Nat /\ received \in Nat
    BY DEF PoolInv, PoolTypeOK, WaitingOK, Waiting
  <1>2. \A k \in 1..Len(inHand) : inHand[k] = (received - Waiting) + k
    BY DEF PoolInv, WaitingOK
  <1>3. ASSUME NEW i, i \in Pool!ToSet(inHand)
        PROVE  i \in (received - Waiting + 1)..(received - Len(BatchStore))
    <2>1. PICK k \in 1..Len(inHand) : inHand[k] = i
      BY <1>3, ElementsOf DEF PoolInv, PoolTypeOK
    <2> QED
      BY <1>1, <1>2, <2>1
  <1>4. ASSUME NEW i \in (received - Waiting + 1)..(received - Len(BatchStore))
        PROVE  i \in Pool!ToSet(inHand)
    <2> DEFINE k == i - (received - Waiting)
    <2>1. k \in 1..Len(inHand) /\ (received - Waiting) + k = i
      BY <1>1
    <2> HIDE DEF k
    <2>2. inHand[k] = i
      BY <1>2, <2>1
    <2> QED
      BY <2>1, <2>2, ElementsOf DEF PoolInv, PoolTypeOK
  <1> QED
    BY <1>3, <1>4

\* sendBatch after its lock: the batch gets a goroutine, or is lost.
LEMMA DecideBatchInv ==
  ASSUME PoolInv, NEW from, NEW to, to \in Pool!LoopPoints, Pool!decideBatch(from, to)
  PROVE  PoolInv'
  <1> DEFINE base == received - Waiting
             hand == Pool!ToSet(inHand)
  <1>1. /\ inHand' = <<>> /\ loop' = to
        /\ UNCHANGED <<received, BatchStore, proposed>>
        /\ \/ spawned' = spawned \cup {inHand} /\ lost' = lost
           \/ spawned' = spawned /\ lost' = lost \cup hand
    BY DEF Pool!decideBatch
  <1>2. /\ Waiting' = Len(BatchStore) /\ received' - Waiting' = received - Len(BatchStore)
        /\ Len(BatchStore) <= Waiting /\ Len(BatchStore) \in Nat /\ Waiting \in Nat
        /\ received \in Nat /\ Waiting <= received
    BY <1>1 DEF Waiting, PoolInv, PoolTypeOK, WaitingOK
  <1>3. \A i : i \in hand <=> i \in (base + 1)..(received' - Waiting')
    BY <1>2, HandOf
  <1>4. PoolTypeOK'
    <2>1. hand \subseteq Nat
      BY ElementsOf DEF PoolInv, PoolTypeOK
    <2>2. spawned' \subseteq Seq(Nat) /\ lost' \subseteq Nat
      BY <1>1, <2>1 DEF PoolInv, PoolTypeOK
    <2> HIDE DEF hand
    <2> QED
      BY <1>1, <2>2 DEF PoolInv, PoolTypeOK
  <1>5. WaitingOK'
    BY <1>1, <1>2 DEF PoolInv, WaitingOK
  <1>6. \A i : (Spawned(i) \/ Proposed(i) \/ i \in lost)'
               <=> Spawned(i) \/ Proposed(i) \/ i \in lost \/ i \in hand
    BY <1>1 DEF Spawned, Proposed
  <1>7. ASSUME NEW i \in 1..(received' - Waiting')
        PROVE  (Spawned(i) \/ Proposed(i) \/ i \in lost)'
    <2>1. i \in 1..base \/ i \in (base + 1)..(received' - Waiting')
      BY <1>2
    <2> QED
      BY <1>3, <1>6, <2>1 DEF PoolInv, BatchesOK
  <1>8. ASSUME NEW i \in Nat, (Spawned(i) \/ Proposed(i) \/ i \in lost)'
        PROVE  i \in 1..(received' - Waiting') /\ Pool!OnceOnly(i)'
    <2>1. CASE i \in hand
      <3>1. ~(Spawned(i) \/ Proposed(i) \/ i \in lost)
        BY <1>2, <1>3, <2>1 DEF PoolInv, BatchesOK
      <3>2. i \in 1..(received' - Waiting')
        BY <1>2, <1>3, <2>1
      <3>3. Pool!OnceOnly(i)'
        BY <1>1, <3>1 DEF Spawned, Proposed, Pool!OnceOnly
      <3> QED
        BY <3>2, <3>3
    <2>2. CASE i \notin hand
      <3>1. i \in 1..base /\ Pool!OnceOnly(i)
        BY <1>6, <1>8, <2>2 DEF PoolInv, BatchesOK
      <3>2. i \in 1..(received' - Waiting')
        BY <1>2, <3>1
      <3>3. Pool!OnceOnly(i)'
        BY <1>1, <2>2, <3>1 DEF Pool!OnceOnly
      <3> QED
        BY <3>2, <3>3
    <2> QED
      BY <2>1, <2>2
  <1>9. BatchesOK'
    BY <1>7, <1>8 DEF BatchesOK
  <1> QED
    BY <1>4, <1>5, <1>9 DEF PoolInv

\* broadcastPrePrepareMsg: a batch with a goroutine gets a number, or is lost.
LEMMA ProposeBatchInv ==
  ASSUME PoolInv, NEW b \in spawned, Pool!proposeBatch(b)
  PROVE  PoolInv'
  <1>1. /\ spawned' = spawned \ {b} /\ UNCHANGED <<received, BatchStore, inHand, loop>>
        /\ \/ proposed' = Append(proposed, b) /\ lost' = lost
           \/ proposed' = proposed /\ lost' = lost \cup Pool!ToSet(b)
    BY DEF Pool!proposeBatch
  <1>2. b \in Seq(Nat) /\ Pool!ToSet(b) \subseteq Nat
    BY ElementsOf DEF PoolInv, PoolTypeOK
  <1>3. Waiting' = Waiting
    BY <1>1 DEF Waiting
  <1>4. PoolTypeOK'
    <2>1. proposed' \in Seq(Seq(Nat))
      <3>1. proposed \in Seq(Seq(Nat))
        BY DEF PoolInv, PoolTypeOK
      <3>2. Append(proposed, b) \in Seq(Seq(Nat))
        BY <1>2, <3>1
      <3> QED
        BY <1>1, <3>1, <3>2
    <2>2. lost' \subseteq Nat
      BY <1>1, <1>2 DEF PoolInv, PoolTypeOK
    <2> QED
      BY <1>1, <2>1, <2>2 DEF PoolInv, PoolTypeOK
  <1>5. WaitingOK'
    BY <1>1, <1>3 DEF PoolInv, WaitingOK
  <1>6. ASSUME NEW i \in Nat
        PROVE  /\ (Spawned(i) \/ Proposed(i) \/ i \in lost)'
                  <=> Spawned(i) \/ Proposed(i) \/ i \in lost
               /\ Pool!OnceOnly(i) => Pool!OnceOnly(i)'
    <2>1. CASE proposed' = Append(proposed, b) /\ lost' = lost
      <3>1. /\ DOMAIN proposed' = 1..(Len(proposed) + 1) /\ DOMAIN proposed = 1..Len(proposed)
            /\ Len(proposed) \in Nat /\ proposed'[Len(proposed) + 1] = b
            /\ \A k \in 1..Len(proposed) : proposed'[k] = proposed[k]
        BY <1>2, <2>1 DEF PoolInv, PoolTypeOK
      <3>2. Proposed(i)' <=> Proposed(i) \/ i \in Pool!ToSet(b)
        BY <3>1 DEF Proposed
      <3>3. Pool!OnceOnly(i) => Pool!OnceOnly(i)'
        BY <1>1, <2>1, <3>1 DEF Pool!OnceOnly
      <3> QED
        BY <1>1, <2>1, <3>2, <3>3 DEF Spawned
    <2>2. CASE proposed' = proposed /\ lost' = lost \cup Pool!ToSet(b)
      <3>1. Proposed(i)' <=> Proposed(i)
        BY <2>2 DEF Proposed
      <3>2. Pool!OnceOnly(i) => Pool!OnceOnly(i)'
        BY <1>1, <2>2 DEF Pool!OnceOnly
      <3> QED
        BY <1>1, <2>2, <3>1, <3>2 DEF Spawned
    <2> QED
      BY <1>1, <2>1, <2>2
  <1>7. received' - Waiting' = received - Waiting /\ 1..(received - Waiting) \subseteq Nat
    BY <1>1, <1>3
  <1>8. BatchesOK'
    BY <1>6, <1>7 DEF PoolInv, BatchesOK
  <1> QED
    BY <1>4, <1>5, <1>8 DEF PoolInv

\* Every step of the request pool preserves the invariant.
LEMMA PoolStepInv ==
  ASSUME PoolInv, Pool!PoolNext
  PROVE  PoolInv'
  <1>1. CASE Pool!ReceiveNewRequest
    BY <1>1, AppendInv DEF Pool!ReceiveNewRequest, PoolInv, PoolTypeOK
  <1>2. CASE Pool!BatchTimeOut
    BY <1>2, LoopMovesInv DEF Pool!BatchTimeOut, PoolInv, PoolTypeOK
  <1>3. CASE Pool!loopTop
    BY <1>3, LoopMovesInv DEF Pool!loopTop, Pool!LoopPoints
  <1>4. CASE Pool!selectTimeOut
    BY <1>4, LoopMovesInv DEF Pool!selectTimeOut, Pool!AfterTimeOut, Pool!LoopPoints
  <1>5. CASE Pool!generateRequest
    <2>1. /\ loop = "generate" /\ loop' \in {"generate", "top"}
          /\ UNCHANGED <<inHand, spawned, proposed, lost>>
          /\ Pool!append \/ UNCHANGED <<received, BatchStore>>
      BY <1>5 DEF Pool!generateRequest
    <2> QED
      BY <2>1, AppendInv, LoopMovesInv DEF Pool!LoopPoints
  <1>6. CASE \/ Pool!sendBatch("cutFull", "decideFull") \/ Pool!sendBatch("cutLate", "decideLate")
    BY <1>6, SendBatchInv
  <1>7. CASE \/ Pool!decideBatch("decideFull", "select") \/ Pool!decideBatch("decideLate", "top")
    BY <1>7, DecideBatchInv DEF Pool!LoopPoints
  <1>8. ASSUME NEW b \in spawned, Pool!proposeBatch(b)
        PROVE  PoolInv'
    BY <1>8, ProposeBatchInv
  <1> QED
    BY <1>1, <1>2, <1>3, <1>4, <1>5, <1>6, <1>7, <1>8 DEF Pool!PoolNext, Pool!HandleReqBatchLoop
-----------------------------------------------------------------------------
(***************************************************************************)
(* The theorems.                                                           *)
(***************************************************************************)
LEMMA ProcessInitInv == ProcessInit => PoolInv
  <1> SUFFICES ASSUME Pool!PoolInit PROVE PoolInv
    BY DEF ProcessInit
  <1>1. Waiting = 0
    BY DEF Pool!PoolInit, Waiting
  <1>2. PoolTypeOK
    BY DEF Pool!PoolInit, PoolTypeOK, Pool!LoopPoints
  <1>3. WaitingOK
    BY <1>1 DEF Pool!PoolInit, WaitingOK
  <1>4. BatchesOK
    BY <1>1 DEF Pool!PoolInit, BatchesOK, Spawned, Proposed
  <1> QED
    BY <1>2, <1>3, <1>4 DEF PoolInv

\* Every step of the process does: a step of the loop may change who takes a batch.
LEMMA ProcessNextInv == PoolInv /\ [ProcessNext]_processVars => PoolInv'
  <1> SUFFICES ASSUME PoolInv, [ProcessNext]_processVars PROVE PoolInv'
    OBVIOUS
  <1>1. CASE Pool!PoolNext
    BY <1>1, PoolStepInv
  <1>2. CASE UNCHANGED requestVars
    <2>1. loop' \in Pool!LoopPoints
      BY <1>2 DEF requestVars, PoolInv, PoolTypeOK
    <2> QED
      BY <1>2, <2>1, LoopMovesInv DEF requestVars
  <1> QED
    BY <1>1, <1>2 DEF ProcessNext, PoolStep, processVars

\* The request pool next to the goroutines that change the view keeps its accounts.
THEOREM PoolInvariant == ProcessSpec => []PoolInv
  <1>1. ProcessInit => PoolInv
    BY ProcessInitInv
  <1>2. PoolInv /\ [ProcessNext]_processVars => PoolInv'
    BY ProcessNextInv
  <1> QED
    BY <1>1, <1>2, PTL DEF ProcessSpec

\* The invariant accounts for every request received.
LEMMA PoolAccounts == PoolInv => RequestsAccounted
  <1> SUFFICES ASSUME PoolInv, NEW i \in 1..received
               PROVE  LET rest == inHand \o BatchStore
                      IN  IF i <= received - Len(rest)
                          THEN Pool!InBatch(i) /\ Pool!OnceOnly(i) /\ i \notin Pool!ToSet(rest)
                          ELSE rest[i - (received - Len(rest))] = i /\ ~Pool!InBatch(i)
    BY DEF RequestsAccounted, Pool!RequestsAccounted
  <1> DEFINE rest == inHand \o BatchStore
  <1>1. /\ received \in Nat /\ Waiting <= received /\ Waiting = Len(inHand) + Len(BatchStore)
        /\ inHand \in Seq(Nat) /\ BatchStore \in Seq(Nat)
    BY DEF PoolInv, PoolTypeOK, WaitingOK, Waiting
  <1>2. rest \in Seq(Nat) /\ Len(rest) = Waiting /\ Waiting \in Nat
    BY <1>1
  <1>3. ASSUME NEW k \in 1..Waiting
        PROVE  rest[k] = (received - Waiting) + k
    <2>1. CASE k <= Len(inHand)
      <3>1. rest[k] = inHand[k] /\ k \in 1..Len(inHand)
        BY <1>1, <1>2, <2>1
      <3> QED
        BY <3>1 DEF PoolInv, WaitingOK
    <2>2. CASE k > Len(inHand)
      <3>1. rest[k] = BatchStore[k - Len(inHand)] /\ k - Len(inHand) \in 1..Len(BatchStore)
        BY <1>1, <1>2, <2>2
      <3>2. BatchStore[k - Len(inHand)] = (received - Len(BatchStore)) + (k - Len(inHand))
        BY <3>1 DEF PoolInv, WaitingOK
      <3> QED
        BY <1>1, <1>2, <3>1, <3>2
    <2> QED
      BY <1>1, <1>2, <2>1, <2>2
  <1>4. Pool!InBatch(i) <=> Spawned(i) \/ Proposed(i) \/ i \in lost
    <2>1. \A b : b \in Pool!ToSet(proposed) <=> \E k \in DOMAIN proposed : proposed[k] = b
      BY DEF Pool!ToSet
    <2> QED
      BY <2>1 DEF Pool!InBatch, Spawned, Proposed
  <1>5. Pool!InBatch(i) <=> i <= received - Waiting
    BY <1>1, <1>2, <1>4 DEF PoolInv, BatchesOK
  <1> HIDE DEF rest
  <1>6. i <= received - Waiting => Pool!OnceOnly(i) /\ i \notin Pool!ToSet(rest)
    <2>1. i \in Pool!ToSet(rest) => i > received - Waiting
      <3> SUFFICES ASSUME i \in Pool!ToSet(rest) PROVE i > received - Waiting
        OBVIOUS
      <3>1. PICK k \in 1..Waiting : rest[k] = i
        BY <1>2, ElementsOf
      <3> QED
        BY <1>1, <1>2, <1>3, <3>1
    <2>2. i <= received - Waiting => Pool!OnceOnly(i)
      BY <1>4, <1>5 DEF PoolInv, BatchesOK
    <2> QED
      BY <1>1, <1>2, <2>1, <2>2
  <1>7. i > received - Waiting => rest[i - (received - Waiting)] = i
    <2> SUFFICES ASSUME i > received - Waiting PROVE rest[i - (received - Waiting)] = i
      OBVIOUS
    <2>1. i - (received - Waiting) \in 1..Waiting
      BY <1>1, <1>2
    <2>2. rest[i - (received - Waiting)] = (received - Waiting) + (i - (received - Waiting))
      BY <1>3, <2>1
    <2> QED
      BY <1>1, <1>2, <2>2
  <1> QED
    BY <1>1, <1>2, <1>5, <1>6, <1>7 DEF rest

\* Whatever RPC goroutines, ReceiveNewRequestForTest, sendBatch and the goroutines
\* of batches do, every request that was received waits in order or is in exactly
\* one batch, while the view changes under IsPrimary.
THEOREM AccountsBalance == ProcessSpec => []RequestsAccounted
  BY PoolAccounts, PoolInvariant, PTL

\* A step of the process is a step of its goroutines, or leaves them alone.
THEOREM ProcessRunsLoop == ProcessSpec => LoopSpec
  <1>1. ProcessInit => LoopInit
    BY DEF ProcessInit
  <1>2. [ProcessNext]_processVars => [LoopNext]_loopVars
    BY DEF ProcessNext, PoolStep, processVars
  <1> QED
    BY <1>1, <1>2, PTL DEF ProcessSpec, LoopSpec

\* The safety properties of the goroutines hold in the process as a whole.
THEOREM ProcessSafe ==
  ProcessSpec => [](/\ LoopTypeOK /\ ExecutedInOrder /\ NoneLeftBehind
                    /\ TimerFollowsView /\ OnlyBroadcastsPanic)
  BY ProcessRunsLoop, LoopTypeCorrect, ExecutesInOrder, LeavesNoneBehind, TimerWithView,
     PanicsInBroadcasts, PTL
=============================================================================
