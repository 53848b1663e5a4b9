----------------------------- MODULE EventLoop -----------------------------
(***************************************************************************)
(* The goroutines of one replica: a goroutine per inbound connection       *)
(* (core/net_transport.go), the consumer loop StartPBFT, a goroutine per   *)
(* fast certificate, which executes next to the loop, the goroutine of the *)
(* new-view timer (core/timer_control.go) and the senders of broadcast.    *)
(* They meet at unbuffered channels, at the lock of the execution counter  *)
(* and at fields they share without one.                                   *)
(*                                                                         *)
(* A message is abstracted to what its handler does to these: vote (a      *)
(* pre-prepare) sends to the leader, distrust (a pre-prepare that is       *)
(* refused) leaves the view, newview enters it, commit executes in the     *)
(* loop and fast in a goroutine of its own.  Every number is a checkpoint. *)
(***************************************************************************)
EXTENDS Integers, Sequences, FiniteSets

CONSTANTS
    Msgs,         \* messages that peers send, each on a connection of its own
    Peers,        \* the other replicas
    SwitchAt,     \* viewChangeSeqNumber, or 0 without autoViewChange
    Free,         \* the lock exeSn.num is not held
    MaxFailures,  \* bound: sends to the leader that fail
    MaxExpiry     \* bound: the timer expires in views below this one

Kinds == {"vote", "distrust", "newview", "commit", "fast"}

\* arg is the number a commit or fast certificate is for, or the view of a
\* new-view message.
ASSUME LoopAssumption ==
    /\ Msgs \subseteq [kind : Kinds, arg : Nat] /\ IsFiniteSet(Msgs)
    /\ SwitchAt \in Nat /\ MaxFailures \in Nat /\ MaxExpiry \in Nat

\* The consumer loop is a thread, and so is the goroutine of every fast
\* certificate, which is named by its message.
Loop == [kind |-> "loop", arg |-> 0]

Threads == {Loop} \cup {m \in Msgs : m.kind = "fast"}

ASSUME LockAssumption == Free \notin Threads

VARIABLES
    currenView, activeView,
    msgs,        \* how far each message has come
    thread,      \* where each thread is, and the number it executes
    timer,       \* the timer goroutine: timerChan is nil, counting, or has fired
    dropped,     \* the last event of the timer found the loop busy
    errs,        \* errors in the channel of StartPBFT
    failures,    \* sends to the leader that have failed
    buffer,      \* execReqBuffer: the numbers that may be executed
    lastExec, lock,
    executed,    \* history: the numbers executed, in order
    down,        \* peers that do not accept connections
    sends,       \* peers that a sender goroutine is about to dial
    crashed,     \* a goroutine has panicked, which ends the process
    overlap      \* history: two threads were changing the view at once

loopVars == <<currenView, activeView, msgs, thread, timer, dropped, errs, failures,
              buffer, lastExec, lock, executed, down, sends, crashed, overlap>>

execVars == <<buffer, lastExec, lock, executed>>
viewVars == <<currenView, activeView>>
sendVars == <<errs, failures, down, sends>>

\* The points at which a thread can be preempted.  idle is the receive of the
\* consumer loop, or a goroutine that has not started or is done; blocked is a
\* send to an error channel that nobody reads.
Points == {"idle", "vote", "blocked", "stop", "leave", "start",
           "stopEnter", "enter", "voteNil", "write", "compare", "lock", "loop", "unlock"}

\* Threads in sendViewChange or processNewView.
Changing(t) == thread[t].pc \in {"stop", "leave", "start", "stopEnter", "enter"}

Overlapping == \E t, u \in Threads : t # u /\ Changing(t) /\ Changing(u)

Goto(t, pc) == thread' = [thread EXCEPT ![t].pc = pc]

\* Where sendViewChange returns to: it is also called in the execution loop.
Back(t) == IF lock = t THEN "loop" ELSE "idle"
-----------------------------------------------------------------------------
(***************************************************************************)
(* Inbound connections: listen accepts, handleConn and handleCommand       *)
(* decode one message, which is then offered on the unbuffered consumeCh.  *)
(* Every message comes on a connection of its own, so that they overtake   *)
(* each other.                                                             *)
(***************************************************************************)
handleCommand(m) ==
    /\ msgs[m] = "sent"
    /\ msgs' = [msgs EXCEPT ![m] = "offered"]
    /\ UNCHANGED <<viewVars, thread, timer, dropped, execVars, sendVars, crashed>>

\* The messages that only a primary may send come from the one of view 0.
FromPrimary == currenView = 0

\* The first step of a handler that does something in an active view, and leaves
\* the view when somebody else than its primary sent the message.
IfActive(pc) == IF ~activeView THEN "idle" ELSE IF FromPrimary THEN pc ELSE "stop"

\* The handler's first step, from its guards.
Dispatch(m) ==
    CASE m.kind = "vote"     -> IfActive("vote")
      [] m.kind = "distrust" -> IfActive("stop")
      [] m.kind = "commit"   -> IfActive("write")
      [] m.kind = "newview"  -> IF ~activeView /\ m.arg = currenView
                                THEN "stopEnter" ELSE "idle"
      [] m.kind = "fast"     -> "idle"

\* StartPBFT takes any message that is offered.
StartPBFT(m) ==
    /\ msgs[m] = "offered" /\ thread[Loop].pc = "idle"
    /\ msgs' = [msgs EXCEPT ![m] = "handled"]
    /\ thread' = [t \in Threads |->
                    IF t = Loop THEN [pc |-> Dispatch(m), sn |-> m.arg]
                    ELSE IF t = m /\ FromPrimary THEN [pc |-> "write", sn |-> m.arg]
                    ELSE thread[t]]
    /\ UNCHANGED <<viewVars, timer, dropped, execVars, sendVars, crashed>>

(***************************************************************************)
(* Sends.  A failed send to the leader is reported on a channel of         *)
(* capacity one that nobody reads, or on the nil channel of                *)
(* processNewView.                                                         *)
(***************************************************************************)
Voting(t) == thread[t].pc \in {"vote", "voteNil"}

sendToLeader(t) ==
    /\ Voting(t) /\ Goto(t, "idle")
    /\ UNCHANGED <<viewVars, msgs, timer, dropped, execVars, sendVars, crashed>>

\* Mutant: the error of GetConn is ignored, as in broadcast.
sendToLeaderFails_NilConn(t) ==
    /\ Voting(t) /\ failures < MaxFailures
    /\ failures' = failures + 1
    /\ crashed' = TRUE
    /\ UNCHANGED <<viewVars, msgs, thread, timer, dropped, execVars, errs, down, sends>>

\* Mutant: the error channel has room for every error.
sendToLeaderFails_Room(t) ==
    /\ Voting(t) /\ failures < MaxFailures
    /\ failures' = failures + 1
    /\ errs' = errs + 1 /\ Goto(t, "idle")
    /\ UNCHANGED <<viewVars, msgs, timer, dropped, execVars, down, sends, crashed>>

sendToLeaderFails(t) ==
    /\ Voting(t) /\ failures < MaxFailures
    /\ failures' = failures + 1
    /\ IF thread[t].pc = "vote" /\ errs = 0
       THEN errs' = 1 /\ Goto(t, "idle")
       ELSE errs' = errs /\ Goto(t, "blocked")
    /\ UNCHANGED <<viewVars, msgs, timer, dropped, execVars, down, sends, crashed>>

\* Every send dials a connection of its own.
GetConn(p) == p \notin down

\* A goroutine of broadcast, which goes on without a connection: SendRPC then
\* dereferences nil.
SendRPC(p) ==
    /\ p \in sends
    /\ sends' = sends \ {p}
    /\ crashed' = ~GetConn(p)
    /\ UNCHANGED <<viewVars, msgs, thread, timer, dropped, execVars, errs, failures, down>>
-----------------------------------------------------------------------------
(***************************************************************************)
(* The timer.  Start and stop are rendezvous with the select of its loop,  *)
(* which does not wait while an expired timer is being posted.             *)
(***************************************************************************)
stopTimer(t, from, to) ==
    /\ thread[t].pc = from /\ timer # "fired"
    /\ timer' = "nil"
    /\ Goto(t, to)
    /\ UNCHANGED <<viewVars, msgs, dropped, execVars, sendVars, crashed>>

startTimer(t) ==
    /\ thread[t].pc = "start" /\ timer # "fired"
    /\ timer' = "counting" /\ dropped' = FALSE
    /\ Goto(t, Back(t))
    /\ UNCHANGED <<viewVars, msgs, execVars, sendVars, crashed>>

Expire ==
    /\ timer = "counting" /\ currenView < MaxExpiry
    /\ timer' = "fired"
    /\ UNCHANGED <<viewVars, msgs, thread, dropped, execVars, sendVars, crashed>>

\* Mutant: the event is sent without the default case.
PostEvent_Blocking ==
    /\ timer = "fired" /\ thread[Loop].pc = "idle"
    /\ timer' = "nil" /\ Goto(Loop, "stop")
    /\ UNCHANGED <<viewVars, msgs, dropped, execVars, sendVars, crashed>>

\* The send of the event has a default case: only a loop that is waiting gets it,
\* and its handler is sendViewChange.
PostEvent ==
    /\ timer = "fired"
    /\ timer' = "nil"
    /\ IF thread[Loop].pc = "idle"
       THEN Goto(Loop, "stop") /\ UNCHANGED dropped
       ELSE dropped' = TRUE /\ UNCHANGED thread
    /\ UNCHANGED <<viewVars, msgs, execVars, sendVars, crashed>>
-----------------------------------------------------------------------------
(***************************************************************************)
(* Leaving and entering a view.                                            *)
(***************************************************************************)
\* sendViewChange between its stopTimer and its startTimer.
leaveView(t) ==
    /\ thread[t].pc = "leave"
    /\ currenView' = currenView + 1 /\ activeView' = FALSE
    /\ sends' = sends \cup Peers
    /\ Goto(t, "start")
    /\ UNCHANGED <<msgs, timer, dropped, execVars, errs, failures, down, crashed>>

\* Mutant: processNewView does not stop the timer.
processNewView_KeepsTimer(t) ==
    /\ thread[t].pc = "stopEnter"
    /\ activeView' = TRUE
    /\ Goto(t, "voteNil")
    /\ UNCHANGED <<currenView, msgs, timer, dropped, execVars, sendVars, crashed>>

\* processNewView after its stopTimer; the votes for its numbers follow.
processNewView(t) ==
    /\ thread[t].pc = "enter"
    /\ activeView' = TRUE
    /\ Goto(t, "voteNil")
    /\ UNCHANGED <<currenView, msgs, timer, dropped, execVars, sendVars, crashed>>
-----------------------------------------------------------------------------
(***************************************************************************)
(* executeRequest, by the loop and by the goroutines.  The buffer is       *)
(* written and lastExec compared without the lock.                         *)
(***************************************************************************)
writeBuffer(t) ==
    /\ thread[t].pc = "write"
    /\ buffer' = buffer \cup {thread[t].sn}
    /\ Goto(t, "compare")
    /\ UNCHANGED <<viewVars, msgs, timer, dropped, lastExec, lock, executed,
                   sendVars, crashed>>

\* Two threads write the map at once: the Go runtime may notice, and exits.
concurrentMapWrites ==
    /\ Cardinality({t \in Threads : thread[t].pc = "write"}) > 1
    /\ crashed' = TRUE
    /\ UNCHANGED <<viewVars, msgs, thread, timer, dropped, execVars, sendVars>>

compareLastExec(t) ==
    /\ thread[t].pc = "compare"
    /\ Goto(t, IF lastExec < thread[t].sn THEN "lock" ELSE "idle")
    /\ UNCHANGED <<viewVars, msgs, timer, dropped, execVars, sendVars, crashed>>

\* Mutant: a thread that finds the lock taken goes on.
takeLock_Try(t) ==
    /\ thread[t].pc = "lock"
    /\ lock' = IF lock = Free THEN t ELSE lock
    /\ Goto(t, IF lock = Free THEN "loop" ELSE "idle")
    /\ UNCHANGED <<viewVars, msgs, timer, dropped, buffer, lastExec, executed,
                   sendVars, crashed>>

takeLock(t) ==
    /\ thread[t].pc = "lock" /\ lock = Free
    /\ lock' = t
    /\ Goto(t, "loop")
    /\ UNCHANGED <<viewVars, msgs, timer, dropped, buffer, lastExec, executed,
                   sendVars, crashed>>

\* Mutant: the thread executes the number it came with.
executeNext_Own(t) ==
    /\ thread[t].pc = "loop" /\ lastExec + 1 \in buffer
    /\ lastExec' = lastExec + 1
    /\ executed' = Append(executed, thread[t].sn)
    /\ sends' = sends \cup Peers
    /\ Goto(t, IF lastExec + 1 = SwitchAt THEN "stop" ELSE "loop")
    /\ UNCHANGED <<viewVars, msgs, timer, dropped, buffer, lock, errs, failures,
                   down, crashed>>

\* One turn of the loop.  The checkpoint is broadcast by a goroutine.
executeNext(t) ==
    /\ thread[t].pc = "loop" /\ lastExec + 1 \in buffer
    /\ lastExec' = lastExec + 1
    /\ executed' = Append(executed, lastExec + 1)
    /\ sends' = sends \cup Peers
    /\ Goto(t, IF lastExec + 1 = SwitchAt THEN "stop" ELSE "loop")
    /\ UNCHANGED <<viewVars, msgs, timer, dropped, buffer, lock, errs, failures,
                   down, crashed>>

\* The end of the loop and the release of the lock are two steps.
leaveLoop(t) ==
    /\ thread[t].pc = "loop" /\ lastExec + 1 \notin buffer
    /\ Goto(t, "unlock")
    /\ UNCHANGED <<viewVars, msgs, timer, dropped, execVars, sendVars, crashed>>

releaseLock(t) ==
    /\ thread[t].pc = "unlock"
    /\ lock' = Free
    /\ Goto(t, "idle")
    /\ UNCHANGED <<viewVars, msgs, timer, dropped, buffer, lastExec, executed,
                   sendVars, crashed>>
-----------------------------------------------------------------------------
ThreadStep(t) ==
    \/ sendToLeader(t) \/ sendToLeaderFails(t)
    \/ stopTimer(t, "stop", "leave") \/ stopTimer(t, "stopEnter", "enter")
    \/ leaveView(t) \/ startTimer(t) \/ processNewView(t)
    \/ writeBuffer(t) \/ compareLastExec(t) \/ takeLock(t)
    \/ executeNext(t) \/ leaveLoop(t) \/ releaseLock(t)

Consume == \E m \in Msgs : StartPBFT(m)

TimerStep == Expire \/ PostEvent

\* overlap records that more than one thread is changing the view.
LoopNext ==
    /\ ~crashed
    /\ \/ \E m \in Msgs : handleCommand(m)
       \/ Consume
       \/ \E t \in Threads : ThreadStep(t)
       \/ TimerStep
       \/ \E p \in Peers : SendRPC(p)
       \/ concurrentMapWrites
    /\ overlap' = (overlap \/ Overlapping')

LoopInit ==
    /\ currenView = 0 /\ activeView = TRUE
    /\ msgs = [m \in Msgs |-> "sent"]
    /\ thread = [t \in Threads |-> [pc |-> "idle", sn |-> 0]]
    /\ timer = "nil" /\ dropped = FALSE
    /\ errs = 0 /\ failures = 0
    /\ buffer = {} /\ lastExec = 0 /\ lock = Free /\ executed = <<>>
    /\ down \in SUBSET Peers /\ sends = {} /\ crashed = FALSE /\ overlap = FALSE

LoopSpec == LoopInit /\ [][LoopNext]_loopVars
-----------------------------------------------------------------------------
(***************************************************************************)
(* Properties.                                                             *)
(***************************************************************************)
LoopTypeOK ==
    /\ currenView \in Nat /\ activeView \in BOOLEAN
    /\ msgs \in [Msgs -> {"sent", "offered", "handled"}]
    /\ thread \in [Threads -> [pc : Points, sn : Nat]]
    /\ timer \in {"nil", "counting", "fired"} /\ dropped \in BOOLEAN
    /\ errs \in 0..1 /\ failures \in 0..MaxFailures
    /\ buffer \subseteq Nat /\ lastExec \in Nat /\ lock \in Threads \cup {Free}
    /\ executed \in Seq(Nat) /\ sends \subseteq Peers /\ down \subseteq Peers
    /\ crashed \in BOOLEAN /\ overlap \in BOOLEAN

\* The timer runs exactly while the replica waits for a new view: it never runs,
\* or posts its event, in a view that is active, and it is missing from an
\* inactive one only if its event was dropped because the loop was busy
\* (sendViewChange, processNewView, timerImpl.loop).  This is lost when a
\* goroutine that executes and the consumer loop change the view at once.
TimerFollowsView ==
    overlap \/ (\E t \in Threads : Changing(t))
    \/ IF activeView THEN timer = "nil" ELSE timer # "nil" \/ dropped

\* Whichever threads execute, numbers are executed in order, each once
\* (executeRequest compares and buffers outside its lock).
ExecutedInOrder ==
    /\ Len(executed) = lastExec
    /\ \A i \in 1..Len(executed) : executed[i] = i

\* No thread leaves a number behind that may be executed, thinking that another
\* one would do it.
NoneLeftBehind ==
    (\A t \in Threads : thread[t].pc \notin {"write", "compare", "lock", "loop",
                                           "unlock"} /\ lock # t)
    => lastExec + 1 \notin buffer

\* A replica that has broadcast nothing survives the loss of its peers: votes
\* that cannot be sent are given up (sendToLeader).  Broadcasts are not, and
\* neither are two threads that write a map at once.
OnlyBroadcastsPanic ==
    crashed => \/ Cardinality({t \in Threads : thread[t].pc = "write"}) > 1
               \/ down # {} /\ (lastExec > 0 \/ currenView > 0)
=============================================================================
