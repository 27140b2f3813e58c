---------------------------- MODULE RuntimeProofs ---------------------------
(***************************************************************************)
(* Proofs about what runs once the kernel is up: the executor and the      *)
(* cursor that the mouse task draws.                                       *)
(*                                                                         *)
(* Executor: for any number of tasks, any queue capacities and any number  *)
(* of interrupts.                                                          *)
(*                                                                         *)
(* Cursor: for every size of the screen and of the arrow, any arrow, any   *)
(* movement and any number of characters and lines printed.                *)
(***************************************************************************)
EXTENDS Executor, Cursor, TLAPS

-----------------------------------------------------------------------------
(* The executor.                                                           *)

(* What pushing and popping an id does to the set of queued ids.           *)
LEMMA AppendQueued ==
  ASSUME NEW S, NEW s \in Seq(S), NEW e \in S
  PROVE  /\ Append(s, e) \in Seq(S)
         /\ Len(Append(s, e)) = Len(s) + 1
         /\ \A x : (\E j \in 1..Len(Append(s, e)) : Append(s, e)[j] = x)
                     <=> x = e \/ (\E j \in 1..Len(s) : s[j] = x)
<1> DEFINE a == Append(s, e)
<1>1. a \in Seq(S) /\ Len(a) = Len(s) + 1 /\ Len(s) \in Nat
  OBVIOUS
<1>2. a[Len(s) + 1] = e /\ \A j \in 1..Len(s) : a[j] = s[j]
  OBVIOUS
<1>3. \A j \in 1..Len(a) : j \in 1..Len(s) \/ j = Len(s) + 1
  BY <1>1
<1>4. 1..Len(s) \subseteq 1..Len(a) /\ Len(s) + 1 \in 1..Len(a)
  BY <1>1
<1> HIDE DEF a
<1>5. ASSUME NEW x
      PROVE  (\E j \in 1..Len(a) : a[j] = x)
                <=> x = e \/ (\E j \in 1..Len(s) : s[j] = x)
  BY Zenon, <1>1, <1>2, <1>3, <1>4
<1> QED
  BY Zenon, <1>1, <1>5 DEF a

(* A push onto a queue that has room keeps its type and its bound.         *)
LEMMA PushType ==
  ASSUME NEW S, NEW s \in Seq(S), NEW e \in S, NEW n \in Nat, Len(s) < n
  PROVE  Append(s, e) \in Seq(S) /\ Len(Append(s, e)) <= n
<1>1. Append(s, e) \in Seq(S) /\ Len(Append(s, e)) = Len(s) + 1 /\ Len(s) \in Nat
  OBVIOUS
<1> QED
  BY <1>1

(* Popping an id keeps the queue's type and bound, and loses the head only. *)
LEMMA TailQueued ==
  ASSUME NEW S, NEW s \in Seq(S), s # <<>>
  PROVE  /\ Head(s) \in S
         /\ Tail(s) \in Seq(S)
         /\ Len(Tail(s)) = Len(s) - 1
         /\ Len(s) \in Nat \ {0}
         /\ \A x : (\E j \in 1..Len(s) : s[j] = x)
                     => x = Head(s) \/ (\E j \in 1..Len(Tail(s)) : Tail(s)[j] = x)
<1>1. /\ Head(s) = s[1] /\ Head(s) \in S /\ Tail(s) \in Seq(S)
      /\ Len(s) \in Nat \ {0} /\ Len(Tail(s)) = Len(s) - 1
  OBVIOUS
<1>2. \A j \in 1..Len(Tail(s)) : Tail(s)[j] = s[j + 1]
  OBVIOUS
<1>3. ASSUME NEW j \in 1..Len(s), j # 1
      PROVE  j - 1 \in 1..Len(Tail(s)) /\ Tail(s)[j - 1] = s[j]
  BY <1>1, <1>2, <1>3
<1> QED
  BY Zenon, <1>1, <1>3

-----------------------------------------------------------------------------
(* Type correctness.                                                       *)

(* A pop from stream t's queue keeps the queues' type and bound.           *)
LEMMA QueueTail ==
  ASSUME queue \in [Tasks -> Seq(Items)],
         \A u \in Tasks : Len(queue[u]) <= StreamCap,
         StreamCap \in Nat,
         NEW t \in Tasks, queue[t] # <<>>
  PROVE  LET q == [queue EXCEPT ![t] = Tail(@)]
         IN  q \in [Tasks -> Seq(Items)] /\ \A u \in Tasks : Len(q[u]) <= StreamCap
<1> DEFINE q == [queue EXCEPT ![t] = Tail(@)]
<1>1. /\ Tail(queue[t]) \in Seq(Items)
      /\ Len(Tail(queue[t])) <= StreamCap
  <2>1. queue[t] \in Seq(Items)
    BY Zenon
  <2> QED
    BY <2>1, TailQueued
<1>2. \A u \in Tasks : q[u] = IF u = t THEN Tail(queue[t]) ELSE queue[u]
  BY Zenon
<1>3. q \in [Tasks -> Seq(Items)]
  BY Zenon, <1>1
<1> QED
  BY Zenon, <1>1, <1>2, <1>3

(* The initial state has the types.                                        *)
LEMMA InitTypeOK == Init => TypeOK
  BY ConstantsOK DEF Init, TypeOK, Pc, PollPc, WState

(* The kernel's steps preserve the types.                                  *)
LEMMA KernelTypeOK == TypeOK /\ Kernel => TypeOK'
<1> SUFFICES ASSUME TypeOK, Kernel PROVE TypeOK'
  BY Zenon
<1> USE ConstantsOK DEF TypeOK, execVars, streamVars, wakerVars
<1>1. ASSUME NEW t \in Tasks, Spawn(t) PROVE TypeOK'
  <2>1. CASE Len(task_queue) < QueueCap
    <3>1. task_queue' \in Seq(Tasks) /\ Len(task_queue') <= QueueCap
      <4>1. task_queue' = Append(task_queue, t)
        BY Zenon, <1>1, <2>1 DEF Spawn
      <4>2. task_queue \in Seq(Tasks) /\ QueueCap \in Nat
        BY Zenon
      <4> HIDE DEF TypeOK
      <4> QED
        BY Zenon, <2>1, <4>1, <4>2, PushType
    <3>2. /\ pc = "spawn" /\ pc' = pc /\ tasks' = tasks \cup {t}
          /\ unspawned' = unspawned \ {t}
          /\ UNCHANGED <<intr, cur, waker_cache, streamVars, wakerVars, irqs>>
      BY Zenon, <1>1, <2>1 DEF Spawn
    <3> QED
      BY Zenon, <3>1, <3>2 DEF Pc, PollPc
  <2>2. CASE ~(Len(task_queue) < QueueCap)
    BY Zenon, <1>1, <2>2 DEF Spawn, Pc, PollPc
  <2> QED
    BY Zenon, <2>1, <2>2
<1>2. CASE Run
  BY Zenon, <1>2 DEF Run, Pc, PollPc
<1>3. CASE PopTask
  BY <1>3, TailQueued DEF PopTask, Pc, PollPc
<1>4. CASE NoReadyTask
  BY Zenon, <1>4 DEF NoReadyTask, Pc, PollPc
<1>5. CASE DisableInterrupts
  BY <1>5, Zenon DEF DisableInterrupts, Pc, PollPc
<1>6. CASE CheckIdle
  BY Zenon, <1>6 DEF CheckIdle, Pc, PollPc
<1>7. CASE EnableAndHlt
  BY Zenon, <1>7 DEF EnableAndHlt, Pc, PollPc
<1>8. CASE EnableInterrupts
  BY Zenon, <1>8 DEF EnableInterrupts, Pc, PollPc
<1>9. CASE TaskDone
  BY Zenon, <1>9 DEF TaskDone, Pc, PollPc
<1>10. CASE OpenStream
  BY Zenon, <1>10 DEF OpenStream, Pc, PollPc
<1>11. CASE PopFirst
  <2>1. /\ queue' \in [Tasks -> Seq(Items)]
        /\ \A t \in Tasks : Len(queue'[t]) <= StreamCap
    <3>1. CASE queue[cur] # <<>>
      <4>1. cur \in Tasks /\ queue' = [queue EXCEPT ![cur] = Tail(@)]
        BY Zenon, <1>11, <3>1 DEF PopFirst, PollPc
      <4> QED
        BY Zenon, <3>1, <4>1, QueueTail
    <3>2. CASE queue[cur] = <<>>
      BY Zenon, <1>11, <3>2 DEF PopFirst
    <3> QED
      BY Zenon, <3>1, <3>2
  <2>2. /\ pc = "pop1" /\ pc' \in {"pop1", "done", "register"}
        /\ UNCHANGED <<intr, cur, execVars, task_queue, inited, wakerVars, irqs>>
    BY Zenon, <1>11 DEF PopFirst, AfterItem
  <2> QED
    BY Zenon, <2>1, <2>2 DEF Pc, PollPc
<1>12. CASE PopSecond
  <2>1. /\ queue' \in [Tasks -> Seq(Items)]
        /\ \A t \in Tasks : Len(queue'[t]) <= StreamCap
    <3>1. CASE queue[cur] # <<>>
      <4>1. cur \in Tasks /\ queue' = [queue EXCEPT ![cur] = Tail(@)]
        BY Zenon, <1>12, <3>1 DEF PopSecond, PollPc
      <4> QED
        BY Zenon, <3>1, <4>1, QueueTail
    <3>2. CASE queue[cur] = <<>>
      BY Zenon, <1>12, <3>2 DEF PopSecond
    <3> QED
      BY Zenon, <3>1, <3>2
  <2>2. /\ pc = "pop2"
        /\ (pc' = "take" /\ cur' = cur) \/ (pc' = "ready" /\ cur' = NoTask)
        /\ UNCHANGED <<intr, execVars, task_queue, inited, wakerVars, irqs>>
    BY Zenon, <1>12 DEF PopSecond
  <2> QED
    BY Zenon, <2>1, <2>2 DEF Pc, PollPc
<1>13. CASE RegisterLock
  BY Zenon, <1>13 DEF RegisterLock, Pc, PollPc, WState
<1>14. CASE RegisterStore
  BY Zenon, <1>14 DEF RegisterStore, Pc, PollPc
<1>15. CASE RegisterUnlock
  BY <1>15, Zenon DEF RegisterUnlock, Pc, PollPc, WState
<1>16. CASE RegisterWake
  <2>1. task_queue' \in Seq(Tasks) /\ Len(task_queue') <= QueueCap
    <3>1. CASE Len(task_queue) < QueueCap
      <4>1. task_queue' = Append(task_queue, cur)
        BY Zenon, <1>16, <3>1 DEF RegisterWake
      <4>2. task_queue \in Seq(Tasks) /\ QueueCap \in Nat /\ cur \in Tasks
        BY Zenon, <1>16 DEF RegisterWake, PollPc
      <4> HIDE DEF TypeOK
      <4> QED
        BY Zenon, <3>1, <4>1, <4>2, PushType
    <3>2. CASE ~(Len(task_queue) < QueueCap)
      BY Zenon, <1>16, <3>2 DEF RegisterWake
    <3> QED
      BY Zenon, <3>1, <3>2
  <2>2. /\ pc = "rewake" /\ pc' \in {"pop2", "panic"}
        /\ UNCHANGED <<intr, cur, execVars, streamVars, wakerVars, irqs>>
    BY Zenon, <1>16 DEF RegisterWake
  <2> QED
    BY Zenon, <2>1, <2>2 DEF Pc, PollPc
<1>17. CASE TakeLock
  BY Zenon, <1>17 DEF TakeLock, Pc, PollPc, WState
<1>18. CASE TakeUnlock
  BY Zenon, <1>18 DEF TakeUnlock, AfterItem, Pc, PollPc, WState
<1> QED
  BY Zenon, <1>1, <1>2, <1>3, <1>4, <1>5, <1>6, <1>7, <1>8, <1>9, <1>10, <1>11,
     <1>12, <1>13, <1>14, <1>15, <1>16, <1>17, <1>18, Zenon DEF Kernel

(* What a wake() from a handler may do to stream t and to the task queue.  *)
LEMMA WakeCases ==
  ASSUME TypeOK, NEW t \in Tasks, Wake(t)
  PROVE  \/ /\ wstate[t] = "WAITING" /\ waker[t] # NoTask
            /\ waker' = [waker EXCEPT ![t] = NoTask]
            /\ wstate' = wstate
            /\ \/ /\ Len(task_queue) < QueueCap
                  /\ task_queue' = Append(task_queue, waker[t])
                  /\ pc' = Resume /\ intr' = intr
               \/ pc' = "panic" /\ intr' = FALSE /\ task_queue' = task_queue
         \/ /\ wstate[t] = "REGISTERING"
            /\ wstate' = [wstate EXCEPT ![t] = "REGISTERING|WAKING"]
            /\ pc' = Resume
            /\ UNCHANGED <<intr, task_queue, waker>>
         \/ /\ wstate[t] # "REGISTERING"
            /\ wstate[t] = "WAITING" => waker[t] = NoTask
            /\ pc' = Resume
            /\ UNCHANGED <<intr, task_queue, waker, wstate>>
<1>1. CASE wstate[t] = "WAITING" /\ waker[t] # NoTask
  BY Zenon, <1>1 DEF Wake
<1>2. CASE wstate[t] = "WAITING" /\ waker[t] = NoTask
  BY Zenon, <1>2 DEF Wake, wakerVars
<1>3. CASE wstate[t] = "REGISTERING"
  BY Zenon, <1>3 DEF Wake
<1>4. CASE wstate[t] \notin {"WAITING", "REGISTERING"}
  BY Zenon, <1>4 DEF Wake, wakerVars
<1> QED
  BY <1>1, <1>2, <1>3, <1>4, Zenon

(* An input interrupt, whose wake() may push an id, preserves the types.   *)
LEMMA InputIrqTypeOK ==
  ASSUME TypeOK, NEW t \in Tasks, NEW x \in Items, InputIrq(t, x)
  PROVE  TypeOK'
<1>1. /\ irqs' \in Nat
      /\ UNCHANGED <<cur, unspawned, tasks, waker_cache, inited>>
  BY DEF InputIrq, TypeOK, execVars
<1>2. /\ queue' \in [Tasks -> Seq(Items)]
      /\ \A u \in Tasks : Len(queue'[u]) <= StreamCap
  <2>1. CASE t \in inited /\ Len(queue[t]) < StreamCap
    <3>1. queue' = [queue EXCEPT ![t] = Append(@, x)]
      BY Zenon, <2>1 DEF InputIrq
    <3>2. /\ Append(queue[t], x) \in Seq(Items)
          /\ Len(Append(queue[t], x)) <= StreamCap
      <4>1. queue[t] \in Seq(Items) /\ StreamCap \in Nat
        BY Zenon, ConstantsOK DEF TypeOK
      <4> QED
        BY Zenon, <2>1, <4>1, PushType
    <3>3. /\ queue \in [Tasks -> Seq(Items)]
          /\ \A u \in Tasks : Len(queue[u]) <= StreamCap
      BY Zenon DEF TypeOK
    <3>4. \A u \in Tasks : queue'[u] = IF u = t THEN Append(queue[t], x) ELSE queue[u]
      BY Zenon, <3>1, <3>3
    <3>5. queue' \in [Tasks -> Seq(Items)]
      BY Zenon, <3>1, <3>2, <3>3
    <3> QED
      BY Zenon, <3>2, <3>3, <3>4, <3>5
  <2>2. CASE ~(t \in inited /\ Len(queue[t]) < StreamCap)
    BY <2>2, Zenon DEF InputIrq, TypeOK
  <2> QED
    BY Zenon, <2>1, <2>2
<1>3. /\ intr' \in BOOLEAN
      /\ task_queue' \in Seq(Tasks) /\ Len(task_queue') <= QueueCap
      /\ wstate' \in [Tasks -> WState]
      /\ waker' \in [Tasks -> Tasks \cup {NoTask}]
      /\ pc' \in {Resume, "panic"}
  <2>0. /\ task_queue \in Seq(Tasks) /\ Len(task_queue) <= QueueCap
        /\ QueueCap \in Nat /\ intr \in BOOLEAN
        /\ wstate \in [Tasks -> WState]
        /\ waker \in [Tasks -> Tasks \cup {NoTask}]
    BY Zenon, ConstantsOK DEF TypeOK
  <2>1. CASE t \in inited
    <3>1. Wake(t)
      BY Zenon, <2>1 DEF InputIrq
    <3>2. task_queue' \in Seq(Tasks) /\ Len(task_queue') <= QueueCap
      <4>1. CASE /\ wstate[t] = "WAITING" /\ waker[t] # NoTask
                 /\ Len(task_queue) < QueueCap
                 /\ task_queue' = Append(task_queue, waker[t])
        <5>1. waker[t] \in Tasks
          BY Zenon, <2>0, <4>1
        <5> QED
          BY Zenon, <2>0, <4>1, <5>1, PushType
      <4>2. CASE task_queue' = task_queue
        BY Zenon, <2>0, <4>2
      <4> QED
        BY <3>1, <4>1, <4>2, WakeCases, Zenon
    <3> QED
      BY <2>0, <3>1, <3>2, WakeCases, Zenon DEF WState
  <2>2. CASE t \notin inited
    BY Zenon, <2>0, <2>2 DEF InputIrq, wakerVars
  <2> QED
    BY Zenon, <2>1, <2>2
<1> QED
  BY <1>1, <1>2, <1>3, Zenon DEF TypeOK, Resume, Pc, PollPc

(* Every step preserves the types.                                         *)
LEMMA NextTypeOK == TypeOK /\ [Next]_vars => TypeOK'
<1> SUFFICES ASSUME TypeOK, [Next]_vars PROVE TypeOK'
  BY Zenon
<1>1. CASE Kernel
  BY Zenon, <1>1, KernelTypeOK
<1>2. ASSUME NEW t \in Tasks, NEW x \in Items, InputIrq(t, x) PROVE TypeOK'
  BY Zenon, <1>2, InputIrqTypeOK
<1>3. CASE OtherIrq
  BY Zenon, <1>3 DEF OtherIrq, Resume, TypeOK, Pc, PollPc, execVars, streamVars, wakerVars
<1>4. CASE UNCHANGED vars
  BY Zenon, <1>4 DEF vars, TypeOK
<1> QED
  BY Zenon, <1>1, <1>2, <1>3, <1>4 DEF Next, HltLoop

(* Every variable keeps its type: in particular the queues never exceed    *)
(* their capacity, and a poll is always of a live task, although ids of    *)
(* completed tasks may still be in the queue.                              *)
THEOREM TypeCorrect == Spec => []TypeOK
  BY InitTypeOK, NextTypeOK, PTL DEF Spec

-----------------------------------------------------------------------------
(* The inductive invariant.                                                *)

(* The inductive invariant holds before the first spawn.                   *)
LEMMA InitIInv == Init => IInv
<1> SUFFICES ASSUME Init PROVE IInv
  BY Zenon
<1>1. TypeOK
  BY Zenon, InitTypeOK
<1>2. IdleInv /\ OpenInv
  BY Zenon DEF Init, IdleInv, OpenInv, PollPc
<1>3. ASSUME NEW t \in Tasks PROVE TaskInv(t)
  BY Zenon, ConstantsOK DEF Init, TaskInv
<1> QED
  BY Zenon, <1>1, <1>2, <1>3 DEF IInv

(* The ids a step leaves in the queue.                                     *)
LEMMA SameQueue == task_queue' = task_queue => \A t : Queued(t)' <=> Queued(t)
  BY Zenon DEF Queued

(* A push adds its id to the queued ones.                                  *)
LEMMA PushQueue ==
  ASSUME task_queue \in Seq(Tasks), NEW e \in Tasks,
         task_queue' = Append(task_queue, e)
  PROVE  \A t : Queued(t)' <=> t = e \/ Queued(t)
  BY AppendQueued DEF Queued

(* A pop takes no id but the head out of the queue.                        *)
LEMMA PopQueue ==
  ASSUME task_queue \in Seq(Tasks), task_queue # <<>>,
         task_queue' = Tail(task_queue)
  PROVE  \A t : Queued(t) => t = Head(task_queue) \/ Queued(t)'
  BY TailQueued DEF Queued

(* Every step of kernel code preserves the inductive invariant: one case   *)
(* per action.                                                             *)
LEMMA KernelIInv ==
  ASSUME IInv, Kernel, TypeOK'
  PROVE  IInv'
<1> USE DEF execVars, streamVars, wakerVars
<1>1. ASSUME NEW u \in Tasks, Spawn(u) PROVE IInv'
  <2>1. \A t : Queued(t) \/ (t = u /\ pc' # "panic") => Queued(t)'
    <3>1. CASE Len(task_queue) < QueueCap
      BY Zenon, <1>1, <3>1, PushQueue DEF Spawn, IInv, TypeOK
    <3>2. CASE ~(Len(task_queue) < QueueCap)
      BY Zenon, <1>1, <3>2, SameQueue DEF Spawn
    <3> QED
      BY Zenon, <3>1, <3>2
  <2>2. /\ pc = "spawn" /\ pc' \in {"spawn", "panic"} /\ tasks' = tasks \cup {u}
        /\ UNCHANGED <<intr, cur, waker_cache, queue, inited, wstate, waker>>
    BY Zenon, <1>1 DEF Spawn
  <2>3. IdleInv' /\ OpenInv'
    BY Zenon, <2>2 DEF IInv, IdleInv, OpenInv, PollPc, Polled
  <2>4. ASSUME NEW t \in Tasks PROVE TaskInv(t)'
    BY Zenon, <2>1, <2>2 DEF IInv, TaskInv, Polled, PollPc
  <2> QED
    BY Zenon, <2>3, <2>4 DEF IInv
<1>2. CASE PopTask
  <2>1. \A t : Queued(t) => t = Head(task_queue) \/ Queued(t)'
    BY Zenon, <1>2, PopQueue DEF PopTask, IInv, TypeOK
  <2>2. /\ pc = "ready" /\ task_queue # <<>>
        /\ UNCHANGED <<intr, tasks, queue, inited, wstate, waker>>
        /\ \/ /\ Head(task_queue) \notin tasks
              /\ UNCHANGED <<pc, cur, waker_cache>>
           \/ /\ cur' = Head(task_queue)
              /\ pc' = IF cur' \in waker_cache THEN "pop1" ELSE "open"
              /\ waker_cache' = waker_cache \cup {cur'}
    BY Zenon, <1>2 DEF PopTask
  <2>3. cur = NoTask
    BY Zenon, <2>2 DEF IInv, TypeOK, PollPc
  <2>4. IdleInv' /\ OpenInv'
    BY Zenon, <2>2, <2>3 DEF IInv, IdleInv, OpenInv, PollPc, Polled
  <2>5. ASSUME NEW t \in Tasks PROVE TaskInv(t)'
    BY Zenon, <2>1, <2>2, <2>3, ConstantsOK DEF IInv, TaskInv, Polled, PollPc
  <2> QED
    BY Zenon, <2>4, <2>5 DEF IInv
<1>3. CASE PopFirst
  <2>1. task_queue' = task_queue
    BY Zenon, <1>3 DEF PopFirst
  <2>2. /\ pc = "pop1" /\ cur \in Tasks
        /\ UNCHANGED <<intr, cur, tasks, waker_cache, inited, wstate, waker>>
        /\ \A t \in Tasks : t # cur => queue'[t] = queue[t]
        /\ \/ queue[cur] # <<>> /\ pc' \in {"pop1", "done"}
           \/ queue[cur] = <<>> /\ pc' = "register" /\ queue' = queue
    BY Zenon, <1>3 DEF PopFirst, AfterItem, IInv, TypeOK, PollPc
  <2>3. IdleInv' /\ OpenInv'
    BY Zenon, <2>1, <2>2 DEF IInv, IdleInv, OpenInv, PollPc, Polled
  <2>4. ASSUME NEW t \in Tasks PROVE TaskInv(t)'
    BY Zenon, <2>1, <2>2, SameQueue DEF IInv, TypeOK, WState, TaskInv, Polled, PollPc
  <2> QED
    BY Zenon, <2>3, <2>4 DEF IInv
<1>4. CASE PopSecond
  <2>1. task_queue' = task_queue
    BY Zenon, <1>4 DEF PopSecond
  <2>2. /\ pc = "pop2" /\ cur \in Tasks
        /\ UNCHANGED <<intr, tasks, waker_cache, inited, wstate, waker>>
        /\ \A t \in Tasks : t # cur => queue'[t] = queue[t]
        /\ \/ pc' = "take" /\ cur' = cur
           \/ pc' = "ready" /\ cur' = NoTask /\ queue[cur] = <<>> /\ queue' = queue
    BY Zenon, <1>4 DEF PopSecond, IInv, TypeOK, PollPc
  <2>3. IdleInv' /\ OpenInv'
    BY Zenon, <2>1, <2>2 DEF IInv, IdleInv, OpenInv, PollPc, Polled
  <2>4. ASSUME NEW t \in Tasks PROVE TaskInv(t)'
    BY Zenon, <2>1, <2>2, SameQueue, ConstantsOK DEF IInv, TaskInv, Polled, PollPc
  <2> QED
    BY Zenon, <2>3, <2>4 DEF IInv
<1>5. CASE RegisterWake
  <2>1. \A t : Queued(t) \/ (t = cur /\ pc' # "panic") => Queued(t)'
    <3>1. CASE Len(task_queue) < QueueCap
      BY Zenon, <1>5, <3>1, PushQueue DEF RegisterWake, IInv, TypeOK, PollPc
    <3>2. CASE ~(Len(task_queue) < QueueCap)
      BY Zenon, <1>5, <3>2, SameQueue DEF RegisterWake
    <3> QED
      BY Zenon, <3>1, <3>2
  <2>2. /\ pc = "rewake" /\ pc' \in {"pop2", "panic"}
        /\ UNCHANGED <<intr, cur, tasks, waker_cache, queue, inited, wstate, waker>>
    BY Zenon, <1>5 DEF RegisterWake
  <2>3. IdleInv' /\ OpenInv'
    BY Zenon, <2>2 DEF IInv, IdleInv, OpenInv, PollPc, Polled
  <2>4. ASSUME NEW t \in Tasks PROVE TaskInv(t)'
    BY Zenon, <2>1, <2>2, ConstantsOK DEF IInv, TaskInv, Polled, PollPc
  <2> QED
    BY Zenon, <2>3, <2>4 DEF IInv
<1>6. CASE Run
  <2>1. task_queue' = task_queue
    BY Zenon, <1>6 DEF Run
  <2>2. IdleInv' /\ OpenInv'
    BY Zenon, <1>6, <2>1 DEF Run, IInv, TypeOK, IdleInv, OpenInv, PollPc, Polled
  <2>3. ASSUME NEW t \in Tasks PROVE TaskInv(t)'
    BY Zenon, <1>6, <2>1, SameQueue, ConstantsOK
       DEF Run, IInv, TypeOK, WState, TaskInv, Polled, PollPc
  <2> QED
    BY Zenon, <2>2, <2>3 DEF IInv
<1>7. CASE NoReadyTask
  <2>1. task_queue' = task_queue
    BY Zenon, <1>7 DEF NoReadyTask
  <2>2. IdleInv' /\ OpenInv'
    BY Zenon, <1>7, <2>1 DEF NoReadyTask, IInv, TypeOK, IdleInv, OpenInv, PollPc, Polled
  <2>3. ASSUME NEW t \in Tasks PROVE TaskInv(t)'
    BY Zenon, <1>7, <2>1, SameQueue, ConstantsOK
       DEF NoReadyTask, IInv, TypeOK, WState, TaskInv, Polled, PollPc
  <2> QED
    BY Zenon, <2>2, <2>3 DEF IInv
<1>8. CASE DisableInterrupts
  <2>1. task_queue' = task_queue
    BY Zenon, <1>8 DEF DisableInterrupts
  <2>2. IdleInv' /\ OpenInv'
    BY Zenon, <1>8, <2>1 DEF DisableInterrupts, IInv, TypeOK, IdleInv, OpenInv, PollPc, Polled
  <2>3. ASSUME NEW t \in Tasks PROVE TaskInv(t)'
    BY Zenon, <1>8, <2>1, SameQueue, ConstantsOK
       DEF DisableInterrupts, IInv, TypeOK, WState, TaskInv, Polled, PollPc
  <2> QED
    BY Zenon, <2>2, <2>3 DEF IInv
<1>9. CASE CheckIdle
  <2>1. task_queue' = task_queue
    BY Zenon, <1>9 DEF CheckIdle
  <2>2. IdleInv' /\ OpenInv'
    BY Zenon, <1>9, <2>1 DEF CheckIdle, IInv, TypeOK, IdleInv, OpenInv, PollPc, Polled
  <2>3. ASSUME NEW t \in Tasks PROVE TaskInv(t)'
    BY Zenon, <1>9, <2>1, SameQueue, ConstantsOK
       DEF CheckIdle, IInv, TypeOK, WState, TaskInv, Polled, PollPc
  <2> QED
    BY Zenon, <2>2, <2>3 DEF IInv
<1>10. CASE EnableAndHlt
  <2>1. task_queue' = task_queue
    BY Zenon, <1>10 DEF EnableAndHlt
  <2>2. IdleInv' /\ OpenInv'
    BY Zenon, <1>10, <2>1 DEF EnableAndHlt, IInv, TypeOK, IdleInv, OpenInv, PollPc, Polled
  <2>3. ASSUME NEW t \in Tasks PROVE TaskInv(t)'
    BY Zenon, <1>10, <2>1, SameQueue, ConstantsOK
       DEF EnableAndHlt, IInv, TypeOK, WState, TaskInv, Polled, PollPc
  <2> QED
    BY Zenon, <2>2, <2>3 DEF IInv
<1>11. CASE EnableInterrupts
  <2>1. task_queue' = task_queue
    BY Zenon, <1>11 DEF EnableInterrupts
  <2>2. IdleInv' /\ OpenInv'
    BY Zenon, <1>11, <2>1 DEF EnableInterrupts, IInv, TypeOK, IdleInv, OpenInv, PollPc, Polled
  <2>3. ASSUME NEW t \in Tasks PROVE TaskInv(t)'
    BY Zenon, <1>11, <2>1, SameQueue, ConstantsOK
       DEF EnableInterrupts, IInv, TypeOK, WState, TaskInv, Polled, PollPc
  <2> QED
    BY Zenon, <2>2, <2>3 DEF IInv
<1>12. CASE TaskDone
  <2>1. task_queue' = task_queue
    BY Zenon, <1>12 DEF TaskDone
  <2>2. IdleInv' /\ OpenInv'
    BY Zenon, <1>12, <2>1 DEF TaskDone, IInv, TypeOK, IdleInv, OpenInv, PollPc, Polled
  <2>3. ASSUME NEW t \in Tasks PROVE TaskInv(t)'
    BY <1>12, <2>1, SameQueue, ConstantsOK
       DEF TaskDone, IInv, TypeOK, WState, TaskInv, Polled, PollPc
  <2> QED
    BY Zenon, <2>2, <2>3 DEF IInv
<1>13. CASE OpenStream
  <2>1. task_queue' = task_queue
    BY Zenon, <1>13 DEF OpenStream
  <2>2. IdleInv' /\ OpenInv'
    BY Zenon, <1>13, <2>1 DEF OpenStream, IInv, TypeOK, IdleInv, OpenInv, PollPc, Polled
  <2>3. ASSUME NEW t \in Tasks PROVE TaskInv(t)'
    BY Zenon, <1>13, <2>1, SameQueue, ConstantsOK
       DEF OpenStream, IInv, TypeOK, WState, TaskInv, Polled, PollPc
  <2> QED
    BY Zenon, <2>2, <2>3 DEF IInv
<1>14. CASE RegisterLock
  <2>1. task_queue' = task_queue
    BY Zenon, <1>14 DEF RegisterLock
  <2>2. IdleInv' /\ OpenInv'
    BY Zenon, <1>14, <2>1 DEF RegisterLock, IInv, TypeOK, IdleInv, OpenInv, PollPc, Polled
  <2>3. ASSUME NEW t \in Tasks PROVE TaskInv(t)'
    BY <1>14, <2>1, SameQueue, ConstantsOK
       DEF RegisterLock, IInv, TypeOK, WState, TaskInv, Polled, PollPc
  <2> QED
    BY Zenon, <2>2, <2>3 DEF IInv
<1>15. CASE RegisterStore
  <2>1. task_queue' = task_queue
    BY Zenon, <1>15 DEF RegisterStore
  <2>2. IdleInv' /\ OpenInv'
    BY Zenon, <1>15, <2>1 DEF RegisterStore, IInv, TypeOK, IdleInv, OpenInv, PollPc, Polled
  <2>3. ASSUME NEW t \in Tasks PROVE TaskInv(t)'
    BY <1>15, <2>1, SameQueue, ConstantsOK
       DEF RegisterStore, IInv, TypeOK, WState, TaskInv, Polled, PollPc
  <2> QED
    BY Zenon, <2>2, <2>3 DEF IInv
<1>16. CASE RegisterUnlock
  <2>1. task_queue' = task_queue
    BY Zenon, <1>16 DEF RegisterUnlock
  <2>2. IdleInv' /\ OpenInv'
    BY Zenon, <1>16, <2>1 DEF RegisterUnlock, IInv, TypeOK, IdleInv, OpenInv, PollPc, Polled
  <2>3. ASSUME NEW t \in Tasks PROVE TaskInv(t)'
    BY <1>16, <2>1, SameQueue, ConstantsOK
       DEF RegisterUnlock, IInv, TypeOK, WState, TaskInv, Polled, PollPc
  <2> QED
    BY Zenon, <2>2, <2>3 DEF IInv
<1>17. CASE TakeLock
  <2>1. task_queue' = task_queue
    BY Zenon, <1>17 DEF TakeLock
  <2>2. IdleInv' /\ OpenInv'
    BY Zenon, <1>17, <2>1 DEF TakeLock, IInv, TypeOK, IdleInv, OpenInv, PollPc, Polled
  <2>3. ASSUME NEW t \in Tasks PROVE TaskInv(t)'
    BY <1>17, <2>1, SameQueue, ConstantsOK
       DEF TakeLock, IInv, TypeOK, WState, TaskInv, Polled, PollPc
  <2> QED
    BY Zenon, <2>2, <2>3 DEF IInv
<1>18. CASE TakeUnlock
  <2>1. task_queue' = task_queue
    BY Zenon, <1>18 DEF TakeUnlock
  <2>2. IdleInv' /\ OpenInv'
    BY Zenon, <1>18, <2>1 DEF TakeUnlock, AfterItem, IInv, TypeOK, IdleInv, OpenInv, PollPc, Polled
  <2>3. ASSUME NEW t \in Tasks PROVE TaskInv(t)'
    BY <1>18, <2>1, SameQueue, ConstantsOK
       DEF TakeUnlock, AfterItem, IInv, TypeOK, WState, TaskInv, Polled, PollPc
  <2> QED
    BY Zenon, <2>2, <2>3 DEF IInv
<1> QED
  BY Zenon, <1>1, <1>2, <1>3, <1>4, <1>5, <1>6, <1>7, <1>8, <1>9, <1>10, <1>11,
     <1>12, <1>13, <1>14, <1>15, <1>16, <1>17, <1>18 DEF Kernel

(* An input interrupt preserves the inductive invariant, wherever in a poll *)
(* or in sleep_if_idle it comes.                                           *)
LEMMA InputIrqIInv ==
  ASSUME IInv, TypeOK', NEW u \in Tasks, NEW x \in Items, InputIrq(u, x)
  PROVE  IInv'
<1>1. /\ intr
      /\ UNCHANGED <<cur, tasks, waker_cache, inited>>
      /\ \A t \in Tasks : t # u => queue'[t] = queue[t]
  BY Zenon DEF InputIrq, execVars, IInv, TypeOK
<1>2. pc' = Resume => IF pc = "hlt" THEN pc' = "ready" ELSE pc' = pc
  BY Zenon DEF Resume
<1>3. \A t \in Tasks : TaskInv(t) /\ wstate[t] \in WState /\ t # NoTask
  BY Zenon, ConstantsOK DEF IInv, TypeOK
<1>4. CASE u \in inited
  <2>1. Wake(u)
    BY Zenon, <1>4 DEF InputIrq
  <2>2. waker[u] \in {u, NoTask}
    BY Zenon DEF IInv, TaskInv
  <2>3. CASE /\ wstate[u] = "WAITING" /\ waker[u] # NoTask
             /\ waker' = [waker EXCEPT ![u] = NoTask]
             /\ wstate' = wstate
             /\ Len(task_queue) < QueueCap
             /\ task_queue' = Append(task_queue, waker[u])
             /\ pc' = Resume /\ intr' = intr
    <3>1. \A t : Queued(t)' <=> t = u \/ Queued(t)
      BY Zenon, <2>2, <2>3, PushQueue DEF IInv, TypeOK
    <3>2. IdleInv' /\ OpenInv'
      BY Zenon, <1>1, <2>3 DEF IInv, IdleInv, OpenInv, PollPc, Polled, Resume
    <3>3. ASSUME NEW t \in Tasks PROVE TaskInv(t)'
      <4>1. /\ waker'[t] = IF t = u THEN NoTask ELSE waker[t]
            /\ wstate'[t] = wstate[t]
        BY Zenon, <2>3 DEF IInv, TypeOK
      <4> QED
        BY ZenonT(30), <1>1, <1>2, <1>3, <2>3, <3>1, <4>1 DEF WState, TaskInv, Polled, PollPc
    <3> QED
      BY Zenon, <3>2, <3>3 DEF IInv
  <2>4. CASE /\ wstate[u] = "WAITING" /\ waker[u] # NoTask
             /\ waker' = [waker EXCEPT ![u] = NoTask]
             /\ pc' = "panic"
    <3>1. IdleInv' /\ OpenInv'
      BY Zenon, <2>4 DEF IdleInv, OpenInv, PollPc
    <3>2. ASSUME NEW t \in Tasks PROVE TaskInv(t)'
      <4>1. waker'[t] = IF t = u THEN NoTask ELSE waker[t]
        BY Zenon, <2>4 DEF IInv, TypeOK
      <4> QED
        BY Zenon, <1>1, <1>3, <2>4, <4>1 DEF TaskInv
    <3> QED
      BY Zenon, <3>1, <3>2 DEF IInv
  <2>5. CASE /\ wstate[u] = "REGISTERING"
             /\ wstate' = [wstate EXCEPT ![u] = "REGISTERING|WAKING"]
             /\ pc' = Resume
             /\ UNCHANGED <<intr, task_queue, waker>>
    <3>1. IdleInv' /\ OpenInv'
      BY Zenon, <1>1, <2>5 DEF IInv, IdleInv, OpenInv, PollPc, Polled, Resume
    <3>2. ASSUME NEW t \in Tasks PROVE TaskInv(t)'
      <4>1. /\ wstate'[t] = IF t = u THEN "REGISTERING|WAKING" ELSE wstate[t]
            /\ waker'[t] = waker[t]
        BY Zenon, <2>5 DEF IInv, TypeOK
      <4>2. Queued(t)' <=> Queued(t)
        BY Zenon, <2>5, SameQueue
      <4>3. pc' = pc \/ (pc = "hlt" /\ pc' = "ready")
        BY Zenon, <1>2, <2>5
      <4>4. CASE t # u
        <5>1. wstate'[t] = wstate[t] /\ queue'[t] = queue[t] /\ TaskInv(t)
          BY Zenon, <1>1, <1>3, <4>1, <4>4
        <5> QED
          BY Zenon, <1>1, <4>1, <4>2, <4>3, <5>1 DEF TaskInv, Polled, PollPc
      <4>5. CASE t = u /\ pc = "panic"
        <5>1. pc' = "panic"
          BY Zenon, <4>3, <4>5
        <5> QED
          BY Zenon, <1>1, <1>3, <4>1, <5>1 DEF TaskInv
      <4>6. CASE t = u /\ pc # "panic"
        <5>1. cur = t /\ pc \in {"store", "unlock"} /\ TaskInv(t)
          BY Zenon, <1>3, <2>5, <4>6 DEF TaskInv
        <5>2. pc' = pc /\ pc' # "hlt"
          BY Zenon, <4>3, <5>1
        <5>3. wstate'[t] = "REGISTERING|WAKING" /\ cur' = t /\ tasks' = tasks /\ Polled(t)'
          BY Zenon, <1>1, <4>1, <4>6, <5>1, <5>2 DEF Polled, PollPc
        <5> QED
          BY Zenon, <4>1, <5>1, <5>2, <5>3 DEF TaskInv
      <4> QED
        BY Zenon, <4>4, <4>5, <4>6
    <3> QED
      BY Zenon, <3>1, <3>2 DEF IInv
  <2>6. CASE /\ wstate[u] # "REGISTERING"
             /\ wstate[u] = "WAITING" => waker[u] = NoTask
             /\ pc' = Resume
             /\ UNCHANGED <<intr, task_queue, waker, wstate>>
    <3>1. IdleInv' /\ OpenInv'
      BY Zenon, <1>1, <2>6 DEF IInv, IdleInv, OpenInv, PollPc, Polled, Resume
    <3>2. ASSUME NEW t \in Tasks PROVE TaskInv(t)'
      <4>1. Queued(t)' <=> Queued(t)
        BY Zenon, <2>6, SameQueue
      <4> QED
        BY Zenon, <1>1, <1>2, <1>3, <2>2, <2>6, <4>1 DEF WState, TaskInv, Polled, PollPc
    <3> QED
      BY Zenon, <3>1, <3>2 DEF IInv
  <2> QED
    BY <2>1, <2>3, <2>4, <2>5, <2>6, WakeCases, Zenon DEF IInv
<1>5. CASE u \notin inited
  <2>1. /\ pc' = Resume
        /\ UNCHANGED <<queue, intr, task_queue, wstate, waker>>
    BY Zenon, <1>5 DEF InputIrq, wakerVars
  <2>2. IdleInv' /\ OpenInv'
    BY Zenon, <1>1, <2>1 DEF IInv, IdleInv, OpenInv, PollPc, Polled, Resume
  <2>3. ASSUME NEW t \in Tasks PROVE TaskInv(t)'
    BY Zenon, <1>1, <2>1, SameQueue, ConstantsOK
       DEF IInv, TaskInv, Polled, PollPc, Resume
  <2> QED
    BY Zenon, <2>2, <2>3 DEF IInv
<1> QED
  BY Zenon, <1>4, <1>5

(* Every step preserves the inductive invariant.                           *)
LEMMA NextIInv == IInv /\ [Next]_vars => IInv'
<1> SUFFICES ASSUME IInv, [Next]_vars PROVE IInv'
  BY Zenon
<1>1. TypeOK'
  BY Zenon, NextTypeOK DEF IInv
<1>2. CASE Kernel
  BY Zenon, <1>1, <1>2, KernelIInv
<1>3. ASSUME NEW t \in Tasks, NEW x \in Items, InputIrq(t, x) PROVE IInv'
  BY Zenon, <1>1, <1>3, InputIrqIInv
<1>4. CASE OtherIrq
  <2>1. /\ pc' = Resume
        /\ UNCHANGED <<intr, cur, tasks, waker_cache, task_queue, queue, inited,
                       wstate, waker>>
        /\ intr
    BY Zenon, <1>4 DEF OtherIrq, execVars, streamVars, wakerVars
  <2>2. IdleInv' /\ OpenInv'
    BY Zenon, <2>1 DEF IInv, IdleInv, OpenInv, PollPc, Polled, Resume
  <2>3. ASSUME NEW t \in Tasks PROVE TaskInv(t)'
    BY Zenon, <2>1, SameQueue, ConstantsOK DEF IInv, TypeOK, TaskInv, Polled, PollPc, Resume
  <2> QED
    BY Zenon, <1>1, <2>2, <2>3 DEF IInv
<1>5. CASE UNCHANGED vars
  BY Zenon, <1>1, <1>5, SameQueue DEF vars, IInv, IdleInv, OpenInv, TaskInv, Polled
<1> QED
  BY Zenon, <1>2, <1>3, <1>4, <1>5 DEF Next, HltLoop

(* The inductive invariant holds for any tasks, capacities and interrupts. *)
THEOREM Inductive == Spec => []IInv
  BY InitIInv, NextIInv, PTL DEF Spec

-----------------------------------------------------------------------------
(* The CPU never halts with work to do: sleep_if_idle checks the queue     *)
(* with interrupts off, and a task that returned Pending is queued or      *)
(* registered, however the interrupts fell.                                *)
THEOREM NeverHaltsWithWork == Spec => []NoLostWakeup
<1>1. ASSUME IInv PROVE NoLostWakeup
  <2> SUFFICES ASSUME pc = "hlt", NEW t \in tasks
               PROVE  task_queue = <<>> /\ queue[t] = <<>>
    BY Zenon, <1>1 DEF IInv, IdleInv, NoLostWakeup
  <2>1. task_queue = <<>> /\ ~Queued(t)
    BY <1>1 DEF IInv, IdleInv, Queued
  <2>2. t \in Tasks /\ ~Polled(t) /\ wstate[t] \in WState
    BY Zenon, <1>1 DEF IInv, TypeOK, Polled, PollPc
  <2> QED
    BY Zenon, <1>1, <2>1, <2>2 DEF IInv, TaskInv, WState
<1> QED
  BY <1>1, Inductive, PTL

(* A stream never keeps the waker of a task that has completed.            *)
THEOREM WakersAreLive == Spec => []NoStaleWaker
<1>1. IInv => NoStaleWaker
  BY Zenon, ConstantsOK DEF IInv, TaskInv, NoStaleWaker
<1> QED
  BY <1>1, Inductive, PTL

(* A live task is queued, being polled, or registered on an empty stream:  *)
(* none is ever forgotten between register(), the second pop and wake().   *)
THEOREM TasksAttended == Spec => []Attended
<1>1. ASSUME IInv, NEW t \in tasks, ~Polled(t), pc # "panic", ~Queued(t)
      PROVE  wstate[t] = "WAITING" /\ waker[t] = t /\ queue[t] = <<>>
  <2>1. t \in Tasks /\ wstate[t] \in WState
    BY Zenon, <1>1 DEF IInv, TypeOK
  <2>2. ~(cur = t /\ pc \in {"store", "unlock", "untake", "pop2", "take"})
    BY Zenon, <1>1 DEF Polled, PollPc
  <2> QED
    BY Zenon, <1>1, <2>1, <2>2 DEF IInv, TaskInv, WState
<1>2. IInv => Attended
  BY Zenon, <1>1 DEF Attended
<1> QED
  BY <1>2, Inductive, PTL

-----------------------------------------------------------------------------
(* The streams implement InputChannel: its safety part, step by step.      *)

(* A step of the executor or of a handler is a step of InputChannel, or    *)
(* leaves its variables alone.                                             *)
LEMMA ChannelStep ==
  ASSUME IInv, IInv', [Next]_vars
  PROVE  [Channel!Next]_<<queue, Readers>>
<1> USE DEF execVars, streamVars, wakerVars
<1>1. ASSUME queue' = queue, Readers' \subseteq Readers
      PROVE  Channel!Next
  BY Zenon, <1>1 DEF Channel!Next, Channel!Close
<1>2. ASSUME NEW t \in Tasks, Spawn(t) PROVE [Channel!Next]_<<queue, Readers>>
  <2>1. queue' = queue /\ (Readers' = {} \/ Readers' = Readers
                           \/ Readers' = Readers \cup {t})
    BY Zenon, <1>2 DEF Spawn, Readers
  <2> QED
    BY Zenon, <1>1, <2>1 DEF Channel!Next, Channel!Open
<1>3. CASE OpenStream
  <2>1. queue' = queue /\ Readers' = Readers \cup {cur} /\ cur \in Tasks
    BY Zenon, <1>3 DEF OpenStream, Readers, IInv, TypeOK, PollPc
  <2> QED
    BY Zenon, <2>1 DEF Channel!Next, Channel!Open
<1>4. CASE PopFirst \/ PopSecond
  <2>1. /\ cur \in Readers /\ cur \in Tasks /\ Readers' = Readers
        /\ queue' = queue \/ (/\ queue[cur] # <<>>
                              /\ queue' = [queue EXCEPT ![cur] = Tail(@)])
    BY Zenon, <1>4 DEF PopFirst, PopSecond, AfterItem, Readers, IInv, TypeOK, OpenInv, PollPc
  <2> QED
    BY Zenon, <2>1 DEF Channel!Next, Channel!Deliver
<1>5. ASSUME NEW t \in Tasks, NEW x \in Items, InputIrq(t, x)
      PROVE  [Channel!Next]_<<queue, Readers>>
  <2>1. /\ pc' \in {Resume, "panic"}
        /\ UNCHANGED <<tasks, inited>>
    <3>1. CASE t \in inited
      BY <1>5, <3>1, WakeCases, Zenon DEF InputIrq, IInv
    <3>2. CASE t \notin inited
      BY Zenon, <1>5, <3>2 DEF InputIrq
    <3> QED
      BY Zenon, <1>5, <3>1, <3>2 DEF InputIrq
  <2>2. Readers' \in {Readers, {}}
    BY Zenon, <2>1 DEF Readers, Resume
  <2>3. CASE queue' = queue
    BY Zenon, <1>1, <2>2, <2>3
  <2>4. CASE Len(queue[t]) < StreamCap /\ queue' = [queue EXCEPT ![t] = Append(@, x)]
    BY <2>2, <2>4, Zenon DEF Channel!Next, Channel!Arrive
  <2> QED
    BY <1>5, <2>3, <2>4, Zenon DEF InputIrq
<1>6. CASE TaskDone
  <2>1. queue' = queue /\ Readers' \subseteq Readers
    BY Zenon, <1>6 DEF TaskDone, Readers
  <2> QED
    BY Zenon, <1>1, <2>1
<1>7. CASE RegisterWake
  <2>1. queue' = queue /\ Readers' \subseteq Readers
    BY Zenon, <1>7 DEF RegisterWake, Readers
  <2> QED
    BY Zenon, <1>1, <2>1
<1>8. CASE \/ Run \/ PopTask \/ NoReadyTask \/ DisableInterrupts \/ CheckIdle
           \/ EnableAndHlt \/ EnableInterrupts \/ RegisterLock \/ RegisterStore
           \/ RegisterUnlock \/ TakeLock \/ TakeUnlock \/ OtherIrq
           \/ UNCHANGED vars
  <2>1. /\ UNCHANGED <<queue, tasks, inited>>
        /\ (pc # "panic" /\ pc' # "panic") \/ pc' = pc
    BY Zenon, <1>8 DEF Run, PopTask, NoReadyTask, DisableInterrupts, CheckIdle,
       EnableAndHlt, EnableInterrupts, RegisterLock, RegisterStore,
       RegisterUnlock, TakeLock, TakeUnlock, AfterItem, OtherIrq, Resume, vars
  <2> QED
    BY Zenon, <2>1 DEF Readers
<1> QED
  BY Zenon, <1>2, <1>3, <1>4, <1>5, <1>6, <1>7, <1>8 DEF Next, Kernel, HltLoop

(* poll_next and irq_handler implement the bounded channel of InputChannel *)
(* in the first-in first-out order of arrival: no step duplicates,         *)
(* reorders or drops an item that has been accepted.                       *)
THEOREM ChannelRefinement ==
  Spec => Channel!Init /\ [][Channel!Next]_<<queue, Readers>>
<1>1. Init => Channel!Init
  BY Zenon DEF Init, Channel!Init, Readers
<1>2. IInv /\ IInv' /\ [Next]_vars => [Channel!Next]_<<queue, Readers>>
  BY Zenon, ChannelStep
<1> QED
  BY <1>1, <1>2, Inductive, PTL DEF Spec

-----------------------------------------------------------------------------
(* The box of the arrow.                                                   *)

LEMMA Sizes ==
  /\ W \in Nat \ {0} /\ H \in Nat \ {0} /\ W * H \in Nat \ {0}
  /\ Width \in Nat /\ Height \in Nat /\ W <= Width /\ H <= Height
  /\ Arrow \subseteq Box /\ Box = 0 .. W * H - 1
<1>1. W \in Nat \ {0} /\ H \in Nat \ {0}
  BY Zenon, ScreenOK
<1>2. W * H \in Nat \ {0}
  BY <1>1
<1> QED
  BY Zenon, <1>1, <1>2, ScreenOK DEF Box

(* Row and column of an index.                                             *)
LEMMA RowColumn ==
  ASSUME NEW k \in Box
  PROVE  /\ k \in Nat /\ k = W * (k \div W) + (k % W)
         /\ k % W \in 0 .. W - 1 /\ k \div W \in 0 .. H - 1
<1>1. W \in Nat \ {0} /\ H \in Nat \ {0} /\ k \in Nat /\ k < W * H /\ W * H \in Nat
  BY Sizes
<1>2. k = W * (k \div W) + (k % W) /\ k % W \in 0 .. W - 1 /\ k \div W \in Nat
  BY <1>1
<1>3. ASSUME NEW q \in Nat, NEW r \in Nat, k = W * q + r, q >= H PROVE FALSE
  <2>1. PICK e \in Nat : q = H + e
    <3>1. q - H \in Nat /\ q = H + (q - H)
      BY <1>1, <1>3
    <3> QED
      BY Zenon, <3>1
  <2>2. W * q = W * H + W * e /\ W * e \in Nat /\ W * q \in Nat
    BY <1>1, <2>1
  <2> QED
    BY <1>1, <1>3, <2>2
<1>4. k \div W < H
  <2> DEFINE q == k \div W
             r == k % W
  <2>1. q \in Nat /\ r \in Nat /\ k = W * q + r
    BY <1>1, <1>2
  <2> HIDE DEF q, r
  <2>2. ~(q >= H)
    BY Zenon, <1>3, <2>1
  <2>3. q < H
    BY <1>1, <2>1, <2>2
  <2> QED
    BY Zenon, <2>3 DEF q
<1> QED
  BY <1>1, <1>2, <1>4

(* The pixels of a box at an allowed place are on the screen and distinct. *)
LEMMA PixelFacts ==
  ASSUME NEW at \in Places
  PROVE  /\ \A k \in Box : Pixel(at, k) \in Screen
         /\ \A k, l \in Box : Pixel(at, k) = Pixel(at, l) => k = l
<1>1. at[1] \in 0 .. Width - W /\ at[2] \in 0 .. Height - H
  BY Zenon DEF Places
<1>2. ASSUME NEW k \in Box PROVE Pixel(at, k) \in Screen
  <2>1. k % W \in 0 .. W - 1 /\ k \div W \in 0 .. H - 1
    BY Zenon, <1>2, RowColumn
  <2>2. at[1] + (k % W) \in 0 .. Width - 1
    <3> DEFINE r == k % W
    <3>1. r \in 0 .. W - 1
      BY Zenon, <2>1
    <3> HIDE DEF r
    <3>2. at[1] + r \in 0 .. Width - 1
      BY <1>1, <3>1, Sizes
    <3> QED
      BY Zenon, <3>2 DEF r
  <2>3. at[2] + (k \div W) \in 0 .. Height - 1
    <3> DEFINE r == k \div W
    <3>1. r \in 0 .. H - 1
      BY Zenon, <2>1
    <3> HIDE DEF r
    <3>2. at[2] + r \in 0 .. Height - 1
      BY <1>1, <3>1, Sizes
    <3> QED
      BY Zenon, <3>2 DEF r
  <2> QED
    BY Zenon, <2>2, <2>3 DEF Pixel, Screen
<1>3. ASSUME NEW k \in Box, NEW l \in Box, Pixel(at, k) = Pixel(at, l) PROVE k = l
  <2>1. at[1] + (k % W) = at[1] + (l % W) /\ at[2] + (k \div W) = at[2] + (l \div W)
    BY Zenon, <1>3 DEF Pixel
  <2>2. /\ k % W \in Nat /\ l % W \in Nat /\ k \div W \in Nat /\ l \div W \in Nat
        /\ k = W * (k \div W) + (k % W) /\ l = W * (l \div W) + (l % W)
        /\ at[1] \in Int /\ at[2] \in Int
    <3>1. ASSUME NEW j \in Box
          PROVE  j % W \in Nat /\ j \div W \in Nat /\ j = W * (j \div W) + (j % W)
      <4>1. /\ j = W * (j \div W) + (j % W)
            /\ j % W \in 0 .. W - 1 /\ j \div W \in 0 .. H - 1
        BY Zenon, <3>1, RowColumn
      <4>2. 0 .. W - 1 \subseteq Nat /\ 0 .. H - 1 \subseteq Nat
        BY Sizes
      <4> QED
        BY Zenon, <4>1, <4>2
    <3>2. at[1] \in Int /\ at[2] \in Int
      BY <1>1
    <3> QED
      BY Zenon, <3>1, <3>2
  <2> DEFINE a == k % W
             b == l % W
             c == k \div W
             d == l \div W
  <2> HIDE DEF a, b, c, d
  <2>3. a = b /\ c = d
    BY <2>1, <2>2 DEF a, b, c, d
  <2> QED
    BY Zenon, <2>2, <2>3 DEF a, b, c, d
<1> QED
  BY Zenon, <1>2, <1>3

(* The place of an arrow is where its box fits, for any cursor position.   *)
LEMMA ClampFacts ==
  ASSUME NEW x \in Int, NEW y \in Int
  PROVE  <<Clamp(x, Width, W), Clamp(y, Height, H)>> \in Places
<1>1. Width - W \in Nat /\ Height - H \in Nat
  BY Sizes
<1>2. Clamp(x, Width, W) \in 0 .. Width - W /\ Clamp(y, Height, H) \in 0 .. Height - H
  BY <1>1 DEF Clamp
<1> QED
  BY Zenon, <1>2 DEF Places

(* What is held, in every state.                                           *)
HeldPre == CursorTypeOK /\ (cpc \in {"restore", "draw"} => Saved)

HeldOK ==
  /\ HeldAt \in Places /\ HeldIdx \subseteq Box
  /\ \A k \in HeldIdx : Behind(Pixel(HeldAt, k)) = HeldColour(k)
  /\ \A p \in Screen : p \notin Held => Behind(p) = fb[p]
  /\ Held \subseteq Screen /\ HeldArrow \subseteq Held

LEMMA HeldFacts == HeldPre => HeldOK
<1> SUFFICES ASSUME HeldPre PROVE HeldOK
  BY Zenon
<1>0. CursorTypeOK
  BY Zenon DEF HeldPre
<1>1. Saved => saved_bg[1] \in [at : Places, bg : Seq(Colour)]
  <2>1. SUFFICES ASSUME Saved PROVE saved_bg[1] \in [at : Places, bg : Seq(Colour)]
    BY Zenon
  <2> DEFINE S == [at : Places, bg : Seq(Colour)]
  <2>2. saved_bg \in Seq(S) /\ Len(saved_bg) = 1
    BY Zenon, <1>0, <2>1 DEF CursorTypeOK
  <2> HIDE DEF S
  <2>3. saved_bg[1] \in S
    BY <2>2
  <2> QED
    BY Zenon, <2>3 DEF S
<1>2. HeldAt \in Places
  BY Zenon, <1>0, <1>1 DEF HeldAt, CursorTypeOK
<1>3. HeldIdx \subseteq Box
  <2>1. PICK n \in Nat : n = W * H
    BY Zenon, Sizes
  <2>2. i \in 0 .. n
    BY Zenon, <1>0, <2>1 DEF CursorTypeOK
  <2>3. 0 .. i - 1 \subseteq 0 .. n - 1 /\ i .. n - 1 \subseteq 0 .. n - 1
    BY <2>2
  <2>4. 0 .. i - 1 \subseteq Box /\ i .. W * H - 1 \subseteq Box
    BY Zenon, <2>1, <2>3, Sizes
  <2> QED
    BY <2>4 DEF HeldIdx
<1>4. ASSUME NEW k \in HeldIdx PROVE Behind(Pixel(HeldAt, k)) = HeldColour(k)
  <2>1. Pixel(HeldAt, k) \in Held
    BY Zenon DEF Held
  <2>2. PICK l \in HeldIdx :
          /\ l = CHOOSE j \in HeldIdx : Pixel(HeldAt, j) = Pixel(HeldAt, k)
          /\ Pixel(HeldAt, l) = Pixel(HeldAt, k)
    BY Zenon
  <2>3. l = k
    BY Zenon, <1>2, <1>3, <2>2, PixelFacts
  <2> QED
    BY <2>1, <2>2, <2>3, Zenon DEF Behind
<1>5. \A p \in Screen : p \notin Held => Behind(p) = fb[p]
  BY Zenon DEF Behind
<1>6. Held \subseteq Screen
  BY Zenon, <1>2, <1>3, PixelFacts DEF Held
<1>7. HeldArrow \subseteq Held
  BY Zenon DEF Held, HeldArrow
<1> QED
  BY Zenon, <1>2, <1>3, <1>4, <1>5, <1>6, <1>7 DEF HeldOK

(* The saved background, when there is one.                                *)
LEMMA SavedFacts ==
  ASSUME CursorTypeOK, Saved
  PROVE  /\ saved_bg[1].at \in Places /\ saved_bg[1].bg \in Seq(Colour)
         /\ Len(saved_bg[1].bg) = W * H
         /\ \A k \in Box : saved_bg[1].bg[k + 1] \in Colour
<1> DEFINE S == [at : Places, bg : Seq(Colour)]
<1>1. saved_bg \in Seq(S) /\ Len(saved_bg) = 1 /\ Len(saved_bg[1].bg) = W * H
  BY Zenon DEF CursorTypeOK
<1> HIDE DEF S
<1>2. saved_bg[1] \in S
  BY <1>1
<1>3. saved_bg[1].at \in Places /\ saved_bg[1].bg \in Seq(Colour)
  BY Zenon, <1>2 DEF S
<1>4. \A k \in Box : k + 1 \in 1 .. W * H
  BY Sizes
<1> HIDE DEF Colour
<1>5. \A j \in 1 .. W * H : saved_bg[1].bg[j] \in Colour
  BY <1>1, <1>3
<1> QED
  BY Zenon, <1>1, <1>3, <1>4, <1>5

-----------------------------------------------------------------------------
(* The loops of redraw_cursor: what they keep, and what is behind.         *)

(* All of the invariant but DamageIsLocal.                                 *)
Shape ==
  /\ CursorTypeOK
  /\ cpc \in {"restore", "draw"} => Saved /\ i < W * H
  /\ cpc = "draw" => saved_bg[1].at = place
  /\ cpc = "boot" => ~Saved

HeldShown ==
  \A k \in HeldIdx \ Arrow :
    Pixel(HeldAt, k) \notin damaged => fb[Pixel(HeldAt, k)] = HeldColour(k)

LEMMA RestoreShape ==
  ASSUME Shape, RestorePixel
  PROVE  Shape'
<1>1. /\ cpc = "restore" /\ Saved /\ i \in Box /\ CursorTypeOK /\ W * H \in Nat \ {0} /\ i \in Nat
  BY Sizes DEF Shape, RestorePixel, CursorTypeOK
<1>2. saved_bg[1].bg[i + 1] \in Colour /\ Pixel(saved_bg[1].at, i) \in Screen
  BY Zenon, <1>1, SavedFacts, PixelFacts
<1>3. fb' \in [Screen -> Colour]
  BY Zenon, <1>1, <1>2 DEF RestorePixel, CursorTypeOK
<1>4. /\ UNCHANGED <<cursor_x, cursor_y, place, bg, page, prints, damaged>>
      /\ \/ i + 1 < W * H /\ i' = i + 1 /\ UNCHANGED <<cpc, saved_bg>>
         \/ i' = 0 /\ cpc' = "capture" /\ saved_bg' = <<>>
  BY Zenon DEF RestorePixel
<1>5. saved_bg' \in Seq([at : Places, bg : Seq(Colour)])
  <2> DEFINE S == [at : Places, bg : Seq(Colour)]
  <2>1. saved_bg \in Seq(S)
    BY Zenon, <1>1 DEF CursorTypeOK
  <2> HIDE DEF S
  <2>2. saved_bg' = saved_bg \/ saved_bg' = <<>>
    BY Zenon, <1>4
  <2>3. << >> \in Seq(S)
    OBVIOUS
  <2>4. saved_bg' \in Seq(S)
    BY <2>1, <2>2, <2>3, Zenon
  <2> QED
    BY Zenon, <2>4 DEF S
<1> QED
  BY <1>1, <1>3, <1>4, <1>5 DEF Shape, CursorTypeOK, Saved

LEMMA CaptureShape ==
  ASSUME Shape, CapturePixel
  PROVE  Shape'
<1>1. cpc = "capture" /\ i \in Box /\ CursorTypeOK /\ W * H \in Nat \ {0} /\ i \in Nat
  BY Sizes DEF Shape, CapturePixel, CursorTypeOK
<1>2. Pixel(place, i) \in Screen
  BY Zenon, <1>1, PixelFacts DEF CursorTypeOK
<1>3. fb[Pixel(place, i)] \in Colour /\ bg \in Seq(Colour) /\ Len(bg) = i
  BY Zenon, <1>1, <1>2 DEF CursorTypeOK
<1>4. /\ bg' = Append(bg, fb[Pixel(place, i)]) /\ i' = i + 1 /\ i < W * H
      /\ UNCHANGED <<fb, cursor_x, cursor_y, saved_bg, cpc, place, page, prints, damaged>>
  BY Zenon DEF CapturePixel
<1>5. bg' \in Seq(Colour) /\ Len(bg') = i'
  <2> HIDE DEF Colour
  <2> QED
    BY <1>3, <1>4
<1> QED
  BY <1>1, <1>4, <1>5 DEF Shape, CursorTypeOK, Saved

LEMMA SaveShape ==
  ASSUME Shape, SaveBackground
  PROVE  Shape' /\ Saved' /\ saved_bg'[1].at = place /\ saved_bg'[1].bg = bg
<1>1. cpc = "capture" /\ i = W * H /\ CursorTypeOK /\ W * H \in Nat \ {0}
  BY Zenon, Sizes DEF Shape, SaveBackground, CursorTypeOK
<1> DEFINE x == [at |-> place, bg |-> bg]
           S == [at : Places, bg : Seq(Colour)]
<1>2. x \in S /\ x.at = place /\ x.bg = bg
  BY Zenon, <1>1 DEF CursorTypeOK
<1>3. /\ saved_bg' = <<x>> /\ cpc' = "draw" /\ i' = 0 /\ bg' = <<>>
      /\ UNCHANGED <<fb, cursor_x, cursor_y, place, page, prints, damaged>>
  BY Zenon DEF SaveBackground
<1> HIDE DEF x, S
<1>4. saved_bg' \in Seq(S) /\ Len(saved_bg') = 1 /\ saved_bg'[1] = x /\ saved_bg' # <<>>
  BY <1>2, <1>3
<1>5. saved_bg'[1].at = place /\ saved_bg'[1].bg = bg /\ Saved'
  BY Zenon, <1>2, <1>4 DEF Saved
<1>6. Len(saved_bg'[1].bg) = W * H
  BY Zenon, <1>1, <1>5 DEF CursorTypeOK
<1>7. CursorTypeOK'
  BY <1>1, <1>3, <1>4, <1>6 DEF CursorTypeOK, S
<1> QED
  BY <1>1, <1>3, <1>5, <1>7 DEF Shape

LEMMA DrawShape ==
  ASSUME Shape, DrawPixel
  PROVE  Shape'
<1>1. cpc = "draw" /\ Saved /\ i \in Box /\ CursorTypeOK /\ W * H \in Nat \ {0} /\ i \in Nat
  BY Sizes DEF Shape, DrawPixel, CursorTypeOK
<1>2. White \in Colour
  BY DEF White, Colour
<1>3. fb' \in [Screen -> Colour]
  BY <1>1, <1>2, Zenon DEF DrawPixel, CursorTypeOK
<1>4. /\ UNCHANGED <<cursor_x, cursor_y, saved_bg, place, bg, page, prints, damaged>>
      /\ \/ i + 1 < W * H /\ i' = i + 1 /\ cpc' = cpc
         \/ i' = 0 /\ cpc' = "idle"
  BY Zenon DEF DrawPixel
<1> QED
  BY <1>1, <1>3, <1>4 DEF Shape, CursorTypeOK, Saved

(* Putting a pixel back: it is no longer held and shows what was held.     *)
LEMMA RestoreTransparent ==
  ASSUME Shape, HeldShown, RestorePixel, HeldOK, HeldOK'
  PROVE  (\A p \in Screen : Behind(p)' = Behind(p)) /\ HeldShown'
<1> DEFINE at == saved_bg[1].at
           px == Pixel(at, i)
<1>1. cpc = "restore" /\ Saved /\ i \in Box /\ i \in Nat /\ CursorTypeOK /\ W * H \in Nat
      /\ i < W * H
  BY Sizes DEF Shape, RestorePixel, CursorTypeOK
<1>2. at \in Places /\ px \in Screen /\ \A k \in Box : Pixel(at, k) = px => k = i
  BY Zenon, <1>1, SavedFacts, PixelFacts
<1>3. /\ HeldAt = at /\ HeldIdx = i .. W * H - 1
      /\ \A k : HeldColour(k) = saved_bg[1].bg[k + 1]
  BY Zenon, <1>1 DEF HeldAt, HeldIdx, HeldColour
<1>4. i \in HeldIdx
  BY <1>1, <1>3
<1>5. HeldIdx' = HeldIdx \ {i}
  <2>1. CASE i + 1 < W * H
    <3>1. cpc' = "restore" /\ i' = i + 1
      BY Zenon, <1>1, <2>1 DEF RestorePixel
    <3>2. HeldIdx' = i + 1 .. W * H - 1
      BY Zenon, <3>1 DEF HeldIdx
    <3> QED
      BY <1>1, <1>3, <3>2
  <2>2. CASE ~(i + 1 < W * H)
    <3>1. cpc' = "capture" /\ i' = 0
      BY Zenon, <1>1, <2>2 DEF RestorePixel
    <3>2. HeldIdx' = 0 .. 0 - 1
      BY Zenon, <3>1 DEF HeldIdx
    <3> QED
      BY <1>1, <1>3, <2>2, <3>2
  <2> QED
    BY Zenon, <2>1, <2>2
<1>6. HeldIdx' # {} => HeldAt' = at /\ \A k : HeldColour(k)' = HeldColour(k)
  <2>1. CASE i + 1 < W * H
    BY Zenon, <1>1, <1>3, <2>1 DEF RestorePixel, HeldAt, HeldColour, Saved
  <2>2. CASE ~(i + 1 < W * H)
    <3>1. HeldIdx = {i}
      BY <1>1, <1>3, <2>2
    <3> QED
      BY Zenon, <1>5, <3>1
  <2> QED
    BY Zenon, <2>1, <2>2
<1>7. /\ fb'[px] = HeldColour(i) /\ damaged' = damaged
      /\ \A p \in Screen \ {px} : fb'[p] = fb[p]
  BY Zenon, <1>1, <1>2, <1>3 DEF RestorePixel, CursorTypeOK
<1>8. Held' = Held \ {px}
  <2>1. Held' = {Pixel(at, k) : k \in HeldIdx'}
    BY Zenon, <1>6 DEF Held
  <2>2. Held = {Pixel(at, k) : k \in HeldIdx}
    BY Zenon, <1>3 DEF Held
  <2>3. HeldIdx \subseteq Box
    BY Zenon DEF HeldOK
  <2> HIDE DEF px
  <2>4. px = Pixel(at, i)
    BY Zenon DEF px
  <2> QED
    BY Zenon, <1>2, <1>4, <1>5, <2>1, <2>2, <2>3, <2>4
<1> HIDE DEF px, at
<1>9. ASSUME NEW p \in Screen PROVE Behind(p)' = Behind(p)
  <2>1. CASE p = px
    <3>1. Behind(p)' = fb'[p]
      BY Zenon, <1>8, <1>9, <2>1 DEF HeldOK
    <3>2. Behind(p) = HeldColour(i)
      BY Zenon, <1>3, <1>4, <2>1 DEF HeldOK, px
    <3> QED
      BY Zenon, <1>7, <2>1, <3>1, <3>2
  <2>2. CASE p # px /\ p \notin Held
    BY Zenon, <1>7, <1>8, <1>9, <2>2 DEF HeldOK
  <2>3. CASE p # px /\ p \in Held
    <3>1. PICK k \in HeldIdx : p = Pixel(at, k)
      BY Zenon, <1>3, <2>3 DEF Held
    <3>2. k \in HeldIdx'
      BY Zenon, <1>5, <2>3, <3>1 DEF px
    <3>3. Behind(p)' = HeldColour(k)'
      BY Zenon, <1>6, <3>1, <3>2 DEF HeldOK
    <3> QED
      BY Zenon, <1>3, <1>6, <3>1, <3>2, <3>3 DEF HeldOK
  <2> QED
    BY Zenon, <2>1, <2>2, <2>3
<1>10. ASSUME NEW k \in HeldIdx' \ Arrow, Pixel(HeldAt', k) \notin damaged'
       PROVE  fb'[Pixel(HeldAt', k)] = HeldColour(k)'
  <2>1. HeldAt' = at /\ HeldColour(k)' = HeldColour(k) /\ k \in HeldIdx \ Arrow /\ k # i /\ k \in Box
    BY Zenon, <1>5, <1>6, <1>10 DEF HeldOK
  <2>2. Pixel(at, k) # px /\ Pixel(at, k) \in Screen
    BY Zenon, <1>2, <2>1, PixelFacts
  <2>3. fb[Pixel(at, k)] = HeldColour(k)
    BY Zenon, <1>3, <1>7, <1>10, <2>1 DEF HeldShown
  <2> QED
    BY Zenon, <1>7, <2>1, <2>2, <2>3
<1> QED
  BY Zenon, <1>9, <1>10 DEF HeldShown

(* Capturing a pixel: it is held with the colour it shows.                 *)
LEMMA CaptureTransparent ==
  ASSUME Shape, HeldShown, CapturePixel, HeldOK, HeldOK'
  PROVE  (\A p \in Screen : Behind(p)' = Behind(p)) /\ HeldShown'
<1> DEFINE px == Pixel(place, i)
<1>1. cpc = "capture" /\ i \in Box /\ i \in Nat /\ CursorTypeOK /\ i < W * H /\ W * H \in Nat
  BY Sizes DEF Shape, CapturePixel, CursorTypeOK
<1>2. place \in Places /\ px \in Screen /\ \A k \in Box : Pixel(place, k) = px => k = i
  BY Zenon, <1>1, PixelFacts DEF CursorTypeOK
<1>3. /\ bg' = Append(bg, fb[px]) /\ i' = i + 1 /\ cpc' = "capture"
      /\ UNCHANGED <<fb, place, damaged>>
  BY Zenon, <1>1 DEF CapturePixel
<1>4. HeldAt = place /\ HeldIdx = 0 .. i - 1 /\ \A k : HeldColour(k) = bg[k + 1]
  BY Zenon, <1>1 DEF HeldAt, HeldIdx, HeldColour
<1>5. HeldAt' = place /\ HeldIdx' = 0 .. i' - 1 /\ \A k : HeldColour(k)' = bg'[k + 1]
  BY Zenon, <1>3 DEF HeldAt, HeldIdx, HeldColour
<1>6. HeldIdx' = HeldIdx \cup {i} /\ HeldIdx \subseteq Box /\ i \notin HeldIdx
  BY <1>1, <1>3, <1>4, <1>5, Sizes
<1>7. bg \in Seq(Colour) /\ Len(bg) = i /\ fb[px] \in Colour
  BY Zenon, <1>1, <1>2 DEF CursorTypeOK
<1> HIDE DEF px
<1>a. PICK n \in Box : n = i
  BY Zenon, <1>1
<1>8. HeldColour(n)' = fb[px] /\ \A k \in HeldIdx : HeldColour(k)' = HeldColour(k)
  <2> HIDE DEF Colour
  <2>1. bg'[i + 1] = fb[px] /\ \A j \in 1 .. i : bg'[j] = bg[j]
    BY <1>1, <1>3, <1>7
  <2>2. \A k \in HeldIdx : k + 1 \in 1 .. i
    BY <1>1, <1>4
  <2> QED
    BY Zenon, <1>4, <1>5, <1>a, <2>1, <2>2
<1>9. ASSUME NEW p \in Screen PROVE Behind(p)' = Behind(p)
  <2>1. CASE p = px
    <3>1. p \notin Held
      BY Zenon, <1>2, <1>4, <1>6, <2>1 DEF Held
    <3>2. Behind(p) = fb[p]
      BY Zenon, <1>9, <3>1 DEF HeldOK
    <3>3. Behind(p)' = HeldColour(n)'
      BY Zenon, <1>5, <1>6, <1>a, <2>1 DEF HeldOK, px
    <3> QED
      BY Zenon, <1>8, <2>1, <3>2, <3>3
  <2>2. CASE p # px /\ p \in Held
    <3>1. PICK k \in HeldIdx : p = Pixel(place, k)
      BY Zenon, <1>4, <2>2 DEF Held
    <3>2. Behind(p)' = HeldColour(k)'
      BY Zenon, <1>5, <1>6, <3>1 DEF HeldOK
    <3> QED
      BY Zenon, <1>4, <1>8, <3>1, <3>2 DEF HeldOK
  <2>3. CASE p # px /\ p \notin Held
    <3>1. p \notin Held'
      BY Zenon, <1>4, <1>5, <1>6, <2>3 DEF Held, px
    <3> QED
      BY Zenon, <1>3, <1>9, <2>3, <3>1 DEF HeldOK
  <2> QED
    BY Zenon, <2>1, <2>2, <2>3
<1>10. ASSUME NEW k \in HeldIdx' \ Arrow, Pixel(HeldAt', k) \notin damaged'
       PROVE  fb'[Pixel(HeldAt', k)] = HeldColour(k)'
  <2>1. CASE k = n
    BY Zenon, <1>3, <1>5, <1>8, <1>a, <2>1 DEF px
  <2>2. CASE k # n
    BY Zenon, <1>3, <1>4, <1>5, <1>6, <1>8, <1>10, <1>a, <2>2 DEF HeldShown
  <2> QED
    BY Zenon, <2>1, <2>2
<1> QED
  BY Zenon, <1>9, <1>10 DEF HeldShown

(* The captured pixels become the saved ones.                              *)
LEMMA SaveTransparent ==
  ASSUME Shape, HeldShown, SaveBackground, HeldOK, HeldOK'
  PROVE  (\A p \in Screen : Behind(p)' = Behind(p)) /\ HeldShown'
<1>1. Saved' /\ saved_bg'[1].at = place /\ saved_bg'[1].bg = bg
  BY Zenon, SaveShape
<1>2. cpc = "capture" /\ cpc' = "draw" /\ i = W * H /\ UNCHANGED <<fb, damaged>>
  BY Zenon DEF SaveBackground
<1>3. HeldAt' = HeldAt /\ HeldIdx' = HeldIdx /\ \A k : HeldColour(k)' = HeldColour(k)
  BY Zenon, <1>1, <1>2, Sizes DEF HeldAt, HeldIdx, HeldColour
<1>4. Held' = Held
  BY Zenon, <1>3 DEF Held
<1>5. ASSUME NEW p \in Screen PROVE Behind(p)' = Behind(p)
  <2>1. CASE p \in Held
    <3>1. PICK k \in HeldIdx : p = Pixel(HeldAt, k)
      BY Zenon, <2>1 DEF Held
    <3> QED
      BY Zenon, <1>3, <3>1 DEF HeldOK
  <2>2. CASE p \notin Held
    BY Zenon, <1>2, <1>4, <1>5, <2>2 DEF HeldOK
  <2> QED
    BY Zenon, <2>1, <2>2
<1>6. HeldShown'
  BY Zenon, <1>2, <1>3 DEF HeldShown
<1> QED
  BY Zenon, <1>5, <1>6

(* Drawing the arrow changes held pixels only, of the arrow.               *)
LEMMA DrawTransparent ==
  ASSUME Shape, HeldShown, DrawPixel, HeldOK, HeldOK'
  PROVE  (\A p \in Screen : Behind(p)' = Behind(p)) /\ HeldShown'
<1> DEFINE px == Pixel(place, i)
<1>1. cpc = "draw" /\ Saved /\ i \in Box /\ CursorTypeOK /\ saved_bg[1].at = place
  BY Sizes DEF Shape, DrawPixel, CursorTypeOK
<1>2. cpc' \in {"draw", "idle"} /\ UNCHANGED <<saved_bg, damaged>>
  BY Zenon, <1>1 DEF DrawPixel
<1>3. /\ HeldAt = place /\ HeldIdx = Box /\ HeldAt' = HeldAt /\ HeldIdx' = HeldIdx
      /\ \A k : HeldColour(k)' = HeldColour(k)
  BY Zenon, <1>1, <1>2 DEF HeldAt, HeldIdx, HeldColour, Saved
<1>4. Held' = Held
  BY Zenon, <1>3 DEF Held
<1>5. \A p \in Screen : fb'[p] = fb[p] \/ (p = px /\ i \in Arrow)
  BY Zenon, <1>1 DEF DrawPixel, CursorTypeOK
<1>6. px \in Held
  BY Zenon, <1>1, <1>3 DEF Held
<1> HIDE DEF px
<1>7. ASSUME NEW p \in Screen PROVE Behind(p)' = Behind(p)
  <2>1. CASE p \in Held
    <3>1. PICK k \in HeldIdx : p = Pixel(HeldAt, k)
      BY Zenon, <2>1 DEF Held
    <3> QED
      BY Zenon, <1>3, <3>1 DEF HeldOK
  <2>2. CASE p \notin Held
    BY Zenon, <1>4, <1>5, <1>6, <1>7, <2>2 DEF HeldOK
  <2> QED
    BY Zenon, <2>1, <2>2
<1>8. ASSUME NEW k \in Box \ Arrow PROVE fb'[Pixel(place, k)] = fb[Pixel(place, k)]
  <2>1. Pixel(place, k) \in Screen /\ (Pixel(place, k) = px => k = i)
    BY Zenon, <1>1, <1>8, PixelFacts DEF CursorTypeOK, px
  <2> QED
    BY Zenon, <1>5, <1>8, <2>1
<1>9. HeldShown'
  BY Zenon, <1>2, <1>3, <1>8 DEF HeldShown
<1> QED
  BY Zenon, <1>7, <1>9

LEMMA RedrawFacts ==
  ASSUME Shape, HeldShown, Redraw
  PROVE  Shape' /\ HeldShown' /\ \A p \in Screen : Behind(p)' = Behind(p)
<1>1. Shape'
  BY Zenon, RestoreShape, CaptureShape, SaveShape, DrawShape DEF Redraw
<1>2. HeldPre /\ HeldPre'
  BY Zenon, <1>1 DEF Shape, HeldPre
<1>3. HeldOK
  BY Zenon, <1>2, HeldFacts
<1>4. HeldOK'
  BY <1>2, HeldFacts, PTL
<1> QED
  BY Zenon, <1>1, <1>3, <1>4, RestoreTransparent, CaptureTransparent, SaveTransparent,
     DrawTransparent DEF Redraw

-----------------------------------------------------------------------------
(* The callers of redraw_cursor, and the console.                          *)

(* Not held and not in the arrow, or not damaged: the screen shows what is *)
(* behind.                                                                 *)
LEMMA ShownBehind ==
  ASSUME HeldOK, HeldShown, NEW p \in Screen \ (damaged \cup HeldArrow)
  PROVE  fb[p] = Behind(p)
<1>1. CASE p \notin Held
  BY Zenon, <1>1 DEF HeldOK
<1>2. CASE p \in Held
  <2>1. PICK k \in HeldIdx : p = Pixel(HeldAt, k)
    BY Zenon, <1>2 DEF Held
  <2>2. k \notin Arrow
    BY Zenon, <2>1 DEF HeldArrow
  <2> QED
    BY Zenon, <2>1, <2>2 DEF HeldOK, HeldShown
<1> QED
  BY Zenon, <1>1, <1>2

LEMMA StartRedrawKeepsInv ==
  ASSUME CursorInv, NEW x \in IntMin .. IntMax, NEW y \in IntMin .. IntMax,
         cpc \in {"boot", "idle"}, StartRedraw(x, y)
  PROVE  CursorInv'
<1>1. Shape /\ HeldShown /\ DamageIsLocal /\ CursorTypeOK /\ HeldOK /\ W * H \in Nat \ {0}
  BY Zenon, HeldFacts, Sizes DEF CursorInv, Shape, HeldShown, HeldPre
<1>2. /\ cursor_x' = x /\ cursor_y' = y /\ i' = 0 /\ bg' = <<>>
      /\ UNCHANGED <<fb, saved_bg, page, prints>>
      /\ \/ Saved /\ cpc' = "restore" /\ damaged' = damaged
         \/ cpc' = "capture" /\ damaged' = damaged \cup HeldArrow
      /\ place' = <<Clamp(x, Width, W), Clamp(y, Height, H)>>
  BY Zenon DEF StartRedraw
<1>3. place' \in Places
  <2>1. x \in Int /\ y \in Int
    BY ScreenOK
  <2> QED
    BY Zenon, <1>2, <2>1, ClampFacts
<1>4. damaged' \subseteq Screen
  BY Zenon, <1>1, <1>2 DEF CursorTypeOK, HeldOK
<1>5. CursorTypeOK'
  <2>1. bg' \in Seq(Colour) /\ Len(bg') = 0
    BY <1>2
  <2>2. cpc' \in {"restore", "capture"} /\ i' \in 0 .. W * H
    BY <1>1, <1>2
  <2> QED
    BY Zenon, <1>1, <1>2, <1>3, <1>4, <2>1, <2>2 DEF CursorTypeOK, Saved
<1>6. Shape'
  BY <1>1, <1>2, <1>5 DEF Shape, Saved
<1>7. HeldOK'
  <2>1. HeldPre'
    BY Zenon, <1>6 DEF Shape, HeldPre
  <2> QED
    BY <2>1, HeldFacts, PTL
<1>8. CASE Saved /\ cpc' = "restore" /\ damaged' = damaged
  <2>1. /\ HeldAt' = HeldAt /\ HeldIdx' = HeldIdx
        /\ \A k : HeldColour(k)' = HeldColour(k)
    BY Zenon, <1>2, <1>8, Sizes DEF HeldAt, HeldIdx, HeldColour, Saved
  <2>2. Held' = Held
    BY Zenon, <2>1 DEF Held
  <2>3. HeldShown'
    BY Zenon, <1>1, <1>2, <1>8, <2>1 DEF HeldShown
  <2>4. ASSUME NEW p \in Screen PROVE Behind(p)' = Behind(p)
    <3>1. CASE p \in Held
      <4>1. PICK k \in HeldIdx : p = Pixel(HeldAt, k)
        BY Zenon, <3>1 DEF Held
      <4> QED
        BY Zenon, <1>1, <1>7, <2>1, <4>1 DEF HeldOK
    <3>2. CASE p \notin Held
      BY Zenon, <1>1, <1>2, <1>7, <2>2, <2>4, <3>2 DEF HeldOK
    <3> QED
      BY Zenon, <3>1, <3>2
  <2>5. DamageIsLocal'
    BY Zenon, <1>1, <1>2, <1>8, <2>4 DEF DamageIsLocal
  <2> QED
    BY Zenon, <1>6, <2>3, <2>5 DEF CursorInv, Shape, HeldShown
<1>9. CASE cpc' = "capture" /\ damaged' = damaged \cup HeldArrow
  <2>1. HeldIdx' = {}
    BY <1>2, <1>9 DEF HeldIdx
  <2>2. Held' = {} /\ HeldShown'
    BY Zenon, <2>1 DEF Held, HeldShown
  <2>3. DamageIsLocal'
    <3>1. SUFFICES ASSUME NEW p \in Screen \ (damaged \cup HeldArrow)
                   PROVE  Behind(p)' = page[p]
      BY Zenon, <1>2, <1>9 DEF DamageIsLocal
    <3>2. Behind(p)' = fb[p]
      BY Zenon, <1>2, <1>7, <2>2, <3>1 DEF HeldOK
    <3>3. fb[p] = Behind(p) /\ Behind(p) = page[p]
      BY Zenon, <1>1, <3>1, ShownBehind DEF DamageIsLocal
    <3> QED
      BY Zenon, <3>2, <3>3
  <2> QED
    BY Zenon, <1>6, <2>2, <2>3 DEF CursorInv, Shape, HeldShown
<1> QED
  BY Zenon, <1>2, <1>8, <1>9

(* The console leaves the driver alone.                                    *)
LEMMA ConsoleFacts ==
  ASSUME UNCHANGED <<cursor_x, cursor_y, saved_bg, cpc, place, bg, i>>
  PROVE  /\ HeldAt' = HeldAt /\ HeldIdx' = HeldIdx
         /\ \A k : HeldColour(k)' = HeldColour(k)
         /\ Held' = Held /\ HeldArrow' = HeldArrow /\ Saved' = Saved
<1>1. /\ HeldAt' = HeldAt /\ HeldIdx' = HeldIdx /\ Saved' = Saved
      /\ \A k : HeldColour(k)' = HeldColour(k)
  BY Zenon DEF HeldAt, HeldIdx, HeldColour, Saved
<1> QED
  BY Zenon, <1>1 DEF Held, HeldArrow

(* Either kind of drawing: the pixels that are neither held nor damaged    *)
(* afterwards show the console's, and nothing held and undamaged changes.  *)
LEMMA ConsoleKeepsInv ==
  ASSUME CursorInv, UNCHANGED <<cursor_x, cursor_y, saved_bg, cpc, place, bg, i>>,
         fb' \in [Screen -> Colour], page' \in [Screen -> Colour],
         prints' \in 0 .. MaxPrints, damaged' \subseteq Screen,
         \A p \in Screen \ (damaged' \cup Held) : fb'[p] = page'[p],
         \A p \in Held \ damaged' : /\ p \notin damaged
                                    /\ fb'[p] = fb[p] /\ page'[p] = page[p]
  PROVE  CursorInv'
<1>1. Shape /\ HeldShown /\ DamageIsLocal /\ CursorTypeOK /\ HeldOK
  BY Zenon, HeldFacts DEF CursorInv, Shape, HeldShown, HeldPre
<1>2. /\ HeldAt' = HeldAt /\ HeldIdx' = HeldIdx
      /\ \A k : HeldColour(k)' = HeldColour(k)
      /\ Held' = Held /\ Saved' = Saved
  BY Zenon, ConsoleFacts
<1>3. Shape'
  BY Zenon, <1>1, <1>2 DEF Shape, CursorTypeOK
<1>4. HeldOK'
  <2>1. HeldPre'
    BY Zenon, <1>3 DEF Shape, HeldPre
  <2> QED
    BY <2>1, HeldFacts, PTL
<1>5. HeldShown'
  <2>1. SUFFICES ASSUME NEW k \in HeldIdx \ Arrow, Pixel(HeldAt, k) \notin damaged'
                 PROVE  fb'[Pixel(HeldAt, k)] = HeldColour(k)
    BY Zenon, <1>2 DEF HeldShown
  <2>2. Pixel(HeldAt, k) \in Held
    BY Zenon DEF Held
  <2> QED
    BY Zenon, <1>1, <2>1, <2>2 DEF HeldShown
<1>6. DamageIsLocal'
  <2>1. SUFFICES ASSUME NEW p \in Screen \ damaged' PROVE Behind(p)' = page'[p]
    BY Zenon DEF DamageIsLocal
  <2>2. CASE p \notin Held
    BY Zenon, <1>2, <1>4, <2>1, <2>2 DEF HeldOK
  <2>3. CASE p \in Held
    <3>1. PICK k \in HeldIdx : p = Pixel(HeldAt, k)
      BY Zenon, <2>3 DEF Held
    <3>2. Behind(p)' = HeldColour(k) /\ Behind(p) = HeldColour(k)
      BY Zenon, <1>1, <1>2, <1>4, <3>1 DEF HeldOK
    <3>3. Behind(p) = page[p]
      BY Zenon, <1>1, <2>1, <2>3 DEF DamageIsLocal
    <3> QED
      BY Zenon, <2>1, <2>3, <3>2, <3>3
  <2> QED
    BY Zenon, <2>2, <2>3
<1> QED
  BY Zenon, <1>3, <1>5, <1>6 DEF CursorInv, Shape, HeldShown

LEMMA PrintCharKeepsInv ==
  ASSUME CursorInv, NEW p \in Screen, PrintChar(p)
  PROVE  CursorInv'
<1>1. CursorTypeOK /\ MaxPrints \in Nat
  BY Zenon, ScreenOK DEF CursorInv
<1>2. /\ fb' = [fb EXCEPT ![p] = Ink] /\ page' = [page EXCEPT ![p] = Ink]
      /\ prints' = prints + 1 /\ prints < MaxPrints
      /\ damaged' = IF p \in Held THEN damaged \cup {p} ELSE damaged \ {p}
      /\ UNCHANGED <<cursor_x, cursor_y, saved_bg, cpc, place, bg, i>>
  BY Zenon DEF PrintChar
<1>3. Ink \in Colour
  BY DEF Ink, Colour
<1> HIDE DEF Ink, Colour
<1>4. /\ fb' \in [Screen -> Colour] /\ page' \in [Screen -> Colour]
      /\ \A q \in Screen \ {p} : fb'[q] = fb[q] /\ page'[q] = page[q]
      /\ fb'[p] = page'[p]
  BY Zenon, <1>1, <1>2, <1>3 DEF CursorTypeOK
<1>5. prints' \in 0 .. MaxPrints /\ damaged' \subseteq Screen
  BY <1>1, <1>2 DEF CursorTypeOK
<1>6. HeldOK /\ DamageIsLocal
  BY Zenon, HeldFacts DEF CursorInv, HeldPre
<1>7. \A q \in Screen \ (damaged' \cup Held) : fb'[q] = page'[q]
  <2>1. SUFFICES ASSUME NEW q \in Screen \ (damaged' \cup Held), q # p
                 PROVE  fb[q] = page[q]
    BY Zenon, <1>4
  <2>2. q \notin damaged
    BY Zenon, <1>2, <2>1
  <2> QED
    BY Zenon, <1>6, <2>1, <2>2 DEF HeldOK, DamageIsLocal
<1>8. \A q \in Held \ damaged' : /\ q \notin damaged
                                /\ fb'[q] = fb[q] /\ page'[q] = page[q]
  BY Zenon, <1>2, <1>4, <1>6 DEF HeldOK
<1> QED
  BY Zenon, <1>2, <1>4, <1>5, <1>7, <1>8, ConsoleKeepsInv

LEMMA ScrollLineKeepsInv ==
  ASSUME CursorInv, ScrollLine
  PROVE  CursorInv'
<1> DEFINE Below(p) == <<p[1], p[2] + 1>>
<1>1. CursorTypeOK /\ MaxPrints \in Nat /\ HeldOK /\ DamageIsLocal /\ HeldShown
  BY Zenon, ScreenOK, HeldFacts DEF CursorInv, HeldPre, HeldShown
<1>2. /\ fb' = Scrolled(fb) /\ page' = Scrolled(page)
      /\ prints' = prints + 1 /\ prints < MaxPrints
      /\ damaged' = Held \cup {p \in Screen : Below(p) \in damaged \cup HeldArrow}
      /\ UNCHANGED <<cursor_x, cursor_y, saved_bg, cpc, place, bg, i>>
  BY Zenon DEF ScrollLine
<1>3. Blank \in Colour
  BY DEF Blank, Colour
<1>4. ASSUME NEW p \in Screen, p[2] + 1 < Height PROVE Below(p) \in Screen
  BY <1>4, Sizes DEF Screen
<1> HIDE DEF Below, Blank, Colour
<1>5. ASSUME NEW f \in [Screen -> Colour]
      PROVE  /\ Scrolled(f) \in [Screen -> Colour]
             /\ \A p \in Screen : Scrolled(f)[p] =
                  IF p[2] + 1 < Height THEN f[Below(p)] ELSE Blank
  BY Zenon, <1>3, <1>4 DEF Scrolled, Below
<1>6. fb' \in [Screen -> Colour] /\ page' \in [Screen -> Colour]
  BY Zenon, <1>1, <1>2, <1>5 DEF CursorTypeOK
<1>7. prints' \in 0 .. MaxPrints /\ damaged' \subseteq Screen
  BY <1>1, <1>2 DEF CursorTypeOK, HeldOK
<1>8. \A p \in Screen \ (damaged' \cup Held) : fb'[p] = page'[p]
  <2>1. SUFFICES ASSUME NEW p \in Screen \ (damaged' \cup Held), p[2] + 1 < Height
                 PROVE  fb[Below(p)] = page[Below(p)]
    BY Zenon, <1>1, <1>2, <1>5 DEF CursorTypeOK
  <2>2. Below(p) \in Screen \ (damaged \cup HeldArrow)
    BY Zenon, <1>2, <1>4, <2>1
  <2> QED
    BY Zenon, <1>1, <2>2, ShownBehind DEF DamageIsLocal
<1>9. Held \ damaged' = {}
  BY Zenon, <1>2
<1> QED
  BY Zenon, <1>2, <1>6, <1>7, <1>8, <1>9, ConsoleKeepsInv

-----------------------------------------------------------------------------
(* The inductive invariant.                                                *)

LEMMA InitCursorInv == CursorInit => CursorInv
<1> SUFFICES ASSUME CursorInit PROVE CursorInv
  BY Zenon
<1>1. /\ fb = [p \in Screen |-> p] /\ page = fb /\ cursor_x = Start /\ cursor_y = Start
      /\ saved_bg = <<>> /\ cpc = "boot" /\ place = <<0, 0>> /\ bg = <<>> /\ i = 0
      /\ prints = 0 /\ damaged = {}
  BY Zenon DEF CursorInit
<1>2. Screen \subseteq Colour
  BY DEF Screen, Colour
<1>3. place \in Places
  BY <1>1, Sizes DEF Places
<1>4. ~Saved /\ HeldIdx = {}
  BY Zenon, <1>1 DEF Saved, HeldIdx
<1>5. bg \in Seq(Colour) /\ Len(bg) = 0
  BY <1>1
<1>6. saved_bg \in Seq([at : Places, bg : Seq(Colour)])
  <2> DEFINE S == [at : Places, bg : Seq(Colour)]
  <2> HIDE DEF S
  <2>1. saved_bg \in Seq(S)
    BY <1>1
  <2> QED
    BY Zenon, <2>1 DEF S
<1>7. CursorTypeOK
  <2>1. fb \in [Screen -> Colour] /\ page \in [Screen -> Colour]
    BY Zenon, <1>1, <1>2
  <2>2. prints \in 0 .. MaxPrints /\ i \in 0 .. W * H /\ damaged \subseteq Screen
    BY <1>1, Sizes, ScreenOK
  <2>3. cursor_x \in IntMin .. IntMax /\ cursor_y \in IntMin .. IntMax
    BY Zenon, <1>1, ScreenOK
  <2> QED
    BY <1>1, <1>3, <1>4, <1>5, <1>6, <2>1, <2>2, <2>3 DEF CursorTypeOK
<1>8. DamageIsLocal
  <2>1. HeldOK /\ Held = {}
    BY Zenon, <1>1, <1>4, <1>7, HeldFacts DEF HeldPre, Held
  <2> QED
    BY Zenon, <1>1, <2>1 DEF HeldOK, DamageIsLocal
<1> QED
  BY Zenon, <1>1, <1>4, <1>7, <1>8 DEF CursorInv

LEMMA NextCursorInv == CursorInv /\ [CursorNext]_cvars => CursorInv'
<1> SUFFICES ASSUME CursorInv, [CursorNext]_cvars PROVE CursorInv'
  BY Zenon
<1>1. /\ IntMin \in Int /\ IntMax \in Int /\ IntMin <= IntMax /\ MaxDelta \in Nat
      /\ Deltas \subseteq Int /\ CursorTypeOK
  <2>1. IntMin \in Int /\ IntMax \in Int /\ IntMin <= 0 /\ Width \in Nat /\ Width <= IntMax
    BY Zenon, ScreenOK
  <2> QED
    BY <2>1, ScreenOK DEF CursorInv
<1>2. \A v \in Int : Bounded(v, IntMin, IntMax) \in IntMin .. IntMax
  BY <1>1 DEF Bounded
<1>3. CASE CentreCursor
  <2>1. Width \div 2 \in IntMin .. IntMax /\ Height \div 2 \in IntMin .. IntMax
    <3>1. \A n \in Nat : n \div 2 \in Nat /\ n \div 2 <= n
      OBVIOUS
    <3>2. /\ Width \in Nat /\ Height \in Nat /\ Width <= IntMax /\ Height <= IntMax
          /\ IntMin <= 0
      BY Zenon, ScreenOK
    <3> QED
      BY <1>1, <3>1, <3>2
  <2> QED
    BY Zenon, <1>3, <2>1, StartRedrawKeepsInv DEF CentreCursor
<1>4. ASSUME NEW dx \in Deltas, NEW dy \in Deltas, MovePacket(dx, dy) PROVE CursorInv'
  <2> DEFINE x == cursor_x + Bounded(dx, -MaxDelta, MaxDelta)
             y == cursor_y - Bounded(dy, -MaxDelta, MaxDelta)
  <2>1. x \in Int /\ y \in Int
    <3>1. cursor_x \in Int /\ cursor_y \in Int
      BY <1>1 DEF CursorTypeOK
    <3>2. \A v \in Deltas : Bounded(v, -MaxDelta, MaxDelta) \in Int
      BY <1>1 DEF Bounded
    <3> QED
      BY <1>4, <3>1, <3>2
  <2>2. cpc = "idle" /\ StartRedraw(Bounded(x, IntMin, IntMax), Bounded(y, IntMin, IntMax))
    BY Zenon, <1>4 DEF MovePacket
  <2> HIDE DEF x, y
  <2> QED
    BY Zenon, <1>2, <2>1, <2>2, StartRedrawKeepsInv
<1>5. CASE Redraw
  <2>1. Shape /\ HeldShown
    BY Zenon DEF CursorInv, Shape, HeldShown
  <2>2. Shape' /\ HeldShown' /\ \A p \in Screen : Behind(p)' = Behind(p)
    BY Zenon, <1>5, <2>1, RedrawFacts
  <2>3. UNCHANGED <<page, damaged>>
    BY Zenon, <1>5 DEF Redraw, RestorePixel, CapturePixel, SaveBackground, DrawPixel
  <2>4. DamageIsLocal'
    BY Zenon, <2>2, <2>3 DEF CursorInv, DamageIsLocal
  <2> QED
    BY Zenon, <2>2, <2>4 DEF CursorInv, Shape, HeldShown
<1>6. CASE ConsoleDraws
  BY Zenon, <1>6, PrintCharKeepsInv, ScrollLineKeepsInv DEF ConsoleDraws
<1>7. CASE UNCHANGED cvars
  <2>1. UNCHANGED <<cursor_x, cursor_y, saved_bg, cpc, place, bg, i>>
        /\ UNCHANGED <<fb, page, prints, damaged>>
    BY Zenon, <1>7 DEF cvars
  <2>2. HeldOK
    BY Zenon, HeldFacts DEF CursorInv, HeldPre
  <2> QED
    BY Zenon, <1>1, <2>1, <2>2, ConsoleKeepsInv DEF CursorTypeOK, CursorInv, DamageIsLocal, HeldOK
<1> QED
  BY Zenon, <1>3, <1>4, <1>5, <1>6, <1>7 DEF CursorNext

THEOREM CursorInductive == CursorSpec => []CursorInv
  BY InitCursorInv, NextCursorInv, PTL DEF CursorSpec

-----------------------------------------------------------------------------
(* What the run checks, for every instance.                                *)

(* The boxes that redraw_cursor reads and writes through draw_pixel_at and *)
(* read_volatile, without a bounds check, are on the screen.               *)
THEOREM BoxOnScreen == CursorSpec => []CursorTypeOK
<1>1. CursorInv => CursorTypeOK
  BY Zenon DEF CursorInv
<1> QED
  BY <1>1, CursorInductive, PTL

(* A redraw that moves the arrow takes the old one away without a trace    *)
(* and keeps what the new one covers, whatever the boxes share.            *)
THEOREM RedrawIsTransparent == CursorSpec => MovesAreTransparent
<1>1. CursorInv /\ [CursorNext]_cvars =>
        [Redraw => \A p \in Screen : Behind(p)' = Behind(p)]_cvars
  <2>1. ASSUME CursorInv, Redraw PROVE \A p \in Screen : Behind(p)' = Behind(p)
    BY Zenon, <2>1, RedrawFacts DEF CursorInv, Shape, HeldShown
  <2> QED
    BY Zenon, <2>1
<1> QED
  BY <1>1, CursorInductive, PTL DEF CursorSpec, MovesAreTransparent

(* What the cursor costs the console's picture is limited to the arrow of  *)
(* an in-place redraw, characters inside the box and lines scrolled by it. *)
THEOREM CursorDamageLocal == CursorSpec => []DamageIsLocal
<1>1. CursorInv => DamageIsLocal
  BY Zenon DEF CursorInv
<1> QED
  BY <1>1, CursorInductive, PTL

-----------------------------------------------------------------------------
(* The arrow.                                                              *)

LEMMA InitArrowInv == CursorInit => ArrowInv
<1> SUFFICES ASSUME CursorInit PROVE ArrowInv
  BY Zenon
<1>1. cpc = "boot" /\ page = [p \in Screen |-> p]
  BY Zenon DEF CursorInit
<1>2. ASSUME NEW p \in Screen PROVE page[p] # White
  <2>1. page[p] = p
    BY <1>1, Zenon
  <2>2. p[1] \in Nat
    BY DEF Screen
  <2>3. White[1] = -1
    BY Zenon DEF White
  <2> QED
    BY <2>1, <2>2, <2>3
<1> QED
  BY Zenon, <1>1, <1>2 DEF ArrowInv

(* Every pixel drawn stays, and at the end the whole arrow is there.       *)
LEMMA DrawArrow ==
  ASSUME CursorInv, ArrowInv, DrawPixel
  PROVE  ArrowInv'
<1>1. /\ cpc = "draw" /\ Saved /\ saved_bg[1].at = place /\ i \in Nat /\ i < W * H
      /\ W * H \in Nat /\ fb \in [Screen -> Colour] /\ place \in Places
  BY Sizes DEF CursorInv, DrawPixel, CursorTypeOK
<1>2. /\ \/ i + 1 < W * H /\ i' = i + 1 /\ cpc' = "draw"
         \/ ~(i + 1 < W * H) /\ i' = 0 /\ cpc' = "idle"
      /\ UNCHANGED <<cursor_x, cursor_y, saved_bg, place, page, prints>>
  BY Zenon, <1>1 DEF DrawPixel
<1>3. ASSUME NEW p \in Screen
      PROVE  fb'[p] = IF i \in Arrow /\ p = Pixel(place, i) THEN White ELSE fb[p]
  BY Zenon, <1>1 DEF DrawPixel
<1>4. \A k \in Arrow : k \in Nat /\ k < W * H /\ Pixel(place, k) \in Screen
  <2>1. \A k \in Box : Pixel(place, k) \in Screen
    BY Zenon, <1>1, PixelFacts
  <2> QED
    BY <1>1, <2>1, Sizes
<1>5. ASSUME prints = 0, NEW k \in Arrow, k <= i PROVE fb'[Pixel(place, k)] = White
  <2>1. CASE k = i
    BY Zenon, <1>3, <1>4, <1>5, <2>1
  <2>2. CASE k # i
    <3>1. k < i
      BY <1>1, <1>4, <1>5, <2>2
    <3>2. fb[Pixel(place, k)] = White
      BY Zenon, <1>1, <1>5, <3>1 DEF ArrowInv
    <3> QED
      BY <1>3, <1>4, <1>5, <3>2, Zenon
  <2> QED
    BY Zenon, <2>1, <2>2
<1>6. cpc' = "draw" => \A k \in Arrow : k < i' => k <= i
  BY <1>1, <1>2, <1>4
<1>7. cpc' = "idle" => \A k \in Arrow : k <= i
  BY <1>1, <1>2, <1>4
<1>8. place' = ArrowPlace' /\ Saved' /\ saved_bg'[1].at = place'
  BY Zenon, <1>1, <1>2 DEF ArrowInv, ArrowPlace, Saved
<1>9. prints' = 0 => \A p \in Screen : page'[p] # White
  BY Zenon, <1>2 DEF ArrowInv
<1>10. prints' = 0 /\ cpc' = "draw" =>
         \A k \in Arrow : k < i' => fb'[Pixel(place', k)] = White
  BY Zenon, <1>2, <1>5, <1>6
<1>11. prints' = 0 /\ cpc' = "idle" => \A k \in Arrow : fb'[Pixel(place', k)] = White
  BY Zenon, <1>2, <1>5, <1>7
<1> QED
  BY <1>8, <1>9, <1>10, <1>11, Zenon DEF ArrowInv

LEMMA NextArrowInv == CursorInv /\ ArrowInv /\ [CursorNext]_cvars => ArrowInv'
<1> SUFFICES ASSUME CursorInv, ArrowInv, [CursorNext]_cvars PROVE ArrowInv'
  BY Zenon
<1>1. ASSUME NEW x, NEW y, StartRedraw(x, y) PROVE ArrowInv'
  <2>1. /\ cpc' \in {"restore", "capture"} /\ UNCHANGED <<page, prints>>
        /\ place' = <<Clamp(x, Width, W), Clamp(y, Height, H)>>
        /\ cursor_x' = x /\ cursor_y' = y
    BY Zenon, <1>1 DEF StartRedraw
  <2> QED
    BY Zenon, <2>1 DEF ArrowInv, ArrowPlace
<1>2. CASE RestorePixel \/ CapturePixel
  <2>1. /\ cpc \in {"restore", "capture"} /\ cpc' \in {"restore", "capture"}
        /\ UNCHANGED <<cursor_x, cursor_y, place, page, prints>>
    BY Zenon, <1>2 DEF RestorePixel, CapturePixel
  <2> QED
    BY Zenon, <2>1 DEF ArrowInv, ArrowPlace
<1>3. CASE SaveBackground
  <2>1. /\ cpc = "capture" /\ cpc' = "draw" /\ i' = 0
        /\ UNCHANGED <<cursor_x, cursor_y, place, page, prints>>
    BY Zenon, <1>3 DEF SaveBackground
  <2>2. \A k \in Arrow : ~(k < i')
    BY <2>1, Sizes
  <2> QED
    BY Zenon, <2>1, <2>2 DEF ArrowInv, ArrowPlace
<1>4. CASE ConsoleDraws
  <2>1. /\ prints' = prints + 1 /\ UNCHANGED <<cursor_x, cursor_y, saved_bg, cpc, place>>
    BY Zenon, <1>4 DEF ConsoleDraws, PrintChar, ScrollLine
  <2>2. prints' # 0
    BY <2>1 DEF CursorInv, CursorTypeOK
  <2> QED
    BY Zenon, <2>1, <2>2 DEF ArrowInv, ArrowPlace, Saved
<1>5. CASE UNCHANGED cvars
  BY <1>5, Zenon DEF cvars, ArrowInv, ArrowPlace, Saved
<1> QED
  BY Zenon, <1>1, <1>2, <1>3, <1>4, <1>5, DrawArrow
     DEF CursorNext, Redraw, CentreCursor, MovePacket

(* Between two packets the arrow shows whole at the clamped position, and  *)
(* nothing else on the screen is of its colour but where a redraw in place *)
(* has taken the arrow for the background.                                 *)
THEOREM ArrowIsShown == CursorSpec => []ArrowShown
<1>1. CursorInv /\ ArrowInv => ArrowShown
  <2> SUFFICES ASSUME CursorInv, ArrowInv, cpc = "idle", prints = 0
               PROVE  LET lit == {Pixel(ArrowPlace, k) : k \in Arrow}
                      IN  /\ \A p \in lit : fb[p] = White
                          /\ \A p \in Screen \ (damaged \cup lit) : fb[p] # White
    BY Zenon DEF ArrowShown
  <2>1. /\ place = ArrowPlace /\ Saved /\ saved_bg[1].at = place
        /\ \A k \in Arrow : fb[Pixel(place, k)] = White
        /\ \A p \in Screen : page[p] # White
    BY Zenon DEF ArrowInv
  <2>2. HeldAt = place /\ HeldIdx = Box
    BY Zenon, <2>1 DEF HeldAt, HeldIdx
  <2>3. Box \cap Arrow = Arrow
    BY Zenon, Sizes
  <2>4. HeldArrow = {Pixel(ArrowPlace, k) : k \in Arrow}
    BY <2>1, <2>2, <2>3, Zenon DEF HeldArrow
  <2>5. HeldOK /\ HeldShown /\ DamageIsLocal
    BY Zenon, HeldFacts DEF CursorInv, HeldPre, HeldShown
  <2>6. ASSUME NEW p \in Screen \ (damaged \cup HeldArrow) PROVE fb[p] # White
    <3>1. fb[p] = Behind(p) /\ Behind(p) = page[p]
      BY Zenon, <2>5, ShownBehind DEF DamageIsLocal
    <3> QED
      BY Zenon, <2>1, <3>1
  <2>7. \A p \in HeldArrow : fb[p] = White
    BY <2>1, <2>4, Zenon
  <2> QED
    BY <2>4, <2>6, <2>7, Zenon
<1> QED
  BY <1>1, InitArrowInv, NextArrowInv, CursorInductive, PTL DEF CursorSpec

=============================================================================
