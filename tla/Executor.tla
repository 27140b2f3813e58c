------------------------------ MODULE Executor ------------------------------
(***************************************************************************)
(* The cooperative executor of src/arch/task.rs together with the two      *)
(* interrupt-fed input streams it runs (drivers/ps2kbd.rs and              *)
(* drivers/ps2mouse.rs).                                                   *)
(*                                                                         *)
(* There is one CPU.  Kernel code takes one step at a time (the actions    *)
(* below named after its functions, `pc` says which one is next) and an    *)
(* interrupt handler may run between any two of these steps while the      *)
(* interrupt flag `intr` is set.  Interrupt gates clear the flag, so a     *)
(* handler runs to completion and is one action.                           *)
(*                                                                         *)
(* main.rs spawns one task per stream, print_keypresses on the scancode    *)
(* queue and mouse_event_loop on the mouse queue, so a stream and the task *)
(* that reads it share a name: queue[t] and waker[t] are the queue and the *)
(* AtomicWaker of the stream that task t awaits.                           *)
(***************************************************************************)
EXTENDS Naturals, Sequences

CONSTANTS
  Tasks,      \* the tasks (and their streams)
  Finite,     \* the tasks whose future may complete, as one built on getline() does
  Eager,      \* the streams whose queue a driver's start() creates (the keyboard's)
  Items,      \* what a stream carries: scancodes, mouse packets
  QueueCap,   \* capacity of task_queue (100 in the code)
  StreamCap,  \* capacity of a stream's queue (100 and 256 in the code)
  MaxIrqs,    \* bound on the input interrupts of a behaviour
  NoTask      \* no task: Option::None where a task id or a waker may be

ASSUME ConstantsOK ==
  /\ Finite \subseteq Tasks
  /\ Eager \subseteq Tasks
  /\ QueueCap \in Nat \ {0}
  /\ StreamCap \in Nat \ {0}
  /\ MaxIrqs \in Nat
  /\ NoTask \notin Tasks

VARIABLES
  intr,         \* RFLAGS.IF: interrupts are enabled
  pc,           \* what the kernel thread does next
  cur,          \* the task being polled
  unspawned,    \* tasks main has not spawned yet
  task_queue,   \* Executor::task_queue
  tasks,        \* the keys of Executor::tasks
  waker_cache,  \* the keys of Executor::waker_cache
  queue,        \* the contents of each stream's ArrayQueue
  inited,       \* the streams whose OnceCell holds a queue
  wstate,       \* the state word of each stream's AtomicWaker
  waker,        \* the waker stored in it
  irqs          \* input interrupts taken so far

vars == <<intr, pc, cur, unspawned, task_queue, tasks, waker_cache,
          queue, inited, wstate, waker, irqs>>

execVars == <<unspawned, tasks, waker_cache>>
streamVars == <<queue, inited>>
wakerVars == <<wstate, waker>>

\* Where a poll of the current task can be.
PollPc == {"open", "pop1", "register", "store", "unlock", "rewake",
           "pop2", "take", "untake", "done"}

Pc == PollPc \cup {"spawn", "ready", "cli", "check", "sleep", "wakeup",
                   "hlt", "panic"}

(* AtomicWaker's state word: a register() or a wake()/take() in progress. *)
WState == {"WAITING", "REGISTERING", "WAKING", "REGISTERING|WAKING"}

Init ==
  /\ intr = TRUE
  /\ pc = "spawn"
  /\ cur = NoTask
  /\ unspawned = Tasks
  /\ task_queue = <<>>
  /\ tasks = {}
  /\ waker_cache = {}
  /\ queue = [t \in Tasks |-> <<>>]
  /\ inited = Eager
  /\ wstate = [t \in Tasks |-> "WAITING"]
  /\ waker = [t \in Tasks |-> NoTask]
  /\ irqs = 0

-----------------------------------------------------------------------------
(* Executor: spawn, run_ready_tasks, sleep_if_idle.                        *)

Spawn(t) ==
  /\ pc = "spawn"
  /\ t \in unspawned
  /\ unspawned' = unspawned \ {t}
  /\ tasks' = tasks \cup {t}
  /\ IF Len(task_queue) < QueueCap
     THEN task_queue' = Append(task_queue, t) /\ pc' = pc
     ELSE pc' = "panic" /\ UNCHANGED task_queue     \* expect("queue full")
  /\ UNCHANGED <<intr, cur, waker_cache, streamVars, wakerVars, irqs>>

Run ==
  /\ pc = "spawn"
  /\ unspawned = {}
  /\ pc' = "ready"
  /\ UNCHANGED <<intr, cur, execVars, task_queue, streamVars, wakerVars, irqs>>

(* Mutant of PopTask: polls without looking the task up.                  *)
PopTask_NoLookup ==
  /\ pc = "ready"
  /\ task_queue # <<>>
  /\ task_queue' = Tail(task_queue)
  /\ cur' = Head(task_queue)
  /\ pc' = IF cur' \in waker_cache THEN "pop1" ELSE "open"
  /\ waker_cache' = waker_cache \cup {cur'}
  /\ UNCHANGED <<intr, unspawned, tasks, streamVars, wakerVars, irqs>>

(* One turn of `while let Some(task_id) = task_queue.pop()`: the id of a    *)
(* task that is gone is skipped, any other is polled.  The first poll of a *)
(* task creates its stream, a later one resumes inside poll_next.          *)
PopTask ==
  /\ pc = "ready"
  /\ task_queue # <<>>
  /\ task_queue' = Tail(task_queue)
  /\ LET t == Head(task_queue) IN
       \/ /\ t \notin tasks
          /\ UNCHANGED <<pc, cur, waker_cache>>
       \/ /\ t \in tasks
          /\ cur' = t
          /\ pc' = IF t \in waker_cache THEN "pop1" ELSE "open"
          /\ waker_cache' = waker_cache \cup {t}
  /\ UNCHANGED <<intr, unspawned, tasks, streamVars, wakerVars, irqs>>

NoReadyTask ==
  /\ pc = "ready"
  /\ task_queue = <<>>
  /\ pc' = "cli"
  /\ UNCHANGED <<intr, cur, execVars, task_queue, streamVars, wakerVars, irqs>>

(* Mutant of DisableInterrupts: the idle check runs with interrupts on.   *)
DisableInterrupts_Missing ==
  /\ pc = "cli"
  /\ pc' = "check"
  /\ UNCHANGED <<intr, cur, execVars, task_queue, streamVars, wakerVars, irqs>>

DisableInterrupts ==
  /\ pc = "cli"
  /\ intr' = FALSE
  /\ pc' = "check"
  /\ UNCHANGED <<cur, execVars, task_queue, streamVars, wakerVars, irqs>>

(* Mutant of CheckIdle: halts without checking the queue again.           *)
CheckIdle_Always ==
  /\ pc = "check"
  /\ pc' = "sleep"
  /\ UNCHANGED <<intr, cur, execVars, task_queue, streamVars, wakerVars, irqs>>

CheckIdle ==
  /\ pc = "check"
  /\ pc' = IF task_queue = <<>> THEN "sleep" ELSE "wakeup"
  /\ UNCHANGED <<intr, cur, execVars, task_queue, streamVars, wakerVars, irqs>>

(* enable_and_hlt: `sti; hlt`, with no interrupt taken between the two.    *)
EnableAndHlt ==
  /\ pc = "sleep"
  /\ intr' = TRUE
  /\ pc' = "hlt"
  /\ UNCHANGED <<cur, execVars, task_queue, streamVars, wakerVars, irqs>>

EnableInterrupts ==
  /\ pc = "wakeup"
  /\ intr' = TRUE
  /\ pc' = "ready"
  /\ UNCHANGED <<cur, execVars, task_queue, streamVars, wakerVars, irqs>>

(* Poll::Ready(()): the task and its cached waker are removed.             *)
TaskDone ==
  /\ pc = "done"
  /\ tasks' = tasks \ {cur}
  /\ waker_cache' = waker_cache \ {cur}
  /\ cur' = NoTask
  /\ pc' = "ready"
  /\ UNCHANGED <<intr, unspawned, task_queue, streamVars, wakerVars, irqs>>

-----------------------------------------------------------------------------
(* A poll of the current task: `while let Some(x) = stream.next().await`,  *)
(* where next() is the stream's poll_next.                                 *)

(* ScancodeStream::new / MousePacketStream::new: try_init_once.            *)
OpenStream ==
  /\ pc = "open"
  /\ inited' = inited \cup {cur}
  /\ pc' = "pop1"
  /\ UNCHANGED <<intr, cur, execVars, task_queue, queue, wakerVars, irqs>>

(* What the task does with an item: go on to the next one, or complete.    *)
AfterItem(t) == IF t \in Finite THEN {"pop1", "done"} ELSE {"pop1"}

PopFirst ==
  /\ pc = "pop1"
  /\ \/ /\ queue[cur] # <<>>
        /\ queue' = [queue EXCEPT ![cur] = Tail(@)]
        /\ pc' \in AfterItem(cur)
     \/ /\ queue[cur] = <<>>
        /\ pc' = "register"
        /\ UNCHANGED queue
  /\ UNCHANGED <<intr, cur, execVars, task_queue, inited, wakerVars, irqs>>

(* AtomicWaker::register, which an interrupt may cut in three places.      *)
RegisterLock ==
  /\ pc = "register"
  /\ wstate[cur] = "WAITING"
  /\ wstate' = [wstate EXCEPT ![cur] = "REGISTERING"]
  /\ pc' = "store"
  /\ UNCHANGED <<intr, cur, execVars, task_queue, streamVars, waker, irqs>>

RegisterStore ==
  /\ pc = "store"
  /\ waker' = [waker EXCEPT ![cur] = cur]
  /\ pc' = "unlock"
  /\ UNCHANGED <<intr, cur, execVars, task_queue, streamVars, wstate, irqs>>

(* A wake() that came during the registration is made up for by register() *)
(* itself: it takes the waker back and wakes it.                           *)
RegisterUnlock ==
  /\ pc = "unlock"
  /\ \/ /\ wstate[cur] = "REGISTERING"
        /\ pc' = "pop2"
        /\ UNCHANGED waker
     \/ /\ wstate[cur] = "REGISTERING|WAKING"
        /\ waker' = [waker EXCEPT ![cur] = NoTask]
        /\ pc' = "rewake"
  /\ wstate' = [wstate EXCEPT ![cur] = "WAITING"]
  /\ UNCHANGED <<intr, cur, execVars, task_queue, streamVars, irqs>>

(* TaskWaker::wake_task called by register().                              *)
RegisterWake ==
  /\ pc = "rewake"
  /\ IF Len(task_queue) < QueueCap
     THEN task_queue' = Append(task_queue, cur) /\ pc' = "pop2"
     ELSE pc' = "panic" /\ UNCHANGED task_queue     \* expect("task_queue full")
  /\ UNCHANGED <<intr, cur, execVars, streamVars, wakerVars, irqs>>

(* Mutants of PopSecond: no second look at the queue after registering,   *)
(* and no WAKER.take() after a second pop that succeeds.                   *)
PopSecond_Missing ==
  /\ pc = "pop2"
  /\ pc' = "ready"
  /\ cur' = NoTask
  /\ UNCHANGED <<intr, execVars, task_queue, streamVars, wakerVars, irqs>>

PopSecond_NoTake ==
  /\ pc = "pop2"
  /\ \/ /\ queue[cur] # <<>>
        /\ queue' = [queue EXCEPT ![cur] = Tail(@)]
        /\ pc' \in AfterItem(cur)
        /\ UNCHANGED cur
     \/ /\ queue[cur] = <<>>
        /\ pc' = "ready"
        /\ cur' = NoTask
        /\ UNCHANGED queue
  /\ UNCHANGED <<intr, execVars, task_queue, inited, wakerVars, irqs>>

(* The second pop.  None is Poll::Pending, which ends the poll.            *)
PopSecond ==
  /\ pc = "pop2"
  /\ \/ /\ queue[cur] # <<>>
        /\ queue' = [queue EXCEPT ![cur] = Tail(@)]
        /\ pc' = "take"
        /\ UNCHANGED cur
     \/ /\ queue[cur] = <<>>
        /\ pc' = "ready"
        /\ cur' = NoTask
        /\ UNCHANGED queue
  /\ UNCHANGED <<intr, execVars, task_queue, inited, wakerVars, irqs>>

(* AtomicWaker::take: an interrupt that comes while it holds the lock      *)
(* finds WAKING set and wakes nobody.                                      *)
TakeLock ==
  /\ pc = "take"
  /\ wstate[cur] = "WAITING"
  /\ wstate' = [wstate EXCEPT ![cur] = "WAKING"]
  /\ pc' = "untake"
  /\ UNCHANGED <<intr, cur, execVars, task_queue, streamVars, waker, irqs>>

TakeUnlock ==
  /\ pc = "untake"
  /\ waker' = [waker EXCEPT ![cur] = NoTask]
  /\ wstate' = [wstate EXCEPT ![cur] = "WAITING"]
  /\ pc' \in AfterItem(cur)
  /\ UNCHANGED <<intr, cur, execVars, task_queue, streamVars, irqs>>

-----------------------------------------------------------------------------
(* Interrupts.                                                             *)

(* HLT ends when an interrupt returns.                                     *)
Resume == IF pc = "hlt" THEN "ready" ELSE pc

(* AtomicWaker::wake from a handler, TaskWaker::wake_task included.  A     *)
(* panic in a handler stops the CPU with interrupts disabled.              *)
Wake(t) ==
  CASE wstate[t] = "WAITING" /\ waker[t] # NoTask ->
         /\ waker' = [waker EXCEPT ![t] = NoTask]
         /\ UNCHANGED wstate
         /\ IF Len(task_queue) < QueueCap
            THEN /\ task_queue' = Append(task_queue, waker[t])
                 /\ pc' = Resume
                 /\ UNCHANGED intr
            ELSE pc' = "panic" /\ intr' = FALSE /\ UNCHANGED task_queue
    [] wstate[t] = "WAITING" /\ waker[t] = NoTask ->
         pc' = Resume /\ UNCHANGED <<intr, task_queue, wakerVars>>
    [] wstate[t] = "REGISTERING" ->
         /\ wstate' = [wstate EXCEPT ![t] = "REGISTERING|WAKING"]
         /\ pc' = Resume
         /\ UNCHANGED <<intr, task_queue, waker>>
    [] OTHER ->
         pc' = Resume /\ UNCHANGED <<intr, task_queue, wakerVars>>

(* irq_handler of the keyboard, and of the mouse when a byte completes a   *)
(* packet: with no queue the item is dropped, with a full one too, but     *)
(* then the waker is still woken.                                          *)
InputIrq(t, x) ==
  /\ intr
  /\ irqs < MaxIrqs
  /\ irqs' = irqs + 1
  /\ IF t \in inited
     THEN /\ queue' = IF Len(queue[t]) < StreamCap
                      THEN [queue EXCEPT ![t] = Append(@, x)]
                      ELSE queue
          /\ Wake(t)
     ELSE pc' = Resume /\ UNCHANGED <<queue, intr, task_queue, wakerVars>>
  /\ UNCHANGED <<cur, execVars, inited>>

(* Any other interrupt: tsc_timer_handler, or a byte that leaves a mouse   *)
(* packet incomplete.                                                      *)
OtherIrq ==
  /\ intr
  /\ pc' = Resume
  /\ UNCHANGED <<intr, cur, execVars, task_queue, streamVars, wakerVars, irqs>>

-----------------------------------------------------------------------------
(* After a panic the kernel sits in hlt() for good.                        *)
HltLoop == pc = "panic" /\ UNCHANGED vars

(* The steps of kernel code.                                               *)
Kernel ==
  \/ \E t \in Tasks : Spawn(t)
  \/ Run \/ PopTask \/ NoReadyTask
  \/ DisableInterrupts \/ CheckIdle \/ EnableAndHlt \/ EnableInterrupts
  \/ TaskDone
  \/ OpenStream \/ PopFirst \/ PopSecond
  \/ RegisterLock \/ RegisterStore \/ RegisterUnlock \/ RegisterWake
  \/ TakeLock \/ TakeUnlock

Next ==
  \/ Kernel
  \/ \E t \in Tasks, x \in Items : InputIrq(t, x)
  \/ OtherIrq
  \/ HltLoop

Spec == Init /\ [][Next]_vars

(* The CPU goes on executing kernel code: handlers are finite, so they     *)
(* delay it but do not stop it.  No interrupt is assumed to ever come.     *)
FairSpec == Spec /\ WF_vars(Kernel)

-----------------------------------------------------------------------------
(* Properties.                                                             *)

(* Type invariant: every variable has its type, the ArrayQueues respect    *)
(* their capacity, and a task is being polled exactly while pc is inside   *)
(* a poll (after a panic, cur is whatever task it was).                    *)
TypeOK ==
  /\ intr \in BOOLEAN
  /\ pc \in Pc
  /\ cur \in Tasks \cup {NoTask}
  /\ unspawned \subseteq Tasks
  /\ task_queue \in Seq(Tasks) /\ Len(task_queue) <= QueueCap
  /\ tasks \subseteq Tasks
  /\ waker_cache \subseteq Tasks
  /\ queue \in [Tasks -> Seq(Items)]
  /\ \A t \in Tasks : Len(queue[t]) <= StreamCap
  /\ inited \subseteq Tasks
  /\ wstate \in [Tasks -> WState]
  /\ waker \in [Tasks -> Tasks \cup {NoTask}]
  /\ irqs \in Nat
  /\ pc \in PollPc => cur \in tasks
  /\ pc \notin PollPc \cup {"panic"} => cur = NoTask

Queued(t) == \E i \in 1..Len(task_queue) : task_queue[i] = t

Polled(t) == pc \in PollPc /\ cur = t

(* The CPU never halts with work to do: when it sits in HLT no task is     *)
(* queued and no live task's stream holds an item, although the interrupt  *)
(* that brought the item may have come at any point of a poll or of        *)
(* sleep_if_idle.                                                          *)
NoLostWakeup ==
  pc = "hlt" => /\ task_queue = <<>>
                /\ \A t \in tasks : queue[t] = <<>>

(* A stream's AtomicWaker never keeps the waker of a task that completed:  *)
(* poll_next takes it back when the second pop succeeds.  Otherwise the    *)
(* next interrupt would queue a dead id, and drop the last reference to    *)
(* the waker (a heap deallocation) inside a handler.                       *)
NoStaleWaker ==
  \A t \in Tasks : waker[t] # NoTask => waker[t] \in tasks

(* A live task that is not being polled is going to be: it is queued, or   *)
(* its stream is empty and holds its waker.                                *)
Attended ==
  \A t \in tasks :
    \/ Polled(t) \/ pc = "panic"
    \/ Queued(t)
    \/ wstate[t] = "WAITING" /\ waker[t] = t /\ queue[t] = <<>>

(* The inductive invariant behind the properties above.                    *)

(* Interrupts are off from cli to the halt, with the queue empty once it   *)
(* has been checked.                                                       *)
IdleInv ==
  /\ pc \in {"check", "sleep", "wakeup"} => ~intr
  /\ pc \in {"sleep", "hlt"} => task_queue = <<>>

(* A task past its first poll has created its stream.                      *)
OpenInv ==
  /\ \A t \in waker_cache : t \in inited \/ Polled(t) \/ pc = "panic"
  /\ pc \in PollPc \ {"open"} => cur \in inited

(* A stream stores its own live task's waker or none.  A state word other  *)
(* than WAITING belongs to the poll in progress; from the end of its       *)
(* registration to its second pop a task is registered or queued; a waker  *)
(* that is registered otherwise has an empty stream; and a task that       *)
(* completes has left no waker behind.                                     *)
TaskInv(t) ==
  /\ waker[t] \in {t, NoTask}
  /\ waker[t] = t => t \in tasks
  /\ pc # "panic" =>
       /\ wstate[t] \in {"REGISTERING", "REGISTERING|WAKING"}
            <=> cur = t /\ pc \in {"store", "unlock"}
       /\ wstate[t] = "WAKING" <=> cur = t /\ pc = "untake"
       /\ cur = t /\ pc = "unlock" => waker[t] = t
       /\ cur = t /\ pc \in {"rewake", "done"} => waker[t] = NoTask
       /\ cur = t /\ pc = "pop2" => waker[t] = t \/ Queued(t)
       /\ t \in tasks /\ ~Polled(t) => waker[t] = t \/ Queued(t)
       /\ waker[t] = t /\ wstate[t] = "WAITING"
            /\ ~(cur = t /\ pc \in {"pop2", "take"}) => queue[t] = <<>>

IInv == TypeOK /\ IdleInv /\ OpenInv /\ \A t \in Tasks : TaskInv(t)

(* poll_next and irq_handler together implement the channel: in order,     *)
(* nothing lost after arrival, nothing twice, and every item that waits    *)
(* for a live task is delivered unless the kernel panics.                  *)
Readers == {t \in tasks \cap inited : pc # "panic"}

Channel == INSTANCE InputChannel WITH
             Streams <- Tasks, chan <- queue, open <- Readers

ChannelSpec == Channel!Spec

(* The two expect() calls on task_queue: the queue is never full when an   *)
(* id is pushed.                                                           *)
NoQueueFullPanic == pc # "panic"

=============================================================================
