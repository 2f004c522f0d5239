-------------------------------- MODULE Tasks --------------------------------
(***************************************************************************)
(* Tasks of src/src/kernel/main.c: how they are made, run, put to sleep,   *)
(* woken, killed and reaped.  There is one processor.  A system call, a    *)
(* fault and an interrupt handler each run to the end with interrupts off, *)
(* so each is one step, except where the kernel halts and waits for an     *)
(* interrupt inside a system call (mode).                                  *)
(*                                                                         *)
(* task[t] is tasks[t].  A process identifier is the slot of its task:     *)
(* identifiers are never used twice, so one that outlives its task matches *)
(* nothing any more (NoTask, Gone).  An address space is a name; there is  *)
(* one futex word per space, which is also the word that a thread's exit   *)
(* clears.  Which of the runnable tasks task_pick_next takes (nice value,  *)
(* then number of switches) makes no difference here.                      *)
(***************************************************************************)
EXTENDS Integers, FiniteSets

CONSTANTS
    Task,       \* slots of tasks[]
    Root,       \* slot 0, the first program
    Space,      \* names for address spaces
    NoTask,     \* no task
    AnyTask,    \* wait4 for any child
    Gone,       \* a process identifier whose task is gone
    Sig,        \* the signals in play, of "int", "term" and "chld"
    Disposition,\* the dispositions in play, of "dfl", "ign", "handler" and
                \* "bare", a handler that cannot be entered (no restorer, or no
                \* room on the stack)
    Waits,      \* the kinds of sleep in play: "event", "timed", "sleep",
                \* "pipe", "futex"
    MaxForced   \* bound: how often a task is resumed that nothing has woken

ASSUME TasksAssumption ==
    /\ Root \in Task
    /\ NoTask \notin Task /\ AnyTask \notin Task /\ Gone \notin Task
    /\ Sig \subseteq {"int", "term", "chld"}
    /\ "dfl" \in Disposition /\ Disposition \subseteq {"dfl", "ign", "handler", "bare"}
    /\ Waits \subseteq {"event", "timed", "sleep", "pipe", "futex"}
    /\ MaxForced \in Nat

VARIABLES task,      \* tasks[]
          current,   \* current_task
          mode,      \* "user"; "idle": in the loop of task_block_io_until;
                     \* "halt": waiting for an interrupt in another call
          reported,  \* how often wait4 has reported the end of a task (history)
          forced     \* how often a task was resumed that nothing had woken
                     \* (history)

taskVars == <<task, current, mode, reported, forced>>

Io == {"none", "event", "timed", "sleep"}
Vacant == [st |-> "unused", parent |-> NoTask, space |-> CHOOSE s \in Space : TRUE,
         wait4 |-> NoTask, status |-> FALSE, reap |-> NoTask,
         pipe |-> FALSE, io |-> "none", futex |-> "none", tid |-> FALSE,
         pend |-> {}, mask |-> {}, disp |-> [s \in Sig |-> "dfl"], handling |-> "no",
         ended |-> FALSE, stranded |-> FALSE]
TaskRecord ==
    [st : {"unused", "runnable", "running", "blocked", "zombie"},
     parent : Task \cup {NoTask},                  \* ppid
     space : Space,                                \* ctx.cr3
     wait4 : Task \cup {NoTask, AnyTask, Gone},    \* wait4_active and wait4_pid
     status : BOOLEAN,                             \* wait4_status_ptr
     reap : Task \cup {NoTask},                    \* wait4_reap_pid
     pipe : BOOLEAN,                               \* pipe_wait_fd
     io : Io,                                      \* io_wait_kind and its deadline
     futex : {"none", "wait", "timed"},            \* futex_addr and its deadline
     tid : BOOLEAN,                                \* tid_address
     pend : SUBSET Sig, mask : SUBSET Sig, disp : [Sig -> Disposition],
     handling : {"no", "own", "alien"},            \* sig_active, and whose frame was saved
     ended : BOOLEAN,      \* it went through sys_exit or the kill of the timer (history)
     stranded : BOOLEAN]   \* a pipe write could not fill its buffer (history)

Used(T) == {t \in Task : T[t].st # "unused"}
Runnable(T) == {t \in Task : T[t].st = "runnable"}
Blocked(T) == {t \in Task : T[t].st = "blocked"}
With(T, S, Change(_)) == [t \in Task |-> IF t \in S THEN Change(T[t]) ELSE T[t]]
Awake(r) == [r EXCEPT !.st = "runnable"]

(***************************************************************************)
(* Signals.  deliver_pending_signal runs at the end of a system call, for  *)
(* the task that is current by then, with the frame of the task that made  *)
(* the call.  A task killed there becomes a zombie and goes on until the   *)
(* next switch.                                                            *)
(***************************************************************************)
Number == [int |-> 2, term |-> 15, chld |-> 17]
Deliverable(r) == r.pend \ r.mask
sig_next_deliverable(r) == CHOOSE s \in Deliverable(r) : \A u \in Deliverable(r) : Number[s] <= Number[u]
Ignored(r, s) == r.disp[s] = "ign" \/ (r.disp[s] = "dfl" /\ s = "chld")
deliver_pending_signal(T, c, caller) ==
    LET r == T[c]
        s == sig_next_deliverable(r)
        clear == r.pend \ {s}
    IN  IF r.handling # "no" \/ Deliverable(r) = {} \/ r.disp[s] = "bare" THEN T
        ELSE [T EXCEPT ![c] =
                 IF Ignored(r, s) THEN [r EXCEPT !.pend = clear]
                 ELSE IF r.disp[s] = "dfl"
                 THEN [r EXCEPT !.pend = IF s = "int" THEN @ ELSE clear, !.st = "zombie"]
                 ELSE [r EXCEPT !.pend = clear,
                                !.handling = IF caller = c THEN "own" ELSE "alien"]]

\* A mutant: the sleep in wait4 is interrupted but not called off.
StaysInWait4(r) == IF r.st = "blocked" THEN Awake([r EXCEPT !.io = "none", !.pipe = FALSE, !.futex = "none"]) ELSE r
\* tty_queue_signal: a signal from a terminal, which also interrupts a sleep.
\* The reasons to sleep are looked at in this order and one is cleared.
Interrupted(r) ==
    IF r.st # "blocked" THEN r
    ELSE IF r.io # "none" THEN Awake([r EXCEPT !.io = "none"])
    ELSE IF r.wait4 # NoTask THEN Awake([r EXCEPT !.wait4 = NoTask, !.status = FALSE])
    ELSE IF r.pipe THEN Awake([r EXCEPT !.pipe = FALSE])
    ELSE IF r.futex # "none" THEN Awake([r EXCEPT !.futex = "none"])
    ELSE r
tty_queue_signal(r, s) ==
    IF Ignored(r, s) THEN [r EXCEPT !.pend = @ \ {s}]
    ELSE LET q == [r EXCEPT !.pend = @ \cup {s}]
         IN  IF s \in r.mask THEN q ELSE Interrupted(q)

(***************************************************************************)
(* Reaping.  The slot is free again; nothing refers to the task any more.  *)
(***************************************************************************)
Freed(T, z) ==
    [t \in Task |-> IF t = z THEN Vacant
                    ELSE [T[t] EXCEPT !.parent = IF @ = z THEN NoTask ELSE @,
                                      !.wait4 = IF @ = z THEN Gone ELSE @]]
\* The start of syscall_dispatch: the child whose end was reported to this
\* task while it slept is reaped now.
ReapsNow(T, c) == T[c].reap # NoTask /\ T[T[c].reap].st = "zombie" /\ T[T[c].reap].parent = c
\* A mutant: the note of the reported child is dropped and nothing is reaped.
ForgetsToReap(T, c) == [T EXCEPT ![c].reap = NoTask]
Entered(T, c) ==
    LET R == IF ReapsNow(T, c) THEN Freed(T, T[c].reap) ELSE T
    IN  [R EXCEPT ![c].reap = NoTask]

(***************************************************************************)
(* System calls.  The current task makes them, even when a signal has just *)
(* made it a zombie; what a call does to its state comes between Entered   *)
(* and deliver_pending_signal.                                             *)
(***************************************************************************)
Now == Entered(task, current)
Calls == mode = "user"
\* The caller goes on, or task n does.
Returns(T) == /\ task' = deliver_pending_signal(T, current, current)
              /\ UNCHANGED <<current, mode>>
Run(T, n) == [T EXCEPT ![n].st = "running"]
SwitchesTo(T, n) == /\ task' = deliver_pending_signal(Run(T, n), n, current)
                    /\ current' = n
                    /\ UNCHANGED mode

\* Any call that has no effect on tasks.
Syscall == Calls /\ Returns(Now) /\ UNCHANGED <<reported, forced>>
SetTid == Calls /\ Returns([Now EXCEPT ![current].tid = TRUE]) /\ UNCHANGED <<reported, forced>>
Kill(u, s) == /\ Calls
              /\ u \in Used(Now)
              /\ Returns([Now EXCEPT ![u].pend = @ \cup {s}])
              /\ UNCHANGED <<reported, forced>>
Sigaction(s, d) == /\ Calls
                   /\ Returns([Now EXCEPT ![current].disp[s] = d])
                   /\ UNCHANGED <<reported, forced>>
Sigprocmask(m) == /\ Calls
                  /\ Returns([Now EXCEPT ![current].mask = m])
                  /\ UNCHANGED <<reported, forced>>
\* The saved frame is restored, whosever it is: with a frame of another task,
\* or of the time before an execve, the task goes on in the space of that frame
\* (which may be gone).  Nothing is delivered after this call, even when it
\* fails for want of a frame.
FreshSpace(T) == CHOOSE s \in Space : \A t \in Used(T) : T[t].space # s
FrameSpaces == IF Now[current].handling = "alien"
               THEN {Now[t].space : t \in Used(Now)} \cup {FreshSpace(Now)}
               ELSE {Now[current].space}
Sigreturn == /\ Calls
             /\ \E s \in FrameSpaces :
                    task' = [Now EXCEPT ![current] = [@ EXCEPT !.handling = "no", !.space = s]]
             /\ UNCHANGED <<current, mode, reported, forced>>

(***************************************************************************)
(* Making tasks.  A thread shares the space of its maker and may have its  *)
(* exit announced (CLONE_CHILD_CLEARTID); fork copies the space.           *)
(***************************************************************************)
Child(T, c, space, tid) ==
    [Vacant EXCEPT !.st = "runnable", !.parent = c, !.space = space, !.tid = tid,
                   !.mask = T[c].mask, !.disp = T[c].disp]
Spawns(n, space, tid) == /\ Returns([Now EXCEPT ![n] = Child(Now, current, space, tid)])
                         /\ reported' = [reported EXCEPT ![n] = 0]
                         /\ UNCHANGED forced
Clone(n, tid) == Calls /\ n \notin Used(Now) /\ Spawns(n, Now[current].space, tid)
Fork(n) == Calls /\ n \notin Used(Now) /\ Spawns(n, FreshSpace(Now), FALSE)

(***************************************************************************)
(* Going to sleep.  Without another runnable task a sleep in wait4, in a   *)
(* pipe or on a futex fails with EAGAIN; in task_block_io_until the kernel *)
(* halts until an interrupt has woken this very task.                      *)
(***************************************************************************)
Asleep(T, r) == [T EXCEPT ![current] = [r EXCEPT !.st = "blocked"]]
Sleeps(r, refused) ==
    \/ \E n \in Runnable(Now) : SwitchesTo(Asleep(Now, r), n)
    \/ /\ Runnable(Now) = {}
       /\ Returns([Now EXCEPT ![current] = [refused EXCEPT !.st = "running"]])
PipeRead == /\ Calls
            /\ Sleeps([Now[current] EXCEPT !.pipe = TRUE], [Now[current] EXCEPT !.pipe = FALSE])
            /\ UNCHANGED <<reported, forced>>
FutexWait(kind) == /\ Calls
                   /\ Sleeps([Now[current] EXCEPT !.futex = kind], [Now[current] EXCEPT !.futex = "none"])
                   /\ UNCHANGED <<reported, forced>>
task_block_io_until(kind) ==
    LET T == Asleep(Now, [Now[current] EXCEPT !.io = kind])
    IN  /\ Calls
        /\ \/ \E n \in Runnable(Now) : SwitchesTo(T, n)
           \/ Runnable(Now) = {} /\ task' = T /\ mode' = "idle" /\ UNCHANGED current
        /\ UNCHANGED <<reported, forced>>
IdleEnds == /\ mode = "idle"
            /\ task[current].st # "blocked"
            /\ \E n \in Runnable(task) :
                  /\ task' = deliver_pending_signal(Run(task, n), n, current)
                  /\ current' = n
            /\ mode' = "user"
            /\ UNCHANGED <<reported, forced>>
\* sched_yield without another runnable task, and sys_input_wait_key, halt and
\* go on with the caller after an interrupt.
Yield == /\ Calls
         /\ \E n \in Runnable(Now) : SwitchesTo([Now EXCEPT ![current].st = "runnable"], n)
         /\ UNCHANGED <<reported, forced>>
Halt == /\ Calls
        /\ task' = Now
        /\ mode' = "halt"
        /\ UNCHANGED <<current, reported, forced>>
HaltEnds == /\ mode = "halt"
            /\ task' = deliver_pending_signal(task, current, current)
            /\ mode' = "user"
            /\ UNCHANGED <<current, reported, forced>>

(***************************************************************************)
(* wait4: an ended child is reported and reaped at once, else the caller   *)
(* sleeps and the child that wakes it is reaped at its next call.          *)
(***************************************************************************)
Covers(r, z) == r.wait4 = AnyTask \/ r.wait4 = z
\* Mutants: -1 is taken for a process identifier; any task's child is reaped.
ZombiesByPid(T, c, target) == {z \in Task : T[z].st = "zombie" /\ T[z].parent = c /\ target = z}
ReapsAnyZombie(T, c, target) == {z \in Task : T[z].st = "zombie" /\ target \in {AnyTask, z}}
Zombies(T, c, target) == {z \in Task : /\ T[z].st = "zombie"
                                       /\ T[z].parent = c
                                       /\ target \in {AnyTask, z}}
Notified(r) == [r EXCEPT !.pend = @ \cup (Sig \cap {"chld"})]
\* A process identifier that is no child's is never matched.
Targets == {z \in Task : Now[z].parent = current} \cup {AnyTask, Gone}
Wait4(target, status, nohang) ==
    LET zombies == Zombies(Now, current, target)
    IN  /\ Calls
        /\ \/ \E z \in zombies :
                 /\ Returns([Freed(Now, z) EXCEPT ![current] = Notified(@)])
                 /\ reported' = [reported EXCEPT ![z] = @ + 1]
           \/ zombies = {} /\ nohang /\ Returns(Now) /\ UNCHANGED reported
           \/ /\ zombies = {} /\ ~nohang
              /\ Sleeps([Now[current] EXCEPT !.wait4 = target, !.status = status],
                        [Now[current] EXCEPT !.wait4 = NoTask, !.status = FALSE])
              /\ UNCHANGED reported
        /\ UNCHANGED forced

(***************************************************************************)
(* Waking.  Which of the sleepers a call or an interrupt finds ready is up *)
(* to the file descriptors, which are not modelled: any set W of them.     *)
(***************************************************************************)
WaitsForIo(T) == {t \in Blocked(T) : T[t].io \in {"event", "timed"}}
task_wake_io_waiters(T, W) == With(T, W, LAMBDA r : Awake([r EXCEPT !.io = "none"]))
WakeIo(W) == /\ Calls
             /\ W \subseteq WaitsForIo(Now)
             /\ Returns(task_wake_io_waiters(Now, W))
             /\ UNCHANGED <<reported, forced>>
\* A send that wakes a reader of a socket switches to it, after the end of the
\* call (task_commit_deferred_switch).
SendKeepsRunning(W, n) ==      \* a mutant: the sender is not put back
    LET T == deliver_pending_signal(task_wake_io_waiters(Now, W), current, current)
    IN  /\ Calls
        /\ W \subseteq WaitsForIo(Now) /\ n \in W
        /\ task' = Run(T, n)
        /\ current' = n
        /\ UNCHANGED <<mode, reported, forced>>
Send(W, n) ==
    LET T == deliver_pending_signal(task_wake_io_waiters(Now, W), current, current)
    IN  /\ Calls
        /\ W \subseteq WaitsForIo(Now) /\ n \in W
        /\ task' = Run([T EXCEPT ![current].st = IF @ = "running" THEN "runnable" ELSE @], n)
        /\ current' = n
        /\ UNCHANGED <<mode, reported, forced>>
\* pipe_wake_readers, after a write to a pipe and when a write end is closed: a
\* reader whose buffer cannot be written (F) stays blocked.
PipeReaders(T) == {t \in Blocked(T) : T[t].pipe}
Served(T, W, F) == W \cap F = {} /\ W \cup F \subseteq PipeReaders(T)
pipe_wake_readers(T, W, F) ==
    With(With(T, W, LAMBDA r : Awake([r EXCEPT !.pipe = FALSE, !.io = "none"])),
         F, LAMBDA r : [r EXCEPT !.pipe = FALSE, !.stranded = TRUE])
PipeWrite(W, F) == /\ Calls
                   /\ Served(Now, W, F)
                   /\ Returns(pipe_wake_readers(Now, W, F))
                   /\ UNCHANGED <<reported, forced>>
\* sys_close of a read end wakes who sleeps on a descriptor of that number.
ReadEndClosed(T, W) == With(T, W, LAMBDA r : Awake([r EXCEPT !.pipe = FALSE]))
PipeClose(W) == /\ Calls
                /\ W \subseteq PipeReaders(Now)
                /\ Returns(ReadEndClosed(Now, W))
                /\ UNCHANGED <<reported, forced>>
\* execve replaces the space, forgets no saved frame and closes descriptors
\* (close-on-exec): read ends of pipes (C), write ends (W, F), sockets and
\* terminals (I).  No signal is delivered after it.
Exec(C, W, F, I) ==
    LET T1 == ReadEndClosed(Now, C)
        T2 == pipe_wake_readers(T1, W, F)
        T3 == task_wake_io_waiters(T2, I)
    IN  /\ Calls
        /\ C \subseteq PipeReaders(Now) /\ Served(T1, W, F) /\ I \subseteq WaitsForIo(T2)
        /\ task' = [T3 EXCEPT ![current].space = FreshSpace(Now),
                              ![current].handling = IF @ = "own" THEN "alien" ELSE @]
        /\ UNCHANGED <<current, mode, reported, forced>>
FutexWaiters(T, space) == {t \in Blocked(T) : T[t].futex # "none" /\ T[t].space = space}
\* A mutant: a woken waiter keeps its futex address.
KeepsFutex(T, W) == With(T, W, Awake)
FutexWoken(T, W) == With(T, W, LAMBDA r : Awake([r EXCEPT !.futex = "none"]))
FutexWake(W) == /\ Calls
                /\ W \subseteq FutexWaiters(Now, Now[current].space)
                /\ Returns(FutexWoken(Now, W))
                /\ UNCHANGED <<reported, forced>>
TtySignal(G, s) == /\ Calls
                   /\ G \subseteq Used(Now)
                   /\ Returns(With(Now, G, LAMBDA r : tty_queue_signal(r, s)))
                   /\ UNCHANGED <<reported, forced>>

(***************************************************************************)
(* The end of a task: sys_exit, called by the task or by the handler of a  *)
(* fault.  The end of task 0 ends the user program and is no step here.    *)
(* lands: the word for wait4's status could be stored, which fails when    *)
(* the address is not writable in the space that it is stored to.          *)
(***************************************************************************)
Awaited(T, c) == LET p == T[c].parent
                 IN  p # NoTask /\ T[p].st = "blocked" /\ Covers(T[p], c)
Told(r, c) == Awake([r EXCEPT !.wait4 = NoTask, !.status = FALSE, !.reap = c])
EndOf(T, c, lands) ==
    LET p == T[c].parent
        T1 == IF T[c].tid THEN FutexWoken(T, FutexWaiters(T, T[c].space)) ELSE T
        T2 == [T1 EXCEPT ![c] = [@ EXCEPT !.tid = FALSE, !.st = "zombie", !.ended = TRUE]]
        T3 == IF p = NoTask THEN T2 ELSE [T2 EXCEPT ![p] = Notified(@)]
    IN  IF Awaited(T3, c) /\ (~T3[p].status \/ lands)
        THEN [T3 EXCEPT ![p] = Told(@, c)] ELSE T3
ReportsEnd(T, c) == [reported EXCEPT ![c] = IF T[c].parent # NoTask /\ T[T[c].parent].reap = c
                                            THEN @ + 1 ELSE @]
\* The parent if it can run, else another task that can, else task 0.
NextAfter(T, c) == IF T[c].parent \in Runnable(T) THEN {T[c].parent}
                   ELSE IF Runnable(T) # {} THEN Runnable(T)
                   ELSE {Root}
Forces(T) == IF Runnable(T) = {} THEN forced + 1 ELSE forced
Exit(lands) ==
    LET T == EndOf(Now, current, lands)
    IN  /\ Calls
        /\ current # Root
        /\ \E n \in NextAfter(T, current) : SwitchesTo(T, n)
        /\ reported' = ReportsEnd(T, current)
        /\ forced' = Forces(T)
        /\ forced' <= MaxForced
Fault(lands) ==
    LET T == EndOf(task, current, lands)
    IN  /\ mode = "user"
        /\ current # Root
        /\ \E n \in NextAfter(T, current) : task' = Run(T, n) /\ current' = n
        /\ reported' = ReportsEnd(T, current)
        /\ forced' = Forces(T)
        /\ forced' <= MaxForced
        /\ UNCHANGED mode

(***************************************************************************)
(* Interrupts: a key or the mouse, and the timer.  They come in user mode  *)
(* and while the kernel halts.  The timer also polls the keyboard and the  *)
(* mouse: that is a KeyIrq or a TtyIrq right before it.                    *)
(***************************************************************************)
KeyIrq(W) == /\ W \subseteq WaitsForIo(task)
             /\ task' = task_wake_io_waiters(task, W)
             /\ UNCHANGED <<current, mode, reported, forced>>
TtyIrq(G, s) == /\ G \subseteq Used(task)
                /\ task' = With(task, G, LAMBDA r : tty_queue_signal(r, s))
                /\ UNCHANGED <<current, mode, reported, forced>>
HasDeadline(T) == {t \in Blocked(T) : T[t].futex = "timed" \/ T[t].io \in {"timed", "sleep"}}
\* A mutant: only the state changes when a deadline passes.
KeepsWaiting(T, W) == With(T, W, Awake)
task_wake_timed_io_waiters(T, W) ==
    With(T, W, LAMBDA r : IF r.futex = "timed" THEN Awake([r EXCEPT !.futex = "none"])
                          ELSE Awake([r EXCEPT !.io = "none"]))
TimerInKernel(W) == /\ mode # "user"
                    /\ W \subseteq HasDeadline(task)
                    /\ task' = task_wake_timed_io_waiters(task, W)
                    /\ UNCHANGED <<current, mode, reported, forced>>

\* timer_preempt_from_user: a pending SIGINT ends the task, unless it is task
\* 0, without clearing its tid word.
Interrupts(r) == "int" \in Deliverable(r)
KilledByTimer(T, c) == Interrupts(T[c]) /\ T[c].disp["int"] = "dfl" /\ c # Root
TickNotifiesOnly(T, c, lands) ==      \* a mutant: the waiting parent is not woken
    LET p == T[c].parent
        T1 == [T EXCEPT ![c] = [@ EXCEPT !.pend = @ \ {"int"}, !.st = "zombie", !.ended = TRUE]]
    IN  IF ~KilledByTimer(T, c) THEN T
        ELSE IF p = NoTask THEN T1 ELSE [T1 EXCEPT ![p] = Notified(@)]
Ticked(T, c, lands) ==
    LET p == T[c].parent
        T1 == [T EXCEPT ![c] = [@ EXCEPT !.pend = @ \ {"int"}, !.st = "zombie", !.ended = TRUE]]
        T2 == IF p = NoTask THEN T1 ELSE [T1 EXCEPT ![p] = Notified(@)]
    IN  IF KilledByTimer(T, c)
        THEN IF Awaited(T2, c) /\ (~T2[p].status \/ lands)
             THEN [T2 EXCEPT ![p] = Told(@, c)] ELSE T2
        ELSE IF Interrupts(T[c]) /\ T[c].disp["int"] = "ign"
        THEN [T EXCEPT ![c].pend = @ \ {"int"}]
        ELSE T
timer_preempt_from_user(W, lands) ==
    LET T1 == Ticked(task_wake_timed_io_waiters(task, W), current, lands)
        T == IF T1[current].st = "zombie" THEN T1 ELSE [T1 EXCEPT ![current].st = "runnable"]
    IN  /\ mode = "user"
        /\ W \subseteq HasDeadline(task)
        /\ \/ \E n \in Runnable(T) : task' = Run(T, n) /\ current' = n
           \/ /\ Runnable(T) = {}
              /\ LET n == IF T[Root].st = "zombie" THEN current ELSE Root
                 IN  task' = Run(T, n) /\ current' = n
        /\ forced' = Forces(T)
        /\ forced' <= MaxForced
        /\ reported' = IF KilledByTimer(task, current) THEN ReportsEnd(T, current) ELSE reported
        /\ UNCHANGED mode

-----------------------------------------------------------------------------
TasksInit ==
    /\ task = [t \in Task |-> IF t = Root THEN [Vacant EXCEPT !.st = "running"] ELSE Vacant]
    /\ current = Root
    /\ mode = "user"
    /\ reported = [t \in Task |-> 0]
    /\ forced = 0

TasksNext ==
    \/ Syscall \/ Sigreturn \/ Yield \/ Halt \/ HaltEnds \/ IdleEnds
    \/ \E u \in Task, s \in Sig : Kill(u, s)
    \/ \E s \in Sig, d \in Disposition : Sigaction(s, d)
    \/ \E m \in SUBSET Sig : Sigprocmask(m)
    \/ \E n \in Task : Fork(n) \/ Clone(n, FALSE)
    \/ "futex" \in Waits /\ (SetTid \/ \E n \in Task : Clone(n, TRUE))
    \/ "pipe" \in Waits /\ PipeRead
    \/ "futex" \in Waits /\ \E kind \in {"wait", "timed"} : FutexWait(kind)
    \/ \E kind \in Waits \cap Io : task_block_io_until(kind)
    \/ \E target \in Targets, status, nohang \in BOOLEAN : Wait4(target, status, nohang)
    \/ \E W \in SUBSET Task : WakeIo(W) \/ PipeClose(W) \/ FutexWake(W) \/ KeyIrq(W) \/ TimerInKernel(W)
    \/ \E W \in SUBSET Task, n \in Task : Send(W, n)
    \/ \E W, F \in SUBSET Task : PipeWrite(W, F)
    \/ \E C, W, F \in SUBSET PipeReaders(Now), I \in SUBSET Blocked(Now) : Exec(C, W, F, I)
    \/ \E G \in SUBSET Task, s \in Sig : TtySignal(G, s) \/ TtyIrq(G, s)
    \/ \E lands \in BOOLEAN : Exit(lands) \/ Fault(lands)
    \/ \E W \in SUBSET Task, lands \in BOOLEAN : timer_preempt_from_user(W, lands)
TasksSpec == TasksInit /\ [][TasksNext]_taskVars

-----------------------------------------------------------------------------
\* Every slot holds a task record, and the current slot is in use.
TasksTypeOK == /\ task \in [Task -> TaskRecord]
               /\ current \in Used(task)
               /\ mode \in {"user", "idle", "halt"}
               /\ forced \in 0 .. MaxForced

\* Only the current task runs: no path (preemption, a sleep, a deferred switch,
\* an exit, a fault) leaves a second task marked running or loses the processor.
\* A task killed by a signal goes on as a zombie until the next switch.
OnlyCurrentRuns ==
    /\ \A t \in Task : task[t].st = "running" => t = current
    /\ mode = "idle" => task[current].st \in {"blocked", "runnable"}
    /\ mode # "idle" => task[current].st \in {"running", "zombie"}

\* A sleeping task has exactly one reason to sleep, and a task that does not
\* sleep has none left, whoever woke it and how: no later event can wake it
\* out of another sleep.  Exceptions: after a task was resumed by force, and
\* a reader that a pipe write could not serve.
Reasons(r) == {x \in {"wait4", "pipe", "io", "futex"} :
                  \/ x = "wait4" /\ r.wait4 # NoTask
                  \/ x = "pipe" /\ r.pipe
                  \/ x = "io" /\ r.io # "none"
                  \/ x = "futex" /\ r.futex # "none"}
OneReasonToSleep ==
    forced = 0 => \A t \in Task :
        /\ task[t].st # "blocked" => Reasons(task[t]) = {}
        /\ task[t].st = "blocked" =>
               Cardinality(Reasons(task[t])) = IF task[t].stranded THEN 0 ELSE 1

\* No end of a child is missed: a task that sleeps in wait4 without a status
\* pointer has no ended child among those it waits for, whether the child
\* exited, faulted or was interrupted before, after or during the call.
SleepsInWait4(r) == r.st = "blocked" /\ Reasons(r) = {"wait4"} /\ ~r.stranded
NoMissedEnd ==
    \A p, z \in Task :
        (SleepsInWait4(task[p]) /\ ~task[p].status /\ task[z].parent = p /\ Covers(task[p], z))
            => ~(task[z].st = "zombie" /\ task[z].ended)

\* The end of a task is reported to its parent once, and its slot is free for
\* another task only after that.
ReportedOnce ==
    [][\A t \in Task : /\ reported'[t] <= 1
                       /\ (t \in Used(task) /\ t \notin Used(task')) => reported'[t] = 1]_taskVars


\* After an unrecoverable fault the kernel goes on with the parent or with
\* another task that can run (comment of isr_handler).
FaultResumesRunnable ==
    [][(\E lands \in BOOLEAN : Fault(lands)) =>
          \/ current' = task[current].parent
          \/ task[current'].st = "runnable"
          \/ task[current'].futex # "none" /\ task'[current'].futex = "none"]_taskVars
=============================================================================
