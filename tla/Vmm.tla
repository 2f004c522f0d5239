-------------------------------- MODULE Vmm ---------------------------------
(***************************************************************************)
(* User address spaces: the page tables of src/src/kernel/vmm.c and the    *)
(* system calls of main.c that build, share, copy and destroy them.  Every *)
(* system call and every fault runs with interrupts off on one processor,  *)
(* so each is one step.                                                    *)
(*                                                                         *)
(* Memory is the record vm.  Like the functions of vmm.c the operators     *)
(* below take it (and the root of an address space, which is the cr3 of    *)
(* its tasks) and return the next one.  A physical page comes from the     *)
(* pool that Pmm implements: free iff it has no references, and which free *)
(* page is handed out makes no difference here.  Only pages of user data   *)
(* are shared, so only these have names; roots and tables are counted      *)
(* (free).  Addresses are page numbers; no-execute and caching bits are    *)
(* left out.                                                               *)
(***************************************************************************)
EXTENDS Integers, FiniteSets

CONSTANTS
    Memory,     \* number of pages the allocator may hand out
    Page,       \* names for pages of user data
    Cr3,        \* names for roots
    Fb,         \* any page of the frame buffer: reserved, never counted
    FbPages,    \* size of the frame buffer
    NoPage,     \* physical address 0
    RefMax,     \* UINT16_MAX, the largest reference count
    VaPages,    \* user virtual pages are 0 .. VaPages - 1
    MmapMin,    \* USER_MMAP_MIN, as a page number
    Image,      \* the program image and stack: first pages 0 .. Image - 1
    Tables,     \* the places of tables below a root, 1 .. Tables in the
                \* order of a depth-first walk
    Path,       \* Path[va]: the places of the PDPT, the PD and the PT of va
    Task,       \* slots of tasks[]
    Root,       \* slot 0
    NoTask,     \* the parent of slot 0 and of a task whose parent is gone
    Value,      \* contents of a page; 0 is a page of zeros
    Asked,      \* bound: the protections that programs ask for
    MaxLen,     \* bound: pages in the range of one call
    MaxAbandoned,  \* bound: spaces left behind by failed execve calls
    MaxLost,    \* bound: pages lost to frame buffer mappings
    MaxWaiting  \* bound: tasks that sleep in wait4 at a time

Va == 0 .. (VaPages - 1)
Prot == {"none", "r", "rw"}
Table == 1 .. Tables

ASSUME VmmAssumption ==
    /\ Memory \in Nat
    /\ Fb \notin Page /\ NoPage \notin Page /\ Fb # NoPage
    /\ NoPage \notin Cr3
    /\ RefMax \in Nat \ {0}
    /\ VaPages \in Nat /\ MmapMin \in Nat /\ Image \in 0 .. VaPages
    /\ Tables \in Nat
    /\ Path \in [Va -> [1 .. 3 -> Table]]
    /\ FbPages \in Nat
    /\ Root \in Task /\ NoTask \notin Task
    /\ 0 \in Value
    /\ Asked \subseteq Prot

VARIABLES vm,         \* memory
          tstate,     \* used and state of the tasks
          parent,     \* ppid, as a slot
          word,       \* wait4_status_ptr
          cr3,        \* ctx.cr3
          lazy,       \* lazy_mmaps, page by page
          cursor,     \* mmap_next
          sysCr3,     \* syscall_user_cr3: the space of the last system call
          abandoned   \* roots that a failed execve left behind (history)

vmmVars == <<vm, tstate, parent, word, cr3, lazy, cursor, sysCr3, abandoned>>

(***************************************************************************)
(* An address space is its tables, its leaf entries and, as history, what  *)
(* a program may expect of them: the protection it asked for and, for a    *)
(* mapped page, the last value stored there through this space.            *)
(***************************************************************************)
NoPte == [page |-> NoPage, w |-> FALSE, cow |-> FALSE]
Pte == [page : Page \cup {Fb, NoPage}, w : BOOLEAN, cow : BOOLEAN]
EmptySpace == [tab |-> {},
               pte |-> [a \in Va |-> NoPte],
               prot |-> [a \in Va |-> "none"],
               view |-> [a \in Va |-> 0]]
Space == [tab : SUBSET Table, pte : [Va -> Pte],
          prot : [Va -> Prot], view : [Va -> Value]]
Roots(s) == DOMAIN s.as
Mapped(s, r, a) == s.as[r].pte[a].page # NoPage

(***************************************************************************)
(* The allocator, as its callers see it.                                   *)
(***************************************************************************)
PickPage(s) == IF s.free = 0 THEN NoPage ELSE CHOOSE p \in Page : s.refs[p] = 0
PickRoot(s) == IF s.free = 0 THEN NoPage ELSE CHOOSE r \in Cr3 : r \notin Roots(s)
Take(s, p) == [s EXCEPT !.free = @ - 1, !.refs[p] = 1, !.mem[p] = 0]   \* cleared by the caller
\* pmm_free_page, n[p] times for every page p; reserved pages have no count.
ReleaseEach(s, n) ==
    LET left == [p \in Page |-> IF s.refs[p] > n[p] THEN s.refs[p] - n[p] ELSE 0]
    IN  [s EXCEPT !.refs = left,
                  !.free = @ + Cardinality({p \in Page : s.refs[p] > 0 /\ left[p] = 0}),
                  !.breach = {p \in @ : left[p] > 0}]
Release(s, S) == ReleaseEach(s, [p \in Page |-> IF p \in S THEN 1 ELSE 0])
CanRetain(s, p) == s.refs[p] # 0 /\ s.refs[p] # RefMax

(***************************************************************************)
(* vmm_user_map.  ensure_user_child makes the tables one after the other;  *)
(* when the pages run out the ones made so far stay.                       *)
(***************************************************************************)
ensure_user_child(s, r, t) ==
    IF t \in s.as[r].tab \/ s.free = 0 THEN s
    ELSE [s EXCEPT !.free = @ - 1, !.as[r].tab = @ \cup {t}]
WithTables(s, r, a) ==
    ensure_user_child(ensure_user_child(ensure_user_child(
        s, r, Path[a][1]), r, Path[a][2]), r, Path[a][3])
HasTables(s, r, a) == Path[a][3] \in s.as[r].tab
\* The leaf is overwritten, whatever it was; a page lost that way is kept in
\* the history variable lost.
vmm_user_map(s, r, a, p, w, prot) ==
    LET s1 == WithTables(s, r, a)
    IN  IF ~HasTables(s1, r, a) THEN s1
        ELSE [s1 EXCEPT !.lost = @ \cup ({s1.as[r].pte[a].page} \cap Page),
                        !.as[r].pte[a] = [page |-> p, w |-> w, cow |-> FALSE],
                        !.as[r].prot[a] = prot,
                        !.as[r].view[a] = 0]

\* vmm_user_unmap of every page of A, alone and with pmm_free_page of what was
\* there.
vmm_user_unmap(s, r, A) ==
    LET Clear(f, e) == [a \in Va |-> IF a \in A THEN e ELSE f[a]]
    IN  [s EXCEPT !.as[r].pte = Clear(s.as[r].pte, NoPte),
                  !.as[r].prot = Clear(s.as[r].prot, "none"),
                  !.as[r].view = Clear(s.as[r].view, 0)]
UnmapAndFree(s, r, A) ==
    ReleaseEach(vmm_user_unmap(s, r, A),
                [p \in Page |-> Cardinality({a \in A : s.as[r].pte[a].page = p})])

\* A fresh page of zeros at a, in place of what was mapped there.  When its
\* tables cannot be made the page is given back and the call fails.
FreshFits(s, r, a) == /\ PickPage(s) # NoPage
                      /\ HasTables(WithTables(Take(s, PickPage(s)), r, a), r, a)
MapFresh(s, r, a, prot) ==
    LET p == PickPage(s)
        s1 == Take(s, p)
        s2 == IF Mapped(s, r, a) THEN UnmapAndFree(s1, r, {a}) ELSE s1
    IN  IF p = NoPage THEN s
        ELSE IF FreshFits(s, r, a) THEN vmm_user_map(s2, r, a, p, prot = "rw", prot)
        ELSE Release(WithTables(s1, r, a), {p})

(***************************************************************************)
(* vmm_user_cow_fault: the sole owner gets its page back writable, a       *)
(* sharer gets a copy.  CowFixed says whether it returned 0.               *)
(***************************************************************************)
PromotesSharedPage(s, r, a) ==
    LET e == s.as[r].pte[a]
    IN  [s EXCEPT !.as[r].pte[a] = [e EXCEPT !.w = TRUE, !.cow = FALSE]]   \* mutant
KeepsReference(s, r, a) ==
    LET e == s.as[r].pte[a]
        np == PickPage(s)
    IN  IF ~e.cow \/ e.w THEN s
        ELSE IF s.refs[e.page] = 1
        THEN [s EXCEPT !.as[r].pte[a] = [e EXCEPT !.w = TRUE, !.cow = FALSE]]
        ELSE IF np = NoPage THEN s
        ELSE [Take(s, np) EXCEPT !.as[r].pte[a] = [page |-> np, w |-> TRUE, cow |-> FALSE],
                                 !.mem[np] = s.mem[e.page]]                \* mutant
vmm_user_cow_fault(s, r, a) ==
    LET e == s.as[r].pte[a]
        np == PickPage(s)
    IN  IF ~e.cow \/ e.w THEN s
        ELSE IF s.refs[e.page] = 1
        THEN [s EXCEPT !.as[r].pte[a] = [e EXCEPT !.w = TRUE, !.cow = FALSE]]
        ELSE IF np = NoPage THEN s
        ELSE Release([Take(s, np) EXCEPT !.as[r].pte[a] = [page |-> np, w |-> TRUE, cow |-> FALSE],
                                         !.mem[np] = s.mem[e.page],
                                         !.breach = IF e.page \in @ THEN @ \cup {np} ELSE @],
                     {e.page})
CowFixed(s, r, a) == LET e == s.as[r].pte[a]
                     IN  e.cow /\ ~e.w /\ (s.refs[e.page] = 1 \/ PickPage(s) # NoPage)

(***************************************************************************)
(* vmm_user_protect rewrites the leaf, copy-on-write bit included.  Write  *)
(* access granted to a page that others still map is recorded in breach.   *)
(***************************************************************************)
ProtectFails(s, r, a, prot) ==
    \/ ~Mapped(s, r, a)
    \/ prot = "rw" /\ s.as[r].pte[a].cow /\ ~CowFixed(s, r, a)
KeepsCowBit(s, r, a, prot) ==
    [s EXCEPT !.as[r].pte[a] = [@ EXCEPT !.w = prot = "rw"], !.as[r].prot[a] = prot]  \* mutant
vmm_user_protect(s, r, a, prot) ==
    LET s1 == IF prot = "rw" /\ s.as[r].pte[a].cow THEN vmm_user_cow_fault(s, r, a) ELSE s
        p == s1.as[r].pte[a].page
    IN  IF ProtectFails(s, r, a, prot) THEN s
        ELSE [s1 EXCEPT !.as[r].pte[a] = [page |-> p, w |-> prot = "rw", cow |-> FALSE],
                        !.as[r].prot[a] = prot,
                        !.breach = IF prot = "rw" /\ p \in Page /\ s1.refs[p] > 1
                                   THEN @ \cup {p} ELSE @]

(***************************************************************************)
(* Whole spaces.  vmm_user_space_create makes an empty one;                *)
(* destroy_clone_root gives back the tables of one and not the pages it    *)
(* maps, vmm_user_space_destroy gives back both.                           *)
(***************************************************************************)
vmm_user_space_create(s) ==
    LET r == PickRoot(s)
    IN  IF r = NoPage THEN s
        ELSE [s EXCEPT !.free = @ - 1,
                       !.as = [q \in Roots(s) \cup {r} |-> IF q = r THEN EmptySpace ELSE s.as[q]]]
ForgetsTables(s, r) == [s EXCEPT !.free = @ + 1, !.as = [q \in Roots(s) \ {r} |-> s.as[q]]]   \* mutant
DropSpace(s, r) == [s EXCEPT !.free = @ + 1 + Cardinality(s.as[r].tab),
                             !.as = [q \in Roots(s) \ {r} |-> s.as[q]]]
FreesOnlyRoot(s, r) == ForgetsTables(s, r)   \* mutant
destroy_clone_root(s, r) == DropSpace(s, r)
ForgetsPages(s, r) == DropSpace(s, r)   \* mutant
vmm_user_space_destroy(s, r) ==
    ReleaseEach(DropSpace(s, r),
                [p \in Page |-> Cardinality({a \in Va : s.as[r].pte[a].page = p})])

(***************************************************************************)
(* vmm_user_space_clone: copy the tables, check that every page can take   *)
(* one more reference, then share the pages, the writable ones as copy on  *)
(* write on both sides.                                                    *)
(***************************************************************************)
clone_user_tables(s, r, c) ==
    LET upto[t \in 0 .. Tables] ==
            IF t = 0 THEN s
            ELSE IF t \in s.as[r].tab THEN ensure_user_child(upto[t - 1], c, t)
            ELSE upto[t - 1]
    IN  upto[Tables]
Counted(s, r, a) == s.as[r].pte[a].page \in Page
preflight_fork_pages(s, r) == \A a \in Va : Counted(s, r, a) => CanRetain(s, s.as[r].pte[a].page)
ShareEntry(e) == IF e.page \in Page /\ e.w THEN [e EXCEPT !.w = FALSE, !.cow = TRUE] ELSE e
\* The entries before the first page that pmm_retain_page refuses.
Shareable(s, r) ==
    {a \in Va : \A b \in 0 .. a : Counted(s, r, b) =>
        LET p == s.as[r].pte[b].page
        IN  s.refs[p] # 0 /\ s.refs[p] + Cardinality({d \in 0 .. (b - 1) : s.as[r].pte[d].page = p}) < RefMax}
ParentStaysWritable(s, r, c) ==
    LET sp == s.as[r]
        dst == [sp EXCEPT !.tab = s.as[c].tab, !.pte = [a \in Va |-> ShareEntry(sp.pte[a])]]
    IN  [s EXCEPT !.refs = [p \in Page |-> s.refs[p] + Cardinality({a \in Va : sp.pte[a].page = p})],
                  !.as[c] = dst]   \* mutant
apply_fork_cow(s, r, c) ==
    LET sp == s.as[r]
        done == Shareable(s, r)
        shared == [a \in Va |-> IF a \in done THEN ShareEntry(sp.pte[a]) ELSE sp.pte[a]]
    IN  [s EXCEPT !.refs = [p \in Page |-> s.refs[p] + Cardinality({a \in done : sp.pte[a].page = p})],
                  !.as[r].pte = shared,
                  !.as[c] = [sp EXCEPT !.tab = s.as[c].tab, !.pte = shared]]
ClonedRoot(s) == PickRoot(s)
CloneSucceeds(s, r) ==
    LET s1 == vmm_user_space_create(s)
        c == ClonedRoot(s)
    IN  /\ c # NoPage
        /\ clone_user_tables(s1, r, c).as[c].tab = s.as[r].tab
        /\ preflight_fork_pages(s, r)
        /\ Shareable(s, r) = Va
vmm_user_space_clone(s, r) ==
    LET c == ClonedRoot(s)
        s1 == clone_user_tables(vmm_user_space_create(s), r, c)
    IN  IF c = NoPage THEN s
        ELSE IF s1.as[c].tab # s1.as[r].tab \/ ~preflight_fork_pages(s1, r)
        THEN destroy_clone_root(s1, c)
        ELSE IF Shareable(s1, r) # Va THEN destroy_clone_root(apply_fork_cow(s1, r, c), c)
        ELSE apply_fork_cow(s1, r, c)

-----------------------------------------------------------------------------
(***************************************************************************)
(* Tasks.  A task of slot t is unused, waiting (blocked with wait4_active: *)
(* a store may be made for it while it sleeps), live (anything else that   *)
(* may still run: see Tasks) or a zombie, and keeps its cr3 until it is    *)
(* reaped.                                                                 *)
(***************************************************************************)
Used == {t \in Task : tstate[t] # "unused"}
Live(t) == tstate[t] = "live"
Sharers(t) == {u \in Used : cr3[u] = cr3[t]}   \* t included
task_cr3_is_shared(t) == Sharers(t) # {t}

\* load_elf_with_args_reader maps the pages of the image and of the stack;
\* a page whose tables cannot be made is not given back.
LoadPage(s, r, a) ==
    LET p == PickPage(s)
        s1 == vmm_user_map(Take(s, p), r, a, p, TRUE, "rw")
    IN  IF p = NoPage THEN s
        ELSE IF HasTables(s1, r, a) THEN s1 ELSE [s1 EXCEPT !.lost = @ \cup {p}]
LoadPages(s, r, n) ==
    LET upto[k \in 0 .. n] == IF k = 0 THEN s ELSE LoadPage(upto[k - 1], r, k - 1)
    IN  upto[n]
Loaded(s, r) == \A a \in 0 .. (Image - 1) : Mapped(s, r, a)

EmptyMemory == [free |-> Memory, refs |-> [p \in Page |-> 0], mem |-> [p \in Page |-> 0],
                as |-> [r \in {} |-> EmptySpace], lost |-> {}, breach |-> {}]
BootRoot == PickRoot(EmptyMemory)
NoWord == VaPages   \* a null pointer
NoStatus == -1

\* The kernel has loaded the boot program and entered it as task 0.
VmmInit ==
    /\ vm = LoadPages(vmm_user_space_create(EmptyMemory), BootRoot, Image)
    /\ tstate = [t \in Task |-> IF t = Root THEN "live" ELSE "unused"]
    /\ parent = [t \in Task |-> NoTask]
    /\ word = [t \in Task |-> NoWord]
    /\ cr3 = [t \in Task |-> IF t = Root THEN BootRoot ELSE NoPage]
    /\ lazy = [t \in Task |-> [a \in Va |-> "unset"]]
    /\ cursor = [t \in Task |-> MmapMin]
    /\ sysCr3 = BootRoot
    /\ abandoned = {}

\* The system call entry code: only a live task calls, and its cr3 is noted.
Enters(t) == tstate[t] = "live" /\ sysCr3' = cr3[t]

(***************************************************************************)
(* Stores.  A user store to a page that is not writable faults: a missing  *)
(* page is made if a lazy mapping allows it, a copy-on-write page is fixed *)
(* up, anything else ends the task.  The kernel's own stores to user       *)
(* memory (user_copy_to_cr3) do the same but for the lazy mapping, and     *)
(* fail without harm.                                                      *)
(***************************************************************************)
Writable(s, r, a) == Mapped(s, r, a) /\ s.as[r].pte[a].w
Store(s, r, a, v) ==
    LET p == s.as[r].pte[a].page
    IN  IF p \in Page THEN [s EXCEPT !.mem[p] = v, !.as[r].view[a] = v] ELSE s
AfterCow(s, r, a) == IF Mapped(s, r, a) /\ ~Writable(s, r, a) THEN vmm_user_cow_fault(s, r, a) ELSE s
task_lazy_page_fault(s, t, a, allowed) ==
    IF ~Mapped(s, cr3[t], a) /\ lazy[t][a] \in allowed THEN MapFresh(s, cr3[t], a, lazy[t][a]) ELSE s
AfterReadFault(t, a) == task_lazy_page_fault(vm, t, a, {"r", "rw"})
AfterWriteFault(t, a) == AfterCow(task_lazy_page_fault(vm, t, a, {"rw"}), cr3[t], a)

UserWrite(t, a, v) ==
    LET s == AfterWriteFault(t, a)
    IN  /\ Live(t)
        /\ Writable(s, cr3[t], a)
        /\ vm' = Store(s, cr3[t], a, v)
        /\ UNCHANGED <<tstate, parent, word, cr3, lazy, cursor, sysCr3, abandoned>>
\* A load only changes memory when it makes a lazily mapped page.
UserRead(t, a) ==
    LET s == AfterReadFault(t, a)
    IN  /\ Live(t)
        /\ ~Mapped(vm, cr3[t], a)
        /\ Mapped(s, cr3[t], a)
        /\ vm' = s
        /\ UNCHANGED <<tstate, parent, word, cr3, lazy, cursor, sysCr3, abandoned>>
CopyOut(s, r, a, v) ==
    LET s1 == AfterCow(s, r, a)
    IN  IF Writable(s1, r, a) THEN Store(s1, r, a, v) ELSE s1
\* A store for a word of task u: in a call of its own, or by whoever wakes it
\* from its sleep on a pipe (pipe_read_into_task) with a write or by closing the
\* write end; where execve closes it the store is a step after Exec.
CopyToUser(t, u, a, v) ==
    /\ Enters(t)
    /\ Live(u)
    /\ vm' = CopyOut(vm, cr3[u], a, v)
    /\ UNCHANGED <<tstate, parent, word, cr3, lazy, cursor, abandoned>>

(***************************************************************************)
(* user_copy_to stores into the space of the last system call, r.  Where   *)
(* the word belongs to a task of another space, own, the store is recorded *)
(* in breach.                                                              *)
(***************************************************************************)
user_copy_to(s, r, own, a, v) ==
    LET s1 == AfterCow(s, r, a)
        p == s1.as[r].pte[a].page
    IN  IF a = NoWord THEN s
        ELSE IF r = own \/ ~Writable(s1, r, a) THEN CopyOut(s, r, a, v)
        ELSE IF p \in Page THEN [s1 EXCEPT !.mem[p] = v, !.breach = @ \cup {p}]
        ELSE s1
StoreLands(s, r, a) == a # NoWord => Writable(AfterCow(s, r, a), r, a)
vmm_user_range_ok(s, r, a) == s.as[r].pte[a].w \/ s.as[r].pte[a].cow   \* for writing

\* A system call of t that ends in a switch to a task of next: what memory may
\* be afterwards.  deliver_pending_signal_to_task looks for the room of a
\* signal frame in the space of the next task u (now the active one) and then
\* pushes it into the space of the call.
deliver_pending_signal_to_task(s, t, u) ==
    {user_copy_to(s, cr3[t], cr3[u], x[1], x[2]) :
        x \in {y \in Va \X Value : vmm_user_range_ok(s, cr3[u], y[1])}}
AfterSwitch(s, t, next) == {s} \cup UNION {deliver_pending_signal_to_task(s, t, u) : u \in next}
Waiting == {u \in Task : tstate[u] = "waiting"}
LiveIn(ts) == {u \in Task : ts[u] = "live"}

(***************************************************************************)
(* Sleeping.  wait4 notes the status word and sleeps when another task can *)
(* run.  Task 0 may be resumed by force (see EndStates) with the word      *)
(* still noted: its next sleep, of whatever kind, counts as waiting again. *)
(***************************************************************************)
Wait4(t, a) ==
    /\ Enters(t)
    /\ a # NoWord => vmm_user_range_ok(vm, cr3[t], a)
    /\ Cardinality(Waiting) < MaxWaiting
    /\ tstate' = [tstate EXCEPT ![t] = "waiting"]
    /\ LiveIn(tstate') # {}
    /\ word' = [word EXCEPT ![t] = a]
    /\ vm' \in AfterSwitch(vm, t, LiveIn(tstate'))
    /\ UNCHANGED <<parent, cr3, lazy, cursor, abandoned>>
\* Any other call that gives up the processor.
Sleep(t) ==
    /\ Enters(t)
    /\ LiveIn(tstate) # {t}
    /\ tstate' = [tstate EXCEPT ![t] = IF word[t] = NoWord THEN "live" ELSE "waiting"]
    /\ vm' \in AfterSwitch(vm, t, LiveIn(tstate) \ {t})
    /\ UNCHANGED <<parent, word, cr3, lazy, cursor, abandoned>>
\* A signal from the terminal (tty_queue_signal) ends the sleep; a sleep of
\* another kind that task 0 entered with a word noted leaves the word.
Interrupted(t) ==
    /\ tstate[t] = "waiting"
    /\ tstate' = [tstate EXCEPT ![t] = "live"]
    /\ \/ word' = [word EXCEPT ![t] = NoWord]
       \/ t = Root /\ UNCHANGED word
    /\ UNCHANGED <<vm, parent, cr3, lazy, cursor, sysCr3, abandoned>>

(***************************************************************************)
(* The end of a task: the word it has registered (tid_address) is cleared, *)
(* and a parent that waits for it gets its status word and wakes, unless   *)
(* the store fails.  sys_exit makes both stores with user_copy_to; after a *)
(* system call r is the space of the task itself, after a fault it is that *)
(* of whoever made the last call.  The status st is NoStatus where no      *)
(* parent waits, or waits for another child (wait4_pid).  The end of task  *)
(* 0 ends the session and is not a step.                                   *)
(***************************************************************************)
task_clear_child_tid(s, r, t, tid) == user_copy_to(s, r, cr3[t], tid, 0)
ParentWaits(t) == parent[t] # NoTask /\ tstate[parent[t]] = "waiting"
Status(t) == {NoStatus} \cup (IF ParentWaits(t) THEN Value ELSE {})
TellParent(s, r, t, st) ==
    IF st = NoStatus THEN s ELSE user_copy_to(s, r, cr3[parent[t]], word[parent[t]], st)
WakesParent(s, r, t, st) == st # NoStatus /\ StoreLands(s, r, word[parent[t]])
\* When nothing can run task 0 does, whatever it sleeps on; a live task may be
\* asleep as well, so that this is a choice while there is one.
EndStates(t, wakes) ==
    LET ts == [u \in Task |-> IF u = t THEN "zombie"
                              ELSE IF wakes /\ u = parent[t] THEN "live" ELSE tstate[u]]
    IN  IF wakes THEN {ts} ELSE {x \in {ts, [ts EXCEPT ![Root] = "live"]} : LiveIn(x) # {}}
Ends(t, wakes) ==
    /\ t # Root
    /\ tstate' \in EndStates(t, wakes)
    /\ word' = IF wakes THEN [word EXCEPT ![parent[t]] = NoWord] ELSE word
    /\ UNCHANGED <<parent, cr3, lazy, cursor, abandoned>>
Exit(t, tid, st) ==
    LET s == task_clear_child_tid(vm, cr3[t], t, tid)
    IN  /\ Enters(t)
        /\ Ends(t, WakesParent(s, cr3[t], t, st))
        /\ vm' \in AfterSwitch(TellParent(s, cr3[t], t, st), t, LiveIn(tstate'))
\* Memory when isr_handler gives up: any exception but a page fault that the
\* lazy mappings or copy on write can mend.
Unmended(t) ==
    {vm} \cup {AfterWriteFault(t, a) : a \in {b \in Va : ~Writable(AfterWriteFault(t, b), cr3[t], b)}}
         \cup {AfterReadFault(t, a) : a \in {b \in Va : ~Mapped(AfterReadFault(t, b), cr3[t], b)}}
UserFault(t, tid, st) ==
    /\ Live(t)
    /\ \E m \in Unmended(t) :
           LET s == task_clear_child_tid(m, sysCr3, t, tid)
           IN  /\ Ends(t, WakesParent(s, sysCr3, t, st))
               /\ vm' = TellParent(s, sysCr3, t, st)
    /\ UNCHANGED sysCr3
\* The timer ends a task with an unhandled SIGINT: the status word goes to the
\* space of the parent, the tid word stays.
TimerKill(t, st) ==
    /\ Live(t)
    /\ LET r == cr3[parent[t]]
       IN  /\ Ends(t, WakesParent(vm, r, t, st))
           /\ vm' = TellParent(vm, r, t, st)
    /\ UNCHANGED sysCr3
\* deliver_pending_signal_to_task ends a task without a word to its parent; the
\* step is the switch away from it.
SignalKill(t) == /\ Live(t)
                 /\ Ends(t, FALSE)
                 /\ UNCHANGED <<vm, sysCr3>>

(***************************************************************************)
(* mmap, munmap and mprotect of the n pages from b on.  Lazy mappings and  *)
(* the cursor are kept per task and changed for all tasks with this cr3.   *)
(***************************************************************************)
Pages(b, n) == b .. (b + n - 1)
OnlyOwnList(t, A, old, prot) ==
    [lazy EXCEPT ![t] = [a \in Va |-> IF a \in A /\ lazy[t][a] \in old THEN prot ELSE lazy[t][a]]]  \* mutant
task_lazy_mmap_transform_shared(t, A, old, prot) ==
    [u \in Task |-> IF u \in Sharers(t)
                    THEN [a \in Va |-> IF a \in A /\ lazy[u][a] \in old THEN prot ELSE lazy[u][a]]
                    ELSE lazy[u]]
LazyProt == Prot \cup {"unset"}
LazyRemove(t, A) == task_lazy_mmap_transform_shared(t, A, LazyProt, "unset")
LazySetProt(t, A, prot) == task_lazy_mmap_transform_shared(t, A, Prot, prot)
LazyReplace(t, A, prot) == task_lazy_mmap_transform_shared(t, A, LazyProt, prot)

AdvanceTo(t, end) == LET top == CHOOSE c \in {cursor[u] : u \in Sharers(t)} :
                                    \A u \in Sharers(t) : c >= cursor[u]
                     IN  [u \in Task |-> IF u \in Sharers(t) THEN IF end > top THEN end ELSE top
                                         ELSE cursor[u]]

\* The loop of sys_mmap stops at the first page that does not fit, and the
\* pages mapped so far are unmapped again.
MapRange(s, r, b, n, prot) ==
    LET upto[k \in 0 .. n] ==
            IF k = 0 THEN [mem |-> s, done |-> 0]
            ELSE LET m == upto[k - 1]
                 IN  IF m.done < k - 1 THEN m
                     ELSE [mem |-> MapFresh(m.mem, r, b + m.done, prot),
                           done |-> IF FreshFits(m.mem, r, b + m.done) THEN k ELSE k - 1]
    IN  upto[n]
MmapOk(m, n) == m.done = n
UnmapsWithoutFreeing(m, r, b) ==
    vmm_user_unmap(m.mem, r, Pages(b, m.done))   \* mutant
MmapUndone(m, r, b) == UnmapAndFree(m.mem, r, Pages(b, m.done))

user_mmap_find_gap(t, n) ==
    {b \in cursor[t] .. (VaPages - n) : \A a \in Pages(b, n) : ~Mapped(vm, cr3[t], a)}
MmapLazily(t, b, n, fixed) ==
    LET A == Pages(b, n)
    IN  /\ vm' = IF fixed THEN UnmapAndFree(vm, cr3[t], A) ELSE vm
        /\ lazy' = LazyReplace(t, A, "none")
        /\ cursor' = AdvanceTo(t, b + n)
MmapNow(t, b, n, prot, fixed) ==
    LET m == MapRange(vm, cr3[t], b, n, prot)
    IN  /\ vm' = IF MmapOk(m, n) THEN m.mem ELSE MmapUndone(m, cr3[t], b)
        /\ lazy' = IF fixed THEN LazyRemove(t, Pages(b, n)) ELSE lazy
        /\ cursor' = AdvanceTo(t, IF MmapOk(m, n) THEN b + n ELSE 0)
Mmap(t, b, n, prot, fixed) ==
    /\ Enters(t)
    /\ IF fixed THEN b + n <= VaPages
       ELSE b \in user_mmap_find_gap(t, n) /\ \A g \in user_mmap_find_gap(t, n) : b <= g
    /\ \/ prot = "none" /\ MmapLazily(t, b, n, fixed)
       \/ prot # "none" /\ MmapNow(t, b, n, prot, fixed)
    /\ UNCHANGED <<tstate, parent, word, cr3, abandoned>>
\* /dev/fb0: graphics_fb_map maps every page writable, whatever protection is
\* asked for, over whatever was there, and undoes its own mappings when a page
\* fails; lazy mappings stay.
graphics_fb_map(s, r, b, n, prot) ==
    LET upto[k \in 0 .. n] ==
            IF k = 0 THEN [mem |-> s, done |-> 0]
            ELSE LET m == upto[k - 1]
                     next == vmm_user_map(m.mem, r, b + m.done, Fb, TRUE, prot)
                 IN  IF m.done < k - 1 THEN m
                     ELSE [mem |-> next, done |-> IF HasTables(next, r, b + m.done) THEN k ELSE k - 1]
    IN  upto[n]
MmapFb(t, b, n, prot) ==
    LET m == graphics_fb_map(vm, cr3[t], b, n, prot)
    IN  /\ Enters(t)
        /\ n <= FbPages
        /\ b >= MmapMin /\ b + n <= VaPages
        /\ Cardinality(m.mem.lost) <= MaxLost
        /\ vm' = IF MmapOk(m, n) THEN m.mem ELSE vmm_user_unmap(m.mem, cr3[t], Pages(b, m.done))
        /\ cursor' = IF MmapOk(m, n) THEN AdvanceTo(t, b + n) ELSE cursor
        /\ UNCHANGED <<tstate, parent, word, cr3, lazy, abandoned>>

\* A range that starts in the frame buffer goes to graphics_fb_unmap, which
\* refuses more pages than the frame buffer has, unmaps up to the first page
\* that is not mapped and frees nothing: ordinary pages of the range are lost.
graphics_fb_unmap(s, r, b, n) ==
    LET A == {a \in Pages(b, n) : \A c \in b .. a : Mapped(s, r, c)}
    IN  IF n > FbPages THEN s
        ELSE [vmm_user_unmap(s, r, A) EXCEPT !.lost = @ \cup ({s.as[r].pte[a].page : a \in A} \cap Page)]
Munmap(t, b, n) ==
    /\ Enters(t)
    /\ b + n <= VaPages
    /\ IF vm.as[cr3[t]].pte[b].page = Fb
       THEN vm' = graphics_fb_unmap(vm, cr3[t], b, n) /\ UNCHANGED lazy
       ELSE vm' = UnmapAndFree(vm, cr3[t], Pages(b, n)) /\ lazy' = LazyRemove(t, Pages(b, n))
    /\ Cardinality(vm'.lost) <= MaxLost
    /\ UNCHANGED <<tstate, parent, word, cr3, cursor, abandoned>>

\* One page of sys_mprotect; the loop stops at the first page that fails and
\* keeps what it has done.
ProtectPage(s, r, a, prot) ==
    IF prot = "none" THEN UnmapAndFree(s, r, {a})
    ELSE IF Mapped(s, r, a) THEN vmm_user_protect(s, r, a, prot)
    ELSE MapFresh(s, r, a, prot)
PageProtectable(s, r, a, prot, isLazy) ==
    IF Mapped(s, r, a) THEN prot = "none" \/ ~ProtectFails(s, r, a, prot)
    ELSE isLazy /\ (prot = "none" \/ FreshFits(s, r, a))
ProtectRange(s, r, b, n, prot, isLazy) ==
    LET upto[k \in 0 .. n] ==
            IF k = 0 THEN [mem |-> s, ok |-> TRUE]
            ELSE LET m == upto[k - 1]
                     a == b + k - 1
                     reached == m.ok /\ (Mapped(m.mem, r, a) \/ isLazy[a])
                 IN  [mem |-> IF reached THEN ProtectPage(m.mem, r, a, prot) ELSE m.mem,
                      ok |-> reached /\ PageProtectable(m.mem, r, a, prot, isLazy[a])]
    IN  upto[n].mem
Mprotect(t, b, n, prot) ==
    /\ Enters(t)
    /\ b + n <= VaPages
    /\ lazy' = LazySetProt(t, Pages(b, n), prot)
    /\ vm' = ProtectRange(vm, cr3[t], b, n, prot, [a \in Va |-> lazy[t][a] # "unset"])
    /\ UNCHANGED <<tstate, parent, word, cr3, cursor, abandoned>>

(***************************************************************************)
(* clone, fork, execve and the reaping of a zombie.  The new task takes    *)
(* the first unused slot; fork makes it as a sharer of the parent's cr3    *)
(* and undoes that when the space cannot be copied.                        *)
(***************************************************************************)
Slot == CHOOSE c \in Task \ Used : \A d \in Task \ Used : c <= d
Spawn(t, root) == /\ tstate' = [tstate EXCEPT ![Slot] = "live"]
                  /\ parent' = [parent EXCEPT ![Slot] = t]
                  /\ cr3' = [cr3 EXCEPT ![Slot] = root]
                  /\ lazy' = [lazy EXCEPT ![Slot] = lazy[t]]
                  /\ cursor' = [cursor EXCEPT ![Slot] = cursor[t]]
Clone(t) == /\ Enters(t)
            /\ Used # Task
            /\ Spawn(t, cr3[t])
            /\ UNCHANGED <<vm, word, abandoned>>
Fork(t) == /\ Enters(t)
           /\ Used # Task
           /\ vm' = vmm_user_space_clone(vm, cr3[t])
           /\ IF CloneSucceeds(vm, cr3[t]) THEN Spawn(t, ClonedRoot(vm))
              ELSE UNCHANGED <<tstate, parent, cr3, lazy, cursor>>
           /\ UNCHANGED <<word, abandoned>>

\* The new image is loaded into a space of its own.  Whatever goes wrong
\* after n pages of it, the space stays behind.
NewImage(n) == LoadPages(vmm_user_space_create(vm), PickRoot(vm), n)
ExecFails(t, n) == /\ Enters(t)
                   /\ PickRoot(vm) # NoPage
                   /\ Cardinality(abandoned) < MaxAbandoned
                   /\ vm' = NewImage(n)
                   /\ abandoned' = abandoned \cup {PickRoot(vm)}
                   /\ UNCHANGED <<tstate, parent, word, cr3, lazy, cursor>>
DestroysSharedSpace(t) ==
    LET new == PickRoot(vm)
    IN  /\ Live(t)
        /\ new # NoPage
        /\ Loaded(NewImage(Image), new)
        /\ vm' = vmm_user_space_destroy(NewImage(Image), cr3[t])
        /\ cr3' = [cr3 EXCEPT ![t] = new]
        /\ sysCr3' = new
        /\ lazy' = [lazy EXCEPT ![t] = [a \in Va |-> "unset"]]
        /\ cursor' = [cursor EXCEPT ![t] = MmapMin]
        /\ UNCHANGED <<tstate, parent, word, abandoned>>   \* mutant
KeepsOldSpace(t) ==
    LET new == PickRoot(vm)
    IN  /\ Live(t)
        /\ new # NoPage
        /\ Loaded(NewImage(Image), new)
        /\ vm' = NewImage(Image)
        /\ cr3' = [cr3 EXCEPT ![t] = new]
        /\ sysCr3' = new
        /\ lazy' = [lazy EXCEPT ![t] = [a \in Va |-> "unset"]]
        /\ cursor' = [cursor EXCEPT ![t] = MmapMin]
        /\ UNCHANGED <<tstate, parent, word, abandoned>>   \* mutant
Exec(t) ==
    LET new == PickRoot(vm)
    IN  /\ Live(t)
        /\ new # NoPage
        /\ Loaded(NewImage(Image), new)
        /\ vm' = IF task_cr3_is_shared(t) THEN NewImage(Image)
                 ELSE vmm_user_space_destroy(NewImage(Image), cr3[t])
        /\ cr3' = [cr3 EXCEPT ![t] = new]
        /\ sysCr3' = new
        /\ lazy' = [lazy EXCEPT ![t] = [a \in Va |-> "unset"]]
        /\ cursor' = [cursor EXCEPT ![t] = MmapMin]
        /\ UNCHANGED <<tstate, parent, word, abandoned>>

\* A parent u reaps its zombie child t: in a wait4, with a status word in its
\* own space or without, or at its next system call after the child's end has
\* woken it.  The data of an unused slot is dead, and whoever had t as parent
\* has none.
Reap(u, t, a, v) ==
    LET s == user_copy_to(vm, cr3[u], cr3[u], a, v)
    IN  /\ Enters(u)
        /\ tstate[t] = "zombie" /\ parent[t] = u
        /\ StoreLands(vm, cr3[u], a)
        /\ vm' = IF cr3[t] = cr3[Root] \/ task_cr3_is_shared(t) THEN s
                 ELSE vmm_user_space_destroy(s, cr3[t])
        /\ tstate' = [tstate EXCEPT ![t] = "unused"]
        /\ parent' = [c \in Task |-> IF c = t \/ parent[c] = t THEN NoTask ELSE parent[c]]
        /\ cr3' = [cr3 EXCEPT ![t] = NoPage]
        /\ lazy' = [lazy EXCEPT ![t] = [x \in Va |-> "unset"]]
        /\ cursor' = [cursor EXCEPT ![t] = MmapMin]
        /\ UNCHANGED <<word, abandoned>>

Word == Va \cup {NoWord}
VmmNext ==
    \E t \in Task :
        \/ \E a \in Va, v \in Value : UserWrite(t, a, v) \/ \E u \in Task : CopyToUser(t, u, a, v)
        \/ \E a \in Va : UserRead(t, a)
        \/ \E a \in Word : Wait4(t, a)
        \/ Sleep(t)
        \/ Interrupted(t)
        \/ \E tid \in Word, st \in Status(t) : Exit(t, tid, st) \/ UserFault(t, tid, st)
        \/ \E st \in Status(t) : TimerKill(t, st)
        \/ SignalKill(t)
        \/ \E b \in Va, n \in 1 .. MaxLen, prot \in Asked, fixed \in BOOLEAN : Mmap(t, b, n, prot, fixed)
        \/ \E b \in Va, n \in 1 .. MaxLen, prot \in Asked : MmapFb(t, b, n, prot)
        \/ \E b \in Va, n \in 1 .. MaxLen : Munmap(t, b, n)
        \/ \E b \in Va, n \in 1 .. MaxLen, prot \in Asked : Mprotect(t, b, n, prot)
        \/ Clone(t)
        \/ Fork(t)
        \/ Exec(t)
        \/ \E n \in 0 .. Image : ExecFails(t, n)
        \/ \E u \in Task, a \in Word, v \in Value : Reap(t, u, a, v)
VmmSpec == VmmInit /\ [][VmmNext]_vmmVars

-----------------------------------------------------------------------------
\* Memory, page tables and per-task data stay within their types, and every
\* used task and the last system call name a space that exists.
VmmTypeOK ==
    /\ vm.free \in 0 .. Memory
    /\ vm.refs \in [Page -> 0 .. RefMax]
    /\ vm.mem \in [Page -> Value]
    /\ vm.lost \subseteq Page /\ vm.breach \subseteq Page
    /\ Roots(vm) \subseteq Cr3
    /\ \A r \in Roots(vm) : vm.as[r] \in Space
    /\ tstate \in [Task -> {"unused", "live", "waiting", "zombie"}]
    /\ parent \in [Task -> Task \cup {NoTask}]
    /\ word \in [Task -> Word]
    /\ \A t \in Used : cr3[t] \in Roots(vm)
    /\ sysCr3 \in Roots(vm)
    /\ lazy \in [Task -> [Va -> LazyProt]]
    /\ cursor \in [Task -> MmapMin .. VaPages]

\* The reference count of a page is the number of leaf entries that map it:
\* no page is freed while a process still maps it, and none is kept for
\* nothing but those in lost (a frame buffer mapping was put over them, they
\* were unmapped together with the frame buffer, or the ELF loader dropped
\* them).
Uses(p) == Cardinality({x \in Roots(vm) \X Va : vm.as[x[1]].pte[x[2]].page = p})
RefsCountMappings ==
    \A p \in Page : /\ vm.refs[p] >= Uses(p)
                    /\ vm.refs[p] = Uses(p) \/ p \in vm.lost

\* Every page is free, a root or a table of a space, or a page of data: no
\* error path of map, clone or destroy loses or frees twice a page table.
PagesAccounted ==
    Memory = vm.free + Cardinality({p \in Page : vm.refs[p] > 0}) + Cardinality(Roots(vm))
             + Cardinality({x \in Roots(vm) \X Table : x[2] \in vm.as[x[1]].tab})

\* What a process reads is what it, or its parent before the fork, stored
\* there last; no store of another process shows.  The exceptions are the
\* pages of breach: vmm_user_protect made them writable while they were
\* shared, or user_copy_to stored there, in the space of the last system call,
\* a word of a task of another space: the tid word of a task that faults, the
\* wait4 status word of its parent (for a task that exits, too) or the signal
\* frame of the task that a system call switches to.
Isolation ==
    \A r \in Roots(vm), a \in Va :
        LET p == vm.as[r].pte[a].page
        IN  p \in Page \ vm.breach => vm.mem[p] = vm.as[r].view[a]

\* Protection is what the program asked for last: what it asked for as
\* read-write can be written, at once or after a copy; a page of memory that
\* it asked for as read-only cannot become writable through the copy-on-write
\* path, and one without any access is not mapped.  A page of the frame buffer
\* is writable whatever the program asked for.
ProtectionHonoured ==
    \A r \in Roots(vm), a \in Va :
        LET e == vm.as[r].pte[a]
            asked == vm.as[r].prot[a]
        IN  Mapped(vm, r, a) =>
                /\ asked = "rw" => e.w \/ e.cow
                /\ e.page # Fb => asked # "none" /\ (e.w \/ e.cow => asked = "rw")

\* A space exists as long as a task that is not reaped runs in it and is
\* destroyed with the last one, unless a failed execve left it behind.
SpacesOwned == \A r \in Roots(vm) : r \in abandoned \/ \E t \in Used : cr3[t] = r

\* Tasks of one address space agree on its lazy mappings and on its cursor,
\* of which each has a copy.
SharersAgree == \A t, u \in Used : cr3[t] = cr3[u] => lazy[t] = lazy[u] /\ cursor[t] = cursor[u]

\* An unrecoverable fault ends the process that faulted and no other: what
\* other address spaces hold in pages of their own does not change, but for
\* the status word that the parent waits for (isr_handler says "terminate only
\* that process").
FaultHarmsOnlyItself ==
    [][\A t \in Task :
          (\E tid \in Word, st \in Status(t) : UserFault(t, tid, st)) =>
              \A r \in Roots(vm) \ {cr3[t]}, a \in Va :
                  \/ vm.as[r].pte[a].page \notin Page \ vm.breach
                  \/ ParentWaits(t) /\ r = cr3[parent[t]] /\ a = word[parent[t]]
                  \/ vm'.mem[vm'.as[r].pte[a].page] = vm.mem[vm.as[r].pte[a].page]]_vmmVars
=============================================================================
