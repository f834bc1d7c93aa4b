------------------------------- MODULE Kernel -------------------------------
(***************************************************************************)
(* The microkernel (firmware/hubris/kern): tasks, synchronous IPC,         *)
(* notifications, faults and restarts, and what this fork adds to it, the  *)
(* suspension of tasks whose memory is hibernated.                         *)
(*                                                                         *)
(* One action is one system call of the running task, or one interrupt.    *)
(* The kernel is not preemptible, so a call is atomic; the two loops in it *)
(* whose iterations depend on each other, the scan of an open receive and  *)
(* reconcile_ipc, run one iteration per step, and nothing else is enabled  *)
(* until they end (variable kernel).                                       *)
(*                                                                         *)
(* User programs are arbitrary within the constants below, except the      *)
(* supervisor (task 0), which does not fault.  A slice of memory in a      *)
(* system call's arguments is "ok", "usage" (malformed) or "memory" (not   *)
(* accessible to the task that names it).  The notification word is one    *)
(* bit.                                                                    *)
(***************************************************************************)
EXTENDS Integers

CONSTANTS
    N,             \* tasks 0..N-1; N stands for the idle task
    Generations,   \* generation numbers before they wrap (64 in the code)
    Priority,      \* of each task; a smaller number is more important
    Region,        \* the hibernation regions of the build
    Overlaps,      \* Overlaps[r]: the tasks with memory in region r
    Protected,     \* tasks flagged PROTECTED
    EventLimit,    \* event generations are below EventLimit (2^27 in the code)
    Callees,       \* Callees[t]: the tasks that t's program sends to
    Slices,        \* the kinds of slices programs pass
    KernelCallers, \* tasks whose programs restart and fault other tasks
    ReplyFaulters, \* tasks whose programs use reply_fault
    Debugged       \* tasks that the supervisor suspends and restores

Task == 0..(N - 1)
Supervisor == 0
Idle == N

ASSUME KernelAssumption ==
    /\ N \in Nat \ {0}
    /\ Generations \in Nat \ {0, 1}
    /\ Priority \in [Task -> Nat]
    /\ Overlaps \in [Region -> SUBSET Task]
    /\ EventLimit \in Nat
    /\ Callees \in [Task -> SUBSET Task] /\ Callees[Supervisor] = {}
    /\ Slices \subseteq {"ok", "usage", "memory"}
    /\ Debugged \subseteq Task \ {Supervisor}
    /\ {"none", "range", "table", "memory"} \cap Region = {}

VARIABLES
    tasks,    \* the task table
    regions,  \* region -> [next_generation, active]
    current,  \* the running task
    kernel,   \* where the kernel is: in user mode, or in one of its two loops
    copied    \* history: the region that the latest step, a borrow, accessed

vars == <<tasks, regions, current, kernel, copied>>

-----------------------------------------------------------------------------
(***************************************************************************)
(* The task table                                                          *)
(***************************************************************************)
TaskId == [index : Task, generation : 0..(Generations - 1)]
None == [index |-> -1, generation |-> 0]
KERNEL == [index |-> N, generation |-> 0]

NoFault == "none"
NoRegion == "none"

\* The arguments of the system call a blocked task is in.
SaveArea == [message : Slices \cup {"ok"}, response : Slices \cup {"ok"},
             buffer : Slices \cup {"ok"}, mask : BOOLEAN]
NoArgs == [message |-> "ok", response |-> "ok", buffer |-> "ok", mask |-> FALSE]

(***************************************************************************)
(* kind, sched, peer, fault, hibernated and debug are TaskState with its   *)
(* SchedState.  owed is history: the task has been told of a reply whose   *)
(* bytes are not in its memory.                                            *)
(***************************************************************************)
TaskRecord ==
    [kind : {"Healthy", "Faulted", "Suspended"},
     sched : {"Stopped", "Runnable", "InSend", "InReply", "InSuspendedReply", "InRecv"},
     peer : TaskId \cup {None, KERNEL},
     fault : {NoFault, "LostRegion", "Other"},
     hibernated : SUBSET Region, debug : BOOLEAN,
     generation : 0..(Generations - 1), notified : BOOLEAN, save : SaveArea,
     suspension_buffer : BOOLEAN, owed : BOOLEAN]

\* from_descriptor; every task of the firmware starts at boot.
from_descriptor ==
    [kind |-> "Healthy", sched |-> "Runnable", peer |-> None, fault |-> NoFault,
     hibernated |-> {}, debug |-> FALSE, generation |-> 0, notified |-> FALSE,
     save |-> NoArgs, suspension_buffer |-> FALSE, owed |-> FALSE]

\* NextTask: Specific(t) is t itself.
Same == -1
Other == -2

User == [at |-> "user", pos |-> 0, hint |-> Same]

Init ==
    /\ tasks = [t \in Task |-> from_descriptor]
    /\ regions = [r \in Region |-> [next_generation |-> 0, active |-> FALSE]]
    /\ current = Supervisor
    /\ kernel = User
    /\ copied = NoRegion

current_id(ts, t) == [index |-> t, generation |-> ts[t].generation]

\* check_task_id_against_table, for an index that is in range.
Live(ts, id) == id = current_id(ts, id.index)

is_runnable(task) == task.kind = "Healthy" /\ task.sched = "Runnable"

\* Blocked in state s on the task id, suspended or not, and without a fault.
Waits(task, s, id) == task.fault = NoFault /\ task.sched = s /\ task.peer = id

can_accept_message_from(task, id) ==
    task.kind = "Healthy" /\ task.sched = "InRecv" /\ task.peer \in {None, id}

is_sending_to(task, id) ==
    task.kind = "Healthy" /\ task.sched = "InSend" /\ task.peer = id

can_accept_notification(task) == task.fault = NoFault /\ task.sched = "InRecv"

\* set_healthy_state panics on a faulted task: kind "Panic" is the failure of
\* the kernel.  A task that may run again has no system call in progress.
set_healthy_state(ts, t, s, peer) ==
    IF ts[t].fault # NoFault
    THEN [ts EXCEPT ![t].kind = "Panic"]
    ELSE [ts EXCEPT ![t].sched = s, ![t].peer = peer,
                    ![t].save = IF s \in {"Runnable", "Stopped"} THEN NoArgs ELSE @]

Runnable(ts, t) == set_healthy_state(ts, t, "Runnable", None)

\* Task::post: the bit is taken at once by a task that is waiting for it.
Fires(task) == can_accept_notification(task) /\ task.save.mask

post_Healthy(ts, t) ==
    IF Fires(ts[t]) /\ ts[t].kind = "Healthy"
    THEN Runnable(ts, t)
    ELSE [ts EXCEPT ![t].notified = TRUE]

post(ts, t) ==
    IF Fires(ts[t]) THEN Runnable([ts EXCEPT ![t].notified = FALSE], t)
                    ELSE [ts EXCEPT ![t].notified = TRUE]

Wakes_Never(task) == FALSE

\* The value Task::post returns: a context switch may be necessary.
Wakes(task) == Fires(task) /\ task.kind # "Suspended"

-----------------------------------------------------------------------------
(***************************************************************************)
(* Scheduling and faults                                                   *)
(***************************************************************************)
combine(a, b) ==
    CASE a = b                           -> a
      [] a # b /\ a \in Task /\ b \in Task -> Other
      [] a \in Task /\ b \notin Task       -> a
      [] a \notin Task /\ b \in Task       -> b
      [] OTHER                           -> Other

\* How far the circular scan of the table that starts after previous is at t.
Distance(previous, t) == (t - previous - 1) % (N + 1)

priority_scan(previous, S) ==
    CHOOSE t \in S : \A u \in S :
        \/ Priority[t] < Priority[u]
        \/ Priority[t] = Priority[u] /\ Distance(previous, t) <= Distance(previous, u)

select(previous, ts) ==
    LET S == {t \in Task : is_runnable(ts[t])} IN
    IF S = {} THEN Idle ELSE priority_scan(previous, S)

\* The end of a system call: the new task table, and the switch it asks for.
Return(ts, hint) ==
    /\ tasks' = ts
    /\ current' = CASE hint = Same  -> current
                    [] hint = Other -> select(current, ts)
                    [] OTHER        -> hint
    /\ kernel' = User
    /\ copied' = NoRegion

\* The saved arguments of a faulted task are not read again.
SetFault(ts, t, f) ==
    [ts EXCEPT ![t].fault = f, ![t].save = NoArgs,
               ![t].kind = IF @ = "Suspended" THEN @ ELSE "Faulted"]

force_fault_Unreported(ts, t, f) == SetFault(ts, t, f)

force_fault(ts, t, f) ==
    IF ts[t].kind = "Suspended" THEN SetFault(ts, t, f)
                                ELSE post(SetFault(ts, t, f), Supervisor)

\* The NextTask that force_fault returns.
FaultHint(ts, t) ==
    IF ts[t].kind # "Suspended" /\ Wakes(ts[Supervisor]) THEN Supervisor ELSE Other

FaultIf(b, ts, t) == IF b THEN force_fault(ts, t, "Other") ELSE ts
HintIf(b, ts, t) == IF b THEN FaultHint(ts, t) ELSE Same

\* The running task misbehaved: it is faulted, and another one runs.
FaultCaller(ts) ==
    Return(force_fault(ts, current, "Other"), FaultHint(ts, current))

-----------------------------------------------------------------------------
(***************************************************************************)
(* Message delivery: deliver fails by the fault of either side, or of both *)
(* when the copy itself finds that each side named memory it cannot use.   *)
(***************************************************************************)
SenderMalformed(ts, a) == "usage" \in {ts[a].save.message, ts[a].save.response}

SrcFault(ts, a, b) ==
    \/ SenderMalformed(ts, a)
    \/ ts[a].save.message = "memory" /\ ts[b].save.buffer # "usage"

DstFault(ts, a, b) == ~SenderMalformed(ts, a) /\ ts[b].save.buffer # "ok"

Deliverable(ts, a, b) == ~SrcFault(ts, a, b) /\ ~DstFault(ts, a, b)

Delivered(ts, a, b) ==
    Runnable(set_healthy_state(ts, a, "InReply", current_id(ts, b)), b)

\* What the running task t may pass: the supervisor does not misbehave.
SlicesOf(t) == IF t = Supervisor THEN {"ok"} ELSE Slices

Running(t) == kernel = User /\ current = t

send(t, id, message, response) ==
    LET ts    == [tasks EXCEPT ![t].save = [NoArgs EXCEPT !.message = message,
                                                          !.response = response]]
        c     == id.index
        ready == can_accept_message_from(tasks[c], current_id(tasks, t))
        src   == ready /\ SrcFault(ts, t, c)
        dst   == ready /\ DstFault(ts, t, c)
    IN
    /\ Running(t) /\ c \in Callees[t]
    /\ \/ ~Live(tasks, id) /\ Return(tasks, Same)
       \/ Live(tasks, id) /\ ready /\ ~src /\ ~dst /\ Return(Delivered(ts, t, c), c)
       \/ Live(tasks, id) /\ src /\ FaultCaller(FaultIf(dst, ts, c))
       \/ /\ Live(tasks, id) /\ ~src /\ (ready => dst)
          /\ Return(set_healthy_state(FaultIf(dst, ts, c), t, "InSend", id),
                    combine(Other, HintIf(dst, ts, c)))
    /\ UNCHANGED regions

\* The task blocks: the last lines of recv.
Block(ts, t, from, hint) ==
    Return(set_healthy_state(ts, t, "InRecv", from), combine(Other, hint))

\* recv with its arguments; an open receive goes on in recv_scan.
recv(t, from, buffer, mask) ==
    LET ts  == [tasks EXCEPT ![t].save = [NoArgs EXCEPT !.buffer = buffer, !.mask = mask]]
        a   == from.index
        has == from \in TaskId /\ is_sending_to(tasks[a], current_id(tasks, t))
        src == has /\ SrcFault(ts, a, t)
        dst == has /\ DstFault(ts, a, t)
    IN
    /\ Running(t)
    /\ \/ mask /\ tasks[t].notified /\ Return([tasks EXCEPT ![t].notified = FALSE], Same)
       \/ /\ ~(mask /\ tasks[t].notified)
          /\ \/ from = KERNEL /\ Block(ts, t, from, Same)
             \/ from \in TaskId /\ ~Live(tasks, from) /\ Return(tasks, Same)
             \/ /\ from \in TaskId /\ Live(tasks, from)
                /\ \/ has /\ ~src /\ ~dst /\ Return(Delivered(ts, a, t), Same)
                   \/ dst /\ FaultCaller(FaultIf(src, ts, a))
                   \/ /\ ~dst /\ (has => src)
                      /\ Block(FaultIf(src, ts, a), t, from, HintIf(src, ts, a))
             \/ /\ from = None
                /\ tasks' = ts
                /\ kernel' = [at |-> "recv", pos |-> t, hint |-> Same]
                /\ copied' = NoRegion
                /\ UNCHANGED current
    /\ UNCHANGED regions

\* One round of an open receive's search: deliver, or fault a sender and go on.
recv_scan ==
    LET t == current
        S == {u \in Task : is_sending_to(tasks[u], current_id(tasks, t))}
        a == priority_scan(kernel.pos, S)
    IN
    /\ kernel.at = "recv"
    /\ \/ S = {} /\ Block(tasks, t, None, kernel.hint)
       \/ S # {} /\ Deliverable(tasks, a, t) /\ Return(Delivered(tasks, a, t), kernel.hint)
       \/ /\ S # {} /\ DstFault(tasks, a, t)
          /\ FaultCaller(FaultIf(SrcFault(tasks, a, t), tasks, a))
       \/ /\ S # {} /\ SrcFault(tasks, a, t) /\ ~DstFault(tasks, a, t)
          /\ tasks' = force_fault(tasks, a, "Other")
          /\ kernel' = [kernel EXCEPT !.pos = a,
                                     !.hint = combine(@, FaultHint(tasks, a))]
          /\ UNCHANGED <<current, copied>>
    /\ UNCHANGED regions

\* A client that is waiting for t's reply, suspended or not.
AwaitsReply(t, id) ==
    Live(tasks, id) /\ Waits(tasks[id.index], "InReply", current_id(tasks, t))

set_suspension_reply_Unbuffered(ts, c, from) ==
    set_healthy_state(ts, c, "InSuspendedReply", from)

\* The reply to a suspended client is kept until the client is restored.
set_suspension_reply(ts, c, from) ==
    set_healthy_state([ts EXCEPT ![c].suspension_buffer = TRUE, ![c].owed = TRUE],
                      c, "InSuspendedReply", from)

Replied(ts, c, from) ==
    IF ts[c].kind = "Suspended" THEN set_suspension_reply(ts, c, from)
                                ELSE Runnable(ts, c)

\* message is "usage" for a reply too big for the client's buffer as well.
reply(t, id, message) ==
    LET c        == id.index
        response == tasks[c].save.response
        src      == message = "usage" \/ (message = "memory" /\ response # "usage")
        dst      == /\ message # "usage"
                    /\ response = "usage" \/ (response = "memory" /\ tasks[c].kind = "Healthy")
    IN
    /\ Running(t)
    /\ \/ ~AwaitsReply(t, id) /\ Return(tasks, Same)
       \/ AwaitsReply(t, id) /\ src /\ FaultCaller(FaultIf(dst, tasks, c))
       \/ /\ AwaitsReply(t, id) /\ ~src /\ dst
          /\ Return(force_fault(tasks, c, "Other"), FaultHint(tasks, c))
       \/ /\ AwaitsReply(t, id) /\ ~src /\ ~dst
          /\ Return(Replied(tasks, c, current_id(tasks, t)), Same)
    /\ UNCHANGED regions

\* The hint of force_fault is discarded.
reply_fault(t, id) ==
    /\ Running(t) /\ t \in ReplyFaulters
    /\ \/ ~AwaitsReply(t, id) /\ Return(tasks, Same)
       \/ AwaitsReply(t, id) /\ Return(force_fault(tasks, id.index, "Other"), Same)
    /\ UNCHANGED regions

(***************************************************************************)
(* borrow_read, borrow_write and borrow_info.  lease is where the lent     *)
(* area is: in a region of the lender, in its other memory ("none"), in    *)
(* memory the lender cannot use ("memory"), behind a lease table it cannot *)
(* use ("table"), or, by the borrower's mistake, nowhere ("range").        *)
(***************************************************************************)
Hibernated_Ignored(task, lease) == FALSE

Hibernated(task, lease) == lease \in task.hibernated

borrow(t, id, buffer, lease) ==
    LET c   == id.index
        src == \/ buffer = "usage"
               \/ AwaitsReply(t, id) /\ (lease = "range" \/ (lease # "table" /\ buffer = "memory"))
        dst == buffer # "usage" /\ AwaitsReply(t, id) /\ lease \in {"table", "memory"}
    IN
    /\ Running(t) /\ (lease \in Region => c \in Overlaps[lease])
    /\ \/ src /\ FaultCaller(FaultIf(dst, tasks, c))
       \/ ~src /\ dst /\ Return(force_fault(tasks, c, "Other"), FaultHint(tasks, c))
       \/ /\ ~src /\ ~dst
          /\ tasks' = tasks /\ current' = current /\ kernel' = User
          /\ copied' = IF AwaitsReply(t, id) /\ ~Hibernated(tasks[c], lease)
                       THEN lease ELSE NoRegion
    /\ UNCHANGED regions

\* The POST system call; set_timer with a deadline that has passed posts to t.
sys_post(t, id) ==
    /\ Running(t)
    /\ \/ ~Live(tasks, id) /\ Return(tasks, Same)
       \/ /\ Live(tasks, id)
          /\ Return(post(tasks, id.index),
                    IF Wakes(tasks[id.index]) /\ Priority[id.index] < Priority[t]
                    THEN id.index ELSE Same)
    /\ UNCHANGED regions

\* explicit_panic, a processor fault, or a call only the supervisor may make.
panic(t) == Running(t) /\ t # Supervisor /\ FaultCaller(tasks) /\ UNCHANGED regions

\* Interrupts and expired timers post to the tasks in S; PendSV reschedules.
Interrupt(S) ==
    /\ kernel = User
    /\ Return([t \in Task |-> IF t \in S THEN post(tasks, t)[t] ELSE tasks[t]],
              IF \E t \in S : Wakes(tasks[t]) THEN Other ELSE Same)
    /\ UNCHANGED regions

-----------------------------------------------------------------------------
(***************************************************************************)
(* Messages to the kernel: restarting, faulting, hibernating, suspending   *)
(***************************************************************************)
\* Task::reinitialize, started or left stopped.
reinitialize(task, start) ==
    [task EXCEPT !.kind = "Healthy", !.sched = IF start THEN "Runnable" ELSE "Stopped",
                 !.peer = None, !.fault = NoFault, !.hibernated = {}, !.debug = FALSE,
                 !.generation = (@ + 1) % Generations, !.notified = FALSE,
                 !.save = NoArgs, !.owed = FALSE]

\* Tasks that wait for the incarnation that ends are told of its death.
WaitsFor_HealthyOnly(task, id) ==
    task.kind = "Healthy" /\ \E s \in {"InRecv", "InSend", "InReply"} : Waits(task, s, id)

WaitsFor(task, id) == \E s \in {"InRecv", "InSend", "InReply"} : Waits(task, s, id)

reinit_task(t, i, start) ==
    LET old == current_id(tasks, i) IN
    /\ Running(t) /\ t \in KernelCallers /\ i # Supervisor
    /\ \/ tasks[i].kind = "Suspended" /\ Return(tasks, Same)
       \/ /\ tasks[i].kind # "Suspended"
          /\ Return([u \in Task |->
                        CASE u = i -> reinitialize(tasks[u], start)
                          [] u \notin {t, i} /\ WaitsFor(tasks[u], old)
                               -> Runnable(tasks, u)[u]
                          [] OTHER -> tasks[u]],
                    IF i = t /\ ~start THEN Other ELSE Same)
    /\ UNCHANGED regions

fault_task(t, i) ==
    /\ Running(t) /\ t \in KernelCallers /\ i \notin {Supervisor, t}
    /\ Return(force_fault(tasks, i, "Other"), Same)
    /\ UNCHANGED regions

overlaps_protected_memory(r) == Overlaps[r] \cap (Protected \cup {Supervisor}) # {}

Suspend_Replaces(task, r) ==
    [task EXCEPT !.kind = "Suspended", !.hibernated = {r}, !.debug = FALSE]

Suspend_AsHealthy(task, r) ==
    [task EXCEPT !.kind = "Suspended", !.hibernated = @ \cup {r}, !.fault = NoFault]

\* Task::hibernate_region, for a task with memory in r.
Suspend(task, r) ==
    IF task.kind = "Suspended"
    THEN [task EXCEPT !.hibernated = @ \cup {r}]
    ELSE [task EXCEPT !.kind = "Suspended", !.hibernated = {r}, !.debug = FALSE]

CanHibernate(r) ==
    /\ ~overlaps_protected_memory(r)
    /\ ~regions[r].active
    /\ regions[r].next_generation < EventLimit

hibernate_region(r) ==
    /\ Running(Supervisor)
    /\ \/ ~CanHibernate(r) /\ Return(tasks, Same) /\ UNCHANGED regions
       \/ /\ CanHibernate(r)
          /\ Return([u \in Task |-> IF u \in Overlaps[r] THEN Suspend(tasks[u], r)
                                                        ELSE tasks[u]], Same)
          /\ regions' = [regions EXCEPT ![r].next_generation = @ + 1, ![r].active = TRUE]

\* The end of a suspension; the kernel panics on a buffer that fits no reply.
ToFaulted(task, f) ==
    [task EXCEPT !.kind = "Faulted", !.fault = f, !.save = NoArgs, !.suspension_buffer = FALSE]

ReplyWritten_Forgotten(task) ==
    [task EXCEPT !.kind = "Healthy", !.sched = "Runnable", !.peer = None,
                 !.save = NoArgs, !.suspension_buffer = FALSE]

ReplyWritten(task) ==
    [task EXCEPT !.kind = "Healthy", !.sched = "Runnable", !.peer = None,
                 !.save = NoArgs, !.suspension_buffer = FALSE, !.owed = FALSE]

try_restore(task) ==
    CASE task.kind # "Suspended" \/ task.hibernated # {} \/ task.debug -> task
      [] OTHER ->
         CASE task.fault # NoFault -> ToFaulted(task, task.fault)
           [] task.fault = NoFault /\ task.suspension_buffer # (task.sched = "InSuspendedReply")
                -> [task EXCEPT !.kind = "Panic"]
           [] task.fault = NoFault /\ task.suspension_buffer /\ task.sched = "InSuspendedReply"
                -> IF task.save.response = "ok" THEN ReplyWritten(task)
                                                ELSE ToFaulted(task, "Other")
           [] OTHER -> [task EXCEPT !.kind = "Healthy"]

\* Task::restore_region
RegionRestored(task, r, mode) ==
    IF task.kind # "Suspended" THEN task
    ELSE try_restore([task EXCEPT
             !.hibernated = @ \ {r},
             !.fault = IF r \in task.hibernated /\ mode = "Lost" THEN "LostRegion" ELSE @,
             !.save = IF r \in task.hibernated /\ mode = "Lost" THEN NoArgs ELSE @])

Restored_Silent(ts) ==
    /\ tasks' = ts
    /\ kernel' = [at |-> "reconcile", pos |-> 0, hint |-> Same]
    /\ copied' = NoRegion
    /\ UNCHANGED current

\* The supervisor is told if some task came back faulted; reconcile_ipc follows.
Restored(ts) ==
    LET faulted == \E t \in Task : tasks[t].kind = "Suspended" /\ ts[t].kind = "Faulted" IN
    /\ tasks' = IF faulted THEN post(ts, Supervisor) ELSE ts
    /\ kernel' = [at |-> "reconcile", pos |-> 0, hint |-> Same]
    /\ copied' = NoRegion
    /\ UNCHANGED current

IsEvent(r, event) == regions[r].active /\ event = regions[r].next_generation - 1

restore_region(r, event, mode) ==
    /\ Running(Supervisor)
    /\ \/ ~IsEvent(r, event) /\ Return(tasks, Same) /\ UNCHANGED regions
       \/ /\ IsEvent(r, event)
          /\ Restored([t \in Task |-> RegionRestored(tasks[t], r, mode)])
          /\ regions' = [regions EXCEPT ![r].active = FALSE]

\* Task::request_debug
suspend_task(i) ==
    /\ Running(Supervisor) /\ i \in Debugged
    /\ Return([tasks EXCEPT ![i].kind = "Suspended", ![i].debug = TRUE], Same)
    /\ UNCHANGED regions

\* Task::disable_debug
restore_task(i) ==
    /\ Running(Supervisor) /\ i \in Debugged
    /\ Restored([tasks EXCEPT ![i] = IF @.kind = "Suspended"
                                     THEN try_restore([@ EXCEPT !.debug = FALSE]) ELSE @])
    /\ UNCHANGED regions

\* find_sender: the senders among which reconcile_ipc takes one for receiver i.
Senders(i) ==
    {a \in Task : /\ tasks[i].peer = None \/ tasks[i].peer.index = a
                  /\ is_sending_to(tasks[a], current_id(tasks, i))}

deliver_or_fault(ts, a, b) ==
    IF Deliverable(ts, a, b) THEN Delivered(ts, a, b)
    ELSE FaultIf(DstFault(ts, a, b), FaultIf(SrcFault(ts, a, b), ts, a), b)

\* Whether reconcile_ipc has a message to deliver to i, or from i.
Receives(i) ==
    tasks[i].kind = "Healthy" /\ tasks[i].sched = "InRecv" /\ Senders(i) # {}

Sends(i) ==
    /\ tasks[i].kind = "Healthy" /\ tasks[i].sched = "InSend"
    /\ Live(tasks, tasks[i].peer)
    /\ can_accept_message_from(tasks[tasks[i].peer.index], current_id(tasks, i))

reconcile_ipc_Skipped ==
    /\ kernel.at = "reconcile" /\ kernel' = User
    /\ UNCHANGED <<tasks, regions, current, copied>>

\* One iteration of reconcile_ipc; after the last one the call returns.
reconcile_ipc ==
    LET i == kernel.pos IN
    /\ kernel.at = "reconcile"
    /\ \/ Receives(i) /\ tasks' = deliver_or_fault(tasks, priority_scan(i, Senders(i)), i)
       \/ Sends(i) /\ tasks' = deliver_or_fault(tasks, i, tasks[i].peer.index)
       \/ ~Receives(i) /\ ~Sends(i) /\ UNCHANGED tasks
    /\ kernel' = IF i = N - 1 THEN User ELSE [kernel EXCEPT !.pos = i + 1]
    /\ UNCHANGED <<regions, current, copied>>

-----------------------------------------------------------------------------
\* Ids of the tasks that t's program names: t's servers, and t's clients.
Ids(S) == {id \in TaskId : id.index \in S}
Clients(t) == {u \in Task : t \in Callees[u]}

Syscall(t) ==
    \/ \E id \in Ids(Callees[t]), m, p \in SlicesOf(t) : send(t, id, m, p)
    \/ \E from \in Ids(Clients(t)) \cup {None, KERNEL}, b \in SlicesOf(t), mask \in BOOLEAN :
           recv(t, from, b, mask)
    \/ \E id \in Ids(Clients(t)), m \in SlicesOf(t) : reply(t, id, m)
    \/ \E id \in Ids(Clients(t)) : reply_fault(t, id)
    \/ \E id \in Ids(Clients(t)), b \in SlicesOf(t),
          lease \in Region \cup {"none", "memory", "table"}
                          \cup (IF t = Supervisor THEN {} ELSE {"range"}) :
           borrow(t, id, b, lease)
    \/ \E id \in TaskId : sys_post(t, id)
    \/ panic(t)
    \/ \E i \in Task, start \in BOOLEAN : reinit_task(t, i, start)
    \/ \E i \in Task : fault_task(t, i)

SupervisorCall ==
    \/ \E r \in Region : hibernate_region(r)
    \/ \E r \in Region, event \in 0..EventLimit, mode \in {"Restored", "Lost"} :
           restore_region(r, event, mode)
    \/ \E i \in Task : suspend_task(i) \/ restore_task(i)

Next ==
    \/ \E t \in Task : Syscall(t)
    \/ SupervisorCall
    \/ recv_scan
    \/ reconcile_ipc
    \/ \E S \in SUBSET Task \ {{}} : Interrupt(S)

Spec == Init /\ [][Next]_vars

-----------------------------------------------------------------------------
(***************************************************************************)
(* Properties                                                              *)
(***************************************************************************)
\* Type correctness.  No task is of kind "Panic": the panics of
\* set_healthy_state and try_restore are unreachable.
TypeOK ==
    /\ tasks \in [Task -> TaskRecord]
    /\ regions \in [Region -> [next_generation : 0..EventLimit, active : BOOLEAN]]
    /\ current \in Task \cup {Idle}
    /\ kernel \in [at : {"user", "recv", "reconcile"}, pos : Task,
                   hint : Task \cup {Same, Other}]
    /\ copied \in Region \cup {NoRegion}

\* A buffered reply belongs to a suspended task whose send has been replied
\* to, and such a task has one unless a fault made it void: what the two
\* panics of try_restore assert.
BufferMatchesState ==
    \A t \in Task :
        LET replied == tasks[t].kind = "Suspended" /\ tasks[t].sched = "InSuspendedReply" IN
        /\ tasks[t].suspension_buffer => replied
        /\ tasks[t].sched = "InSuspendedReply" /\ tasks[t].fault = NoFault
              => replied /\ tasks[t].suspension_buffer

\* While a region is hibernated, every task with memory in it is suspended on
\* its account, and a task is suspended on no other account but a debugger's.
HibernationIsolates ==
    \A t \in Task :
        /\ tasks[t].hibernated = {r \in Region : t \in Overlaps[r] /\ regions[r].active}
        /\ tasks[t].kind = "Suspended" <=> tasks[t].hibernated # {} \/ tasks[t].debug

\* No borrow reads or writes a region that is hibernated.
NoHibernatedCopy == copied \in Region => ~regions[copied].active

\* A task that a fault has not stopped does not wait for a message or a reply
\* of an incarnation that is gone: reinit_task unblocks it, suspended or not.
NoWaitOnDead ==
    \A t \in Task :
        /\ tasks[t].fault = NoFault /\ tasks[t].sched \in {"InSend", "InReply", "InRecv"}
        /\ tasks[t].peer \in TaskId
        => Live(tasks, tasks[t].peer)

\* Out of the kernel, no sender and receiver wait for each other: the system
\* call, or reconcile_ipc for tasks that come back, has delivered the message.
NoMissedRendezvous ==
    kernel = User =>
        ~ \E a, b \in Task : /\ is_sending_to(tasks[a], current_id(tasks, b))
                             /\ can_accept_message_from(tasks[b], current_id(tasks, a))

\* A task that runs has the bytes of every reply it was told of.
RepliesArrive == \A t \in Task : tasks[t].kind = "Healthy" => ~tasks[t].owed

\* "No notifications, nobody waiting to send -- block the caller": no task is
\* blocked in a receive that asks for a notification which is pending.
BlockedHasNoNotification(S) ==
    \A t \in S : kernel = User /\ Fires(tasks[t]) => ~tasks[t].notified
NotificationsHeard == BlockedHasNoNotification(Task \ {Supervisor})
SupervisorHears == BlockedHasNoNotification({Supervisor})

\* "the scheduler invariant that the highest priority task is always running"
HighestPriorityRuns ==
    kernel = User => \A t \in Task : is_runnable(tasks[t]) =>
        current \in Task /\ Priority[current] <= Priority[t]

\* A fault is cleared by a restart only, through any suspension and restore.
FaultStays ==
    [][\A t \in Task : tasks[t].fault # NoFault /\ tasks'[t].fault = NoFault
           => tasks'[t].generation # tasks[t].generation]_vars

\* The supervisor is told of every task that becomes faulted, be it by its own
\* fault or by the end of a suspension during which it had faulted.
FaultsReported ==
    [][(\E t \in Task : tasks[t].kind # "Faulted" /\ tasks'[t].kind = "Faulted")
           => \/ tasks'[Supervisor].notified
              \/ Fires(tasks[Supervisor]) /\ is_runnable(tasks'[Supervisor])]_vars

=============================================================================
