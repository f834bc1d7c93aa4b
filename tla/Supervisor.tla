----------------------------- MODULE Supervisor -----------------------------
(***************************************************************************)
(* The supervisor's program (firmware/tasks/supervisor) as task 0 of the   *)
(* kernel, among tasks with arbitrary programs.  It restarts the tasks     *)
(* that fault, and hibernates and restores memory regions for the region   *)
(* hibernation module.  A step of the program is one system call.          *)
(***************************************************************************)
EXTENDS Kernel

CONSTANT
    HibernationTask   \* sysmodule_region_hibernation, or N if not in the build

ASSUME SupervisorAssumption == HibernationTask \in Task \cup {N}

VARIABLES
    pc,          \* "recv", "receiving", "faults", "restart", "message" or "reply"
    next_task,   \* where the next search for a faulted task starts
    fault_index, \* the faulted task that was found
    sender       \* the sender of the message in hand

program == <<pc, next_task, fault_index, sender>>
svars == <<vars, program>>

SInit ==
    /\ Init
    /\ pc = "recv" /\ next_task = 1 /\ fault_index = 0 /\ sender = None

\* sys_recv_open(buf, FAULT_NOTIFICATION): a pending notification comes first.
s_recv ==
    /\ pc = "recv"
    /\ recv(Supervisor, None, "ok", TRUE)
    /\ pc' = IF tasks[Supervisor].notified THEN "faults" ELSE "receiving"
    /\ next_task' = 1
    /\ UNCHANGED <<fault_index, sender>>

\* The tasks whose messages the step delivers to the supervisor.
Me == current_id(tasks, Supervisor)
NewlyReceived ==
    {a \in Task : ~Waits(tasks[a], "InReply", Me) /\ Waits(tasks'[a], "InReply", Me)}

\* How a step of anyone else ends the receive the supervisor is in.
Receive ==
    \/ /\ pc = "receiving" /\ NewlyReceived # {}
       /\ pc' = "message"
       /\ \E a \in NewlyReceived : sender' = current_id(tasks, a)
       /\ UNCHANGED <<next_task, fault_index>>
    \/ /\ pc = "receiving" /\ NewlyReceived = {}
       /\ Fires(tasks[Supervisor]) /\ is_runnable(tasks'[Supervisor])
       /\ pc' = "faults" /\ next_task' = 1
       /\ UNCHANGED <<fault_index, sender>>
    \/ /\ pc = "receiving" => /\ NewlyReceived = {}
                              /\ ~(Fires(tasks[Supervisor]) /\ is_runnable(tasks'[Supervisor]))
       /\ UNCHANGED program

FaultedFrom_AnyFault(n) == {t \in Task : t >= n /\ tasks[t].fault # NoFault}

FaultedFrom_After(n) == {t \in Task : t > n /\ tasks[t].kind = "Faulted"}

FaultedFrom(n) == {t \in Task : t >= n /\ tasks[t].kind = "Faulted"}

\* find_faulted_task(next_task), which is 0 when there is none.
s_find ==
    /\ Running(Supervisor) /\ pc = "faults"
    /\ \/ /\ FaultedFrom(next_task) = {}
          /\ pc' = "recv" /\ UNCHANGED fault_index
       \/ /\ FaultedFrom(next_task) # {}
          /\ pc' = "restart"
          /\ fault_index' = CHOOSE t \in FaultedFrom(next_task) :
                                \A u \in FaultedFrom(next_task) : t <= u
    /\ UNCHANGED <<vars, next_task, sender>>

s_restart_SkipsOne ==
    /\ pc = "restart"
    /\ reinit_task(Supervisor, fault_index, TRUE)
    /\ pc' = "faults" /\ next_task' = fault_index + 2
    /\ UNCHANGED <<fault_index, sender>>

\* reinitialize_task(fault_index, Runnable); the reads of its status before it
\* change nothing.
s_restart ==
    /\ pc = "restart"
    /\ reinit_task(Supervisor, fault_index, TRUE)
    /\ pc' = "faults" /\ next_task' = fault_index + 1
    /\ UNCHANGED <<fault_index, sender>>

\* The replies of the handlers.
s_reply ==
    /\ pc \in {"message", "reply"}
    /\ reply(Supervisor, sender, "ok")
    /\ pc' = "recv" /\ sender' = None
    /\ UNCHANGED <<next_task, fault_index>>

acl_check_hibernation == sender.index = HibernationTask

\* handle_hibernate_region, handle_restore_region, and the transfer of bytes
\* that read and write a hibernated region, up to the reply.
s_hibernation_Unanswered ==
    /\ pc = "message" /\ acl_check_hibernation
    /\ \/ \E r \in Region : hibernate_region(r)
       \/ \E r \in Region, event \in 0..EventLimit, mode \in {"Restored", "Lost"} :
             restore_region(r, event, mode)
    /\ pc' = "recv"
    /\ UNCHANGED <<next_task, fault_index, sender>>

s_hibernation ==
    /\ pc = "message" /\ acl_check_hibernation
    /\ \/ \E r \in Region : hibernate_region(r)
       \/ \E r \in Region, event \in 0..EventLimit, mode \in {"Restored", "Lost"} :
             restore_region(r, event, mode)
       \/ \E lease \in Region \cup {"none", "memory", "table"} :
             borrow(Supervisor, sender, "ok", lease)
    /\ pc' = "reply"
    /\ UNCHANGED <<next_task, fault_index, sender>>

Program == s_recv \/ s_find \/ s_restart \/ s_reply \/ s_hibernation

InKernel == (recv_scan \/ reconcile_ipc) /\ Receive

Others ==
    \/ (\E t \in Task \ {Supervisor} : Syscall(t)) /\ Receive
    \/ (\E S \in SUBSET Task \ {{}} : Interrupt(S)) /\ Receive

SNext == Program \/ InKernel \/ Others

SSpec == SInit /\ [][SNext]_svars

(***************************************************************************)
(* A system call that has begun ends, and the program of the running       *)
(* supervisor goes on: the supervisor has the highest priority, and no     *)
(* loop in its program waits for anything but the kernel.  Nothing is      *)
(* assumed of the other tasks or of interrupts.                            *)
(***************************************************************************)
LiveSpec == SSpec /\ WF_svars(Program) /\ WF_svars(InKernel)

-----------------------------------------------------------------------------
\* Type correctness of the supervisor's program.
STypeOK ==
    /\ pc \in {"recv", "receiving", "faults", "restart", "message", "reply"}
    /\ next_task \in 1..N /\ fault_index \in Task
    /\ sender \in TaskId \cup {None}

\* Every faulted task is in hand: a fault notification is pending, or the
\* search is yet to come to the task.
FaultsInHand ==
    \A t \in Task : tasks[t].kind = "Faulted" =>
        \/ tasks[Supervisor].notified
        \/ pc = "faults" /\ t >= next_task
        \/ pc = "restart" /\ t >= fault_index

\* A restart is never refused because the task is suspended: what is found
\* faulted is still faulted when it is restarted.
RestartsFaulted == pc = "restart" /\ kernel = User => tasks[fault_index].kind = "Faulted"

\* A task that faults is restarted in the end, whatever the others do.
FaultedRestarted ==
    \A t \in Task : tasks[t].kind = "Faulted" ~> tasks[t].kind # "Faulted"

\* Every message that the supervisor takes is answered.
MessagesAnswered ==
    \A t \in Task : Waits(tasks[t], "InReply", current_id(tasks, Supervisor))
        ~> ~Waits(tasks[t], "InReply", current_id(tasks, Supervisor))
=============================================================================
