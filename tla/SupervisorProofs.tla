-------------------------- MODULE SupervisorProofs --------------------------
(***************************************************************************)
(* The promises of the supervisor's program, for every number of tasks and *)
(* every program of the others: the kernel's invariants hold under it, no  *)
(* faulted task escapes it, and what it restarts is faulted.               *)
(*                                                                         *)
(* The kernel's own invariant is the basis.  What is added is how a step   *)
(* of the kernel may change the records behind the supervisor's back       *)
(* (Ordinary, or a message that is Passed), one lemma per system call.     *)
(***************************************************************************)
EXTENDS Supervisor, KernelProofs

USE ZenonT(30)

\* A send, and the wait for its reply, is with a task that the program names.
Wired(ts) ==
    \A u \in Task : ts[u].sched \in {"InSend", "InReply"} /\ ts[u].peer \in TaskId
                        => ts[u].peer.index \in Callees[u]

\* Only the supervisor restarts tasks.
Sole == KernelCallers \subseteq {Supervisor}

\* The supervisor's record when others act: it stays ready, or in its receive
\* until that ends, and loses no notification but to the receive that takes it.
Patient(x, y) ==
    /\ is_runnable(x) => is_runnable(y)
    /\ Fires(x) => Fires(y) \/ is_runnable(y)
    /\ Fires(y) => Fires(x)
    /\ x.notified => y.notified \/ (Fires(x) /\ is_runnable(y))

\* What may become of the record of task u in a step that delivers no message.
Ordinary(u, x, y) ==
    /\ y.sched = "InReply" => /\ x.sched = "InReply" /\ y.peer = x.peer
                              /\ y.fault = NoFault => x.fault = NoFault
    /\ y.sched = "InSend" => \/ x.sched = "InSend" /\ y.peer = x.peer
                             \/ y.peer.index \in Callees[u]
    /\ u = Supervisor => Patient(x, y)
    /\ Sole /\ x.kind = "Faulted" => y.kind = "Faulted"

Quiet(ts, us) == \A u \in Task : Ordinary(u, ts[u], us[u])

\* Task a's message is delivered to task b.
Passed(ts, us, a, b) ==
    /\ a # b /\ ts[a].kind = "Healthy" /\ ts[a].sched # "InReply"
    /\ us[a].kind = "Healthy" /\ us[a].sched = "InReply" /\ us[a].fault = NoFault
    /\ us[a].peer = current_id(ts, b)
    /\ is_runnable(us[b]) /\ us[b].notified = ts[b].notified /\ ts[b].kind = "Healthy"
    /\ \A u \in Task : u \notin {a, b} => us[u] = ts[u]

Moves(ts, us) ==
    \/ Quiet(ts, us)
    \/ \E a \in Task \ {Supervisor} : \E b \in Callees[a] : Passed(ts, us, a, b)

\* The supervisor is in the scan of its receive.
Searching == kernel.at = "recv" /\ current = Supervisor

(***************************************************************************)
(* The inductive invariant.  The program counter says whether the          *)
(* supervisor is blocked: it is in its receive, which asks for the         *)
(* notification, or it can run.  The message in hand is of a client.       *)
(***************************************************************************)
SInv ==
    /\ KInv /\ Wired(tasks) /\ STypeOK
    /\ pc = "receiving" => \/ Searching /\ tasks[Supervisor].save.mask
                           \/ Fires(tasks[Supervisor])
    /\ pc # "receiving" => is_runnable(tasks[Supervisor]) /\ ~Searching
    /\ pc \in {"message", "reply"} => sender \in Ids(Clients(Supervisor))
    /\ FaultsInHand
    /\ Sole /\ pc = "restart" => tasks[fault_index].kind = "Faulted"

\* A step of the kernel that is not the supervisor's, nor its scan.
StepMoves == Moves(tasks, tasks') /\ (kernel'.at = "recv" => current' = current)

-----------------------------------------------------------------------------
(***************************************************************************)
(* Records                                                                 *)
(***************************************************************************)
\* Nothing happens.
LEMMA OrdinarySelf ==
    ASSUME NEW u, NEW x
    PROVE  Ordinary(u, x, x)
  BY DEF Ordinary, Patient

\* Ordinary changes compose.
LEMMA OrdinaryTransitive ==
    ASSUME NEW u, NEW x, NEW y, NEW z, Ordinary(u, x, y), Ordinary(u, y, z)
    PROVE  Ordinary(u, x, z)
<1>1. u = Supervisor => Patient(x, z)
  BY DEF Ordinary, Patient
<1> QED
  BY <1>1 DEF Ordinary

\* A task without a fault is made runnable.
LEMMA RunnableOrdinary ==
    ASSUME NEW u, NEW x, Sound(u, x)
    PROVE  Ordinary(u, x, Put(x, "Runnable", None))
<1> DEFINE y == Put(x, "Runnable", None)
<1>1. x \in TaskRecord /\ "Runnable" \in Scheds /\ None \in Peers
  BY DEF Sound, Scheds, Peers
<1>2. y.sched = "Runnable" /\ y.kind = x.kind /\ y.notified = x.notified
  BY <1>1, PutFacts, SMTT(30)
<1> HIDE DEF y
<1>3. ~Fires(y) /\ (u = Supervisor => is_runnable(y))
  BY <1>2 DEF Fires, can_accept_notification, is_runnable, Sound
<1> QED
  BY <1>2, <1>3 DEF Ordinary, Patient, y

\* A task is notified.
LEMMA PostedOrdinary ==
    ASSUME NEW u, NEW x, Sound(u, x)
    PROVE  Ordinary(u, x, Posted(x))
<1> DEFINE y == Posted(x)
<1>1. x \in TaskRecord
  BY DEF Sound
<1>2. /\ y.sched = IF Fires(x) THEN "Runnable" ELSE x.sched
      /\ y.peer = IF Fires(x) THEN None ELSE x.peer
      /\ y.kind = x.kind /\ y.fault = x.fault
      /\ y.notified = IF Fires(x) THEN FALSE ELSE TRUE
  BY <1>1, PostedFacts
<1>3. /\ ~Fires(y) /\ (is_runnable(x) => is_runnable(y))
  BY PostedSound
<1> HIDE DEF y
<1>4. u = Supervisor /\ Fires(x) => is_runnable(y)
  BY <1>2 DEF is_runnable, Sound
<1>5. u = Supervisor => Patient(x, y)
  BY <1>2, <1>3, <1>4 DEF Patient
<1>6. y.sched \in {"InReply", "InSend"} => y.sched = x.sched /\ y.peer = x.peer
  BY <1>2
<1> QED
  BY <1>2, <1>5, <1>6 DEF Ordinary, y

\* A task other than the supervisor faults.
LEMMA FailedOrdinary ==
    ASSUME NEW u, NEW x, Sound(u, x), u # Supervisor, NEW f \in Faults \ {NoFault}
    PROVE  Ordinary(u, x, Failed(x, f))
<1> DEFINE y == Failed(x, f)
<1>1. x \in TaskRecord
  BY DEF Sound
<1>2. /\ y.sched = x.sched /\ y.peer = x.peer /\ y.fault = f
      /\ y.kind = IF x.kind = "Suspended" THEN x.kind ELSE "Faulted"
  BY <1>1, FailedFacts
<1> HIDE DEF y
<1> QED
  BY <1>2 DEF Ordinary, y

\* A task other than the supervisor makes a system call.
LEMMA SaveOrdinary ==
    ASSUME NEW u, NEW x, Sound(u, x), u # Supervisor, NEW v \in SaveArea
    PROVE  Ordinary(u, x, [x EXCEPT !.save = v])
<1> DEFINE y == [x EXCEPT !.save = v]
<1>1. x \in TaskRecord
  BY DEF Sound
<1>2. y.sched = x.sched /\ y.peer = x.peer /\ y.fault = x.fault /\ y.kind = x.kind
  BY <1>1, SaveFacts
<1> HIDE DEF y
<1> QED
  BY <1>2 DEF Ordinary, y

\* A task other than the supervisor blocks.
LEMMA BlockedOrdinary ==
    ASSUME NEW u, NEW x, Sound(u, x), u # Supervisor, NEW s \in {"InSend", "InRecv"},
           NEW p \in Peers, s = "InSend" => p.index \in Callees[u]
    PROVE  Ordinary(u, x, Put(x, s, p))
<1> DEFINE y == Put(x, s, p)
<1>1. x \in TaskRecord /\ s \in Scheds
  BY DEF Sound, Scheds
<1>2. y.sched = s /\ y.peer = p /\ y.kind = x.kind
  BY <1>1, PutFacts, SMTT(30)
<1> HIDE DEF y
<1> QED
  BY <1>2 DEF Ordinary, y

-----------------------------------------------------------------------------
(***************************************************************************)
(* The task table                                                          *)
(***************************************************************************)
\* Nothing happens.
LEMMA QuietSelf ==
    ASSUME NEW ts
    PROVE  Quiet(ts, ts)
  BY OrdinarySelf DEF Quiet

\* Changing the record of one task more.
LEMMA QuietWith ==
    ASSUME NEW ts, NEW us, Table(us), Quiet(ts, us), NEW t \in Task, NEW y,
           Ordinary(t, us[t], y)
    PROVE  Quiet(ts, [us EXCEPT ![t] = y])
<1> DEFINE vs == [us EXCEPT ![t] = y]
<1>1. vs[t] = y /\ \A u \in Task : u # t => vs[u] = us[u]
  BY DEF Table
<1> HIDE DEF vs
<1>2. Ordinary(t, ts[t], y)
  BY OrdinaryTransitive DEF Quiet
<1> QED
  BY <1>1, <1>2 DEF Quiet, vs

\* A notification is an ordinary change.
LEMMA PostQuiet ==
    ASSUME NEW ts, NEW us, Table(us), Quiet(ts, us), NEW t \in Task
    PROVE  Quiet(ts, post(us, t))
<1> DEFINE y == Posted(us[t])
<1>1. us \in [Task -> TaskRecord] /\ Sound(t, us[t])
  BY DEF Table
<1>2. post(us, t) = [us EXCEPT ![t] = y]
  BY <1>1, PostIs
<1>3. Ordinary(t, us[t], y)
  BY <1>1, PostedOrdinary
<1> HIDE DEF y
<1>4. Quiet(ts, [us EXCEPT ![t] = y])
  BY <1>3, QuietWith
<1> QED
  BY <1>2, <1>4

\* So is a fault.
LEMMA FaultQuiet ==
    ASSUME NEW ts, NEW us, Table(us), Quiet(ts, us), NEW t \in Task, t # Supervisor,
           NEW f \in Faults \ {NoFault}
    PROVE  Quiet(ts, force_fault(us, t, f))
<1> DEFINE y  == Failed(us[t], f)
           ws == [us EXCEPT ![t] = y]
<1>1. us \in [Task -> TaskRecord] /\ Sound(t, us[t]) /\ Attached(us, us[t])
  BY DEF Table
<1>2. Ordinary(t, us[t], y)
  BY <1>1, FailedOrdinary
<1>3. Sound(t, y) /\ Calm(us[t], y) /\ Idles(us[t], y)
  BY <1>1, FailedSound
<1>4. SetFault(us, t, f) = ws
  BY <1>1, SetFaultIs, SMTT(30)
<1> HIDE DEF y
<1>5. Table(ws) /\ Quiet(ts, ws)
  BY <1>1, <1>2, <1>3, TableWith, IdlesAttached, QuietWith DEF Calm, SameSuspension
<1> HIDE DEF ws
<1> QED
  BY <1>4, <1>5, PostQuiet, SupervisorIsTask DEF force_fault

\* So is a fault that depends on what the message was.
LEMMA FaultIfQuiet ==
    ASSUME NEW ts, NEW us, Table(us), Quiet(ts, us), NEW b \in BOOLEAN, NEW c \in Task,
           b => c # Supervisor
    PROVE  Quiet(ts, FaultIf(b, us, c))
<1>1. "Other" \in Faults \ {NoFault}
  BY DEF Faults, NoFault
<1> QED
  BY <1>1, FaultQuiet DEF FaultIf

\* The kernel in user mode is in neither of its loops.
LEMMA UserAt == User.at = "user"
  BY DEF User

\* A system call that ends.
LEMMA ReturnMoves ==
    ASSUME NEW us, NEW h, Return(us, h), Moves(tasks, us)
    PROVE  StepMoves
  BY UserAt DEF Return, StepMoves

\* A system call whose caller faults.
LEMMA FaultCallerMoves ==
    ASSUME current \in Task, current # Supervisor, NEW us, Table(us), Quiet(tasks, us),
           FaultCaller(us)
    PROVE  StepMoves
<1>1. "Other" \in Faults \ {NoFault}
  BY DEF Faults, NoFault
<1>2. Quiet(tasks, force_fault(us, current, "Other"))
  BY <1>1, FaultQuiet
<1> QED
  BY <1>2, ReturnMoves DEF FaultCaller, Moves

\* The arguments of a system call of a task other than the supervisor.
LEMMA SaveQuiet ==
    ASSUME NEW ts, Table(ts), NEW t \in Task, t # Supervisor, NEW v \in SaveArea
    PROVE  Quiet(ts, [ts EXCEPT ![t].save = v])
<1> DEFINE y == [ts[t] EXCEPT !.save = v]
<1>1. ts \in [Task -> TaskRecord] /\ Sound(t, ts[t])
  BY DEF Table
<1>2. [ts EXCEPT ![t].save = v] = [ts EXCEPT ![t] = y]
  BY <1>1
<1>3. Ordinary(t, ts[t], y)
  BY <1>1, SaveOrdinary
<1> HIDE DEF y
<1> QED
  BY <1>2, <1>3, QuietSelf, QuietWith

\* A task without a fault is made runnable.
LEMMA RunnableQuiet ==
    ASSUME NEW ts, NEW us, Table(us), Quiet(ts, us), NEW t \in Task, us[t].fault = NoFault
    PROVE  Quiet(ts, Runnable(us, t))
<1> DEFINE y == Put(us[t], "Runnable", None)
<1>1. us \in [Task -> TaskRecord] /\ Sound(t, us[t]) /\ "Runnable" \in Scheds /\ None \in Peers
  BY DEF Table, Scheds, Peers
<1>2. Runnable(us, t) = [us EXCEPT ![t] = y]
  BY <1>1, SetHealthyState, SMTT(30) DEF Runnable
<1>3. Ordinary(t, us[t], y)
  BY <1>1, RunnableOrdinary
<1> HIDE DEF y
<1>4. Quiet(ts, [us EXCEPT ![t] = y])
  BY <1>3, QuietWith
<1> QED
  BY <1>2, <1>4

\* A task other than the supervisor blocks.
LEMMA BlockQuiet ==
    ASSUME NEW ts, NEW us, Table(us), Quiet(ts, us), NEW t \in Task, t # Supervisor,
           us[t].fault = NoFault, NEW s \in {"InSend", "InRecv"}, NEW p \in Peers,
           s = "InSend" => p.index \in Callees[t]
    PROVE  Quiet(ts, set_healthy_state(us, t, s, p))
<1> DEFINE y == Put(us[t], s, p)
<1>1. us \in [Task -> TaskRecord] /\ Sound(t, us[t]) /\ s \in Scheds
  BY DEF Table, Scheds
<1>2. set_healthy_state(us, t, s, p) = [us EXCEPT ![t] = y]
  BY <1>1, SetHealthyState, SMTT(30)
<1>3. Ordinary(t, us[t], y)
  BY <1>1, BlockedOrdinary
<1> HIDE DEF y
<1>4. Quiet(ts, [us EXCEPT ![t] = y])
  BY <1>3, QuietWith
<1> QED
  BY <1>2, <1>4

\* A delivered message.
LEMMA DeliveredPasses ==
    ASSUME NEW ts, Table(ts), NEW a \in Task, NEW b \in Task, a # b, a # Supervisor,
           ts[a].kind = "Healthy", ts[a].sched # "InReply", ts[b].kind = "Healthy"
    PROVE  Passed(ts, Delivered(ts, a, b), a, b)
<1> DEFINE p  == current_id(ts, b)
           y  == Put(ts[a], "InReply", p)
           ws == [ts EXCEPT ![a] = y]
           z  == Put(ts[b], "Runnable", None)
           vs == [ws EXCEPT ![b] = z]
<1>1. /\ ts \in [Task -> TaskRecord] /\ Sound(a, ts[a]) /\ Sound(b, ts[b])
      /\ ts[a] \in TaskRecord /\ ts[b] \in TaskRecord
  BY DEF Table
<1>2. p \in TaskId
  BY <1>1 DEF TaskId, current_id, TaskRecord
<1>3. ts[a].fault = NoFault /\ ts[b].fault = NoFault
  BY <1>1 DEF Sound
<1> HIDE DEF p
<1>4. "InReply" \in Scheds /\ "Runnable" \in Scheds /\ p \in Peers /\ None \in Peers
  BY <1>2 DEF Scheds, Peers
<1>5. y \in TaskRecord /\ y.kind = ts[a].kind /\ y.sched = "InReply" /\ y.peer = p /\ y.fault = ts[a].fault
  BY <1>1, <1>4, PutFacts, SMTT(30)
<1>6. z.kind = ts[b].kind /\ z.sched = "Runnable" /\ z.notified = ts[b].notified
  BY <1>1, <1>4, PutFacts, SMTT(30)
<1>7. set_healthy_state(ts, a, "InReply", p) = ws
  BY <1>1, <1>3, <1>4, SetHealthyState, SMTT(30)
<1> HIDE DEF y
<1>8. ws \in [Task -> TaskRecord] /\ ws[b] = ts[b]
  BY <1>1, <1>5
<1>9. ws[a] = y /\ \A u \in Task : u # a => ws[u] = ts[u]
  BY <1>1
<1> HIDE DEF ws
<1>10. Runnable(ws, b) = vs
  BY <1>3, <1>4, <1>8, SetHealthyState, SMTT(30) DEF Runnable
<1> HIDE DEF z
<1>11. vs[b] = z /\ \A u \in Task : u # b => vs[u] = ws[u]
  BY <1>8
<1> HIDE DEF vs
<1>12. Delivered(ts, a, b) = vs
  BY <1>7, <1>10 DEF Delivered, p
<1> QED
  BY <1>3, <1>5, <1>6, <1>9, <1>11, <1>12 DEF Passed, is_runnable, p

-----------------------------------------------------------------------------
(***************************************************************************)
(* System calls of the other tasks, and those that the supervisor shares   *)
(***************************************************************************)
\* A system call that changes nothing.
LEMMA NothingMoves ==
    ASSUME NEW h, Return(tasks, h)
    PROVE  StepMoves
  BY QuietSelf, ReturnMoves DEF Moves

\* send
LEMMA SendMoves ==
    ASSUME KInv, NEW t \in Task, NEW id \in TaskId, NEW m \in SlicesOf(t), NEW p \in SlicesOf(t),
           send(t, id, m, p)
    PROVE  StepMoves
<1> DEFINE v     == [NoArgs EXCEPT !.message = m, !.response = p]
           ts    == [tasks EXCEPT ![t].save = v]
           c     == id.index
           ready == can_accept_message_from(tasks[c], current_id(tasks, t))
           src   == ready /\ SrcFault(ts, t, c)
           dst   == ready /\ DstFault(ts, t, c)
<1>1. /\ Running(t) /\ c \in Callees[t]
      /\ \/ Return(tasks, Same)
         \/ ready /\ Return(Delivered(ts, t, c), c)
         \/ FaultCaller(FaultIf(dst, ts, c))
         \/ Return(set_healthy_state(FaultIf(dst, ts, c), t, "InSend", id),
                   combine(Other, HintIf(dst, ts, c)))
  BY DEF send
<1>2. c \in Task /\ t # Supervisor
  BY <1>1, CalleeFacts
<1>3. v \in SaveArea
  BY SlicesTyped DEF NoArgs, SaveArea
<1>4. current = t /\ is_runnable(tasks[t]) /\ Table(tasks)
  BY <1>1, RunningFacts
<1> HIDE DEF v
<1>5. /\ Table(ts) /\ Follows(tasks, ts) /\ is_runnable(ts[t])
      /\ ts[t].generation = tasks[t].generation
      /\ \A u \in Task : u # t => ts[u] = tasks[u]
  BY <1>2, <1>3, <1>4, SaveKeeps, SMTT(30)
<1>6. Quiet(tasks, ts)
  BY <1>2, <1>3, <1>4, SaveQuiet
<1>7. ready => c # t /\ ts[c].kind = "Healthy" /\ ts[c].sched = "InRecv" /\ ts[c] = tasks[c]
  BY <1>2, <1>4, <1>5 DEF can_accept_message_from, is_runnable
<1> HIDE DEF ts
<1>8. dst \in BOOLEAN /\ (dst => c # Supervisor /\ c # t)
  BY <1>2, <1>5, <1>7 DEF DstFault, Table, Sound, can_accept_message_from, SenderMalformed
<1> HIDE DEF ready, dst
<1> DEFINE us == FaultIf(dst, ts, c)
<1>9. Table(us) /\ us[t] = ts[t]
  BY <1>2, <1>5, <1>8, FaultIfKeeps, SMTT(30)
<1>10. Quiet(tasks, us)
  BY <1>2, <1>5, <1>6, <1>8, FaultIfQuiet
<1> HIDE DEF us
<1>11. CASE ready /\ Return(Delivered(ts, t, c), c)
  <2> DEFINE vs == Delivered(ts, t, c)
  <2>1. Passed(ts, vs, t, c)
    BY <1>2, <1>5, <1>7, <1>11, DeliveredPasses DEF is_runnable
  <2> HIDE DEF vs
  <2>2. current_id(ts, c) = current_id(tasks, c) /\ ts[c] = tasks[c]
    BY <1>7, <1>11 DEF current_id
  <2>3. Passed(tasks, vs, t, c)
    BY <1>4, <1>5, <2>1, <2>2 DEF Passed, is_runnable
  <2>4. Moves(tasks, vs)
    BY <1>1, <1>2, <2>3 DEF Moves
  <2> QED
    BY <1>11, <2>4, ReturnMoves DEF vs
<1>12. CASE FaultCaller(us)
  BY <1>2, <1>4, <1>9, <1>10, <1>12, FaultCallerMoves
<1>13. CASE Return(set_healthy_state(us, t, "InSend", id), combine(Other, HintIf(dst, ts, c)))
  <2>1. us[t].fault = NoFault /\ id \in Peers
    BY <1>5, <1>9 DEF Table, Sound, is_runnable, Peers
  <2>2. Quiet(tasks, set_healthy_state(us, t, "InSend", id))
    BY <1>1, <1>2, <1>9, <1>10, <2>1, BlockQuiet
  <2> QED
    BY <1>13, <2>2, ReturnMoves DEF Moves
<1> QED
  BY <1>1, <1>11, <1>12, <1>13, NothingMoves DEF us

\* A message that a task other than the supervisor waits to send goes to one
\* that its program names.
LEMMA WiredSender ==
    ASSUME KInv, Wired(tasks), NEW a \in Task, NEW t \in Task,
           is_sending_to(tasks[a], current_id(tasks, t))
    PROVE  t \in Callees[a] /\ a # Supervisor /\ tasks[a].kind = "Healthy" /\ tasks[a].sched = "InSend"
<1>1. tasks[a].peer = current_id(tasks, t) /\ tasks[a].sched = "InSend" /\ tasks[a].kind = "Healthy"
  BY DEF is_sending_to
<1>2. current_id(tasks, t) \in TaskId /\ current_id(tasks, t).index = t
  BY DEF KInv, Table, current_id, TaskId, TaskRecord
<1>3. a # Supervisor
  BY <1>1 DEF KInv, Table, Sound
<1> QED
  BY <1>1, <1>2, <1>3 DEF Wired

\* recv, of a task other than the supervisor
LEMMA RecvMoves ==
    ASSUME KInv, Wired(tasks), NEW t \in Task, t # Supervisor,
           NEW from \in TaskId \cup {None, KERNEL},
           NEW b \in SlicesOf(t), NEW mask \in BOOLEAN, recv(t, from, b, mask)
    PROVE  StepMoves
<1> DEFINE v   == [NoArgs EXCEPT !.buffer = b, !.mask = mask]
           ts  == [tasks EXCEPT ![t].save = v]
           a   == from.index
           has == from \in TaskId /\ is_sending_to(tasks[a], current_id(tasks, t))
           src == has /\ SrcFault(ts, a, t)
           dst == has /\ DstFault(ts, a, t)
<1>1. /\ Running(t)
      /\ \/ Return([tasks EXCEPT ![t].notified = FALSE], Same)
         \/ Block(ts, t, from, Same)
         \/ Return(tasks, Same)
         \/ has /\ Return(Delivered(ts, a, t), Same)
         \/ from \in TaskId /\ FaultCaller(FaultIf(src, ts, a))
         \/ from \in TaskId /\ Block(FaultIf(src, ts, a), t, from, HintIf(src, ts, a))
         \/ tasks' = ts /\ UNCHANGED current
  BY DEF recv
<1>2. v \in SaveArea
  BY SlicesTyped DEF NoArgs, SaveArea
<1>3. current = t /\ is_runnable(tasks[t]) /\ Table(tasks)
  BY <1>1, RunningFacts
<1> HIDE DEF v
<1>4. /\ Table(ts) /\ Follows(tasks, ts) /\ is_runnable(ts[t])
      /\ ts[t].generation = tasks[t].generation /\ ts[t].notified = tasks[t].notified
      /\ \A u \in Task : u # t => ts[u] = tasks[u]
  BY <1>2, <1>3, SaveKeeps, SMTT(30)
<1>5. Quiet(tasks, ts)
  BY <1>2, <1>3, SaveQuiet
<1> HIDE DEF ts
<1>6. from \in TaskId => a \in Task
  BY DEF TaskId
<1>7. has => /\ a \in Task \ {Supervisor} /\ t \in Callees[a] /\ ts[a] = tasks[a]
             /\ ts[a].kind = "Healthy" /\ ts[a].sched = "InSend" /\ a # t
  BY <1>3, <1>4, <1>6, WiredSender DEF is_runnable
<1> HIDE DEF a
<1>8. src \in BOOLEAN /\ (src => a # Supervisor /\ a # t)
  BY <1>7 DEF SrcFault, SenderMalformed
<1> HIDE DEF has, src
<1> DEFINE us == FaultIf(src, ts, a)
<1>9. from \in TaskId => Table(us) /\ us[t] = ts[t] /\ Quiet(tasks, us)
  <2> SUFFICES ASSUME from \in TaskId PROVE Table(us) /\ us[t] = ts[t] /\ Quiet(tasks, us)
    OBVIOUS
  <2>1. Table(us) /\ us[t] = ts[t]
    <3>1. a \in Task /\ src \in BOOLEAN /\ (src => a # Supervisor)
      BY <1>6, <1>8
    <3>2. /\ Table(us) /\ (~src => us = ts)
          /\ \A u \in Task : u \notin {a, Supervisor} => us[u] = ts[u]
      BY <1>4, <3>1, FaultIfKeeps, SMTT(30)
    <3> QED
      BY <1>8, <3>2
  <2>2. Quiet(tasks, us)
    BY <1>4, <1>5, <1>6, <1>8, FaultIfQuiet
  <2> QED
    BY <2>1, <2>2
<1> HIDE DEF us
<1>10. ts[t].fault = NoFault /\ from \in Peers
  BY <1>4 DEF Table, Sound, is_runnable, Peers
<1>11. CASE Return([tasks EXCEPT ![t].notified = FALSE], Same)
  <2> DEFINE y == [tasks[t] EXCEPT !.notified = FALSE]
  <2>1. tasks \in [Task -> TaskRecord] /\ tasks[t] \in TaskRecord
    BY <1>3 DEF Table
  <2>2. y.sched = tasks[t].sched /\ y.peer = tasks[t].peer /\ y.kind = tasks[t].kind
        /\ y.fault = tasks[t].fault
    BY <2>1, NotifiedFacts
  <2>3. [tasks EXCEPT ![t].notified = FALSE] = [tasks EXCEPT ![t] = y]
    BY <2>1
  <2> HIDE DEF y
  <2>4. Ordinary(t, tasks[t], y)
    BY <2>2 DEF Ordinary
  <2>5. Quiet(tasks, [tasks EXCEPT ![t] = y])
    BY <1>3, <2>4, QuietSelf, QuietWith
  <2>6. Moves(tasks, [tasks EXCEPT ![t].notified = FALSE])
    BY <2>3, <2>5 DEF Moves
  <2> QED
    BY <1>11, <2>6, ReturnMoves
<1>12. CASE Block(ts, t, from, Same)
  <2>1. Quiet(tasks, set_healthy_state(ts, t, "InRecv", from))
    BY <1>4, <1>5, <1>10, BlockQuiet
  <2> QED
    BY <1>12, <2>1, ReturnMoves DEF Block, Moves
<1>13. CASE has /\ Return(Delivered(ts, a, t), Same)
  <2> DEFINE vs == Delivered(ts, a, t)
  <2>1. Passed(ts, vs, a, t)
    BY <1>4, <1>7, <1>13, DeliveredPasses DEF is_runnable
  <2> HIDE DEF vs
  <2>2. current_id(ts, t) = current_id(tasks, t)
    BY <1>4 DEF current_id
  <2>3. Passed(tasks, vs, a, t)
    BY <1>3, <1>4, <1>7, <1>13, <2>1, <2>2 DEF Passed, is_runnable
  <2>4. Moves(tasks, vs)
    BY <1>7, <1>13, <2>3 DEF Moves
  <2> QED
    BY <1>13, <2>4, ReturnMoves DEF vs
<1>14. CASE from \in TaskId /\ FaultCaller(us)
  BY <1>3, <1>9, <1>14, FaultCallerMoves
<1>15. CASE from \in TaskId /\ Block(us, t, from, HintIf(src, ts, a))
  <2>1. Quiet(tasks, set_healthy_state(us, t, "InRecv", from))
    BY <1>9, <1>10, <1>15, BlockQuiet
  <2> QED
    BY <1>15, <2>1, ReturnMoves DEF Block, Moves
<1>16. CASE tasks' = ts /\ UNCHANGED current
  BY <1>5, <1>16 DEF StepMoves, Moves
<1> QED
  BY <1>1, <1>11, <1>12, <1>13, <1>14, <1>15, <1>16, NothingMoves DEF us

\* A system call that faults another task.
LEMMA FaultOtherMoves ==
    ASSUME KInv, NEW c \in Task, c # Supervisor, NEW h, Return(force_fault(tasks, c, "Other"), h)
    PROVE  StepMoves
<1>1. "Other" \in Faults \ {NoFault}
  BY DEF Faults, NoFault
<1>2. Quiet(tasks, force_fault(tasks, c, "Other"))
  BY <1>1, QuietSelf, FaultQuiet DEF KInv
<1> QED
  BY <1>2, ReturnMoves DEF Moves

\* The reply to a suspended client, which is kept.
LEMMA BufferedQuiet ==
    ASSUME NEW ts, Table(ts), NEW c \in Task, NEW from \in TaskId, c # Supervisor,
           ts[c].kind = "Suspended", ts[c].fault = NoFault
    PROVE  Quiet(ts, set_suspension_reply(ts, c, from))
<1> DEFINE x == [ts[c] EXCEPT !.suspension_buffer = TRUE, !.owed = TRUE]
           ws == [ts EXCEPT ![c].suspension_buffer = TRUE, ![c].owed = TRUE]
           y == Put(x, "InSuspendedReply", from)
           us == [ts EXCEPT ![c] = y]
<1>1. ts \in [Task -> TaskRecord] /\ ts[c] \in TaskRecord
  BY DEF Table
<1>2. x \in TaskRecord /\ x.fault = ts[c].fault
  BY <1>1 DEF TaskRecord
<1>3. ws = [ts EXCEPT ![c] = x]
  BY <1>1
<1> HIDE DEF x
<1>4. "InSuspendedReply" \in Scheds /\ from \in Peers
  BY DEF Scheds, Peers
<1>5. y.sched = "InSuspendedReply"
  BY <1>2, <1>4, PutFacts, SMTT(30)
<1>6. ws \in [Task -> TaskRecord] /\ ws[c] = x
  BY <1>1, <1>2, <1>3
<1>7. set_suspension_reply(ts, c, from) = set_healthy_state(ws, c, "InSuspendedReply", from)
  BY DEF set_suspension_reply
<1> HIDE DEF ws
<1>8. set_healthy_state(ws, c, "InSuspendedReply", from) = [ws EXCEPT ![c] = y]
  BY <1>2, <1>4, <1>6, SetHealthyState, SMTT(30)
<1> HIDE DEF y
<1>9. [ws EXCEPT ![c] = y] = us
  BY <1>1, <1>3, ExceptTwice
<1>10. Ordinary(c, ts[c], y)
  BY <1>5 DEF Ordinary
<1>11. Quiet(ts, us)
  BY <1>10, QuietSelf, QuietWith
<1> QED
  BY <1>7, <1>8, <1>9, <1>11

\* reply
LEMMA ReplyMoves ==
    ASSUME KInv, NEW t \in Task, NEW id \in Ids(Clients(t)), NEW m \in SlicesOf(t),
           reply(t, id, m)
    PROVE  StepMoves
<1> DEFINE c        == id.index
           response == tasks[c].save.response
           src      == m = "usage" \/ (m = "memory" /\ response # "usage")
           dst      == /\ m # "usage"
                       /\ response = "usage" \/ (response = "memory" /\ tasks[c].kind = "Healthy")
<1>1. /\ Running(t)
      /\ \/ Return(tasks, Same)
         \/ src /\ FaultCaller(FaultIf(dst, tasks, c))
         \/ Return(force_fault(tasks, c, "Other"), FaultHint(tasks, c))
         \/ AwaitsReply(t, id) /\ Return(Replied(tasks, c, current_id(tasks, t)), Same)
  BY DEF reply
<1>2. c \in Task /\ c # Supervisor
  BY ClientFacts
<1>3. (src => t # Supervisor) /\ dst \in BOOLEAN
  BY SlicesTyped
<1>4. current = t /\ Table(tasks) /\ Quiet(tasks, tasks) /\ Follows(tasks, tasks)
  BY <1>1, RunningFacts, QuietSelf
<1>5. AwaitsReply(t, id) => tasks[c].fault = NoFault
  BY <1>1, <1>2, AwaitsFacts
<1> HIDE DEF src, dst, c, response
<1>6. CASE src /\ FaultCaller(FaultIf(dst, tasks, c))
  <2> DEFINE us == FaultIf(dst, tasks, c)
  <2>1. Table(us)
    BY <1>2, <1>3, <1>4, FaultIfKeeps
  <2>2. Quiet(tasks, us)
    BY <1>2, <1>3, <1>4, FaultIfQuiet
  <2>3. FaultCaller(us)
    BY <1>6
  <2> HIDE DEF us
  <2> QED
    BY <1>3, <1>4, <1>6, <2>1, <2>2, <2>3, FaultCallerMoves
<1>7. CASE AwaitsReply(t, id) /\ Return(Replied(tasks, c, current_id(tasks, t)), Same)
  <2> DEFINE from == current_id(tasks, t)
  <2>1. from \in TaskId
    BY <1>4 DEF TaskId, current_id, Table, TaskRecord
  <2> HIDE DEF from
  <2>2. Quiet(tasks, Replied(tasks, c, from))
    <3>1. CASE tasks[c].kind = "Suspended"
      <4>1. Quiet(tasks, set_suspension_reply(tasks, c, from))
        BY <1>2, <1>4, <1>5, <1>7, <2>1, <3>1, BufferedQuiet
      <4> QED
        BY <3>1, <4>1 DEF Replied
    <3>2. CASE tasks[c].kind # "Suspended"
      <4>1. Quiet(tasks, Runnable(tasks, c))
        BY <1>2, <1>4, <1>5, <1>7, RunnableQuiet
      <4> QED
        BY <3>2, <4>1 DEF Replied
    <3> QED
      BY <3>1, <3>2
  <2> QED
    BY <1>7, <2>2, ReturnMoves DEF Moves, from
<1> QED
  BY <1>1, <1>2, <1>6, <1>7, NothingMoves, FaultOtherMoves

\* reply_fault
LEMMA ReplyFaultMoves ==
    ASSUME KInv, NEW t \in Task, NEW id \in Ids(Clients(t)), reply_fault(t, id)
    PROVE  StepMoves
<1>1. \/ Return(tasks, Same)
      \/ Return(force_fault(tasks, id.index, "Other"), Same)
  BY DEF reply_fault
<1>2. id.index \in Task /\ id.index # Supervisor
  BY ClientFacts
<1> QED
  BY <1>1, <1>2, NothingMoves, FaultOtherMoves

\* The borrows
LEMMA BorrowMoves ==
    ASSUME KInv, NEW t \in Task, NEW id \in Ids(Clients(t)), NEW b \in SlicesOf(t),
           NEW lease \in Region \cup {"none", "memory", "table", "range"},
           t = Supervisor => lease # "range",
           borrow(t, id, b, lease)
    PROVE  StepMoves
<1> DEFINE c   == id.index
           src == \/ b = "usage"
                  \/ AwaitsReply(t, id) /\ (lease = "range" \/ (lease # "table" /\ b = "memory"))
           dst == b # "usage" /\ AwaitsReply(t, id) /\ lease \in {"table", "memory"}
<1>1. /\ Running(t)
      /\ \/ src /\ FaultCaller(FaultIf(dst, tasks, c))
         \/ Return(force_fault(tasks, c, "Other"), FaultHint(tasks, c))
         \/ tasks' = tasks /\ current' = current
  BY DEF borrow
<1>2. c \in Task /\ c # Supervisor
  BY ClientFacts
<1>3. (src => t # Supervisor) /\ dst \in BOOLEAN
  BY SlicesTyped DEF AwaitsReply, Live, Waits
<1>4. current = t /\ Table(tasks) /\ Quiet(tasks, tasks) /\ Follows(tasks, tasks)
  BY <1>1, RunningFacts, QuietSelf
<1> HIDE DEF src, dst, c
<1>5. CASE src /\ FaultCaller(FaultIf(dst, tasks, c))
  <2> DEFINE us == FaultIf(dst, tasks, c)
  <2>1. Table(us)
    BY <1>2, <1>3, <1>4, FaultIfKeeps
  <2>2. Quiet(tasks, us)
    BY <1>2, <1>3, <1>4, FaultIfQuiet
  <2>3. FaultCaller(us)
    BY <1>5
  <2> HIDE DEF us
  <2> QED
    BY <1>3, <1>4, <1>5, <2>1, <2>2, <2>3, FaultCallerMoves
<1>6. CASE tasks' = tasks /\ current' = current
  BY <1>4, <1>6 DEF StepMoves, Moves
<1> QED
  BY <1>1, <1>2, <1>5, <1>6, FaultOtherMoves

\* The post system call
LEMMA PostCallMoves ==
    ASSUME KInv, NEW t \in Task, NEW id \in TaskId, sys_post(t, id)
    PROVE  StepMoves
<1>1. id.index \in Task
  BY DEF TaskId
<1>2. Quiet(tasks, post(tasks, id.index))
  BY <1>1, QuietSelf, PostQuiet DEF KInv
<1> QED
  BY <1>2, NothingMoves, ReturnMoves DEF sys_post, Moves

\* panic
LEMMA PanicMoves ==
    ASSUME KInv, NEW t \in Task, panic(t)
    PROVE  StepMoves
<1>1. Running(t) /\ t # Supervisor /\ FaultCaller(tasks)
  BY DEF panic
<1> QED
  BY <1>1, RunningFacts, QuietSelf, FaultCallerMoves

\* fault_task
LEMMA FaultTaskMoves ==
    ASSUME KInv, NEW t \in Task, NEW i \in Task, fault_task(t, i)
    PROVE  StepMoves
  BY FaultOtherMoves DEF fault_task

\* Interrupts
LEMMA InterruptMoves ==
    ASSUME KInv, NEW S \in SUBSET Task, Interrupt(S)
    PROVE  StepMoves
<1> DEFINE us == [t \in Task |-> IF t \in S THEN post(tasks, t)[t] ELSE tasks[t]]
<1>1. PICK h : Return(us, h)
  BY DEF Interrupt
<1>2. ASSUME NEW u \in Task PROVE Ordinary(u, tasks[u], us[u])
  <2>1. Quiet(tasks, post(tasks, u))
    BY QuietSelf, PostQuiet DEF KInv
  <2>2. Ordinary(u, tasks[u], post(tasks, u)[u]) /\ Ordinary(u, tasks[u], tasks[u])
    BY <2>1, OrdinarySelf DEF Quiet
  <2> QED
    BY <2>2
<1> HIDE DEF us
<1> QED
  BY <1>1, <1>2, ReturnMoves DEF Moves, Quiet

\* The restart of task i by task t: no wait for a receiver or a reply is new,
\* and a record other than i's changes only if a wait ends.
Restarted(t, i) ==
    /\ t \in KernelCallers /\ kernel' = User
    /\ \A u \in Task : \/ tasks'[u] = tasks[u]
                       \/ u = i /\ tasks'[u].sched \in {"Runnable", "Stopped"}
                       \/ /\ u \notin {t, i} /\ tasks'[u].sched = "Runnable"
                          /\ Ordinary(u, tasks[u], tasks'[u])
    /\ \A u \in Task : u # i => tasks'[u].kind = tasks[u].kind
    /\ tasks'[i].kind # "Faulted" /\ i # Supervisor

\* What a restart leaves.
LEMMA ReinitLeaves ==
    ASSUME KInv, NEW t \in Task, NEW i \in Task, NEW start \in BOOLEAN, reinit_task(t, i, start)
    PROVE  Restarted(t, i)
<1> DEFINE old == current_id(tasks, i)
           us  == [u \in Task |->
                      CASE u = i -> reinitialize(tasks[u], start)
                        [] u \notin {t, i} /\ WaitsFor(tasks[u], old) -> Runnable(tasks, u)[u]
                        [] OTHER -> tasks[u]]
           Freed(u) == u \notin {t, i} /\ WaitsFor(tasks[u], old)
<1>1. /\ t \in KernelCallers /\ i # Supervisor
      /\ \/ tasks[i].kind = "Suspended" /\ Return(tasks, Same)
         \/ tasks' = us /\ kernel' = User
  BY DEF reinit_task, Return
<1>2. Table(tasks)
  BY DEF KInv
<1>3. CASE tasks[i].kind = "Suspended" /\ Return(tasks, Same)
  <2>1. tasks' = tasks /\ kernel' = User
    BY <1>3 DEF Return
  <2> QED
    BY <1>1, <1>3, <2>1 DEF Restarted
<1>4. CASE tasks' = us /\ kernel' = User
  <2>1. us[i] = reinitialize(tasks[i], start)
    OBVIOUS
  <2>2. \A u \in Task : u # i /\ ~Freed(u) => us[u] = tasks[u]
    OBVIOUS
  <2>3. \A u \in Task : Freed(u) => us[u] = Runnable(tasks, u)[u]
    OBVIOUS
  <2> HIDE DEF us
  <2>4. us[i].kind = "Healthy" /\ us[i].sched \in {"Runnable", "Stopped"}
    <3> DEFINE x == tasks[i]
               y == reinitialize(x, start)
    <3>1. x \in TaskRecord
      BY <1>2 DEF Table
    <3> HIDE DEF x
    <3>2. y.kind = "Healthy" /\ y.sched = IF start THEN "Runnable" ELSE "Stopped"
      BY <3>1, ReinitializeFacts
    <3> HIDE DEF y
    <3> QED
      BY <2>1, <3>2 DEF x, y
  <2>5. ASSUME NEW u \in Task, Freed(u)
        PROVE  /\ us[u].sched = "Runnable" /\ Ordinary(u, tasks[u], us[u])
               /\ us[u].kind = tasks[u].kind
    <3>1. tasks[u].fault = NoFault /\ tasks[u].sched # "InSuspendedReply"
      BY <2>5 DEF WaitsFor, Waits
    <3> DEFINE vs == Runnable(tasks, u)
    <3>2. Follows(tasks, tasks) /\ Quiet(tasks, tasks)
      BY FollowsSelf, QuietSelf
    <3>3. vs[u].sched = "Runnable" /\ vs[u].kind = tasks[u].kind
      BY <1>2, <3>1, <3>2, RunnableKeeps, SMTT(30)
    <3>4. Quiet(tasks, vs)
      BY <1>2, <3>1, <3>2, RunnableQuiet
    <3> HIDE DEF vs
    <3> QED
      BY <2>3, <2>5, <3>3, <3>4 DEF vs, Quiet
  <2>6. \A u \in Task : Freed(u) => u \notin {t, i}
    OBVIOUS
  <2> HIDE DEF Freed
  <2> QED
    BY <1>1, <1>4, <2>2, <2>4, <2>5, <2>6 DEF Restarted
<1> QED
  BY <1>1, <1>3, <1>4

\* reinit_task, of a task other than the supervisor
LEMMA ReinitMoves ==
    ASSUME KInv, NEW t \in Task, t # Supervisor, NEW i \in Task, NEW start \in BOOLEAN,
           reinit_task(t, i, start)
    PROVE  StepMoves
<1>1. Restarted(t, i)
  BY ReinitLeaves
<1>2. ~Sole /\ kernel'.at # "recv"
  BY <1>1, UserAt DEF Sole, Restarted
<1>3. ASSUME NEW u \in Task PROVE Ordinary(u, tasks[u], tasks'[u])
  <2>1. CASE u = i /\ tasks'[u].sched \in {"Runnable", "Stopped"}
    BY <1>1, <1>2, <2>1 DEF Ordinary, Restarted
  <2> QED
    BY <1>1, <2>1, OrdinarySelf DEF Restarted
<1> QED
  BY <1>2, <1>3 DEF StepMoves, Moves, Quiet

\* Every system call of a task other than the supervisor
LEMMA SyscallMoves ==
    ASSUME KInv, Wired(tasks), NEW t \in Task, t # Supervisor, Syscall(t)
    PROVE  StepMoves
<1>1. \A S : Ids(S) \subseteq TaskId
  BY DEF Ids
<1>2. CASE \E id \in Ids(Callees[t]), m, p \in SlicesOf(t) : send(t, id, m, p)
  BY <1>1, <1>2, SendMoves
<1>3. CASE \E from \in Ids(Clients(t)) \cup {None, KERNEL}, b \in SlicesOf(t), mask \in BOOLEAN :
               recv(t, from, b, mask)
  BY <1>1, <1>3, RecvMoves
<1>4. CASE \E id \in Ids(Clients(t)), m \in SlicesOf(t) : reply(t, id, m)
  BY <1>4, ReplyMoves, SMTT(30)
<1>5. CASE \E id \in Ids(Clients(t)) : reply_fault(t, id)
  BY <1>5, ReplyFaultMoves
<1>6. CASE \E id \in Ids(Clients(t)), b \in SlicesOf(t),
              lease \in Region \cup {"none", "memory", "table"}
                              \cup (IF t = Supervisor THEN {} ELSE {"range"}) :
               borrow(t, id, b, lease)
  <2>1. PICK id \in Ids(Clients(t)), b \in SlicesOf(t),
             lease \in Region \cup {"none", "memory", "table"}
                             \cup (IF t = Supervisor THEN {} ELSE {"range"}) :
               borrow(t, id, b, lease)
    BY <1>6, SMTT(30)
  <2>2. lease \in Region \cup {"none", "memory", "table", "range"}
    OBVIOUS
  <2> QED
    BY <2>1, <2>2, BorrowMoves
<1>7. CASE \E id \in TaskId : sys_post(t, id)
  BY <1>7, PostCallMoves
<1>8. CASE panic(t)
  BY <1>8, PanicMoves, SMTT(30)
<1>9. CASE \E i \in Task, start \in BOOLEAN : reinit_task(t, i, start)
  BY <1>9, ReinitMoves
<1>10. CASE \E i \in Task : fault_task(t, i)
  BY <1>10, FaultTaskMoves
<1> QED
  BY <1>2, <1>3, <1>4, <1>5, <1>6, <1>7, <1>8, <1>9, <1>10, SMTT(30) DEF Syscall

\* The scan of the receive of a task other than the supervisor
LEMMA ScanMoves ==
    ASSUME KInv, Wired(tasks), recv_scan, current # Supervisor
    PROVE  StepMoves
<1> DEFINE t == current
           S == {u \in Task : is_sending_to(tasks[u], current_id(tasks, t))}
           a == priority_scan(kernel.pos, S)
<1>1. /\ kernel.at = "recv"
      /\ \/ S = {} /\ Block(tasks, t, None, kernel.hint)
         \/ S # {} /\ Return(Delivered(tasks, a, t), kernel.hint)
         \/ S # {} /\ FaultCaller(FaultIf(SrcFault(tasks, a, t), tasks, a))
         \/ S # {} /\ tasks' = force_fault(tasks, a, "Other") /\ UNCHANGED current
  BY DEF recv_scan
<1>2. Scanning /\ Table(tasks) /\ CurrentRuns(tasks, current)
  BY <1>1, SMTT(30) DEF KInv, User, Reconciling
<1>3. /\ kernel \in [at : {"recv"}, pos : Task, hint : {Same, Other, Supervisor}]
      /\ t \in Task /\ is_runnable(tasks[t]) /\ Follows(tasks, tasks) /\ Quiet(tasks, tasks)
  BY <1>2, FollowsSelf, QuietSelf DEF Scanning, CurrentRuns
<1>4. kernel.pos \in Int
  BY <1>3, SMTT(30) DEF Task
<1>5. S \in SUBSET Task
  OBVIOUS
<1>6. S # {} => a \in S
  BY <1>4, <1>5, ScanFacts
<1>7. S # {} => a \in Task /\ is_sending_to(tasks[a], current_id(tasks, t))
  BY <1>6
<1> HIDE DEF S, a
<1>8. S # {} => /\ a \in Task \ {Supervisor} /\ t \in Callees[a] /\ a # t
                /\ tasks[a].kind = "Healthy" /\ tasks[a].sched = "InSend"
  BY <1>3, <1>7, WiredSender DEF is_runnable
<1>9. t # Supervisor /\ t = current
  OBVIOUS
<1> HIDE DEF t
<1>10. CASE S = {} /\ Block(tasks, t, None, kernel.hint)
  <2>1. tasks[t].fault = NoFault /\ None \in Peers
    BY <1>2, <1>3 DEF Table, Sound, is_runnable, Peers
  <2>2. Quiet(tasks, set_healthy_state(tasks, t, "InRecv", None))
    BY <1>2, <1>3, <1>9, <2>1, BlockQuiet
  <2> QED
    BY <1>10, <2>2, ReturnMoves DEF Block, Moves
<1>11. CASE S # {} /\ Return(Delivered(tasks, a, t), kernel.hint)
  <2> DEFINE vs == Delivered(tasks, a, t)
  <2>1. Passed(tasks, vs, a, t)
    BY <1>2, <1>3, <1>8, <1>11, DeliveredPasses DEF is_runnable
  <2> HIDE DEF vs
  <2>2. Moves(tasks, vs)
    BY <1>8, <1>11, <2>1 DEF Moves
  <2> QED
    BY <1>11, <2>2, ReturnMoves DEF vs
<1>12. CASE S # {} /\ FaultCaller(FaultIf(SrcFault(tasks, a, t), tasks, a))
  <2> DEFINE src == SrcFault(tasks, a, t)
             us  == FaultIf(src, tasks, a)
  <2>1. src \in BOOLEAN
    BY DEF SrcFault, SenderMalformed
  <2> HIDE DEF src
  <2>2. Table(us)
    BY <1>2, <1>3, <1>8, <1>12, <2>1, FaultIfKeeps
  <2>3. Quiet(tasks, us)
    BY <1>2, <1>3, <1>8, <1>12, <2>1, FaultIfQuiet
  <2>4. FaultCaller(us)
    BY <1>12 DEF src
  <2> HIDE DEF us
  <2> QED
    BY <1>3, <1>9, <2>2, <2>3, <2>4, FaultCallerMoves
<1>13. CASE S # {} /\ tasks' = force_fault(tasks, a, "Other") /\ UNCHANGED current
  <2>1. "Other" \in Faults \ {NoFault}
    BY DEF Faults, NoFault
  <2>2. Quiet(tasks, force_fault(tasks, a, "Other"))
    BY <1>2, <1>3, <1>8, <1>13, <2>1, FaultQuiet
  <2> QED
    BY <1>13, <2>2 DEF StepMoves, Moves
<1> QED
  BY <1>1, <1>10, <1>11, <1>12, <1>13

\* A delivery of reconcile_ipc
LEMMA DeliverOrFaultMoves ==
    ASSUME KInv, Wired(tasks), NEW a \in Task, NEW b \in Task, b # Supervisor, a # b,
           is_sending_to(tasks[a], current_id(tasks, b)), tasks[b].kind = "Healthy"
    PROVE  Moves(tasks, deliver_or_fault(tasks, a, b))
<1> DEFINE src == SrcFault(tasks, a, b)
           dst == DstFault(tasks, a, b)
           us  == FaultIf(src, tasks, a)
           vs  == FaultIf(dst, us, b)
<1>1. /\ b \in Callees[a] /\ a # Supervisor
      /\ tasks[a].kind = "Healthy" /\ tasks[a].sched = "InSend"
  BY WiredSender
<1>2. Table(tasks) /\ Follows(tasks, tasks) /\ Quiet(tasks, tasks)
  BY FollowsSelf, QuietSelf DEF KInv
<1>3. CASE Deliverable(tasks, a, b)
  <2>1. deliver_or_fault(tasks, a, b) = Delivered(tasks, a, b)
    BY <1>3 DEF deliver_or_fault
  <2>2. Passed(tasks, Delivered(tasks, a, b), a, b)
    BY <1>1, <1>2, DeliveredPasses
  <2> QED
    BY <1>1, <2>1, <2>2 DEF Moves
<1>4. CASE ~Deliverable(tasks, a, b)
  <2>1. deliver_or_fault(tasks, a, b) = vs
    BY <1>4 DEF deliver_or_fault
  <2>2. src \in BOOLEAN /\ dst \in BOOLEAN
    BY DEF SrcFault, DstFault, SenderMalformed
  <2> HIDE DEF src, dst
  <2>3. Table(us)
    BY <1>1, <1>2, <2>2, FaultIfKeeps
  <2>4. Quiet(tasks, us)
    BY <1>1, <1>2, <2>2, FaultIfQuiet
  <2> HIDE DEF us
  <2>5. Quiet(tasks, vs)
    BY <2>2, <2>3, <2>4, FaultIfQuiet
  <2> QED
    BY <2>1, <2>5 DEF Moves
<1> QED
  BY <1>3, <1>4

\* reconcile_ipc
LEMMA ReconcileMoves ==
    ASSUME KInv, Wired(tasks), reconcile_ipc
    PROVE  StepMoves /\ current' = current
<1> DEFINE i == kernel.pos
<1>1. /\ kernel.at = "reconcile" /\ current' = current
      /\ \/ Receives(i) /\ tasks' = deliver_or_fault(tasks, priority_scan(i, Senders(i)), i)
         \/ Sends(i) /\ tasks' = deliver_or_fault(tasks, i, tasks[i].peer.index)
         \/ UNCHANGED tasks
  BY DEF reconcile_ipc
<1>2. Reconciling
  BY <1>1, SMTT(30) DEF KInv, User, Scanning
<1>3. i \in Task /\ Table(tasks) /\ is_runnable(tasks[Supervisor])
  BY <1>2, TaskFacts DEF KInv, Reconciling, CurrentRuns
<1> HIDE DEF i
<1>4. Moves(tasks, tasks')
  <2>1. CASE Receives(i) /\ tasks' = deliver_or_fault(tasks, priority_scan(i, Senders(i)), i)
    <3> DEFINE a == priority_scan(i, Senders(i))
    <3>1. Senders(i) \in SUBSET Task /\ Senders(i) # {} /\ i \in Int
      BY <1>3, <2>1, TaskFacts DEF Receives, Senders
    <3>2. a \in Senders(i)
      BY <3>1, ScanFacts
    <3> HIDE DEF a
    <3>3. a \in Task /\ is_sending_to(tasks[a], current_id(tasks, i))
      BY <3>2 DEF Senders
    <3>4. /\ tasks[a].sched = "InSend"
          /\ tasks[i].kind = "Healthy" /\ tasks[i].sched = "InRecv"
      BY <2>1, <3>3 DEF Receives, is_sending_to
    <3>5. a # i /\ i # Supervisor
      BY <1>3, <3>4 DEF is_runnable
    <3>6. Moves(tasks, deliver_or_fault(tasks, a, i))
      BY <1>3, <3>3, <3>4, <3>5, DeliverOrFaultMoves
    <3> QED
      BY <2>1, <3>6 DEF a
  <2>2. CASE Sends(i) /\ tasks' = deliver_or_fault(tasks, i, tasks[i].peer.index)
    <3> DEFINE c == tasks[i].peer.index
    <3>1. /\ tasks[i].kind = "Healthy" /\ tasks[i].sched = "InSend"
          /\ tasks[i].peer = current_id(tasks, c)
          /\ can_accept_message_from(tasks[c], current_id(tasks, i))
      BY <2>2, SMTT(30) DEF Sends, Live
    <3>2. tasks[i].peer \in TaskId
      BY <1>3, <3>1 DEF Table, Sound
    <3>3. c \in Task /\ tasks[c].kind = "Healthy" /\ tasks[c].sched = "InRecv"
      BY <3>1, <3>2 DEF TaskId, can_accept_message_from
    <3>4. is_sending_to(tasks[i], current_id(tasks, c))
      BY <3>1 DEF is_sending_to
    <3> HIDE DEF c
    <3>5. c # i /\ c # Supervisor
      BY <1>3, <3>1, <3>3, SMTT(30) DEF is_runnable
    <3>6. Moves(tasks, deliver_or_fault(tasks, i, c))
      BY <1>3, <3>3, <3>4, <3>5, DeliverOrFaultMoves
    <3> QED
      BY <2>2, <3>6 DEF c
  <2>3. CASE UNCHANGED tasks
    BY <2>3, QuietSelf DEF Moves
  <2> QED
    BY <1>1, <2>1, <2>2, <2>3
<1> QED
  BY <1>1, <1>4 DEF StepMoves

-----------------------------------------------------------------------------
(***************************************************************************)
(* What the supervisor's program sees of a step that is not its own        *)
(***************************************************************************)
\* No message comes, and nothing the supervisor was told of is lost.
Calmly ==
    /\ NewlyReceived = {}
    /\ tasks[Supervisor].notified
          => \/ tasks'[Supervisor].notified
             \/ Fires(tasks[Supervisor]) /\ is_runnable(tasks'[Supervisor])
    /\ pc # "receiving" => is_runnable(tasks'[Supervisor])
    /\ Sole => \A u \in Task : tasks[u].kind = "Faulted" => tasks'[u].kind = "Faulted"

\* The message of a client a comes.
Took(a) ==
    /\ NewlyReceived = {a} /\ Supervisor \in Callees[a]
    /\ is_runnable(tasks'[Supervisor])
    /\ tasks'[Supervisor].notified = tasks[Supervisor].notified
    /\ \A u \in Task : tasks[u].kind = "Faulted" <=> tasks'[u].kind = "Faulted"

\* Sends, and the waits for replies, stay with the tasks that programs name.
LEMMA WiredKept ==
    ASSUME Wired(tasks), NEW us, Moves(tasks, us)
    PROVE  Wired(us)
<1> SUFFICES ASSUME NEW u \in Task, us[u].sched \in {"InSend", "InReply"}, us[u].peer \in TaskId
             PROVE  us[u].peer.index \in Callees[u]
  BY DEF Wired
<1>1. CASE Quiet(tasks, us)
  BY <1>1 DEF Quiet, Ordinary, Wired
<1>2. CASE \E a \in Task \ {Supervisor} : \E b \in Callees[a] : Passed(tasks, us, a, b)
  <2>0. PICK a \in Task \ {Supervisor} : \E b \in Callees[a] : Passed(tasks, us, a, b)
    BY <1>2
  <2>1. PICK b \in Callees[a] : Passed(tasks, us, a, b)
    BY <2>0
  <2>2. current_id(tasks, b).index = b
    BY SMTT(30) DEF current_id
  <2>3. CASE u = a
    BY <2>1, <2>2, <2>3 DEF Passed
  <2>4. CASE u = b
    BY <2>1, <2>4 DEF Passed, is_runnable
  <2>5. CASE u \notin {a, b}
    BY <2>1, <2>5 DEF Passed, Wired
  <2> QED
    BY <2>3, <2>4, <2>5
<1> QED
  BY <1>1, <1>2 DEF Moves

\* A step without a delivery brings no message.
LEMMA QuietReceives ==
    ASSUME Quiet(tasks, tasks')
    PROVE  NewlyReceived = {}
<1> SUFFICES ASSUME NEW a \in Task, Waits(tasks'[a], "InReply", Me)
             PROVE  Waits(tasks[a], "InReply", Me)
  BY DEF NewlyReceived
<1>1. Ordinary(a, tasks[a], tasks'[a])
  BY DEF Quiet
<1> QED
  BY <1>1 DEF Ordinary, Waits

\* A delivery brings a message if it is one to the supervisor.
LEMMA PassedReceives ==
    ASSUME NEW a \in Task, NEW b \in Task, Passed(tasks, tasks', a, b)
    PROVE  NewlyReceived = IF b = Supervisor THEN {a} ELSE {}
<1>1. current_id(tasks, b) = Me <=> b = Supervisor
  BY SMTT(30) DEF current_id, Me
<1>2. \A u \in Task : u # a /\ Waits(tasks'[u], "InReply", Me) => Waits(tasks[u], "InReply", Me)
  <2> TAKE u \in Task
  <2>1. CASE u = b
    BY <2>1 DEF Passed, is_runnable, Waits
  <2>2. CASE u \notin {a, b}
    BY <2>2 DEF Passed
  <2> QED
    BY <2>1, <2>2
<1>3. ~Waits(tasks[a], "InReply", Me)
  BY DEF Passed, Waits
<1>4. Waits(tasks'[a], "InReply", Me) <=> b = Supervisor
  BY <1>1 DEF Passed, Waits
<1> QED
  BY <1>2, <1>3, <1>4 DEF NewlyReceived

\* A delivery to the supervisor is of a client's message.
LEMMA PassedTakes ==
    ASSUME NEW a \in Task, Supervisor \in Callees[a], Passed(tasks, tasks', a, Supervisor)
    PROVE  Took(a)
<1>1. NewlyReceived = {a}
  BY PassedReceives, TaskFacts
<1>2. ASSUME NEW u \in Task PROVE tasks[u].kind = "Faulted" <=> tasks'[u].kind = "Faulted"
  <2>1. CASE u \in {a, Supervisor}
    BY <2>1 DEF Passed, is_runnable
  <2>2. CASE u \notin {a, Supervisor}
    BY <2>2 DEF Passed
  <2> QED
    BY <2>1, <2>2
<1> QED
  BY <1>1, <1>2 DEF Took, Passed

\* What the supervisor sees of a step of the others.
LEMMA MovesShow ==
    ASSUME SInv, ~Searching, Moves(tasks, tasks')
    PROVE  /\ Calmly \/ \E a \in Task : Took(a)
           /\ pc = "receiving" /\ Calmly
                 => \/ Fires(tasks'[Supervisor])
                    \/ Fires(tasks[Supervisor]) /\ is_runnable(tasks'[Supervisor])
<1> DEFINE x == tasks[Supervisor]
           y == tasks'[Supervisor]
<1>1. pc = "receiving" => Fires(x)
  BY DEF SInv
<1>2. pc # "receiving" => is_runnable(x)
  BY DEF SInv
<1>3. CASE Quiet(tasks, tasks')
  <2>1. Patient(x, y)
    BY <1>3, TaskFacts DEF Quiet, Ordinary
  <2>2. Sole => \A u \in Task : tasks[u].kind = "Faulted" => tasks'[u].kind = "Faulted"
    BY <1>3 DEF Quiet, Ordinary
  <2> HIDE DEF x, y
  <2>3. /\ x.notified => y.notified \/ (Fires(x) /\ is_runnable(y))
        /\ pc # "receiving" => is_runnable(y)
        /\ pc = "receiving" => Fires(y) \/ (Fires(x) /\ is_runnable(y))
    BY <1>1, <1>2, <2>1 DEF Patient
  <2> QED
    BY <1>3, <2>2, <2>3, QuietReceives DEF Calmly, x, y
<1>4. CASE \E a \in Task \ {Supervisor} : \E b \in Callees[a] : Passed(tasks, tasks', a, b)
  <2>0. PICK a \in Task \ {Supervisor} : \E b \in Callees[a] : Passed(tasks, tasks', a, b)
    BY <1>4
  <2>1. PICK b \in Callees[a] : Passed(tasks, tasks', a, b)
    BY <2>0
  <2>2. b \in Task
    BY CalleeFacts
  <2>3. CASE b = Supervisor
    <3>1. Took(a)
      BY <2>1, <2>3, PassedTakes
    <3>2. ~Calmly
      BY <3>1 DEF Took, Calmly
    <3> QED
      BY <3>1, <3>2
  <2>4. CASE b # Supervisor
    <3>1. NewlyReceived = {} /\ y = x
      BY <2>1, <2>2, <2>4, PassedReceives, TaskFacts DEF Passed
    <3>2. \A u \in Task : tasks[u].kind = "Faulted" => tasks'[u].kind = "Faulted"
      BY <2>1 DEF Passed
    <3> HIDE DEF x, y
    <3> QED
      BY <1>1, <1>2, <3>1, <3>2 DEF Calmly, x, y
  <2> QED
    BY <2>3, <2>4
<1> QED
  BY <1>3, <1>4 DEF Moves

\* The supervisor is task 0, and it does not fault.
LEMMA FaultedIsOther ==
    ASSUME NEW ts, Table(ts), NEW t \in Task, ts[t].kind = "Faulted"
    PROVE  t >= 1
<1>1. t # Supervisor
  BY DEF Table, Sound
<1> QED
  BY <1>1, KernelAssumption, SMTT(30) DEF Task, Supervisor

\* A step that is not of the supervisor's program keeps the invariant.
LEMMA ReceiveKeeps ==
    ASSUME SInv, StepKeeps, Receive, Wired(tasks'), Calmly \/ \E a \in Task : Took(a),
           Searching' => /\ pc = "receiving" /\ tasks'[Supervisor].save.mask
                         /\ Calmly /\ ~Fires(tasks[Supervisor]),
           pc = "receiving" /\ Calmly
                 => \/ Searching' \/ Fires(tasks'[Supervisor])
                    \/ Fires(tasks[Supervisor]) /\ is_runnable(tasks'[Supervisor])
    PROVE  SInv'
<1> DEFINE x == tasks[Supervisor]
           y == tasks'[Supervisor]
<1>1. KInv' /\ Table(tasks') /\ Told(tasks, tasks') /\ Table(tasks)
  BY DEF StepKeeps, KInv, SInv
<1>2. STypeOK /\ FaultsInHand /\ 1 \in 1..N
  BY KernelAssumption, SMTT(30) DEF SInv
<1>3. Fires(x) => pc = "receiving"
  BY DEF SInv, Fires, can_accept_notification, is_runnable
<1>4. CASE /\ pc = "receiving" /\ NewlyReceived # {} /\ pc' = "message"
           /\ \E a \in NewlyReceived : sender' = current_id(tasks, a)
           /\ UNCHANGED <<next_task, fault_index>>
  <2>1. PICK a \in Task : Took(a)
    BY <1>4 DEF Calmly
  <2>2. sender' = current_id(tasks, a)
    BY <1>4, <2>1 DEF Took
  <2>3. sender' \in Ids(Clients(Supervisor))
    BY <1>1, <2>1, <2>2 DEF Took, Ids, Clients, TaskId, current_id, Table, TaskRecord
  <2>4. STypeOK'
    BY <1>2, <1>4, <2>3 DEF STypeOK, Ids
  <2>5. FaultsInHand'
    BY <1>2, <1>4, <2>1 DEF FaultsInHand, Took
  <2>6. ~Calmly
    BY <1>4 DEF Calmly
  <2> QED
    BY <1>1, <1>4, <2>1, <2>3, <2>4, <2>5, <2>6 DEF SInv, Took
<1>5. CASE /\ Fires(x) /\ is_runnable(y)
           /\ pc' = "faults" /\ next_task' = 1
           /\ UNCHANGED <<fault_index, sender>>
  <2>1. STypeOK'
    BY <1>2, <1>5 DEF STypeOK
  <2>2. FaultsInHand'
    BY <1>1, <1>5, FaultedIsOther DEF FaultsInHand
  <2> QED
    BY <1>1, <1>5, <2>1, <2>2 DEF SInv
<1>6. CASE /\ pc = "receiving" => NewlyReceived = {} /\ ~(Fires(x) /\ is_runnable(y))
           /\ UNCHANGED program
  <2>1. UNCHANGED <<pc, next_task, fault_index, sender>>
    BY <1>6 DEF program
  <2>2. STypeOK'
    BY <1>2, <2>1 DEF STypeOK
  <2>3. ~(Fires(x) /\ is_runnable(y))
    BY <1>3, <1>6
  <2>4. pc = "receiving" => Calmly
    BY <1>6 DEF Took
  <2>5. x.notified => y.notified
    BY <2>3 DEF Calmly, Took
  <2>6. FaultsInHand'
    <3> SUFFICES ASSUME NEW t \in Task, tasks'[t].kind = "Faulted"
                 PROVE  \/ y.notified
                        \/ pc' = "faults" /\ t >= next_task'
                        \/ pc' = "restart" /\ t >= fault_index'
      BY DEF FaultsInHand
    <3>1. CASE tasks[t].kind = "Faulted"
      BY <1>2, <2>1, <2>5, <3>1 DEF FaultsInHand
    <3>2. CASE tasks[t].kind # "Faulted"
      BY <1>1, <2>3, <3>2 DEF Told, Heard
    <3> QED
      BY <3>1, <3>2
  <2>7. pc' = "receiving" => (Searching' /\ y.save.mask) \/ Fires(y)
    BY <2>1, <2>3, <2>4
  <2>8. pc' # "receiving" => is_runnable(y) /\ ~Searching'
    BY <2>1 DEF Calmly, Took
  <2>9. pc' \in {"message", "reply"} => sender' \in Ids(Clients(Supervisor))
    BY <2>1 DEF SInv
  <2>10. Sole /\ pc' = "restart" => tasks'[fault_index'].kind = "Faulted"
    <3> SUFFICES ASSUME Sole, pc = "restart" PROVE tasks'[fault_index].kind = "Faulted"
      BY <2>1
    <3>1. tasks[fault_index].kind = "Faulted" /\ fault_index \in Task
      BY <1>2 DEF SInv, STypeOK
    <3> QED
      BY <3>1 DEF Calmly, Took
  <2> QED
    BY <1>1, <2>2, <2>6, <2>7, <2>8, <2>9, <2>10 DEF SInv
<1> QED
  BY <1>4, <1>5, <1>6 DEF Receive

\* So does a step of the others, or of reconcile_ipc.
LEMMA MovesKeep ==
    ASSUME SInv, StepKeeps, Receive, ~Searching, ~Searching', Moves(tasks, tasks')
    PROVE  SInv'
<1>1. /\ Calmly \/ \E a \in Task : Took(a)
      /\ pc = "receiving" /\ Calmly
            => \/ Fires(tasks'[Supervisor])
               \/ Fires(tasks[Supervisor]) /\ is_runnable(tasks'[Supervisor])
  BY MovesShow
<1>2. Wired(tasks')
  BY WiredKept DEF SInv
<1> QED
  BY <1>1, <1>2, ReceiveKeeps

\* The supervisor blocks in its receive, which asks for the notification.
LEMMA OwnBlockShows ==
    ASSUME Table(tasks), Wired(tasks), is_runnable(tasks[Supervisor]), pc = "receiving",
           tasks[Supervisor].save.mask,
           tasks' = set_healthy_state(tasks, Supervisor, "InRecv", None)
    PROVE  Calmly /\ Fires(tasks'[Supervisor]) /\ Wired(tasks')
<1> DEFINE x == tasks[Supervisor]
           y == Put(x, "InRecv", None)
<1>1. /\ tasks \in [Task -> TaskRecord] /\ x \in TaskRecord /\ x.fault = NoFault
      /\ Supervisor \in Task
  BY TaskFacts DEF Table, Sound, is_runnable
<1>2. "InRecv" \in Scheds /\ None \in Peers
  BY DEF Scheds, Peers
<1>3. tasks' = [tasks EXCEPT ![Supervisor] = y]
  BY <1>1, <1>2, SetHealthyState, SMTT(30)
<1>4. /\ y.sched = "InRecv" /\ y.save = x.save /\ y.fault = x.fault /\ y.kind = x.kind
      /\ y.notified = x.notified
  BY <1>1, <1>2, PutFacts, SMTT(30)
<1> HIDE DEF y
<1>5. tasks'[Supervisor] = y /\ \A u \in Task : u # Supervisor => tasks'[u] = tasks[u]
  BY <1>1, <1>3
<1>6. Fires(y)
  BY <1>1, <1>4 DEF Fires, can_accept_notification
<1>7. NewlyReceived = {}
  BY <1>4, <1>5 DEF NewlyReceived, Waits
<1>8. Wired(tasks')
  BY <1>4, <1>5 DEF Wired
<1>9. \A u \in Task : tasks'[u].kind = tasks[u].kind
  BY <1>4, <1>5
<1> QED
  BY <1>4, <1>5, <1>6, <1>7, <1>8, <1>9 DEF Calmly

\* The supervisor's receive faults a sender, and goes on.
LEMMA OwnFaultShows ==
    ASSUME Table(tasks), is_runnable(tasks[Supervisor]), pc = "receiving",
           NEW a \in Task, a # Supervisor, tasks' = force_fault(tasks, a, "Other")
    PROVE  /\ Calmly /\ Moves(tasks, tasks')
           /\ tasks'[Supervisor].save = tasks[Supervisor].save
<1> DEFINE x == tasks[Supervisor]
           y == Posted(x)
           vs == force_fault(tasks, a, "Other")
<1>1. "Other" \in Faults \ {NoFault} /\ Follows(tasks, tasks) /\ x \in TaskRecord
  BY FollowsSelf, TaskFacts DEF Faults, NoFault, Table
<1>2. Quiet(tasks, vs)
  BY <1>1, QuietSelf, FaultQuiet
<1>3. vs[Supervisor] \in {x, y}
  BY <1>1, FaultKeeps, SMTT(30)
<1> HIDE DEF vs
<1>4. tasks' = vs
  BY DEF vs
<1>5. ~Fires(x)
  BY DEF Fires, can_accept_notification, is_runnable
<1>6. y.save = x.save
  BY <1>1, <1>5, PostedFacts
<1> HIDE DEF y
<1>7. Patient(x, vs[Supervisor])
  BY <1>2, TaskFacts DEF Quiet, Ordinary
<1>8. Sole => \A u \in Task : tasks[u].kind = "Faulted" => vs[u].kind = "Faulted"
  BY <1>2 DEF Quiet, Ordinary
<1>9. NewlyReceived = {}
  BY <1>2, <1>4, QuietReceives
<1> QED
  BY <1>2, <1>3, <1>4, <1>6, <1>7, <1>8, <1>9 DEF Calmly, Moves, Patient

\* The scan of the supervisor's receive keeps the invariant.
LEMMA OwnScanKeeps ==
    ASSUME SInv, recv_scan, Receive, current = Supervisor
    PROVE  SInv'
<1> DEFINE S == {u \in Task : is_sending_to(tasks[u], current_id(tasks, Supervisor))}
           a == priority_scan(kernel.pos, S)
<1>1. /\ kernel.at = "recv"
      /\ \/ S = {} /\ Block(tasks, Supervisor, None, kernel.hint)
         \/ S # {} /\ Return(Delivered(tasks, a, Supervisor), kernel.hint)
         \/ S # {} /\ DstFault(tasks, a, Supervisor)
         \/ /\ S # {} /\ tasks' = force_fault(tasks, a, "Other") /\ UNCHANGED current
            /\ kernel' = [kernel EXCEPT !.pos = a,
                                       !.hint = combine(@, FaultHint(tasks, a))]
  BY DEF recv_scan
<1>2. KInv /\ StepKeeps /\ Wired(tasks)
  BY ScanKeeps DEF SInv
<1>3. Scanning /\ Table(tasks) /\ CurrentRuns(tasks, current)
  BY <1>1, <1>2, SMTT(30) DEF KInv, User, Reconciling
<1>4. /\ kernel \in [at : {"recv"}, pos : Task, hint : {Same, Other, Supervisor}]
      /\ is_runnable(tasks[Supervisor]) /\ Supervisor \in Task
  BY <1>3, TaskFacts DEF Scanning, CurrentRuns
<1>5. kernel.pos \in Int
  BY <1>4, SMTT(30) DEF Task
<1>6. S \in SUBSET Task
  OBVIOUS
<1>7. S # {} => a \in S
  BY <1>5, <1>6, ScanFacts
<1>8. S # {} => a \in Task /\ is_sending_to(tasks[a], current_id(tasks, Supervisor))
  BY <1>7
<1> HIDE DEF S, a
<1>9. S # {} => /\ a \in Task \ {Supervisor} /\ Supervisor \in Callees[a]
                /\ tasks[a].kind = "Healthy" /\ tasks[a].sched = "InSend"
  BY <1>2, <1>4, <1>8, WiredSender
<1>10. ~Fires(tasks[Supervisor])
  BY <1>4 DEF Fires, can_accept_notification, is_runnable
<1>11. pc = "receiving" /\ tasks[Supervisor].save.mask
  BY <1>1, <1>10 DEF SInv, Searching
<1>12. CASE S = {} /\ Block(tasks, Supervisor, None, kernel.hint)
  <2>1. tasks' = set_healthy_state(tasks, Supervisor, "InRecv", None) /\ kernel' = User
    BY <1>12 DEF Block, Return
  <2>2. Calmly /\ Fires(tasks'[Supervisor]) /\ Wired(tasks')
    BY <1>2, <1>3, <1>4, <1>11, <2>1, OwnBlockShows
  <2>3. ~Searching'
    BY <2>1, UserAt DEF Searching
  <2> QED
    BY <1>2, <2>2, <2>3, ReceiveKeeps
<1>13. CASE S # {} /\ Return(Delivered(tasks, a, Supervisor), kernel.hint)
  <2> DEFINE vs == Delivered(tasks, a, Supervisor)
  <2>1. Passed(tasks, vs, a, Supervisor)
    BY <1>3, <1>4, <1>9, <1>13, DeliveredPasses DEF is_runnable
  <2> HIDE DEF vs
  <2>2. tasks' = vs /\ kernel' = User
    BY <1>13 DEF Return, vs
  <2>3. Passed(tasks, tasks', a, Supervisor)
    BY <2>1, <2>2
  <2>4. Took(a) /\ a \in Task
    BY <1>9, <1>13, <2>3, PassedTakes
  <2>5. Moves(tasks, tasks')
    BY <1>9, <1>13, <2>3 DEF Moves
  <2>6. Wired(tasks') /\ ~Searching' /\ ~Calmly
    BY <1>2, <2>2, <2>4, <2>5, WiredKept, UserAt DEF Searching, Took, Calmly
  <2> QED
    BY <1>2, <2>4, <2>6, ReceiveKeeps
<1>14. CASE S # {} /\ DstFault(tasks, a, Supervisor)
  BY <1>3, <1>4, <1>14 DEF DstFault, Table, Sound
<1>15. CASE /\ S # {} /\ tasks' = force_fault(tasks, a, "Other") /\ UNCHANGED current
            /\ kernel' = [kernel EXCEPT !.pos = a, !.hint = combine(@, FaultHint(tasks, a))]
  <2>1. /\ Calmly /\ Moves(tasks, tasks')
        /\ tasks'[Supervisor].save = tasks[Supervisor].save
    BY <1>3, <1>4, <1>9, <1>11, <1>15, OwnFaultShows
  <2>2. Wired(tasks')
    BY <1>2, <2>1, WiredKept
  <2>3. kernel'.at = "recv"
    BY <1>4, <1>15
  <2>4. Searching'
    BY <1>15, <2>3 DEF Searching
  <2> QED
    BY <1>2, <1>10, <1>11, <2>1, <2>2, <2>4, ReceiveKeeps
<1> QED
  BY <1>1, <1>12, <1>13, <1>14, <1>15

\* Every step of the kernel's loops keeps it.
LEMMA InKernelKeeps ==
    ASSUME SInv, InKernel
    PROVE  SInv'
<1>1. KInv /\ Wired(tasks) /\ Receive
  BY DEF SInv, InKernel
<1>2. CASE recv_scan
  <2>1. CASE current = Supervisor
    BY <1>1, <1>2, <2>1, OwnScanKeeps
  <2>2. CASE current # Supervisor
    <3>1. StepMoves /\ StepKeeps
      BY <1>1, <1>2, <2>2, ScanMoves, ScanKeeps
    <3>2. ~Searching /\ ~Searching' /\ Moves(tasks, tasks')
      BY <2>2, <3>1 DEF Searching, StepMoves
    <3> QED
      BY <1>1, <3>1, <3>2, MovesKeep
  <2> QED
    BY <2>1, <2>2
<1>3. CASE reconcile_ipc
  <2>1. StepMoves /\ StepKeeps
    BY <1>1, <1>3, ReconcileMoves, ReconcileKeeps
  <2>2. kernel.at = "reconcile" /\ kernel'.at # "recv"
    <3>1. /\ kernel.at = "reconcile"
          /\ kernel' = IF kernel.pos = N - 1 THEN User ELSE [kernel EXCEPT !.pos = kernel.pos + 1]
      BY <1>3 DEF reconcile_ipc
    <3>2. Reconciling
      BY <1>1, <3>1, SMTT(30) DEF KInv, User, Scanning
    <3>3. [kernel EXCEPT !.pos = kernel.pos + 1].at = "reconcile"
      BY <3>1, <3>2, SMTT(30) DEF Reconciling
    <3> QED
      BY <3>1, <3>3, UserAt
  <2>3. ~Searching /\ ~Searching' /\ Moves(tasks, tasks')
    BY <2>1, <2>2 DEF Searching, StepMoves
  <2> QED
    BY <1>1, <2>1, <2>3, MovesKeep
<1> QED
  BY <1>2, <1>3 DEF InKernel

\* The task that makes a system call is the running one.
LEMMA SyscallRuns ==
    ASSUME NEW t, Syscall(t)
    PROVE  current = t
<1>1. \A id, m, p : send(t, id, m, p) => Running(t)
  BY DEF send
<1>2. ASSUME NEW from, NEW b, NEW mask, recv(t, from, b, mask) PROVE Running(t)
  BY <1>2 DEF recv
<1>3. \A id, m : reply(t, id, m) \/ reply_fault(t, id) => Running(t)
  BY DEF reply, reply_fault
<1>4. \A id, b, lease : borrow(t, id, b, lease) => Running(t)
  BY DEF borrow
<1>5. \A id : sys_post(t, id) => Running(t)
  BY DEF sys_post
<1>6. panic(t) => Running(t)
  BY DEF panic
<1>7. \A i, start : reinit_task(t, i, start) \/ fault_task(t, i) => Running(t)
  BY DEF reinit_task, fault_task
<1> QED
  BY <1>1, <1>2, <1>3, <1>4, <1>5, <1>6, <1>7 DEF Syscall, Running

\* Every step of another task, and every interrupt, keeps it.
LEMMA OthersKeep ==
    ASSUME SInv, Others
    PROVE  SInv'
<1>1. KInv /\ Wired(tasks) /\ Receive
  BY DEF SInv, Others
<1>2. CASE \E t \in Task \ {Supervisor} : Syscall(t)
  <2>1. PICK t \in Task : t # Supervisor /\ Syscall(t)
    BY <1>2
  <2>2. StepMoves /\ StepKeeps
    BY <1>1, <2>1, SyscallMoves, SyscallKeeps
  <2>3. current = t
    BY <2>1, SyscallRuns
  <2>4. ~Searching /\ ~Searching' /\ Moves(tasks, tasks')
    BY <2>1, <2>2, <2>3 DEF Searching, StepMoves
  <2> QED
    BY <1>1, <2>2, <2>4, MovesKeep
<1>3. CASE \E S \in SUBSET Task \ {{}} : Interrupt(S)
  <2>1. PICK S \in SUBSET Task \ {{}} : Interrupt(S)
    BY <1>3, SMTT(30)
  <2>2. StepMoves /\ StepKeeps
    BY <1>1, <2>1, InterruptMoves, InterruptKeeps
  <2>3. kernel = User /\ kernel' = User
    BY <2>1 DEF Interrupt, Return
  <2>4. ~Searching /\ ~Searching' /\ Moves(tasks, tasks')
    BY <2>2, <2>3, UserAt DEF Searching, StepMoves
  <2> QED
    BY <1>1, <2>2, <2>4, MovesKeep
<1> QED
  BY <1>2, <1>3 DEF Others

-----------------------------------------------------------------------------
(***************************************************************************)
(* The supervisor's own program                                            *)
(***************************************************************************)
\* Waits are as before when no record but the supervisor's has a new one.
LEMMA WiredFrom ==
    ASSUME Wired(tasks), NEW us, Table(us),
           \A u \in Task : u # Supervisor /\ us[u].sched \in {"InSend", "InReply"}
               => us[u].sched = tasks[u].sched /\ us[u].peer = tasks[u].peer
    PROVE  Wired(us)
<1> SUFFICES ASSUME NEW u \in Task, us[u].sched \in {"InSend", "InReply"}, us[u].peer \in TaskId
             PROVE  us[u].peer.index \in Callees[u]
  BY DEF Wired
<1>1. u # Supervisor
  BY DEF Table, Sound
<1> QED
  BY <1>1 DEF Wired

\* What the program's receive may find: the notification, or it searches.
LEMMA OwnReceive ==
    ASSUME KInv, recv(Supervisor, None, "ok", TRUE)
    PROVE  /\ Running(Supervisor) /\ StepKeeps
           /\ \/ /\ tasks[Supervisor].notified
                 /\ tasks' = [tasks EXCEPT ![Supervisor].notified = FALSE] /\ kernel' = User
              \/ /\ ~tasks[Supervisor].notified
                 /\ tasks' = [tasks EXCEPT ![Supervisor].save = [NoArgs EXCEPT !.buffer = "ok",
                                                                              !.mask = TRUE]]
                 /\ kernel'.at = "recv" /\ current' = current
<1>1. None # KERNEL /\ None \notin TaskId
  BY KernelAssumption, SMTT(30) DEF None, KERNEL, TaskId, Task
<1>2. "ok" \in SlicesOf(Supervisor) /\ Supervisor \in Task
  BY TaskFacts DEF SlicesOf
<1>3. StepKeeps
  BY <1>2, RecvKeeps
<1>4. [at |-> "recv", pos |-> Supervisor, hint |-> Same].at = "recv"
  OBVIOUS
<1> QED
  BY <1>1, <1>3, <1>4 DEF recv, Return

\* s_recv keeps the invariant.
LEMMA RecvStepKeeps ==
    ASSUME SInv, s_recv
    PROVE  SInv'
<1> DEFINE x == tasks[Supervisor]
           v == [NoArgs EXCEPT !.buffer = "ok", !.mask = TRUE]
<1>1. /\ pc = "recv" /\ next_task' = 1 /\ UNCHANGED <<fault_index, sender>>
      /\ pc' = IF x.notified THEN "faults" ELSE "receiving"
      /\ recv(Supervisor, None, "ok", TRUE)
  BY DEF s_recv
<1>2. KInv /\ Wired(tasks) /\ STypeOK /\ FaultsInHand
  BY DEF SInv
<1>3. /\ Running(Supervisor) /\ StepKeeps
      /\ \/ /\ x.notified
            /\ tasks' = [tasks EXCEPT ![Supervisor].notified = FALSE] /\ kernel' = User
         \/ /\ ~x.notified
            /\ tasks' = [tasks EXCEPT ![Supervisor].save = v]
            /\ kernel'.at = "recv" /\ current' = current
  BY <1>1, <1>2, OwnReceive
<1>4. current = Supervisor /\ is_runnable(x) /\ Supervisor \in Task /\ Table(tasks)
  BY <1>2, <1>3, RunningFacts, TaskFacts
<1>5. KInv' /\ Table(tasks')
  BY <1>3 DEF StepKeeps, KInv
<1>6. tasks \in [Task -> TaskRecord] /\ x \in TaskRecord
  BY <1>4 DEF Table
<1>7. STypeOK'
  <2>1. 1 \in 1..N
    BY KernelAssumption, SMTT(30)
  <2> QED
    BY <1>1, <1>2, <2>1 DEF STypeOK
<1>8. v \in SaveArea /\ v.mask
  BY DEF NoArgs, SaveArea
<1> HIDE DEF v
<1>9. CASE /\ x.notified
           /\ tasks' = [tasks EXCEPT ![Supervisor].notified = FALSE] /\ kernel' = User
  <2> DEFINE y == [x EXCEPT !.notified = FALSE]
  <2>1. tasks'[Supervisor] = y /\ \A u \in Task : u # Supervisor => tasks'[u] = tasks[u]
    BY <1>4, <1>6, <1>9
  <2>2. y.kind = x.kind /\ y.sched = x.sched
    BY <1>6, NotifiedFacts
  <2> HIDE DEF y
  <2>3. is_runnable(tasks'[Supervisor]) /\ ~Searching'
    BY <1>4, <1>9, <2>1, <2>2, UserAt DEF is_runnable, Searching
  <2>4. Wired(tasks')
    BY <1>2, <1>5, <2>1, WiredFrom
  <2>5. pc' = "faults"
    BY <1>1, <1>9
  <2>6. FaultsInHand'
    BY <1>1, <1>5, <2>5, FaultedIsOther DEF FaultsInHand
  <2> QED
    BY <1>5, <1>7, <2>3, <2>4, <2>5, <2>6 DEF SInv
<1>10. CASE /\ ~x.notified /\ tasks' = [tasks EXCEPT ![Supervisor].save = v]
            /\ kernel'.at = "recv" /\ current' = current
  <2> DEFINE y == [x EXCEPT !.save = v]
  <2>1. tasks'[Supervisor] = y /\ \A u \in Task : u # Supervisor => tasks'[u] = tasks[u]
    BY <1>4, <1>6, <1>10
  <2>2. y.kind = x.kind /\ y.save = v
    BY <1>6, <1>8, SaveFacts
  <2> HIDE DEF y
  <2>3. Searching' /\ tasks'[Supervisor].save.mask
    BY <1>4, <1>8, <1>10, <2>1, <2>2 DEF Searching
  <2>4. Wired(tasks')
    BY <1>2, <1>5, <2>1, WiredFrom
  <2>5. pc' = "receiving"
    BY <1>1, <1>10
  <2>6. \A t \in Task : tasks[t].kind # "Faulted"
    BY <1>1, <1>2, <1>10 DEF FaultsInHand
  <2>7. FaultsInHand'
    BY <2>1, <2>2, <2>6 DEF FaultsInHand
  <2> QED
    BY <1>5, <1>7, <2>3, <2>4, <2>5, <2>7 DEF SInv
<1> QED
  BY <1>3, <1>9, <1>10

\* s_find keeps the invariant: it finds the first of the faulted tasks.
LEMMA FindStepKeeps ==
    ASSUME SInv, s_find
    PROVE  SInv'
<1> DEFINE F == FaultedFrom(next_task)
<1>1. /\ Running(Supervisor) /\ pc = "faults" /\ UNCHANGED <<vars, next_task, sender>>
      /\ \/ F = {} /\ pc' = "recv" /\ UNCHANGED fault_index
         \/ /\ F # {} /\ pc' = "restart"
            /\ fault_index' = CHOOSE t \in F : \A u \in F : t <= u
  BY DEF s_find
<1>2. /\ KInv /\ Wired(tasks) /\ STypeOK /\ FaultsInHand
      /\ is_runnable(tasks[Supervisor]) /\ ~Searching
  BY <1>1 DEF SInv
<1>3. KInv' /\ tasks' = tasks /\ kernel' = kernel /\ current' = current
  BY <1>1, <1>2, StutterKeeps DEF vars
<1>4. Wired(tasks') /\ is_runnable(tasks'[Supervisor]) /\ ~Searching'
  BY <1>2, <1>3 DEF Searching
<1>5. \A t \in Task : tasks[t].kind = "Faulted" => tasks[Supervisor].notified \/ t \in F
  BY <1>1, <1>2 DEF FaultsInHand, FaultedFrom
<1>6. F \subseteq Task /\ \A t \in F : tasks[t].kind = "Faulted"
  BY DEF FaultedFrom
<1> HIDE DEF F
<1>7. CASE F = {} /\ pc' = "recv" /\ UNCHANGED fault_index
  <2>1. STypeOK'
    BY <1>1, <1>2, <1>7 DEF STypeOK
  <2>2. FaultsInHand'
    BY <1>3, <1>5, <1>7 DEF FaultsInHand
  <2> QED
    BY <1>3, <1>4, <1>7, <2>1, <2>2 DEF SInv
<1>8. CASE F # {} /\ pc' = "restart" /\ fault_index' = CHOOSE t \in F : \A u \in F : t <= u
  <2>1. F \in SUBSET Nat
    BY <1>6, SMTT(30) DEF Task
  <2>2. \E t \in F : \A u \in F : t <= u
    BY <1>8, <2>1, LeastNatural
  <2>3. fault_index' \in F /\ \A u \in F : fault_index' <= u
    BY <1>8, <2>2
  <2>4. STypeOK'
    BY <1>1, <1>2, <1>6, <1>8, <2>3 DEF STypeOK
  <2>5. \A u \in F : u >= fault_index'
    BY <2>1, <2>3, SMTT(30)
  <2>6. FaultsInHand'
    BY <1>3, <1>5, <1>8, <2>5 DEF FaultsInHand
  <2> QED
    BY <1>3, <1>4, <1>6, <1>8, <2>3, <2>4, <2>6 DEF SInv
<1> QED
  BY <1>1, <1>7, <1>8

\* s_restart keeps the invariant: the search goes on after the restarted task.
LEMMA RestartStepKeeps ==
    ASSUME SInv, s_restart
    PROVE  SInv'
<1> DEFINE i == fault_index
<1>1. /\ pc = "restart" /\ reinit_task(Supervisor, i, TRUE) /\ pc' = "faults"
      /\ next_task' = i + 1 /\ UNCHANGED <<fault_index, sender>>
  BY DEF s_restart
<1>2. /\ KInv /\ Wired(tasks) /\ STypeOK /\ FaultsInHand /\ i \in Task /\ Supervisor \in Task
      /\ is_runnable(tasks[Supervisor])
  BY <1>1, TaskFacts DEF SInv, STypeOK
<1>3. StepKeeps /\ Restarted(Supervisor, i)
  BY <1>1, <1>2, ReinitKeeps, ReinitLeaves
<1>4. KInv' /\ Table(tasks')
  BY <1>3 DEF StepKeeps, KInv
<1>5. tasks'[Supervisor] = tasks[Supervisor] /\ ~Searching'
  BY <1>2, <1>3, UserAt DEF Restarted, Searching
<1>6. \A u \in Task : tasks'[u].sched \in {"InSend", "InReply"} => tasks'[u] = tasks[u]
  BY <1>3 DEF Restarted
<1>7. Wired(tasks')
  BY <1>2, <1>4, <1>6, WiredFrom
<1>8. STypeOK'
  <2>1. i + 1 \in 1..N
    BY <1>2, KernelAssumption, SMTT(30) DEF Task
  <2> QED
    BY <1>1, <1>2, <2>1 DEF STypeOK
<1>9. FaultsInHand'
  <2> SUFFICES ASSUME NEW t \in Task, tasks'[t].kind = "Faulted", ~tasks[Supervisor].notified
               PROVE  t >= i + 1
    BY <1>1, <1>5 DEF FaultsInHand
  <2>1. t # i /\ tasks[t].kind = "Faulted"
    BY <1>3 DEF Restarted
  <2>2. t >= i
    BY <1>1, <1>2, <2>1 DEF FaultsInHand
  <2> QED
    BY <1>2, <2>1, <2>2, SMTT(30) DEF Task
<1> QED
  BY <1>1, <1>2, <1>4, <1>5, <1>7, <1>8, <1>9 DEF SInv

\* A step of a message handler keeps the invariant.
LEMMA HandlerKeeps ==
    ASSUME SInv, StepKeeps, Wired(tasks'), is_runnable(tasks'[Supervisor]), ~Searching',
           tasks[Supervisor].notified => tasks'[Supervisor].notified,
           pc \in {"message", "reply"}, UNCHANGED <<next_task, fault_index>>,
           \/ pc' = "recv" /\ sender' = None
           \/ pc' = "reply" /\ sender' = sender
    PROVE  SInv'
<1>1. KInv' /\ Told(tasks, tasks')
  BY DEF StepKeeps
<1>2. STypeOK /\ FaultsInHand /\ sender \in Ids(Clients(Supervisor)) /\ is_runnable(tasks[Supervisor])
  BY DEF SInv
<1>3. STypeOK'
  BY <1>2 DEF STypeOK
<1>4. ~Fires(tasks[Supervisor])
  BY <1>2 DEF Fires, can_accept_notification, is_runnable
<1>5. FaultsInHand'
  <2> SUFFICES ASSUME NEW t \in Task, tasks'[t].kind = "Faulted"
               PROVE  tasks'[Supervisor].notified
    BY DEF FaultsInHand
  <2>1. CASE tasks[t].kind = "Faulted"
    BY <1>2, <2>1 DEF FaultsInHand
  <2>2. CASE tasks[t].kind # "Faulted"
    BY <1>1, <1>4, <2>2 DEF Told, Heard
  <2> QED
    BY <2>1, <2>2
<1> QED
  BY <1>1, <1>2, <1>3, <1>5 DEF SInv

\* A system call of a handler that touches the others as they touch each other.
LEMMA HandlerMoves ==
    ASSUME SInv, StepKeeps, Moves(tasks, tasks'), kernel' = User, pc \in {"message", "reply"},
           UNCHANGED <<next_task, fault_index>>,
           \/ pc' = "recv" /\ sender' = None
           \/ pc' = "reply" /\ sender' = sender
    PROVE  SInv'
<1>1. ~Searching /\ ~Searching' /\ is_runnable(tasks[Supervisor])
  BY UserAt DEF SInv, Searching
<1>2. Calmly \/ \E a \in Task : Took(a)
  BY <1>1, MovesShow
<1>3. ~Fires(tasks[Supervisor])
  BY <1>1 DEF Fires, can_accept_notification, is_runnable
<1>4. /\ is_runnable(tasks'[Supervisor])
      /\ tasks[Supervisor].notified => tasks'[Supervisor].notified
  BY <1>2, <1>3 DEF Calmly, Took
<1>5. Wired(tasks')
  BY WiredKept DEF SInv
<1> QED
  BY <1>1, <1>4, <1>5, HandlerKeeps

\* s_reply keeps the invariant.
LEMMA ReplyStepKeeps ==
    ASSUME SInv, s_reply
    PROVE  SInv'
<1>1. /\ pc \in {"message", "reply"} /\ reply(Supervisor, sender, "ok")
      /\ pc' = "recv" /\ sender' = None /\ UNCHANGED <<next_task, fault_index>>
  BY DEF s_reply
<1>2. KInv /\ sender \in Ids(Clients(Supervisor)) /\ Supervisor \in Task
  BY <1>1, TaskFacts DEF SInv
<1>3. "ok" \in SlicesOf(Supervisor)
  BY DEF SlicesOf
<1>4. StepKeeps
  BY <1>1, <1>2, <1>3, ReplyKeeps
<1>5. Moves(tasks, tasks')
  BY <1>1, <1>2, <1>3, ReplyMoves DEF StepMoves
<1>6. kernel' = User
  BY <1>1 DEF reply, FaultCaller, Return
<1> QED
  BY <1>1, <1>4, <1>5, <1>6, HandlerMoves

\* A suspension leaves a task's wait as it is.
LEMMA SuspendWaits ==
    ASSUME NEW x \in TaskRecord, NEW r
    PROVE  Suspend(x, r).sched = x.sched /\ Suspend(x, r).peer = x.peer
<1>1. CASE x.kind = "Suspended"
  <2>1. Suspend(x, r) = [x EXCEPT !.hibernated = @ \cup {r}]
    BY <1>1 DEF Suspend
  <2> QED
    BY <2>1 DEF TaskRecord
<1>2. CASE x.kind # "Suspended"
  <2>1. Suspend(x, r) = [x EXCEPT !.kind = "Suspended", !.hibernated = {r}, !.debug = FALSE]
    BY <1>2 DEF Suspend
  <2> QED
    BY <2>1 DEF TaskRecord
<1> QED
  BY <1>1, <1>2

\* The end of a suspension leaves it, or ends it.
LEMMA RestoredWaits ==
    ASSUME NEW x \in TaskRecord, NEW r, NEW mode
    PROVE  LET y == RegionRestored(x, r, mode) IN
           y.sched \in {"InSend", "InReply"} => y.sched = x.sched /\ y.peer = x.peer
<1> DEFINE h == x.hibernated \ {r}
           f == IF r \in x.hibernated /\ mode = "Lost" THEN "LostRegion" ELSE x.fault
           v == IF r \in x.hibernated /\ mode = "Lost" THEN NoArgs ELSE x.save
           z == [x EXCEPT !.hibernated = h, !.fault = f, !.save = v]
           y == RegionRestored(x, r, mode)
<1>1. h \in SUBSET Region /\ f \in Faults /\ v \in SaveArea
  BY FieldTypes, NoArgsTyped DEF Faults
<1>2. x.kind # "Suspended" => y = x
  BY DEF RegionRestored
<1>3. x.kind = "Suspended" => y = try_restore(z)
  BY DEF RegionRestored
<1> HIDE DEF h, f, v, y
<1>4. z \in TaskRecord /\ z.sched = x.sched /\ z.peer = x.peer
  BY <1>1 DEF TaskRecord, Faults
<1> HIDE DEF z
<1>5. \/ try_restore(z) \in {z, ReplyWritten(z), [z EXCEPT !.kind = "Panic"],
                             [z EXCEPT !.kind = "Healthy"]}
      \/ \E g : try_restore(z) = ToFaulted(z, g)
  BY DEF try_restore
<1>6. ReplyWritten(z).sched = "Runnable"
  BY <1>4 DEF ReplyWritten, TaskRecord
<1>7. \A k : [z EXCEPT !.kind = k].sched = z.sched /\ [z EXCEPT !.kind = k].peer = z.peer
  BY <1>4 DEF TaskRecord
<1>8. \A g : ToFaulted(z, g).sched = z.sched /\ ToFaulted(z, g).peer = z.peer
  BY <1>4 DEF ToFaulted, TaskRecord
<1>9. try_restore(z).sched = "Runnable"
      \/ (try_restore(z).sched = z.sched /\ try_restore(z).peer = z.peer)
  BY <1>5, <1>6, <1>7, <1>8
<1>10. y.sched \in {"InSend", "InReply"} => y.sched = x.sched /\ y.peer = x.peer
  BY <1>2, <1>3, <1>4, <1>9
<1> QED
  BY <1>10 DEF y

\* Hibernating a region leaves the supervisor and every wait as they are.
LEMMA HibernateShows ==
    ASSUME KInv, Wired(tasks), NEW r \in Region, hibernate_region(r)
    PROVE  Wired(tasks') /\ tasks'[Supervisor] = tasks[Supervisor] /\ kernel' = User
<1> DEFINE us == [u \in Task |-> IF u \in Overlaps[r] THEN Suspend(tasks[u], r) ELSE tasks[u]]
<1>1. /\ kernel' = User
      /\ \/ tasks' = tasks
         \/ CanHibernate(r) /\ tasks' = us
  BY DEF hibernate_region, Return
<1>2. Table(tasks) /\ Table(tasks') /\ Supervisor \in Task
  BY HibernateKeeps, TaskFacts DEF StepKeeps, KInv
<1>3. CASE tasks' = tasks
  BY <1>1, <1>3
<1>4. CASE CanHibernate(r) /\ tasks' = us
  <2>1. Supervisor \notin Overlaps[r]
    BY <1>4 DEF CanHibernate, overlaps_protected_memory
  <2>2. \A u \in Task : us[u] \in {tasks[u], Suspend(tasks[u], r)}
    OBVIOUS
  <2>3. us[Supervisor] = tasks[Supervisor]
    BY <1>2, <2>1
  <2> HIDE DEF us
  <2>4. ASSUME NEW u \in Task PROVE us[u].sched = tasks[u].sched /\ us[u].peer = tasks[u].peer
    <3> DEFINE x == tasks[u]
    <3>1. x \in TaskRecord
      BY <1>2 DEF Table
    <3> HIDE DEF x
    <3>2. Suspend(x, r).sched = x.sched /\ Suspend(x, r).peer = x.peer
      BY <3>1, SuspendWaits
    <3> QED
      BY <2>2, <3>2 DEF x
  <2>5. Wired(us)
    BY <1>2, <1>4, <2>4, WiredFrom
  <2> QED
    BY <1>1, <1>4, <2>3, <2>5
<1> QED
  BY <1>1, <1>3, <1>4

\* Restoring a region leaves the supervisor ready, and starts no wait.
LEMMA RestoreShows ==
    ASSUME KInv, Wired(tasks), NEW r \in Region, NEW event, NEW mode,
           restore_region(r, event, mode)
    PROVE  /\ Wired(tasks') /\ is_runnable(tasks'[Supervisor]) /\ kernel'.at # "recv"
           /\ tasks[Supervisor].notified => tasks'[Supervisor].notified
<1> DEFINE us == [t \in Task |-> RegionRestored(tasks[t], r, mode)]
           x  == tasks[Supervisor]
<1>1. /\ Running(Supervisor)
      /\ \/ tasks' = tasks /\ kernel' = User
         \/ /\ tasks' = us \/ tasks' = post(us, Supervisor)
            /\ kernel' = [at |-> "reconcile", pos |-> 0, hint |-> Same]
  BY DEF restore_region, Restored, Return
<1>2. Table(tasks) /\ Table(tasks') /\ Supervisor \in Task /\ is_runnable(x)
  BY <1>1, RestoreRegionKeeps, RunningFacts, TaskFacts DEF StepKeeps, KInv
<1>3. kernel'.at # "recv"
  BY <1>1, UserAt, SMTT(30)
<1>4. us = [t \in Task |-> us[t]]
  OBVIOUS
<1>5. ASSUME NEW u \in Task
      PROVE  /\ us[u] \in TaskRecord
             /\ us[u].sched \in {"InSend", "InReply"}
                   => us[u].sched = tasks[u].sched /\ us[u].peer = tasks[u].peer
             /\ tasks[u].kind # "Suspended" => us[u] = tasks[u]
  <2> DEFINE z == tasks[u]
             y == RegionRestored(z, r, mode)
  <2>1. us[u] = y
    OBVIOUS
  <2>2. Sound(u, z) /\ z \in TaskRecord
    BY <1>2 DEF Table
  <2> HIDE DEF us, z
  <2>3. y.sched \in {"InSend", "InReply"} => y.sched = z.sched /\ y.peer = z.peer
    BY <2>2, RestoredWaits, SMTT(30)
  <2>4. Sound(u, y) /\ (z.kind # "Suspended" => y = z)
    BY <2>2, RegionRestoredSound, SMTT(30)
  <2> HIDE DEF y
  <2> QED
    BY <2>1, <2>3, <2>4 DEF z, Sound
<1> HIDE DEF us
<1>6. us \in [Task -> TaskRecord] /\ us[Supervisor] = x
  BY <1>2, <1>4, <1>5 DEF is_runnable
<1>7. CASE tasks' = tasks
  BY <1>2, <1>3, <1>7
<1>8. CASE tasks' = us
  <2>1. Wired(us)
    BY <1>2, <1>5, <1>8, WiredFrom
  <2> QED
    BY <1>2, <1>3, <1>6, <1>8, <2>1
<1>9. CASE tasks' = post(us, Supervisor)
  <2> DEFINE y == Posted(x)
  <2>1. post(us, Supervisor) = [us EXCEPT ![Supervisor] = y]
    BY <1>2, <1>6, PostIs
  <2>2. Sound(Supervisor, x) /\ x \in TaskRecord /\ ~Fires(x)
    BY <1>2 DEF Table, Fires, can_accept_notification, is_runnable
  <2>3. is_runnable(y) /\ y.notified
    BY <1>2, <2>2, PostedSound, PostedFacts
  <2> HIDE DEF y, x
  <2>4. tasks'[Supervisor] = y /\ \A u \in Task : u # Supervisor => tasks'[u] = us[u]
    BY <1>2, <1>6, <1>9, <2>1
  <2>5. Wired(tasks')
    BY <1>2, <1>5, <2>4, WiredFrom
  <2> QED
    BY <1>3, <2>3, <2>4, <2>5
<1> QED
  BY <1>1, <1>7, <1>8, <1>9

\* s_hibernation keeps the invariant.
LEMMA HibernationStepKeeps ==
    ASSUME SInv, s_hibernation
    PROVE  SInv'
<1>1. /\ pc = "message" /\ pc' = "reply" /\ UNCHANGED <<next_task, fault_index, sender>>
      /\ \/ \E r \in Region : hibernate_region(r)
         \/ \E r \in Region, event \in 0..EventLimit, mode \in {"Restored", "Lost"} :
               restore_region(r, event, mode)
         \/ \E lease \in Region \cup {"none", "memory", "table"} :
               borrow(Supervisor, sender, "ok", lease)
  BY DEF s_hibernation
<1>2. /\ KInv /\ Wired(tasks) /\ sender \in Ids(Clients(Supervisor)) /\ Supervisor \in Task
      /\ is_runnable(tasks[Supervisor])
  BY <1>1, TaskFacts DEF SInv
<1>3. ASSUME NEW r \in Region, hibernate_region(r) PROVE SInv'
  <2>1. StepKeeps
    BY <1>2, <1>3, HibernateKeeps
  <2>2. Wired(tasks') /\ tasks'[Supervisor] = tasks[Supervisor] /\ kernel' = User
    BY <1>2, <1>3, HibernateShows
  <2>3. ~Searching'
    BY <2>2, UserAt DEF Searching
  <2> QED
    BY <1>1, <1>2, <2>1, <2>2, <2>3, HandlerKeeps
<1>4. ASSUME NEW r \in Region, NEW event, NEW mode, restore_region(r, event, mode) PROVE SInv'
  <2>1. StepKeeps
    BY <1>2, <1>4, RestoreRegionKeeps
  <2>2. /\ Wired(tasks') /\ is_runnable(tasks'[Supervisor]) /\ kernel'.at # "recv"
        /\ tasks[Supervisor].notified => tasks'[Supervisor].notified
    BY <1>2, <1>4, RestoreShows
  <2>3. ~Searching'
    BY <2>2 DEF Searching
  <2> QED
    BY <1>1, <1>2, <2>1, <2>2, <2>3, HandlerKeeps
<1>5. ASSUME NEW lease \in Region \cup {"none", "memory", "table"},
             borrow(Supervisor, sender, "ok", lease)
      PROVE  SInv'
  <2>1. /\ lease \in Region \cup {"none", "memory", "table", "range"} /\ lease # "range"
        /\ "ok" \in SlicesOf(Supervisor)
    BY KernelAssumption DEF SlicesOf
  <2>2. StepKeeps
    BY <1>2, <1>5, <2>1, BorrowKeeps
  <2>3. Moves(tasks, tasks')
    BY <1>2, <1>5, <2>1, BorrowMoves DEF StepMoves
  <2>4. kernel' = User
    BY <1>5 DEF borrow, FaultCaller, Return
  <2> QED
    BY <1>1, <2>2, <2>3, <2>4, HandlerMoves
<1> QED
  BY <1>1, <1>3, <1>4, <1>5

-----------------------------------------------------------------------------
(***************************************************************************)
(* The invariant, and what follows from it                                 *)
(***************************************************************************)
\* At boot no task has faulted, and the program is about to receive.
LEMMA SInitKeeps == SInit => SInv
<1> SUFFICES ASSUME SInit PROVE SInv
  OBVIOUS
<1>1. Init /\ pc = "recv" /\ next_task = 1 /\ fault_index = 0 /\ sender = None
  BY DEF SInit
<1>2. KInv
  BY <1>1, InitKeeps
<1>3. \A u \in Task : tasks[u].kind = "Healthy" /\ tasks[u].sched = "Runnable"
  BY <1>1 DEF Init, from_descriptor
<1>4. kernel.at = "user" /\ Supervisor \in Task
  BY <1>1, UserAt, TaskFacts DEF Init
<1>5. Wired(tasks) /\ is_runnable(tasks[Supervisor]) /\ ~Searching /\ FaultsInHand
  BY <1>3, <1>4 DEF Wired, is_runnable, Searching, FaultsInHand
<1>6. 1 \in 1..N /\ 0 \in Task
  BY KernelAssumption, SMTT(30) DEF Task
<1>7. STypeOK
  BY <1>1, <1>6 DEF STypeOK
<1> QED
  BY <1>1, <1>2, <1>5, <1>7 DEF SInv

\* Every step of the system keeps the invariant.
LEMMA SNextKeeps ==
    ASSUME SInv, SNext
    PROVE  SInv'
<1>1. CASE Program
  BY <1>1, RecvStepKeeps, FindStepKeeps, RestartStepKeeps, ReplyStepKeeps,
     HibernationStepKeeps DEF Program
<1> QED
  BY <1>1, InKernelKeeps, OthersKeep DEF SNext

\* A step that changes nothing keeps it too.
LEMMA SStutterKeeps ==
    ASSUME SInv, UNCHANGED svars
    PROVE  SInv'
<1>1. UNCHANGED vars /\ UNCHANGED <<pc, next_task, fault_index, sender>>
  BY DEF svars, program
<1>2. KInv'
  BY <1>1, StutterKeeps DEF SInv
<1>3. tasks' = tasks /\ kernel' = kernel /\ current' = current
  BY <1>1 DEF vars
<1>4. STypeOK' /\ FaultsInHand' /\ (Searching' <=> Searching)
  BY <1>1, <1>3 DEF SInv, STypeOK, FaultsInHand, Searching
<1> QED
  BY <1>1, <1>2, <1>3, <1>4 DEF SInv

\* SInv is an invariant of the supervisor's program in the kernel, whatever
\* the other tasks do.
THEOREM SupervisorInvariant == SSpec => []SInv
<1>1. SInv /\ [SNext]_svars => SInv'
  BY SNextKeeps, SStutterKeeps
<1> QED
  BY SInitKeeps, <1>1, PTL DEF SSpec

\* The program's variables are of their types: find_faulted_task never searches
\* beyond the table, and a restart never names a task outside it.
THEOREM SupervisorSTypeOK == SSpec => []STypeOK
<1>1. SInv => STypeOK
  BY DEF SInv
<1> QED
  BY SupervisorInvariant, <1>1, PTL

\* No faulted task escapes the supervisor: its notification is pending, or the
\* search through the table is yet to come to it.
THEOREM SupervisorFaultsInHand == SSpec => []FaultsInHand
<1>1. SInv => FaultsInHand
  BY DEF SInv
<1> QED
  BY SupervisorInvariant, <1>1, PTL

\* What the supervisor restarts is faulted, when no other task restarts tasks:
\* nothing suspends or revives it between find_faulted_task and
\* reinitialize_task.
THEOREM SupervisorRestartsFaulted ==
    ASSUME Sole
    PROVE  SSpec => []RestartsFaulted
<1>1. SInv => RestartsFaulted
  BY DEF SInv, RestartsFaulted
<1> QED
  BY SupervisorInvariant, <1>1, PTL

\* Every step of the system is one that the kernel allows.
LEMMA SNextIsNext ==
    ASSUME SInv, SNext
    PROVE  Next \/ UNCHANGED vars
<1>1. Supervisor \in Task /\ "ok" \in SlicesOf(Supervisor) /\ STypeOK
  BY TaskFacts DEF SlicesOf, SInv
<1>2. CASE s_recv
  <2>1. recv(Supervisor, None, "ok", TRUE)
    BY <1>2 DEF s_recv
  <2>2. Syscall(Supervisor)
    BY <1>1, <2>1 DEF Syscall
  <2> QED
    BY <1>1, <2>2 DEF Next
<1>3. CASE s_find
  BY <1>3 DEF s_find
<1>4. CASE s_restart
  <2>1. reinit_task(Supervisor, fault_index, TRUE) /\ fault_index \in Task
    BY <1>1, <1>4 DEF s_restart, STypeOK
  <2>2. Syscall(Supervisor)
    BY <2>1 DEF Syscall
  <2> QED
    BY <1>1, <2>2 DEF Next
<1>5. CASE s_reply
  <2>1. reply(Supervisor, sender, "ok") /\ sender \in Ids(Clients(Supervisor))
    BY <1>5 DEF s_reply, SInv
  <2>2. Syscall(Supervisor)
    BY <1>1, <2>1 DEF Syscall
  <2> QED
    BY <1>1, <2>2 DEF Next
<1>6. CASE s_hibernation
  <2>1. sender \in Ids(Clients(Supervisor))
    BY <1>6 DEF s_hibernation, SInv
  <2>2. \/ \E r \in Region : hibernate_region(r)
        \/ \E r \in Region, event \in 0..EventLimit, mode \in {"Restored", "Lost"} :
              restore_region(r, event, mode)
        \/ \E lease \in Region \cup {"none", "memory", "table"} :
              borrow(Supervisor, sender, "ok", lease)
    BY <1>6 DEF s_hibernation
  <2>3. ASSUME NEW lease \in Region \cup {"none", "memory", "table"},
               borrow(Supervisor, sender, "ok", lease)
        PROVE  Syscall(Supervisor)
    BY <1>1, <2>1, <2>3 DEF Syscall
  <2> QED
    BY <1>1, <2>2, <2>3 DEF Next, SupervisorCall
<1>7. CASE InKernel
  BY <1>7 DEF InKernel, Next
<1>8. CASE Others
  BY <1>8 DEF Others, Next
<1> QED
  BY <1>2, <1>3, <1>4, <1>5, <1>6, <1>7, <1>8 DEF SNext, Program

\* The supervisor's program keeps to the system calls that the kernel's
\* specification lets task 0 make, so that whatever holds of the kernel with
\* arbitrary programs holds with this one.
THEOREM SupervisorRunsKernel == SSpec => Spec
<1>1. SInit => Init
  BY DEF SInit
<1>2. SInv /\ [SNext]_svars => [Next]_vars
  BY SNextIsNext DEF svars
<1> QED
  BY SupervisorInvariant, <1>1, <1>2, PTL DEF SSpec, Spec

=============================================================================
