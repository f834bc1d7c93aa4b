---------------------------- MODULE KernelProofs ----------------------------
(***************************************************************************)
(* The kernel's invariants and what its steps may never do, for every      *)
(* number of tasks and of generations, every layout of the hibernation     *)
(* regions, and every program of the tasks other than the supervisor.      *)
(*                                                                         *)
(* The inductive invariant says of each task what its record may look      *)
(* like (Sound) and that what it waits for is alive (Attached), and of the *)
(* kernel where in its loops it may be.  An operation on the task table is *)
(* followed by what it does to the records, one lemma per primitive of the *)
(* kernel, and a system call by the composition of those.                  *)
(***************************************************************************)
EXTENDS Kernel, WellFoundedInduction, TLAPS

\* Most leaves are first-order steps, for Zenon; the others name their prover.
USE ZenonT(30)

\* The record of task u, by itself.  The supervisor neither sends nor faults,
\* and no region or debugger suspends it.
Sound(u, x) ==
    /\ x \in TaskRecord
    /\ x.kind = "Healthy" => x.fault = NoFault
    /\ x.kind = "Faulted" => x.fault # NoFault
    /\ x.kind = "Suspended" <=> x.hibernated # {} \/ x.debug
    /\ x.suspension_buffer => x.kind = "Suspended" /\ x.sched = "InSuspendedReply"
    /\ x.fault = NoFault /\ x.sched = "InSuspendedReply"
          => x.kind = "Suspended" /\ x.suspension_buffer
    /\ x.fault = NoFault /\ x.owed => x.sched = "InSuspendedReply"
    /\ x.sched = "InSend" => x.peer \in TaskId
    /\ u # Supervisor /\ Fires(x) => ~x.notified
    /\ u = Supervisor => /\ x.kind = "Healthy" /\ x.sched \in {"Runnable", "InRecv"}
                         /\ x.save.buffer = "ok"

\* The incarnation that the task of record x waits for is alive.
Attached(ts, x) ==
    x.fault = NoFault /\ x.sched \in {"InSend", "InReply", "InRecv"} /\ x.peer \in TaskId
        => Live(ts, x.peer)

Table(ts) ==
    /\ ts \in [Task -> TaskRecord]
    /\ \A u \in Task : Sound(u, ts[u]) /\ Attached(ts, ts[u])

\* a waits to send to b, and b to receive from a.
Pair(ts, a, b) ==
    /\ is_sending_to(ts[a], current_id(ts, b))
    /\ can_accept_message_from(ts[b], current_id(ts, a))

NoPair(ts) == \A a, b \in Task : ~Pair(ts, a, b)

Isolated(ts, rs) ==
    \A u \in Task : ts[u].hibernated = {r \in Region : u \in Overlaps[r] /\ rs[r].active}

Regions == [Region -> [next_generation : 0..EventLimit, active : BOOLEAN]]

\* The task that runs can.
CurrentRuns(ts, t) == t \in Task \cup {Idle} /\ (t \in Task => is_runnable(ts[t]))

\* No task that can run is more important than task t.
Ranked(ts, t) ==
    \A u \in Task : is_runnable(ts[u]) => t \in Task /\ Priority[t] <= Priority[u]

(***************************************************************************)
(* The configurations in which the scheduler can keep its promise: the     *)
(* supervisor is the most important task, messages go to tasks at least as *)
(* important as the sender, and only the supervisor restarts and faults    *)
(* other tasks (the calls that do discard the switch that a fault asks     *)
(* for).                                                                   *)
(***************************************************************************)
Configured ==
    /\ \A t \in Task : Priority[Supervisor] <= Priority[t]
    /\ \A t \in Task : \A c \in Callees[t] : Priority[c] <= Priority[t]
    /\ KernelCallers \subseteq {Supervisor} /\ ReplyFaulters \subseteq {Supervisor}

\* The scan of an open receive: the running task is the receiver, and the
\* switch asked for so far is to a supervisor that can run, or to anyone.
Scanning ==
    /\ kernel \in [at : {"recv"}, pos : Task, hint : {Same, Other, Supervisor}]
    /\ current \in Task
    /\ current # Supervisor => ~(tasks[current].save.mask /\ tasks[current].notified)
    /\ kernel.hint = Supervisor => current # Supervisor /\ is_runnable(tasks[Supervisor])

\* The loop of reconcile_ipc: no sender that it has passed meets its receiver.
Reconciling ==
    /\ kernel \in [at : {"reconcile"}, pos : Task, hint : {Same}]
    /\ current = Supervisor
    /\ \A a, b \in Task : a < kernel.pos => ~Pair(tasks, a, b)

KInv ==
    /\ Table(tasks)
    /\ regions \in Regions /\ Isolated(tasks, regions)
    /\ CurrentRuns(tasks, current)
    /\ \/ kernel = User /\ NoPair(tasks)
       \/ Scanning /\ NoPair(tasks)
       \/ Reconciling
    /\ copied \in Region \cup {NoRegion} /\ NoHibernatedCopy
    /\ Configured /\ kernel.at # "reconcile" /\ kernel.hint = Same => Ranked(tasks, current)

-----------------------------------------------------------------------------
(***************************************************************************)
(* Records                                                                 *)
(***************************************************************************)
Kinds == {"Healthy", "Faulted", "Suspended"}
Scheds == {"Stopped", "Runnable", "InSend", "InReply", "InSuspendedReply", "InRecv"}
Peers == TaskId \cup {None, KERNEL}
Faults == {NoFault, "LostRegion", "Other"}

\* The fields of x and y that say whether and how long the task is suspended.
SameSuspension(x, y) ==
    y.hibernated = x.hibernated /\ y.debug = x.debug /\ y.generation = x.generation

\* set_healthy_state, on the record of a task without a fault.
Put(x, s, peer) ==
    [x EXCEPT !.sched = s, !.peer = peer,
              !.save = IF s \in {"Runnable", "Stopped"} THEN NoArgs ELSE @]

\* The arguments of a task that is in no system call are of their type.
LEMMA NoArgsTyped == NoArgs \in SaveArea
  BY DEF NoArgs, SaveArea

\* The fields of a task's record are of their types.
LEMMA FieldTypes ==
    ASSUME NEW x \in TaskRecord
    PROVE  /\ x.kind \in Kinds /\ x.sched \in Scheds /\ x.peer \in Peers /\ x.fault \in Faults
           /\ x.hibernated \in SUBSET Region /\ x.debug \in BOOLEAN
           /\ x.generation \in 0..(Generations - 1) /\ x.notified \in BOOLEAN
           /\ x.save \in SaveArea /\ x.suspension_buffer \in BOOLEAN /\ x.owed \in BOOLEAN
  BY DEF TaskRecord, Kinds, Scheds, Peers, Faults

\* What Put makes of a record.
LEMMA PutFacts ==
    ASSUME NEW x \in TaskRecord, NEW s \in Scheds, NEW p \in Peers
    PROVE  LET y == Put(x, s, p) IN
           /\ y \in TaskRecord
           /\ y.sched = s /\ y.peer = p /\ y.kind = x.kind /\ y.fault = x.fault
           /\ SameSuspension(x, y) /\ y.notified = x.notified
           /\ y.save = IF s \in {"Runnable", "Stopped"} THEN NoArgs ELSE x.save
           /\ y.suspension_buffer = x.suspension_buffer /\ y.owed = x.owed
<1> DEFINE v == IF s \in {"Runnable", "Stopped"} THEN NoArgs ELSE x.save
<1>1. v \in SaveArea
  BY NoArgsTyped, FieldTypes
<1>2. Put(x, s, p) = [x EXCEPT !.sched = s, !.peer = p, !.save = v]
  BY DEF Put
<1> HIDE DEF v
<1>3. [x EXCEPT !.sched = s, !.peer = p, !.save = v] \in TaskRecord
  BY <1>1 DEF TaskRecord, Scheds, Peers
<1> QED
  BY <1>2, <1>3, SMTT(30) DEF SameSuspension, TaskRecord, v

\* What a change of the saved arguments makes of a record.
LEMMA SaveFacts ==
    ASSUME NEW x \in TaskRecord, NEW v \in SaveArea
    PROVE  LET y == [x EXCEPT !.save = v] IN
           /\ y \in TaskRecord
           /\ y.sched = x.sched /\ y.peer = x.peer /\ y.kind = x.kind /\ y.fault = x.fault
           /\ SameSuspension(x, y) /\ y.notified = x.notified /\ y.save = v
           /\ y.suspension_buffer = x.suspension_buffer /\ y.owed = x.owed
  BY DEF SameSuspension, TaskRecord

\* What a change of the notification bit makes of a record.
LEMMA NotifiedFacts ==
    ASSUME NEW x \in TaskRecord, NEW n \in BOOLEAN
    PROVE  LET y == [x EXCEPT !.notified = n] IN
           /\ y \in TaskRecord
           /\ y.sched = x.sched /\ y.peer = x.peer /\ y.kind = x.kind /\ y.fault = x.fault
           /\ SameSuspension(x, y) /\ y.notified = n /\ y.save = x.save
           /\ y.suspension_buffer = x.suspension_buffer /\ y.owed = x.owed
  BY DEF SameSuspension, TaskRecord

\* SetFault, on the record of the task.
Failed(x, f) ==
    [x EXCEPT !.fault = f, !.save = NoArgs,
              !.kind = IF @ = "Suspended" THEN @ ELSE "Faulted"]

\* What a fault makes of a record.
LEMMA FailedFacts ==
    ASSUME NEW x \in TaskRecord, NEW f \in Faults
    PROVE  LET y == Failed(x, f) IN
           /\ y \in TaskRecord
           /\ y.sched = x.sched /\ y.peer = x.peer /\ y.fault = f
           /\ y.kind = IF x.kind = "Suspended" THEN x.kind ELSE "Faulted"
           /\ SameSuspension(x, y) /\ y.notified = x.notified /\ y.save = NoArgs
           /\ y.suspension_buffer = x.suspension_buffer /\ y.owed = x.owed
<1> DEFINE k == IF x.kind = "Suspended" THEN x.kind ELSE "Faulted"
<1>1. k \in Kinds
  BY DEF Kinds
<1>2. Failed(x, f) = [x EXCEPT !.fault = f, !.save = NoArgs, !.kind = k]
  BY DEF Failed
<1> HIDE DEF k
<1>3. [x EXCEPT !.fault = f, !.save = NoArgs, !.kind = k] \in TaskRecord
  BY <1>1, NoArgsTyped DEF TaskRecord, Kinds, Faults
<1> QED
  BY <1>2, <1>3, SMTT(30) DEF SameSuspension, TaskRecord, k

\* set_healthy_state is Put when there is no fault.
LEMMA SetHealthyState ==
    ASSUME NEW ts \in [Task -> TaskRecord], NEW t \in Task, ts[t].fault = NoFault,
           NEW s \in Scheds, NEW p \in Peers
    PROVE  set_healthy_state(ts, t, s, p) = [ts EXCEPT ![t] = Put(ts[t], s, p)]
  BY DEF set_healthy_state, Put

\* SetFault is Failed on the task's record.
LEMMA SetFaultIs ==
    ASSUME NEW ts \in [Task -> TaskRecord], NEW t \in Task, NEW f
    PROVE  SetFault(ts, t, f) = [ts EXCEPT ![t] = Failed(ts[t], f)]
  BY DEF SetFault, Failed

-----------------------------------------------------------------------------
(***************************************************************************)
(* What the primitives do to one record                                    *)
(***************************************************************************)
\* An ordinary operation on a task's record: no fault is cleared, no
\* suspension begins or ends, and no message is newly offered or awaited.
Calm(x, y) ==
    /\ SameSuspension(x, y)
    /\ x.fault # NoFault => y.fault # NoFault
    /\ y.kind = "Healthy" /\ y.sched \in {"InSend", "InRecv"}
          => x.kind = "Healthy" /\ y.sched = x.sched /\ y.peer = x.peer

\* The task of y waits for nothing but what it waits for in x.
Idles(x, y) ==
    y.fault = NoFault /\ y.sched \in {"InSend", "InReply", "InRecv"}
        => /\ x.fault = NoFault /\ x.sched \in {"InSend", "InReply", "InRecv"}
           /\ y.peer = x.peer

\* A remainder is in range.
LEMMA ModIsNat ==
    ASSUME NEW G \in Nat \ {0}, NEW g \in Int
    PROVE  g % G \in 0..(G - 1)
  BY SMTT(30)

\* A task without a fault may be made runnable.
LEMMA PutRunnable ==
    ASSUME NEW u, NEW x, Sound(u, x), x.fault = NoFault, x.sched # "InSuspendedReply"
    PROVE  LET y == Put(x, "Runnable", None) IN
           Sound(u, y) /\ Calm(x, y) /\ Idles(x, y)
<1> DEFINE y == Put(x, "Runnable", None)
<1>1. /\ y \in TaskRecord
      /\ y.sched = "Runnable" /\ y.peer = None /\ y.kind = x.kind /\ y.fault = x.fault
      /\ SameSuspension(x, y) /\ y.notified = x.notified
      /\ y.save = NoArgs
      /\ y.suspension_buffer = x.suspension_buffer /\ y.owed = x.owed
  <2>1. x \in TaskRecord /\ "Runnable" \in Scheds /\ None \in Peers
    BY DEF Sound, Scheds, Peers
  <2> QED
    BY <2>1, PutFacts, SMTT(30)
<1> HIDE DEF y
<1>2. y.save.buffer = "ok"
  BY <1>1, SMTT(30) DEF NoArgs
<1>3. Sound(u, y)
  BY <1>1, <1>2 DEF Sound, SameSuspension, Fires, can_accept_notification
<1>4. Calm(x, y) /\ Idles(x, y)
  BY <1>1 DEF Calm, Idles
<1> QED
  BY <1>3, <1>4 DEF y

\* A task other than the supervisor may be made to wait for a receiver or a reply.
LEMMA PutWaiting ==
    ASSUME NEW u, NEW x, Sound(u, x), x.fault = NoFault, x.sched # "InSuspendedReply",
           NEW s \in {"InSend", "InReply"}, u # Supervisor, NEW p \in TaskId
    PROVE  LET y == Put(x, s, p) IN Sound(u, y) /\ (s = "InReply" => Calm(x, y))
<1> DEFINE y == Put(x, s, p)
<1>1. /\ y \in TaskRecord
      /\ y.sched = s /\ y.peer = p /\ y.kind = x.kind /\ y.fault = x.fault
      /\ SameSuspension(x, y) /\ y.notified = x.notified
      /\ y.suspension_buffer = x.suspension_buffer /\ y.owed = x.owed
  <2>1. x \in TaskRecord /\ s \in Scheds /\ p \in Peers
    BY DEF Sound, Scheds, Peers
  <2> QED
    BY <2>1, PutFacts, SMTT(30)
<1> HIDE DEF y
<1>2. Sound(u, y)
  BY <1>1 DEF Sound, SameSuspension, Fires, can_accept_notification
<1>3. s = "InReply" => Calm(x, y)
  BY <1>1 DEF Calm
<1> QED
  BY <1>2, <1>3 DEF y

\* A task may be made to receive when no notification that it asks for is pending.
LEMMA PutReceiving ==
    ASSUME NEW u, NEW x, Sound(u, x), x.fault = NoFault, x.sched # "InSuspendedReply",
           u # Supervisor => ~(x.save.mask /\ x.notified), NEW p \in Peers
    PROVE  Sound(u, Put(x, "InRecv", p))
<1> DEFINE y == Put(x, "InRecv", p)
<1>1. /\ y \in TaskRecord
      /\ y.sched = "InRecv" /\ y.peer = p /\ y.kind = x.kind /\ y.fault = x.fault
      /\ SameSuspension(x, y) /\ y.notified = x.notified /\ y.save = x.save
      /\ y.suspension_buffer = x.suspension_buffer /\ y.owed = x.owed
  <2>1. x \in TaskRecord /\ "InRecv" \in Scheds
    BY DEF Sound, Scheds
  <2> QED
    BY <2>1, PutFacts, SMTT(30)
<1> HIDE DEF y
<1>2. Sound(u, y)
  BY <1>1 DEF Sound, SameSuspension, Fires, can_accept_notification
<1> QED
  BY <1>2 DEF y

\* A task that runs may change its saved arguments.
LEMMA SaveSound ==
    ASSUME NEW u, NEW x, Sound(u, x), is_runnable(x), NEW v \in SaveArea,
           u = Supervisor => v.buffer = "ok"
    PROVE  LET y == [x EXCEPT !.save = v] IN
           Sound(u, y) /\ Calm(x, y) /\ Idles(x, y) /\ is_runnable(y)
<1> DEFINE y == [x EXCEPT !.save = v]
<1>1. /\ y \in TaskRecord
      /\ y.sched = x.sched /\ y.peer = x.peer /\ y.kind = x.kind /\ y.fault = x.fault
      /\ SameSuspension(x, y) /\ y.notified = x.notified /\ y.save = v
      /\ y.suspension_buffer = x.suspension_buffer /\ y.owed = x.owed
  BY SaveFacts DEF Sound
<1> HIDE DEF y
<1>2. Sound(u, y)
  BY <1>1 DEF Sound, SameSuspension, Fires, can_accept_notification, is_runnable
<1>3. Calm(x, y) /\ Idles(x, y) /\ is_runnable(y)
  BY <1>1 DEF Calm, Idles, is_runnable
<1> QED
  BY <1>2, <1>3 DEF y

\* A task other than the supervisor may be faulted.
LEMMA FailedSound ==
    ASSUME NEW u, NEW x, Sound(u, x), u # Supervisor, NEW f \in Faults \ {NoFault}
    PROVE  LET y == Failed(x, f) IN Sound(u, y) /\ Calm(x, y) /\ Idles(x, y)
<1> DEFINE y == Failed(x, f)
<1>1. /\ y \in TaskRecord
      /\ y.sched = x.sched /\ y.peer = x.peer /\ y.fault = f
      /\ y.kind = IF x.kind = "Suspended" THEN x.kind ELSE "Faulted"
      /\ SameSuspension(x, y) /\ y.notified = x.notified /\ y.save = NoArgs
      /\ y.suspension_buffer = x.suspension_buffer /\ y.owed = x.owed
  BY FailedFacts DEF Sound
<1> HIDE DEF y
<1>2. Sound(u, y)
  BY <1>1, FieldTypes DEF Sound, SameSuspension, Fires, can_accept_notification, Kinds
<1>3. Calm(x, y) /\ Idles(x, y)
  BY <1>1 DEF Calm, Idles
<1> QED
  BY <1>2, <1>3 DEF y

\* Task::post, on the record of the task.
Posted(x) ==
    IF Fires(x) THEN Put([x EXCEPT !.notified = FALSE], "Runnable", None)
                ELSE [x EXCEPT !.notified = TRUE]

\* The notification bit is set, or the task that waited for it can run.
Heard(x, y) == y.notified \/ (Fires(x) /\ is_runnable(y))

\* The supervisor is still told of what it was told of.
StillHeard(x, y) ==
    /\ x.notified => y.notified
    /\ is_runnable(x) => is_runnable(y)
    /\ Fires(y) => Fires(x)

\* What a notification makes of a record.
LEMMA PostedFacts ==
    ASSUME NEW x \in TaskRecord
    PROVE  LET y == Posted(x) IN
           /\ y \in TaskRecord
           /\ y.sched = IF Fires(x) THEN "Runnable" ELSE x.sched
           /\ y.peer = IF Fires(x) THEN None ELSE x.peer
           /\ y.kind = x.kind /\ y.fault = x.fault
           /\ SameSuspension(x, y) /\ y.notified = IF Fires(x) THEN FALSE ELSE TRUE
           /\ y.save = IF Fires(x) THEN NoArgs ELSE x.save
           /\ y.suspension_buffer = x.suspension_buffer /\ y.owed = x.owed
<1>1. CASE Fires(x)
  <2> DEFINE z == [x EXCEPT !.notified = FALSE]
             y == Put(z, "Runnable", None)
  <2>1. /\ z \in TaskRecord
        /\ z.sched = x.sched /\ z.peer = x.peer /\ z.kind = x.kind /\ z.fault = x.fault
        /\ SameSuspension(x, z) /\ z.notified = FALSE /\ z.save = x.save
        /\ z.suspension_buffer = x.suspension_buffer /\ z.owed = x.owed
    BY NotifiedFacts
  <2>2. "Runnable" \in Scheds /\ None \in Peers
    BY DEF Scheds, Peers
  <2> HIDE DEF z
  <2>3. /\ y \in TaskRecord
        /\ y.sched = "Runnable" /\ y.peer = None /\ y.kind = z.kind /\ y.fault = z.fault
        /\ SameSuspension(z, y) /\ y.notified = z.notified /\ y.save = NoArgs
        /\ y.suspension_buffer = z.suspension_buffer /\ y.owed = z.owed
    BY <2>1, <2>2, PutFacts, SMTT(30)
  <2>4. Posted(x) = y
    BY <1>1 DEF Posted, z
  <2> HIDE DEF y
  <2> QED
    BY <1>1, <2>1, <2>3, <2>4 DEF SameSuspension
<1>2. CASE ~Fires(x)
  <2>1. Posted(x) = [x EXCEPT !.notified = TRUE]
    BY <1>2 DEF Posted
  <2> QED
    BY <1>2, <2>1, NotifiedFacts
<1> QED
  BY <1>1, <1>2

\* A task may be notified, and it hears of that unless a fault stopped it.
LEMMA PostedSound ==
    ASSUME NEW u, NEW x, Sound(u, x)
    PROVE  LET y == Posted(x) IN
           /\ Sound(u, y) /\ Calm(x, y) /\ Idles(x, y)
           /\ Heard(x, y) \/ x.kind # "Healthy"
           /\ y.kind = x.kind
           /\ is_runnable(x) => is_runnable(y)
           /\ is_runnable(y) /\ ~is_runnable(x) => Wakes(x)
           /\ Wakes(x) => is_runnable(y)
           /\ ~Fires(y)
<1> DEFINE y == Posted(x)
<1>1. /\ y \in TaskRecord
      /\ y.sched = IF Fires(x) THEN "Runnable" ELSE x.sched
      /\ y.peer = IF Fires(x) THEN None ELSE x.peer
      /\ y.kind = x.kind /\ y.fault = x.fault
      /\ SameSuspension(x, y) /\ y.notified = IF Fires(x) THEN FALSE ELSE TRUE
      /\ y.save = IF Fires(x) THEN NoArgs ELSE x.save
      /\ y.suspension_buffer = x.suspension_buffer /\ y.owed = x.owed
  BY PostedFacts DEF Sound
<1> HIDE DEF y
<1>2. CASE Fires(x)
  <2>1. /\ y.sched = "Runnable" /\ y.notified = FALSE /\ x.sched = "InRecv" /\ x.fault = NoFault
        /\ y.save.buffer = "ok"
    BY <1>1, <1>2, SMTT(30) DEF Fires, can_accept_notification, NoArgs
  <2>2. Sound(u, y)
    BY <1>1, <2>1, FieldTypes DEF Sound, SameSuspension, Fires, can_accept_notification
  <2> QED
    <3>1. x.kind \in {"Healthy", "Suspended"}
      BY <2>1, FieldTypes DEF Sound, Kinds
    <3>2. Calm(x, y) /\ Idles(x, y) /\ ~Fires(y)
      BY <1>1, <2>1 DEF Calm, Idles, Fires, can_accept_notification
    <3>3. is_runnable(y) <=> x.kind = "Healthy"
      BY <1>1, <2>1 DEF is_runnable
    <3>4. Wakes(x) <=> x.kind = "Healthy"
      BY <1>2, <3>1 DEF Wakes
    <3> QED
      BY <1>1, <1>2, <2>2, <3>2, <3>3, <3>4 DEF y, Heard, is_runnable
<1>3. CASE ~Fires(x)
  <2>1. y.sched = x.sched /\ y.notified = TRUE /\ y.save = x.save /\ y.peer = x.peer
    BY <1>1, <1>3
  <2>2. ~Fires(y)
    BY <1>1, <1>3, <2>1 DEF Fires, can_accept_notification
  <2>3. Sound(u, y)
    BY <1>1, <2>1, <2>2, FieldTypes DEF Sound, SameSuspension
  <2> QED
    BY <1>1, <1>3, <2>1, <2>2, <2>3 DEF y, Calm, Idles, Heard, is_runnable, Wakes
<1> QED
  BY <1>2, <1>3

\* The later of two changes to a task stands.
LEMMA ExceptTwice ==
    ASSUME NEW ts \in [Task -> TaskRecord], NEW t \in Task, NEW a, NEW b
    PROVE  [[ts EXCEPT ![t] = a] EXCEPT ![t] = b] = [ts EXCEPT ![t] = b]
  OBVIOUS

\* post is Posted on the record of the task.
LEMMA PostIs ==
    ASSUME NEW ts \in [Task -> TaskRecord], NEW t \in Task
    PROVE  post(ts, t) = [ts EXCEPT ![t] = Posted(ts[t])]
<1> DEFINE a == [ts[t] EXCEPT !.notified = FALSE]
           z == [ts EXCEPT ![t].notified = FALSE]
<1>1. CASE Fires(ts[t])
  <2>1. z \in [Task -> TaskRecord] /\ z[t] = a
    <3>1. a \in TaskRecord
      BY NotifiedFacts
    <3> QED
      BY <3>1
  <2>2. z[t].fault = NoFault
    BY <1>1, <2>1, NotifiedFacts DEF Fires, can_accept_notification
  <2>3. "Runnable" \in Scheds /\ None \in Peers
    BY DEF Scheds, Peers
  <2>4. z = [ts EXCEPT ![t] = a]
    OBVIOUS
  <2>5. post(ts, t) = Runnable(z, t)
    BY <1>1 DEF post
  <2>6. Posted(ts[t]) = Put(a, "Runnable", None)
    BY <1>1 DEF Posted
  <2> HIDE DEF z, a
  <2>7. Runnable(z, t) = [z EXCEPT ![t] = Put(a, "Runnable", None)]
    BY <2>1, <2>2, <2>3, SetHealthyState, SMTT(30) DEF Runnable
  <2>8. [z EXCEPT ![t] = Put(a, "Runnable", None)] = [ts EXCEPT ![t] = Put(a, "Runnable", None)]
    BY <2>4, ExceptTwice
  <2> QED
    BY <2>5, <2>6, <2>7, <2>8
<1>2. CASE ~Fires(ts[t])
  BY <1>2 DEF post, Posted
<1> QED
  BY <1>1, <1>2

-----------------------------------------------------------------------------
(***************************************************************************)
(* What the primitives do to the task table                                *)
(***************************************************************************)
\* The supervisor hears of the tasks that become faulted from ts to us.
Told(ts, us) ==
    (\E u \in Task : ts[u].kind # "Faulted" /\ us[u].kind = "Faulted")
        => Heard(ts[Supervisor], us[Supervisor])

\* us comes from ts by ordinary operations on records.
Follows(ts, us) ==
    /\ \A u \in Task : Calm(ts[u], us[u])
    /\ Told(ts, us)
    /\ Fires(us[Supervisor]) => Fires(ts[Supervisor])

\* Task 0 is in the table.
LEMMA SupervisorIsTask == Supervisor \in Task
  BY KernelAssumption, SMTT(30) DEF Supervisor, Task

\* A new record for one task: the table stays sound.
LEMMA TableWith ==
    ASSUME NEW ts, Table(ts), NEW t \in Task, NEW y, Sound(t, y), Attached(ts, y),
           y.generation = ts[t].generation
    PROVE  Table([ts EXCEPT ![t] = y])
<1> DEFINE us == [ts EXCEPT ![t] = y]
<1>1. y \in TaskRecord
  BY DEF Sound
<1>2. us \in [Task -> TaskRecord] /\ us[t] = y /\ \A u \in Task : u # t => us[u] = ts[u]
  BY <1>1 DEF Table
<1>3. \A u \in Task : us[u].generation = ts[u].generation
  BY <1>2
<1> HIDE DEF us
<1>4. ASSUME NEW x, Attached(ts, x) PROVE Attached(us, x)
  <2> SUFFICES ASSUME x.fault = NoFault, x.sched \in {"InSend", "InReply", "InRecv"},
                      x.peer \in TaskId
               PROVE  Live(us, x.peer)
    BY DEF Attached
  <2>1. Live(ts, x.peer)
    BY <1>4 DEF Attached
  <2>2. x.peer.index \in Task
    BY DEF TaskId
  <2> QED
    BY <1>3, <2>1, <2>2 DEF Live, current_id
<1>5. ASSUME NEW u \in Task PROVE Sound(u, us[u]) /\ Attached(us, us[u])
  BY <1>2, <1>4 DEF Table
<1> QED
  BY <1>2, <1>5 DEF Table, us

\* A record that waits for nothing new is attached as the one before.
LEMMA IdlesAttached ==
    ASSUME NEW ts, NEW x, NEW y, Attached(ts, x), Idles(x, y)
    PROVE  Attached(ts, y)
  BY DEF Attached, Idles

\* Ordinary operations compose.
LEMMA CalmTransitive ==
    ASSUME NEW x, NEW y, NEW z, Calm(x, y), Calm(y, z)
    PROVE  Calm(x, z)
  BY DEF Calm, SameSuspension

\* Doing nothing is an ordinary operation.
LEMMA FollowsSelf ==
    ASSUME NEW ts
    PROVE  Follows(ts, ts)
  BY DEF Follows, Told, Calm, SameSuspension

\* Changing the record of one task by an ordinary operation is one of the table.
LEMMA FollowsWith ==
    ASSUME NEW ts, NEW us \in [Task -> TaskRecord], Follows(ts, us), NEW t \in Task,
           NEW y, Calm(us[t], y),
           y.kind = "Faulted" => us[t].kind = "Faulted",
           t = Supervisor => StillHeard(us[t], y)
    PROVE  Follows(ts, [us EXCEPT ![t] = y])
<1> DEFINE vs == [us EXCEPT ![t] = y]
<1>1. vs[t] = y /\ \A u \in Task : u # t => vs[u] = us[u]
  OBVIOUS
<1> HIDE DEF vs
<1>2. \A u \in Task : Calm(ts[u], vs[u])
  <2>1. Calm(ts[t], vs[t])
    BY <1>1, CalmTransitive DEF Follows
  <2> QED
    BY <1>1, <2>1 DEF Follows
<1>3. Fires(vs[Supervisor]) => Fires(ts[Supervisor])
  BY <1>1, SupervisorIsTask DEF Follows, StillHeard
<1>4. Told(ts, vs)
  <2> SUFFICES ASSUME NEW u \in Task, ts[u].kind # "Faulted", vs[u].kind = "Faulted"
               PROVE  Heard(ts[Supervisor], vs[Supervisor])
    BY DEF Told
  <2>1. us[u].kind = "Faulted"
    BY <1>1
  <2>2. Heard(ts[Supervisor], us[Supervisor])
    BY <2>1 DEF Follows, Told
  <2> QED
    BY <1>1, <2>2, SupervisorIsTask DEF Heard, StillHeard
<1> QED
  BY <1>2, <1>3, <1>4 DEF Follows, vs

\* A notification keeps the table sound, and the supervisor hears its own.
LEMMA PostKeeps ==
    ASSUME NEW ts, NEW us, Table(us), Follows(ts, us), NEW t \in Task
    PROVE  LET vs == post(us, t) IN
           /\ Table(vs) /\ Follows(ts, vs)
           /\ vs[t] = Posted(us[t]) /\ \A u \in Task : u # t => vs[u] = us[u]
           /\ t = Supervisor => Heard(ts[t], vs[t])
<1> DEFINE y == Posted(us[t])
           vs == [us EXCEPT ![t] = y]
<1>1. us \in [Task -> TaskRecord] /\ Sound(t, us[t]) /\ Attached(us, us[t])
  BY DEF Table
<1>2. /\ Sound(t, y) /\ Calm(us[t], y) /\ Idles(us[t], y)
      /\ Heard(us[t], y) \/ us[t].kind # "Healthy"
      /\ y.kind = us[t].kind /\ ~Fires(y)
  BY <1>1, PostedSound
<1>3. post(us, t) = vs
  BY <1>1, PostIs
<1> HIDE DEF y
<1>4. Table(vs)
  BY <1>1, <1>2, TableWith, IdlesAttached DEF Calm, SameSuspension
<1>5. vs[t] = y /\ \A u \in Task : u # t => vs[u] = us[u]
  BY <1>1
<1>6. CASE t # Supervisor
  <2>1. Follows(ts, vs)
    BY <1>1, <1>2, <1>6, FollowsWith
  <2> QED
    BY <1>3, <1>4, <1>5, <1>6, <2>1 DEF y
<1>7. CASE t = Supervisor
  <2>1. Heard(ts[t], vs[t])
    BY <1>1, <1>2, <1>5, <1>7 DEF Heard, Follows, Sound
  <2>2. Told(ts, vs)
    BY <1>7, <2>1 DEF Told
  <2>3. \A u \in Task : Calm(ts[u], vs[u])
    <3>1. Calm(ts[t], vs[t])
      BY <1>2, <1>5, CalmTransitive DEF Follows
    <3> QED
      BY <1>5, <3>1 DEF Follows
  <2>4. Follows(ts, vs)
    BY <1>2, <1>5, <1>7, <2>2, <2>3 DEF Follows
  <2> QED
    BY <1>3, <1>4, <1>5, <2>1, <2>4 DEF y
<1> QED
  BY <1>6, <1>7

\* A fault keeps the table sound, and the supervisor hears of it.
LEMMA FaultKeeps ==
    ASSUME NEW ts, NEW us, Table(us), Follows(ts, us), NEW t \in Task, t # Supervisor,
           NEW f \in Faults \ {NoFault}
    PROVE  LET vs == force_fault(us, t, f) IN
           /\ Table(vs) /\ Follows(ts, vs)
           /\ vs[t].fault # NoFault /\ vs[t].kind # "Healthy"
           /\ \A u \in Task : u \notin {t, Supervisor} => vs[u] = us[u]
           /\ vs[Supervisor] \in {us[Supervisor], Posted(us[Supervisor])}
           /\ us[t].kind = "Suspended" => vs[Supervisor] = us[Supervisor]
           /\ us[t].kind # "Suspended" => vs[Supervisor] = Posted(us[Supervisor])
<1> DEFINE y == Failed(us[t], f)
           ws == [us EXCEPT ![t] = y]
<1>1. us \in [Task -> TaskRecord] /\ Sound(t, us[t]) /\ Attached(us, us[t])
  BY DEF Table
<1>2. Sound(t, y) /\ Calm(us[t], y) /\ Idles(us[t], y)
  BY <1>1, FailedSound
<1>3. SetFault(us, t, f) = ws
  BY <1>1, SetFaultIs, SMTT(30)
<1>4. /\ y.fault = f
      /\ y.kind = IF us[t].kind = "Suspended" THEN us[t].kind ELSE "Faulted"
  BY FailedFacts, <1>1
<1> HIDE DEF y
<1>5. Table(ws)
  BY <1>1, <1>2, TableWith, IdlesAttached DEF Calm, SameSuspension
<1>6. ws[t] = y /\ \A u \in Task : u # t => ws[u] = us[u]
  BY <1>1
<1>7. CASE us[t].kind = "Suspended"
  <2>1. Follows(ts, ws)
    BY <1>1, <1>2, <1>4, <1>7, FollowsWith
  <2>2. force_fault(us, t, f) = ws
    BY <1>3, <1>7 DEF force_fault
  <2> QED
    BY <1>4, <1>5, <1>6, <1>7, <2>1, <2>2, SupervisorIsTask
<1>8. CASE us[t].kind # "Suspended"
  <2> DEFINE vs == post(ws, Supervisor)
  <2> HIDE DEF ws
  <2>1. Follows(ws, ws)
    BY FollowsSelf
  <2>2. /\ Table(vs) /\ Follows(ws, vs)
        /\ vs[Supervisor] = Posted(ws[Supervisor])
        /\ \A u \in Task : u # Supervisor => vs[u] = ws[u]
        /\ Heard(ws[Supervisor], vs[Supervisor])
    BY <1>5, <2>1, PostKeeps, SupervisorIsTask, SMTT(30)
  <2>3. force_fault(us, t, f) = vs
    BY <1>3, <1>8 DEF force_fault
  <2> HIDE DEF vs
  <2>4. ws[Supervisor] = us[Supervisor]
    BY <1>6, SupervisorIsTask
  <2>5. \A u \in Task : Calm(ts[u], vs[u])
    <3> TAKE u \in Task
    <3>1. Calm(us[u], ws[u])
      BY <1>2, <1>6, FollowsSelf DEF Follows
    <3> QED
      BY <2>2, <3>1, CalmTransitive DEF Follows
  <2>6. Heard(ts[Supervisor], vs[Supervisor])
    BY <2>2, <2>4 DEF Heard, Follows
  <2>7. Follows(ts, vs)
    BY <2>2, <2>4, <2>5, <2>6 DEF Follows, Told
  <2> QED
    BY <1>4, <1>6, <1>8, <2>2, <2>3, <2>4, <2>7, SupervisorIsTask
<1> QED
  BY <1>7, <1>8

\* A task without a fault that is made runnable.
LEMMA RunnableKeeps ==
    ASSUME NEW ts, NEW us, Table(us), Follows(ts, us), NEW t \in Task,
           us[t].fault = NoFault, us[t].sched # "InSuspendedReply"
    PROVE  LET vs == Runnable(us, t) IN
           /\ Table(vs) /\ Follows(ts, vs)
           /\ vs[t].sched = "Runnable" /\ vs[t].kind = us[t].kind
           /\ \A u \in Task : u # t => vs[u] = us[u]
<1> DEFINE y == Put(us[t], "Runnable", None)
           vs == [us EXCEPT ![t] = y]
<1>1. us \in [Task -> TaskRecord] /\ Sound(t, us[t]) /\ Attached(us, us[t])
  BY DEF Table
<1>2. Sound(t, y) /\ Calm(us[t], y) /\ Idles(us[t], y)
  BY <1>1, PutRunnable
<1>3. us[t] \in TaskRecord /\ "Runnable" \in Scheds /\ None \in Peers
  BY <1>1 DEF Scheds, Peers
<1>4. y.kind = us[t].kind /\ y.sched = "Runnable" /\ y.notified = us[t].notified
  BY <1>3, PutFacts, SMTT(30)
<1>5. Runnable(us, t) = vs
  BY <1>1, <1>3, SetHealthyState, SMTT(30) DEF Runnable
<1> HIDE DEF y
<1>6. Table(vs)
  BY <1>1, <1>2, TableWith, IdlesAttached DEF Calm, SameSuspension
<1>7. vs[t] = y /\ \A u \in Task : u # t => vs[u] = us[u]
  BY <1>1
<1>8. StillHeard(us[t], y)
  BY <1>4 DEF StillHeard, is_runnable, Fires, can_accept_notification
<1>9. Follows(ts, vs)
  BY <1>1, <1>2, <1>4, <1>8, FollowsWith
<1> QED
  BY <1>4, <1>5, <1>6, <1>7, <1>9

\* A healthy sender that is told to wait for its reply.
LEMMA InReplyKeeps ==
    ASSUME NEW ts, NEW us, Table(us), Follows(ts, us), NEW a \in Task, NEW b \in Task,
           a # Supervisor, us[a].kind = "Healthy"
    PROVE  LET vs == set_healthy_state(us, a, "InReply", current_id(us, b)) IN
           /\ Table(vs) /\ Follows(ts, vs)
           /\ vs[a].sched = "InReply" /\ vs[a].kind = "Healthy"
           /\ \A u \in Task : u # a => vs[u] = us[u]
<1> DEFINE p == current_id(us, b)
           y == Put(us[a], "InReply", p)
           vs == [us EXCEPT ![a] = y]
<1>1. us \in [Task -> TaskRecord] /\ Sound(a, us[a])
  BY DEF Table
<1>2. p \in TaskId
  BY <1>1 DEF TaskId, current_id, TaskRecord
<1>3. us[a].fault = NoFault /\ us[a].sched # "InSuspendedReply"
  BY <1>1 DEF Sound
<1>4. Live(us, p)
  BY DEF Live, current_id
<1> HIDE DEF p
<1>5. "InReply" \in Scheds /\ p \in Peers /\ us[a] \in TaskRecord
  BY <1>1, <1>2 DEF Scheds, Peers
<1>6. Sound(a, y) /\ Calm(us[a], y)
  BY <1>1, <1>2, <1>3, PutWaiting
<1>7. /\ y.kind = us[a].kind /\ y.sched = "InReply" /\ y.notified = us[a].notified
      /\ y.peer = p
  BY <1>5, PutFacts, SMTT(30)
<1>8. set_healthy_state(us, a, "InReply", p) = vs
  BY <1>1, <1>3, <1>5, SetHealthyState, SMTT(30)
<1> HIDE DEF y
<1>9. Attached(us, y)
  BY <1>4, <1>7 DEF Attached
<1>10. Table(vs)
  BY <1>6, <1>9, TableWith DEF Calm, SameSuspension
<1>11. vs[a] = y /\ \A u \in Task : u # a => vs[u] = us[u]
  BY <1>1
<1>12. Follows(ts, vs)
  BY <1>1, <1>6, <1>7, FollowsWith
<1> QED
  BY <1>7, <1>8, <1>10, <1>11, <1>12 DEF p

\* A message that is delivered.
LEMMA DeliveredKeeps ==
    ASSUME NEW ts, NEW us, Table(us), Follows(ts, us), NEW a \in Task, NEW b \in Task,
           a # b, a # Supervisor, us[a].kind = "Healthy", us[b].kind = "Healthy"
    PROVE  LET vs == Delivered(us, a, b) IN
           /\ Table(vs) /\ Follows(ts, vs)
           /\ vs[a].sched = "InReply" /\ is_runnable(vs[b])
           /\ \A u \in Task : u \notin {a, b} => vs[u] = us[u]
<1> DEFINE ws == set_healthy_state(us, a, "InReply", current_id(us, b))
<1>1. /\ Table(ws) /\ Follows(ts, ws)
      /\ ws[a].sched = "InReply" /\ ws[a].kind = "Healthy"
      /\ \A u \in Task : u # a => ws[u] = us[u]
  BY InReplyKeeps, SMTT(30)
<1>2. Delivered(us, a, b) = Runnable(ws, b)
  BY DEF Delivered
<1> HIDE DEF ws
<1>3. ws[b].fault = NoFault /\ ws[b].sched # "InSuspendedReply"
  BY <1>1, SMTT(30) DEF Table, Sound
<1>4. /\ Table(Runnable(ws, b)) /\ Follows(ts, Runnable(ws, b))
      /\ Runnable(ws, b)[b].sched = "Runnable" /\ Runnable(ws, b)[b].kind = ws[b].kind
      /\ \A u \in Task : u # b => Runnable(ws, b)[u] = ws[u]
  BY <1>1, <1>3, RunnableKeeps, SMTT(30)
<1> QED
  BY <1>1, <1>2, <1>4 DEF is_runnable

\* The arguments of the system call that the running task makes.
LEMMA SaveKeeps ==
    ASSUME NEW ts, Table(ts), NEW t \in Task, is_runnable(ts[t]), NEW v \in SaveArea,
           t = Supervisor => v.buffer = "ok"
    PROVE  LET us == [ts EXCEPT ![t].save = v] IN
           /\ Table(us) /\ Follows(ts, us)
           /\ is_runnable(us[t]) /\ us[t].save = v /\ us[t].notified = ts[t].notified
           /\ us[t].generation = ts[t].generation
           /\ \A u \in Task : u # t => us[u] = ts[u]
<1> DEFINE y == [ts[t] EXCEPT !.save = v]
           us == [ts EXCEPT ![t] = y]
<1>1. ts \in [Task -> TaskRecord] /\ Sound(t, ts[t]) /\ Attached(ts, ts[t])
  BY DEF Table
<1>2. Sound(t, y) /\ Calm(ts[t], y) /\ Idles(ts[t], y) /\ is_runnable(y)
  BY <1>1, SaveSound
<1>3. y.kind = ts[t].kind /\ y.sched = ts[t].sched /\ y.notified = ts[t].notified /\ y.save = v
  BY <1>1, SaveFacts
<1>4. [ts EXCEPT ![t].save = v] = us
  BY <1>1
<1> HIDE DEF y
<1>5. Table(us)
  BY <1>1, <1>2, TableWith, IdlesAttached DEF Calm, SameSuspension
<1>6. us[t] = y /\ \A u \in Task : u # t => us[u] = ts[u]
  BY <1>1
<1>7. StillHeard(ts[t], y)
  BY <1>2, <1>3 DEF StillHeard, is_runnable, Fires, can_accept_notification
<1>8. Follows(ts, us)
  BY <1>1, <1>2, <1>3, <1>7, FollowsSelf, FollowsWith
<1> QED
  BY <1>2, <1>3, <1>4, <1>5, <1>6, <1>8 DEF Calm, SameSuspension

-----------------------------------------------------------------------------
(***************************************************************************)
(* Scheduling                                                              *)
(***************************************************************************)
\* A nonempty set of naturals has a least element.
LEMMA LeastNatural ==
    ASSUME NEW S \in SUBSET Nat, S # {}
    PROVE  \E x \in S : \A y \in S : x <= y
<1> DEFINE R == OpToRel(<, Nat)
<1>1. PICK x \in S : \A y \in S : ~ (<<y, x>> \in R)
  BY WFMin, NatLessThanWellFounded
<1>2. \A y \in Nat : y < x => <<y, x>> \in R
  BY DEF OpToRel
<1> HIDE DEF R
<1>3. \A y \in S : x <= y
  <2> TAKE y \in S
  <2>1. x \in Nat /\ y \in Nat /\ ~(y < x)
    BY <1>1, <1>2
  <2> QED
    BY ONLY <2>1, SMTT(30)
<1> QED
  BY <1>3

\* The scan of the table finds one of the tasks it looks for, and none of them
\* is more important.
LEMMA ScanFacts ==
    ASSUME NEW previous \in Int, NEW S \in SUBSET Task, S # {}
    PROVE  /\ priority_scan(previous, S) \in S
           /\ \A u \in S : Priority[priority_scan(previous, S)] <= Priority[u]
<1> DEFINE D(t) == Distance(previous, t)
           First(t) == \A u \in S : \/ Priority[t] < Priority[u]
                                    \/ Priority[t] = Priority[u] /\ D(t) <= D(u)
<1>1. \A t \in Task : Priority[t] \in Nat /\ t \in Int
  BY KernelAssumption, SMTT(30) DEF Task
<1>2. \A t \in Task : D(t) \in Nat
  <2> TAKE t \in Task
  <2>1. t - previous - 1 \in Int /\ N + 1 \in Nat \ {0}
    BY <1>1, KernelAssumption, SMTT(30)
  <2> DEFINE d == t - previous - 1
             M == N + 1
  <2>2. d % M \in 0..(M - 1)
    <3> HIDE DEF d, M
    <3> QED
      BY <2>1, ModIsNat DEF d, M
  <2>3. d % M \in Nat
    BY <2>1, <2>2, SMTT(30)
  <2> QED
    BY <2>3 DEF Distance
<1> HIDE DEF D
<1>3. PICK t1 \in S : \A u \in S : Priority[t1] <= Priority[u]
  <2> DEFINE P == {Priority[t] : t \in S}
  <2>1. P \in SUBSET Nat /\ P # {}
    BY <1>1
  <2>2. PICK x \in P : \A y \in P : x <= y
    BY <2>1, LeastNatural
  <2> QED
    BY <2>2
<1>4. PICK t2 \in S : /\ Priority[t2] = Priority[t1]
                      /\ \A u \in S : Priority[u] = Priority[t1] => D(t2) <= D(u)
  <2> DEFINE S1 == {t \in S : Priority[t] = Priority[t1]}
             P == {D(t) : t \in S1}
  <2>1. P \in SUBSET Nat /\ P # {}
    BY <1>2
  <2>2. PICK x \in P : \A y \in P : x <= y
    BY <2>1, LeastNatural
  <2> QED
    BY <2>2
<1>5. First(t2)
  <2> SUFFICES ASSUME NEW u \in S
               PROVE  \/ Priority[t2] < Priority[u]
                      \/ Priority[t2] = Priority[u] /\ D(t2) <= D(u)
    OBVIOUS
  <2>1. /\ Priority[t2] = Priority[t1] /\ Priority[t1] <= Priority[u]
        /\ Priority[t1] \in Nat /\ Priority[u] \in Nat
        /\ Priority[u] = Priority[t1] => D(t2) <= D(u)
    BY <1>1, <1>3, <1>4
  <2> QED
    BY ONLY <2>1, SMTT(30)
<1>6. priority_scan(previous, S) = CHOOSE t \in S : First(t)
  BY DEF priority_scan, D
<1>7. priority_scan(previous, S) \in S /\ First(priority_scan(previous, S))
  <2> HIDE DEF First
  <2> QED
    BY <1>5, <1>6
<1>8. ASSUME NEW u \in S PROVE Priority[priority_scan(previous, S)] <= Priority[u]
  <2> DEFINE q == priority_scan(previous, S)
  <2>1. /\ Priority[q] < Priority[u] \/ Priority[q] = Priority[u]
        /\ Priority[q] \in Nat /\ Priority[u] \in Nat
    BY <1>1, <1>7
  <2> HIDE DEF q
  <2>2. Priority[q] <= Priority[u]
    BY ONLY <2>1, SMTT(30)
  <2> QED
    BY <2>2 DEF q
<1> QED
  BY <1>7, <1>8

\* select switches to a task that can run, the most important one.
LEMMA SelectFacts ==
    ASSUME NEW previous \in Int, NEW ts
    PROVE  CurrentRuns(ts, select(previous, ts)) /\ Ranked(ts, select(previous, ts))
<1> DEFINE S == {t \in Task : is_runnable(ts[t])}
<1>1. CASE S = {}
  <2>1. select(previous, ts) = Idle
    BY <1>1 DEF select
  <2>2. Idle \notin Task
    BY KernelAssumption, SMTT(30) DEF Idle, Task
  <2> QED
    BY <1>1, <2>1, <2>2 DEF CurrentRuns, Ranked
<1>2. CASE S # {}
  <2>1. select(previous, ts) = priority_scan(previous, S)
    BY <1>2 DEF select
  <2>2. S \in SUBSET Task
    OBVIOUS
  <2>3. /\ priority_scan(previous, S) \in S
        /\ \A u \in S : Priority[priority_scan(previous, S)] <= Priority[u]
    BY <1>2, <2>2, ScanFacts
  <2> QED
    BY <2>1, <2>3 DEF CurrentRuns, Ranked
<1> QED
  BY <1>1, <1>2

-----------------------------------------------------------------------------
(***************************************************************************)
(* The end of a system call                                                *)
(***************************************************************************)
\* What the switch hint may be, and who runs then.
HintOK(us, hint) ==
    \/ hint = Other
    \/ hint = Same /\ CurrentRuns(us, current) /\ (Configured => Ranked(us, current))
    \/ hint \in Task /\ is_runnable(us[hint]) /\ (Configured => Ranked(us, hint))

\* A fault is cleared by a restart only.
FaultsKept(ts, us) ==
    \A u \in Task : ts[u].fault # NoFault /\ us[u].fault = NoFault
        => us[u].generation # ts[u].generation

\* A table that the kernel can leave a system call with.
Fits(us, hint) ==
    /\ Table(us) /\ NoPair(us) /\ Isolated(us, regions) /\ HintOK(us, hint)
    /\ FaultsKept(tasks, us) /\ Told(tasks, us)

\* A step of the kernel keeps the invariant, the faults and their reports.
StepKeeps == KInv' /\ FaultsKept(tasks, tasks') /\ Told(tasks, tasks')

\* The names of tasks, of switches and of no region are different things.
LEMMA TaskFacts ==
    /\ Supervisor \in Task /\ Idle \notin Task /\ Same \notin Task /\ Other \notin Task
    /\ Same # Other /\ Supervisor \notin {Same, Other} /\ NoRegion \notin Region
    /\ \A t \in Task \cup {Idle} : t \in Int
  BY KernelAssumption, SMTT(30) DEF Task, Supervisor, Idle, Same, Other, NoRegion

\* A system call that ends with a fitting table keeps the invariant.
LEMMA ReturnKeeps ==
    ASSUME KInv, NEW us, NEW hint, Fits(us, hint), Return(us, hint), UNCHANGED regions
    PROVE  StepKeeps
<1>1. /\ tasks' = us /\ kernel' = User /\ copied' = NoRegion /\ regions' = regions
      /\ current' = CASE hint = Same  -> current
                      [] hint = Other -> select(current, us)
                      [] OTHER        -> hint
  BY DEF Return
<1>2. current \in Int
  BY TaskFacts DEF KInv, CurrentRuns
<1>3. CurrentRuns(us, current') /\ (Configured => Ranked(us, current'))
  <2>1. CASE hint = Other
    <3>1. current' = select(current, us)
      BY <1>1, <2>1, TaskFacts
    <3> QED
      BY <1>2, <3>1, SelectFacts
  <2>2. CASE hint = Same /\ CurrentRuns(us, current) /\ (Configured => Ranked(us, current))
    <3>1. current' = current
      BY <1>1, <2>2, TaskFacts
    <3> QED
      BY <2>2, <3>1
  <2>3. CASE hint \in Task /\ is_runnable(us[hint]) /\ (Configured => Ranked(us, hint))
    <3>1. current' = hint
      BY <1>1, <2>3, TaskFacts
    <3> QED
      BY <2>3, <3>1 DEF CurrentRuns
  <2> QED
    BY <2>1, <2>2, <2>3 DEF Fits, HintOK
<1>4. regions \in Regions
  BY DEF KInv
<1>5. KInv'
  <2>1. Table(tasks') /\ NoPair(tasks') /\ Isolated(tasks', regions')
    BY <1>1 DEF Fits
  <2>2. copied' \in Region \cup {NoRegion} /\ NoHibernatedCopy'
    BY <1>1, TaskFacts DEF NoHibernatedCopy
  <2> QED
    BY <1>1, <1>3, <1>4, <2>1, <2>2 DEF KInv
<1> QED
  BY <1>1, <1>5 DEF StepKeeps, Fits

\* Ordinary operations create no pair and keep every task in its regions.
LEMMA FollowsFacts ==
    ASSUME NEW ts, NEW us, Follows(ts, us)
    PROVE  /\ NoPair(ts) => NoPair(us)
           /\ \A a, b \in Task : Pair(us, a, b) => Pair(ts, a, b)
           /\ \A rs : Isolated(ts, rs) => Isolated(us, rs)
           /\ FaultsKept(ts, us) /\ Told(ts, us)
<1>1. ASSUME NEW a \in Task, NEW b \in Task, Pair(us, a, b)
      PROVE  Pair(ts, a, b)
  <2>1. Calm(ts[a], us[a]) /\ Calm(ts[b], us[b])
    BY DEF Follows
  <2> QED
    BY <1>1, <2>1 DEF Calm, SameSuspension, Pair, is_sending_to, can_accept_message_from,
                      current_id
<1>2. \A u \in Task : Calm(ts[u], us[u])
  BY DEF Follows
<1>3. FaultsKept(ts, us)
  BY <1>2 DEF FaultsKept, Calm
<1>4. ASSUME NEW rs, Isolated(ts, rs) PROVE Isolated(us, rs)
  BY <1>2, <1>4 DEF Isolated, Calm, SameSuspension
<1> QED
  BY <1>1, <1>3, <1>4 DEF NoPair, Follows

\* What a fault leaves, and the switch it asks for.
LEMMA FaultHintKeeps ==
    ASSUME NEW ts, NEW us, Table(us), Follows(ts, us), NEW c \in Task, c # Supervisor
    PROVE  LET vs == force_fault(us, c, "Other") IN
           /\ Table(vs) /\ Follows(ts, vs)
           /\ vs[c].kind # "Healthy"
           /\ \A u \in Task : u \notin {c, Supervisor} => vs[u] = us[u]
           /\ is_runnable(us[Supervisor]) => is_runnable(vs[Supervisor])
           /\ FaultHint(us, c) \in {Other, Supervisor}
           /\ FaultHint(us, c) = Supervisor
                 => is_runnable(vs[Supervisor]) /\ ~is_runnable(us[Supervisor])
<1> DEFINE vs == force_fault(us, c, "Other")
<1>1. "Other" \in Faults \ {NoFault}
  BY DEF Faults, NoFault
<1>2. /\ Table(vs) /\ Follows(ts, vs)
      /\ vs[c].fault # NoFault /\ vs[c].kind # "Healthy"
      /\ \A u \in Task : u \notin {c, Supervisor} => vs[u] = us[u]
      /\ vs[Supervisor] \in {us[Supervisor], Posted(us[Supervisor])}
      /\ us[c].kind # "Suspended" => vs[Supervisor] = Posted(us[Supervisor])
  BY <1>1, FaultKeeps, SMTT(30)
<1> HIDE DEF vs
<1>3. Sound(Supervisor, us[Supervisor])
  BY TaskFacts DEF Table
<1> DEFINE x == us[Supervisor]
           y == Posted(x)
<1>4. (is_runnable(x) => is_runnable(y)) /\ (Wakes(x) => is_runnable(y))
  BY <1>3, PostedSound
<1>5. Wakes(x) => ~is_runnable(x)
  BY DEF Wakes, Fires, can_accept_notification, is_runnable
<1> HIDE DEF y
<1>6. is_runnable(x) => is_runnable(vs[Supervisor])
  BY <1>2, <1>4 DEF y
<1>7. /\ FaultHint(us, c) \in {Other, Supervisor}
      /\ FaultHint(us, c) = Supervisor => us[c].kind # "Suspended" /\ Wakes(x)
  BY TaskFacts DEF FaultHint
<1>8. FaultHint(us, c) = Supervisor => is_runnable(vs[Supervisor]) /\ ~is_runnable(x)
  BY <1>2, <1>4, <1>5, <1>7 DEF y
<1> QED
  BY <1>2, <1>6, <1>7, <1>8 DEF vs

\* The same for a fault that there may be on the way.
LEMMA FaultIfKeeps ==
    ASSUME NEW ts, NEW us, Table(us), Follows(ts, us), NEW b \in BOOLEAN, NEW c \in Task,
           b => c # Supervisor
    PROVE  LET vs == FaultIf(b, us, c) IN
           /\ Table(vs) /\ Follows(ts, vs)
           /\ b => vs[c].kind # "Healthy"
           /\ ~b => vs = us
           /\ \A u \in Task : u \notin {c, Supervisor} => vs[u] = us[u]
           /\ is_runnable(us[Supervisor]) => is_runnable(vs[Supervisor])
           /\ HintIf(b, us, c) \in {Same, Other, Supervisor}
           /\ HintIf(b, us, c) = Supervisor
                 => is_runnable(vs[Supervisor]) /\ ~is_runnable(us[Supervisor])
<1>1. CASE ~b
  BY <1>1, TaskFacts DEF FaultIf, HintIf
<1>2. CASE b
  <2> DEFINE vs == force_fault(us, c, "Other")
  <2>1. FaultIf(b, us, c) = vs /\ HintIf(b, us, c) = FaultHint(us, c)
    BY <1>2 DEF FaultIf, HintIf
  <2>2. /\ Table(vs) /\ Follows(ts, vs) /\ vs[c].kind # "Healthy"
        /\ \A u \in Task : u \notin {c, Supervisor} => vs[u] = us[u]
        /\ is_runnable(us[Supervisor]) => is_runnable(vs[Supervisor])
        /\ FaultHint(us, c) \in {Other, Supervisor}
        /\ FaultHint(us, c) = Supervisor
              => is_runnable(vs[Supervisor]) /\ ~is_runnable(us[Supervisor])
    BY <1>2, FaultHintKeeps
  <2> HIDE DEF vs
  <2> QED
    BY <1>2, <2>1, <2>2
<1> QED
  BY <1>1, <1>2

\* The supervisor is the one to run when it can.
LEMMA SupervisorHint ==
    ASSUME NEW us, is_runnable(us[Supervisor])
    PROVE  HintOK(us, Supervisor)
<1>1. Configured => Ranked(us, Supervisor)
  BY TaskFacts DEF Configured, Ranked
<1> QED
  BY <1>1, TaskFacts DEF HintOK

\* A system call that ends in a fault of the caller.
LEMMA FaultCallerKeeps ==
    ASSUME KInv, kernel.at # "reconcile", current \in Task, current # Supervisor,
           NEW us, Table(us), Follows(tasks, us), FaultCaller(us), UNCHANGED regions
    PROVE  StepKeeps
<1> DEFINE vs == force_fault(us, current, "Other")
           hint == FaultHint(us, current)
<1>2. /\ Table(vs) /\ Follows(tasks, vs)
      /\ hint \in {Other, Supervisor}
      /\ hint = Supervisor => is_runnable(vs[Supervisor])
  BY FaultHintKeeps
<1>3. Return(vs, hint)
  BY DEF FaultCaller
<1> HIDE DEF vs, hint
<1>4. HintOK(vs, hint)
  <2>1. CASE hint = Other
    BY <2>1 DEF HintOK
  <2>2. CASE hint = Supervisor
    BY <1>2, <2>2, SupervisorHint
  <2> QED
    BY <1>2, <2>1, <2>2
<1>5. NoPair(tasks) /\ Isolated(tasks, regions)
  BY DEF KInv, Reconciling
<1>6. NoPair(vs) /\ Isolated(vs, regions) /\ FaultsKept(tasks, vs) /\ Told(tasks, vs)
  BY <1>2, <1>5, FollowsFacts
<1>7. Fits(vs, hint)
  BY <1>2, <1>4, <1>6 DEF Fits
<1> QED
  BY <1>3, <1>7, ReturnKeeps

\* A system call that changes nothing but what follows from the table, and
\* goes on with the caller.
LEMMA SameKeeps ==
    ASSUME KInv, kernel = User, NEW us, Table(us), Follows(tasks, us),
           current \in Task => is_runnable(us[current]),
           Configured => \A u \in Task : is_runnable(us[u]) /\ ~is_runnable(tasks[u])
                             => current \in Task /\ Priority[current] <= Priority[u],
           Return(us, Same), UNCHANGED regions
    PROVE  StepKeeps
<1>1. /\ NoPair(tasks) /\ Isolated(tasks, regions) /\ (Configured => Ranked(tasks, current))
      /\ current \in Task \cup {Idle}
  BY DEF KInv, User, Reconciling, CurrentRuns, Scanning
<1>2. NoPair(us) /\ Isolated(us, regions) /\ FaultsKept(tasks, us) /\ Told(tasks, us)
  BY <1>1, FollowsFacts
<1>3. HintOK(us, Same)
  BY <1>1 DEF HintOK, CurrentRuns, Ranked
<1> QED
  BY <1>2, <1>3, ReturnKeeps DEF Fits

\* The task that makes a system call.
LEMMA RunningFacts ==
    ASSUME KInv, NEW t, Running(t)
    PROVE  /\ kernel = User /\ kernel.at # "reconcile" /\ current = t
           /\ t \in Task => is_runnable(tasks[t])
           /\ Table(tasks) /\ Follows(tasks, tasks)
           /\ NoPair(tasks) /\ Isolated(tasks, regions)
           /\ Configured => Ranked(tasks, t)
  BY FollowsSelf DEF Running, KInv, CurrentRuns, User, Scanning, Reconciling

\* The running task blocks.
LEMMA BlockKeeps ==
    ASSUME NEW us, Table(us), Follows(tasks, us), Isolated(tasks, regions), NEW t \in Task,
           is_runnable(tasks[t]), is_runnable(us[t]), NEW s \in {"InSend", "InRecv"},
           NEW p \in Peers, p \in TaskId => Live(us, p), Sound(t, Put(us[t], s, p))
    PROVE  LET vs == set_healthy_state(us, t, s, p) IN
           /\ Table(vs) /\ Isolated(vs, regions) /\ FaultsKept(tasks, vs) /\ Told(tasks, vs)
           /\ vs[t].kind = "Healthy" /\ vs[t].sched = s /\ vs[t].peer = p
           /\ vs[t].generation = us[t].generation
           /\ \A u \in Task : u # t => vs[u] = us[u]
<1> DEFINE y == Put(us[t], s, p)
           vs == [us EXCEPT ![t] = y]
<1>1. us \in [Task -> TaskRecord] /\ Sound(t, us[t]) /\ us[t] \in TaskRecord /\ s \in Scheds
  BY DEF Table, Scheds
<1>2. us[t].fault = NoFault
  BY <1>1 DEF Sound, is_runnable
<1>3. /\ y.kind = us[t].kind /\ y.sched = s /\ y.notified = us[t].notified
      /\ y.peer = p /\ SameSuspension(us[t], y) /\ y.fault = us[t].fault
  BY <1>1, PutFacts, SMTT(30)
<1>4. set_healthy_state(us, t, s, p) = vs
  BY <1>1, <1>2, SetHealthyState, SMTT(30)
<1>5. Sound(t, y)
  OBVIOUS
<1> HIDE DEF y
<1>6. Attached(us, y)
  BY <1>3 DEF Attached
<1>7. Table(vs)
  BY <1>3, <1>5, <1>6, TableWith DEF SameSuspension
<1>8. vs[t] = y /\ \A u \in Task : u # t => vs[u] = us[u]
  BY <1>1
<1> HIDE DEF vs
<1>9. Isolated(us, regions) /\ FaultsKept(tasks, us) /\ Told(tasks, us)
  BY FollowsFacts
<1>10. Isolated(vs, regions)
  BY <1>3, <1>8, <1>9 DEF Isolated, SameSuspension
<1>11. FaultsKept(tasks, vs)
  BY <1>3, <1>8, <1>9, SMTT(30) DEF FaultsKept, SameSuspension
<1>12. Told(tasks, vs)
  <2> SUFFICES ASSUME NEW u \in Task, tasks[u].kind # "Faulted", vs[u].kind = "Faulted"
               PROVE  Heard(tasks[Supervisor], vs[Supervisor])
    BY DEF Told
  <2>1. us[u].kind = "Faulted"
    BY <1>3, <1>8
  <2>2. Heard(tasks[Supervisor], us[Supervisor])
    BY <1>9, <2>1 DEF Told
  <2>3. CASE t # Supervisor
    BY <1>8, <2>2, <2>3, TaskFacts
  <2>4. CASE t = Supervisor
    <3>1. ~Fires(tasks[Supervisor])
      BY <2>4 DEF Fires, can_accept_notification, is_runnable
    <3> QED
      BY <1>3, <1>8, <2>2, <2>4, <3>1 DEF Heard
  <2> QED
    BY <2>3, <2>4
<1>13. y.kind = "Healthy" /\ y.generation = us[t].generation
  BY <1>3 DEF is_runnable, SameSuspension
<1> QED
  BY <1>3, <1>4, <1>7, <1>8, <1>10, <1>11, <1>12, <1>13

\* The hint of a system call in which the caller blocks.
LEMMA CombineFacts ==
    ASSUME NEW h \in {Same, Other, Supervisor}
    PROVE  /\ combine(Other, h) = IF h = Supervisor THEN Supervisor ELSE Other
           /\ combine(h, Other) = IF h = Supervisor THEN Supervisor ELSE Other
           /\ combine(h, Supervisor) = Supervisor
  BY TaskFacts DEF combine

\* A call that blocks its caller asks for a switch that can be made.
LEMMA BlockHint ==
    ASSUME NEW us, NEW vs, NEW t \in Task, \A u \in Task : u # t => vs[u] = us[u],
           NEW h \in {Same, Other, Supervisor},
           h = Supervisor => t # Supervisor /\ is_runnable(us[Supervisor])
    PROVE  HintOK(vs, combine(Other, h))
<1>1. CASE h = Supervisor
  <2>1. is_runnable(vs[Supervisor])
    BY <1>1, TaskFacts
  <2> QED
    BY <1>1, <2>1, CombineFacts, SupervisorHint
<1>2. CASE h # Supervisor
  BY <1>2, CombineFacts DEF HintOK
<1> QED
  BY <1>1, <1>2

-----------------------------------------------------------------------------
(***************************************************************************)
(* Messages                                                                *)
(***************************************************************************)
LEMMA NothingKeeps ==
    ASSUME KInv, NEW t \in Task, Running(t), Return(tasks, Same), UNCHANGED regions
    PROVE  StepKeeps
  BY RunningFacts, SameKeeps

\* A sender that waits meets no receiver.
LEMMA SenderMeetsNone ==
    ASSUME NEW us, NEW vs, NoPair(us), NEW t \in Task, NEW id \in TaskId,
           vs[t].kind = "Healthy", vs[t].sched = "InSend", vs[t].peer = id,
           vs[t].generation = us[t].generation,
           \A u \in Task : u # t => vs[u] = us[u],
           id.index # t => ~can_accept_message_from(us[id.index], current_id(us, t))
    PROVE  NoPair(vs)
<1> SUFFICES ASSUME NEW a \in Task, NEW b \in Task, Pair(vs, a, b) PROVE FALSE
  BY DEF NoPair
<1>1. b # t
  BY DEF Pair, can_accept_message_from
<1>2. CASE a = t
  <2>1. id.index = b
    BY <1>2, SMTT(30) DEF Pair, is_sending_to, current_id
  <2>2. current_id(vs, t) = current_id(us, t) /\ vs[b] = us[b]
    BY <1>1 DEF current_id
  <2> QED
    BY <1>1, <1>2, <2>1, <2>2 DEF Pair
<1>3. CASE a # t
  BY <1>1, <1>3 DEF NoPair, Pair, current_id
<1> QED
  BY <1>2, <1>3

\* Tasks send to tasks, and the supervisor sends to none.
LEMMA CalleeFacts ==
    ASSUME NEW t \in Task, NEW c, c \in Callees[t]
    PROVE  c \in Task /\ t # Supervisor
  BY KernelAssumption

\* The slices that a task passes are of their type.
LEMMA SlicesTyped ==
    ASSUME NEW t, NEW m \in SlicesOf(t)
    PROVE  m \in Slices \cup {"ok"} /\ (t = Supervisor => m = "ok")
  BY DEF SlicesOf

\* send keeps the invariant.
LEMMA SendKeeps ==
    ASSUME KInv, NEW t \in Task, NEW id \in TaskId, NEW m \in SlicesOf(t), NEW p \in SlicesOf(t),
           send(t, id, m, p)
    PROVE  StepKeeps
<1> DEFINE v     == [NoArgs EXCEPT !.message = m, !.response = p]
           ts    == [tasks EXCEPT ![t].save = v]
           c     == id.index
           ready == can_accept_message_from(tasks[c], current_id(tasks, t))
           src   == ready /\ SrcFault(ts, t, c)
           dst   == ready /\ DstFault(ts, t, c)
<1>1. /\ Running(t) /\ c \in Callees[t] /\ UNCHANGED regions
      /\ \/ ~Live(tasks, id) /\ Return(tasks, Same)
         \/ Live(tasks, id) /\ ready /\ ~src /\ ~dst /\ Return(Delivered(ts, t, c), c)
         \/ Live(tasks, id) /\ src /\ FaultCaller(FaultIf(dst, ts, c))
         \/ /\ Live(tasks, id) /\ ~src /\ (ready => dst)
            /\ Return(set_healthy_state(FaultIf(dst, ts, c), t, "InSend", id),
                      combine(Other, HintIf(dst, ts, c)))
  BY DEF send
<1>2. c \in Task /\ t # Supervisor
  BY <1>1, CalleeFacts
<1>3. v \in SaveArea
  BY SlicesTyped DEF NoArgs, SaveArea
<1>4. /\ kernel = User /\ kernel.at # "reconcile" /\ current = t /\ is_runnable(tasks[t])
      /\ Table(tasks) /\ NoPair(tasks) /\ Isolated(tasks, regions)
      /\ Configured => Ranked(tasks, t)
  BY <1>1, RunningFacts
<1> HIDE DEF v
<1>5. /\ Table(ts) /\ Follows(tasks, ts) /\ is_runnable(ts[t])
      /\ ts[t].generation = tasks[t].generation
      /\ \A u \in Task : u # t => ts[u] = tasks[u]
  BY <1>2, <1>3, <1>4, SaveKeeps, SMTT(30)
<1>6. ready => c # t /\ ts[c].kind = "Healthy" /\ ts[c].sched = "InRecv" /\ ts[c] = tasks[c]
  BY <1>2, <1>4, <1>5 DEF can_accept_message_from, is_runnable
<1> HIDE DEF ts, c
<1>7. dst => c # Supervisor
  BY <1>2, <1>5 DEF DstFault, Table, Sound
<1> HIDE DEF ready
<1>8. src \in BOOLEAN /\ dst \in BOOLEAN
  BY DEF can_accept_message_from, SrcFault, DstFault, ready, SenderMalformed
<1> HIDE DEF src, dst
<1> DEFINE us == FaultIf(dst, ts, c)
           h  == HintIf(dst, ts, c)
<1>9. /\ Table(us) /\ Follows(tasks, us)
      /\ dst => us[c].kind # "Healthy"
      /\ ~dst => us = ts
      /\ \A u \in Task : u \notin {c, Supervisor} => us[u] = ts[u]
      /\ h \in {Same, Other, Supervisor}
      /\ h = Supervisor => is_runnable(us[Supervisor])
  BY <1>2, <1>5, <1>7, <1>8, FaultIfKeeps, SMTT(30)
<1> HIDE DEF us, h
<1>10. CASE ~Live(tasks, id) /\ Return(tasks, Same)
  BY <1>1, <1>10, NothingKeeps
<1>11. CASE ready /\ Return(Delivered(ts, t, c), c)
  <2> DEFINE vs == Delivered(ts, t, c)
  <2>1. /\ Table(vs) /\ Follows(tasks, vs)
        /\ vs[t].sched = "InReply" /\ is_runnable(vs[c])
        /\ \A u \in Task : u \notin {t, c} => vs[u] = ts[u]
    BY <1>2, <1>5, <1>6, <1>11, DeliveredKeeps, SMTT(30) DEF is_runnable
  <2> HIDE DEF vs
  <2>2. Configured => Ranked(vs, c)
    <3> SUFFICES ASSUME Configured, NEW u \in Task, is_runnable(vs[u])
                 PROVE  Priority[c] <= Priority[u]
      BY <1>2 DEF Ranked
    <3>1. u # t
      BY <2>1 DEF is_runnable
    <3>2. u # c => is_runnable(tasks[u])
      BY <1>5, <2>1, <3>1
    <3>3. Priority[c] <= Priority[t] /\ (u # c => Priority[t] <= Priority[u])
      BY <1>1, <1>4, <3>2 DEF Configured, Ranked
    <3>4. Priority[c] \in Nat /\ Priority[t] \in Nat /\ Priority[u] \in Nat
      BY <1>2, KernelAssumption
    <3> QED
      BY <3>3, <3>4, SMTT(30)
  <2>3. HintOK(vs, c)
    BY <1>2, <2>1, <2>2 DEF HintOK
  <2>4. NoPair(vs) /\ Isolated(vs, regions) /\ FaultsKept(tasks, vs) /\ Told(tasks, vs)
    BY <1>4, <2>1, FollowsFacts
  <2>5. Return(vs, c)
    BY <1>11 DEF vs
  <2> QED
    BY <1>1, <2>1, <2>3, <2>4, <2>5, ReturnKeeps DEF Fits
<1>12. CASE src /\ FaultCaller(us)
  BY <1>1, <1>2, <1>4, <1>9, <1>12, FaultCallerKeeps
<1>13. CASE /\ Live(tasks, id) /\ ~src /\ (ready => dst)
            /\ Return(set_healthy_state(us, t, "InSend", id), combine(Other, h))
  <2> DEFINE vs == set_healthy_state(us, t, "InSend", id)
  <2>1. c = t => us[t] = ts[t]
    <3>1. c = t => ~dst
      BY <1>6 DEF dst
    <3> QED
      BY <1>9, <3>1
  <2>2. us[t] = ts[t] /\ is_runnable(us[t])
    BY <1>2, <1>5, <1>9, <2>1
  <2>3. id \in Peers /\ Sound(t, us[t]) /\ us[t].fault = NoFault /\ us[t].sched # "InSuspendedReply"
    BY <1>9, <2>2 DEF Peers, Table, Sound, is_runnable
  <2>4. Sound(t, Put(us[t], "InSend", id))
    BY <1>2, <2>3, PutWaiting
  <2>5. Live(us, id)
    <3>1. us[c].generation = tasks[c].generation
      BY <1>2, <1>9, SMTT(30) DEF Follows, Calm, SameSuspension
    <3> QED
      BY <1>13, <3>1 DEF Live, current_id, c
  <2>6. /\ Table(vs) /\ Isolated(vs, regions) /\ FaultsKept(tasks, vs) /\ Told(tasks, vs)
        /\ vs[t].kind = "Healthy" /\ vs[t].sched = "InSend" /\ vs[t].peer = id
        /\ vs[t].generation = us[t].generation
        /\ \A u \in Task : u # t => vs[u] = us[u]
    BY <1>4, <1>9, <2>2, <2>3, <2>4, <2>5, BlockKeeps, SMTT(30)
  <2> HIDE DEF vs
  <2>7. NoPair(us)
    BY <1>4, <1>9, FollowsFacts
  <2>8. id.index # t => ~can_accept_message_from(us[id.index], current_id(us, t))
    <3>1. current_id(us, t) = current_id(tasks, t)
      BY <1>5, <2>2 DEF current_id
    <3>2. CASE dst
      BY <1>9, <3>2 DEF can_accept_message_from, c
    <3>3. CASE ~dst
      <4>1. ~ready /\ us = ts
        BY <1>9, <1>13, <3>3
      <4> QED
        BY <1>2, <1>5, <3>1, <4>1 DEF ready, c
    <3> QED
      BY <3>2, <3>3
  <2>9. NoPair(vs)
    BY <2>6, <2>7, <2>8, SenderMeetsNone
  <2>10. HintOK(vs, combine(Other, h))
    BY <1>2, <1>9, <2>6, BlockHint
  <2>11. Return(vs, combine(Other, h))
    BY <1>13 DEF vs
  <2> QED
    BY <1>1, <2>6, <2>9, <2>10, <2>11, ReturnKeeps DEF Fits
<1> QED
  BY <1>1, <1>10, <1>11, <1>12, <1>13 DEF us, h

\* A receiver that waits meets no sender.
LEMMA ReceiverMeetsNone ==
    ASSUME NEW us, NEW vs, NoPair(us), NEW t \in Task,
           vs[t].sched = "InRecv", vs[t].generation = us[t].generation,
           \A u \in Task : u # t => vs[u] = us[u],
           \A a \in Task : vs[t].peer \in {None, current_id(us, a)}
                               => ~is_sending_to(us[a], current_id(us, t))
    PROVE  NoPair(vs)
<1> SUFFICES ASSUME NEW a \in Task, NEW b \in Task, Pair(vs, a, b) PROVE FALSE
  BY DEF NoPair
<1>1. a # t
  BY DEF Pair, is_sending_to
<1>2. current_id(vs, a) = current_id(us, a) /\ current_id(vs, t) = current_id(us, t)
  BY <1>1 DEF current_id
<1>3. CASE b = t
  BY <1>1, <1>2, <1>3 DEF Pair, can_accept_message_from
<1>4. CASE b # t
  BY <1>1, <1>4 DEF NoPair, Pair, current_id
<1> QED
  BY <1>3, <1>4

\* The last lines of recv.
LEMMA RecvBlocks ==
    ASSUME KInv, kernel.at # "reconcile", NEW t \in Task, current = t, NEW us, Table(us), Follows(tasks, us),
           is_runnable(us[t]), t # Supervisor => ~(us[t].save.mask /\ us[t].notified),
           NEW from \in Peers, from \in TaskId => Live(us, from),
           \A a \in Task : from \in {None, current_id(us, a)}
                               => ~is_sending_to(us[a], current_id(us, t)),
           NEW h \in {Same, Other, Supervisor},
           h = Supervisor => t # Supervisor /\ is_runnable(us[Supervisor]),
           Block(us, t, from, h), UNCHANGED regions
    PROVE  StepKeeps
<1> DEFINE vs == set_healthy_state(us, t, "InRecv", from)
<1>1. /\ NoPair(tasks) /\ Isolated(tasks, regions) /\ is_runnable(tasks[t])
  BY DEF KInv, Reconciling, CurrentRuns
<1>2. Sound(t, us[t]) /\ us[t].fault = NoFault /\ us[t].sched # "InSuspendedReply"
  BY DEF Table, Sound, is_runnable
<1>3. Sound(t, Put(us[t], "InRecv", from))
  BY <1>2, PutReceiving
<1>4. /\ Table(vs) /\ Isolated(vs, regions) /\ FaultsKept(tasks, vs) /\ Told(tasks, vs)
      /\ vs[t].kind = "Healthy" /\ vs[t].sched = "InRecv" /\ vs[t].peer = from
      /\ vs[t].generation = us[t].generation
      /\ \A u \in Task : u # t => vs[u] = us[u]
  BY <1>1, <1>3, BlockKeeps, SMTT(30)
<1>5. Return(vs, combine(Other, h))
  BY DEF Block
<1> HIDE DEF vs
<1>6. NoPair(us)
  BY <1>1, FollowsFacts
<1>7. NoPair(vs)
  BY <1>4, <1>6, ReceiverMeetsNone
<1>8. HintOK(vs, combine(Other, h))
  BY <1>4, BlockHint
<1> QED
  BY <1>4, <1>5, <1>7, <1>8, ReturnKeeps DEF Fits

\* The running task takes its notification.
LEMMA TakeKeeps ==
    ASSUME KInv, NEW t \in Task, Running(t),
           Return([tasks EXCEPT ![t].notified = FALSE], Same), UNCHANGED regions
    PROVE  StepKeeps
<1> DEFINE y  == [tasks[t] EXCEPT !.notified = FALSE]
           us == [tasks EXCEPT ![t] = y]
<1>1. /\ kernel = User /\ current = t /\ is_runnable(tasks[t]) /\ Table(tasks)
  BY RunningFacts
<1>2. tasks \in [Task -> TaskRecord] /\ Sound(t, tasks[t]) /\ Attached(tasks, tasks[t])
  BY <1>1 DEF Table
<1>3. /\ y \in TaskRecord
      /\ y.sched = tasks[t].sched /\ y.peer = tasks[t].peer /\ y.kind = tasks[t].kind
      /\ y.fault = tasks[t].fault /\ SameSuspension(tasks[t], y) /\ y.notified = FALSE
      /\ y.save = tasks[t].save /\ y.suspension_buffer = tasks[t].suspension_buffer
      /\ y.owed = tasks[t].owed
  BY <1>2, NotifiedFacts
<1>4. [tasks EXCEPT ![t].notified = FALSE] = us
  BY <1>2
<1> HIDE DEF y
<1>5. Sound(t, y)
  BY <1>2, <1>3, FieldTypes DEF Sound, SameSuspension, Fires, can_accept_notification
<1>6. Attached(tasks, y)
  BY <1>2, <1>3 DEF Attached
<1>7. Table(us)
  BY <1>1, <1>3, <1>5, <1>6, TableWith DEF SameSuspension
<1>8. us[t] = y /\ \A u \in Task : u # t => us[u] = tasks[u]
  BY <1>2
<1> HIDE DEF us
<1>9. is_runnable(y)
  BY <1>1, <1>3 DEF is_runnable
<1>10. Calm(tasks[t], y)
  BY <1>3 DEF Calm
<1>11. \A u \in Task : Calm(tasks[u], us[u])
  BY <1>8, <1>10, FollowsSelf DEF Follows
<1>12. Told(tasks, us)
  BY <1>3, <1>8 DEF Told
<1>13. Fires(us[Supervisor]) => Fires(tasks[Supervisor])
  BY <1>3, <1>8, TaskFacts DEF Fires, can_accept_notification
<1>14. Follows(tasks, us)
  BY <1>11, <1>12, <1>13 DEF Follows
<1> QED
  BY <1>1, <1>4, <1>7, <1>8, <1>9, <1>14, SameKeeps DEF is_runnable

\* A message that the running task takes, and goes on.
LEMMA ReceivedKeeps ==
    ASSUME KInv, kernel = User, NEW t \in Task, current = t, NEW ts, Table(ts), Follows(tasks, ts),
           is_runnable(ts[t]), \A u \in Task : u # t => ts[u] = tasks[u],
           NEW a \in Task, ts[a].kind = "Healthy", ts[a].sched = "InSend",
           Return(Delivered(ts, a, t), Same), UNCHANGED regions
    PROVE  StepKeeps
<1> DEFINE vs == Delivered(ts, a, t)
<1>1. a # Supervisor /\ a # t /\ ts[t].kind = "Healthy"
  BY DEF Table, Sound, is_runnable
<1>2. /\ Table(vs) /\ Follows(tasks, vs) /\ vs[a].sched = "InReply" /\ is_runnable(vs[t])
      /\ \A u \in Task : u \notin {a, t} => vs[u] = ts[u]
  BY <1>1, DeliveredKeeps, SMTT(30)
<1> HIDE DEF vs
<1>3. is_runnable(tasks[t])
  BY DEF KInv, CurrentRuns
<1>4. \A u \in Task : is_runnable(vs[u]) => is_runnable(tasks[u])
  BY <1>2, <1>3 DEF is_runnable
<1>5. Return(vs, Same)
  BY DEF vs
<1> QED
  BY <1>2, <1>4, <1>5, SameKeeps

\* An open receive begins its search.
LEMMA ScanBegins ==
    ASSUME KInv, NEW t \in Task, Running(t), NEW ts, Table(ts), Follows(tasks, ts),
           is_runnable(ts[t]), \A u \in Task : u # t => ts[u] = tasks[u],
           t # Supervisor => ~(ts[t].save.mask /\ ts[t].notified),
           tasks' = ts, kernel' = [at |-> "recv", pos |-> t, hint |-> Same],
           copied' = NoRegion, UNCHANGED <<current, regions>>
    PROVE  StepKeeps
<1>1. /\ current = t /\ is_runnable(tasks[t]) /\ NoPair(tasks) /\ Isolated(tasks, regions)
      /\ Configured => Ranked(tasks, t)
  BY RunningFacts
<1>2. NoPair(ts) /\ Isolated(ts, regions) /\ FaultsKept(tasks, ts) /\ Told(tasks, ts)
  BY <1>1, FollowsFacts
<1>3. CurrentRuns(ts, t)
  BY DEF CurrentRuns
<1>4. Configured => Ranked(ts, t)
  BY <1>1 DEF Ranked
<1>5. Scanning'
  <2>1. kernel' \in [at : {"recv"}, pos : Task, hint : {Same, Other, Supervisor}]
    OBVIOUS
  <2>2. kernel'.hint # Supervisor
    BY TaskFacts
  <2> QED
    BY <1>1, <2>1, <2>2 DEF Scanning
<1>6. copied' \in Region \cup {NoRegion} /\ NoHibernatedCopy'
  BY TaskFacts DEF NoHibernatedCopy
<1>7. regions \in Regions
  BY DEF KInv
<1>8. KInv'
  BY <1>1, <1>2, <1>3, <1>4, <1>5, <1>6, <1>7 DEF KInv
<1> QED
  BY <1>2, <1>8 DEF StepKeeps

\* recv keeps the invariant.
LEMMA RecvKeeps ==
    ASSUME KInv, NEW t \in Task, NEW from \in TaskId \cup {None, KERNEL},
           NEW b \in SlicesOf(t), NEW mask \in BOOLEAN, recv(t, from, b, mask)
    PROVE  StepKeeps
<1> DEFINE v   == [NoArgs EXCEPT !.buffer = b, !.mask = mask]
           ts  == [tasks EXCEPT ![t].save = v]
           a   == from.index
           has == from \in TaskId /\ is_sending_to(tasks[a], current_id(tasks, t))
           src == has /\ SrcFault(ts, a, t)
           dst == has /\ DstFault(ts, a, t)
<1>1. /\ Running(t) /\ UNCHANGED regions
      /\ \/ mask /\ tasks[t].notified /\ Return([tasks EXCEPT ![t].notified = FALSE], Same)
         \/ /\ ~(mask /\ tasks[t].notified)
            /\ \/ from = KERNEL /\ Block(ts, t, from, Same)
               \/ from \in TaskId /\ ~Live(tasks, from) /\ Return(tasks, Same)
               \/ /\ from \in TaskId /\ Live(tasks, from)
                  /\ \/ has /\ ~src /\ ~dst /\ Return(Delivered(ts, a, t), Same)
                     \/ dst /\ FaultCaller(FaultIf(src, ts, a))
                     \/ /\ ~dst /\ (has => src)
                        /\ Block(FaultIf(src, ts, a), t, from, HintIf(src, ts, a))
               \/ /\ from = None
                  /\ tasks' = ts
                  /\ kernel' = [at |-> "recv", pos |-> t, hint |-> Same]
                  /\ copied' = NoRegion
                  /\ UNCHANGED current
  BY DEF recv
<1>2. v \in SaveArea /\ v.mask = mask /\ v.buffer = b /\ (t = Supervisor => v.buffer = "ok")
  BY SlicesTyped DEF NoArgs, SaveArea
<1>3. /\ kernel = User /\ kernel.at # "reconcile" /\ current = t /\ is_runnable(tasks[t])
      /\ Table(tasks) /\ NoPair(tasks)
  BY <1>1, RunningFacts
<1> HIDE DEF v
<1>4. /\ Table(ts) /\ Follows(tasks, ts) /\ is_runnable(ts[t])
      /\ ts[t].save = v /\ ts[t].notified = tasks[t].notified
      /\ ts[t].generation = tasks[t].generation
      /\ \A u \in Task : u # t => ts[u] = tasks[u]
  BY <1>2, <1>3, SaveKeeps, SMTT(30)
<1> HIDE DEF ts
<1>5. from \in TaskId => a \in Task
  BY DEF TaskId
<1> HIDE DEF a
<1>6. has => /\ a \in Task /\ ts[a].kind = "Healthy" /\ ts[a].sched = "InSend"
             /\ a # t /\ a # Supervisor
  BY <1>3, <1>4, <1>5 DEF is_sending_to, is_runnable, Table, Sound
<1>7. dst => t # Supervisor
  BY <1>4 DEF DstFault, Table, Sound
<1>8. src \in BOOLEAN /\ dst \in BOOLEAN
  BY DEF SrcFault, DstFault, SenderMalformed
<1>9. CASE Return([tasks EXCEPT ![t].notified = FALSE], Same)
  BY <1>1, <1>9, TakeKeeps
<1>10. CASE from \in TaskId /\ ~Live(tasks, from) /\ Return(tasks, Same)
  BY <1>1, <1>10, NothingKeeps, SMTT(30)
<1>11. CASE ~(mask /\ tasks[t].notified) /\ from = KERNEL /\ Block(ts, t, from, Same)
  <2>1. from \in Peers /\ from \notin TaskId /\ from # None
    BY <1>11, KernelAssumption, SMTT(30) DEF Peers, KERNEL, TaskId, None, Task
  <2>2. \A u \in Task : from \notin {None, current_id(ts, u)}
    BY <2>1, <1>11, KernelAssumption, SMTT(30) DEF KERNEL, current_id, Task
  <2> QED
    BY <1>1, <1>2, <1>3, <1>4, <1>11, <2>1, <2>2, TaskFacts, RecvBlocks
<1>12. CASE has /\ Return(Delivered(ts, a, t), Same)
  BY <1>1, <1>3, <1>4, <1>6, <1>12, ReceivedKeeps
<1>13. CASE /\ ~(mask /\ tasks[t].notified) /\ from = None
            /\ tasks' = ts /\ kernel' = [at |-> "recv", pos |-> t, hint |-> Same]
            /\ copied' = NoRegion /\ UNCHANGED current
  BY <1>1, <1>2, <1>4, <1>13, ScanBegins
<1> DEFINE us == FaultIf(src, ts, a)
           h  == HintIf(src, ts, a)
<1> HIDE DEF src, dst, has
<1>14. ASSUME from \in TaskId
       PROVE  /\ Table(us) /\ Follows(tasks, us)
              /\ src => us[a].kind # "Healthy"
              /\ ~src => us = ts
              /\ \A u \in Task : u \notin {a, Supervisor} => us[u] = ts[u]
              /\ is_runnable(ts[Supervisor]) => is_runnable(us[Supervisor])
              /\ h \in {Same, Other, Supervisor}
              /\ h = Supervisor
                    => is_runnable(us[Supervisor]) /\ ~is_runnable(ts[Supervisor])
  <2>1. src => a # Supervisor
    BY <1>6 DEF src
  <2> QED
    BY <1>4, <1>5, <1>8, <1>14, <2>1, FaultIfKeeps, SMTT(30)
<1> HIDE DEF us, h
<1>15. CASE from \in TaskId /\ dst /\ FaultCaller(us)
  BY <1>1, <1>3, <1>7, <1>14, <1>15, FaultCallerKeeps
<1>16. CASE /\ ~(mask /\ tasks[t].notified) /\ from \in TaskId /\ Live(tasks, from)
            /\ ~dst /\ (has => src) /\ Block(us, t, from, h)
  <2>1. src => a # t
    BY <1>6 DEF src
  <2>2. t # Supervisor => us[t] = ts[t]
    BY <1>14, <1>16, <2>1
  <2>3. is_runnable(us[t])
    BY <1>4, <1>14, <1>16, <2>2
  <2>4. t # Supervisor => ~(us[t].save.mask /\ us[t].notified)
    BY <1>2, <1>4, <1>16, <2>2
  <2>5. \A u \in Task : us[u].generation = tasks[u].generation
    BY <1>14, <1>16 DEF Follows, Calm, SameSuspension
  <2>6. Live(us, from) /\ from \in Peers
    BY <1>5, <1>16, <2>5 DEF Live, current_id, a, Peers
  <2>7. ASSUME NEW u \in Task, from \in {None, current_id(us, u)},
               is_sending_to(us[u], current_id(us, t))
        PROVE  FALSE
    <3>1. from = current_id(us, u)
      BY <1>16, <2>7, KernelAssumption, SMTT(30) DEF TaskId, None, Task
    <3>2. u = a
      BY <3>1 DEF current_id, a
    <3>3. ~src
      BY <1>14, <1>16, <2>7, <3>2 DEF is_sending_to
    <3>4. us = ts /\ ~has
      BY <1>14, <1>16, <3>3
    <3>5. u # t
      BY <2>3, <2>7 DEF is_sending_to, is_runnable
    <3>6. us[u] = tasks[u] /\ current_id(us, t) = current_id(tasks, t)
      BY <1>4, <2>5, <3>4, <3>5 DEF current_id
    <3> QED
      BY <1>16, <2>7, <3>2, <3>4, <3>6 DEF has
  <2>8. h = Supervisor => t # Supervisor /\ is_runnable(us[Supervisor])
    BY <1>4, <1>14, <1>16
  <2> QED
    BY <1>1, <1>3, <1>14, <1>16, <2>3, <2>4, <2>6, <2>7, <2>8, RecvBlocks
<1> QED
  BY <1>1, <1>9, <1>10, <1>11, <1>12, <1>13, <1>15, <1>16 DEF us, h

\* One iteration of the scan of an open receive keeps the invariant.
LEMMA ScanKeeps ==
    ASSUME KInv, recv_scan
    PROVE  StepKeeps
<1> DEFINE t == current
           S == {u \in Task : is_sending_to(tasks[u], current_id(tasks, t))}
           a == priority_scan(kernel.pos, S)
<1>1. /\ kernel.at = "recv" /\ UNCHANGED regions
      /\ \/ S = {} /\ Block(tasks, t, None, kernel.hint)
         \/ S # {} /\ Deliverable(tasks, a, t) /\ Return(Delivered(tasks, a, t), kernel.hint)
         \/ /\ S # {} /\ DstFault(tasks, a, t)
            /\ FaultCaller(FaultIf(SrcFault(tasks, a, t), tasks, a))
         \/ /\ S # {} /\ SrcFault(tasks, a, t) /\ ~DstFault(tasks, a, t)
            /\ tasks' = force_fault(tasks, a, "Other")
            /\ kernel' = [kernel EXCEPT !.pos = a,
                                       !.hint = combine(@, FaultHint(tasks, a))]
            /\ UNCHANGED <<current, copied>>
  BY DEF recv_scan
<1>2. /\ Scanning /\ NoPair(tasks) /\ Table(tasks) /\ Isolated(tasks, regions)
      /\ regions \in Regions /\ CurrentRuns(tasks, current)
      /\ copied \in Region \cup {NoRegion} /\ NoHibernatedCopy
      /\ Configured /\ kernel.hint = Same => Ranked(tasks, current)
  BY <1>1, SMTT(30) DEF KInv, User, Reconciling
<1>3. /\ kernel \in [at : {"recv"}, pos : Task, hint : {Same, Other, Supervisor}]
      /\ t \in Task /\ is_runnable(tasks[t]) /\ Follows(tasks, tasks)
      /\ t # Supervisor => ~(tasks[t].save.mask /\ tasks[t].notified)
      /\ kernel.hint = Supervisor => t # Supervisor /\ is_runnable(tasks[Supervisor])
  BY <1>2, FollowsSelf DEF Scanning, CurrentRuns
<1>4. kernel.pos \in Task /\ kernel.hint \in {Same, Other, Supervisor} /\ kernel.pos \in Int
  BY <1>3, SMTT(30) DEF Task
<1>5. S \in SUBSET Task
  OBVIOUS
<1>6. S # {} => a \in S
  BY <1>4, <1>5, ScanFacts
<1>7. S # {} => /\ a \in Task /\ tasks[a].kind = "Healthy" /\ tasks[a].sched = "InSend"
                /\ a # t /\ a # Supervisor
  BY <1>2, <1>3, <1>6 DEF is_sending_to, is_runnable, Table, Sound
<1>8. S = {} => \A u \in Task : ~is_sending_to(tasks[u], current_id(tasks, t))
  OBVIOUS
<1> HIDE DEF t, S, a
<1>9. t = current
  BY DEF t
<1>10. CASE S = {} /\ Block(tasks, t, None, kernel.hint)
  <2>1. None \in Peers /\ None \notin TaskId
    BY KernelAssumption, SMTT(30) DEF Peers, None, TaskId, Task
  <2> QED
    BY <1>1, <1>2, <1>3, <1>4, <1>8, <1>9, <1>10, <2>1, RecvBlocks, SMTT(30)
<1>11. CASE S # {} /\ Return(Delivered(tasks, a, t), kernel.hint)
  <2> DEFINE vs == Delivered(tasks, a, t)
  <2>1. /\ Table(vs) /\ Follows(tasks, vs) /\ vs[a].sched = "InReply" /\ is_runnable(vs[t])
        /\ \A u \in Task : u \notin {a, t} => vs[u] = tasks[u]
    BY <1>2, <1>3, <1>7, <1>11, DeliveredKeeps, SMTT(30) DEF is_runnable
  <2>2. Return(vs, kernel.hint)
    BY <1>11
  <2> HIDE DEF vs
  <2>3. \A u \in Task : is_runnable(vs[u]) => is_runnable(tasks[u])
    BY <1>3, <2>1 DEF is_runnable
  <2>4. HintOK(vs, kernel.hint)
    <3>1. CASE kernel.hint = Same
      BY <1>2, <1>3, <1>9, <2>1, <2>3, <3>1 DEF HintOK, CurrentRuns, Ranked
    <3>2. CASE kernel.hint = Other
      BY <3>2 DEF HintOK
    <3>3. CASE kernel.hint = Supervisor
      BY <1>3, <1>7, <1>11, <2>1, <3>3, TaskFacts, SupervisorHint
    <3> QED
      BY <1>4, <3>1, <3>2, <3>3
  <2>5. NoPair(vs) /\ Isolated(vs, regions) /\ FaultsKept(tasks, vs) /\ Told(tasks, vs)
    BY <1>2, <2>1, FollowsFacts
  <2> QED
    BY <1>1, <2>1, <2>2, <2>4, <2>5, ReturnKeeps DEF Fits
<1>12. CASE S # {} /\ DstFault(tasks, a, t) /\ FaultCaller(FaultIf(SrcFault(tasks, a, t), tasks, a))
  <2> DEFINE src == SrcFault(tasks, a, t)
             us  == FaultIf(src, tasks, a)
  <2>1. t # Supervisor
    BY <1>2, <1>3, <1>12 DEF DstFault, Table, Sound
  <2>2. src \in BOOLEAN
    BY DEF SrcFault, SenderMalformed
  <2> HIDE DEF src
  <2>3. Table(us) /\ Follows(tasks, us)
    BY <1>2, <1>3, <1>7, <1>12, <2>2, FaultIfKeeps
  <2>4. FaultCaller(us)
    BY <1>12 DEF src
  <2> HIDE DEF us
  <2> QED
    BY <1>1, <1>3, <1>9, <2>1, <2>3, <2>4, FaultCallerKeeps
<1>13. CASE /\ S # {} /\ tasks' = force_fault(tasks, a, "Other")
            /\ kernel' = [kernel EXCEPT !.pos = a, !.hint = combine(@, FaultHint(tasks, a))]
            /\ UNCHANGED <<current, copied>>
  <2> DEFINE vs == force_fault(tasks, a, "Other")
             h  == FaultHint(tasks, a)
  <2>1. /\ Table(vs) /\ Follows(tasks, vs)
        /\ \A u \in Task : u \notin {a, Supervisor} => vs[u] = tasks[u]
        /\ is_runnable(tasks[Supervisor]) => is_runnable(vs[Supervisor])
        /\ h \in {Other, Supervisor}
        /\ h = Supervisor => is_runnable(vs[Supervisor]) /\ ~is_runnable(tasks[Supervisor])
    BY <1>2, <1>3, <1>7, <1>13, FaultHintKeeps
  <2>2. tasks' = vs /\ kernel' = [kernel EXCEPT !.pos = a, !.hint = combine(kernel.hint, h)]
    BY <1>13
  <2> HIDE DEF vs, h
  <2>3. /\ kernel'.at = "recv" /\ kernel'.hint = combine(kernel.hint, h)
        /\ kernel'.pos = a
    BY <1>3, <2>2
  <2>4. /\ combine(kernel.hint, h) \in {Other, Supervisor}
        /\ combine(kernel.hint, h) = Supervisor => Supervisor \in {kernel.hint, h}
    BY <1>4, <2>1, CombineFacts, TaskFacts
  <2>5. is_runnable(vs[t]) /\ (t # Supervisor => vs[t] = tasks[t])
    BY <1>3, <1>7, <1>13, <2>1
  <2>6. Scanning'
    <3>1. kernel' \in [at : {"recv"}, pos : Task, hint : {Same, Other, Supervisor}]
      BY <1>3, <1>7, <1>13, <2>2, <2>4
    <3>2. kernel'.hint = Supervisor => t # Supervisor /\ is_runnable(vs[Supervisor])
      BY <1>3, <2>1, <2>3, <2>4, TaskFacts
    <3> QED
      BY <1>3, <1>9, <1>13, <2>2, <2>5, <3>1, <3>2 DEF Scanning
  <2>7. NoPair(vs) /\ Isolated(vs, regions) /\ FaultsKept(tasks, vs) /\ Told(tasks, vs)
    BY <1>2, <2>1, FollowsFacts
  <2>8. CurrentRuns(vs, t) /\ kernel'.hint # Same
    BY <1>3, <2>3, <2>4, <2>5, TaskFacts, SMTT(30) DEF CurrentRuns
  <2>9. NoHibernatedCopy'
    BY <1>1, <1>2, <1>13 DEF NoHibernatedCopy
  <2>10. KInv'
    BY <1>1, <1>2, <1>9, <1>13, <2>1, <2>2, <2>6, <2>7, <2>8, <2>9 DEF KInv
  <2> QED
    BY <2>2, <2>7, <2>10 DEF StepKeeps
<1> QED
  BY <1>1, <1>10, <1>11, <1>12, <1>13

\* The clients of a task are tasks other than the supervisor.
LEMMA ClientFacts ==
    ASSUME NEW t \in Task, NEW id, id \in Ids(Clients(t))
    PROVE  /\ id \in TaskId /\ id.index \in Task /\ id.index # Supervisor
           /\ t \in Callees[id.index]
  BY KernelAssumption DEF Ids, Clients

\* A client that waits for a reply is not the running task.
LEMMA AwaitsFacts ==
    ASSUME KInv, NEW t \in Task, Running(t), NEW id, id.index \in Task, AwaitsReply(t, id)
    PROVE  /\ id.index # t /\ tasks[id.index].fault = NoFault
           /\ tasks[id.index].sched = "InReply"
  BY RunningFacts DEF AwaitsReply, Waits, is_runnable

\* The fault of another task, with the switch it asks for.
LEMMA FaultOtherKeeps ==
    ASSUME KInv, NEW t \in Task, Running(t), NEW c \in Task, c # Supervisor,
           Return(force_fault(tasks, c, "Other"), FaultHint(tasks, c)), UNCHANGED regions
    PROVE  StepKeeps
<1> DEFINE vs == force_fault(tasks, c, "Other")
           hint == FaultHint(tasks, c)
<1>1. Table(tasks) /\ Follows(tasks, tasks) /\ NoPair(tasks) /\ Isolated(tasks, regions)
  BY RunningFacts
<1>2. /\ Table(vs) /\ Follows(tasks, vs) /\ hint \in {Other, Supervisor}
      /\ hint = Supervisor => is_runnable(vs[Supervisor])
  BY <1>1, FaultHintKeeps
<1>3. Return(vs, hint)
  OBVIOUS
<1> HIDE DEF vs, hint
<1>4. HintOK(vs, hint)
  <2>1. CASE hint = Other
    BY <2>1 DEF HintOK
  <2>2. CASE hint = Supervisor
    BY <1>2, <2>2, SupervisorHint
  <2> QED
    BY <1>2, <2>1, <2>2
<1>5. NoPair(vs) /\ Isolated(vs, regions) /\ FaultsKept(tasks, vs) /\ Told(tasks, vs)
  BY <1>1, <1>2, FollowsFacts
<1> QED
  BY <1>2, <1>3, <1>4, <1>5, ReturnKeeps DEF Fits

\* The fault of another task whose switch is discarded.
LEMMA FaultQuietly ==
    ASSUME KInv, NEW t \in Task, Running(t), t \in KernelCallers \cup ReplyFaulters,
           NEW c \in Task, c # Supervisor, c # t,
           Return(force_fault(tasks, c, "Other"), Same), UNCHANGED regions
    PROVE  StepKeeps
<1> DEFINE vs == force_fault(tasks, c, "Other")
<1>1. /\ Table(tasks) /\ Follows(tasks, tasks) /\ kernel = User /\ current = t
      /\ is_runnable(tasks[t])
  BY RunningFacts
<1>2. /\ Table(vs) /\ Follows(tasks, vs) /\ vs[c].kind # "Healthy"
      /\ \A u \in Task : u \notin {c, Supervisor} => vs[u] = tasks[u]
      /\ is_runnable(tasks[Supervisor]) => is_runnable(vs[Supervisor])
  BY <1>1, FaultHintKeeps
<1>3. Return(vs, Same)
  OBVIOUS
<1> HIDE DEF vs
<1>4. is_runnable(vs[t])
  BY <1>1, <1>2
<1>5. ASSUME Configured, NEW u \in Task, is_runnable(vs[u]), ~is_runnable(tasks[u])
      PROVE  FALSE
  <2>1. t = Supervisor
    BY <1>5 DEF Configured
  <2>2. u # c
    BY <1>2, <1>5 DEF is_runnable
  <2> QED
    BY <1>1, <1>2, <1>5, <2>1, <2>2
<1> QED
  BY <1>1, <1>2, <1>3, <1>4, <1>5, SameKeeps

\* The reply to a suspended client, which is kept.
LEMMA BufferedKeeps ==
    ASSUME NEW ts, Table(ts), NEW c \in Task, NEW from \in TaskId, c # Supervisor,
           ts[c].kind = "Suspended", ts[c].fault = NoFault, ts[c].sched = "InReply"
    PROVE  LET us == set_suspension_reply(ts, c, from) IN
           /\ Table(us) /\ Follows(ts, us)
           /\ us[c].kind = "Suspended" /\ \A u \in Task : u # c => us[u] = ts[u]
<1> DEFINE x == [ts[c] EXCEPT !.suspension_buffer = TRUE, !.owed = TRUE]
           ws == [ts EXCEPT ![c].suspension_buffer = TRUE, ![c].owed = TRUE]
           y == Put(x, "InSuspendedReply", from)
           us == [ts EXCEPT ![c] = y]
<1>1. ts \in [Task -> TaskRecord] /\ Sound(c, ts[c]) /\ ts[c] \in TaskRecord
  BY DEF Table
<1>2. /\ x \in TaskRecord /\ x.kind = ts[c].kind /\ x.fault = ts[c].fault
      /\ SameSuspension(ts[c], x) /\ x.notified = ts[c].notified
      /\ x.suspension_buffer = TRUE
  BY <1>1 DEF SameSuspension, TaskRecord
<1>3. ws = [ts EXCEPT ![c] = x]
  BY <1>1
<1> HIDE DEF x
<1>4. "InSuspendedReply" \in Scheds /\ from \in Peers
  BY DEF Scheds, Peers
<1>5. /\ y \in TaskRecord
      /\ y.sched = "InSuspendedReply" /\ y.peer = from /\ y.kind = x.kind /\ y.fault = x.fault
      /\ SameSuspension(x, y) /\ y.notified = x.notified
      /\ y.suspension_buffer = x.suspension_buffer
  BY <1>2, <1>4, PutFacts, SMTT(30)
<1>6. ws \in [Task -> TaskRecord] /\ ws[c] = x
  BY <1>1, <1>2, <1>3
<1>7. set_suspension_reply(ts, c, from) = set_healthy_state(ws, c, "InSuspendedReply", from)
  BY DEF set_suspension_reply
<1> HIDE DEF ws
<1>8. set_healthy_state(ws, c, "InSuspendedReply", from) = [ws EXCEPT ![c] = y]
  BY <1>2, <1>4, <1>6, SetHealthyState, SMTT(30)
<1> HIDE DEF y
<1>9. [ws EXCEPT ![c] = y] = us
  BY <1>1, <1>3, ExceptTwice
<1>10. Sound(c, y)
  BY <1>1, <1>2, <1>5, FieldTypes DEF Sound, SameSuspension, Fires, can_accept_notification
<1>11. Attached(ts, y) /\ Calm(ts[c], y)
  BY <1>2, <1>5 DEF Attached, Calm, SameSuspension
<1>12. Table(us)
  BY <1>10, <1>11, TableWith DEF Calm, SameSuspension
<1>13. Follows(ts, us)
  <2>1. Follows(ts, ts) /\ y.kind # "Faulted"
    BY <1>2, <1>5, FollowsSelf
  <2> QED
    BY <1>1, <1>11, <2>1, FollowsWith
<1>14. us[c] = y /\ \A u \in Task : u # c => us[u] = ts[u]
  BY <1>1
<1>15. set_suspension_reply(ts, c, from) = us
  BY <1>7, <1>8, <1>9
<1> HIDE DEF us
<1> QED
  BY <1>2, <1>5, <1>12, <1>13, <1>14, <1>15

\* reply keeps the invariant.
LEMMA ReplyKeeps ==
    ASSUME KInv, NEW t \in Task, NEW id \in Ids(Clients(t)), NEW m \in SlicesOf(t),
           reply(t, id, m)
    PROVE  StepKeeps
<1> DEFINE c        == id.index
           response == tasks[c].save.response
           src      == m = "usage" \/ (m = "memory" /\ response # "usage")
           dst      == /\ m # "usage"
                       /\ response = "usage" \/ (response = "memory" /\ tasks[c].kind = "Healthy")
<1>1. /\ Running(t) /\ UNCHANGED regions
      /\ \/ ~AwaitsReply(t, id) /\ Return(tasks, Same)
         \/ AwaitsReply(t, id) /\ src /\ FaultCaller(FaultIf(dst, tasks, c))
         \/ /\ AwaitsReply(t, id) /\ ~src /\ dst
            /\ Return(force_fault(tasks, c, "Other"), FaultHint(tasks, c))
         \/ /\ AwaitsReply(t, id) /\ ~src /\ ~dst
            /\ Return(Replied(tasks, c, current_id(tasks, t)), Same)
  BY DEF reply
<1>2. id \in TaskId /\ c \in Task /\ c # Supervisor /\ t \in Callees[c]
  BY ClientFacts
<1>3. src => t # Supervisor
  BY SlicesTyped
<1>4. dst \in BOOLEAN
  OBVIOUS
<1>5. /\ kernel = User /\ kernel.at # "reconcile" /\ current = t /\ is_runnable(tasks[t])
      /\ Table(tasks) /\ Follows(tasks, tasks)
  BY <1>1, RunningFacts
<1>6. AwaitsReply(t, id) => c # t /\ tasks[c].fault = NoFault /\ tasks[c].sched = "InReply"
  BY <1>1, <1>2, AwaitsFacts
<1> HIDE DEF src, dst, c, response
<1>7. CASE ~AwaitsReply(t, id) /\ Return(tasks, Same)
  BY <1>1, <1>7, NothingKeeps, SMTT(30)
<1>8. CASE src /\ FaultCaller(FaultIf(dst, tasks, c))
  <2> DEFINE us == FaultIf(dst, tasks, c)
  <2>1. Table(us) /\ Follows(tasks, us)
    BY <1>2, <1>4, <1>5, FaultIfKeeps
  <2>2. FaultCaller(us)
    BY <1>8, SMTT(30)
  <2> HIDE DEF us
  <2> QED
    BY <1>1, <1>3, <1>5, <1>8, <2>1, <2>2, FaultCallerKeeps
<1>9. CASE Return(force_fault(tasks, c, "Other"), FaultHint(tasks, c))
  BY <1>1, <1>2, <1>9, FaultOtherKeeps
<1>10. CASE AwaitsReply(t, id) /\ Return(Replied(tasks, c, current_id(tasks, t)), Same)
  <2> DEFINE from == current_id(tasks, t)
             vs   == Replied(tasks, c, from)
  <2>1. from \in TaskId
    BY <1>5, SMTT(30) DEF TaskId, current_id, Table, TaskRecord
  <2>2. /\ Table(vs) /\ Follows(tasks, vs) /\ \A u \in Task : u # c => vs[u] = tasks[u]
    <3>1. CASE tasks[c].kind = "Suspended"
      <4>1. vs = set_suspension_reply(tasks, c, from)
        BY <3>1 DEF Replied
      <4> HIDE DEF vs, from
      <4> QED
        BY <1>2, <1>5, <1>6, <1>10, <2>1, <3>1, <4>1, BufferedKeeps, SMTT(30)
    <3>2. CASE tasks[c].kind # "Suspended"
      <4>1. vs = Runnable(tasks, c)
        BY <3>2 DEF Replied
      <4> HIDE DEF vs, from
      <4> QED
        BY <1>2, <1>5, <1>6, <1>10, <4>1, RunnableKeeps, SMTT(30)
    <3> QED
      BY <3>1, <3>2
  <2>3. Return(vs, Same)
    BY <1>10
  <2> HIDE DEF vs
  <2>4. is_runnable(vs[t])
    BY <1>5, <1>6, <1>10, <2>2
  <2>5. ASSUME Configured, NEW u \in Task, is_runnable(vs[u]), ~is_runnable(tasks[u])
        PROVE  Priority[t] <= Priority[u]
    <3>1. u = c
      BY <2>2, <2>5
    <3> QED
      BY <1>2, <2>5, <3>1 DEF Configured
  <2> QED
    BY <1>1, <1>5, <2>2, <2>3, <2>4, <2>5, SameKeeps
<1> QED
  BY <1>1, <1>7, <1>8, <1>9, <1>10

\* reply_fault keeps the invariant.
LEMMA ReplyFaultKeeps ==
    ASSUME KInv, NEW t \in Task, NEW id \in Ids(Clients(t)), reply_fault(t, id)
    PROVE  StepKeeps
<1>1. /\ Running(t) /\ t \in ReplyFaulters /\ UNCHANGED regions
      /\ \/ ~AwaitsReply(t, id) /\ Return(tasks, Same)
         \/ AwaitsReply(t, id) /\ Return(force_fault(tasks, id.index, "Other"), Same)
  BY DEF reply_fault
<1>2. id.index \in Task /\ id.index # Supervisor
  BY ClientFacts
<1>3. CASE Return(tasks, Same)
  BY <1>1, <1>3, NothingKeeps
<1>4. CASE AwaitsReply(t, id) /\ Return(force_fault(tasks, id.index, "Other"), Same)
  <2>1. id.index # t
    BY <1>1, <1>2, <1>4, AwaitsFacts
  <2> QED
    BY <1>1, <1>2, <1>4, <2>1, FaultQuietly
<1> QED
  BY <1>1, <1>3, <1>4

\* fault_task keeps the invariant.
LEMMA FaultTaskKeeps ==
    ASSUME KInv, NEW t \in Task, NEW i \in Task, fault_task(t, i)
    PROVE  StepKeeps
  BY FaultQuietly DEF fault_task

\* panic keeps the invariant.
LEMMA PanicKeeps ==
    ASSUME KInv, NEW t \in Task, panic(t)
    PROVE  StepKeeps
<1>1. Running(t) /\ t # Supervisor /\ FaultCaller(tasks) /\ UNCHANGED regions
  BY DEF panic
<1> QED
  BY <1>1, RunningFacts, FaultCallerKeeps

\* A borrow keeps the invariant, and touches no hibernated region.
LEMMA BorrowKeeps ==
    ASSUME KInv, NEW t \in Task, NEW id \in Ids(Clients(t)), NEW b \in SlicesOf(t),
           NEW lease \in Region \cup {"none", "memory", "table", "range"},
           t = Supervisor => lease # "range",
           borrow(t, id, b, lease)
    PROVE  StepKeeps
<1> DEFINE c   == id.index
           src == \/ b = "usage"
                  \/ AwaitsReply(t, id) /\ (lease = "range" \/ (lease # "table" /\ b = "memory"))
           dst == b # "usage" /\ AwaitsReply(t, id) /\ lease \in {"table", "memory"}
<1>1. /\ Running(t) /\ (lease \in Region => c \in Overlaps[lease]) /\ UNCHANGED regions
      /\ \/ src /\ FaultCaller(FaultIf(dst, tasks, c))
         \/ ~src /\ dst /\ Return(force_fault(tasks, c, "Other"), FaultHint(tasks, c))
         \/ /\ ~src /\ ~dst
            /\ tasks' = tasks /\ current' = current /\ kernel' = User
            /\ copied' = IF AwaitsReply(t, id) /\ ~Hibernated(tasks[c], lease)
                         THEN lease ELSE NoRegion
  BY DEF borrow
<1>2. id \in TaskId /\ c \in Task /\ c # Supervisor
  BY ClientFacts
<1>3. src => t # Supervisor
  BY SlicesTyped
<1>4. dst \in BOOLEAN
  BY DEF AwaitsReply, Live, Waits
<1>5. /\ kernel = User /\ kernel.at # "reconcile" /\ current = t
      /\ Table(tasks) /\ Follows(tasks, tasks) /\ NoPair(tasks) /\ Isolated(tasks, regions)
  BY <1>1, RunningFacts
<1>6. ~src /\ ~dst /\ AwaitsReply(t, id) => lease \in Region \cup {NoRegion}
  BY SMTT(30) DEF NoRegion
<1> HIDE DEF src, dst, c
<1>7. CASE src /\ FaultCaller(FaultIf(dst, tasks, c))
  <2> DEFINE us == FaultIf(dst, tasks, c)
  <2>1. Table(us) /\ Follows(tasks, us)
    BY <1>2, <1>4, <1>5, FaultIfKeeps
  <2>2. FaultCaller(us)
    BY <1>7, SMTT(30)
  <2> HIDE DEF us
  <2> QED
    BY <1>1, <1>3, <1>5, <1>7, <2>1, <2>2, FaultCallerKeeps, SMTT(30)
<1>8. CASE Return(force_fault(tasks, c, "Other"), FaultHint(tasks, c))
  BY <1>1, <1>2, <1>8, FaultOtherKeeps
<1>9. CASE /\ ~src /\ ~dst
           /\ tasks' = tasks /\ current' = current /\ kernel' = User
           /\ copied' = IF AwaitsReply(t, id) /\ ~Hibernated(tasks[c], lease)
                        THEN lease ELSE NoRegion
  <2>1. copied' \in Region \cup {NoRegion}
    BY <1>6, <1>9, SMTT(30)
  <2>2. ASSUME copied' \in Region PROVE ~regions[copied'].active
    <3>1. copied' = lease /\ ~Hibernated(tasks[c], lease)
      BY <1>9, <2>2, TaskFacts
    <3>2. c \in Overlaps[lease] /\ lease \notin tasks[c].hibernated
      BY <1>1, <2>2, <3>1, SMTT(30) DEF Hibernated
    <3>3. tasks[c].hibernated = {r \in Region : c \in Overlaps[r] /\ regions[r].active}
      BY <1>2, <1>5 DEF Isolated
    <3> QED
      BY <2>2, <3>1, <3>2, <3>3
  <2>3. NoHibernatedCopy'
    BY <1>1, <2>2 DEF NoHibernatedCopy
  <2>4. FaultsKept(tasks, tasks) /\ Told(tasks, tasks)
    BY <1>5, FollowsFacts
  <2>5. KInv'
    BY <1>1, <1>5, <1>9, <2>1, <2>3 DEF KInv
  <2> QED
    BY <1>9, <2>4, <2>5 DEF StepKeeps
<1> QED
  BY <1>1, <1>7, <1>8, <1>9

\* The post system call keeps the invariant.
LEMMA PostCallKeeps ==
    ASSUME KInv, NEW t \in Task, NEW id \in TaskId, sys_post(t, id)
    PROVE  StepKeeps
<1> DEFINE c  == id.index
           vs == post(tasks, c)
           woken == Wakes(tasks[c]) /\ Priority[c] < Priority[t]
           hint  == IF woken THEN c ELSE Same
<1>1. /\ Running(t) /\ UNCHANGED regions
      /\ \/ ~Live(tasks, id) /\ Return(tasks, Same)
         \/ Live(tasks, id) /\ Return(vs, hint)
  BY DEF sys_post
<1>2. c \in Task
  BY DEF TaskId
<1>3. /\ kernel = User /\ kernel.at # "reconcile" /\ current = t /\ is_runnable(tasks[t])
      /\ Table(tasks) /\ Follows(tasks, tasks) /\ NoPair(tasks) /\ Isolated(tasks, regions)
      /\ Configured => Ranked(tasks, t)
  BY <1>1, RunningFacts
<1>4. /\ Table(vs) /\ Follows(tasks, vs)
      /\ vs[c] = Posted(tasks[c]) /\ \A u \in Task : u # c => vs[u] = tasks[u]
  BY <1>2, <1>3, PostKeeps, SMTT(30)
<1>5. /\ is_runnable(tasks[c]) => is_runnable(vs[c])
      /\ is_runnable(vs[c]) /\ ~is_runnable(tasks[c]) => Wakes(tasks[c])
      /\ Wakes(tasks[c]) => is_runnable(vs[c])
  BY <1>2, <1>3, <1>4, PostedSound, SMTT(30) DEF Table
<1>6. Priority[c] \in Nat /\ Priority[t] \in Nat /\ \A u \in Task : Priority[u] \in Nat
  BY <1>2, KernelAssumption
<1> HIDE DEF vs, c
<1>7. CASE Return(tasks, Same)
  BY <1>1, <1>7, NothingKeeps
<1>8. CASE Return(vs, hint) /\ woken
  <2>1. Return(vs, c)
    BY <1>8
  <2>2. Configured => Ranked(vs, c)
    <3> SUFFICES ASSUME Configured, NEW u \in Task, is_runnable(vs[u])
                 PROVE  Priority[c] <= Priority[u]
      BY <1>2 DEF Ranked
    <3>1. u # c => Priority[t] <= Priority[u]
      BY <1>3, <1>4 DEF Ranked
    <3> QED
      BY <1>6, <1>8, <3>1, SMTT(30)
  <2>3. HintOK(vs, c)
    BY <1>2, <1>5, <1>8, <2>2, SMTT(30) DEF HintOK
  <2>4. NoPair(vs) /\ Isolated(vs, regions) /\ FaultsKept(tasks, vs) /\ Told(tasks, vs)
    BY <1>3, <1>4, FollowsFacts
  <2> QED
    BY <1>1, <1>4, <2>1, <2>3, <2>4, ReturnKeeps DEF Fits
<1>9. CASE Return(vs, hint) /\ ~woken
  <2>1. Return(vs, Same)
    BY <1>9, SMTT(30)
  <2>2. is_runnable(vs[t])
    BY <1>3, <1>4, <1>5
  <2>3. \A u \in Task : is_runnable(vs[u]) /\ ~is_runnable(tasks[u]) => Priority[t] <= Priority[u]
    BY <1>4, <1>5, <1>6, <1>9, SMTT(30)
  <2> QED
    BY <1>1, <1>3, <1>4, <2>1, <2>2, <2>3, SameKeeps
<1> QED
  BY <1>1, <1>7, <1>8, <1>9

\* New records for many tasks: the table stays sound.
LEMMA TableAll ==
    ASSUME NEW ts, Table(ts), NEW us,
           us = [u \in Task |-> us[u]],
           \A u \in Task : /\ Sound(u, us[u]) /\ us[u].generation = ts[u].generation
                           /\ Attached(ts, us[u])
    PROVE  Table(us)
<1>1. us \in [Task -> TaskRecord]
  BY DEF Sound
<1>2. ASSUME NEW x, Attached(ts, x) PROVE Attached(us, x)
  <2> SUFFICES ASSUME x.fault = NoFault, x.sched \in {"InSend", "InReply", "InRecv"},
                      x.peer \in TaskId
               PROVE  Live(us, x.peer)
    BY DEF Attached
  <2>1. Live(ts, x.peer)
    BY <1>2 DEF Attached
  <2>2. x.peer.index \in Task
    BY DEF TaskId
  <2> QED
    BY <2>1, <2>2 DEF Live, current_id
<1>3. \A u \in Task : Sound(u, us[u]) /\ Attached(us, us[u])
  BY <1>2
<1> QED
  BY <1>1, <1>3 DEF Table

\* An interrupt that notifies the tasks of S keeps the invariant.
LEMMA InterruptKeeps ==
    ASSUME KInv, NEW S \in SUBSET Task, Interrupt(S)
    PROVE  StepKeeps
<1> DEFINE us   == [t \in Task |-> IF t \in S THEN post(tasks, t)[t] ELSE tasks[t]]
           hint == IF \E t \in S : Wakes(tasks[t]) THEN Other ELSE Same
<1>1. kernel = User /\ Return(us, hint) /\ UNCHANGED regions
  BY DEF Interrupt
<1>2. /\ Table(tasks) /\ NoPair(tasks) /\ Isolated(tasks, regions)
      /\ current \in Task => is_runnable(tasks[current])
  BY <1>1 DEF KInv, User, Scanning, Reconciling, CurrentRuns
<1>3. us = [u \in Task |-> us[u]]
  OBVIOUS
<1>4. ASSUME NEW u \in Task PROVE us[u] \in {Posted(tasks[u]), tasks[u]} /\ (u \notin S => us[u] = tasks[u])
  <2>1. post(tasks, u) = [tasks EXCEPT ![u] = Posted(tasks[u])]
    BY <1>2, PostIs DEF Table
  <2>2. post(tasks, u)[u] = Posted(tasks[u])
    BY <1>2, <2>1 DEF Table
  <2> QED
    BY <2>2
<1> HIDE DEF us
<1>5. ASSUME NEW u \in Task
      PROVE  /\ Sound(u, us[u]) /\ Calm(tasks[u], us[u]) /\ Idles(tasks[u], us[u])
             /\ us[u].kind = tasks[u].kind
             /\ is_runnable(tasks[u]) => is_runnable(us[u])
             /\ is_runnable(us[u]) /\ ~is_runnable(tasks[u]) => Wakes(tasks[u])
             /\ Fires(us[u]) => Fires(tasks[u])
  <2>1. Sound(u, tasks[u])
    BY <1>2 DEF Table
  <2>2. CASE us[u] = tasks[u]
    BY <2>1, <2>2 DEF Calm, Idles, SameSuspension
  <2>3. CASE us[u] = Posted(tasks[u])
    BY <2>1, <2>3, PostedSound, SMTT(30)
  <2> QED
    BY <1>4, <2>2, <2>3
<1>6. Table(us)
  <2>1. \A u \in Task : Attached(tasks, us[u])
    BY <1>2, <1>5, IdlesAttached DEF Table
  <2>2. \A u \in Task : us[u].generation = tasks[u].generation
    BY <1>5, SMTT(30) DEF Calm, SameSuspension
  <2> QED
    BY <1>2, <1>3, <1>5, <2>1, <2>2, TableAll
<1>7. Follows(tasks, us)
  BY <1>5, TaskFacts DEF Follows, Told
<1>8. CASE \E t \in S : Wakes(tasks[t])
  <2>1. Return(us, Other)
    BY <1>1, <1>8, SMTT(30)
  <2>2. NoPair(us) /\ Isolated(us, regions) /\ FaultsKept(tasks, us) /\ Told(tasks, us)
    BY <1>2, <1>7, FollowsFacts
  <2>3. Fits(us, Other)
    BY <1>6, <2>2 DEF Fits, HintOK
  <2> QED
    BY <1>1, <2>1, <2>3, ReturnKeeps
<1>9. CASE ~ \E t \in S : Wakes(tasks[t])
  <2>1. Return(us, Same)
    BY <1>1, <1>9
  <2>2. \A u \in Task : is_runnable(us[u]) => is_runnable(tasks[u])
    BY <1>4, <1>5, <1>9
  <2>3. current \in Task => is_runnable(us[current])
    BY <1>2, <1>5
  <2> QED
    BY <1>1, <1>6, <1>7, <2>1, <2>2, <2>3, SameKeeps
<1> QED
  BY <1>8, <1>9

-----------------------------------------------------------------------------
(***************************************************************************)
(* Restarts                                                                *)
(***************************************************************************)
\* The next generation is another one.
LEMMA NextGeneration ==
    ASSUME NEW g \in 0..(Generations - 1)
    PROVE  /\ (g + 1) % Generations \in 0..(Generations - 1)
           /\ (g + 1) % Generations # g
<1>1. Generations \in Nat \ {0, 1} /\ g + 1 \in Int
  BY KernelAssumption, SMTT(30)
<1> DEFINE G == Generations
           r == (g + 1) % G
           q == (g + 1) \div G
<1>2. r \in 0..(G - 1)
  BY <1>1, ModIsNat
<1>3. g + 1 = G * q + r /\ q \in Int
  BY <1>1, SMTT(30)
<1>4. r # g
  <2> SUFFICES ASSUME r = g PROVE FALSE
    OBVIOUS
  <2>1. G * q = 1
    BY <1>1, <1>2, <1>3, SMTT(30)
  <2> HIDE DEF r, q
  <2>2. CASE q <= 0
    <3>1. G * q <= 0
      BY <1>1, <1>3, <2>2, SMTT(30)
    <3> QED
      BY <2>1, <3>1, SMTT(30)
  <2>3. CASE q >= 1
    <3>1. G * q >= G
      BY <1>1, <1>3, <2>3, SMTT(30)
    <3> QED
      BY <1>1, <2>1, <3>1, SMTT(30)
  <2> QED
    BY <1>3, <2>2, <2>3, SMTT(30)
<1> QED
  BY <1>2, <1>4

\* What a restart makes of a task's record.
LEMMA ReinitializeFacts ==
    ASSUME NEW x \in TaskRecord, NEW start \in BOOLEAN
    PROVE  LET y == reinitialize(x, start) IN
           /\ y \in TaskRecord
           /\ y.kind = "Healthy" /\ y.sched = IF start THEN "Runnable" ELSE "Stopped"
           /\ y.fault = NoFault /\ y.hibernated = {} /\ y.debug = FALSE
           /\ y.generation # x.generation
           /\ y.suspension_buffer = x.suspension_buffer /\ y.owed = FALSE
<1> DEFINE s == IF start THEN "Runnable" ELSE "Stopped"
           g == (x.generation + 1) % Generations
           x1 == [x EXCEPT !.kind = "Healthy", !.sched = s, !.peer = None, !.fault = NoFault]
           x2 == [x1 EXCEPT !.hibernated = {}, !.debug = FALSE, !.generation = g]
           x3 == [x2 EXCEPT !.notified = FALSE, !.save = NoArgs, !.owed = FALSE]
<1>1. g \in 0..(Generations - 1) /\ g # x.generation
  BY FieldTypes, NextGeneration
<1>2. s \in Scheds /\ None \in Peers /\ "Healthy" \in Kinds /\ NoFault \in Faults
  BY DEF Scheds, Peers, Kinds, Faults
<1>3. reinitialize(x, start) = x3
  BY DEF reinitialize
<1> HIDE DEF s, g
<1>4. /\ x1 \in TaskRecord /\ x1.kind = "Healthy" /\ x1.sched = s /\ x1.fault = NoFault
      /\ x1.generation = x.generation /\ x1.suspension_buffer = x.suspension_buffer
  BY <1>2 DEF TaskRecord, Kinds, Scheds, Peers, Faults
<1> HIDE DEF x1
<1>5. /\ x2 \in TaskRecord /\ x2.kind = x1.kind /\ x2.sched = x1.sched /\ x2.fault = x1.fault
      /\ x2.hibernated = {} /\ x2.debug = FALSE /\ x2.generation = g
      /\ x2.suspension_buffer = x1.suspension_buffer
  BY <1>1, <1>4 DEF TaskRecord
<1> HIDE DEF x2
<1>6. /\ x3 \in TaskRecord /\ x3.kind = x2.kind /\ x3.sched = x2.sched /\ x3.fault = x2.fault
      /\ x3.hibernated = x2.hibernated /\ x3.debug = x2.debug
      /\ x3.generation = x2.generation /\ x3.suspension_buffer = x2.suspension_buffer
      /\ x3.owed = FALSE
  BY <1>5, NoArgsTyped DEF TaskRecord
<1> HIDE DEF x3
<1> QED
  BY <1>1, <1>3, <1>4, <1>5, <1>6 DEF s

\* reinitialize leaves a record that is sound.
LEMMA ReinitializeSound ==
    ASSUME NEW u, NEW x, Sound(u, x), x.kind # "Suspended", u # Supervisor, NEW start \in BOOLEAN
    PROVE  LET y == reinitialize(x, start) IN Sound(u, y) /\ y.hibernated = x.hibernated
<1> DEFINE y == reinitialize(x, start)
<1>1. x \in TaskRecord
  BY DEF Sound
<1>2. /\ y \in TaskRecord
      /\ y.kind = "Healthy" /\ y.sched = IF start THEN "Runnable" ELSE "Stopped"
      /\ y.fault = NoFault /\ y.hibernated = {} /\ y.debug = FALSE
      /\ y.suspension_buffer = x.suspension_buffer /\ y.owed = FALSE
  BY <1>1, ReinitializeFacts
<1> HIDE DEF y
<1>3. ~x.suspension_buffer /\ x.hibernated = {}
  BY <1>1, FieldTypes DEF Sound
<1>4. y.sched \in {"Runnable", "Stopped"}
  BY <1>2
<1>5. Sound(u, y)
  BY <1>2, <1>3, <1>4 DEF Sound, Fires, can_accept_notification
<1> QED
  BY <1>2, <1>3, <1>5 DEF y

\* reinit_task keeps the invariant: it unblocks those that wait for the old incarnation.
LEMMA ReinitKeeps ==
    ASSUME KInv, NEW t \in Task, NEW i \in Task, NEW start \in BOOLEAN, reinit_task(t, i, start)
    PROVE  StepKeeps
<1> DEFINE old  == current_id(tasks, i)
           us   == [u \in Task |->
                      CASE u = i -> reinitialize(tasks[u], start)
                        [] u \notin {t, i} /\ WaitsFor(tasks[u], old) -> Runnable(tasks, u)[u]
                        [] OTHER -> tasks[u]]
           hint == IF i = t /\ ~start THEN Other ELSE Same
<1>1. /\ Running(t) /\ t \in KernelCallers /\ i # Supervisor /\ UNCHANGED regions
      /\ \/ tasks[i].kind = "Suspended" /\ Return(tasks, Same)
         \/ tasks[i].kind # "Suspended" /\ Return(us, hint)
  BY DEF reinit_task
<1>2. /\ current = t /\ is_runnable(tasks[t]) /\ Table(tasks) /\ NoPair(tasks)
      /\ Isolated(tasks, regions)
  BY <1>1, RunningFacts, SMTT(30)
<1>3. CASE Return(tasks, Same)
  BY <1>1, <1>3, NothingKeeps
<1>4. CASE tasks[i].kind # "Suspended" /\ Return(us, hint)
  <2> DEFINE Freed(u) == u \notin {t, i} /\ WaitsFor(tasks[u], old)
  <2>1. us \in [Task -> {us[u] : u \in Task}] /\ us = [u \in Task |-> us[u]]
    OBVIOUS
  <2>2. us[i] = reinitialize(tasks[i], start)
    OBVIOUS
  <2>3. \A u \in Task : u # i /\ ~Freed(u) => us[u] = tasks[u]
    OBVIOUS
  <2>4. \A u \in Task : Freed(u) => us[u] = Runnable(tasks, u)[u]
    OBVIOUS
  <2> HIDE DEF us
  <2>5. /\ Sound(i, us[i]) /\ us[i].hibernated = tasks[i].hibernated
        /\ us[i].kind = "Healthy" /\ us[i].sched = IF start THEN "Runnable" ELSE "Stopped"
        /\ us[i].generation # tasks[i].generation
    <3> DEFINE x == tasks[i]
               y == reinitialize(x, start)
    <3>1. Sound(i, x) /\ x \in TaskRecord /\ x.kind # "Suspended"
      BY <1>2, <1>4 DEF Table
    <3> HIDE DEF x
    <3>2. Sound(i, y) /\ y.hibernated = x.hibernated
      BY <1>1, <3>1, ReinitializeSound
    <3>3. /\ y.kind = "Healthy" /\ y.sched = IF start THEN "Runnable" ELSE "Stopped"
          /\ y.generation # x.generation
      BY <3>1, ReinitializeFacts
    <3>4. us[i] = y
      BY <2>2 DEF x
    <3> HIDE DEF y
    <3> QED
      BY <3>2, <3>3, <3>4 DEF x
  <2>6. ASSUME NEW u \in Task, Freed(u)
        PROVE  /\ Sound(u, us[u]) /\ Calm(tasks[u], us[u]) /\ us[u].sched = "Runnable"
               /\ us[u].kind = tasks[u].kind
    <3>1. tasks[u].fault = NoFault /\ tasks[u].sched # "InSuspendedReply"
      BY <2>6 DEF WaitsFor, Waits
    <3> DEFINE vs == Runnable(tasks, u)
    <3>2. Follows(tasks, tasks)
      BY FollowsSelf
    <3>3. /\ Table(vs) /\ Follows(tasks, vs)
          /\ vs[u].sched = "Runnable" /\ vs[u].kind = tasks[u].kind
      BY <1>2, <3>1, <3>2, RunnableKeeps, SMTT(30)
    <3> HIDE DEF vs
    <3> QED
      BY <2>4, <2>6, <3>3 DEF Table, Follows, vs
  <2> HIDE DEF Freed
  <2>7. \A u \in Task : u # i => us[u].generation = tasks[u].generation
    BY <2>3, <2>6 DEF Calm, SameSuspension
  <2>8. ASSUME NEW u \in Task PROVE Sound(u, us[u])
    BY <1>2, <2>3, <2>5, <2>6 DEF Table
  <2>9. ASSUME NEW u \in Task PROVE Attached(us, us[u])
    <3>1. CASE u = i \/ Freed(u)
      BY <2>5, <2>6, <3>1 DEF Attached
    <3>2. CASE u # i /\ ~Freed(u)
      <4>1. us[u] = tasks[u]
        BY <2>3, <3>2
      <4> SUFFICES ASSUME tasks[u].fault = NoFault, tasks[u].peer \in TaskId,
                          tasks[u].sched \in {"InSend", "InReply", "InRecv"}
                   PROVE  Live(us, tasks[u].peer)
        BY <4>1 DEF Attached
      <4>2. Live(tasks, tasks[u].peer) /\ tasks[u].peer.index \in Task
        BY <1>2 DEF Table, Attached, TaskId
      <4>3. u # t
        BY <1>2 DEF is_runnable
      <4>4. tasks[u].peer # old
        BY <3>2, <4>3 DEF Freed, WaitsFor, Waits
      <4>5. tasks[u].peer.index # i
        BY <4>2, <4>4 DEF Live
      <4> QED
        BY <2>7, <4>2, <4>5 DEF Live, current_id
    <3> QED
      BY <3>1, <3>2
  <2>10. Table(us)
    <3>1. us \in [Task -> TaskRecord]
      BY <2>1, <2>8 DEF Sound
    <3> QED
      BY <2>8, <2>9, <3>1, SMTT(30) DEF Table
  <2>11. NoPair(us)
    <3> SUFFICES ASSUME NEW a \in Task, NEW b \in Task, Pair(us, a, b) PROVE FALSE
      BY DEF NoPair
    <3>1. a # i /\ ~Freed(a)
      BY <2>5, <2>6 DEF Pair, is_sending_to
    <3>2. b # i /\ ~Freed(b)
      BY <2>5, <2>6 DEF Pair, can_accept_message_from
    <3>3. us[a] = tasks[a] /\ us[b] = tasks[b]
      BY <2>3, <3>1, <3>2
    <3>4. Pair(tasks, a, b)
      BY <3>3 DEF Pair, current_id
    <3> QED
      BY <1>2, <3>4 DEF NoPair
  <2>12. Isolated(us, regions)
    <3>1. \A u \in Task : us[u].hibernated = tasks[u].hibernated
      BY <2>3, <2>5, <2>6 DEF Calm, SameSuspension
    <3> QED
      BY <1>2, <3>1 DEF Isolated
  <2>13. FaultsKept(tasks, us) /\ Told(tasks, us)
    BY <2>3, <2>5, <2>6 DEF FaultsKept, Told, Calm
  <2>14. HintOK(us, hint)
    <3>1. CASE i = t /\ ~start
      BY <3>1 DEF HintOK
    <3>2. CASE ~(i = t /\ ~start)
      <4>1. t = i => is_runnable(us[t])
        BY <2>5, <3>2 DEF is_runnable
      <4>2. t # i => us[t] = tasks[t]
        BY <2>3 DEF Freed
      <4>3. CurrentRuns(us, current)
        BY <1>2, <4>1, <4>2 DEF CurrentRuns
      <4>4. Configured => Ranked(us, current)
        BY <1>1, <1>2 DEF Configured, Ranked
      <4> QED
        BY <3>2, <4>3, <4>4 DEF HintOK
    <3> QED
      BY <3>1, <3>2
  <2> HIDE DEF hint
  <2>15. Return(us, hint)
    BY <1>4
  <2> QED
    BY <1>1, <2>10, <2>11, <2>12, <2>13, <2>14, <2>15, ReturnKeeps DEF Fits
<1> QED
  BY <1>1, <1>3, <1>4

-----------------------------------------------------------------------------
(***************************************************************************)
(* Suspensions                                                             *)
(***************************************************************************)
\* What a suspension makes of a task's record.
LEMMA SuspendedSound ==
    ASSUME NEW u, NEW x, Sound(u, x), u # Supervisor, NEW y \in TaskRecord,
           y.kind = "Suspended", y.hibernated # {} \/ y.debug,
           y.sched = x.sched, y.peer = x.peer, y.fault = x.fault, y.notified = x.notified,
           y.save = x.save, y.suspension_buffer = x.suspension_buffer, y.owed = x.owed
    PROVE  Sound(u, y) /\ Idles(x, y)
<1>1. Idles(x, y)
  BY DEF Idles
<1>2. Sound(u, y)
  BY FieldTypes DEF Sound, Fires, can_accept_notification
<1> QED
  BY <1>1, <1>2

\* The hibernation of a region leaves a record that is sound.
LEMMA SuspendSound ==
    ASSUME NEW u, NEW x, Sound(u, x), u # Supervisor, NEW r \in Region
    PROVE  LET y == Suspend(x, r) IN
           /\ Sound(u, y) /\ Idles(x, y)
           /\ y.kind = "Suspended" /\ y.hibernated = x.hibernated \cup {r}
           /\ y.generation = x.generation /\ y.fault = x.fault
<1>1. x \in TaskRecord /\ x.hibernated \in SUBSET Region
  BY FieldTypes DEF Sound
<1> DEFINE y == Suspend(x, r)
           h == x.hibernated \cup {r}
<1>2. h \in SUBSET Region
  BY <1>1
<1>3. /\ y \in TaskRecord /\ y.kind = "Suspended" /\ y.hibernated = h
      /\ y.sched = x.sched /\ y.peer = x.peer /\ y.fault = x.fault /\ y.notified = x.notified
      /\ y.save = x.save /\ y.suspension_buffer = x.suspension_buffer /\ y.owed = x.owed
      /\ y.generation = x.generation
  <2>1. CASE x.kind = "Suspended"
    <3>1. y = [x EXCEPT !.hibernated = h]
      BY <2>1 DEF Suspend
    <3> HIDE DEF y, h
    <3> QED
      BY <1>1, <1>2, <2>1, <3>1 DEF TaskRecord
  <2>2. CASE x.kind # "Suspended"
    <3>1. y = [x EXCEPT !.kind = "Suspended", !.hibernated = {r}, !.debug = FALSE]
      BY <2>2 DEF Suspend
    <3>2. x.hibernated = {}
      BY <2>2 DEF Sound
    <3>3. h = {r}
      BY <3>2
    <3> HIDE DEF y, h
    <3> QED
      BY <1>1, <1>2, <2>2, <3>1, <3>3 DEF TaskRecord
  <2> QED
    BY <2>1, <2>2
<1>4. h # {}
  OBVIOUS
<1> HIDE DEF y, h
<1>5. Sound(u, y) /\ Idles(x, y)
  BY <1>3, <1>4, SuspendedSound
<1> QED
  BY <1>3, <1>5 DEF y, h

\* Hibernation of a region suspends the tasks with memory in it.
LEMMA HibernateKeeps ==
    ASSUME KInv, NEW r \in Region, hibernate_region(r)
    PROVE  StepKeeps
<1> DEFINE us == [u \in Task |-> IF u \in Overlaps[r] THEN Suspend(tasks[u], r) ELSE tasks[u]]
           rs == [regions EXCEPT ![r].next_generation = @ + 1, ![r].active = TRUE]
<1>1. /\ Running(Supervisor)
      /\ \/ Return(tasks, Same) /\ UNCHANGED regions
         \/ CanHibernate(r) /\ Return(us, Same) /\ regions' = rs
  BY DEF hibernate_region
<1>2. /\ current = Supervisor /\ is_runnable(tasks[Supervisor]) /\ Table(tasks)
      /\ NoPair(tasks) /\ Isolated(tasks, regions)
  BY <1>1, RunningFacts, TaskFacts, SMTT(30)
<1>3. CASE Return(tasks, Same) /\ UNCHANGED regions
  BY <1>1, <1>3, TaskFacts, NothingKeeps
<1>4. CASE CanHibernate(r) /\ Return(us, Same) /\ regions' = rs
  <2>1. Supervisor \notin Overlaps[r]
    BY <1>4 DEF CanHibernate, overlaps_protected_memory
  <2>2. us = [u \in Task |-> us[u]]
    OBVIOUS
  <2>3. \A u \in Task : us[u] = IF u \in Overlaps[r] THEN Suspend(tasks[u], r) ELSE tasks[u]
    OBVIOUS
  <2> HIDE DEF us
  <2>4. ASSUME NEW u \in Task, u \in Overlaps[r]
        PROVE  /\ Sound(u, us[u]) /\ Idles(tasks[u], us[u])
               /\ us[u].kind = "Suspended" /\ us[u].hibernated = tasks[u].hibernated \cup {r}
               /\ us[u].generation = tasks[u].generation /\ us[u].fault = tasks[u].fault
    <3>1. us[u] = Suspend(tasks[u], r) /\ u # Supervisor /\ Sound(u, tasks[u])
      BY <1>2, <2>1, <2>3, <2>4 DEF Table
    <3> QED
      BY <3>1, SuspendSound, SMTT(30)
  <2>5. \A u \in Task : u \notin Overlaps[r] => us[u] = tasks[u]
    BY <2>3
  <2>6. Table(us)
    <3>1. \A u \in Task : /\ Sound(u, us[u]) /\ us[u].generation = tasks[u].generation
                          /\ Attached(tasks, us[u])
      BY <1>2, <2>4, <2>5, IdlesAttached DEF Table
    <3> QED
      BY <1>2, <2>2, <3>1, TableAll
  <2>7. NoPair(us)
    <3> SUFFICES ASSUME NEW a \in Task, NEW b \in Task, Pair(us, a, b) PROVE FALSE
      BY DEF NoPair
    <3>1. a \notin Overlaps[r] /\ b \notin Overlaps[r]
      BY <2>4 DEF Pair, is_sending_to, can_accept_message_from
    <3>2. us[a] = tasks[a] /\ us[b] = tasks[b]
      BY <2>5, <3>1
    <3> QED
      BY <1>2, <3>2 DEF NoPair, Pair, current_id
  <2>8. /\ rs \in Regions /\ rs[r].active
        /\ \A q \in Region : q # r => rs[q] = regions[q]
    BY <1>4, KernelAssumption, SMTT(30) DEF KInv, Regions, CanHibernate
  <2> HIDE DEF rs
  <2>9. Isolated(us, rs)
    <3> SUFFICES ASSUME NEW u \in Task
                 PROVE  us[u].hibernated = {q \in Region : u \in Overlaps[q] /\ rs[q].active}
      BY DEF Isolated
    <3>1. tasks[u].hibernated = {q \in Region : u \in Overlaps[q] /\ regions[q].active}
      BY <1>2 DEF Isolated
    <3>2. CASE u \in Overlaps[r]
      <4>1. us[u].hibernated = tasks[u].hibernated \cup {r}
        BY <2>4, <3>2
      <4> QED
        BY <2>8, <3>1, <3>2, <4>1
    <3>3. CASE u \notin Overlaps[r]
      <4>1. us[u].hibernated = tasks[u].hibernated
        BY <2>5, <3>3
      <4> QED
        BY <2>8, <3>1, <3>3, <4>1
    <3> QED
      BY <3>2, <3>3
  <2>10. FaultsKept(tasks, us) /\ Told(tasks, us)
    BY <2>4, <2>5 DEF FaultsKept, Told
  <2>11. /\ tasks' = us /\ current' = current /\ kernel' = User /\ copied' = NoRegion
         /\ regions' = rs
    BY <1>4, TaskFacts DEF Return
  <2>12. CurrentRuns(us, Supervisor) /\ (Configured => Ranked(us, Supervisor))
    BY <1>2, <2>1, <2>5, TaskFacts DEF CurrentRuns, Configured, Ranked
  <2>13. copied' \in Region \cup {NoRegion} /\ NoHibernatedCopy'
    BY <2>11, TaskFacts, SMTT(30) DEF NoHibernatedCopy
  <2>14. KInv'
    BY <1>2, <2>6, <2>7, <2>8, <2>9, <2>11, <2>12, <2>13 DEF KInv
  <2> QED
    BY <2>10, <2>11, <2>14 DEF StepKeeps
<1> QED
  BY <1>1, <1>3, <1>4

\* A debugger suspends a task.
LEMMA SuspendTaskKeeps ==
    ASSUME KInv, NEW i \in Task, suspend_task(i)
    PROVE  StepKeeps
<1> DEFINE y  == [tasks[i] EXCEPT !.kind = "Suspended", !.debug = TRUE]
           us == [tasks EXCEPT ![i] = y]
<1>1. /\ Running(Supervisor) /\ i \in Debugged /\ UNCHANGED regions
      /\ Return([tasks EXCEPT ![i].kind = "Suspended", ![i].debug = TRUE], Same)
  BY DEF suspend_task
<1>2. i # Supervisor
  BY <1>1, KernelAssumption
<1>3. /\ current = Supervisor /\ is_runnable(tasks[Supervisor]) /\ Table(tasks)
      /\ NoPair(tasks) /\ Isolated(tasks, regions)
  BY <1>1, RunningFacts, TaskFacts
<1>4. tasks \in [Task -> TaskRecord] /\ Sound(i, tasks[i]) /\ tasks[i] \in TaskRecord
  BY <1>3 DEF Table
<1>5. [tasks EXCEPT ![i].kind = "Suspended", ![i].debug = TRUE] = us
  BY <1>4
<1> DEFINE x == tasks[i]
<1>6. /\ y \in TaskRecord /\ y.kind = "Suspended" /\ y.hibernated = x.hibernated /\ y.debug
      /\ y.sched = x.sched /\ y.peer = x.peer /\ y.fault = x.fault /\ y.notified = x.notified
      /\ y.save = x.save /\ y.suspension_buffer = x.suspension_buffer /\ y.owed = x.owed
      /\ y.generation = x.generation
  BY <1>4 DEF TaskRecord
<1> HIDE DEF y
<1>7. Sound(i, y) /\ Idles(x, y)
  BY <1>2, <1>4, <1>6, SuspendedSound, SMTT(30)
<1>8. Table(us)
  BY <1>3, <1>6, <1>7, TableWith, IdlesAttached DEF Table
<1>9. us[i] = y /\ \A u \in Task : u # i => us[u] = tasks[u]
  BY <1>4
<1> HIDE DEF us
<1>10. NoPair(us)
  <2> SUFFICES ASSUME NEW a \in Task, NEW b \in Task, Pair(us, a, b) PROVE FALSE
    BY DEF NoPair
  <2>1. a # i /\ b # i
    BY <1>6, <1>9, SMTT(30) DEF Pair, is_sending_to, can_accept_message_from
  <2>2. us[a] = tasks[a] /\ us[b] = tasks[b]
    BY <1>9, <2>1
  <2> QED
    BY <1>3, <2>2 DEF NoPair, Pair, current_id
<1>11. Isolated(us, regions)
  <2>1. \A u \in Task : us[u].hibernated = tasks[u].hibernated
    BY <1>6, <1>9
  <2> QED
    BY <1>3, <2>1 DEF Isolated
<1>12. FaultsKept(tasks, us) /\ Told(tasks, us)
  BY <1>6, <1>9 DEF FaultsKept, Told
<1>13. HintOK(us, Same)
  BY <1>2, <1>3, <1>9, TaskFacts DEF HintOK, CurrentRuns, Configured, Ranked
<1>14. Return(us, Same)
  BY <1>1, <1>5
<1> QED
  BY <1>1, <1>8, <1>10, <1>11, <1>12, <1>13, <1>14, ReturnKeeps, SMTT(30) DEF Fits

\* A suspended task's record, whatever still holds the suspension.
Held(u, z) ==
    /\ z \in TaskRecord /\ u # Supervisor /\ z.kind = "Suspended"
    /\ z.suspension_buffer => z.sched = "InSuspendedReply"
    /\ z.fault = NoFault /\ z.sched = "InSuspendedReply" => z.suspension_buffer
    /\ z.fault = NoFault /\ z.owed => z.sched = "InSuspendedReply"
    /\ z.sched = "InSend" => z.peer \in TaskId
    /\ Fires(z) => ~z.notified

\* The end of a suspension never finds a buffer that fits no reply, and leaves
\* a fault in place.
LEMMA TryRestoreSound ==
    ASSUME NEW u, NEW z, Held(u, z)
    PROVE  LET y == try_restore(z) IN
           /\ Sound(u, y) /\ Idles(z, y)
           /\ y.hibernated = z.hibernated /\ y.generation = z.generation
           /\ z.fault # NoFault => y.fault # NoFault
<1>1. z \in TaskRecord
  BY DEF Held
<1>2. CASE z.hibernated # {} \/ z.debug
  <2>1. try_restore(z) = z
    BY <1>2 DEF try_restore
  <2>2. Sound(u, z)
    BY <1>1, <1>2 DEF Held, Sound
  <2> QED
    BY <2>1, <2>2 DEF Idles
<1>3. CASE z.hibernated = {} /\ ~z.debug
  <2> DEFINE Lost(f) == ToFaulted(z, f)
  <2>1. ASSUME NEW f \in Faults \ {NoFault}, try_restore(z) = Lost(f)
        PROVE  LET y == try_restore(z) IN
               /\ Sound(u, y) /\ Idles(z, y)
               /\ y.hibernated = z.hibernated /\ y.generation = z.generation
               /\ y.fault # NoFault
    <3> DEFINE y == ToFaulted(z, f)
    <3>1. /\ y \in TaskRecord /\ y.kind = "Faulted" /\ y.fault = f
          /\ y.suspension_buffer = FALSE /\ y.sched = z.sched /\ y.peer = z.peer
          /\ y.hibernated = z.hibernated /\ y.debug = z.debug /\ y.generation = z.generation
      BY <1>1, <2>1, NoArgsTyped DEF ToFaulted, TaskRecord, Faults
    <3>2. try_restore(z) = y
      BY <2>1
    <3> HIDE DEF y
    <3>3. Sound(u, y)
      BY <1>3, <2>1, <3>1 DEF Held, Sound, Fires, can_accept_notification
    <3>4. Idles(z, y)
      BY <2>1, <3>1 DEF Idles
    <3> QED
      BY <2>1, <3>1, <3>2, <3>3, <3>4
  <2>2. CASE z.fault # NoFault
    <3>1. try_restore(z) = Lost(z.fault)
      BY <1>3, <2>2 DEF try_restore, Held
    <3>2. z.fault \in Faults \ {NoFault}
      BY <1>1, <2>2, FieldTypes
    <3> QED
      BY <2>1, <3>1, <3>2, SMTT(30)
  <2>3. CASE z.fault = NoFault /\ z.sched = "InSuspendedReply"
    <3>1. z.suspension_buffer = TRUE
      BY <1>1, <2>3, FieldTypes DEF Held
    <3>2. CASE z.save.response # "ok"
      <4>1. try_restore(z) = Lost("Other")
        BY <1>3, <2>3, <3>1, <3>2, SMTT(30) DEF try_restore, Held
      <4>2. "Other" \in Faults \ {NoFault}
        BY DEF Faults, NoFault
      <4> QED
        BY <2>1, <2>3, <4>1, <4>2
    <3>3. CASE z.save.response = "ok"
      <4> DEFINE y == ReplyWritten(z)
      <4>1. try_restore(z) = y
        BY <1>3, <2>3, <3>1, <3>3, SMTT(30) DEF try_restore, Held
      <4>2. /\ y \in TaskRecord /\ y.kind = "Healthy" /\ y.fault = z.fault
            /\ y.suspension_buffer = FALSE /\ y.sched = "Runnable" /\ y.owed = FALSE
            /\ y.hibernated = z.hibernated /\ y.debug = z.debug /\ y.generation = z.generation
        BY <1>1, NoArgsTyped DEF ReplyWritten, TaskRecord
      <4> HIDE DEF y
      <4>3. Sound(u, y) /\ Idles(z, y)
        BY <1>3, <2>3, <4>2 DEF Held, Sound, Idles, Fires, can_accept_notification
      <4> QED
        BY <2>3, <4>1, <4>2, <4>3
    <3> QED
      BY <3>2, <3>3, SMTT(30)
  <2>4. CASE z.fault = NoFault /\ z.sched # "InSuspendedReply"
    <3>1. z.suspension_buffer = FALSE
      BY <1>1, <2>4, FieldTypes DEF Held
    <3> DEFINE y == [z EXCEPT !.kind = "Healthy"]
    <3>2. try_restore(z) = y
      BY <1>3, <2>4, <3>1 DEF try_restore, Held
    <3>3. /\ y \in TaskRecord /\ y.kind = "Healthy" /\ y.fault = z.fault
          /\ y.suspension_buffer = z.suspension_buffer /\ y.sched = z.sched /\ y.owed = z.owed
          /\ y.hibernated = z.hibernated /\ y.debug = z.debug /\ y.generation = z.generation
          /\ y.peer = z.peer /\ y.notified = z.notified /\ y.save = z.save
      BY <1>1, SMTT(30) DEF TaskRecord
    <3> HIDE DEF y
    <3>4. Sound(u, y) /\ Idles(z, y)
      BY <1>3, <2>4, <3>1, <3>3 DEF Held, Sound, Idles, Fires, can_accept_notification
    <3> QED
      BY <2>4, <3>2, <3>3, <3>4, SMTT(30)
  <2> QED
    BY <2>2, <2>3, <2>4
<1> QED
  BY <1>1, <1>2, <1>3, FieldTypes

\* The restore of a region leaves a record that is sound.
LEMMA RegionRestoredSound ==
    ASSUME NEW u, NEW x, Sound(u, x), NEW r \in Region, NEW mode
    PROVE  LET y == RegionRestored(x, r, mode) IN
           /\ Sound(u, y) /\ Idles(x, y)
           /\ y.hibernated = x.hibernated \ {r} /\ y.generation = x.generation
           /\ x.fault # NoFault => y.fault # NoFault
           /\ x.kind # "Suspended" => y = x
<1>1. CASE x.kind # "Suspended"
  <2>1. RegionRestored(x, r, mode) = x
    BY <1>1 DEF RegionRestored
  <2>2. x.hibernated = {}
    BY <1>1 DEF Sound
  <2> QED
    BY <2>1, <2>2 DEF Idles
<1>2. CASE x.kind = "Suspended"
  <2> DEFINE lost == r \in x.hibernated /\ mode = "Lost"
             h == x.hibernated \ {r}
             f == IF lost THEN "LostRegion" ELSE x.fault
             v == IF lost THEN NoArgs ELSE x.save
             z == [x EXCEPT !.hibernated = h, !.fault = f, !.save = v]
  <2>1. x \in TaskRecord
    BY DEF Sound
  <2>2. h \in SUBSET Region /\ f \in Faults /\ v \in SaveArea
    BY <2>1, FieldTypes, NoArgsTyped DEF Faults
  <2>3. RegionRestored(x, r, mode) = try_restore(z)
    BY <1>2 DEF RegionRestored
  <2>4. lost => f # NoFault
    BY DEF NoFault
  <2>5. (~lost => f = x.fault /\ v = x.save) /\ (x.fault # NoFault => f # NoFault)
    BY <2>4
  <2> HIDE DEF h, f, v, lost
  <2>6. /\ z \in TaskRecord /\ z.hibernated = h /\ z.fault = f /\ z.save = v
        /\ z.kind = x.kind /\ z.sched = x.sched /\ z.peer = x.peer /\ z.debug = x.debug
        /\ z.generation = x.generation /\ z.notified = x.notified
        /\ z.suspension_buffer = x.suspension_buffer /\ z.owed = x.owed
    BY <2>1, <2>2 DEF TaskRecord, Faults
  <2> HIDE DEF z
  <2>7. Held(u, z)
    BY <1>2, <2>4, <2>5, <2>6 DEF Held, Sound, Fires, can_accept_notification
  <2>8. Idles(x, z)
    BY <2>4, <2>5, <2>6, SMTT(30) DEF Idles
  <2> DEFINE y == try_restore(z)
  <2>9. /\ Sound(u, y) /\ Idles(z, y)
        /\ y.hibernated = z.hibernated /\ y.generation = z.generation
        /\ z.fault # NoFault => y.fault # NoFault
    BY <2>7, TryRestoreSound
  <2> HIDE DEF y
  <2>10. Idles(x, y)
    BY <2>8, <2>9 DEF Idles
  <2> QED
    BY <1>2, <2>3, <2>5, <2>6, <2>9, <2>10, SMTT(30) DEF y, h
<1> QED
  BY <1>1, <1>2

\* What a debugger's release makes of a task's record.
LEMMA ReleasedSound ==
    ASSUME NEW u, NEW x, Sound(u, x), x.kind = "Suspended"
    PROVE  LET y == try_restore([x EXCEPT !.debug = FALSE]) IN
           /\ Sound(u, y) /\ Idles(x, y)
           /\ y.hibernated = x.hibernated /\ y.generation = x.generation
           /\ x.fault # NoFault => y.fault # NoFault
<1> DEFINE z == [x EXCEPT !.debug = FALSE]
           y == try_restore(z)
<1>1. x \in TaskRecord
  BY DEF Sound
<1>2. /\ z \in TaskRecord /\ z.hibernated = x.hibernated /\ z.fault = x.fault /\ z.save = x.save
      /\ z.kind = x.kind /\ z.sched = x.sched /\ z.peer = x.peer
      /\ z.generation = x.generation /\ z.notified = x.notified
      /\ z.suspension_buffer = x.suspension_buffer /\ z.owed = x.owed
  BY <1>1 DEF TaskRecord
<1> HIDE DEF z
<1>3. Held(u, z) /\ Idles(x, z)
  BY <1>2, SMTT(30) DEF Held, Sound, Idles, Fires, can_accept_notification
<1>4. /\ Sound(u, y) /\ Idles(z, y)
      /\ y.hibernated = z.hibernated /\ y.generation = z.generation
      /\ z.fault # NoFault => y.fault # NoFault
  BY <1>3, TryRestoreSound
<1> HIDE DEF y
<1>5. Idles(x, y)
  BY <1>3, <1>4 DEF Idles
<1> QED
  BY <1>2, <1>4, <1>5 DEF y, z

\* The supervisor is told of the tasks that come back faulted, and
\* reconcile_ipc begins.
LEMMA RestoredKeeps ==
    ASSUME KInv, Running(Supervisor), NEW ts, Table(ts), ts[Supervisor] = tasks[Supervisor],
           regions' \in Regions, Isolated(ts, regions'), FaultsKept(tasks, ts),
           \A u \in Task : tasks[u].kind # "Suspended" => ts[u] = tasks[u],
           Restored(ts)
    PROVE  StepKeeps
<1> DEFINE faulted == \E t \in Task : tasks[t].kind = "Suspended" /\ ts[t].kind = "Faulted"
           us == IF faulted THEN post(ts, Supervisor) ELSE ts
<1>1. /\ tasks' = us /\ kernel' = [at |-> "reconcile", pos |-> 0, hint |-> Same]
      /\ copied' = NoRegion /\ current' = current
  BY DEF Restored
<1>2. current = Supervisor /\ is_runnable(tasks[Supervisor])
  BY RunningFacts, TaskFacts
<1>3. Follows(ts, ts)
  BY FollowsSelf
<1>4. /\ Table(us) /\ Follows(ts, us)
      /\ \A u \in Task : u # Supervisor => us[u] = ts[u]
      /\ faulted => us[Supervisor] = Posted(ts[Supervisor])
      /\ ~faulted => us[Supervisor] = ts[Supervisor]
  <2>1. CASE ~faulted
    BY <1>3, <2>1
  <2>2. CASE faulted
    <3>1. us = post(ts, Supervisor)
      BY <2>2
    <3> HIDE DEF us, faulted
    <3> QED
      BY <1>3, <2>2, <3>1, TaskFacts, PostKeeps, SMTT(30)
  <2> QED
    BY <2>1, <2>2
<1> HIDE DEF us
<1>5. Sound(Supervisor, ts[Supervisor]) /\ ~Fires(ts[Supervisor])
  BY <1>2, TaskFacts DEF Table, is_runnable, Fires, can_accept_notification
<1>6. /\ is_runnable(us[Supervisor]) /\ us[Supervisor].kind = ts[Supervisor].kind
      /\ faulted => us[Supervisor].notified
  <2> HIDE DEF faulted
  <2>1. CASE faulted
    <3>1. /\ is_runnable(Posted(ts[Supervisor]))
          /\ Posted(ts[Supervisor]).kind = ts[Supervisor].kind
      BY <1>2, <1>5, PostedSound
    <3>2. Posted(ts[Supervisor]).notified
      BY <1>5, PostedFacts DEF Sound
    <3> QED
      BY <1>4, <2>1, <3>1, <3>2
  <2>2. CASE ~faulted
    BY <1>2, <1>4, <2>2
  <2> QED
    BY <2>1, <2>2, SMTT(30)
<1>7. Told(tasks, us)
  <2> SUFFICES ASSUME NEW u \in Task, tasks[u].kind # "Faulted", us[u].kind = "Faulted"
               PROVE  us[Supervisor].notified
    BY DEF Told, Heard
  <2>1. ts[u].kind = "Faulted"
    BY <1>4, <1>6
  <2>2. tasks[u].kind = "Suspended"
    BY <2>1
  <2> QED
    BY <1>6, <2>1, <2>2
<1>9. FaultsKept(tasks, us)
  <2>1. \A u \in Task : /\ us[u].generation = ts[u].generation
                        /\ ts[u].fault # NoFault => us[u].fault # NoFault
    BY <1>4 DEF Follows, Calm, SameSuspension
  <2> QED
    BY <2>1 DEF FaultsKept
<1>10. Isolated(us, regions')
  BY <1>4, FollowsFacts
<1>11. Reconciling'
  <2>1. 0 \in Task /\ \A a \in Task : ~(a < 0)
    BY TaskFacts, SMTT(30) DEF Supervisor, Task
  <2> QED
    BY <1>1, <1>2, <2>1 DEF Reconciling
<1>12. copied' \in Region \cup {NoRegion} /\ NoHibernatedCopy'
  BY <1>1, TaskFacts DEF NoHibernatedCopy
<1>13. CurrentRuns(us, Supervisor) /\ kernel'.at = "reconcile"
  BY <1>1, <1>6, TaskFacts DEF CurrentRuns
<1>14. KInv'
  BY <1>1, <1>2, <1>4, <1>10, <1>11, <1>12, <1>13, SMTT(30) DEF KInv
<1> QED
  BY <1>1, <1>7, <1>9, <1>14, SMTT(30) DEF StepKeeps

\* restore_region keeps the invariant.
LEMMA RestoreRegionKeeps ==
    ASSUME KInv, NEW r \in Region, NEW event, NEW mode, restore_region(r, event, mode)
    PROVE  StepKeeps
<1> DEFINE us == [t \in Task |-> RegionRestored(tasks[t], r, mode)]
           rs == [regions EXCEPT ![r].active = FALSE]
<1>1. /\ Running(Supervisor)
      /\ \/ Return(tasks, Same) /\ UNCHANGED regions
         \/ Restored(us) /\ regions' = rs
  BY DEF restore_region
<1>2. /\ is_runnable(tasks[Supervisor]) /\ Table(tasks) /\ Isolated(tasks, regions)
  BY <1>1, RunningFacts, TaskFacts, SMTT(30)
<1>3. CASE Return(tasks, Same) /\ UNCHANGED regions
  BY <1>1, <1>3, TaskFacts, NothingKeeps
<1>4. CASE Restored(us) /\ regions' = rs
  <2>1. us = [u \in Task |-> us[u]]
    OBVIOUS
  <2>2. ASSUME NEW u \in Task
        PROVE  /\ Sound(u, us[u]) /\ Idles(tasks[u], us[u])
               /\ us[u].hibernated = tasks[u].hibernated \ {r}
               /\ us[u].generation = tasks[u].generation
               /\ tasks[u].fault # NoFault => us[u].fault # NoFault
               /\ tasks[u].kind # "Suspended" => us[u] = tasks[u]
    <3>1. us[u] = RegionRestored(tasks[u], r, mode) /\ Sound(u, tasks[u])
      BY <1>2 DEF Table
    <3> HIDE DEF us
    <3> QED
      BY <3>1, RegionRestoredSound, SMTT(30)
  <2> HIDE DEF us
  <2>3. Table(us)
    <3>1. \A u \in Task : /\ Sound(u, us[u]) /\ us[u].generation = tasks[u].generation
                          /\ Attached(tasks, us[u])
      BY <1>2, <2>2, IdlesAttached DEF Table
    <3> QED
      BY <1>2, <2>1, <3>1, TableAll
  <2>4. FaultsKept(tasks, us)
    BY <2>2 DEF FaultsKept
  <2>5. us[Supervisor] = tasks[Supervisor]
    BY <1>2, <2>2, TaskFacts DEF is_runnable
  <2>6. /\ rs \in Regions /\ rs[r].active = FALSE
        /\ \A q \in Region : q # r => rs[q] = regions[q]
    BY DEF KInv, Regions
  <2> HIDE DEF rs
  <2>7. Isolated(us, rs)
    <3> SUFFICES ASSUME NEW u \in Task
                 PROVE  us[u].hibernated = {q \in Region : u \in Overlaps[q] /\ rs[q].active}
      BY DEF Isolated
    <3>1. tasks[u].hibernated = {q \in Region : u \in Overlaps[q] /\ regions[q].active}
      BY <1>2 DEF Isolated
    <3>2. us[u].hibernated = tasks[u].hibernated \ {r}
      BY <2>2
    <3> QED
      BY <2>6, <3>1, <3>2
  <2> QED
    BY <1>1, <1>4, <2>2, <2>3, <2>4, <2>5, <2>6, <2>7, RestoredKeeps
<1> QED
  BY <1>1, <1>3, <1>4

\* restore_task keeps the invariant.
LEMMA RestoreTaskKeeps ==
    ASSUME KInv, NEW i \in Task, restore_task(i)
    PROVE  StepKeeps
<1> DEFINE x == tasks[i]
           y == IF x.kind = "Suspended" THEN try_restore([x EXCEPT !.debug = FALSE]) ELSE x
           us == [tasks EXCEPT ![i] = y]
<1>1. Running(Supervisor) /\ i \in Debugged /\ Restored(us) /\ UNCHANGED regions
  BY DEF restore_task
<1>2. i # Supervisor
  BY <1>1, KernelAssumption
<1>3. /\ Table(tasks) /\ Isolated(tasks, regions)
  BY <1>1, RunningFacts
<1>4. tasks \in [Task -> TaskRecord] /\ Sound(i, x) /\ Attached(tasks, x)
  BY <1>3 DEF Table
<1> HIDE DEF x
<1>5. /\ Sound(i, y) /\ Idles(x, y)
      /\ y.hibernated = x.hibernated /\ y.generation = x.generation
      /\ x.fault # NoFault => y.fault # NoFault
  <2>1. CASE x.kind = "Suspended"
    BY <1>4, <2>1, ReleasedSound
  <2>2. CASE x.kind # "Suspended"
    BY <1>4, <2>2, SMTT(30) DEF Idles
  <2> QED
    BY <2>1, <2>2
<1>6. x.kind # "Suspended" => y = x
  OBVIOUS
<1> HIDE DEF y
<1>7. Table(us)
  BY <1>3, <1>4, <1>5, TableWith, IdlesAttached DEF x
<1>8. us[i] = y /\ \A u \in Task : u # i => us[u] = tasks[u]
  BY <1>4, SMTT(30)
<1> HIDE DEF us
<1>9. FaultsKept(tasks, us)
  BY <1>5, <1>8 DEF FaultsKept, x
<1>10. Isolated(us, regions)
  BY <1>3, <1>5, <1>8 DEF Isolated, x
<1>11. \A u \in Task : tasks[u].kind # "Suspended" => us[u] = tasks[u]
  BY <1>6, <1>8, SMTT(30) DEF x
<1>12. regions' \in Regions /\ Isolated(us, regions') /\ us[Supervisor] = tasks[Supervisor]
  BY <1>1, <1>2, <1>8, <1>10, TaskFacts DEF KInv
<1> QED
  BY <1>1, <1>7, <1>9, <1>11, <1>12, RestoredKeeps

-----------------------------------------------------------------------------
(***************************************************************************)
(* reconcile_ipc                                                           *)
(***************************************************************************)
\* A delivery ends the wait of the pair, by the message or by a fault.
LEMMA DeliverOrFaultKeeps ==
    ASSUME NEW ts, Table(ts), NEW a \in Task, NEW b \in Task, a # b,
           a # Supervisor, b # Supervisor, ts[a].kind = "Healthy", ts[b].kind = "Healthy"
    PROVE  LET vs == deliver_or_fault(ts, a, b) IN
           /\ Table(vs) /\ Follows(ts, vs)
           /\ is_runnable(ts[Supervisor]) => is_runnable(vs[Supervisor])
           /\ vs[a].sched = "InReply" \/ vs[a].kind # "Healthy" \/ vs[b].kind # "Healthy"
<1> DEFINE src == SrcFault(ts, a, b)
           dst == DstFault(ts, a, b)
           us  == FaultIf(src, ts, a)
           vs  == FaultIf(dst, us, b)
<1>1. Follows(ts, ts) /\ Supervisor \in Task
  BY FollowsSelf, TaskFacts
<1>2. CASE Deliverable(ts, a, b)
  <2>1. deliver_or_fault(ts, a, b) = Delivered(ts, a, b)
    BY <1>2 DEF deliver_or_fault
  <2> QED
    BY <1>1, <2>1, DeliveredKeeps, SMTT(30)
<1>3. CASE ~Deliverable(ts, a, b)
  <2>1. deliver_or_fault(ts, a, b) = vs /\ (src \/ dst)
    BY <1>3 DEF deliver_or_fault, Deliverable
  <2>2. src \in BOOLEAN /\ dst \in BOOLEAN
    BY DEF SrcFault, DstFault
  <2> HIDE DEF src, dst
  <2>3. /\ Table(us) /\ Follows(ts, us)
        /\ src => us[a].kind # "Healthy"
        /\ is_runnable(ts[Supervisor]) => is_runnable(us[Supervisor])
    BY <1>1, <2>2, FaultIfKeeps, SMTT(30)
  <2> HIDE DEF us
  <2>4. /\ Table(vs) /\ Follows(ts, vs)
        /\ dst => vs[b].kind # "Healthy"
        /\ ~dst => vs = us
        /\ \A u \in Task : u \notin {b, Supervisor} => vs[u] = us[u]
        /\ is_runnable(us[Supervisor]) => is_runnable(vs[Supervisor])
    BY <2>2, <2>3, FaultIfKeeps, SMTT(30)
  <2> HIDE DEF vs
  <2>5. vs[a] = us[a]
    BY <2>4
  <2> QED
    BY <2>1, <2>3, <2>4, <2>5
<1> QED
  BY <1>2, <1>3

\* A pair that waits has a sender that reconcile_ipc delivers from.
LEMMA PairSends ==
    ASSUME NEW i \in Task, NEW b \in Task, Pair(tasks, i, b)
    PROVE  Sends(i) /\ tasks[i].peer.index = b
<1>1. /\ tasks[i].kind = "Healthy" /\ tasks[i].sched = "InSend"
      /\ tasks[i].peer = current_id(tasks, b)
      /\ can_accept_message_from(tasks[b], current_id(tasks, i))
  BY DEF Pair, is_sending_to
<1>2. tasks[i].peer.index = b
  BY <1>1, SMTT(30) DEF current_id
<1>3. Live(tasks, tasks[i].peer)
  BY <1>1, <1>2 DEF Live
<1> QED
  BY <1>1, <1>2, <1>3 DEF Sends

\* An iteration of reconcile_ipc leaves no message of task i undelivered.
LEMMA IterationSettles ==
    ASSUME KInv, Reconciling, reconcile_ipc
    PROVE  /\ Table(tasks') /\ Follows(tasks, tasks') /\ is_runnable(tasks'[Supervisor])
           /\ \A b \in Task : ~Pair(tasks', kernel.pos, b)
<1> DEFINE i == kernel.pos
<1>1. /\ i \in Task /\ Table(tasks) /\ is_runnable(tasks[Supervisor]) /\ Supervisor \in Task
  BY TaskFacts DEF KInv, Reconciling, CurrentRuns
<1>2. \/ Receives(i) /\ tasks' = deliver_or_fault(tasks, priority_scan(i, Senders(i)), i)
      \/ Sends(i) /\ tasks' = deliver_or_fault(tasks, i, tasks[i].peer.index)
      \/ ~Receives(i) /\ ~Sends(i) /\ UNCHANGED tasks
  BY DEF reconcile_ipc
<1> HIDE DEF i
<1>3. CASE Receives(i) /\ tasks' = deliver_or_fault(tasks, priority_scan(i, Senders(i)), i)
  <2> DEFINE a == priority_scan(i, Senders(i))
             vs == deliver_or_fault(tasks, a, i)
  <2>1. Senders(i) \in SUBSET Task /\ Senders(i) # {} /\ i \in Int
    BY <1>1, <1>3, TaskFacts DEF Receives, Senders
  <2>2. a \in Senders(i)
    BY <2>1, ScanFacts
  <2> HIDE DEF a
  <2>3. a \in Task /\ is_sending_to(tasks[a], current_id(tasks, i))
    BY <2>2 DEF Senders
  <2>4. /\ tasks[a].kind = "Healthy" /\ tasks[a].sched = "InSend"
        /\ tasks[i].kind = "Healthy" /\ tasks[i].sched = "InRecv"
    BY <1>3, <2>3 DEF Receives, is_sending_to
  <2>5. a # i /\ a # Supervisor /\ i # Supervisor
    BY <1>1, <2>4 DEF is_runnable
  <2>6. Table(vs) /\ Follows(tasks, vs) /\ is_runnable(vs[Supervisor])
    BY <1>1, <2>3, <2>4, <2>5, DeliverOrFaultKeeps, SMTT(30)
  <2> HIDE DEF vs
  <2>7. \A b \in Task : ~Pair(vs, i, b)
    BY <1>1, <2>4, <2>6 DEF Follows, Calm, Pair, is_sending_to
  <2> QED
    BY <1>3, <2>6, <2>7 DEF vs, a, i
<1>4. CASE Sends(i) /\ tasks' = deliver_or_fault(tasks, i, tasks[i].peer.index)
  <2> DEFINE c == tasks[i].peer.index
             vs == deliver_or_fault(tasks, i, c)
  <2>1. /\ tasks[i].kind = "Healthy" /\ tasks[i].sched = "InSend"
        /\ can_accept_message_from(tasks[c], current_id(tasks, i))
    BY <1>4, SMTT(30) DEF Sends
  <2>2. tasks[i].peer \in TaskId
    BY <1>1, <2>1 DEF Table, Sound
  <2>3. c \in Task /\ tasks[c].kind = "Healthy" /\ tasks[c].sched = "InRecv"
    BY <2>1, <2>2 DEF TaskId, can_accept_message_from
  <2> HIDE DEF c
  <2>4. c # i /\ i # Supervisor
    BY <1>1, <2>1, <2>3, SMTT(30) DEF is_runnable
  <2>5. c # Supervisor
    BY <1>1, <2>3 DEF is_runnable
  <2>6. /\ Table(vs) /\ Follows(tasks, vs) /\ is_runnable(vs[Supervisor])
        /\ vs[i].sched = "InReply" \/ vs[i].kind # "Healthy" \/ vs[c].kind # "Healthy"
    BY <1>1, <2>1, <2>3, <2>4, <2>5, DeliverOrFaultKeeps
  <2> HIDE DEF vs
  <2>7. ASSUME NEW b \in Task, Pair(vs, i, b) PROVE FALSE
    <3>1. Pair(tasks, i, b)
      BY <1>1, <2>6, <2>7, FollowsFacts
    <3>2. b = c
      BY <1>1, <3>1, PairSends DEF c
    <3> QED
      BY <2>6, <2>7, <3>2, SMTT(30) DEF Pair, is_sending_to, can_accept_message_from
  <2> QED
    BY <1>4, <2>6, <2>7 DEF vs, c, i
<1>5. CASE ~Receives(i) /\ ~Sends(i) /\ UNCHANGED tasks
  <2>1. \A b \in Task : ~Pair(tasks, i, b)
    BY <1>1, <1>5, PairSends
  <2> QED
    BY <1>1, <1>5, <2>1, FollowsSelf, SMTT(30) DEF i
<1> QED
  BY <1>2, <1>3, <1>4, <1>5

\* reconcile_ipc ends with no sender and receiver waiting for each other.
LEMMA ReconcileKeeps ==
    ASSUME KInv, reconcile_ipc
    PROVE  StepKeeps
<1> DEFINE i == kernel.pos
<1>1. /\ kernel.at = "reconcile" /\ UNCHANGED <<regions, current, copied>>
      /\ kernel' = IF i = N - 1 THEN User ELSE [kernel EXCEPT !.pos = i + 1]
  BY DEF reconcile_ipc
<1>2. Reconciling
  BY <1>1, SMTT(30) DEF KInv, User, Scanning
<1>3. /\ Table(tasks') /\ Follows(tasks, tasks') /\ is_runnable(tasks'[Supervisor])
      /\ \A b \in Task : ~Pair(tasks', i, b)
  BY <1>2, IterationSettles
<1>4. /\ \A a, b \in Task : Pair(tasks', a, b) => Pair(tasks, a, b)
      /\ Isolated(tasks', regions) /\ FaultsKept(tasks, tasks') /\ Told(tasks, tasks')
  BY <1>3, FollowsFacts DEF KInv
<1>5. i \in Task /\ kernel \in [at : {"reconcile"}, pos : Task, hint : {Same}]
      /\ current = Supervisor /\ \A a, b \in Task : a < i => ~Pair(tasks, a, b)
  BY <1>2 DEF Reconciling
<1>6. ASSUME NEW a \in Task, NEW b \in Task, a < i + 1 PROVE ~Pair(tasks', a, b)
  <2>1. a < i \/ a = i
    BY <1>5, <1>6, KernelAssumption, SMTT(30) DEF Task
  <2> QED
    BY <1>3, <1>4, <1>5, <2>1, SMTT(30)
<1>7. /\ CurrentRuns(tasks', Supervisor) /\ Supervisor \in Task
      /\ Configured => Ranked(tasks', Supervisor)
  BY <1>3, TaskFacts DEF CurrentRuns, Configured, Ranked
<1>8. CASE i = N - 1
  <2>1. kernel' = User
    BY <1>1, <1>8
  <2>2. NoPair(tasks')
    <3>1. \A a \in Task : a < i + 1
      BY <1>8, KernelAssumption, SMTT(30) DEF Task
    <3> QED
      BY <1>6, <3>1 DEF NoPair
  <2>3. KInv'
    BY <1>1, <1>3, <1>4, <1>5, <1>7, <2>1, <2>2 DEF KInv, NoHibernatedCopy
  <2> QED
    BY <1>4, <2>3 DEF StepKeeps
<1>9. CASE i # N - 1
  <2>1. i + 1 \in Task
    BY <1>5, <1>9, KernelAssumption, SMTT(30) DEF Task
  <2>2. kernel' = [kernel EXCEPT !.pos = i + 1]
    BY <1>1, <1>9
  <2>3. kernel' \in [at : {"reconcile"}, pos : Task, hint : {Same}] /\ kernel'.pos = i + 1
        /\ kernel'.at = "reconcile"
    BY <1>5, <2>1, <2>2
  <2>4. Reconciling'
    BY <1>1, <1>5, <1>6, <2>3, SMTT(30) DEF Reconciling
  <2>5. KInv'
    BY <1>1, <1>3, <1>4, <1>5, <1>7, <2>3, <2>4 DEF KInv, NoHibernatedCopy
  <2> QED
    BY <1>4, <2>5 DEF StepKeeps
<1> QED
  BY <1>8, <1>9

-----------------------------------------------------------------------------
(***************************************************************************)
(* The invariant, and what follows from it                                 *)
(***************************************************************************)
\* At boot every task is healthy, can run, and has no system call in progress.
LEMMA InitKeeps == Init => KInv
<1> SUFFICES ASSUME Init PROVE KInv
  OBVIOUS
<1>1. /\ tasks = [t \in Task |-> from_descriptor]
      /\ regions = [r \in Region |-> [next_generation |-> 0, active |-> FALSE]]
      /\ current = Supervisor /\ kernel = User /\ copied = NoRegion
  BY SMTT(30) DEF Init
<1>2. from_descriptor \in TaskRecord
  <2>1. 0 \in 0..(Generations - 1)
    BY KernelAssumption, SMTT(30)
  <2> QED
    BY <2>1, NoArgsTyped, SMTT(30) DEF from_descriptor, TaskRecord
<1>3. ASSUME NEW u \in Task
      PROVE  /\ Sound(u, tasks[u]) /\ Attached(tasks, tasks[u]) /\ is_runnable(tasks[u])
             /\ tasks[u].hibernated = {}
  <2>1. tasks[u] = from_descriptor
    BY <1>1
  <2> QED
    BY <1>2, <2>1, SMTT(30) DEF from_descriptor, Sound, Attached, is_runnable, Fires,
                      can_accept_notification, NoArgs
<1>4. Table(tasks)
  BY <1>1, <1>2, <1>3 DEF Table
<1>5. regions \in Regions /\ \A r \in Region : ~regions[r].active
  BY <1>1, KernelAssumption, SMTT(30) DEF Regions
<1>6. Isolated(tasks, regions)
  BY <1>3, <1>5 DEF Isolated
<1>7. CurrentRuns(tasks, current) /\ NoPair(tasks)
  BY <1>1, <1>3, TaskFacts DEF CurrentRuns, NoPair, Pair, is_sending_to, is_runnable
<1>8. copied \in Region \cup {NoRegion} /\ NoHibernatedCopy
  BY <1>1, TaskFacts DEF NoHibernatedCopy
<1>9. Configured => Ranked(tasks, current)
  BY <1>1, TaskFacts DEF Configured, Ranked
<1> QED
  BY <1>1, <1>4, <1>5, <1>6, <1>7, <1>8, <1>9, SMTT(30) DEF KInv

\* Every system call of a task keeps the invariant.
LEMMA SyscallKeeps ==
    ASSUME KInv, NEW t \in Task, Syscall(t)
    PROVE  StepKeeps
<1>1. \A S : Ids(S) \subseteq TaskId
  BY DEF Ids
<1>2. CASE \E id \in Ids(Callees[t]), m, p \in SlicesOf(t) : send(t, id, m, p)
  BY <1>1, <1>2, SendKeeps
<1>3. CASE \E from \in Ids(Clients(t)) \cup {None, KERNEL}, b \in SlicesOf(t), mask \in BOOLEAN :
               recv(t, from, b, mask)
  BY <1>1, <1>3, RecvKeeps
<1>4. CASE \E id \in Ids(Clients(t)), m \in SlicesOf(t) : reply(t, id, m)
  BY <1>4, ReplyKeeps, SMTT(30)
<1>5. CASE \E id \in Ids(Clients(t)) : reply_fault(t, id)
  BY <1>5, ReplyFaultKeeps
<1>6. CASE \E id \in Ids(Clients(t)), b \in SlicesOf(t),
              lease \in Region \cup {"none", "memory", "table"}
                              \cup (IF t = Supervisor THEN {} ELSE {"range"}) :
               borrow(t, id, b, lease)
  <2>1. PICK id \in Ids(Clients(t)), b \in SlicesOf(t),
             lease \in Region \cup {"none", "memory", "table"}
                             \cup (IF t = Supervisor THEN {} ELSE {"range"}) :
               borrow(t, id, b, lease)
    BY <1>6, SMTT(30)
  <2>2. /\ lease \in Region \cup {"none", "memory", "table", "range"}
        /\ t = Supervisor => lease # "range"
    BY KernelAssumption
  <2> QED
    BY <2>1, <2>2, BorrowKeeps
<1>7. CASE \E id \in TaskId : sys_post(t, id)
  BY <1>7, PostCallKeeps
<1>8. CASE panic(t)
  BY <1>8, PanicKeeps, SMTT(30)
<1>9. CASE \E i \in Task, start \in BOOLEAN : reinit_task(t, i, start)
  BY <1>9, ReinitKeeps
<1>10. CASE \E i \in Task : fault_task(t, i)
  BY <1>10, FaultTaskKeeps
<1> QED
  BY <1>2, <1>3, <1>4, <1>5, <1>6, <1>7, <1>8, <1>9, <1>10, SMTT(30) DEF Syscall

\* Every call of the supervisor on regions and debugged tasks keeps it.
LEMMA SupervisorCallKeeps ==
    ASSUME KInv, SupervisorCall
    PROVE  StepKeeps
<1>1. CASE \E r \in Region : hibernate_region(r)
  BY <1>1, HibernateKeeps
<1>2. CASE \E r \in Region, event \in 0..EventLimit, mode \in {"Restored", "Lost"} :
               restore_region(r, event, mode)
  BY <1>2, RestoreRegionKeeps
<1>3. CASE \E i \in Task : suspend_task(i) \/ restore_task(i)
  BY <1>3, SuspendTaskKeeps, RestoreTaskKeeps, SMTT(30)
<1> QED
  BY <1>1, <1>2, <1>3 DEF SupervisorCall

\* Every step of the kernel keeps it.
LEMMA NextKeeps ==
    ASSUME KInv, Next
    PROVE  StepKeeps
<1>1. CASE \E t \in Task : Syscall(t)
  BY <1>1, SyscallKeeps
<1>2. CASE SupervisorCall
  BY <1>2, SupervisorCallKeeps
<1>3. CASE recv_scan
  BY <1>3, ScanKeeps
<1>4. CASE reconcile_ipc
  BY <1>4, ReconcileKeeps
<1>5. CASE \E S \in SUBSET Task \ {{}} : Interrupt(S)
  BY <1>5, InterruptKeeps, SMTT(30)
<1> QED
  BY <1>1, <1>2, <1>3, <1>4, <1>5 DEF Next

\* A step that changes nothing keeps it too.
LEMMA StutterKeeps ==
    ASSUME KInv, UNCHANGED vars
    PROVE  KInv'
  BY DEF KInv, vars, Table, Attached, Isolated, CurrentRuns, Scanning, Reconciling,
         NoPair, Pair, NoHibernatedCopy, Ranked, Live, current_id

\* KInv is an invariant of the kernel.
THEOREM KernelInvariant == Spec => []KInv
<1>1. KInv /\ [Next]_vars => KInv'
  BY NextKeeps, StutterKeeps, SMTT(30) DEF StepKeeps
<1> QED
  BY InitKeeps, <1>1, PTL DEF Spec

\* Every step of the kernel keeps faults and reports them.
LEMMA StepsReport ==
    ASSUME KInv, [Next]_vars
    PROVE  /\ \A t \in Task : tasks[t].fault # NoFault /\ tasks'[t].fault = NoFault
                 => tasks'[t].generation # tasks[t].generation
           /\ (\E t \in Task : tasks[t].kind # "Faulted" /\ tasks'[t].kind = "Faulted")
                 => \/ tasks'[Supervisor].notified
                    \/ Fires(tasks[Supervisor]) /\ is_runnable(tasks'[Supervisor])
<1>1. CASE Next
  BY <1>1, NextKeeps DEF StepKeeps, FaultsKept, Told, Heard
<1>2. CASE UNCHANGED vars
  BY <1>2, SMTT(30) DEF vars
<1> QED
  BY <1>1, <1>2

\* The task table, the regions and the kernel's own state are always of their
\* types: no panic of set_healthy_state or of try_restore is reached.
THEOREM KernelTypeOK == Spec => []TypeOK
<1>1. KInv => TypeOK
  <2> SUFFICES ASSUME KInv PROVE TypeOK
    BY SMTT(30)
  <2>1. kernel \in [at : {"user", "recv", "reconcile"}, pos : Task,
                    hint : Task \cup {Same, Other}]
    <3>1. 0 \in Task
      BY TaskFacts DEF Supervisor
    <3> QED
      BY <3>1, TaskFacts, SMTT(30) DEF KInv, User, Scanning, Reconciling
  <2> QED
    BY <2>1 DEF KInv, TypeOK, Table, Regions, CurrentRuns
<1> QED
  BY KernelInvariant, <1>1, PTL

\* A reply is buffered exactly for the suspended tasks that have been replied
\* to and have not faulted: neither assertion of try_restore fails.
THEOREM KernelBufferMatchesState == Spec => []BufferMatchesState
<1>1. KInv => BufferMatchesState
  BY SMTT(30) DEF KInv, Table, Sound, BufferMatchesState
<1> QED
  BY KernelInvariant, <1>1, PTL

\* A hibernated region suspends exactly the tasks with memory in it, until it
\* is restored.
THEOREM KernelHibernationIsolates == Spec => []HibernationIsolates
<1>1. KInv => HibernationIsolates
  BY DEF KInv, Table, Sound, Isolated, HibernationIsolates
<1> QED
  BY KernelInvariant, <1>1, PTL

\* No borrow reads or writes a hibernated region.
THEOREM KernelNoHibernatedCopy == Spec => []NoHibernatedCopy
<1>1. KInv => NoHibernatedCopy
  BY DEF KInv
<1> QED
  BY KernelInvariant, <1>1, PTL

\* No task without a fault waits for an incarnation that is gone.
THEOREM KernelNoWaitOnDead == Spec => []NoWaitOnDead
<1>1. KInv => NoWaitOnDead
  BY DEF KInv, Table, Attached, NoWaitOnDead
<1> QED
  BY KernelInvariant, <1>1, PTL

\* Out of the kernel, no sender and receiver wait for each other.
THEOREM KernelNoMissedRendezvous == Spec => []NoMissedRendezvous
<1>1. KInv => NoMissedRendezvous
  BY SMTT(30) DEF KInv, NoPair, Pair, User, Scanning, Reconciling, NoMissedRendezvous
<1> QED
  BY KernelInvariant, <1>1, PTL

\* A task that runs has the bytes of every reply it was told of.
THEOREM KernelRepliesArrive == Spec => []RepliesArrive
<1>1. KInv => RepliesArrive
  <2> SUFFICES ASSUME KInv, NEW t \in Task, tasks[t].kind = "Healthy", tasks[t].owed
               PROVE  FALSE
    BY DEF RepliesArrive
  <2> QED
    BY DEF KInv, Table, Sound
<1> QED
  BY KernelInvariant, <1>1, PTL

\* No task but the supervisor is blocked in a receive that asks for a
\* notification which is pending.
THEOREM KernelNotificationsHeard == Spec => []NotificationsHeard
<1>1. KInv => NotificationsHeard
  BY DEF KInv, Table, Sound, NotificationsHeard, BlockedHasNoNotification
<1> QED
  BY KernelInvariant, <1>1, PTL

\* In the configurations above, the task that runs is the most important of
\* those that can.
THEOREM KernelHighestPriorityRuns ==
    ASSUME Configured
    PROVE  Spec => []HighestPriorityRuns
<1>1. KInv => HighestPriorityRuns
  BY SMTT(30) DEF KInv, Ranked, User, HighestPriorityRuns
<1> QED
  BY KernelInvariant, <1>1, PTL

\* A fault is cleared by a restart only.
THEOREM KernelFaultStays == Spec => FaultStays
<1>1. KInv /\ [Next]_vars
         => [\A t \in Task : tasks[t].fault # NoFault /\ tasks'[t].fault = NoFault
                => tasks'[t].generation # tasks[t].generation]_vars
  BY StepsReport
<1> QED
  BY KernelInvariant, <1>1, PTL DEF Spec, FaultStays

\* The supervisor is told of every task that becomes faulted.
THEOREM KernelFaultsReported == Spec => FaultsReported
<1>1. KInv /\ [Next]_vars
         => [(\E t \in Task : tasks[t].kind # "Faulted" /\ tasks'[t].kind = "Faulted")
                => \/ tasks'[Supervisor].notified
                   \/ Fires(tasks[Supervisor]) /\ is_runnable(tasks'[Supervisor])]_vars
  BY StepsReport
<1> QED
  BY KernelInvariant, <1>1, PTL DEF Spec, FaultsReported

=============================================================================
