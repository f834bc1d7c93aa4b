------------------------------ MODULE Reactor ------------------------------
(***************************************************************************)
(* The reactor (firmware/sysmodule/reactor): one bounded queue of          *)
(* notifications for all groups, a read cursor per subscriber, and a       *)
(* notification bit that wakes a subscriber up, together with the loop of  *)
(* the generated servers that pulls on that bit.                           *)
(*                                                                         *)
(* The reactor is a single-threaded server whose subscribers see nothing   *)
(* of its state but its replies, so one action is one message it handles.  *)
(***************************************************************************)
EXTENDS Sequences, FiniteSetsExt, Integers

CONSTANTS
    Task,
    Group,
    group_subscribers,  \* group -> its subscribers
    senders,            \* group -> the tasks that may push to it
    priority_range,     \* group -> the priorities it allows
    Code,
    Priorities,         \* the priorities that programs pass
    NoGroup,            \* a group id that does not exist
    QUEUE_CAPACITY,
    MaxId               \* bound: notifications sent in a behaviour

ASSUME ReactorAssumption ==
    /\ group_subscribers \in [Group -> SUBSET Task]
    /\ senders \in [Group -> SUBSET Task]
    /\ Priorities \subseteq Nat
    /\ priority_range \in [Group -> SUBSET Priorities]
    /\ NoGroup \notin Group
    /\ QUEUE_CAPACITY \in 1..255
    /\ MaxId \in Nat

VARIABLES
    state,     \* the reactor's [queue, cursors]
    bit,       \* task -> NOTIFICATION_BIT is pending
    pc,        \* task -> "waiting" for messages and bits, "pulling" or "handling"
    deaf,      \* history: restarted with unread notifications, not posted to since
    taken,     \* history: task -> the ids it has pulled
    reported,  \* history: task -> the ids the supervisor was told it will miss
    next_id    \* history: the number of the next notification

vars == <<state, bit, pc, deaf, taken, reported, next_id>>

\* SUBSCRIBER_TASKS
Subscriber == UNION {group_subscribers[g] : g \in Group}
Strategy == {"Reject", "DropOldest", "DropNewest"}

Notification ==
    [sender_index : Task, group_id : Group, code : Code, priority : Priorities, id : 1..MaxId]

Init ==
    /\ state = [queue |-> <<>>, cursors |-> [t \in Subscriber |-> 0]]
    /\ bit = [t \in Subscriber |-> FALSE]
    /\ pc = [t \in Subscriber |-> "waiting"]
    /\ deaf = [t \in Subscriber |-> FALSE]
    /\ taken = [t \in Subscriber |-> {}]
    /\ reported = [t \in Subscriber |-> {}]
    /\ next_id = 1

-----------------------------------------------------------------------------
is_full(st) == Len(st.queue) = QUEUE_CAPACITY

\* Whether subscriber t has the entry at i (counted from 1) ahead of it.
Ahead(st, t, i) ==
    i > st.cursors[t] /\ t \in group_subscribers[st.queue[i].group_id]

remove_and_adjust_cursors(st, i) ==
    [queue |-> SubSeq(st.queue, 1, i - 1) \o SubSeq(st.queue, i + 1, Len(st.queue)),
     cursors |-> [t \in Subscriber |->
                     IF st.cursors[t] >= i THEN st.cursors[t] - 1 ELSE st.cursors[t]]]

\* How many entries the loop of gc takes off the front: its i-th round finds
\* the cursors lowered by i - 1.
Consumed(st, i) ==
    \A t \in group_subscribers[st.queue[i].group_id] : st.cursors[t] >= i

Collectable(st) ==
    Max({k \in 0..Len(st.queue) : \A i \in 1..k : Consumed(st, i)})

gc_CursorsKept(st) ==
    [st EXCEPT !.queue = SubSeq(@, Collectable(st) + 1, Len(@))]

gc(st) ==
    LET k == Collectable(st) IN
    [queue |-> SubSeq(st.queue, k + 1, Len(st.queue)),
     cursors |-> [t \in Subscriber |-> IF st.cursors[t] > k THEN st.cursors[t] - k ELSE 0]]

\* The index of the entry that evict removes, or 0.
evict(st, p, strategy) ==
    LET I == {i \in 1..Len(st.queue) : st.queue[i].priority <= p} IN
    CASE strategy = "Reject" \/ I = {}         -> 0
      [] strategy = "DropOldest" /\ I # {}     -> Min(I)
      [] strategy = "DropNewest" /\ I # {}     -> Max(I)

\* report_eviction: the subscribers a drop report is sent for.
report_eviction_All(st, i) == group_subscribers[st.queue[i].group_id]

report_eviction(st, i) == {t \in Subscriber : Ahead(st, t, i)}

has_more_for(st, t) == \E i \in 1..Len(st.queue) : Ahead(st, t, i)

Report(S, id) ==
    reported' = [t \in Subscriber |-> reported[t] \cup (IF t \in S THEN {id} ELSE {})]

\* NOTIFICATION_BIT for every subscriber in S, whatever its generation.
notify_subscribers_FirstOnly(S) ==
    LET first == IF S = {} THEN {} ELSE {CHOOSE t \in S : TRUE} IN
    /\ bit' = [t \in Subscriber |-> bit[t] \/ t \in first]
    /\ deaf' = [t \in Subscriber |-> deaf[t] /\ t \notin S]

notify_subscribers(S) ==
    /\ bit' = [t \in Subscriber |-> bit[t] \/ t \in S]
    /\ deaf' = [t \in Subscriber |-> deaf[t] /\ t \notin S]

-----------------------------------------------------------------------------
validate_AnyPriority(t, g, p) ==
    CASE g \notin Group                     -> "InvalidGroup"
      [] g \in Group /\ t \notin senders[g] -> "NotAuthorized"
      [] OTHER                              -> "Ok"

\* The error that validate returns, or "Ok".
validate(t, g, p) ==
    CASE g \notin Group                                -> "InvalidGroup"
      [] g \in Group /\ t \notin senders[g]            -> "NotAuthorized"
      [] g \in Group /\ t \in senders[g] /\ p \notin priority_range[g] -> "PriorityOutOfRange"
      [] OTHER                                         -> "Ok"

\* The queue takes n, once room has been made for it.
Accept(st, n) ==
    /\ state' = [st EXCEPT !.queue = Append(@, n)]
    /\ notify_subscribers(group_subscribers[n.group_id])

\* The common tail of push and refresh: gc, then evict, then push or report.
Enqueue(st, n, strategy) ==
    LET room == IF is_full(st) THEN gc(st) ELSE st
        i    == evict(room, n.priority, strategy)
    IN
    /\ \/ ~is_full(room) /\ Accept(room, n) /\ UNCHANGED reported
       \/ /\ is_full(room) /\ i # 0
          /\ Accept(remove_and_adjust_cursors(room, i), n)
          /\ Report(report_eviction(room, i), room.queue[i].id)
       \/ /\ is_full(room) /\ i = 0
          /\ state' = room
          /\ Report(group_subscribers[n.group_id], n.id)
          /\ UNCHANGED <<bit, deaf>>
    /\ next_id' = next_id + 1
    /\ UNCHANGED <<pc, taken>>

\* A message of a task that is not in a call of the reactor already.
Calls(t) == next_id <= MaxId /\ (t \in Subscriber => pc[t] # "pulling")

\* The early return of push and refresh.
refused(t, g, p) == Calls(t) /\ validate(t, g, p) # "Ok" /\ UNCHANGED vars

NewNotification(t, g, code, p) ==
    [sender_index |-> t, group_id |-> g, code |-> code, priority |-> p, id |-> next_id]

push(t, g, code, p, strategy) ==
    /\ Calls(t) /\ validate(t, g, p) = "Ok"
    /\ Enqueue(state, NewNotification(t, g, code, p), strategy)

\* The entry that a refresh replaces, or 0.
Match(t, g, code) ==
    LET I == {i \in 1..Len(state.queue) :
                 LET n == state.queue[i] IN
                 n.sender_index = t /\ n.group_id = g /\ n.code = code}
    IN IF I = {} THEN 0 ELSE Min(I)

refresh(t, g, code, p, strategy) ==
    LET i == Match(t, g, code) IN
    /\ Calls(t) /\ validate(t, g, p) = "Ok"
    /\ \/ i = 0 /\ Enqueue(state, NewNotification(t, g, code, p), strategy)
       \/ i # 0 /\ Enqueue(remove_and_adjust_cursors(state, i),
                           NewNotification(t, g, code, Max({p, state.queue[i].priority})),
                           strategy)

-----------------------------------------------------------------------------
\* The server loop of a subscriber: the bit ends its receive, and it pulls
\* until there is nothing left, or the reactor is gone.
recv_notification(t) ==
    /\ pc[t] = "waiting" /\ bit[t]
    /\ bit' = [bit EXCEPT ![t] = FALSE]
    /\ pc' = [pc EXCEPT ![t] = "pulling"]
    /\ UNCHANGED <<state, deaf, taken, reported, next_id>>

\* The code also collects before it scans, which takes only entries that the
\* collection after the scan would take.
pull(t) ==
    LET N     == {i \in 1..Len(state.queue) : Ahead(state, t, i)}
        after == gc([state EXCEPT !.cursors[t] = Min(N)])
    IN
    /\ pc[t] = "pulling"
    /\ \/ /\ N = {}
          /\ state' = gc(state)
          /\ pc' = [pc EXCEPT ![t] = "waiting"]
          /\ UNCHANGED <<bit, taken>>
       \/ /\ N # {}
          /\ state' = after
          /\ bit' = [bit EXCEPT ![t] = @ \/ has_more_for(after, t)]
          /\ taken' = [taken EXCEPT ![t] = @ \cup {state.queue[Min(N)].id}]
          /\ pc' = [pc EXCEPT ![t] = "handling"]
    /\ UNCHANGED <<deaf, reported, next_id>>

handled(t) ==
    /\ pc[t] = "handling"
    /\ pc' = [pc EXCEPT ![t] = "pulling"]
    /\ UNCHANGED <<state, bit, deaf, taken, reported, next_id>>

\* The supervisor restarts a subscriber: its bits are cleared.
restart(t) ==
    /\ bit' = [bit EXCEPT ![t] = FALSE]
    /\ pc' = [pc EXCEPT ![t] = "waiting"]
    /\ deaf' = [deaf EXCEPT ![t] = has_more_for(state, t)]
    /\ UNCHANGED <<state, taken, reported, next_id>>

\* The supervisor restarts the reactor: a pull in progress fails.
restart_reactor ==
    /\ state' = [queue |-> <<>>, cursors |-> [t \in Subscriber |-> 0]]
    /\ pc' = [t \in Subscriber |-> IF pc[t] = "pulling" THEN "waiting" ELSE pc[t]]
    /\ UNCHANGED <<bit, deaf, taken, reported, next_id>>

Client(t) == recv_notification(t) \/ pull(t) \/ handled(t)

Next ==
    \/ \E t \in Task, p \in Priorities :
          \/ \E g \in Group \cup {NoGroup} : refused(t, g, p)
          \/ \E g \in Group, code \in Code, s \in Strategy :
                push(t, g, code, p, s) \/ refresh(t, g, code, p, s)
    \/ \E t \in Subscriber : Client(t) \/ restart(t)
    \/ restart_reactor

Spec == Init /\ [][Next]_vars

\* The scheduler runs every subscriber again and again, and the reactor, which
\* is more important than they are, answers it.  Nothing is assumed of senders,
\* and nothing prevents restarts.
LiveSpec == Spec /\ \A t \in Subscriber : WF_vars(Client(t))

-----------------------------------------------------------------------------
\* Type correctness: in particular the queue holds only what its groups allow,
\* the priorities that a refresh carries over included.
TypeOK ==
    /\ state.queue \in Seq(Notification)
    /\ \A i \in 1..Len(state.queue) :
          LET n == state.queue[i] IN
          n.sender_index \in senders[n.group_id] /\ n.priority \in priority_range[n.group_id]
    /\ state.cursors \in [Subscriber -> 0..QUEUE_CAPACITY]
    /\ bit \in [Subscriber -> BOOLEAN]
    /\ pc \in [Subscriber -> {"waiting", "pulling", "handling"}]
    /\ deaf \in [Subscriber -> BOOLEAN]
    /\ taken \in [Subscriber -> SUBSET (1..MaxId)]
    /\ reported \in [Subscriber -> SUBSET (1..MaxId)]
    /\ next_id \in 1..(MaxId + 1)

\* No cursor is past the end of the queue, whatever is evicted, superseded or
\* collected under it, and the queue does not overflow: has_more_for's slice
\* and push's unwrap cannot panic.
CursorsInRange ==
    /\ Len(state.queue) <= QUEUE_CAPACITY
    /\ \A t \in Subscriber : state.cursors[t] <= Len(state.queue)

\* A subscriber with unread notifications will look for them: its bit is
\* pending or its loop is still pulling.  Only its own restart takes that away,
\* until the next notification for it.
NoLostWakeup ==
    \A t \in Subscriber : has_more_for(state, t) => bit[t] \/ pc[t] # "waiting" \/ deaf[t]

\* The queue, its cursors and its collection give every subscriber a mailbox
\* of its own, with the drop reports that the mailbox specification asks for.
Unread == [t \in Subscriber |->
              {state.queue[i].id : i \in {j \in 1..Len(state.queue) : Ahead(state, t, j)}}]
M == INSTANCE Mailboxes WITH inbox <- Unread
ImplementsMailboxes == M!MSpec

\* A notification is read, dropped or superseded in the end, unless its
\* subscriber is restarted.
Drains ==
    \A t \in Subscriber : \A id \in 1..MaxId : id \in Unread[t] ~> id \notin Unread[t] \/ deaf[t]

\* What the interface says of refresh: "remove it and re-push with the new
\* priority".
RefreshesPriority ==
    [][\A t \in Task, g \in Group, code \in Code, p \in Priorities, s \in Strategy :
          refresh(t, g, code, p, s)
          => LET last == state'.queue[Len(state'.queue)] IN
             state'.queue # <<>> /\ last.id = next_id => last.priority = p]_vars
=============================================================================
