----------------------------- MODULE Mailboxes -----------------------------
(***************************************************************************)
(* What the reactor promises its subscribers, without its shared queue,    *)
(* cursors or garbage collection: every subscriber has a mailbox of its    *)
(* own, from which it takes its notifications oldest first.  Notifications *)
(* are numbered in the order they are sent.  A notification leaves a       *)
(* mailbox by being taken, by being superseded by a refresh, by being      *)
(* reported as dropped, or with the reactor itself, and in no other way.   *)
(***************************************************************************)
EXTENDS Naturals

CONSTANTS
    Subscriber,
    MaxId         \* bound: notifications sent in a behaviour

VARIABLES
    inbox,     \* subscriber -> the numbers of its unread notifications
    taken,     \* subscriber -> the numbers of those it has taken
    reported,  \* subscriber -> the numbers of those reported dropped for it
    next_id

mvars == <<inbox, taken, reported, next_id>>

MInit ==
    /\ inbox = [t \in Subscriber |-> {}]
    /\ taken = [t \in Subscriber |-> {}]
    /\ reported = [t \in Subscriber |-> {}]
    /\ next_id = 1

\* A new notification for the subscribers in S replaces old in every mailbox.
Replace(S, old) ==
    /\ next_id <= MaxId /\ next_id' = next_id + 1
    /\ inbox' = [t \in Subscriber |-> (inbox[t] \ {old}) \cup (IF t \in S THEN {next_id} ELSE {})]
    /\ UNCHANGED taken

accept(S) == Replace(S, 0) /\ UNCHANGED reported

\* Only subscribers that get the new notification lose the old one.
supersede(S, old) ==
    /\ \A t \in Subscriber : old \in inbox[t] => t \in S
    /\ Replace(S, old) /\ UNCHANGED reported

\* The drop is reported for those that have not read old, and for no other.
evict(S, old) ==
    /\ Replace(S, old)
    /\ reported' = [t \in Subscriber |->
                       reported[t] \cup (IF old \in inbox[t] THEN {old} ELSE {})]

reject(S) ==
    /\ next_id <= MaxId /\ next_id' = next_id + 1
    /\ reported' = [t \in Subscriber |-> reported[t] \cup (IF t \in S THEN {next_id} ELSE {})]
    /\ UNCHANGED <<inbox, taken>>

take(t, i) ==
    /\ i \in inbox[t] /\ \A j \in inbox[t] : i <= j
    /\ inbox' = [inbox EXCEPT ![t] = @ \ {i}]
    /\ taken' = [taken EXCEPT ![t] = @ \cup {i}]
    /\ UNCHANGED <<reported, next_id>>

reset == inbox' = [t \in Subscriber |-> {}] /\ UNCHANGED <<taken, reported, next_id>>

MNext ==
    \/ \E S \in SUBSET Subscriber :
          \/ accept(S) \/ reject(S)
          \/ \E old \in 1..MaxId : supersede(S, old) \/ evict(S, old)
    \/ \E t \in Subscriber, i \in 1..MaxId : take(t, i)
    \/ reset

MSpec == MInit /\ [][MNext]_mvars

-----------------------------------------------------------------------------
\* A notification is read at most once, and what was reported dropped is never
\* read: a notification is in one place.
ReadOnce ==
    \A t \in Subscriber :
        inbox[t] \cap taken[t] = {} /\ inbox[t] \cap reported[t] = {} /\ taken[t] \cap reported[t] = {}

\* Notifications are read in the order they were sent: what is unread is newer
\* than everything that was read.
ReadInOrder == \A t \in Subscriber : \A i \in inbox[t], j \in taken[t] : j < i
=============================================================================
