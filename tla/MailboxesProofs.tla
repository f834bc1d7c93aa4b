-------------------------- MODULE MailboxesProofs --------------------------
(***************************************************************************)
(* A subscriber of the mailboxes reads every notification at most once and *)
(* in the order of sending, for any number of subscribers and of           *)
(* notifications.                                                          *)
(***************************************************************************)
EXTENDS Mailboxes, TLAPS

\* Numbers are handed out once: every number in use is below the next one.
Places(t) == inbox[t] \cup taken[t] \cup reported[t]
IInv ==
    /\ next_id \in Nat \ {0}
    /\ inbox \in [Subscriber -> SUBSET Nat]
    /\ taken \in [Subscriber -> SUBSET Nat]
    /\ reported \in [Subscriber -> SUBSET Nat]
    /\ \A t \in Subscriber : \A i \in Places(t) : i < next_id
    /\ ReadOnce
    /\ ReadInOrder

\* A new notification that replaces an old one keeps the order, whether or not
\* the drop of the old one is reported.
LEMMA ReplaceStep ==
    ASSUME IInv, NEW S, NEW old \in Nat, Replace(S, old),
           \/ UNCHANGED reported
           \/ reported' = [t \in Subscriber |->
                              reported[t] \cup (IF old \in inbox[t] THEN {old} ELSE {})]
    PROVE  IInv'
<1>1. /\ next_id' = next_id + 1
      /\ taken' = taken
      /\ inbox' \in [Subscriber -> SUBSET Nat]
      /\ \A t \in Subscriber : \A i \in inbox'[t] : (i \in inbox[t] /\ i # old) \/ i = next_id
  BY DEF IInv, Replace
<1>2. /\ reported' \in [Subscriber -> SUBSET Nat]
      /\ \A t \in Subscriber : \A i \in reported'[t] :
            i \in reported[t] \/ (i = old /\ i \in inbox[t])
  BY DEF IInv
<1>3. next_id' \in Nat \ {0}
  BY <1>1 DEF IInv
<1>4. \A t \in Subscriber : \A i \in Places(t)' : i < next_id'
  BY <1>1, <1>2 DEF IInv, Places
<1>5. ReadOnce'
  BY <1>1, <1>2 DEF IInv, Places, ReadOnce
<1>6. ReadInOrder'
  BY <1>1 DEF IInv, Places, ReadInOrder
<1> QED
  BY <1>1, <1>2, <1>3, <1>4, <1>5, <1>6 DEF IInv

\* Rejecting a notification uses up its number.
LEMMA RejectStep == ASSUME IInv, NEW S, reject(S) PROVE IInv'
<1>1. /\ next_id' = next_id + 1
      /\ taken' = taken /\ inbox' = inbox
      /\ reported' \in [Subscriber -> SUBSET Nat]
      /\ \A t \in Subscriber : \A i \in reported'[t] : i \in reported[t] \/ i = next_id
  BY DEF IInv, reject
<1>2. next_id' \in Nat \ {0}
  BY <1>1 DEF IInv
<1>3. \A t \in Subscriber : \A i \in Places(t)' : i < next_id'
  BY <1>1 DEF IInv, Places
<1>4. ReadOnce' /\ ReadInOrder'
  BY <1>1 DEF IInv, Places, ReadOnce, ReadInOrder
<1> QED
  BY <1>1, <1>2, <1>3, <1>4 DEF IInv

\* Taking the oldest notification leaves only newer ones.
LEMMA TakeStep ==
    ASSUME IInv, NEW t \in Subscriber, NEW i \in Nat, take(t, i) PROVE IInv'
<1>1. /\ next_id' = next_id /\ reported' = reported
      /\ inbox' \in [Subscriber -> SUBSET Nat] /\ taken' \in [Subscriber -> SUBSET Nat]
      /\ \A u \in Subscriber : \A j \in inbox'[u] : j \in inbox[u] /\ ~(u = t /\ j = i)
      /\ \A u \in Subscriber : \A j \in taken'[u] : j \in taken[u] \/ (u = t /\ j = i)
      /\ i \in inbox[t] /\ \A j \in inbox[t] : i <= j
  BY DEF IInv, take
<1>2. \A u \in Subscriber : \A j \in Places(u)' : j < next_id'
  BY <1>1 DEF IInv, Places
<1>3. ReadOnce'
  BY <1>1 DEF IInv, ReadOnce
<1>4. ReadInOrder'
  BY <1>1 DEF IInv, ReadInOrder
<1> QED
  BY <1>1, <1>2, <1>3, <1>4 DEF IInv

\* The order of reading and the single place of a notification are invariant.
THEOREM MailboxesInvariant == MSpec => []IInv
<1>1. MInit => IInv
  BY DEF MInit, IInv, Places, ReadOnce, ReadInOrder
<1>2. IInv /\ [MNext]_mvars => IInv'
  <2> SUFFICES ASSUME IInv, [MNext]_mvars PROVE IInv'
    OBVIOUS
  <2>1. ASSUME NEW S \in SUBSET Subscriber, accept(S) PROVE IInv'
    BY <2>1, ReplaceStep DEF accept
  <2>2. ASSUME NEW S \in SUBSET Subscriber, reject(S) PROVE IInv'
    BY <2>2, RejectStep
  <2>3. ASSUME NEW S \in SUBSET Subscriber, NEW old \in 1..MaxId, supersede(S, old) PROVE IInv'
    BY <2>3, ReplaceStep DEF supersede
  <2>4. ASSUME NEW S \in SUBSET Subscriber, NEW old \in 1..MaxId, evict(S, old) PROVE IInv'
    BY <2>4, ReplaceStep DEF evict
  <2>5. ASSUME NEW t \in Subscriber, NEW i \in 1..MaxId, take(t, i) PROVE IInv'
    BY <2>5, TakeStep
  <2>6. CASE reset
    BY <2>6 DEF reset, IInv, Places, ReadOnce, ReadInOrder
  <2>7. CASE UNCHANGED mvars
    BY <2>7 DEF mvars, IInv, Places, ReadOnce, ReadInOrder
  <2> QED
    BY <2>1, <2>2, <2>3, <2>4, <2>5, <2>6, <2>7 DEF MNext
<1> QED
  BY <1>1, <1>2, PTL DEF MSpec

\* No notification is read twice, or read after its drop was reported.
THEOREM MailboxesReadOnce == MSpec => []ReadOnce
  BY MailboxesInvariant, PTL DEF IInv

\* Every subscriber reads its notifications in the order they were sent.
THEOREM MailboxesReadInOrder == MSpec => []ReadInOrder
  BY MailboxesInvariant, PTL DEF IInv
=============================================================================
