--------------------------- MODULE ReactorProofs ---------------------------
(***************************************************************************)
(* The reactor's invariants, and that it implements the mailboxes, for     *)
(* every set of tasks and groups, every queue capacity and any number of   *)
(* notifications.                                                          *)
(*                                                                         *)
(* The queue is sorted by the numbers of its notifications and holds only  *)
(* numbers that were handed out, so the unread notifications of a          *)
(* subscriber are told apart by their numbers, the first one ahead of its  *)
(* cursor is its oldest, and what an operation does to the queue and to    *)
(* the cursors is known from what it does to the unread numbers.           *)
(***************************************************************************)
EXTENDS Reactor, SequenceTheorems, WellFoundedInduction, TLAPS

Allowed(n) == n.sender_index \in senders[n.group_id] /\ n.priority \in priority_range[n.group_id]

States == [queue : Seq(Notification), cursors : [Subscriber -> Nat]]

\* A state of the reactor that it can work on.
Sound(st) ==
    /\ st \in States
    /\ Len(st.queue) <= QUEUE_CAPACITY
    /\ \A t \in Subscriber : st.cursors[t] <= Len(st.queue)
    /\ \A i \in 1..Len(st.queue) : Allowed(st.queue[i])
    /\ \A i, j \in 1..Len(st.queue) : i < j => st.queue[i].id < st.queue[j].id

\* The numbers that subscriber t has not read in st.
UnreadIn(st, t) ==
    {st.queue[i].id : i \in {j \in 1..Len(st.queue) : Ahead(st, t, j)}}

-----------------------------------------------------------------------------
\* A nonempty set of naturals has a least element, which is what Min returns.
LEMMA MinOfNaturals ==
    ASSUME NEW S \in SUBSET Nat, S # {}
    PROVE  Min(S) \in S /\ \A y \in S : Min(S) <= y
<1> DEFINE R == OpToRel(<, Nat)
<1>1. PICK x \in S : \A y \in S : ~ (<<y, x>> \in R)
  BY WFMin, NatLessThanWellFounded, ZenonT(30)
<1>2. \A y \in Nat : y < x => <<y, x>> \in R
  BY DEF OpToRel
<1> HIDE DEF R
<1>3. \A y \in S : x <= y
  <2> TAKE y \in S
  <2>1. x \in Nat /\ y \in Nat /\ ~(y < x)
    BY <1>1, <1>2, ZenonT(30)
  <2> QED
    BY ONLY <2>1
<1> QED
  BY <1>3, ZenonT(30) DEF Min

\* A nonempty set of naturals with an upper bound has a greatest element,
\* which is what Max returns.
LEMMA MaxOfNaturals ==
    ASSUME NEW n \in Nat, NEW S \in SUBSET (0..n), S # {}
    PROVE  Max(S) \in S /\ \A y \in S : y <= Max(S)
<1> DEFINE T == {n - x : x \in S}
<1>1. T \in SUBSET Nat /\ T # {}
  <2>1. \A x \in S : n - x \in Nat
    OBVIOUS
  <2> QED
    BY <2>1, ZenonT(30)
<1>2. Min(T) \in T /\ \A y \in T : Min(T) <= y
  BY <1>1, MinOfNaturals, ZenonT(30)
<1>3. PICK x \in S : Min(T) = n - x
  BY <1>2, ZenonT(30)
<1>4. \A y \in S : n - x <= n - y
  BY <1>2, <1>3, ZenonT(30)
<1>5. \A y \in S : x >= y
  BY <1>4
<1> QED
  BY <1>5, ZenonT(30) DEF Max

\* What evict returns is the place of an entry, or 0.
LEMMA EvictInRange ==
    ASSUME NEW st, Len(st.queue) \in Nat, NEW p, NEW strategy \in Strategy
    PROVE  evict(st, p, strategy) \in 0..Len(st.queue)
<1> DEFINE I == {i \in 1..Len(st.queue) : st.queue[i].priority <= p}
<1>1. I \in SUBSET Nat /\ I \in SUBSET (0..Len(st.queue))
  OBVIOUS
<1>2. I # {} => Min(I) \in I
  BY <1>1, MinOfNaturals, ZenonT(30)
<1>3. I # {} => Max(I) \in I
  BY <1>1, MaxOfNaturals, ZenonT(30)
<1> QED
  BY <1>2, <1>3, SMTT(30) DEF evict, Strategy

\* The entry that a refresh replaces is one of the same group.
LEMMA MatchInRange ==
    ASSUME Len(state.queue) \in Nat, NEW t, NEW g, NEW code
    PROVE  /\ Match(t, g, code) \in 0..Len(state.queue)
           /\ Match(t, g, code) # 0 => state.queue[Match(t, g, code)].group_id = g
<1> DEFINE Test(n) == n.sender_index = t /\ n.group_id = g /\ n.code = code
           I == {i \in 1..Len(state.queue) : Test(state.queue[i])}
<1>1. I \in SUBSET Nat
  OBVIOUS
<1>2. I # {} => Min(I) \in I
  BY <1>1, MinOfNaturals, ZenonT(30)
<1>3. Match(t, g, code) = IF I = {} THEN 0 ELSE Min(I)
  BY ZenonT(30) DEF Match
<1> QED
  BY <1>2, <1>3

-----------------------------------------------------------------------------
\* What is ahead of a cursor, by its number.
LEMMA InUnread ==
    ASSUME NEW st, NEW t, NEW id
    PROVE  id \in UnreadIn(st, t)
           <=> \E i \in 1..Len(st.queue) : Ahead(st, t, i) /\ st.queue[i].id = id
  BY DEF UnreadIn

\* A subscriber has more exactly when something is unread.
LEMMA HasMoreIsUnread ==
    ASSUME NEW st, NEW t
    PROVE  has_more_for(st, t) <=> UnreadIn(st, t) # {}
  BY ZenonT(30) DEF UnreadIn, has_more_for

\* Groups have only subscribers.
LEMMA GroupsOfSubscribers ==
    ASSUME NEW g \in Group PROVE group_subscribers[g] \in SUBSET Subscriber
  BY DEF Subscriber

\* The place, before the removal of entry i, of the k-th entry after it.
Before(i, k) == IF k < i THEN k ELSE k + 1

\* Before(i, _) numbers the positions other than i, in order.
LEMMA BeforeFacts ==
    ASSUME NEW n \in Nat, NEW i \in 1..n
    PROVE  /\ \A k \in 1..(n - 1) : Before(i, k) \in 1..n /\ Before(i, k) # i
           /\ \A k, j \in 1..(n - 1) : k < j => Before(i, k) < Before(i, j)
           /\ \A j \in 1..n : j # i => \E k \in 1..(n - 1) : j = Before(i, k)
<1>1. /\ \A k \in 1..(n - 1) : Before(i, k) \in 1..n /\ Before(i, k) # i
      /\ \A k, j \in 1..(n - 1) : k < j => Before(i, k) < Before(i, j)
  BY DEF Before
<1>2. ASSUME NEW j \in 1..n, j # i PROVE \E k \in 1..(n - 1) : j = Before(i, k)
  <2>1. CASE j < i
    BY <2>1 DEF Before
  <2>2. CASE j > i
    <3>1. j - 1 \in 1..(n - 1) /\ j = Before(i, j - 1)
      BY <2>2 DEF Before
    <3> QED
      BY <3>1
  <2> QED
    BY <2>1, <2>2, <1>2
<1> QED
  BY <1>1, <1>2

\* Removing an entry closes the gap, and takes its number from every
\* subscriber that had not read it.
LEMMA RemoveFacts ==
    ASSUME NEW st, Sound(st), NEW i \in 1..Len(st.queue)
    PROVE  LET r == remove_and_adjust_cursors(st, i) IN
           /\ r.queue \in Seq(Notification)
           /\ Len(r.queue) = Len(st.queue) - 1
           /\ \A k \in 1..(Len(st.queue) - 1) : r.queue[k] = st.queue[Before(i, k)]
           /\ r.cursors = [t \in Subscriber |->
                              IF st.cursors[t] >= i THEN st.cursors[t] - 1 ELSE st.cursors[t]]
           /\ r = [queue |-> r.queue, cursors |-> r.cursors]
<1> DEFINE q == st.queue
           a == SubSeq(q, 1, i - 1)
           b == SubSeq(q, i + 1, Len(q))
<1>1. q \in Seq(Notification) /\ Len(q) \in Nat /\ i \in 1..Len(q)
  BY DEF Sound, States
<1>2. /\ a \in Seq(Notification) /\ Len(a) = i - 1
      /\ \A k \in 1..(i - 1) : a[k] = q[k]
  BY <1>1, SubSeqProperties
<1>3. /\ b \in Seq(Notification) /\ Len(b) = Len(q) - i
      /\ \A k \in 1..(Len(q) - i) : b[k] = q[i + k]
  BY <1>1, SubSeqProperties
<1> HIDE DEF a, b, q
<1>4. /\ a \o b \in Seq(Notification) /\ Len(a \o b) = Len(q) - 1
      /\ \A k \in 1..(Len(q) - 1) : (a \o b)[k] = q[Before(i, k)]
  <2>1. /\ a \o b \in Seq(Notification) /\ Len(a \o b) = Len(a) + Len(b)
        /\ \A k \in 1..(Len(a) + Len(b)) :
              (a \o b)[k] = IF k <= Len(a) THEN a[k] ELSE b[k - Len(a)]
    BY <1>2, <1>3, ConcatProperties, ZenonT(30)
  <2>2. Len(a) + Len(b) = Len(q) - 1
    BY <1>1, <1>2, <1>3
  <2>3. ASSUME NEW k \in 1..(Len(q) - 1) PROVE (a \o b)[k] = q[Before(i, k)]
    <3>1. CASE k < i
      BY <3>1, <1>1, <1>2, <2>1, <2>2 DEF Before
    <3>2. CASE k >= i
      <4>1. /\ k - Len(a) \in 1..(Len(q) - i) /\ i + (k - Len(a)) = k + 1
            /\ (a \o b)[k] = b[k - Len(a)]
        BY <3>2, <1>1, <1>2, <2>1, <2>2
      <4>2. b[k - Len(a)] = q[i + (k - Len(a))] /\ Before(i, k) = k + 1
        BY <3>2, <4>1, <1>1, <1>3 DEF Before
      <4> QED
        BY <4>1, <4>2
    <3>3. k \in Int /\ i \in Int
      BY <1>1
    <3>4. k < i \/ k >= i
      BY ONLY <3>3
    <3> QED
      BY <3>1, <3>2, <3>4, ZenonT(30)
  <2> QED
    BY <2>1, <2>2, <2>3
<1> QED
  BY <1>4, ZenonT(30) DEF remove_and_adjust_cursors, a, b, q

\* What is left after a removal is sound.
LEMMA RemoveSound ==
    ASSUME NEW st, Sound(st), NEW i \in 1..Len(st.queue)
    PROVE  Sound(remove_and_adjust_cursors(st, i))
<1> DEFINE r == remove_and_adjust_cursors(st, i)
<1>1. /\ r.queue \in Seq(Notification)
      /\ Len(r.queue) = Len(st.queue) - 1
      /\ \A k \in 1..(Len(st.queue) - 1) : r.queue[k] = st.queue[Before(i, k)]
      /\ r.cursors = [t \in Subscriber |->
                         IF st.cursors[t] >= i THEN st.cursors[t] - 1 ELSE st.cursors[t]]
      /\ r = [queue |-> r.queue, cursors |-> r.cursors]
  BY RemoveFacts, ZenonT(30)
<1>2. /\ st.queue \in Seq(Notification) /\ Len(st.queue) \in Nat
      /\ st.cursors \in [Subscriber -> Nat] /\ QUEUE_CAPACITY \in Nat
      /\ \A t \in Subscriber : st.cursors[t] <= Len(st.queue)
      /\ Len(st.queue) <= QUEUE_CAPACITY
  BY ReactorAssumption DEF Sound, States
<1> HIDE DEF r
<1>3. r.cursors \in [Subscriber -> Nat] /\ \A t \in Subscriber : r.cursors[t] <= Len(r.queue)
  BY <1>1, <1>2
<1> DEFINE n == Len(st.queue)
<1>4. n \in Nat /\ i \in 1..n /\ Len(r.queue) = n - 1
  BY <1>1, <1>2
<1> HIDE DEF n
<1>5. /\ \A k \in 1..Len(r.queue) : Allowed(r.queue[k])
      /\ \A k, j \in 1..Len(r.queue) : k < j => r.queue[k].id < r.queue[j].id
  <2>1. /\ \A k \in 1..n : Allowed(st.queue[k])
        /\ \A k, j \in 1..n : k < j => st.queue[k].id < st.queue[j].id
    BY DEF Sound, n
  <2>2. /\ \A k \in 1..(n - 1) : Before(i, k) \in 1..n
        /\ \A k, j \in 1..(n - 1) : k < j => Before(i, k) < Before(i, j)
    BY <1>4, BeforeFacts, ZenonT(30)
  <2>3. \A k \in 1..(n - 1) : r.queue[k] = st.queue[Before(i, k)]
    BY <1>1, <1>4, ZenonT(30) DEF n
  <2> QED
    BY <1>4, <2>1, <2>2, <2>3, ZenonT(30)
<1>6. r \in States
  BY <1>1, <1>3 DEF States
<1> QED
  BY <1>1, <1>2, <1>3, <1>5, <1>6 DEF Sound, r

\* An entry of a sound queue is a notification.
LEMMA EntryFacts ==
    ASSUME NEW st, Sound(st), NEW i \in 1..Len(st.queue)
    PROVE  /\ st.queue[i] \in Notification
           /\ st.queue[i].id \in 1..MaxId
           /\ st.queue[i].group_id \in Group
<1>1. st.queue[i] \in Notification
  BY DEF Sound, States
<1> QED
  BY <1>1 DEF Notification

\* Two entries of a sound queue have different numbers.
LEMMA NumbersDiffer ==
    ASSUME NEW st, Sound(st)
    PROVE  /\ \A i \in 1..Len(st.queue) : st.queue[i].id \in 1..MaxId
           /\ \A i, j \in 1..Len(st.queue) : i # j => st.queue[i].id # st.queue[j].id
<1>1. \A i \in 1..Len(st.queue) : st.queue[i].id \in 1..MaxId
  BY EntryFacts
<1>2. ASSUME NEW i \in 1..Len(st.queue), NEW j \in 1..Len(st.queue), i # j
      PROVE  st.queue[i].id # st.queue[j].id
  <2>1. st.queue[i].id < st.queue[j].id \/ st.queue[j].id < st.queue[i].id
    BY <1>2 DEF Sound, States
  <2> QED
    BY <2>1, <1>1, ReactorAssumption
<1> QED
  BY <1>1, <1>2

\* A removal takes the number of the entry from everybody, and no other.
LEMMA RemoveUnread ==
    ASSUME NEW st, Sound(st), NEW i \in 1..Len(st.queue), NEW t \in Subscriber
    PROVE  UnreadIn(remove_and_adjust_cursors(st, i), t)
           = UnreadIn(st, t) \ {st.queue[i].id}
<1> DEFINE r == remove_and_adjust_cursors(st, i)
           n == Len(st.queue)
<1>1. /\ Len(r.queue) = n - 1
      /\ \A k \in 1..(n - 1) : r.queue[k] = st.queue[Before(i, k)]
      /\ r.cursors = [u \in Subscriber |->
                         IF st.cursors[u] >= i THEN st.cursors[u] - 1 ELSE st.cursors[u]]
  BY RemoveFacts, SMTT(30)
<1>2. n \in Nat /\ i \in 1..n /\ st.cursors[t] \in Nat
  BY DEF Sound, States
<1>3. \A j \in 1..n : j # i => st.queue[j].id # st.queue[i].id
  BY NumbersDiffer
<1>4. /\ \A k \in 1..(n - 1) : Before(i, k) \in 1..n /\ Before(i, k) # i
      /\ \A j \in 1..n : j # i => \E k \in 1..(n - 1) : j = Before(i, k)
  BY <1>2, BeforeFacts, ZenonT(30)
<1> HIDE DEF r
<1>5. ASSUME NEW k \in 1..(n - 1)
      PROVE  Ahead(r, t, k) <=> Ahead(st, t, Before(i, k))
  <2>1. k > r.cursors[t] <=> Before(i, k) > st.cursors[t]
    BY <1>1, <1>2 DEF Before
  <2> QED
    BY <2>1, <1>1 DEF Ahead
<1>6. ASSUME NEW id \in UnreadIn(r, t) PROVE id \in UnreadIn(st, t) /\ id # st.queue[i].id
  <2>1. PICK k \in 1..(n - 1) : Ahead(r, t, k) /\ r.queue[k].id = id
    BY <1>1, InUnread
  <2>2. Before(i, k) \in 1..n /\ Before(i, k) # i /\ Ahead(st, t, Before(i, k))
        /\ st.queue[Before(i, k)].id = id
    BY <1>1, <1>4, <1>5, <2>1
  <2> QED
    BY <1>3, <2>2, InUnread
<1>7. ASSUME NEW id \in UnreadIn(st, t), id # st.queue[i].id PROVE id \in UnreadIn(r, t)
  <2>1. PICK j \in 1..n : Ahead(st, t, j) /\ st.queue[j].id = id
    BY InUnread
  <2>2. PICK k \in 1..(n - 1) : j = Before(i, k)
    BY <1>4, <1>7, <2>1
  <2>3. Ahead(r, t, k) /\ r.queue[k].id = id
    BY <2>1, <2>2, <1>1, <1>5
  <2> QED
    BY <2>3, <1>1, InUnread
<1> QED
  BY <1>6, <1>7 DEF r

-----------------------------------------------------------------------------
\* gc takes k entries off the front that all their subscribers have read, and
\* lowers the cursors by as much.
LEMMA GcFacts ==
    ASSUME NEW st, Sound(st)
    PROVE  LET k == Collectable(st)
               r == gc(st) IN
           /\ k \in 0..Len(st.queue)
           /\ \A i \in 1..k : Consumed(st, i)
           /\ r.queue \in Seq(Notification)
           /\ Len(r.queue) = Len(st.queue) - k
           /\ \A i \in 1..(Len(st.queue) - k) : r.queue[i] = st.queue[i + k]
           /\ r.cursors = [t \in Subscriber |->
                              IF st.cursors[t] > k THEN st.cursors[t] - k ELSE 0]
           /\ r = [queue |-> r.queue, cursors |-> r.cursors]
<1> DEFINE q == st.queue
           K == {k \in 0..Len(q) : \A i \in 1..k : Consumed(st, i)}
<1>1. q \in Seq(Notification) /\ Len(q) \in Nat
  BY DEF Sound, States
<1>2. K \in SUBSET (0..Len(q)) /\ 0 \in K
  BY <1>1
<1>3. Collectable(st) = Max(K)
  BY DEF Collectable
<1>4. Collectable(st) \in K
  BY <1>1, <1>2, <1>3, MaxOfNaturals, ZenonT(30)
<1> DEFINE k == Collectable(st)
<1>5. k \in 0..Len(q) /\ \A i \in 1..k : Consumed(st, i)
  BY <1>4
<1> HIDE DEF k, K
<1>6. /\ SubSeq(q, k + 1, Len(q)) \in Seq(Notification)
      /\ Len(SubSeq(q, k + 1, Len(q))) = Len(q) - k
      /\ \A i \in 1..(Len(q) - k) : SubSeq(q, k + 1, Len(q))[i] = q[i + k]
  BY <1>1, <1>5, SubSeqProperties
<1> QED
  BY <1>5, <1>6 DEF gc, k

\* What gc leaves is sound.
LEMMA GcSound ==
    ASSUME NEW st, Sound(st)
    PROVE  Sound(gc(st)) /\ Len(gc(st).queue) <= Len(st.queue)
<1> DEFINE k == Collectable(st)
           r == gc(st)
           n == Len(st.queue)
<1>1. /\ k \in 0..n
      /\ r.queue \in Seq(Notification)
      /\ Len(r.queue) = n - k
      /\ \A i \in 1..(n - k) : r.queue[i] = st.queue[i + k]
      /\ r.cursors = [t \in Subscriber |->
                         IF st.cursors[t] > k THEN st.cursors[t] - k ELSE 0]
      /\ r = [queue |-> r.queue, cursors |-> r.cursors]
  BY GcFacts, ZenonT(30)
<1>2. /\ n \in Nat /\ n <= QUEUE_CAPACITY /\ QUEUE_CAPACITY \in Nat
      /\ st.cursors \in [Subscriber -> Nat]
      /\ \A t \in Subscriber : st.cursors[t] <= n
      /\ \A i \in 1..n : Allowed(st.queue[i])
      /\ \A i, j \in 1..n : i < j => st.queue[i].id < st.queue[j].id
  BY ReactorAssumption DEF Sound, States
<1> HIDE DEF k, r, n
<1>3. r.cursors \in [Subscriber -> Nat] /\ \A t \in Subscriber : r.cursors[t] <= Len(r.queue)
  BY <1>1, <1>2
<1>4. /\ \A i \in 1..(n - k) : i + k \in 1..n
      /\ \A i, j \in 1..(n - k) : i < j => i + k < j + k
  BY <1>1, <1>2
<1>5. /\ \A i \in 1..Len(r.queue) : Allowed(r.queue[i])
      /\ \A i, j \in 1..Len(r.queue) : i < j => r.queue[i].id < r.queue[j].id
  <2>1. ASSUME NEW i \in 1..(n - k) PROVE Allowed(r.queue[i])
    BY <1>1, <1>2, <1>4
  <2>2. ASSUME NEW i \in 1..(n - k), NEW j \in 1..(n - k), i < j
        PROVE  r.queue[i].id < r.queue[j].id
    BY <1>1, <1>2, <1>4, <2>2, ZenonT(30)
  <2> QED
    BY <1>1, <2>1, <2>2
<1>6. r \in States
  BY <1>1, <1>3 DEF States
<1>7. Len(r.queue) <= QUEUE_CAPACITY /\ Len(r.queue) <= n
  BY <1>1, <1>2
<1> QED
  BY <1>3, <1>5, <1>6, <1>7 DEF Sound, r, n

\* gc takes nothing that somebody has not read.
LEMMA GcUnread ==
    ASSUME NEW st, Sound(st), NEW t \in Subscriber
    PROVE  UnreadIn(gc(st), t) = UnreadIn(st, t)
<1> DEFINE k == Collectable(st)
           r == gc(st)
           n == Len(st.queue)
<1>1. /\ k \in 0..n
      /\ \A i \in 1..k : Consumed(st, i)
      /\ Len(r.queue) = n - k
      /\ \A i \in 1..(n - k) : r.queue[i] = st.queue[i + k]
      /\ r.cursors = [u \in Subscriber |->
                         IF st.cursors[u] > k THEN st.cursors[u] - k ELSE 0]
  BY GcFacts, ZenonT(30)
<1>2. n \in Nat /\ st.cursors[t] \in Nat
  BY DEF Sound, States
<1> HIDE DEF k, r
<1>3. ASSUME NEW i \in 1..(n - k)
      PROVE  i + k \in 1..n /\ (Ahead(r, t, i) <=> Ahead(st, t, i + k))
  <2>1. i + k \in 1..n /\ (i > r.cursors[t] <=> i + k > st.cursors[t])
    BY <1>1, <1>2
  <2> QED
    BY <2>1, <1>1, ZenonT(30) DEF Ahead
<1>4. ASSUME NEW id \in UnreadIn(r, t) PROVE id \in UnreadIn(st, t)
  <2>1. PICK i \in 1..(n - k) : Ahead(r, t, i) /\ r.queue[i].id = id
    BY <1>1, InUnread
  <2>2. i + k \in 1..n /\ Ahead(st, t, i + k) /\ st.queue[i + k].id = id
    BY <1>1, <1>3, <2>1
  <2> QED
    BY <2>2, InUnread
<1>5. ASSUME NEW id \in UnreadIn(st, t) PROVE id \in UnreadIn(r, t)
  <2>1. PICK j \in 1..n : Ahead(st, t, j) /\ st.queue[j].id = id
    BY InUnread
  <2>2. j > k
    <3>1. j \in 1..k => st.cursors[t] >= j
      BY <1>1, <2>1 DEF Consumed, Ahead
    <3> QED
      BY <3>1, <2>1, <1>1, <1>2 DEF Ahead
  <2>3. j - k \in 1..(n - k) /\ (j - k) + k = j
    BY <2>2, <1>1, <1>2
  <2>4. Ahead(r, t, j - k) /\ r.queue[j - k].id = id
    BY <1>1, <1>3, <2>1, <2>3
  <2> QED
    BY <2>3, <2>4, <1>1, InUnread, SMTT(30)
<1> QED
  BY <1>4, <1>5 DEF r

-----------------------------------------------------------------------------
\* The two updates of a state that keep one of its fields.
LEMMA UpdatedState ==
    ASSUME NEW st \in States
    PROVE  /\ \A q \in Seq(Notification) :
                 LET r == [st EXCEPT !.queue = q] IN
                 r \in States /\ r.queue = q /\ r.cursors = st.cursors
           /\ \A t \in Subscriber, c \in Nat :
                 LET r == [st EXCEPT !.cursors[t] = c] IN
                 r \in States /\ r.queue = st.queue /\ r.cursors = [st.cursors EXCEPT ![t] = c]
  BY SMTT(30) DEF States

\* A notification that may be sent and has a new number goes to the back.
LEMMA AppendSound ==
    ASSUME NEW st, Sound(st), Len(st.queue) < QUEUE_CAPACITY,
           NEW n \in Notification, Allowed(n),
           \A i \in 1..Len(st.queue) : st.queue[i].id < n.id
    PROVE  Sound([st EXCEPT !.queue = Append(@, n)])
<1> DEFINE r == [st EXCEPT !.queue = Append(@, n)]
           m == Len(st.queue)
<1>1. /\ st.queue \in Seq(Notification) /\ m \in Nat /\ QUEUE_CAPACITY \in Nat
      /\ st.cursors \in [Subscriber -> Nat]
      /\ \A t \in Subscriber : st.cursors[t] <= m
      /\ \A i \in 1..m : Allowed(st.queue[i])
      /\ \A i, j \in 1..m : i < j => st.queue[i].id < st.queue[j].id
  BY ReactorAssumption DEF Sound, States
<1>2. r.queue = Append(st.queue, n) /\ r.cursors = st.cursors /\ r \in States
  <2>1. Append(st.queue, n) \in Seq(Notification)
    BY <1>1, AppendProperties
  <2> QED
    BY <2>1, UpdatedState, ZenonT(30) DEF Sound
<1>3. /\ Len(r.queue) = m + 1
      /\ \A i \in 1..m : r.queue[i] = st.queue[i]
      /\ r.queue[m + 1] = n
  BY <1>1, <1>2, AppendProperties
<1> HIDE DEF r, m
<1>4. \A t \in Subscriber : r.cursors[t] <= Len(r.queue)
  BY <1>1, <1>2, <1>3
<1>5. \A i \in 1..Len(r.queue) : Allowed(r.queue[i])
  BY <1>1, <1>3
<1>6. ASSUME NEW i \in 1..Len(r.queue), NEW j \in 1..Len(r.queue), i < j
      PROVE  r.queue[i].id < r.queue[j].id
  <2>1. CASE j = m + 1
    <3>1. i \in 1..m
      BY <2>1, <1>1, <1>3, <1>6
    <3> QED
      BY <2>1, <3>1, <1>3 DEF m
  <2>2. CASE j # m + 1
    <3>1. i \in 1..m /\ j \in 1..m
      BY <2>2, <1>1, <1>3, <1>6
    <3> QED
      BY <3>1, <1>1, <1>3, <1>6, SMTT(30)
  <2> QED
    BY <2>1, <2>2
<1>7. Len(r.queue) <= QUEUE_CAPACITY
  BY <1>1, <1>3 DEF m
<1> QED
  BY <1>2, <1>4, <1>5, <1>6, <1>7 DEF Sound, r

\* It is unread for the subscribers of its group.
LEMMA AppendUnread ==
    ASSUME NEW st, Sound(st), NEW n \in Notification, NEW t \in Subscriber
    PROVE  UnreadIn([st EXCEPT !.queue = Append(@, n)], t)
           = UnreadIn(st, t) \cup (IF t \in group_subscribers[n.group_id] THEN {n.id} ELSE {})
<1> DEFINE r == [st EXCEPT !.queue = Append(@, n)]
           m == Len(st.queue)
<1>1. st.queue \in Seq(Notification) /\ m \in Nat /\ st.cursors[t] \in Nat /\ st.cursors[t] <= m
  BY DEF Sound, States
<1>2. r.queue = Append(st.queue, n) /\ r.cursors = st.cursors
  BY DEF Sound, States
<1>3. /\ Len(r.queue) = m + 1
      /\ \A i \in 1..m : r.queue[i] = st.queue[i]
      /\ r.queue[m + 1] = n
  BY <1>1, <1>2, AppendProperties
<1> HIDE DEF r
<1>4. /\ \A i \in 1..m : Ahead(r, t, i) <=> Ahead(st, t, i)
      /\ Ahead(r, t, m + 1) <=> t \in group_subscribers[n.group_id]
  BY <1>1, <1>2, <1>3 DEF Ahead
<1>5. /\ 1..m \subseteq 1..(m + 1) /\ m + 1 \in 1..(m + 1)
      /\ \A i \in 1..(m + 1) : i \in 1..m \/ i = m + 1
  BY <1>1
<1>6. ASSUME NEW id \in UnreadIn(r, t)
      PROVE  id \in UnreadIn(st, t) \/ (id = n.id /\ t \in group_subscribers[n.group_id])
  <2>1. PICK i \in 1..(m + 1) : Ahead(r, t, i) /\ r.queue[i].id = id
    BY <1>3, InUnread
  <2>2. CASE i = m + 1
    BY <2>1, <2>2, <1>3, <1>4
  <2>3. CASE i \in 1..m
    BY <2>1, <2>3, <1>3, <1>4, InUnread
  <2> QED
    BY <2>2, <2>3, <1>5
<1>7. ASSUME NEW id \in UnreadIn(st, t) PROVE id \in UnreadIn(r, t)
  <2>1. PICK i \in 1..m : Ahead(st, t, i) /\ st.queue[i].id = id
    BY InUnread
  <2>2. i \in 1..(m + 1) /\ Ahead(r, t, i) /\ r.queue[i].id = id
    BY <2>1, <1>3, <1>4, <1>5
  <2> QED
    BY <2>2, <1>3, InUnread
<1>8. ASSUME t \in group_subscribers[n.group_id] PROVE n.id \in UnreadIn(r, t)
  <2>1. m + 1 \in 1..Len(r.queue) /\ Ahead(r, t, m + 1) /\ r.queue[m + 1].id = n.id
    BY <1>3, <1>4, <1>5, <1>8
  <2> QED
    BY <2>1, InUnread
<1> QED
  BY <1>6, <1>7, <1>8, ZenonT(30) DEF r

-----------------------------------------------------------------------------
\* A cursor that moves to the first entry ahead of it reads that entry.
LEMMA AdvanceSound ==
    ASSUME NEW st, Sound(st), NEW t \in Subscriber, NEW i \in 1..Len(st.queue)
    PROVE  Sound([st EXCEPT !.cursors[t] = i])
<1> DEFINE r == [st EXCEPT !.cursors[t] = i]
<1>1. /\ st.queue \in Seq(Notification) /\ Len(st.queue) \in Nat
      /\ st.cursors \in [Subscriber -> Nat]
      /\ \A u \in Subscriber : st.cursors[u] <= Len(st.queue)
  BY DEF Sound, States
<1>2. i \in Nat
  BY <1>1
<1>3. r.queue = st.queue /\ r.cursors = [st.cursors EXCEPT ![t] = i] /\ r \in States
  BY <1>2, UpdatedState DEF Sound
<1> HIDE DEF r
<1>4. \A u \in Subscriber : r.cursors[u] <= Len(st.queue)
  BY <1>1, <1>3
<1> QED
  BY <1>3, <1>4 DEF Sound, r

\* A cursor that moves to the first notification ahead of it has read that one.
LEMMA AdvanceUnread ==
    ASSUME NEW st, Sound(st), NEW t \in Subscriber, NEW i \in 1..Len(st.queue),
           Ahead(st, t, i), \A j \in 1..Len(st.queue) : Ahead(st, t, j) => i <= j,
           NEW u \in Subscriber
    PROVE  UnreadIn([st EXCEPT !.cursors[t] = i], u)
           = IF u = t THEN UnreadIn(st, u) \ {st.queue[i].id} ELSE UnreadIn(st, u)
<1> DEFINE r == [st EXCEPT !.cursors[t] = i]
           n == Len(st.queue)
<1>1. /\ n \in Nat /\ st.cursors \in [Subscriber -> Nat]
      /\ r.queue = st.queue /\ r.cursors = [st.cursors EXCEPT ![t] = i]
  BY DEF Sound, States
<1>2. \A j \in 1..n : j # i => st.queue[j].id # st.queue[i].id
  BY NumbersDiffer
<1> HIDE DEF r
<1>3. CASE u # t
  <2>1. \A j \in 1..n : Ahead(r, u, j) <=> Ahead(st, u, j)
    BY <1>1, <1>3 DEF Ahead
  <2> QED
    BY <2>1, <1>1, <1>3, ZenonT(30) DEF UnreadIn, r
<1>4. CASE u = t
  <2>1. \A j \in 1..n : Ahead(r, t, j) <=> Ahead(st, t, j) /\ j # i
    BY <1>1 DEF Ahead
  <2>2. ASSUME NEW id \in UnreadIn(r, t) PROVE id \in UnreadIn(st, t) /\ id # st.queue[i].id
    <3>1. PICK j \in 1..n : Ahead(r, t, j) /\ r.queue[j].id = id
      BY <1>1, InUnread
    <3> QED
      BY <3>1, <2>1, <1>1, <1>2, InUnread
  <2>3. ASSUME NEW id \in UnreadIn(st, t), id # st.queue[i].id PROVE id \in UnreadIn(r, t)
    <3>1. PICK j \in 1..n : Ahead(st, t, j) /\ st.queue[j].id = id
      BY InUnread
    <3>2. Ahead(r, t, j) /\ r.queue[j].id = id
      BY <3>1, <2>1, <2>3, <1>1
    <3> QED
      BY <3>2, <1>1, InUnread
  <2> QED
    BY <2>2, <2>3, <1>4 DEF r
<1> QED
  BY <1>3, <1>4

-----------------------------------------------------------------------------
\* Every number in the queue was handed out.
Numbered(st) == \A i \in 1..Len(st.queue) : st.queue[i].id < next_id

HistoryTyped ==
    /\ bit \in [Subscriber -> BOOLEAN]
    /\ pc \in [Subscriber -> {"waiting", "pulling", "handling"}]
    /\ deaf \in [Subscriber -> BOOLEAN]
    /\ taken \in [Subscriber -> SUBSET (1..MaxId)]
    /\ reported \in [Subscriber -> SUBSET (1..MaxId)]
    /\ next_id \in 1..(MaxId + 1)

IInv == Sound(state) /\ Numbered(state) /\ HistoryTyped /\ NoLostWakeup

\* The numbers of a state whose entries were taken off the queue of another.
LEMMA RemoveNumbered ==
    ASSUME NEW st, Sound(st), Numbered(st), NEW i \in 1..Len(st.queue)
    PROVE  Numbered(remove_and_adjust_cursors(st, i))
<1> DEFINE r == remove_and_adjust_cursors(st, i)
           n == Len(st.queue)
<1>1. /\ r.queue \in Seq(Notification)
      /\ Len(r.queue) = Len(st.queue) - 1
      /\ \A k \in 1..(Len(st.queue) - 1) : r.queue[k] = st.queue[Before(i, k)]
      /\ r.cursors = [t \in Subscriber |->
                         IF st.cursors[t] >= i THEN st.cursors[t] - 1 ELSE st.cursors[t]]
      /\ r = [queue |-> r.queue, cursors |-> r.cursors]
  BY RemoveFacts, ZenonT(30)
<1>2. n \in Nat /\ i \in 1..n
  BY DEF Sound, States
<1>3. \A k \in 1..(n - 1) : Before(i, k) \in 1..n
  BY <1>2, BeforeFacts, ZenonT(30)
<1> HIDE DEF r
<1> QED
  BY <1>1, <1>3 DEF Numbered, r

\* gc keeps the identities of the queue in order.
LEMMA GcNumbered ==
    ASSUME NEW st, Sound(st), Numbered(st) PROVE Numbered(gc(st))
<1> DEFINE k == Collectable(st)
           r == gc(st)
           n == Len(st.queue)
<1>1. /\ k \in 0..n /\ Len(r.queue) = n - k
      /\ \A i \in 1..(n - k) : r.queue[i] = st.queue[i + k]
  BY GcFacts, ZenonT(30)
<1>2. n \in Nat
  BY DEF Sound, States
<1> HIDE DEF r, k
<1>3. \A i \in 1..(n - k) : i + k \in 1..n
  BY <1>1, <1>2
<1> QED
  BY <1>1, <1>3 DEF Numbered, r

\* The new notification n, with the next number, on top of st.
LEMMA AcceptFacts ==
    ASSUME NEW st, Sound(st), Numbered(st), Len(st.queue) < QUEUE_CAPACITY,
           NEW n \in Notification, Allowed(n), n.id = next_id, next_id \in Nat,
           next_id' = next_id + 1, state' = [st EXCEPT !.queue = Append(@, n)]
    PROVE  /\ Sound(state') /\ Numbered(state)'
           /\ \A t \in Subscriber :
                 UnreadIn(state', t) = UnreadIn(st, t)
                    \cup (IF t \in group_subscribers[n.group_id] THEN {next_id} ELSE {})
<1>1. \A i \in 1..Len(st.queue) : st.queue[i].id < n.id
  BY DEF Numbered
<1>2. Sound(state')
  BY <1>1, AppendSound
<1>3. /\ st.queue \in Seq(Notification) /\ Len(st.queue) \in Nat
      /\ \A i \in 1..Len(st.queue) : st.queue[i].id \in 1..MaxId
  <2>1. st.queue \in Seq(Notification)
    BY DEF Sound, States
  <2> QED
    BY <2>1, NumbersDiffer, LenProperties, ZenonT(30)
<1>4. state'.queue = Append(st.queue, n)
  BY <1>3, UpdatedState DEF Sound, States
<1>5. /\ Len(state'.queue) = Len(st.queue) + 1
      /\ \A i \in 1..Len(st.queue) : state'.queue[i] = st.queue[i]
      /\ state'.queue[Len(st.queue) + 1] = n
  BY <1>3, <1>4, AppendProperties
<1>6. Numbered(state)'
  <2> SUFFICES ASSUME NEW i \in 1..Len(state'.queue) PROVE state'.queue[i].id < next_id + 1
    BY DEF Numbered
  <2>1. CASE i \in 1..Len(st.queue)
    <3>1. state'.queue[i].id < next_id /\ state'.queue[i].id \in 1..MaxId
      BY <2>1, <1>3, <1>5 DEF Numbered
    <3> QED
      BY <3>1, ReactorAssumption
  <2>2. CASE i = Len(st.queue) + 1
    BY <2>2, <1>5
  <2> QED
    BY <2>1, <2>2, <1>3, <1>5
<1> QED
  BY <1>2, <1>6, AppendUnread, ZenonT(30)

\* The three outcomes of push and refresh, as the subscribers see them, when st
\* is the queue and the cursors after a refresh has taken its match away.
New(t, g) == IF t \in group_subscribers[g] THEN {next_id} ELSE {}

Accepted(st, g) ==
    /\ \A t \in Subscriber : UnreadIn(state', t) = UnreadIn(st, t) \cup New(t, g)
    /\ notify_subscribers(group_subscribers[g])
    /\ reported' = reported

Evicted(st, g, old) ==
    /\ \A t \in Subscriber : UnreadIn(state', t) = (UnreadIn(st, t) \ {old}) \cup New(t, g)
    /\ notify_subscribers(group_subscribers[g])
    /\ reported' = [t \in Subscriber |->
                       reported[t] \cup (IF old \in UnreadIn(st, t) THEN {old} ELSE {})]

Rejected(st, g) ==
    /\ \A t \in Subscriber : UnreadIn(state', t) = UnreadIn(st, t)
    /\ reported' = [t \in Subscriber |-> reported[t] \cup New(t, g)]
    /\ bit' = bit /\ deaf' = deaf

\* A drop is reported for exactly the subscribers that have not read it.
LEMMA ReportsUnread ==
    ASSUME NEW st, Sound(st), NEW i \in 1..Len(st.queue), NEW t \in Subscriber
    PROVE  t \in report_eviction(st, i) <=> st.queue[i].id \in UnreadIn(st, t)
<1>1. \A j \in 1..Len(st.queue) : j # i => st.queue[j].id # st.queue[i].id
  BY NumbersDiffer, ZenonT(30)
<1>2. st.queue[i].id \in UnreadIn(st, t)
      <=> \E j \in 1..Len(st.queue) : Ahead(st, t, j) /\ st.queue[j].id = st.queue[i].id
  BY InUnread
<1>3. st.queue[i].id \in UnreadIn(st, t) => Ahead(st, t, i)
  <2> SUFFICES ASSUME st.queue[i].id \in UnreadIn(st, t) PROVE Ahead(st, t, i)
    OBVIOUS
  <2>1. PICK j \in 1..Len(st.queue) : Ahead(st, t, j) /\ st.queue[j].id = st.queue[i].id
    BY <1>2
  <2> QED
    BY <2>1, <1>1
<1> QED
  BY <1>2, <1>3 DEF report_eviction

\* A push is accepted, evicts an older notification, or is rejected.
LEMMA EnqueueOutcome ==
    ASSUME NEW st, Sound(st), Numbered(st), next_id \in Nat,
           NEW n \in Notification, Allowed(n), n.id = next_id,
           NEW strategy \in Strategy, Enqueue(st, n, strategy)
    PROVE  /\ Sound(state') /\ Numbered(state)'
           /\ \/ Accepted(st, n.group_id)
              \/ is_full(st) /\ \E old \in 1..MaxId : Evicted(st, n.group_id, old)
              \/ is_full(st) /\ Rejected(st, n.group_id)
<1> DEFINE room == IF is_full(st) THEN gc(st) ELSE st
           i == evict(room, n.priority, strategy)
           g == n.group_id
<1>1. /\ Sound(room) /\ Numbered(room)
      /\ \A t \in Subscriber : UnreadIn(room, t) = UnreadIn(st, t)
      /\ is_full(room) => is_full(st)
  <2>1. CASE is_full(st)
    BY <2>1, GcSound, GcNumbered, GcUnread, ZenonT(30)
  <2>2. CASE ~is_full(st)
    BY <2>2, ZenonT(30)
  <2> QED
    BY <2>1, <2>2
<1>2. /\ \/ ~is_full(room) /\ Accept(room, n) /\ UNCHANGED reported
         \/ /\ is_full(room) /\ i # 0
            /\ Accept(remove_and_adjust_cursors(room, i), n)
            /\ Report(report_eviction(room, i), room.queue[i].id)
         \/ /\ is_full(room) /\ i = 0
            /\ state' = room
            /\ Report(group_subscribers[n.group_id], n.id)
            /\ UNCHANGED <<bit, deaf>>
      /\ next_id' = next_id + 1
  BY ZenonT(30) DEF Enqueue
<1>3. /\ Len(room.queue) \in Nat /\ Len(room.queue) <= QUEUE_CAPACITY
      /\ QUEUE_CAPACITY \in Nat
  BY <1>1, ReactorAssumption DEF Sound, States
<1>4. i \in 0..Len(room.queue)
  BY <1>3, EvictInRange, ZenonT(30)
<1> HIDE DEF room, i
<1>5. CASE ~is_full(room) /\ Accept(room, n) /\ UNCHANGED reported
  <2>1. /\ Len(room.queue) < QUEUE_CAPACITY
        /\ state' = [room EXCEPT !.queue = Append(@, n)]
        /\ notify_subscribers(group_subscribers[g])
    BY <1>3, <1>5 DEF is_full, Accept
  <2>2. /\ Sound(state') /\ Numbered(state)'
        /\ \A t \in Subscriber :
              UnreadIn(state', t) = UnreadIn(room, t)
                 \cup (IF t \in group_subscribers[n.group_id] THEN {next_id} ELSE {})
    BY <1>1, <1>2, <2>1, AcceptFacts, ZenonT(30)
  <2>3. Accepted(st, g)
    BY <1>1, <1>5, <2>1, <2>2, SMTT(30) DEF Accepted, New
  <2> QED
    BY <2>2, <2>3
<1>6. CASE /\ is_full(room) /\ i # 0
           /\ Accept(remove_and_adjust_cursors(room, i), n)
           /\ Report(report_eviction(room, i), room.queue[i].id)
  <2> DEFINE r == remove_and_adjust_cursors(room, i)
             old == room.queue[i].id
  <2>1. i \in 1..Len(room.queue)
    BY <1>3, <1>4, <1>6
  <2>2. /\ Sound(r) /\ Numbered(r) /\ old \in 1..MaxId
        /\ \A t \in Subscriber : UnreadIn(r, t) = UnreadIn(room, t) \ {old}
    BY <2>1, <1>1, RemoveSound, RemoveNumbered, RemoveUnread, EntryFacts, ZenonT(30)
  <2>3. Len(r.queue) = Len(room.queue) - 1
    BY <2>1, <1>1, RemoveFacts, ZenonT(30)
  <2>4. /\ Len(r.queue) < QUEUE_CAPACITY
        /\ state' = [r EXCEPT !.queue = Append(@, n)]
        /\ notify_subscribers(group_subscribers[g])
    BY <1>3, <1>6, <2>3 DEF Accept
  <2> HIDE DEF r
  <2>5. /\ Sound(state') /\ Numbered(state)'
        /\ \A t \in Subscriber :
              UnreadIn(state', t) = UnreadIn(r, t)
                 \cup (IF t \in group_subscribers[n.group_id] THEN {next_id} ELSE {})
    BY <1>2, <2>2, <2>4, AcceptFacts, ZenonT(30)
  <2>6. \A t \in Subscriber : UnreadIn(state', t) = (UnreadIn(st, t) \ {old}) \cup New(t, g)
    BY <1>1, <2>2, <2>5 DEF New
  <2>7. \A t \in Subscriber : t \in report_eviction(room, i) <=> old \in UnreadIn(st, t)
    BY <1>1, <2>1, ReportsUnread, ZenonT(30)
  <2>8. reported' = [t \in Subscriber |->
                        reported[t] \cup (IF old \in UnreadIn(st, t) THEN {old} ELSE {})]
    BY <1>6, <2>7 DEF Report
  <2>9. Evicted(st, g, old)
    BY <2>4, <2>6, <2>8 DEF Evicted
  <2> QED
    BY <1>1, <1>6, <2>2, <2>5, <2>9
<1>7. CASE /\ is_full(room) /\ i = 0
           /\ state' = room
           /\ Report(group_subscribers[n.group_id], n.id)
           /\ UNCHANGED <<bit, deaf>>
  <2>1. Numbered(state)'
    <3>1. \A j \in 1..Len(room.queue) : room.queue[j].id < next_id /\ room.queue[j].id \in 1..MaxId
      BY <1>1, NumbersDiffer, ZenonT(30) DEF Numbered
    <3>2. \A j \in 1..Len(room.queue) : room.queue[j].id < next_id + 1
      BY <3>1, ReactorAssumption
    <3> QED
      BY <3>2, <1>2, <1>7 DEF Numbered
  <2>2. Rejected(st, g)
    BY <1>1, <1>7 DEF Rejected, Report, New
  <2> QED
    BY <2>1, <2>2, <1>1, <1>7
<1> QED
  BY <1>2, <1>5, <1>6, <1>7

-----------------------------------------------------------------------------
\* What the mailboxes see of a state.
LEMMA UnreadIs ==
    /\ Unread = [t \in Subscriber |-> UnreadIn(state, t)]
    /\ Unread' = [t \in Subscriber |-> UnreadIn(state', t)]
  BY DEF Unread, UnreadIn, Ahead

\* NoLostWakeup, by the unread numbers.
LEMMA WakeupIs ==
    /\ NoLostWakeup <=> \A t \in Subscriber :
                           UnreadIn(state, t) # {} => bit[t] \/ pc[t] # "waiting" \/ deaf[t]
    /\ NoLostWakeup' <=> \A t \in Subscriber :
                           UnreadIn(state', t) # {} => bit'[t] \/ pc'[t] # "waiting" \/ deaf'[t]
<1>1. NoLostWakeup <=> \A t \in Subscriber :
                          UnreadIn(state, t) # {} => bit[t] \/ pc[t] # "waiting" \/ deaf[t]
  BY HasMoreIsUnread, ZenonT(30) DEF NoLostWakeup
<1>2. NoLostWakeup' <=> \A t \in Subscriber :
                          has_more_for(state', t) => bit'[t] \/ pc'[t] # "waiting" \/ deaf'[t]
  BY ZenonT(30) DEF NoLostWakeup, has_more_for, Ahead
<1> QED
  BY <1>1, <1>2, HasMoreIsUnread, ZenonT(30)

\* A notification that is queued or rejected on top of st, which has lost at
\* most unread notifications, keeps the invariant: those who get it are woken.
LEMMA EnqueueKeeps ==
    ASSUME IInv, next_id <= MaxId,
           NEW st, Sound(st), Numbered(st),
           \A t \in Subscriber : UnreadIn(st, t) \subseteq UnreadIn(state, t),
           NEW n \in Notification, Allowed(n), n.id = next_id,
           NEW strategy \in Strategy, Enqueue(st, n, strategy)
    PROVE  IInv'
<1> DEFINE S == group_subscribers[n.group_id]
<1>1. HistoryTyped /\ next_id \in Nat /\ next_id \in 1..MaxId /\ next_id + 1 \in 1..(MaxId + 1)
  BY ReactorAssumption DEF IInv, HistoryTyped
<1>2. /\ Sound(state') /\ Numbered(state)'
      /\ \/ Accepted(st, n.group_id)
         \/ is_full(st) /\ \E old \in 1..MaxId : Evicted(st, n.group_id, old)
         \/ is_full(st) /\ Rejected(st, n.group_id)
  BY <1>1, EnqueueOutcome, ZenonT(30)
<1>3. next_id' = next_id + 1 /\ pc' = pc /\ taken' = taken
  BY DEF Enqueue
<1>4. /\ bit' \in [Subscriber -> BOOLEAN] /\ deaf' \in [Subscriber -> BOOLEAN]
      /\ \A t \in Subscriber : bit[t] => bit'[t]
      /\ \/ /\ \A t \in S \cap Subscriber : bit'[t]
            /\ \A t \in Subscriber \ S : deaf'[t] = deaf[t]
            /\ \A t \in Subscriber \ S : UnreadIn(state', t) \subseteq UnreadIn(state, t)
         \/ /\ deaf' = deaf
            /\ \A t \in Subscriber : UnreadIn(state', t) \subseteq UnreadIn(state, t)
  <2>1. CASE Rejected(st, n.group_id)
    BY <1>1, <2>1, ZenonT(30) DEF Rejected, HistoryTyped
  <2>2. ASSUME notify_subscribers(S) PROVE
          /\ bit' \in [Subscriber -> BOOLEAN] /\ deaf' \in [Subscriber -> BOOLEAN]
          /\ \A t \in Subscriber : bit[t] => bit'[t]
          /\ \A t \in S \cap Subscriber : bit'[t]
          /\ \A t \in Subscriber \ S : deaf'[t] = deaf[t]
    BY <1>1, <2>2, ZenonT(30) DEF HistoryTyped, notify_subscribers
  <2>3. CASE Accepted(st, n.group_id)
    <3>1. \A t \in Subscriber \ S : UnreadIn(state', t) \subseteq UnreadIn(state, t)
      BY <2>3 DEF Accepted, New
    <3> QED
      BY <3>1, <2>2, <2>3 DEF Accepted
  <2>4. CASE \E old \in 1..MaxId : Evicted(st, n.group_id, old)
    <3>1. PICK old \in 1..MaxId : Evicted(st, n.group_id, old)
      BY <2>4
    <3>2. \A t \in Subscriber \ S : UnreadIn(state', t) \subseteq UnreadIn(state, t)
      BY <3>1 DEF Evicted, New
    <3> QED
      BY <3>1, <3>2, <2>2 DEF Evicted
  <2> QED
    BY <1>2, <2>1, <2>3, <2>4
<1>5. reported' \in [Subscriber -> SUBSET (1..MaxId)]
  <2>1. CASE Accepted(st, n.group_id)
    BY <1>1, <2>1 DEF Accepted, HistoryTyped
  <2>2. ASSUME NEW old \in 1..MaxId, Evicted(st, n.group_id, old)
        PROVE  reported' \in [Subscriber -> SUBSET (1..MaxId)]
    BY <1>1, <2>2 DEF Evicted, HistoryTyped
  <2>3. CASE Rejected(st, n.group_id)
    BY <1>1, <2>3 DEF Rejected, HistoryTyped, New
  <2> QED
    BY <1>2, <2>1, <2>2, <2>3
<1>6. HistoryTyped'
  BY <1>1, <1>3, <1>4, <1>5, ZenonT(30) DEF HistoryTyped
<1>7. NoLostWakeup'
  <2> SUFFICES ASSUME NEW t \in Subscriber, UnreadIn(state', t) # {}
               PROVE  bit'[t] \/ pc[t] # "waiting" \/ deaf'[t]
    BY <1>3, WakeupIs, ZenonT(30)
  <2>1. CASE UnreadIn(state, t) # {}
    <3>1. bit[t] \/ pc[t] # "waiting" \/ deaf[t]
      BY <2>1, WakeupIs, ZenonT(30) DEF IInv
    <3> QED
      BY <3>1, <1>4, ZenonT(30)
  <2>2. CASE UnreadIn(state, t) = {}
    BY <2>2, <1>4, ZenonT(30)
  <2> QED
    BY <2>1, <2>2
<1> QED
  BY <1>2, <1>6, <1>7 DEF IInv

\* What validate lets through may be queued.
LEMMA ValidateFacts ==
    ASSUME NEW t, NEW g, NEW p, validate(t, g, p) = "Ok"
    PROVE  g \in Group /\ t \in senders[g] /\ p \in priority_range[g]
  BY ZenonT(30) DEF validate

\* A notification that group g may be sent, with the next number.
Fresh(n, g) == n \in Notification /\ Allowed(n) /\ n.id = next_id /\ n.group_id = g

\* A notification that passed validation is one its group allows.
LEMMA NewFacts ==
    ASSUME next_id \in 1..MaxId,
           NEW t \in Task, NEW g \in Group, NEW code \in Code, NEW p,
           t \in senders[g], p \in priority_range[g]
    PROVE  Fresh(NewNotification(t, g, code, p), g)
<1>1. p \in Priorities
  BY ReactorAssumption
<1> QED
  BY <1>1 DEF Fresh, NewNotification, Notification, Allowed

\* The priority that a refresh carries over is one of the two.
LEMMA MaxOfTwo ==
    ASSUME NEW p \in Nat, NEW q \in Nat PROVE Max({p, q}) \in {p, q}
<1>1. p + q \in Nat /\ {p, q} \in SUBSET (0..(p + q)) /\ {p, q} # {}
  OBVIOUS
<1> QED
  BY <1>1, MaxOfNaturals, ZenonT(30)

\* The state st without its entry i.
Without(i, st) ==
    /\ Sound(st) /\ Numbered(st) /\ ~is_full(st)
    /\ \A u \in Subscriber : UnreadIn(st, u) = UnreadIn(state, u) \ {state.queue[i].id}

\* What a refresh hands to the common tail when it has found a match: the
\* queue without the match, and a notification that its group allows.
LEMMA RefreshFacts ==
    ASSUME IInv, next_id <= MaxId,
           NEW t \in Task, NEW g \in Group, NEW code \in Code, NEW p \in Priorities,
           validate(t, g, p) = "Ok", Match(t, g, code) # 0
    PROVE  LET i == Match(t, g, code) IN
           /\ i \in 1..Len(state.queue) /\ state.queue[i].group_id = g
           /\ Without(i, remove_and_adjust_cursors(state, i))
           /\ Fresh(NewNotification(t, g, code, Max({p, state.queue[i].priority})), g)
<1> DEFINE i == Match(t, g, code)
           st == remove_and_adjust_cursors(state, i)
           q == state.queue[i].priority
<1>1. /\ Sound(state) /\ Numbered(state) /\ next_id \in 1..MaxId
      /\ Len(state.queue) \in Nat /\ Len(state.queue) <= QUEUE_CAPACITY /\ QUEUE_CAPACITY \in Nat
  BY ReactorAssumption DEF IInv, HistoryTyped, Sound, States
<1>2. i \in 1..Len(state.queue) /\ state.queue[i].group_id = g
  BY <1>1, MatchInRange
<1> HIDE DEF i
<1>3. /\ Sound(st) /\ Numbered(st)
      /\ \A u \in Subscriber : UnreadIn(st, u) = UnreadIn(state, u) \ {state.queue[i].id}
  BY <1>1, <1>2, RemoveSound, RemoveNumbered, RemoveUnread, ZenonT(30)
<1>4. ~is_full(st)
  <2>1. Len(st.queue) = Len(state.queue) - 1
    BY <1>1, <1>2, RemoveFacts, ZenonT(30)
  <2> QED
    BY <2>1, <1>1 DEF is_full
<1>5. t \in senders[g] /\ p \in priority_range[g] /\ q \in priority_range[g]
  BY <1>1, <1>2, ValidateFacts DEF Sound, Allowed
<1>6. p \in Nat /\ q \in Nat
  BY <1>5, ReactorAssumption, ZenonT(30)
<1>7. Max({p, q}) \in priority_range[g]
  BY <1>5, <1>6, MaxOfTwo
<1>8. Fresh(NewNotification(t, g, code, Max({p, q})), g)
  BY <1>1, <1>5, <1>7, NewFacts, ZenonT(30)
<1>9. Without(i, st)
  BY <1>3, <1>4, ZenonT(30) DEF Without
<1> QED
  BY <1>2, <1>8, <1>9, ZenonT(30) DEF i

-----------------------------------------------------------------------------
\* push and refresh keep the invariant.
LEMMA PushKeeps ==
    ASSUME IInv, NEW t \in Task, NEW g \in Group, NEW code \in Code, NEW p \in Priorities,
           NEW s \in Strategy, Calls(t), validate(t, g, p) = "Ok",
           Enqueue(state, NewNotification(t, g, code, p), s)
    PROVE  IInv'
<1>1. /\ Sound(state) /\ Numbered(state) /\ next_id \in 1..MaxId /\ next_id <= MaxId
      /\ t \in senders[g] /\ p \in priority_range[g]
  BY ReactorAssumption, ValidateFacts DEF IInv, HistoryTyped, Calls
<1> DEFINE n == NewNotification(t, g, code, p)
<1>2. Fresh(n, g)
  BY <1>1, NewFacts, ZenonT(30)
<1> HIDE DEF n
<1> QED
  BY <1>1, <1>2, EnqueueKeeps, ZenonT(30) DEF n, Fresh

\* refresh keeps the invariant.
LEMMA RefreshKeeps ==
    ASSUME IInv, NEW t \in Task, NEW g \in Group, NEW code \in Code, NEW p \in Priorities,
           NEW s \in Strategy, refresh(t, g, code, p, s)
    PROVE  IInv'
<1> DEFINE i == Match(t, g, code)
           st == remove_and_adjust_cursors(state, i)
           n == NewNotification(t, g, code, Max({p, state.queue[i].priority}))
<1>1. CASE i = 0
  BY <1>1, PushKeeps, ZenonT(30) DEF refresh
<1>2. CASE i # 0
  <2>1. next_id <= MaxId /\ validate(t, g, p) = "Ok" /\ Enqueue(st, n, s)
    BY <1>2, ZenonT(30) DEF refresh, Calls
  <2>2. Without(i, st) /\ Fresh(n, g)
    BY <1>2, <2>1, RefreshFacts, ZenonT(30)
  <2> HIDE DEF st, n
  <2>3. \A u \in Subscriber : UnreadIn(st, u) \subseteq UnreadIn(state, u)
    BY <2>2 DEF Without
  <2> QED
    BY <2>1, <2>2, <2>3, EnqueueKeeps, ZenonT(30) DEF Without, Fresh
<1> QED
  BY <1>1, <1>2

\* What a pull does to the queue and to what is unread.
PulledNothing(t) ==
    /\ UnreadIn(state, t) = {}
    /\ \A u \in Subscriber : UnreadIn(state', u) = UnreadIn(state, u)
    /\ pc' = [pc EXCEPT ![t] = "waiting"]
    /\ bit' = bit /\ taken' = taken

Pulled(t, id) ==
    /\ id \in UnreadIn(state, t) /\ \A j \in UnreadIn(state, t) : id <= j
    /\ \A u \in Subscriber :
          UnreadIn(state', u) = IF u = t THEN UnreadIn(state, u) \ {id} ELSE UnreadIn(state, u)
    /\ pc' = [pc EXCEPT ![t] = "handling"]
    /\ bit' = [bit EXCEPT ![t] = @ \/ UnreadIn(state', t) # {}]
    /\ taken' = [taken EXCEPT ![t] = @ \cup {id}]

\* A pull takes the first unread notification, or finds none.
LEMMA PullOutcome ==
    ASSUME IInv, NEW t \in Subscriber, pull(t)
    PROVE  /\ Sound(state') /\ Numbered(state)'
           /\ deaf' = deaf /\ reported' = reported /\ next_id' = next_id
           /\ PulledNothing(t) \/ \E id \in 1..MaxId : Pulled(t, id)
<1> DEFINE N == {i \in 1..Len(state.queue) : Ahead(state, t, i)}
           after == gc([state EXCEPT !.cursors[t] = Min(N)])
<1>1. Sound(state) /\ Numbered(state) /\ Len(state.queue) \in Nat /\ next_id \in Nat
  BY DEF IInv, Sound, States, HistoryTyped
<1>2. /\ deaf' = deaf /\ reported' = reported /\ next_id' = next_id
      /\ \/ /\ N = {}
            /\ state' = gc(state)
            /\ pc' = [pc EXCEPT ![t] = "waiting"]
            /\ UNCHANGED <<bit, taken>>
         \/ /\ N # {}
            /\ state' = after
            /\ bit' = [bit EXCEPT ![t] = @ \/ has_more_for(after, t)]
            /\ taken' = [taken EXCEPT ![t] = @ \cup {state.queue[Min(N)].id}]
            /\ pc' = [pc EXCEPT ![t] = "handling"]
  BY ZenonT(30) DEF pull
<1>3. CASE N = {}
  <2>1. /\ state' = gc(state) /\ pc' = [pc EXCEPT ![t] = "waiting"]
        /\ bit' = bit /\ taken' = taken
    BY <1>2, <1>3
  <2>2. Sound(state') /\ Numbered(gc(state))
        /\ \A u \in Subscriber : UnreadIn(state', u) = UnreadIn(state, u)
    BY <1>1, <2>1, GcSound, GcNumbered, GcUnread, ZenonT(30)
  <2>3. Numbered(state)'
    BY <2>1, <2>2, <1>2 DEF Numbered
  <2>4. UnreadIn(state, t) = {}
    BY <1>3, ZenonT(30) DEF UnreadIn
  <2> QED
    BY <1>2, <2>1, <2>2, <2>3, <2>4 DEF PulledNothing
<1>4. CASE N # {}
  <2> DEFINE i == Min(N)
             st == [state EXCEPT !.cursors[t] = i]
             id == state.queue[i].id
  <2>1. /\ state' = gc(st)
        /\ bit' = [bit EXCEPT ![t] = @ \/ has_more_for(state', t)]
        /\ taken' = [taken EXCEPT ![t] = @ \cup {id}]
        /\ pc' = [pc EXCEPT ![t] = "handling"]
    BY <1>2, <1>4, ZenonT(30)
  <2>2. N \in SUBSET Nat
    BY <1>1
  <2>3. i \in N /\ \A j \in N : i <= j
    BY <1>4, <2>2, MinOfNaturals, ZenonT(30)
  <2>4. /\ i \in 1..Len(state.queue) /\ Ahead(state, t, i)
        /\ \A j \in 1..Len(state.queue) : Ahead(state, t, j) => i <= j
    BY <2>3
  <2> HIDE DEF i
  <2>5. Sound(st) /\ id \in 1..MaxId
    BY <1>1, <2>4, AdvanceSound, EntryFacts, ZenonT(30)
  <2>6. \A u \in Subscriber :
           UnreadIn(st, u) = IF u = t THEN UnreadIn(state, u) \ {id} ELSE UnreadIn(state, u)
    BY <1>1, <2>4, AdvanceUnread, ZenonT(30)
  <2>7. Numbered(st)
    BY <1>1, <2>4, UpdatedState DEF Numbered, Sound
  <2> HIDE DEF st
  <2>8. /\ Sound(state') /\ Numbered(gc(st))
        /\ \A u \in Subscriber : UnreadIn(state', u) = UnreadIn(st, u)
    BY <2>1, <2>5, <2>7, GcSound, GcNumbered, GcUnread, ZenonT(30)
  <2>9. Numbered(state)'
    BY <2>1, <2>8, <1>2 DEF Numbered
  <2>10. id \in UnreadIn(state, t) /\ \A j \in UnreadIn(state, t) : id <= j
    <3>1. id \in UnreadIn(state, t)
      BY <2>4, InUnread, ZenonT(30)
    <3>2. ASSUME NEW j \in UnreadIn(state, t) PROVE id <= j
      <4>1. PICK k \in 1..Len(state.queue) : Ahead(state, t, k) /\ state.queue[k].id = j
        BY InUnread
      <4>2. i <= k
        BY <2>4, <4>1
      <4>3. CASE i = k
        BY <4>3, <4>1, <2>5, ReactorAssumption
      <4>4. CASE i < k
        <5>1. id < j /\ j \in 1..MaxId
          BY <4>1, <4>4, <2>4, <1>1, NumbersDiffer, ZenonT(30) DEF Sound
        <5> QED
          BY <5>1, <2>5, ReactorAssumption
      <4> QED
        BY <4>2, <4>3, <4>4, <4>1, <2>4
    <3> QED
      BY <3>1, <3>2
  <2>11. bit' = [bit EXCEPT ![t] = @ \/ UnreadIn(state', t) # {}]
    <3>1. has_more_for(state', t) <=> UnreadIn(state', t) # {}
      BY HasMoreIsUnread, ZenonT(30)
    <3>2. has_more_for(state', t) \in BOOLEAN
      BY DEF has_more_for
    <3>3. has_more_for(state', t) = (UnreadIn(state', t) # {})
      BY <3>1, <3>2, ZenonT(30)
    <3> QED
      BY <2>1, <3>3, ZenonT(30)
  <2>12. Pulled(t, id)
    BY <2>1, <2>6, <2>8, <2>10, <2>11, ZenonT(30) DEF Pulled
  <2> QED
    BY <1>2, <2>5, <2>8, <2>9, <2>12
<1> QED
  BY <1>3, <1>4

\* pull keeps the invariant.
LEMMA PullKeeps == ASSUME IInv, NEW t \in Subscriber, pull(t) PROVE IInv'
<1>1. /\ Sound(state') /\ Numbered(state)'
      /\ deaf' = deaf /\ reported' = reported /\ next_id' = next_id
      /\ PulledNothing(t) \/ \E id \in 1..MaxId : Pulled(t, id)
  BY PullOutcome, ZenonT(30)
<1>2. HistoryTyped
  BY DEF IInv
<1>3. \A u \in Subscriber : UnreadIn(state, u) # {} => bit[u] \/ pc[u] # "waiting" \/ deaf[u]
  BY WakeupIs, ZenonT(30) DEF IInv
<1>4. CASE PulledNothing(t)
  <2>1. HistoryTyped'
    BY <1>1, <1>2, <1>4 DEF PulledNothing, HistoryTyped
  <2>2. \A u \in Subscriber : UnreadIn(state', u) # {} => bit'[u] \/ pc'[u] # "waiting" \/ deaf'[u]
    BY <1>1, <1>2, <1>3, <1>4, ZenonT(30) DEF PulledNothing, HistoryTyped
  <2> QED
    BY <1>1, <2>1, <2>2, WakeupIs, ZenonT(30) DEF IInv
<1>5. ASSUME NEW id \in 1..MaxId, Pulled(t, id) PROVE IInv'
  <2>1. HistoryTyped'
    <3>1. bit' \in [Subscriber -> BOOLEAN]
      BY <1>2, <1>5, ZenonT(30) DEF Pulled, HistoryTyped
    <3>2. taken' \in [Subscriber -> SUBSET (1..MaxId)]
      BY <1>2, <1>5 DEF Pulled, HistoryTyped
    <3> QED
      BY <1>1, <1>2, <1>5, <3>1, <3>2 DEF Pulled, HistoryTyped
  <2>2. ASSUME NEW u \in Subscriber, UnreadIn(state', u) # {}
        PROVE  bit'[u] \/ pc'[u] # "waiting" \/ deaf'[u]
    <3>1. CASE u = t
      BY <1>2, <1>5, <3>1 DEF Pulled, HistoryTyped
    <3>2. CASE u # t
      BY <1>1, <1>2, <1>3, <1>5, <2>2, <3>2, ZenonT(30) DEF Pulled, HistoryTyped
    <3> QED
      BY <3>1, <3>2
  <2> QED
    BY <1>1, <2>1, <2>2, WakeupIs, ZenonT(30) DEF IInv
<1> QED
  BY <1>1, <1>4, <1>5

\* The other steps of the subscribers, and the restarts.
LEMMA RecvKeeps == ASSUME IInv, NEW t \in Subscriber, recv_notification(t) PROVE IInv'
<1>1. HistoryTyped'
  BY DEF IInv, HistoryTyped, recv_notification
<1>2. NoLostWakeup'
  BY ZenonT(30) DEF IInv, HistoryTyped, recv_notification, NoLostWakeup, has_more_for, Ahead
<1>3. Sound(state') /\ Numbered(state)'
  BY DEF IInv, recv_notification, Numbered
<1> QED
  BY <1>1, <1>2, <1>3 DEF IInv

\* The end of a handler keeps the invariant.
LEMMA HandledKeeps == ASSUME IInv, NEW t \in Subscriber, handled(t) PROVE IInv'
<1>1. HistoryTyped'
  BY DEF IInv, HistoryTyped, handled
<1>2. NoLostWakeup'
  BY ZenonT(30) DEF IInv, HistoryTyped, handled, NoLostWakeup, has_more_for, Ahead
<1>3. Sound(state') /\ Numbered(state)'
  BY DEF IInv, handled, Numbered
<1> QED
  BY <1>1, <1>2, <1>3 DEF IInv

\* The restart of a subscriber keeps the invariant.
LEMMA RestartKeeps == ASSUME IInv, NEW t \in Subscriber, restart(t) PROVE IInv'
<1>1. has_more_for(state, t) \in BOOLEAN
  BY DEF has_more_for
<1>2. HistoryTyped'
  BY <1>1, ZenonT(30) DEF IInv, HistoryTyped, restart
<1>3. NoLostWakeup'
  BY ZenonT(30) DEF IInv, HistoryTyped, restart, NoLostWakeup, has_more_for, Ahead
<1>4. Sound(state') /\ Numbered(state)'
  BY DEF IInv, restart, Numbered
<1> QED
  BY <1>2, <1>3, <1>4 DEF IInv

\* An empty queue with its cursors at the front is sound, and nothing in it is
\* unread.
LEMMA EmptySound ==
    ASSUME NEW st, st = [queue |-> <<>>, cursors |-> [t \in Subscriber |-> 0]]
    PROVE  Sound(st) /\ Numbered(st) /\ \A t : UnreadIn(st, t) = {}
<1>1. st.queue = <<>> /\ st.cursors = [t \in Subscriber |-> 0]
  OBVIOUS
<1>2. st \in States
  BY DEF States
<1>3. Len(st.queue) = 0 /\ 1..Len(st.queue) = {}
  BY <1>1
<1>4. Sound(st)
  BY <1>1, <1>2, <1>3, ReactorAssumption DEF Sound
<1>5. Numbered(st)
  BY <1>3 DEF Numbered
<1>6. \A t : UnreadIn(st, t) = {}
  BY <1>3, ZenonT(30) DEF UnreadIn
<1> QED
  BY <1>4, <1>5, <1>6

\* The restart of the reactor keeps the invariant.
LEMMA RestartReactorKeeps == ASSUME IInv, restart_reactor PROVE IInv'
<1>1. Sound(state') /\ \A t \in Subscriber : UnreadIn(state', t) = {}
  BY EmptySound, ZenonT(30) DEF restart_reactor
<1>2. Numbered(state)'
  BY DEF restart_reactor, Numbered
<1>3. HistoryTyped'
  BY DEF IInv, HistoryTyped, restart_reactor
<1>4. NoLostWakeup'
  BY <1>1, WakeupIs, ZenonT(30)
<1> QED
  BY <1>1, <1>2, <1>3, <1>4 DEF IInv

\* The empty reactor satisfies the invariant.
LEMMA InitSound == Init => IInv
<1> SUFFICES ASSUME Init PROVE IInv
  OBVIOUS
<1>1. Sound(state) /\ Numbered(state) /\ \A t \in Subscriber : UnreadIn(state, t) = {}
  BY EmptySound, ZenonT(30) DEF Init
<1>2. HistoryTyped
  BY ReactorAssumption DEF Init, HistoryTyped
<1>3. NoLostWakeup
  BY <1>1, WakeupIs, ZenonT(30)
<1> QED
  BY <1>1, <1>2, <1>3 DEF IInv

\* A step that changes nothing keeps the invariant.
LEMMA StutterKeeps == ASSUME IInv, UNCHANGED vars PROVE IInv'
  BY DEF IInv, vars, Numbered, HistoryTyped, NoLostWakeup, has_more_for, Ahead

\* The invariant of the reactor.
THEOREM ReactorInvariant == Spec => []IInv
<1>1. IInv /\ [Next]_vars => IInv'
  <2> SUFFICES ASSUME IInv, [Next]_vars PROVE IInv'
    OBVIOUS
  <2>1. ASSUME NEW t \in Task, NEW p \in Priorities, NEW g \in Group \cup {NoGroup},
               refused(t, g, p)
        PROVE  IInv'
    BY <2>1, StutterKeeps DEF refused
  <2>2. ASSUME NEW t \in Task, NEW p \in Priorities, NEW g \in Group, NEW code \in Code,
               NEW s \in Strategy, push(t, g, code, p, s)
        PROVE  IInv'
    BY <2>2, PushKeeps DEF push
  <2>3. ASSUME NEW t \in Task, NEW p \in Priorities, NEW g \in Group, NEW code \in Code,
               NEW s \in Strategy, refresh(t, g, code, p, s)
        PROVE  IInv'
    BY <2>3, RefreshKeeps
  <2>4. ASSUME NEW t \in Subscriber, Client(t) \/ restart(t) PROVE IInv'
    BY <2>4, RecvKeeps, PullKeeps, HandledKeeps, RestartKeeps DEF Client
  <2>5. CASE restart_reactor
    BY <2>5, RestartReactorKeeps
  <2>6. CASE UNCHANGED vars
    BY <2>6, StutterKeeps
  <2> QED
    BY <2>1, <2>2, <2>3, <2>4, <2>5, <2>6, ZenonT(30) DEF Next
<1> QED
  BY <1>1, InitSound, PTL DEF Spec

\* The queue holds only what its groups allow, and all of the reactor's state
\* has its type.
THEOREM ReactorTypeOK == Spec => []TypeOK
<1>1. IInv => TypeOK
  <2> SUFFICES ASSUME IInv PROVE TypeOK
    OBVIOUS
  <2>1. /\ state.queue \in Seq(Notification) /\ Len(state.queue) \in Nat
        /\ state.cursors \in [Subscriber -> Nat]
        /\ Len(state.queue) <= QUEUE_CAPACITY /\ QUEUE_CAPACITY \in Nat
        /\ \A t \in Subscriber : state.cursors[t] <= Len(state.queue)
        /\ \A i \in 1..Len(state.queue) : Allowed(state.queue[i])
    <3>1. state.queue \in Seq(Notification) /\ state.cursors \in [Subscriber -> Nat]
      BY DEF IInv, Sound, States
    <3> QED
      BY <3>1, ReactorAssumption, LenProperties DEF IInv, Sound
  <2>2. state.cursors \in [Subscriber -> 0..QUEUE_CAPACITY]
    BY <2>1
  <2> QED
    BY <2>1, <2>2, ZenonT(30) DEF TypeOK, IInv, HistoryTyped, Allowed
<1> QED
  BY <1>1, ReactorInvariant, PTL

\* No cursor passes the end of the queue, and the queue does not overflow.
THEOREM ReactorCursorsInRange == Spec => []CursorsInRange
<1>1. IInv => CursorsInRange
  BY ZenonT(30) DEF IInv, Sound, CursorsInRange
<1> QED
  BY <1>1, ReactorInvariant, PTL

\* A subscriber with unread notifications will look for them.
THEOREM ReactorNoLostWakeup == Spec => []NoLostWakeup
  BY ReactorInvariant, PTL DEF IInv

-----------------------------------------------------------------------------
\* The outcomes of push and refresh are steps of the mailboxes.
LEMMA AcceptRefines ==
    ASSUME IInv, NEW g \in Group, next_id <= MaxId, next_id' = next_id + 1, taken' = taken,
           Accepted(state, g)
    PROVE  M!accept(group_subscribers[g])
<1>1. \A t \in Subscriber : UnreadIn(state, t) \ {0} = UnreadIn(state, t)
  <2>1. \A i \in 1..Len(state.queue) : state.queue[i].id # 0
    BY EntryFacts, ReactorAssumption DEF IInv
  <2> QED
    BY <2>1 DEF UnreadIn
<1>2. Unread' = [t \in Subscriber |->
                    (Unread[t] \ {0}) \cup (IF t \in group_subscribers[g] THEN {next_id} ELSE {})]
  BY <1>1, UnreadIs DEF Accepted, New
<1> QED
  BY <1>2 DEF M!accept, M!Replace, Accepted

\* A refresh that replaces a notification is a supersede of the mailboxes.
LEMMA SupersedeRefines ==
    ASSUME IInv, NEW g \in Group, next_id <= MaxId, next_id' = next_id + 1, taken' = taken,
           NEW i \in 1..Len(state.queue), state.queue[i].group_id = g,
           NEW st, Without(i, st), Accepted(st, g)
    PROVE  M!supersede(group_subscribers[g], state.queue[i].id)
<1> DEFINE old == state.queue[i].id
           S == group_subscribers[g]
<1>1. Unread' = [t \in Subscriber |->
                    (Unread[t] \ {old}) \cup (IF t \in S THEN {next_id} ELSE {})]
  BY UnreadIs DEF Accepted, New, Without
<1>2. ASSUME NEW t \in Subscriber, old \in Unread[t] PROVE t \in S
  <2>1. old \in UnreadIn(state, t)
    BY <1>2, UnreadIs
  <2>2. PICK j \in 1..Len(state.queue) : Ahead(state, t, j) /\ state.queue[j].id = old
    BY <2>1, InUnread
  <2>3. j = i
    BY <2>2, NumbersDiffer, ZenonT(30) DEF IInv
  <2> QED
    BY <2>2, <2>3 DEF Ahead
<1> QED
  BY <1>1, <1>2 DEF M!supersede, M!Replace, Accepted

\* A push that evicts is an evict of the mailboxes.
LEMMA EvictRefines ==
    ASSUME NEW g \in Group, next_id <= MaxId, next_id' = next_id + 1, taken' = taken,
           NEW old \in 1..MaxId, Evicted(state, g, old)
    PROVE  M!evict(group_subscribers[g], old)
<1>1. Unread' = [t \in Subscriber |->
                    (Unread[t] \ {old}) \cup (IF t \in group_subscribers[g] THEN {next_id} ELSE {})]
  BY UnreadIs DEF Evicted, New
<1>2. reported' = [t \in Subscriber |->
                      reported[t] \cup (IF old \in Unread[t] THEN {old} ELSE {})]
  BY UnreadIs DEF Evicted
<1> QED
  BY <1>1, <1>2 DEF M!evict, M!Replace

\* A push that is rejected is a reject of the mailboxes.
LEMMA RejectRefines ==
    ASSUME NEW g \in Group, next_id <= MaxId, next_id' = next_id + 1, taken' = taken,
           Rejected(state, g)
    PROVE  M!reject(group_subscribers[g])
<1>1. Unread' = Unread
  BY UnreadIs DEF Rejected
<1> QED
  BY <1>1 DEF M!reject, Rejected, New

\* Every outcome for a group's subscribers is a step of the mailboxes.
LEMMA SendRefines ==
    ASSUME NEW g \in Group,
           LET S == group_subscribers[g] IN
           \/ M!accept(S) \/ M!reject(S)
           \/ \E old \in 1..MaxId : M!supersede(S, old) \/ M!evict(S, old)
    PROVE  M!MNext
  BY GroupsOfSubscribers, ZenonT(30) DEF M!MNext

\* A push is a step of the mailboxes.
LEMMA PushRefines ==
    ASSUME IInv, NEW t \in Task, NEW g \in Group, NEW code \in Code, NEW p \in Priorities,
           NEW s \in Strategy, Calls(t), validate(t, g, p) = "Ok",
           Enqueue(state, NewNotification(t, g, code, p), s)
    PROVE  M!MNext
<1>1. /\ Sound(state) /\ Numbered(state)
      /\ next_id \in 1..MaxId /\ next_id <= MaxId /\ next_id \in Nat
      /\ t \in senders[g] /\ p \in priority_range[g]
  BY ReactorAssumption, ValidateFacts DEF IInv, HistoryTyped, Calls
<1> DEFINE n == NewNotification(t, g, code, p)
<1>2. Fresh(n, g)
  BY <1>1, NewFacts, ZenonT(30)
<1>3. next_id' = next_id + 1 /\ taken' = taken
  BY DEF Enqueue
<1>4. Enqueue(state, n, s)
  OBVIOUS
<1> HIDE DEF n
<1>5. \/ Accepted(state, g)
      \/ \E old \in 1..MaxId : Evicted(state, g, old)
      \/ Rejected(state, g)
  BY <1>1, <1>2, <1>4, EnqueueOutcome, ZenonT(30) DEF Fresh
<1>6. \/ M!accept(group_subscribers[g])
      \/ \E old \in 1..MaxId : M!evict(group_subscribers[g], old)
      \/ M!reject(group_subscribers[g])
  BY <1>1, <1>3, <1>5, AcceptRefines, EvictRefines, RejectRefines, ZenonT(30)
<1> QED
  BY <1>6, SendRefines, ZenonT(30)

\* A refresh is a step of the mailboxes.
LEMMA RefreshRefines ==
    ASSUME IInv, NEW t \in Task, NEW g \in Group, NEW code \in Code, NEW p \in Priorities,
           NEW s \in Strategy, refresh(t, g, code, p, s)
    PROVE  M!MNext
<1> DEFINE i == Match(t, g, code)
           st == remove_and_adjust_cursors(state, i)
           n == NewNotification(t, g, code, Max({p, state.queue[i].priority}))
<1>1. CASE i = 0
  BY <1>1, PushRefines, ZenonT(30) DEF refresh
<1>2. CASE i # 0
  <2>1. next_id <= MaxId /\ validate(t, g, p) = "Ok" /\ Enqueue(st, n, s)
    BY <1>2, ZenonT(30) DEF refresh, Calls
  <2>2. /\ i \in 1..Len(state.queue) /\ state.queue[i].group_id = g
        /\ Without(i, st) /\ Fresh(n, g)
    BY <1>2, <2>1, RefreshFacts, ZenonT(30)
  <2> HIDE DEF st, n, i
  <2>3. next_id' = next_id + 1 /\ taken' = taken /\ next_id \in Nat
    <3>1. next_id' = next_id + 1 /\ taken' = taken
      BY <2>1, ZenonT(30) DEF Enqueue
    <3> QED
      BY <3>1 DEF IInv, HistoryTyped
  <2>4. Accepted(st, g)
    BY <2>1, <2>2, <2>3, EnqueueOutcome, ZenonT(30) DEF Fresh, Without
  <2>5. M!supersede(group_subscribers[g], state.queue[i].id)
    BY <2>1, <2>2, <2>3, <2>4, SupersedeRefines, ZenonT(30)
  <2>6. state.queue[i].id \in 1..MaxId
    BY <2>2, EntryFacts, ZenonT(30) DEF IInv
  <2> QED
    BY <2>5, <2>6, SendRefines, ZenonT(30)
<1> QED
  BY <1>1, <1>2

\* A pull takes the oldest notification of its mailbox, or changes none.
LEMMA PullRefines ==
    ASSUME IInv, NEW t \in Subscriber, pull(t) PROVE M!MNext \/ UNCHANGED M!mvars
<1>1. /\ reported' = reported /\ next_id' = next_id
      /\ PulledNothing(t) \/ \E id \in 1..MaxId : Pulled(t, id)
  BY PullOutcome, ZenonT(30)
<1>2. CASE PulledNothing(t)
  <2>1. Unread' = Unread
    BY <1>2, UnreadIs DEF PulledNothing
  <2> QED
    BY <1>1, <1>2, <2>1 DEF M!mvars, PulledNothing
<1>3. ASSUME NEW id \in 1..MaxId, Pulled(t, id) PROVE M!take(t, id)
  <2>1. Unread' = [Unread EXCEPT ![t] = @ \ {id}]
    BY <1>3, UnreadIs DEF Pulled
  <2>2. id \in Unread[t] /\ \A j \in Unread[t] : id <= j
    BY <1>3, UnreadIs DEF Pulled
  <2> QED
    BY <1>1, <1>3, <2>1, <2>2 DEF M!take, Pulled
<1> QED
  BY <1>1, <1>2, <1>3, ZenonT(30) DEF M!MNext

\* The restart of the reactor empties every mailbox.
LEMMA RestartReactorRefines == ASSUME restart_reactor PROVE M!reset
<1>1. \A t \in Subscriber : UnreadIn(state', t) = {}
  BY EmptySound, ZenonT(30) DEF restart_reactor
<1>2. Unread' = [t \in Subscriber |-> {}]
  BY <1>1, UnreadIs
<1> QED
  BY <1>2 DEF M!reset, restart_reactor

\* A step that changes neither queue nor history changes no mailbox.
LEMMA SameMailboxes ==
    ASSUME state' = state, taken' = taken, reported' = reported, next_id' = next_id
    PROVE  UNCHANGED M!mvars
<1>1. Unread' = Unread
  BY UnreadIs
<1> QED
  BY <1>1 DEF M!mvars

\* A step of the reactor is a step of the mailboxes, or changes none of them.
LEMMA StepRefines == IInv /\ [Next]_vars => [M!MNext]_(M!mvars)
<1> SUFFICES ASSUME IInv, [Next]_vars PROVE M!MNext \/ UNCHANGED M!mvars
  OBVIOUS
<1>1. ASSUME NEW t \in Task, NEW p \in Priorities, NEW g \in Group \cup {NoGroup},
             refused(t, g, p)
      PROVE  UNCHANGED M!mvars
  BY <1>1, SameMailboxes DEF refused, vars
<1>2. ASSUME NEW t \in Task, NEW p \in Priorities, NEW g \in Group, NEW code \in Code,
             NEW s \in Strategy, push(t, g, code, p, s)
      PROVE  M!MNext
  BY <1>2, PushRefines, ZenonT(30) DEF push
<1>3. ASSUME NEW t \in Task, NEW p \in Priorities, NEW g \in Group, NEW code \in Code,
             NEW s \in Strategy, refresh(t, g, code, p, s)
      PROVE  M!MNext
  BY <1>3, RefreshRefines, ZenonT(30)
<1>4. ASSUME NEW t \in Subscriber, recv_notification(t) \/ handled(t) \/ restart(t)
      PROVE  UNCHANGED M!mvars
  BY <1>4, SameMailboxes DEF recv_notification, handled, restart
<1>5. ASSUME NEW t \in Subscriber, pull(t) PROVE M!MNext \/ UNCHANGED M!mvars
  BY <1>5, PullRefines
<1>6. CASE restart_reactor
  BY <1>6, RestartReactorRefines, ZenonT(30) DEF M!MNext
<1>7. CASE UNCHANGED vars
  BY <1>7, SameMailboxes DEF vars
<1> QED
  BY <1>1, <1>2, <1>3, <1>4, <1>5, <1>6, <1>7, ZenonT(30) DEF Next, Client

\* The empty reactor is the empty mailboxes.
LEMMA InitRefines == Init => M!MInit
<1> SUFFICES ASSUME Init PROVE M!MInit
  OBVIOUS
<1>1. \A t \in Subscriber : UnreadIn(state, t) = {}
  BY EmptySound, ZenonT(30) DEF Init
<1>2. Unread = [t \in Subscriber |-> {}]
  BY <1>1, UnreadIs
<1> QED
  BY <1>2 DEF Init, M!MInit

\* The shared queue, its cursors, its eviction and its collection implement a
\* mailbox for every subscriber, with the drop reports that it asks for.
THEOREM ReactorImplementsMailboxes == Spec => ImplementsMailboxes
  BY InitRefines, StepRefines, ReactorInvariant, PTL DEF Spec, ImplementsMailboxes, M!MSpec

P == INSTANCE MailboxesProofs WITH inbox <- Unread

\* No subscriber of the reactor reads a notification twice, or one whose drop
\* was reported for it, and it reads them in the order they were sent.
THEOREM ReactorReadsOnceInOrder == Spec => [](M!ReadOnce /\ M!ReadInOrder)
<1>1. P!MSpec => [](P!ReadOnce /\ P!ReadInOrder)
  BY P!MailboxesReadOnce, P!MailboxesReadInOrder, PTL
<1>2. Spec => P!MSpec
  <2>1. M!MInit => P!MInit
    BY DEF P!MInit, M!MInit
  <2>2. [M!MNext]_(M!mvars) => [P!MNext]_(P!mvars)
    BY ZenonT(30) DEF P!MNext, M!MNext, P!mvars, M!mvars,
           P!accept, M!accept, P!supersede, M!supersede, P!evict, M!evict, P!Replace, M!Replace,
           P!reject, M!reject, P!take, M!take, P!reset, M!reset
  <2> QED
    BY <2>1, <2>2, InitRefines, StepRefines, ReactorInvariant, PTL DEF Spec, P!MSpec
<1>3. P!ReadOnce /\ P!ReadInOrder => M!ReadOnce /\ M!ReadInOrder
  BY DEF P!ReadOnce, M!ReadOnce, P!ReadInOrder, M!ReadInOrder
<1> QED
  BY <1>1, <1>2, <1>3, PTL
=============================================================================
