--------------------------- MODULE TransferProofs ---------------------------
(***************************************************************************)
(* The invariants of Transfer, for any number of handles and restarts.     *)
(***************************************************************************)
EXTENDS Transfer, Integers, TLAPS

(***************************************************************************)
(* NoInheritance is not inductive: it says nothing of a source that has    *)
(* yet to hear of a restart.  HeardOwner does: a handle belongs to the     *)
(* incarnation that its source heard of last, and the client table holds   *)
(* that incarnation.                                                       *)
(***************************************************************************)
TableTrue == seen = heard

HeardOwner ==
    \A h \in Source, t \in Task : handle[h].owner = t => since[h] = heard[h][t]

\* Which handles D holds while it acquires: those whose flag is set.
FlagsHeld ==
    /\ server.pc = "acquire" => server.flags \subseteq 1 .. (server.i - 1)
    /\ server.pc \in {"serve", "kept"} => server.flags = Source
    /\ server.pc \in {"acquire", "serve", "kept"} =>
          \A h \in server.flags \ lost : handle[h].owner = "D" /\ since[h] = gen["D"]

\* Which of C's handles are frozen: those prepared and not yet cancelled.
Frozen(h) == handle[h].owner = "C" /\ handle[h].pending_to # None

FrozenKnown ==
    /\ \A h \in lost : handle[h].pending_to = None
    /\ client.pc = "idle" => client.i = 1 /\ client.last = Params /\ client.outcome = None
    /\ client.pc = "prepare" => client.last = Params /\ client.outcome = None
    /\ client.pc \in {"wait", "cancel", "restarted"} => client.outcome = None
    /\ client.pc \in {"idle", "prepare"} => \A h \in Source : Frozen(h) => h < client.i
    /\ client.pc = "cancel" =>
          \A h \in Source : Frozen(h) => client.i <= h /\ h <= client.last
    /\ client.outcome = "TransferLost" =>
          client.pc \in {"done", "dying"} /\ \A h \in Source : ~Frozen(h)

IInv == TypeOK /\ TableTrue /\ HeardOwner /\ FlagsHeld /\ FrozenKnown

Handle == [owner : Task \cup {None}, pending_to : Task \cup {None}]

\* The part of the invariant that is about the sources alone.
SourcesOK ==
    /\ handle \in [Source -> Handle]
    /\ seen \in [Source -> [Task -> 0 .. GenMod]]
    /\ lost \subseteq Source
    /\ since \in [Source -> 0 .. MaxRestarts]
    /\ heard \in [Source -> [Task -> 0 .. GenMod]]
    /\ TableTrue
    /\ HeardOwner
-----------------------------------------------------------------------------
\* Generation numbers do not come round within the bound.
LEMMA SmallModulo ==
    ASSUME NEW a \in Nat, NEW b \in Nat, a < b
    PROVE  a % b = a
  <1>1. a % b \in 0 .. (b - 1)
    BY SMT
  <1>2. a = b * (a \div b) + (a % b)
    BY SMT
  <1>3. a \div b \in Int
    BY SMT
  <1> QED
    BY <1>1, <1>2, <1>3, SMTT(30)

\* A generation number tells incarnations apart, and from "never heard".
LEMMA GenerationExact ==
    ASSUME IInv, NEW t \in Task
    PROVE  /\ Generation(t) = gen[t]
           /\ gen[t] \in 0 .. MaxRestarts /\ gen[t] \in 0 .. GenMod
           /\ gen[t] # Never
  <1>1. gen[t] \in Nat /\ GenMod \in Nat /\ gen[t] <= MaxRestarts /\ gen[t] < GenMod
    BY TransferAssumption DEF IInv, TypeOK
  <1>2. gen[t] % GenMod = gen[t]
    BY <1>1, SmallModulo
  <1> QED
    BY <1>1, <1>2, TransferAssumption DEF Generation, Never

\* A handle that its source still takes for t's after check_client_generation
\* was t's before, and the source has heard of this incarnation of t; a handle
\* of another task keeps its owner, and nothing becomes frozen.
LEMMA CheckedFacts ==
    ASSUME IInv, NEW h \in Source, NEW t \in Task
    PROVE  /\ Checked(h, t) \in Handle
           /\ Checked(h, t).owner = t => handle[h].owner = t /\ heard[h][t] = gen[t]
           /\ Checked(h, t).owner \in {handle[h].owner, None}
           /\ handle[h].owner # t => Checked(h, t).owner = handle[h].owner
           /\ Checked(h, t).pending_to \in {handle[h].pending_to, None}
  <1>1. Generation(t) = gen[t] /\ gen[t] # Never
    BY GenerationExact
  <1>2. handle[h] \in Handle
    BY DEF IInv, TypeOK, Handle
  <1>3. Gone \in Handle
    BY DEF Gone, Handle
  <1>4. handle[h].owner = t => seen[h][t] # Never
    BY TransferAssumption, SMTT(30) DEF IInv, TypeOK, TableTrue, HeardOwner, Never
  <1>5. seen[h][t] = heard[h][t]
    BY DEF IInv, TableTrue
  <1>6. t # None
    BY DEF Task, None
  <1> QED
    BY <1>1, <1>2, <1>3, <1>4, <1>5, <1>6
    DEF Checked, cleanup_client, Gone, Handle

\* A message of t that leaves the handle with the owner it had, with t, or with
\* nobody keeps the invariant of the sources, and touches no other source.
LEMMA DispatchKeeps ==
    ASSUME IInv, NEW h \in Source, NEW t \in Task, NEW e \in Handle,
           e.owner \in {t, None, Checked(h, t).owner},
           Dispatch(h, t, e)
    PROVE  /\ SourcesOK'
           /\ lost' = lost
           /\ handle'[h] = e
           /\ e.owner = t => since'[h] = gen[t]
           /\ e.owner # t => since'[h] = since[h]
           /\ \A g \in Source \ {h} : handle'[g] = handle[g] /\ since'[g] = since[g]
  <1>1. Generation(t) = gen[t] /\ gen[t] \in 0 .. MaxRestarts /\ gen[t] \in 0 .. GenMod
    BY GenerationExact
  <1>2. /\ handle' \in [Source -> Handle]
        /\ seen' \in [Source -> [Task -> 0 .. GenMod]]
        /\ lost' \subseteq Source
        /\ since' \in [Source -> 0 .. MaxRestarts]
        /\ heard' \in [Source -> [Task -> 0 .. GenMod]]
    BY <1>1 DEF IInv, TypeOK, Dispatch, Handle
  <1>3. TableTrue'
    BY <1>1 DEF IInv, TypeOK, TableTrue, Dispatch
  <1>4. /\ handle'[h] = e
        /\ heard'[h][t] = gen[t]
        /\ \A u \in Task \ {t} : heard'[h][u] = heard[h][u]
        /\ \A g \in Source \ {h} :
              handle'[g] = handle[g] /\ since'[g] = since[g] /\ heard'[g] = heard[g]
    BY DEF IInv, TypeOK, Dispatch
  <1>5. e.owner = t => since'[h] = gen[t]
    <2>1. CASE Checked(h, t).owner = t
      <3>1. handle[h].owner = t /\ heard[h][t] = gen[t]
        BY <2>1, CheckedFacts
      <3>2. since[h] = gen[t]
        BY <3>1 DEF IInv, HeardOwner
      <3> QED
        BY <2>1, <3>2 DEF IInv, TypeOK, Dispatch
    <2>2. CASE Checked(h, t).owner # t
      BY <2>2 DEF IInv, TypeOK, Dispatch
    <2> QED
      BY <2>1, <2>2
  <1>6. e.owner # t => since'[h] = since[h]
    BY DEF IInv, TypeOK, Dispatch
  <1>7. HeardOwner'
    <2> SUFFICES ASSUME NEW g \in Source, NEW u \in Task, handle'[g].owner = u
                 PROVE  since'[g] = heard'[g][u]
      BY DEF HeardOwner
    <2>1. CASE g # h
      BY <2>1, <1>4 DEF IInv, HeardOwner
    <2>2. CASE g = h /\ u = t
      BY <2>2, <1>4, <1>5
    <2>3. CASE g = h /\ u # t
      <3>1. e.owner = u /\ u # None
        BY <2>3, <1>4 DEF Task, None
      <3>2. handle[h].owner = u
        BY <3>1, <2>3, CheckedFacts
      <3> QED
        BY <3>1, <3>2, <2>3, <1>4, <1>6 DEF IInv, HeardOwner
    <2> QED
      BY <2>1, <2>2, <2>3
  <1> QED
    BY <1>2, <1>3, <1>4, <1>5, <1>6, <1>7 DEF SourcesOK, Dispatch

\* The same of a message about a handle of the call, which a source that has
\* been restarted does not get.
LEMMA SendKeeps ==
    ASSUME IInv, NEW h \in Source, NEW t \in Task, NEW e \in Handle,
           e.owner \in {t, None, Checked(h, t).owner},
           Send(h, t, e)
    PROVE  /\ SourcesOK'
           /\ lost' = lost
           /\ h \in lost => handle'[h] = handle[h] /\ since'[h] = since[h]
           /\ h \notin lost =>
                 /\ handle'[h] = e
                 /\ e.owner = t => since'[h] = gen[t]
                 /\ e.owner # t => since'[h] = since[h]
           /\ \A g \in Source \ {h} : handle'[g] = handle[g] /\ since'[g] = since[g]
  <1>1. CASE h \in lost
    BY <1>1 DEF Send, IInv, TypeOK, SourcesOK, TableTrue, HeardOwner, Handle
  <1>2. CASE h \notin lost
    <2>1. Dispatch(h, t, e)
      BY <1>2 DEF Send
    <2> QED
      BY <1>2, <2>1, DispatchKeeps
  <1> QED
    BY <1>1, <1>2
-----------------------------------------------------------------------------
\* The types of what the sources do not hold.
CallsOK ==
    /\ gen \in [Task -> 0 .. MaxRestarts]
    /\ client \in [pc : {"idle", "prepare", "cancel", "wait", "done", "restarted", "dying"},
                   i : 1 .. (Params + 1), last : 0 .. Params,
                   outcome : {None, "Ok", "TransferLost", "TransferFailed", "ServerDied"}]
    /\ server \in [pc : {"idle", "acquire", "rollback", "serve", "kept", "dying"},
                   i : 1 .. (Params + 1), last : 0 .. Params, flags : SUBSET Source]

\* The invariant, taken apart.
LEMMA IInvParts == IInv <=> SourcesOK /\ CallsOK /\ FlagsHeld /\ FrozenKnown
  BY DEF IInv, TypeOK, SourcesOK, CallsOK, Handle

\* The invariant after a step, put together.
LEMMA IInvTogether ==
    ASSUME SourcesOK', CallsOK', FlagsHeld', FrozenKnown'
    PROVE  IInv'
  BY DEF IInv, TypeOK, SourcesOK, CallsOK, Handle

\* A step that changes neither the sources nor the generations keeps the
\* invariant of the sources.
LEMMA SourcesUntouched ==
    ASSUME IInv, UNCHANGED <<handle, seen, lost, since, heard>>
    PROVE  SourcesOK'
  BY IInvParts DEF SourcesOK, TableTrue, HeardOwner

\* A message that takes nothing from D leaves D what it has acquired.
LEMMA FlagsKept ==
    ASSUME IInv, NEW h \in Source,
           UNCHANGED <<server, gen, lost>>,
           handle[h].owner = "D" => handle'[h].owner = "D" /\ since'[h] = since[h],
           \A g \in Source \ {h} : handle'[g] = handle[g] /\ since'[g] = since[g]
    PROVE  FlagsHeld'
  <1>1. server.flags \subseteq Source
    BY IInvParts DEF CallsOK
  <1> QED
    BY <1>1 DEF IInv, FlagsHeld

\* A message that freezes nothing leaves the call of the client as it was.
LEMMA FrozenKept ==
    ASSUME IInv, NEW h \in Source,
           UNCHANGED <<client, lost>>,
           Frozen(h)' => Frozen(h),
           handle[h].pending_to = None => handle'[h].pending_to = None,
           \A g \in Source \ {h} : handle'[g] = handle[g]
    PROVE  FrozenKnown'
  <1>1. \A g \in Source : Frozen(g)' => Frozen(g)
    BY DEF Frozen
  <1>2. \A g \in lost : handle'[g].pending_to = None
    BY IInvParts DEF SourcesOK, FrozenKnown
  <1> QED
    BY <1>1, <1>2 DEF IInv, FrozenKnown
-----------------------------------------------------------------------------
(* The steps of the client. *)

\* PREPARE_TRANSFER keeps the invariant: what it freezes is behind the
\* parameter in hand, and a failure leaves exactly those before it to cancel.
LEMMA PrepareKeeps ==
    ASSUME IInv, prepare_transfer
    PROVE  IInv'
  <1>0. PICK h \in Source : h = client.i
    BY DEF prepare_transfer
  <1> DEFINE e == Checked(h, "C")
             ok == h \notin lost /\ e.owner = "C" /\ e.pending_to = None
             f == IF ok THEN [e EXCEPT !.pending_to = "D"] ELSE e
  <1>1. "C" \in Task
    BY DEF Task
  <1>2. /\ e \in Handle
        /\ e.owner = "C" => handle[h].owner = "C"
        /\ handle[h].owner # "C" => e.owner = handle[h].owner
        /\ e.pending_to \in {handle[h].pending_to, None}
    BY <1>1, CheckedFacts
  <1>3. f \in Handle /\ f.owner = e.owner
    BY <1>2 DEF Handle, Task
  <1>4. /\ Send(h, "C", f)
        /\ client' = IF ok THEN [client EXCEPT !.pc = "prepare", !.i = h + 1]
                           ELSE [client EXCEPT !.pc = "cancel", !.i = 1, !.last = h - 1]
        /\ UNCHANGED <<gen, server>>
    BY <1>0 DEF prepare_transfer
  <1>5. /\ SourcesOK'
        /\ lost' = lost
        /\ h \in lost => handle'[h] = handle[h] /\ since'[h] = since[h]
        /\ h \notin lost => handle'[h] = f /\ (f.owner # "C" => since'[h] = since[h])
        /\ \A g \in Source \ {h} : handle'[g] = handle[g] /\ since'[g] = since[g]
    BY <1>1, <1>3, <1>4, SendKeeps, ZenonT(30)
  <1>6. FlagsHeld'
    <2>1. handle[h].owner = "D" => handle'[h].owner = "D" /\ since'[h] = since[h]
      BY <1>2, <1>3, <1>5
    <2> QED
      BY <1>1, <1>4, <1>5, <2>1, FlagsKept
  <1>7. CallsOK'
    <2>1. h + 1 \in 1 .. (Params + 1) /\ 1 \in 1 .. (Params + 1) /\ h - 1 \in 0 .. Params
      BY TransferAssumption DEF Source
    <2> HIDE DEF ok
    <2> QED
      BY <1>4, <2>1, IInvParts, ZenonT(30) DEF CallsOK
  <1>8. FrozenKnown'
    <2>1. /\ client.last = Params /\ client.outcome = None
          /\ \A g \in Source : Frozen(g) => g < h
      BY <1>0 DEF prepare_transfer, IInv, FrozenKnown
    <2>2. \A g \in Source \ {h} : Frozen(g)' => g < h
      BY <1>5, <2>1 DEF Frozen
    <2>3. ~Frozen(h) /\ Params \in Nat /\ h \in Nat
      BY <2>1, TransferAssumption DEF Source
    <2>4. CASE ok
      <3>1. client' = [client EXCEPT !.pc = "prepare", !.i = h + 1]
        BY <1>4, <2>4
      <3>2. \A g \in lost' : handle'[g].pending_to = None
        BY <1>5, <2>4, IInvParts, ZenonT(30) DEF SourcesOK, FrozenKnown
      <3>3. /\ client'.pc = "prepare" /\ client'.i = h + 1
            /\ client'.last = Params /\ client'.outcome = None
        BY <3>1, <2>1, IInvParts DEF CallsOK
      <3>4. \A g \in Source : Frozen(g)' => g < client'.i
        BY <2>2, <2>3, <3>3 DEF Source
      <3> QED
        BY <3>2, <3>3, <3>4 DEF FrozenKnown, None
    <2>5. CASE ~ok
      <3>1. client' = [client EXCEPT !.pc = "cancel", !.i = 1, !.last = h - 1]
        BY <1>4, <2>5
      <3>2. \A g \in lost' : handle'[g].pending_to = None
        BY <1>5, <2>5, IInvParts, ZenonT(30) DEF SourcesOK, FrozenKnown
      <3>3. /\ client'.pc = "cancel" /\ client'.i = 1
            /\ client'.last = h - 1 /\ client'.outcome = None
        BY <3>1, <2>1, IInvParts DEF CallsOK
      <3>4. ~Frozen(h)'
        BY <1>2, <1>5, <2>3, <2>5 DEF Frozen
      <3>5. \A g \in Source : Frozen(g)' => client'.i <= g /\ g <= client'.last
        BY <2>2, <2>3, <3>3, <3>4 DEF Source
      <3> QED
        BY <3>2, <3>3, <3>5 DEF FrozenKnown, None
    <2> QED
      BY <2>4, <2>5
  <1> QED
    BY <1>5, <1>6, <1>7, <1>8, IInvTogether

\* CANCEL_TRANSFER keeps the invariant: the parameter in hand is thawed.
LEMMA CancelKeeps ==
    ASSUME IInv, cancel_transfer
    PROVE  IInv'
  <1>0. PICK h \in Source : h = client.i /\ h <= client.last
    BY IInvParts, TransferAssumption DEF cancel_transfer, CallsOK, Source
  <1> DEFINE e == Checked(h, "C")
             f == IF e.owner = "C" THEN [e EXCEPT !.pending_to = None] ELSE e
  <1>1. "C" \in Task
    BY DEF Task
  <1>2. /\ e \in Handle
        /\ handle[h].owner # "C" => e.owner = handle[h].owner
        /\ e.pending_to \in {handle[h].pending_to, None}
    BY <1>1, CheckedFacts
  <1>3. f \in Handle /\ f.owner = e.owner /\ (f.owner = "C" => f.pending_to = None)
    BY <1>2 DEF Handle
  <1>4. /\ Send(h, "C", f)
        /\ client' = [client EXCEPT !.i = h + 1]
        /\ UNCHANGED <<gen, server>>
    BY <1>0 DEF cancel_transfer
  <1>5. /\ SourcesOK'
        /\ lost' = lost
        /\ h \in lost => handle'[h] = handle[h] /\ since'[h] = since[h]
        /\ h \notin lost => handle'[h] = f /\ (f.owner # "C" => since'[h] = since[h])
        /\ \A g \in Source \ {h} : handle'[g] = handle[g] /\ since'[g] = since[g]
    BY <1>1, <1>3, <1>4, SendKeeps, ZenonT(30)
  <1>6. FlagsHeld'
    <2>1. handle[h].owner = "D" => handle'[h].owner = "D" /\ since'[h] = since[h]
      BY <1>2, <1>3, <1>5
    <2> QED
      BY <1>4, <1>5, <2>1, FlagsKept
  <1>7. CallsOK'
    <2>1. h + 1 \in 1 .. (Params + 1)
      BY TransferAssumption DEF Source
    <2> QED
      BY <1>4, <2>1, IInvParts DEF CallsOK
  <1>8. FrozenKnown'
    <2>1. /\ client'.pc = "cancel" /\ client'.i = h + 1
          /\ client'.last = client.last /\ client'.outcome = None
      BY <1>4, IInvParts DEF cancel_transfer, CallsOK, FrozenKnown
    <2>2. \A g \in lost' : handle'[g].pending_to = None
      BY <1>5, IInvParts, ZenonT(30) DEF SourcesOK, FrozenKnown
    <2>3. ~Frozen(h)'
      BY <1>3, <1>5, <2>2, ZenonT(30) DEF Frozen
    <2>4. \A g \in Source \ {h} : Frozen(g)' => h <= g /\ g <= client.last
      BY <1>0, <1>5, IInvParts DEF Frozen, FrozenKnown, cancel_transfer
    <2>5. \A g \in Source : Frozen(g)' => client'.i <= g /\ g <= client'.last
      BY <2>1, <2>3, <2>4 DEF Source
    <2> QED
      BY <2>1, <2>2, <2>5 DEF FrozenKnown, None
  <1> QED
    BY <1>5, <1>6, <1>7, <1>8, IInvTogether

\* The end of a cancellation and the send keep the invariant: nothing is left
\* frozen when the client is told so.
LEMMA CallKeeps ==
    ASSUME IInv, transfer_lost \/ send
    PROVE  IInv'
  <1>1. UNCHANGED <<handle, seen, lost, gen, since, heard>>
    BY DEF transfer_lost, send
  <1>2. SourcesOK'
    BY <1>1, SourcesUntouched
  <1>3. ASSUME transfer_lost PROVE CallsOK' /\ FlagsHeld' /\ FrozenKnown'
    <2>1. CallsOK'
      BY <1>1, <1>3, IInvParts, ZenonT(30) DEF CallsOK, transfer_lost
    <2>2. FlagsHeld'
      BY <1>1, <1>3, IInvParts DEF FlagsHeld, transfer_lost
    <2>3. client'.pc = "done" /\ client'.outcome = "TransferLost"
      BY <1>3, IInvParts DEF CallsOK, transfer_lost
    <2>4. \A h \in Source : ~Frozen(h)
      <3> SUFFICES ASSUME NEW h \in Source, Frozen(h) PROVE FALSE
        OBVIOUS
      <3>1. client.i <= h /\ h <= client.last /\ client.i > client.last
        BY <1>3, IInvParts DEF FrozenKnown, transfer_lost
      <3>2. client.i \in Nat /\ client.last \in Nat /\ h \in Nat
        BY IInvParts, TransferAssumption DEF CallsOK, Source
      <3> QED
        BY <3>1, <3>2
    <2>5. FrozenKnown'
      BY <1>1, <2>3, <2>4, IInvParts DEF FrozenKnown, Frozen, None
    <2> QED
      BY <2>1, <2>2, <2>5
  <1>4. ASSUME send PROVE CallsOK' /\ FlagsHeld' /\ FrozenKnown'
    <2>0. 1 \in 1 .. (Params + 1) /\ Params \in 0 .. Params
      BY TransferAssumption
    <2>1. CASE /\ server' = [IdleServer EXCEPT !.pc = "acquire"]
               /\ client' = [client EXCEPT !.pc = "wait"]
      <3>1. CallsOK'
        BY <1>1, <2>0, <2>1, IInvParts DEF CallsOK, IdleServer
      <3>2. FlagsHeld'
        BY <2>1 DEF FlagsHeld, IdleServer
      <3>3. client'.pc = "wait" /\ client'.outcome = None
        BY <1>4, <2>1, IInvParts DEF CallsOK, FrozenKnown, send
      <3>4. FrozenKnown'
        BY <1>1, <3>3, IInvParts DEF FrozenKnown, None
      <3> QED
        BY <3>1, <3>2, <3>4
    <2>2. CASE /\ client' = [client EXCEPT !.pc = "done", !.outcome = "ServerDied"]
               /\ UNCHANGED server
      <3>1. CallsOK'
        BY <1>1, <2>2, IInvParts, ZenonT(30) DEF CallsOK
      <3>2. FlagsHeld'
        BY <1>1, <2>2, IInvParts DEF FlagsHeld
      <3>3. client'.pc = "done" /\ client'.outcome = "ServerDied"
        BY <2>2, IInvParts DEF CallsOK
      <3>4. FrozenKnown'
        BY <1>1, <3>3, IInvParts DEF FrozenKnown
      <3> QED
        BY <3>1, <3>2, <3>4
    <2> QED
      BY <1>4, <2>1, <2>2 DEF send
  <1> QED
    BY <1>2, <1>3, <1>4, IInvTogether
-----------------------------------------------------------------------------
(* The steps of the server. *)

\* ACQUIRE keeps the invariant: a flag is set only for a handle that D owns
\* from this incarnation on, and the flags set before keep theirs.
LEMMA AcquireKeeps ==
    ASSUME IInv, acquire
    PROVE  IInv'
  <1>0. PICK h \in Source : h = server.i
    BY DEF acquire
  <1> DEFINE e == Checked(h, "D")
             ok == h \notin lost /\ e.pending_to = "D"
             f == IF ok THEN [owner |-> "D", pending_to |-> None] ELSE e
  <1>1. "D" \in Task
    BY DEF Task
  <1>2. /\ e \in Handle
        /\ e.owner \in {handle[h].owner, None}
        /\ e.pending_to \in {handle[h].pending_to, None}
    BY <1>1, CheckedFacts
  <1>3. f \in Handle /\ f.owner \in {"D", e.owner} /\ f.pending_to \in {e.pending_to, None}
    BY <1>2 DEF Handle, Task
  <1>4. /\ Send(h, "D", f)
        /\ server' = [server EXCEPT !.i = h + 1,
                                    !.flags = IF ok THEN server.flags \cup {h}
                                                    ELSE server.flags]
        /\ UNCHANGED <<gen, client>>
    BY <1>0 DEF acquire
  <1>5. /\ SourcesOK'
        /\ lost' = lost
        /\ h \in lost => handle'[h] = handle[h] /\ since'[h] = since[h]
        /\ h \notin lost => handle'[h] = f /\ (f.owner = "D" => since'[h] = gen["D"])
        /\ \A g \in Source \ {h} : handle'[g] = handle[g] /\ since'[g] = since[g]
    BY <1>1, <1>3, <1>4, SendKeeps
  <1>6. FlagsHeld'
    <2>1. server.pc = "acquire" /\ server.flags \subseteq 1 .. (h - 1)
                                /\ server.flags \subseteq Source \ {h}
      BY <1>0, IInvParts, TransferAssumption DEF acquire, FlagsHeld, CallsOK, Source
    <2>2. \A g \in server.flags \ lost : handle'[g].owner = "D" /\ since'[g] = gen'["D"]
      BY <1>4, <1>5, <2>1, IInvParts DEF FlagsHeld
    <2>3. server'.pc = "acquire" /\ server'.i = h + 1
      BY <1>4, <2>1, IInvParts DEF CallsOK
    <2>4. CASE ok
      <3>1. server'.flags = server.flags \cup {h}
        BY <1>4, <2>4, IInvParts DEF CallsOK
      <3>2. handle'[h].owner = "D" /\ since'[h] = gen'["D"]
        BY <1>4, <1>5, <2>4
      <3>3. server'.flags \subseteq 1 .. (server'.i - 1)
        BY <2>1, <2>3, <3>1, TransferAssumption DEF Source
      <3> QED
        BY <1>5, <2>2, <2>3, <3>1, <3>2, <3>3 DEF FlagsHeld
    <2>5. CASE ~ok
      <3>1. server'.flags = server.flags
        BY <1>4, <2>5, IInvParts DEF CallsOK
      <3>3. server'.flags \subseteq 1 .. (server'.i - 1)
        BY <2>1, <2>3, <3>1, TransferAssumption DEF Source
      <3> QED
        BY <1>5, <2>2, <2>3, <3>1, <3>3 DEF FlagsHeld
    <2> QED
      BY <2>4, <2>5
  <1>7. CallsOK'
    <2>1. h + 1 \in 1 .. (Params + 1)
      BY TransferAssumption DEF Source
    <2> HIDE DEF ok
    <2> QED
      BY <1>4, <2>1, IInvParts, ZenonT(30) DEF CallsOK
  <1>8. FrozenKnown'
    <2>1. Frozen(h)' => Frozen(h)
      BY <1>2, <1>3, <1>5 DEF Frozen, None
    <2>2. handle[h].pending_to = None => handle'[h].pending_to = None
      BY <1>2, <1>3, <1>5
    <2> QED
      BY <1>4, <1>5, <2>1, <2>2, FrozenKept
  <1> QED
    BY <1>5, <1>6, <1>7, <1>8, IInvTogether

\* The rollback keeps the invariant: it only gives up handles.
LEMMA RollbackKeeps ==
    ASSUME IInv, rollback
    PROVE  IInv'
  <1>0. PICK h \in Source : h = server.i
    BY IInvParts, TransferAssumption DEF rollback, CallsOK, Source
  <1> DEFINE e == Checked(h, "D")
             f == IF e.owner = "D" THEN Gone ELSE e
  <1>1. "D" \in Task
    BY DEF Task
  <1>2. /\ e \in Handle
        /\ e.owner \in {handle[h].owner, None}
        /\ e.pending_to \in {handle[h].pending_to, None}
    BY <1>1, CheckedFacts
  <1>3. f \in Handle /\ f.owner \in {None, e.owner} /\ f.pending_to \in {e.pending_to, None}
    BY <1>2 DEF Handle, Gone
  <1>4. Send(h, "D", f) /\ server' = [server EXCEPT !.i = h + 1] /\ UNCHANGED <<gen, client>>
    BY <1>0 DEF rollback
  <1>5. /\ SourcesOK'
        /\ lost' = lost
        /\ h \in lost => handle'[h] = handle[h]
        /\ h \notin lost => handle'[h] = f
        /\ \A g \in Source \ {h} : handle'[g] = handle[g]
    BY <1>1, <1>3, <1>4, SendKeeps
  <1>6. server'.pc = "rollback" /\ CallsOK'
    <2>1. h + 1 \in 1 .. (Params + 1)
      BY TransferAssumption DEF Source
    <2> QED
      BY <1>4, <2>1, IInvParts DEF CallsOK, rollback
  <1>7. FlagsHeld'
    BY <1>6 DEF FlagsHeld
  <1>8. FrozenKnown'
    <2>1. Frozen(h)' => Frozen(h)
      BY <1>2, <1>3, <1>5 DEF Frozen, None
    <2>2. handle[h].pending_to = None => handle'[h].pending_to = None
      BY <1>2, <1>3, <1>5
    <2> QED
      BY <1>4, <1>5, <2>1, <2>2, FrozenKept
  <1> QED
    BY <1>5, <1>6, <1>7, <1>8, IInvTogether

\* A reply moves a waiting client on, and no other.
LEMMA ReplyKeeps ==
    ASSUME IInv, NEW o \in {"Ok", "TransferFailed"}, Reply(o),
           UNCHANGED <<handle, lost>>
    PROVE  /\ client' \in [pc : {"idle", "prepare", "cancel", "wait", "done", "restarted", "dying"},
                            i : 1 .. (Params + 1), last : 0 .. Params,
                            outcome : {None, "Ok", "TransferLost", "TransferFailed", "ServerDied"}]
           /\ FrozenKnown'
  <1>1. CASE client.pc = "wait"
    <2>1. client' = [client EXCEPT !.pc = "done", !.outcome = o]
      BY <1>1 DEF Reply
    <2>2. client'.pc = "done" /\ client'.outcome = o /\ o # "TransferLost"
      BY <2>1, IInvParts DEF CallsOK
    <2> QED
      BY <2>1, <2>2, IInvParts, ZenonT(30) DEF CallsOK, FrozenKnown
  <1>2. CASE client.pc # "wait"
    BY <1>2, IInvParts DEF Reply, CallsOK, FrozenKnown, Frozen
  <1> QED
    BY <1>1, <1>2

\* The check of the flags, the two replies and the handler keep the invariant.
LEMMA ServeKeeps ==
    ASSUME IInv, check_flags \/ transfer_failed \/ serve
    PROVE  IInv'
  <1>0. 1 \in 1 .. (Params + 1) /\ Params \in 0 .. Params
    BY TransferAssumption
  <1>1. UNCHANGED <<handle, seen, lost, gen, since, heard>>
    BY ZenonT(30) DEF check_flags, transfer_failed, serve
  <1>2. SourcesOK'
    BY <1>1, SourcesUntouched
  <1>3. ASSUME check_flags PROVE CallsOK' /\ FlagsHeld' /\ FrozenKnown'
    <2>1. UNCHANGED client /\ server.pc = "acquire"
      BY <1>3, ZenonT(30) DEF check_flags
    <2>2. FrozenKnown'
      BY <1>1, <2>1, IInvParts DEF FrozenKnown, Frozen
    <2>3. CASE server.flags = Source /\ server' = [server EXCEPT !.pc = "serve"]
      BY <1>1, <2>1, <2>2, <2>3, IInvParts DEF CallsOK, FlagsHeld
    <2>4. ASSUME NEW h \in Source,
                 server' = [server EXCEPT !.pc = "rollback", !.i = 1, !.last = h - 1]
          PROVE  CallsOK' /\ FlagsHeld'
      <3>1. h - 1 \in 0 .. Params
        BY TransferAssumption DEF Source
      <3> QED
        BY <1>0, <1>1, <2>1, <2>4, <3>1, IInvParts, ZenonT(30) DEF CallsOK, FlagsHeld
    <2> QED
      BY <1>3, <2>2, <2>3, <2>4, ZenonT(30) DEF check_flags
  <1>4. ASSUME transfer_failed PROVE CallsOK' /\ FlagsHeld' /\ FrozenKnown'
    BY <1>0, <1>1, <1>4, ReplyKeeps, IInvParts DEF transfer_failed, CallsOK, FlagsHeld, IdleServer
  <1>5. ASSUME serve PROVE CallsOK' /\ FlagsHeld' /\ FrozenKnown'
    BY <1>1, <1>5, ReplyKeeps, IInvParts DEF serve, CallsOK, FlagsHeld
  <1> QED
    BY <1>2, <1>3, <1>4, <1>5, IInvTogether
-----------------------------------------------------------------------------
(* Faults and restarts. *)

\* A source that is restarted is lost to the call, and holds nothing.
LEMMA RestartSourceKeeps ==
    ASSUME IInv, NEW h \in Source, restart_source(h)
    PROVE  IInv'
  <1>1. /\ handle' \in [Source -> Handle]
        /\ seen' \in [Source -> [Task -> 0 .. GenMod]]
        /\ lost' \subseteq Source
        /\ since' \in [Source -> 0 .. MaxRestarts]
        /\ heard' \in [Source -> [Task -> 0 .. GenMod]]
    <2>1. Gone \in Handle /\ Never \in 0 .. GenMod
      BY TransferAssumption DEF Gone, Handle, Never
    <2> QED
      BY <2>1, IInvParts DEF restart_source, SourcesOK
  <1>2. /\ handle'[h] = Gone /\ lost' = lost \cup {h} /\ since' = since
        /\ \A g \in Source \ {h} : handle'[g] = handle[g] /\ heard'[g] = heard[g]
    BY IInvParts DEF restart_source, SourcesOK
  <1>3. TableTrue'
    BY IInvParts DEF restart_source, SourcesOK, TableTrue
  <1>4. HeardOwner'
    BY <1>2, IInvParts DEF SourcesOK, HeardOwner, Gone, Task, None
  <1>5. CallsOK'
    BY IInvParts DEF restart_source, CallsOK
  <1>6. FlagsHeld'
    BY <1>2, IInvParts DEF restart_source, CallsOK, FlagsHeld
  <1>7. FrozenKnown'
    <2>1. \A g \in Source : Frozen(g)' => Frozen(g)
      BY <1>2 DEF Frozen, Gone
    <2>2. \A g \in lost' : handle'[g].pending_to = None
      BY <1>2, IInvParts DEF SourcesOK, FrozenKnown, Gone
    <2> QED
      BY <2>1, <2>2, IInvParts DEF restart_source, FrozenKnown
  <1> QED
    BY <1>1, <1>3, <1>4, <1>5, <1>6, <1>7, IInvTogether DEF SourcesOK

\* A restart of C or D leaves the sources as they are: they find out later.
LEMMA RestartKeeps ==
    ASSUME IInv, NEW t \in Task, restart(t)
    PROVE  IInv'
  <1>0. 1 \in 1 .. (Params + 1) /\ Params \in 0 .. Params
    BY TransferAssumption
  <1>1. UNCHANGED <<handle, seen, lost, since, heard>>
    BY DEF restart
  <1>2. SourcesOK'
    BY <1>1, SourcesUntouched
  <1>3. gen' \in [Task -> 0 .. MaxRestarts] /\ \A u \in Task \ {t} : gen'[u] = gen[u]
    BY IInvParts, TransferAssumption DEF restart, CallsOK
  <1>4. CASE t = "C"
    <2>1. client' = [IdleClient EXCEPT !.pc = "restarted"] /\ UNCHANGED server
      BY <1>4 DEF restart
    <2>2. CallsOK'
      BY <1>0, <1>3, <2>1, IInvParts DEF CallsOK, IdleClient
    <2>3. FlagsHeld'
      BY <1>1, <1>3, <1>4, <2>1, IInvParts DEF FlagsHeld, Task
    <2>4. FrozenKnown'
      BY <1>1, <2>1, IInvParts DEF FrozenKnown, IdleClient, None
    <2> QED
      BY <1>2, <2>2, <2>3, <2>4, IInvTogether
  <1>5. CASE t = "D"
    <2>1. /\ server' = IdleServer
          /\ client' = IF client.pc = "wait"
                         THEN [client EXCEPT !.pc = "done", !.outcome = "ServerDied"]
                         ELSE client
      BY <1>5 DEF restart
    <2>2. CallsOK'
      BY <1>0, <1>3, <2>1, IInvParts, ZenonT(30) DEF CallsOK, IdleServer
    <2>3. FlagsHeld'
      BY <2>1 DEF FlagsHeld, IdleServer
    <2>4. FrozenKnown'
      <3>1. CASE client.pc = "wait"
        <4>1. client'.pc = "done" /\ client'.outcome = "ServerDied"
          BY <2>1, <3>1, IInvParts DEF CallsOK
        <4> QED
          BY <1>1, <4>1, IInvParts DEF FrozenKnown
      <3>2. CASE client.pc # "wait"
        BY <1>1, <2>1, <3>2, IInvParts DEF FrozenKnown, Frozen
      <3> QED
        BY <3>1, <3>2
    <2> QED
      BY <1>2, <2>2, <2>3, <2>4, IInvTogether
  <1> QED
    BY <1>4, <1>5 DEF Task

\* NOTIFY_DEAD takes only from the task that dies, and freezes nothing.
LEMMA NotifyDeadKeeps ==
    ASSUME IInv, NEW t \in Task, NEW h \in Source, notify_dead(t, h)
    PROVE  IInv'
  <1> DEFINE e == Checked(h, t)
             f == cleanup_client(e, t)
  <1>1. /\ e \in Handle
        /\ e.owner \in {handle[h].owner, None}
        /\ handle[h].owner # t => e.owner = handle[h].owner
        /\ e.pending_to \in {handle[h].pending_to, None}
    BY CheckedFacts
  <1>2. /\ f \in Handle
        /\ f.owner \in {e.owner, None}
        /\ e.owner # t => f.owner = e.owner
        /\ f.owner # t
        /\ f.pending_to \in {e.pending_to, None}
    BY <1>1 DEF cleanup_client, Gone, Handle, Task, None
  <1>3. /\ Dispatch(h, t, f)
        /\ client' = IF t = "C" THEN [client EXCEPT !.pc = "dying"] ELSE client
        /\ server' = IF t = "D" THEN [server EXCEPT !.pc = "dying"] ELSE server
        /\ UNCHANGED gen
    BY DEF notify_dead
  <1> HIDE DEF f
  <1>4. /\ SourcesOK'
        /\ lost' = lost
        /\ handle'[h] = f
        /\ since'[h] = since[h]
        /\ \A g \in Source \ {h} : handle'[g] = handle[g] /\ since'[g] = since[g]
    BY <1>2, <1>3, DispatchKeeps
  <1>5. CallsOK'
    BY <1>3, IInvParts, ZenonT(30) DEF CallsOK
  <1>6. Frozen(h)' => Frozen(h)
    BY <1>1, <1>2, <1>4 DEF Frozen, None
  <1>7. \A g \in lost' : handle'[g].pending_to = None
    BY <1>1, <1>2, <1>4, IInvParts, ZenonT(30) DEF SourcesOK, FrozenKnown
  <1>8. \A g \in Source : Frozen(g)' => Frozen(g)
    BY <1>4, <1>6 DEF Frozen
  <1>9. CASE t = "C"
    <2>1. client'.pc = "dying" /\ client'.outcome = client.outcome /\ UNCHANGED server
      BY <1>3, <1>9, IInvParts DEF CallsOK
    <2>2. FrozenKnown'
      BY <1>7, <1>8, <2>1, IInvParts DEF FrozenKnown
    <2>3. handle[h].owner = "D" => handle'[h].owner = "D" /\ since'[h] = since[h]
      BY <1>1, <1>2, <1>4, <1>9
    <2>4. FlagsHeld'
      BY <1>3, <1>4, <2>1, <2>3, FlagsKept
    <2> QED
      BY <1>4, <1>5, <2>2, <2>4, IInvTogether
  <1>10. CASE t = "D"
    <2>1. server'.pc = "dying" /\ UNCHANGED client
      BY <1>3, <1>10, IInvParts DEF CallsOK
    <2>2. FrozenKnown'
      BY <1>7, <1>8, <2>1, IInvParts DEF FrozenKnown
    <2>3. FlagsHeld'
      BY <2>1 DEF FlagsHeld
    <2> QED
      BY <1>4, <1>5, <2>2, <2>3, IInvTogether
  <1> QED
    BY <1>9, <1>10 DEF Task

\* A new handle of a restarted C is not frozen, and is nobody else's.
LEMMA OpenKeeps ==
    ASSUME IInv, NEW h \in Source, open(h)
    PROVE  IInv'
  <1> DEFINE e == Checked(h, "C")
             f == IF e = Gone THEN [owner |-> "C", pending_to |-> None] ELSE e
  <1>0. "C" \in Task
    BY DEF Task
  <1>1. /\ e \in Handle
        /\ e.owner \in {handle[h].owner, None}
        /\ handle[h].owner # "C" => e.owner = handle[h].owner
        /\ e.pending_to \in {handle[h].pending_to, None}
    BY <1>0, CheckedFacts
  <1>2. /\ f \in Handle
        /\ f.owner \in {e.owner, "C"}
        /\ e.owner # None => f.owner = e.owner
        /\ f.pending_to \in {e.pending_to, None}
        /\ f.owner = "C" /\ f.pending_to # None => e.owner = "C"
    BY <1>0, <1>1 DEF Gone, Handle
  <1>3. Dispatch(h, "C", f) /\ UNCHANGED <<gen, client, server>>
    BY DEF open
  <1> HIDE DEF f
  <1>4. /\ SourcesOK'
        /\ lost' = lost
        /\ handle'[h] = f
        /\ f.owner # "C" => since'[h] = since[h]
        /\ \A g \in Source \ {h} : handle'[g] = handle[g] /\ since'[g] = since[g]
    BY <1>0, <1>2, <1>3, DispatchKeeps
  <1>5. CallsOK'
    BY <1>3, IInvParts DEF CallsOK
  <1>6. FlagsHeld'
    <2>1. handle[h].owner = "D" => handle'[h].owner = "D" /\ since'[h] = since[h]
      BY <1>1, <1>2, <1>4 DEF None
    <2> QED
      BY <1>3, <1>4, <2>1, FlagsKept
  <1>7. FrozenKnown'
    <2>1. Frozen(h)' => Frozen(h)
      BY <1>1, <1>2, <1>4 DEF Frozen, None
    <2>2. handle[h].pending_to = None => handle'[h].pending_to = None
      BY <1>1, <1>2, <1>4
    <2> QED
      BY <1>3, <1>4, <2>1, <2>2, FrozenKept
  <1> QED
    BY <1>4, <1>5, <1>6, <1>7, IInvTogether
-----------------------------------------------------------------------------
(* The theorems. *)

\* The strengthened invariant holds initially and is kept by every step of the
\* client, the server and the sources, and by every fault.
THEOREM TransferInvariant == Spec => []IInv
  <1>1. Init => IInv
    <2> SUFFICES ASSUME Init PROVE IInv
      OBVIOUS
    <2>1. /\ 1 \in 1 .. (Params + 1) /\ Params \in 0 .. Params
          /\ 0 \in 0 .. GenMod /\ GenMod \in 0 .. GenMod /\ 0 \in 0 .. MaxRestarts
      BY TransferAssumption
    <2>2. TypeOK
      BY <2>1 DEF Init, TypeOK, IdleClient, IdleServer, Task, Never
    <2>3. TableTrue /\ HeardOwner
      BY DEF Init, TableTrue, HeardOwner, Task
    <2>4. FlagsHeld
      BY DEF Init, FlagsHeld, IdleServer
    <2>5. FrozenKnown
      BY DEF Init, FrozenKnown, Frozen, IdleClient, None
    <2> QED
      BY <2>2, <2>3, <2>4, <2>5 DEF IInv
  <1>2. IInv /\ [Next]_vars => IInv'
    <2> SUFFICES ASSUME IInv, [Next]_vars PROVE IInv'
      OBVIOUS
    <2>1. CASE prepare_transfer
      BY <2>1, PrepareKeeps
    <2>2. CASE cancel_transfer
      BY <2>2, CancelKeeps
    <2>3. CASE transfer_lost \/ send
      BY <2>3, CallKeeps
    <2>4. CASE acquire
      BY <2>4, AcquireKeeps
    <2>5. CASE check_flags \/ transfer_failed \/ serve
      BY <2>5, ServeKeeps
    <2>6. CASE rollback
      BY <2>6, RollbackKeeps
    <2>7. ASSUME NEW h \in Source, restart_source(h) \/ open(h) PROVE IInv'
      BY <2>7, RestartSourceKeeps, OpenKeeps
    <2>8. ASSUME NEW t \in Task, restart(t) PROVE IInv'
      BY <2>8, RestartKeeps
    <2>9. ASSUME NEW t \in Task, NEW h \in Source, notify_dead(t, h) PROVE IInv'
      BY <2>9, NotifyDeadKeeps
    <2>10. CASE UNCHANGED vars
      BY <2>10 DEF vars, IInv, TypeOK, TableTrue, HeardOwner, FlagsHeld, FrozenKnown, Frozen
    <2> QED
      BY <2>1, <2>2, <2>3, <2>4, <2>5, <2>6, <2>7, <2>8, <2>9, <2>10 DEF Next
  <1> QED
    BY <1>1, <1>2, PTL DEF Spec

\* For any number of handles and restarts, a source that has dispatched a
\* message of the running incarnation of a task holds nothing that an earlier
\* one owned (check_client_generation).
THEOREM TransferNoInheritance == Spec => []NoInheritance
  <1>1. IInv => NoInheritance
    BY DEF IInv, HeardOwner, NoInheritance
  <1> QED
    BY <1>1, TransferInvariant, PTL

\* For any number of handles, D's handler runs only while D owns all of them
\* whose source is still there (gen_acquire_stmts).
THEOREM TransferServesWithAll == Spec => []ServesWithAll
  <1>1. IInv => ServesWithAll
    BY DEF IInv, FlagsHeld, ServesWithAll
  <1> QED
    BY <1>1, TransferInvariant, PTL

\* For any number of handles, a client that is told TransferLost has none of
\* its handles frozen (gen_handle_transfer_stmts).
THEOREM TransferLostUnfreezes == Spec => []LostUnfreezes
  <1>1. IInv => LostUnfreezes
    BY DEF IInv, FrozenKnown, Frozen, LostUnfreezes
  <1> QED
    BY <1>1, TransferInvariant, PTL
=============================================================================
