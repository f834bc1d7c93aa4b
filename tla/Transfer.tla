------------------------------ MODULE Transfer ------------------------------
(***************************************************************************)
(* A call of a client C to a server D that moves several handles: the code *)
(* that modules/ipc/macros generates for #[handle(move)] parameters on     *)
(* both sides, and the tracking of client generations in Server.           *)
(*                                                                         *)
(* The handles come from source servers of their own, h from source h, so  *)
(* that one source may fail, or learn of a restart, before another does.   *)
(* Of the source's arena (module Arena) this keeps what a transfer needs:  *)
(* the owner of the handle and the task it is frozen for.  Tasks own by    *)
(* index; that the index has been taken over by a new incarnation is what  *)
(* a source must notice before it acts on a message.                       *)
(***************************************************************************)
EXTENDS Naturals, FiniteSets

CONSTANTS
    Params,       \* the number of handles moved by the call
    GenMod,       \* generations are counted modulo GenMod (64 in the code)
    MaxRestarts   \* bound: restarts of each task

ASSUME TransferAssumption ==
    /\ Params \in Nat /\ GenMod \in Nat /\ MaxRestarts \in Nat
    /\ MaxRestarts < GenMod

VARIABLES
    handle,   \* source -> owner and pending_to of its handle
    seen,     \* source -> task -> generation in the source's client table
    lost,     \* sources restarted since the handles of the call were opened
    gen,      \* task -> restarts so far
    client,   \* C's call: its step, parameter in hand, last one, outcome
    server,   \* D's dispatch: its step, parameter in hand, last one, flags
    since,    \* history: source -> incarnation that the owner had at the time
    heard     \* history: source -> task -> latest incarnation heard of

vars == <<handle, seen, lost, gen, client, server, since, heard>>

Source == 1 .. Params
Task == {"C", "D"}
None == "none"
Never == GenMod     \* a client that is not in the table

Generation(t) == gen[t] % GenMod

IdleClient == [pc |-> "idle", i |-> 1, last |-> Params, outcome |-> None]
IdleServer == [pc |-> "idle", i |-> 1, last |-> Params, flags |-> {}]

\* C has opened its handles, so every source knows it.
Init ==
    /\ handle = [h \in Source |-> [owner |-> "C", pending_to |-> None]]
    /\ seen = [h \in Source |-> [t \in Task |-> IF t = "C" THEN 0 ELSE Never]]
    /\ lost = {}
    /\ gen = [t \in Task |-> 0]
    /\ client = IdleClient
    /\ server = IdleServer
    /\ since = [h \in Source |-> 0]
    /\ heard = [h \in Source |-> [t \in Task |-> IF t = "C" THEN 0 ELSE Never]]

-----------------------------------------------------------------------------
(* The source servers. *)

Gone == [owner |-> None, pending_to |-> None]

\* The dispatcher's cleanup_client: drop what the task owns, unfreeze what was
\* meant for it.
cleanup_client(e, t) ==
    IF e.owner = t THEN Gone
    ELSE IF e.pending_to = t THEN [e EXCEPT !.pending_to = None] ELSE e

\* A mutant: the generation is recorded and never compared.
Checked_NoCleanup(h, t) == handle[h]

\* check_client_generation: what is left of source h's handle once it has
\* looked at the sender t of a message.
Checked(h, t) ==
    IF seen[h][t] # Never /\ seen[h][t] # Generation(t)
        THEN cleanup_client(handle[h], t) ELSE handle[h]

\* Source h dispatches a message of t that leaves its handle as e.
Dispatch(h, t, e) ==
    /\ handle' = [handle EXCEPT ![h] = e]
    /\ seen' = [seen EXCEPT ![h][t] = Generation(t)]
    /\ heard' = [heard EXCEPT ![h][t] = gen[t]]
    /\ since' = [since EXCEPT ![h] =
                    IF e.owner = t /\ Checked(h, t).owner # t THEN gen[t] ELSE @]
    /\ UNCHANGED lost

\* A message about the handle of h that the call moves: the id of the source
\* in the handle is dead if the source has been restarted.
Send(h, t, e) ==
    IF h \in lost THEN UNCHANGED <<handle, seen, lost, since, heard>> ELSE Dispatch(h, t, e)

-----------------------------------------------------------------------------
(* The client's side of the call. *)

\* A mutant: a failure is reported without cancelling the earlier parameters.
prepare_transfer_NoCancel ==
    /\ client.pc \in {"idle", "prepare"} /\ client.i \in Source
    /\ LET h == client.i
           e == Checked(h, "C")
           ok == h \notin lost /\ e.owner = "C" /\ e.pending_to = None
       IN
       /\ Send(h, "C", IF ok THEN [e EXCEPT !.pending_to = "D"] ELSE e)
       /\ client' = IF ok THEN [client EXCEPT !.pc = "prepare", !.i = h + 1]
                          ELSE [client EXCEPT !.pc = "cancel", !.i = h, !.last = h - 1]
    /\ UNCHANGED <<gen, server>>

\* PREPARE_TRANSFER of the parameter in hand; the client forgets the handle.
\* The first one that fails starts the cancellation of those before it.
prepare_transfer ==
    /\ client.pc \in {"idle", "prepare"} /\ client.i \in Source
    /\ LET h == client.i
           e == Checked(h, "C")
           ok == h \notin lost /\ e.owner = "C" /\ e.pending_to = None
       IN
       /\ Send(h, "C", IF ok THEN [e EXCEPT !.pending_to = "D"] ELSE e)
       /\ client' = IF ok THEN [client EXCEPT !.pc = "prepare", !.i = h + 1]
                          ELSE [client EXCEPT !.pc = "cancel", !.i = 1, !.last = h - 1]
    /\ UNCHANGED <<gen, server>>

\* CANCEL_TRANSFER of the earlier parameters, in order.
cancel_transfer ==
    /\ client.pc = "cancel" /\ client.i <= client.last
    /\ LET h == client.i
           e == Checked(h, "C")
       IN Send(h, "C", IF e.owner = "C" THEN [e EXCEPT !.pending_to = None] ELSE e)
    /\ client' = [client EXCEPT !.i = @ + 1]
    /\ UNCHANGED <<gen, server>>

transfer_lost ==
    /\ client.pc = "cancel" /\ client.i > client.last
    /\ client' = [client EXCEPT !.pc = "done", !.outcome = "TransferLost"]
    /\ UNCHANGED <<handle, seen, lost, gen, server, since, heard>>

\* The message goes to D once all is prepared.  D may have been restarted:
\* then the call fails, and nothing is cancelled.
send ==
    /\ client.pc = "prepare" /\ client.i = Params + 1
    /\ \/ /\ server.pc = "idle"
          /\ server' = [IdleServer EXCEPT !.pc = "acquire"]
          /\ client' = [client EXCEPT !.pc = "wait"]
       \/ /\ gen["D"] > 0
          /\ client' = [client EXCEPT !.pc = "done", !.outcome = "ServerDied"]
          /\ UNCHANGED server
    /\ UNCHANGED <<handle, seen, lost, gen, since, heard>>

-----------------------------------------------------------------------------
(* The server's side: gen_acquire_stmts. *)

\* A mutant: any flag will do.
check_flags_Any ==
    /\ server.pc = "acquire" /\ server.i = Params + 1
    /\ IF server.flags # {}
         THEN server' = [server EXCEPT !.pc = "serve"]
         ELSE server' = [server EXCEPT !.pc = "rollback", !.i = 1, !.last = 0]
    /\ UNCHANGED <<handle, seen, lost, gen, client, since, heard>>

\* ACQUIRE of one parameter after the other, whether or not they succeed.
acquire ==
    /\ server.pc = "acquire" /\ server.i \in Source
    /\ LET h == server.i
           e == Checked(h, "D")
           ok == h \notin lost /\ e.pending_to = "D"
       IN
       /\ Send(h, "D", IF ok THEN [owner |-> "D", pending_to |-> None] ELSE e)
       /\ server' = [server EXCEPT !.i = h + 1,
                                   !.flags = IF ok THEN @ \cup {h} ELSE @]
    /\ UNCHANGED <<gen, client>>

\* All flags are looked at in order: the first that is not set starts the
\* rollback of those before it.
check_flags ==
    /\ server.pc = "acquire" /\ server.i = Params + 1
    /\ \/ /\ server.flags = Source
          /\ server' = [server EXCEPT !.pc = "serve"]
       \/ \E h \in Source \ server.flags :
             /\ 1 .. (h - 1) \subseteq server.flags
             /\ server' = [server EXCEPT !.pc = "rollback", !.i = 1, !.last = h - 1]
    /\ UNCHANGED <<handle, seen, lost, gen, client, since, heard>>

\* IMPLICIT_DESTROY of a handle acquired.
rollback ==
    /\ server.pc = "rollback" /\ server.i <= server.last
    /\ LET h == server.i
           e == Checked(h, "D")
       IN Send(h, "D", IF e.owner = "D" THEN Gone ELSE e)
    /\ server' = [server EXCEPT !.i = @ + 1]
    /\ UNCHANGED <<gen, client>>

\* The reply, which C is there to receive unless it was restarted.
Reply(outcome) ==
    client' = IF client.pc = "wait"
                THEN [client EXCEPT !.pc = "done", !.outcome = outcome] ELSE client

transfer_failed ==
    /\ server.pc = "rollback" /\ server.i > server.last
    /\ server' = IdleServer
    /\ Reply("TransferFailed")
    /\ UNCHANGED <<handle, seen, lost, gen, since, heard>>

\* The handler has run with the handles, and keeps them.
serve ==
    /\ server.pc = "serve"
    /\ server' = [server EXCEPT !.pc = "kept"]
    /\ Reply("Ok")
    /\ UNCHANGED <<handle, seen, lost, gen, since, heard>>

-----------------------------------------------------------------------------
(* Faults and restarts. *)

\* A source is restarted with an empty arena and an empty client table: the
\* id of it in a handle is dead.
restart_source(h) ==
    /\ handle' = [handle EXCEPT ![h] = Gone]
    /\ seen' = [seen EXCEPT ![h] = [t \in Task |-> Never]]
    /\ heard' = [heard EXCEPT ![h] = [t \in Task |-> Never]]
    /\ lost' = lost \cup {h}
    /\ UNCHANGED <<gen, client, server, since>>

\* C or D is restarted, and remembers nothing; a client of D fails.
restart(t) ==
    /\ gen[t] < MaxRestarts
    /\ gen' = [gen EXCEPT ![t] = @ + 1]
    /\ client' = IF t = "C" THEN [IdleClient EXCEPT !.pc = "restarted"]
                 ELSE IF client.pc = "wait"
                        THEN [client EXCEPT !.pc = "done", !.outcome = "ServerDied"]
                        ELSE client
    /\ server' = IF t = "D" THEN IdleServer ELSE server
    /\ UNCHANGED <<handle, seen, lost, since, heard>>

\* NOTIFY_DEAD: a task that panics tells a server, which cleans up at once.
notify_dead(t, h) ==
    /\ t = "C" => client.pc # "wait"
    /\ gen[t] < MaxRestarts
    /\ Dispatch(h, t, cleanup_client(Checked(h, t), t))
    /\ client' = IF t = "C" THEN [client EXCEPT !.pc = "dying"] ELSE client
    /\ server' = IF t = "D" THEN [server EXCEPT !.pc = "dying"] ELSE server
    /\ UNCHANGED gen

\* A restarted C opens a handle again, at a source that holds none.
open(h) ==
    /\ client.pc = "restarted"
    /\ LET e == Checked(h, "C") IN
       Dispatch(h, "C", IF e = Gone THEN [owner |-> "C", pending_to |-> None] ELSE e)
    /\ UNCHANGED <<gen, client, server>>

Next ==
    \/ prepare_transfer \/ cancel_transfer \/ transfer_lost \/ send
    \/ acquire \/ check_flags \/ rollback \/ transfer_failed \/ serve
    \/ \E h \in Source : restart_source(h) \/ open(h)
    \/ \E t \in Task : restart(t) \/ \E h \in Source : notify_dead(t, h)

Spec == Init /\ [][Next]_vars
-----------------------------------------------------------------------------
(* Properties. *)

TypeOK ==
    /\ handle \in [Source -> [owner : Task \cup {None}, pending_to : Task \cup {None}]]
    /\ seen \in [Source -> [Task -> 0 .. GenMod]]
    /\ lost \subseteq Source
    /\ gen \in [Task -> 0 .. MaxRestarts]
    /\ client \in [pc : {"idle", "prepare", "cancel", "wait", "done", "restarted", "dying"},
                   i : 1 .. (Params + 1), last : 0 .. Params,
                   outcome : {None, "Ok", "TransferLost", "TransferFailed", "ServerDied"}]
    /\ server \in [pc : {"idle", "acquire", "rollback", "serve", "kept", "dying"},
                   i : 1 .. (Params + 1), last : 0 .. Params, flags : SUBSET Source]
    /\ since \in [Source -> 0 .. MaxRestarts]
    /\ heard \in [Source -> [Task -> 0 .. GenMod]]

\* A source that has dispatched a message of the running incarnation of a task
\* holds no handle that an earlier incarnation owned: what a client left behind
\* is dropped before its successor is served, and is not taken for its own
\* (check_client_generation).  It holds as long as the generation number does
\* not come round between two messages.
NoInheritance ==
    \A h \in Source, t \in Task :
        handle[h].owner = t /\ heard[h][t] = gen[t] => since[h] = gen[t]

\* When D's handler runs, D owns every handle of the call, in its present
\* incarnation, but for those whose source is gone: no source has given one
\* back to C or to nobody between its acquisition and the last (acquire).
ServesWithAll ==
    server.pc \in {"serve", "kept"} =>
        \A h \in Source \ lost : handle[h].owner = "D" /\ since[h] = gen["D"]

\* A call that ends with TransferLost has left none of C's handles frozen:
\* those prepared before the failure have been cancelled (prepare).
LostUnfreezes ==
    client.outcome = "TransferLost" =>
        \A h \in Source : handle[h].owner = "C" => handle[h].pending_to = None

\* "if any failed, release all previously-acquired handles and reply with an
\* error" (acquire): a call that ends with TransferFailed leaves D no handle.
RolledBack ==
    client.outcome = "TransferFailed" => \A h \in Source : handle[h].owner # "D"
=============================================================================
