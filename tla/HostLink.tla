------------------------------ MODULE HostLink ------------------------------
(***************************************************************************)
(* Calls of the host to the device over USB: the callers and the reader of *)
(* host/ipc-protocol and host/usb, the transport task usb_protocol_host    *)
(* (U), the dispatcher host_proxy (P), and the tunnel buffer that U and P  *)
(* hand to each other.  Frames may arrive damaged in either direction, U   *)
(* and P may be restarted, and the cable may be pulled.                    *)
(*                                                                         *)
(* U and P are separate tasks; a step ends where one of them touches what  *)
(* the other may touch, or makes a system call.  A request or reply takes  *)
(* Parts packets, a control frame takes one, so that a control frame in    *)
(* the tunnel overwrites the head of what was there and no more.           *)
(***************************************************************************)
EXTENDS Naturals, Sequences

CONSTANTS
    Call,            \* the calls the host makes, a set of numbers
    Parts,           \* packets of a request or a reply
    MaxRetransmits,  \* MAX_RETRANSMITS
    MaxFaults        \* bound: frames damaged, restarts and unplugging, together

\* The sequence number of a frame that is about no call.
Unkeyed == 65535

ASSUME HostLinkAssumption ==
    /\ Call \subseteq 0 .. (Unkeyed - 1)
    /\ Parts \in Nat /\ Parts > 1
    /\ MaxRetransmits \in Nat /\ MaxFaults \in Nat

VARIABLES
    tunnel,    \* the shared TunnelBuffer: lock, len and data
    usb,       \* U: ACCUM, LAST_SENT, USB_DISCONNECTED, and where it is
    proxy,     \* P: the step of its handler, LAST_DELIVERY, its id of U
    notes,     \* host_request notifications waiting for P in the reactor
    out,       \* packets on their way to the device
    in,        \* transfers on their way to the host
    host,      \* the IpcProtocol: poisoned, pending, and its reader
    calls,     \* the callers
    plugged,   \* the cable is in
    damage,    \* frames damaged so far
    gen,       \* restarts of U and P so far
    hist       \* history: transmissions and dispatches of each call

dev_vars == <<tunnel, usb, proxy, notes>>
host_vars == <<host, calls>>
vars == <<tunnel, usb, proxy, notes, out, in, host, calls, plugged, damage, gen, hist>>

-----------------------------------------------------------------------------
(* Frames.  The code knows a call by the sequence number of its frame. *)

Frame(type, seq) == [type |-> type, seq |-> seq]
RequestCorrupted == Frame("RequestCorrupted", Unkeyed)
ReplyCorrupted == Frame("ReplyCorrupted", Unkeyed)
Damaged == Frame("damaged", Unkeyed)
Outcome(what) == <<Frame(what, Unkeyed)>>   \* not from the device
Data == {"IpcRequest", "IpcReply"}
Frames == {Frame(y, c) : y \in Data \cup {"TaskDead"}, c \in Call}
            \cup {RequestCorrupted, ReplyCorrupted, Damaged}

Size(f) == IF f.type \in Data THEN Parts ELSE 1
Packets(f) == [i \in 1 .. Size(f) |-> [frame |-> f, part |-> i]]
NoPacket == [frame |-> Damaged, part |-> 0]

\* The frame that the first n packets of d begin with: the header says how
\* long it is, and the CRC fails unless all of it is there.
Unwrap(d, n) ==
    LET f == d[1].frame IN
    IF n >= Size(f) /\ \A i \in 1 .. Size(f) : d[i] = [frame |-> f, part |-> i]
        THEN f ELSE Damaged

\* d with the packets of f copied over its head.
Overwrite(d, f) == [i \in DOMAIN d |-> IF i <= Size(f) THEN Packets(f)[i] ELSE d[i]]

-----------------------------------------------------------------------------
FREE == "FREE"
Owner == {"U", "P"}
Busy == {"Staged", "Retransmitting"}
UsbState == {"Idle", "Accumulating", "Overflowed"} \cup Busy

Init ==
    /\ tunnel = [lock |-> FREE, len |-> 0, data |-> [i \in 1 .. Parts |-> NoPacket]]
    /\ usb = [state |-> "Idle", len |-> 0, last_sent |-> <<>>, disconnected |-> TRUE,
              pc |-> "loop"]
    /\ proxy = [pc |-> "loop", seq |-> Unkeyed, last_len |-> 0, knows_usb |-> TRUE]
    /\ notes = <<>> /\ out = <<>> /\ in = <<>>
    /\ host = [poisoned |-> FALSE, pending |-> [c \in {} |-> 0], next_seq |-> 0,
               reader |-> "read", resend |-> {}]
    /\ calls = [c \in Call |-> [pc |-> "idle", slot |-> <<>>, result |-> <<>>]]
    /\ plugged = TRUE /\ damage = 0
    /\ gen = [t \in Owner |-> 0]
    /\ hist = [c \in Call |-> [sent |-> 0, dispatched |-> 0]]

-----------------------------------------------------------------------------
(* The wires. *)

Restarts == gen["U"] + gen["P"]
Faulty == damage + Restarts + (IF plugged THEN 0 ELSE 1) < MaxFaults

\* f goes out in packets; the wire may damage one of them.
SendOut(f) ==
    \E bad \in {0} \cup (IF Faulty THEN {Size(f)} ELSE {}) :
        /\ out' = out \o [i \in 1 .. Size(f) |->
                              [packet |-> IF i = bad THEN NoPacket ELSE Packets(f)[i],
                               short |-> i = Size(f)]]
        /\ damage' = IF bad = 0 THEN damage ELSE damage + 1

\* write_usb: f goes to the host, intact or damaged, if the cable is in.
SendIn(f) ==
    \/ /\ in' = IF plugged THEN Append(in, f) ELSE in
       /\ damage' = damage
    \/ /\ plugged /\ Faulty /\ f # Damaged
       /\ in' = Append(in, Damaged)
       /\ damage' = damage + 1

\* A frame of the host reaches the wire: its callers and its reader share it.
Transmit(f) ==
    /\ SendOut(f)
    /\ hist' = IF f.type = "IpcRequest" THEN [hist EXCEPT ![f.seq].sent = @ + 1] ELSE hist

-----------------------------------------------------------------------------
(* The tunnel. *)

\* try_acquire_or_wipe.  Tasks store their id of generation 0, so that the
\* refreshed id of a holder differs as soon as it has been restarted.
CanAcquire == tunnel.lock = FREE \/ gen[tunnel.lock] # 0

Release(t) == [t EXCEPT !.lock = FREE]

-----------------------------------------------------------------------------
(* U, usb_protocol_host: one action per step of handle_usb_event. *)

\* A mutant: a new transfer is read while the last one is being answered.
u_event_Pipelined ==
    /\ usb.pc = "loop"
    /\ out # <<>> \/ (~plugged /\ ~usb.disconnected)
    /\ usb' = [usb EXCEPT !.pc = "drain"]
    /\ UNCHANGED <<tunnel, proxy, notes, out, in, host_vars, plugged, damage, gen, hist>>

\* The handler starts and finds U neither staged nor retransmitting.
u_event ==
    /\ usb.pc = "loop" /\ usb.state \notin Busy
    /\ out # <<>> \/ (~plugged /\ ~usb.disconnected)
    /\ usb' = [usb EXCEPT !.pc = "drain"]
    /\ UNCHANGED <<tunnel, proxy, notes, out, in, host_vars, plugged, damage, gen, hist>>

\* One packet into the tunnel; a short one ends the transfer.
u_read ==
    /\ usb.pc = "drain" /\ out # <<>>
    /\ LET fits == usb.len < Parts
           stored == usb.state = "Accumulating" \/ (usb.state = "Idle" /\ CanAcquire)
       IN
       /\ tunnel' = IF ~stored THEN tunnel
                    ELSE [tunnel EXCEPT
                             !.lock = IF usb.state = "Idle" THEN "U" ELSE @,
                             !.data[usb.len + 1] = IF fits THEN Head(out).packet ELSE @]
       /\ usb' = [usb EXCEPT
                     !.state = IF stored /\ fits THEN "Accumulating" ELSE "Overflowed",
                     !.len = IF stored THEN (IF fits THEN @ + 1 ELSE 0) ELSE @,
                     !.disconnected = FALSE,
                     !.pc = IF Head(out).short THEN "process" ELSE "drain"]
    /\ out' = Tail(out)
    /\ UNCHANGED <<proxy, notes, in, host_vars, plugged, damage, gen, hist>>

\* Nothing to read: what is on its way has not arrived yet.
u_empty ==
    /\ usb.pc = "drain" /\ plugged
    /\ usb' = [usb EXCEPT !.pc = "loop"]
    /\ UNCHANGED <<tunnel, proxy, notes, out, in, host_vars, plugged, damage, gen, hist>>

\* The endpoint reports that the bus is gone; only the first time counts.
u_disconnected ==
    /\ usb.pc = "drain" /\ out = <<>> /\ ~plugged
    /\ IF usb.disconnected
         THEN /\ usb' = [usb EXCEPT !.pc = "loop"]
              /\ UNCHANGED <<tunnel, notes>>
         ELSE /\ usb' = [usb EXCEPT !.pc = "loop", !.state = "Idle", !.len = 0,
                                    !.disconnected = TRUE]
              /\ notes' = Append(notes, "disconnected")
              /\ tunnel' = IF usb.state = "Idle" THEN tunnel ELSE Release(tunnel)
    /\ UNCHANGED <<proxy, out, in, host_vars, plugged, damage, gen, hist>>

\* process_accumulated_frame for a transfer that cannot be used: release the
\* tunnel and ask the host to send again.
u_nack ==
    /\ usb.pc = "process"
    /\ usb.state = "Overflowed" \/ Unwrap(tunnel.data, usb.len) = Damaged
    /\ tunnel' = Release(tunnel)
    /\ usb' = [usb EXCEPT !.pc = "loop", !.state = "Idle", !.len = 0,
                          !.last_sent = <<RequestCorrupted>>]
    /\ SendIn(RequestCorrupted)
    /\ UNCHANGED <<proxy, notes, out, host_vars, plugged, gen, hist>>

\* A mutant: P is not told to repeat the reply.
u_retransmit_NoPush ==
    /\ usb.pc = "process" /\ usb.state # "Overflowed"
    /\ Unwrap(tunnel.data, usb.len) = ReplyCorrupted
    /\ tunnel' = Release(tunnel)
    /\ usb' = [usb EXCEPT !.pc = "loop", !.state = "Retransmitting", !.len = 0]
    /\ UNCHANGED <<proxy, notes, out, in, host_vars, plugged, damage, gen, hist>>

\* process_accumulated_frame for ReplyCorrupted: repeat an error at once, and
\* have P repeat a reply.
u_retransmit ==
    /\ usb.pc = "process" /\ usb.state # "Overflowed"
    /\ Unwrap(tunnel.data, usb.len) = ReplyCorrupted
    /\ tunnel' = Release(tunnel)
    /\ CASE usb.last_sent = <<>> ->
              /\ usb' = [usb EXCEPT !.pc = "loop", !.state = "Idle", !.len = 0]
              /\ UNCHANGED <<notes, in, damage>>
         [] usb.last_sent = Outcome("IpcReply") ->
              /\ usb' = [usb EXCEPT !.pc = "loop", !.state = "Retransmitting", !.len = 0]
              /\ notes' = Append(notes, "redeliver")
              /\ UNCHANGED <<in, damage>>
         [] OTHER ->
              /\ usb' = [usb EXCEPT !.pc = "loop", !.state = "Idle", !.len = 0]
              /\ SendIn(usb.last_sent[1])
              /\ UNCHANGED notes
    /\ UNCHANGED <<proxy, out, host_vars, plugged, gen, hist>>

\* A mutant: the tunnel is staged and not handed over.
u_stage_NoTransfer ==
    /\ usb.pc = "process" /\ usb.state # "Overflowed"
    /\ Unwrap(tunnel.data, usb.len).type = "IpcRequest"
    /\ tunnel' = [tunnel EXCEPT !.len = Size(Unwrap(tunnel.data, usb.len))]
    /\ usb' = [usb EXCEPT !.pc = "push", !.state = "Staged"]
    /\ UNCHANGED <<proxy, notes, out, in, host_vars, plugged, damage, gen, hist>>

\* process_accumulated_frame for a request: hand the tunnel to P.  The length
\* accumulated is left alone: it is reset when the reply is delivered.
u_stage ==
    /\ usb.pc = "process" /\ usb.state # "Overflowed"
    /\ Unwrap(tunnel.data, usb.len).type = "IpcRequest"
    /\ tunnel' = [tunnel EXCEPT !.lock = "P", !.len = Size(Unwrap(tunnel.data, usb.len))]
    /\ usb' = [usb EXCEPT !.pc = "push", !.state = "Staged"]
    /\ UNCHANGED <<proxy, notes, out, in, host_vars, plugged, damage, gen, hist>>

u_push ==
    /\ usb.pc = "push"
    /\ notes' = Append(notes, "request")
    /\ usb' = [usb EXCEPT !.pc = "loop"]
    /\ UNCHANGED <<tunnel, proxy, out, in, host_vars, plugged, damage, gen, hist>>

u_step == u_event \/ u_read \/ u_empty \/ u_disconnected \/ u_nack \/ u_retransmit
            \/ u_stage \/ u_push

-----------------------------------------------------------------------------
(* P, host_proxy: handle_host_request. *)

\* The next notification.  A disconnect revokes handles, which is not
\* modelled; a redelivery needs a reply that P remembers.
p_recv ==
    /\ proxy.pc = "loop" /\ notes # <<>>
    /\ notes' = Tail(notes)
    /\ proxy' = [proxy EXCEPT !.pc =
           CASE Head(notes) = "request" -> "fetch"
             [] Head(notes) = "redeliver" /\ proxy.last_len # 0 -> "redeliver"
             [] OTHER -> "loop"]
    /\ UNCHANGED <<tunnel, usb, out, in, host_vars, plugged, damage, gen, hist>>

\* code 1: set the length again, and transfer the tunnel to its holder.
p_redeliver ==
    /\ proxy.pc = "redeliver"
    /\ tunnel' = [tunnel EXCEPT !.len = proxy.last_len]
    /\ proxy' = [proxy EXCEPT !.pc = "deliver"]
    /\ UNCHANGED <<usb, notes, out, in, host_vars, plugged, damage, gen, hist>>

\* A call of P to U whose incarnation it does not know fails, and P learns
\* the new one.
p_server_died ==
    /\ proxy.pc \in {"fetch", "deliver"} /\ ~proxy.knows_usb
    /\ proxy' = [proxy EXCEPT !.pc = "loop", !.knows_usb = TRUE]
    /\ UNCHANGED <<tunnel, usb, notes, out, in, host_vars, plugged, damage, gen, hist>>

\* fetch_pending_request, answered by U between its events.
p_fetch ==
    /\ proxy.pc = "fetch" /\ proxy.knows_usb /\ usb.pc = "loop"
    /\ proxy' = [proxy EXCEPT
           !.pc = IF usb.state = "Staged" /\ tunnel.len # 0 THEN "dispatch" ELSE "loop"]
    /\ UNCHANGED <<tunnel, usb, notes, out, in, host_vars, plugged, damage, gen, hist>>

\* dispatch_tunneled_request, first half: parse what is in the tunnel, with
\* no second look at its CRC, and send it to its server.
p_dispatch ==
    /\ proxy.pc = "dispatch"
    /\ LET f == tunnel.data[1].frame IN
       IF f.type = "IpcRequest"
         THEN /\ proxy' = [proxy EXCEPT !.pc = "serving", !.seq = f.seq]
              /\ hist' = [hist EXCEPT ![f.seq].dispatched = @ + 1]
         ELSE /\ proxy' = [proxy EXCEPT !.pc = "loop"]
              /\ UNCHANGED hist
    /\ UNCHANGED <<tunnel, usb, notes, out, in, host_vars, plugged, damage, gen>>

\* A mutant: a request whose server died is sent to its successor.
p_handover_Retry ==
    /\ proxy.pc = "serving"
    /\ \/ /\ proxy' = [proxy EXCEPT !.pc = "deliver", !.seq = Unkeyed, !.last_len = Parts]
          /\ tunnel' = [lock |-> "U", len |-> Parts,
                         data |-> Overwrite(tunnel.data, Frame("IpcReply", proxy.seq))]
       \/ /\ proxy' = [proxy EXCEPT !.pc = "dispatch"]
          /\ UNCHANGED tunnel
    /\ UNCHANGED <<usb, notes, out, in, host_vars, plugged, damage, gen, hist>>

\* Second half: the server has replied or died; encode that into the tunnel,
\* remember its length, and hand the tunnel back.
p_handover ==
    /\ proxy.pc = "serving"
    /\ \E type \in {"IpcReply", "TaskDead"} :
         LET f == Frame(type, proxy.seq) IN
         /\ tunnel' = [lock |-> "U", len |-> Size(f), data |-> Overwrite(tunnel.data, f)]
         /\ proxy' = [proxy EXCEPT !.pc = "deliver", !.seq = Unkeyed, !.last_len = Size(f)]
    /\ UNCHANGED <<usb, notes, out, in, host_vars, plugged, damage, gen, hist>>

\* deliver_reply, carried out by U between its events: whatever is in the
\* tunnel goes to the host, and the tunnel is free.
p_deliver ==
    /\ proxy.pc = "deliver" /\ proxy.knows_usb /\ usb.pc = "loop"
    /\ SendIn(Unwrap(tunnel.data, tunnel.len))
    /\ usb' = [usb EXCEPT !.state = "Idle", !.len = 0, !.last_sent = Outcome("IpcReply")]
    /\ tunnel' = Release(tunnel)
    /\ proxy' = [proxy EXCEPT !.pc = "loop"]
    /\ UNCHANGED <<notes, out, host_vars, plugged, gen, hist>>

p_step == p_recv \/ p_redeliver \/ p_server_died \/ p_fetch \/ p_dispatch \/ p_handover
            \/ p_deliver

-----------------------------------------------------------------------------
(* Restarts.  The tunnel is in memory of its own and survives them. *)

restart_usb ==
    /\ Faulty
    /\ gen' = [gen EXCEPT !["U"] = @ + 1]
    /\ usb' = [state |-> "Idle", len |-> 0, last_sent |-> <<>>, disconnected |-> TRUE,
               pc |-> "loop"]
    /\ proxy' = [proxy EXCEPT !.knows_usb = FALSE]
    /\ UNCHANGED <<tunnel, notes, out, in, host_vars, plugged, damage, hist>>

restart_proxy ==
    /\ Faulty
    /\ gen' = [gen EXCEPT !["P"] = @ + 1]
    /\ proxy' = [pc |-> "loop", seq |-> Unkeyed, last_len |-> 0, knows_usb |-> gen["U"] = 0]
    /\ UNCHANGED <<tunnel, usb, notes, out, in, host_vars, plugged, damage, hist>>

-----------------------------------------------------------------------------
(* The host: a call is prepared, registered, sent and awaited. *)

\* prepare_call, up to the sequence number.
prepare_call(c) ==
    /\ calls[c].pc = "idle"
    /\ IF host.poisoned
         THEN /\ calls' = [calls EXCEPT ![c].pc = "done", ![c].result = Outcome("TransportClosed")]
              /\ UNCHANGED host
         ELSE /\ c = host.next_seq
              /\ host' = [host EXCEPT !.next_seq = @ + 1]
              /\ calls' = [calls EXCEPT ![c].pc = "encoded"]
    /\ UNCHANGED <<dev_vars, out, in, plugged, damage, gen, hist>>

\* prepare_call, the rest: enter the call into the pending map.
register(c) ==
    /\ calls[c].pc = "encoded"
    /\ host' = [host EXCEPT !.pending =
                   [s \in DOMAIN @ \cup {c} |-> IF s = c THEN 0 ELSE @[s]]]
    /\ calls' = [calls EXCEPT ![c].pc = "registered"]
    /\ UNCHANGED <<dev_vars, out, in, plugged, damage, gen, hist>>

\* call: send the frame; a failure leaves the pending entry behind.
send(c) ==
    /\ calls[c].pc = "registered"
    /\ IF plugged
         THEN /\ Transmit(Frame("IpcRequest", c))
              /\ calls' = [calls EXCEPT ![c].pc = "waiting"]
         ELSE /\ calls' = [calls EXCEPT ![c].pc = "done", ![c].result = Outcome("Transport")]
              /\ UNCHANGED <<out, damage, hist>>
    /\ UNCHANGED <<dev_vars, in, host, plugged, gen>>

\* call: the response, or its absence, is in the slot of the caller.
finish(c) ==
    /\ calls[c].pc = "waiting" /\ calls[c].slot # <<>>
    /\ calls' = [calls EXCEPT ![c].pc = "done", ![c].result = calls[c].slot]
    /\ UNCHANGED <<dev_vars, out, in, host, plugged, damage, gen, hist>>

\* call: CALL_TIMEOUT expires first.
timeout(c) ==
    /\ calls[c].pc = "waiting" /\ calls[c].slot = <<>>
    /\ calls' = [calls EXCEPT ![c].pc = "done", ![c].result = Outcome("Timeout")]
    /\ host' = [host EXCEPT !.pending = [s \in DOMAIN @ \ {c} |-> @[s]]]
    /\ UNCHANGED <<dev_vars, out, in, plugged, damage, gen, hist>>

\* A mutant: a reply is taken to be for any call that is pending.
resolve_Any ==
    /\ host.reader = "read" /\ in # <<>> /\ plugged
    /\ Head(in) \notin {Damaged, RequestCorrupted}
    /\ in' = Tail(in)
    /\ IF DOMAIN host.pending # {}
         THEN \E s \in DOMAIN host.pending :
                /\ host' = [host EXCEPT !.pending = [q \in DOMAIN @ \ {s} |-> @[q]]]
                /\ calls' = [calls EXCEPT ![s].slot = <<Head(in)>>]
         ELSE UNCHANGED <<host, calls>>
    /\ UNCHANGED <<dev_vars, out, plugged, damage, gen, hist>>

\* host_reader on a frame for one call: resolve.
resolve ==
    /\ host.reader = "read" /\ in # <<>> /\ plugged
    /\ Head(in) \notin {Damaged, RequestCorrupted}
    /\ in' = Tail(in)
    /\ LET s == Head(in).seq IN
       IF s \in DOMAIN host.pending
         THEN /\ host' = [host EXCEPT !.pending = [q \in DOMAIN @ \ {s} |-> @[q]]]
              /\ calls' = [calls EXCEPT ![s].slot = <<Head(in)>>]
         ELSE UNCHANGED <<host, calls>>
    /\ UNCHANGED <<dev_vars, out, plugged, damage, gen, hist>>

\* host_reader on a damaged frame: ask for the reply again.
reply_corrupted ==
    /\ host.reader = "read" /\ in # <<>> /\ plugged
    /\ Head(in) = Damaged
    /\ in' = Tail(in)
    /\ Transmit(ReplyCorrupted)
    /\ UNCHANGED <<dev_vars, host_vars, plugged, gen>>

\* A mutant: one retransmission too many.
retransmit_pending_OneMore ==
    /\ host.reader = "read" /\ in # <<>> /\ plugged
    /\ Head(in) = RequestCorrupted
    /\ in' = Tail(in)
    /\ host' = [host EXCEPT !.pending = [s \in DOMAIN @ |-> @[s] + 1],
                            !.reader = "resend", !.resend = DOMAIN host.pending]
    /\ UNCHANGED <<dev_vars, out, calls, plugged, damage, gen, hist>>

\* retransmit_pending: every pending call is sent again, or given up.
retransmit_pending ==
    /\ host.reader = "read" /\ in # <<>> /\ plugged
    /\ Head(in) = RequestCorrupted
    /\ in' = Tail(in)
    /\ LET pending == host.pending
           again == {s \in DOMAIN pending : pending[s] < MaxRetransmits}
       IN
       /\ host' = [host EXCEPT !.pending = [s \in again |-> pending[s] + 1],
                               !.reader = "resend", !.resend = again]
       /\ calls' = [c \in Call |-> IF c \in DOMAIN pending \ again
                                     THEN [calls[c] EXCEPT !.slot = <<RequestCorrupted>>]
                                     ELSE calls[c]]
    /\ UNCHANGED <<dev_vars, out, plugged, damage, gen, hist>>

\* The frames of retransmit_pending, in the order of a hash map.
resend ==
    /\ host.reader = "resend"
    /\ \/ \E s \in host.resend :
            /\ host' = [host EXCEPT !.resend = @ \ {s}]
            /\ IF plugged THEN Transmit(Frame("IpcRequest", s))
                          ELSE UNCHANGED <<out, damage, hist>>
       \/ /\ host.resend = {}
          /\ host' = [host EXCEPT !.reader = "read"]
          /\ UNCHANGED <<out, damage, hist>>
    /\ UNCHANGED <<dev_vars, in, calls, plugged, gen>>

\* The cable is pulled: what is on the wires is lost.
unplug ==
    /\ plugged /\ Faulty
    /\ plugged' = FALSE /\ out' = <<>> /\ in' = <<>>
    /\ UNCHANGED <<dev_vars, host_vars, damage, gen, hist>>

\* The reader ends on the error of its transfer, and poisons the protocol:
\* first the flag, then the pending map, whose slots are dropped.
poison ==
    /\ ~plugged
    /\ \/ /\ host.reader = "read"
          /\ host' = [host EXCEPT !.poisoned = TRUE, !.reader = "poison"]
          /\ UNCHANGED calls
       \/ /\ host.reader = "poison"
          /\ host' = [host EXCEPT !.reader = "ended", !.pending = [s \in {} |-> 0]]
          /\ calls' = [c \in Call |-> IF c \in DOMAIN host.pending
                                        THEN [calls[c] EXCEPT !.slot = Outcome("Disconnected")]
                                        ELSE calls[c]]
    /\ UNCHANGED <<dev_vars, out, in, plugged, damage, gen, hist>>

Next ==
    \/ u_step \/ p_step
    \/ restart_usb \/ restart_proxy \/ unplug
    \/ \E c \in Call : prepare_call(c) \/ register(c) \/ send(c) \/ finish(c) \/ timeout(c)
    \/ resolve \/ reply_corrupted \/ retransmit_pending \/ resend \/ poison

Spec == Init /\ [][Next]_vars

\* The tasks of the device are scheduled, and a server that P calls replies or
\* dies.  Nothing is assumed of the host.
LiveSpec == Spec /\ WF_vars(u_step) /\ WF_vars(p_step)

-----------------------------------------------------------------------------
(* Properties. *)

Result == {<<>>} \cup {<<f>> : f \in Frames}
            \cup {Outcome(w) : w \in {"TransportClosed", "Transport", "Timeout", "Disconnected"}}

TypeOK ==
    /\ tunnel.lock \in Owner \cup {FREE} /\ tunnel.len \in 0 .. Parts
    /\ tunnel.data \in [1 .. Parts -> [frame : Frames, part : 0 .. Parts]]
    /\ usb.state \in UsbState /\ usb.len \in 0 .. Parts /\ usb.disconnected \in BOOLEAN
    /\ usb.last_sent \in {<<>>, Outcome("IpcReply"), <<RequestCorrupted>>}
    /\ usb.pc \in {"loop", "drain", "process", "push"}
    /\ proxy.pc \in {"loop", "fetch", "redeliver", "dispatch", "serving", "deliver"}
    /\ proxy.seq \in Call \cup {Unkeyed} /\ proxy.last_len \in 0 .. Parts
    /\ proxy.knows_usb \in BOOLEAN
    /\ notes \in Seq({"request", "redeliver", "disconnected"})
    /\ out \in Seq([packet : [frame : Frames, part : 0 .. Parts], short : BOOLEAN])
    /\ in \in Seq(Frames)
    /\ host.pending \in UNION {[S -> 0 .. MaxRetransmits] : S \in SUBSET Call}
    /\ host.reader \in {"read", "resend", "poison", "ended"} /\ host.resend \subseteq Call
    /\ \A c \in Call : /\ calls[c].pc \in {"idle", "encoded", "registered", "waiting", "done"}
                       /\ calls[c].slot \in Result /\ calls[c].result \in Result

\* A call that returns a frame of the device returns the outcome of its own
\* request, and of a request that a server was really given: neither a late
\* frame, nor one repeated, nor one left in the tunnel by a task that died
\* resolves another call (resolve, deliver_reply).
RightReply ==
    \A c \in Call : LET r == calls[c].result IN
        r # <<>> /\ r[1].type \in {"IpcReply", "TaskDead"} =>
            r[1].seq = c /\ hist[c].dispatched > 0

\* host_proxy sends a server no request more often than the host transmitted
\* it: recovery by ReplyCorrupted does not run a request again, and one staged
\* request is taken once (handle_host_request).  Restarts of both tasks may
\* break this: each restart of usb_protocol_host may leave a notification
\* behind, with which a restarted host_proxy fetches a request a second time.
NoSpuriousDispatch ==
    gen["U"] = 0 \/ gen["P"] = 0 => \A c \in Call : hist[c].dispatched <= hist[c].sent

\* What host_proxy is about to send to a server, which checks no CRC, is a
\* whole frame: no transfer that arrives meanwhile leaves it half overwritten,
\* as long as usb_protocol_host is not restarted with the request in the
\* tunnel.
DispatchesWhole ==
    gen["U"] = 0 /\ proxy.pc = "dispatch" =>
        Unwrap(tunnel.data, tunnel.len) # Damaged

\* "Only the current owner may access data or len" (tunnel.rs), while no task
\* has been restarted: U holds the lock while it accumulates, P from staging
\* until it hands over, and U again until the reply is sent.  A redelivery,
\* for which U has released the lock, is the exception.
OwnerHolds ==
    Restarts = 0 =>
        /\ usb.state = "Accumulating" => tunnel.lock = "U"
        /\ proxy.pc \in {"dispatch", "serving"} /\ usb.state = "Staged" => tunnel.lock = "P"
        /\ proxy.pc = "deliver" /\ usb.state = "Staged" => tunnel.lock = "U"
        /\ usb.state \in {"Idle", "Retransmitting"} => tunnel.lock = FREE

\* "ReplyCorrupted - retransmit the last reply without re-dispatching"
\* (host_proxy): what P has U deliver again is a reply.
RedeliversReply ==
    proxy.pc = "deliver" /\ usb.state = "Retransmitting" =>
        Unwrap(tunnel.data, tunnel.len).type \in {"IpcReply", "TaskDead"}

\* While no task is restarted, the transport does not stay staged or
\* retransmitting: it comes to accept the host's frames again.
ChannelRecovers ==
    (usb.state \in Busy) ~> (usb.state \notin Busy \/ Restarts > 0)

=============================================================================
