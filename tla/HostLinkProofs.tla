--------------------------- MODULE HostLinkProofs ---------------------------
(***************************************************************************)
(* The safety of HostLink, for any number of calls, any length of frames   *)
(* and any number of faults.                                               *)
(***************************************************************************)
EXTENDS HostLink, TLAPS

(* What the frames in the system may be.                                   *)
Reply == {"IpcReply", "TaskDead"}

\* A reply is to a request that a server was given; h is the history.
Known(h) == {f \in Frames : f.type \in Reply => h[f.seq].dispatched > 0}

\* The host sends no replies.
Sent == {f \in Frames : f.type \notin Reply}

\* What a call c may hold.
Held(h, c) == {<<>>} \cup {<<f>> : f \in {g \in Known(h) : g.type \in Reply => g.seq = c}}
                \cup {Outcome(w) : w \in {"TransportClosed", "Transport", "Timeout", "Disconnected"}}

Tunnels(h) == [lock : Owner \cup {FREE}, len : 0 .. Parts,
               data : [1 .. Parts -> [frame : Known(h), part : 0 .. Parts]]]
Usbs == [state : UsbState, len : 0 .. Parts,
         last_sent : {<<>>, Outcome("IpcReply"), <<RequestCorrupted>>},
         disconnected : BOOLEAN, pc : {"loop", "drain", "process", "push"}]
Proxies == [pc : {"loop", "fetch", "redeliver", "dispatch", "serving", "deliver"},
            seq : Call \cup {Unkeyed}, last_len : 0 .. Parts, knows_usb : BOOLEAN]
Notes == {"request", "redeliver", "disconnected"}
Outs == [packet : [frame : Sent, part : 0 .. Parts], short : BOOLEAN]
Pendings == UNION {[S -> 0 .. MaxRetransmits] : S \in SUBSET Call}
Hosts == [poisoned : BOOLEAN, pending : Pendings,
          next_seq : Nat, reader : {"read", "resend", "poison", "ended"}, resend : SUBSET Call]
CallPcs == {"idle", "encoded", "registered", "waiting", "done"}
Calls(h, c) == [pc : CallPcs, slot : Held(h, c), result : Held(h, c)]

\* The state of the device, and of the wires and the host.
DeviceOK ==
    /\ tunnel \in Tunnels(hist) /\ usb \in Usbs /\ proxy \in Proxies
    /\ notes \in Seq(Notes)
    /\ proxy.pc = "serving" => proxy.seq \in Call /\ hist[proxy.seq].dispatched > 0
    /\ gen \in [Owner -> Nat]

HostOK ==
    /\ out \in Seq(Outs) /\ in \in Seq(Known(hist)) /\ host \in Hosts
    /\ hist \in [Call -> [sent : Nat, dispatched : Nat]]
    /\ DOMAIN calls = Call
    /\ \A c \in Call : calls[c] \in Calls(hist, c)

(***************************************************************************)
(* Until U is restarted, U and P take turns: a request or a redelivery is  *)
(* in U, in a notification or in P, and U waits while it is with P.        *)
(***************************************************************************)
Active(i) == notes[i] # "disconnected"

Turns ==
    gen["U"] = 0 =>
        /\ proxy.knows_usb
        /\ \A i, j \in 1 .. Len(notes) : Active(i) /\ Active(j) => i = j
        /\ \A i \in 1 .. Len(notes) : Active(i) =>
              /\ proxy.pc = "loop" /\ usb.pc = "loop"
              /\ usb.state = IF notes[i] = "request" THEN "Staged" ELSE "Retransmitting"
        /\ proxy.pc # "loop" => usb.pc = "loop" /\ usb.state \in Busy
        /\ proxy.pc \in {"fetch", "dispatch", "serving"} => usb.state = "Staged"
        /\ proxy.pc = "redeliver" => usb.state = "Retransmitting"
        /\ usb.state \in Busy => usb.pc \in {"loop", "push"}
        /\ usb.pc = "push" => usb.state = "Staged"

\* What is staged is a whole frame.
Whole ==
    gen["U"] = 0 /\ usb.state = "Staged" => Unwrap(tunnel.data, tunnel.len) # Damaged

\* Until a task is restarted, the state of U tells who holds the tunnel.
Locks ==
    Restarts = 0 =>
        /\ usb.state = "Accumulating" => tunnel.lock = "U"
        /\ usb.state \in {"Idle", "Retransmitting"} => tunnel.lock = FREE
        /\ usb.state = "Staged" => tunnel.lock = IF proxy.pc = "deliver" THEN "U" ELSE "P"

IInv == DeviceOK /\ HostOK /\ Turns /\ Whole /\ Locks
-----------------------------------------------------------------------------
(* Frames. *)

\* Every frame has a size, and one that is about a call names it.
LEMMA FrameFacts ==
    ASSUME NEW f \in Frames
    PROVE  /\ Size(f) \in 1 .. Parts
           /\ f.type \in Data \cup {"TaskDead"} => f.seq \in Call
           /\ f.type \in Reply => f # Damaged /\ f # RequestCorrupted
  <1>1. Size(f) \in 1 .. Parts
    BY HostLinkAssumption DEF Size
  <1>2. CASE f \in {RequestCorrupted, ReplyCorrupted, Damaged}
    BY <1>1, <1>2 DEF RequestCorrupted, ReplyCorrupted, Damaged, Frame, Data, Reply
  <1>3. CASE f \in {Frame(y, c) : y \in Data \cup {"TaskDead"}, c \in Call}
    BY <1>1, <1>3 DEF RequestCorrupted, Damaged, Frame, Data
  <1> QED
    BY <1>2, <1>3 DEF Frames

\* Control frames and damaged ones are no replies.
LEMMA ControlFrames ==
    /\ {RequestCorrupted, ReplyCorrupted, Damaged} \subseteq Sent
    /\ \A c \in Call : Frame("IpcRequest", c) \in Sent
    /\ \A h : Sent \subseteq Known(h)
    /\ Damaged.type = "damaged"
  <1>1. /\ {RequestCorrupted, ReplyCorrupted, Damaged} \subseteq Frames
        /\ \A c \in Call : Frame("IpcRequest", c) \in Frames
    BY DEF Frames, Data
  <1>2. /\ RequestCorrupted.type = "RequestCorrupted" /\ ReplyCorrupted.type = "ReplyCorrupted"
        /\ Damaged.type = "damaged"
        /\ \A c : Frame("IpcRequest", c).type = "IpcRequest"
    BY DEF RequestCorrupted, ReplyCorrupted, Damaged, Frame
  <1> QED
    BY <1>1, <1>2 DEF Sent, Known, Reply

\* What Unwrap returns is a frame of the buffer, or a damaged one.
LEMMA UnwrapKnown ==
    ASSUME NEW h, NEW d \in [1 .. Parts -> [frame : Known(h), part : 0 .. Parts]], NEW n
    PROVE  Unwrap(d, n) \in Known(h)
  <1>1. d[1].frame \in Known(h)
    BY HostLinkAssumption
  <1> QED
    BY <1>1, ControlFrames DEF Unwrap

\* A frame that was recognised is recognised again by its own length.
LEMMA UnwrapAgain ==
    ASSUME NEW d, NEW n, Unwrap(d, n) # Damaged, Size(Unwrap(d, n)) \in Nat
    PROVE  Unwrap(d, Size(Unwrap(d, n))) # Damaged
  <1>1. Unwrap(d, n) = d[1].frame
    BY DEF Unwrap
  <1>2. \A i \in 1 .. Size(d[1].frame) : d[i] = [frame |-> d[1].frame, part |-> i]
    BY DEF Unwrap
  <1> QED
    BY <1>1, <1>2 DEF Unwrap

\* A frame copied into the buffer is there as a whole.
LEMMA OverwriteWhole ==
    ASSUME NEW h, NEW d \in [1 .. Parts -> [frame : Known(h), part : 0 .. Parts]],
           NEW f \in Known(h)
    PROVE  /\ Overwrite(d, f) \in [1 .. Parts -> [frame : Known(h), part : 0 .. Parts]]
           /\ Unwrap(Overwrite(d, f), Size(f)) = f
  <1>1. f \in Frames /\ Size(f) \in 1 .. Parts /\ Parts \in Nat
    BY FrameFacts, HostLinkAssumption DEF Known
  <1>2. \A i \in 1 .. Parts :
           Overwrite(d, f)[i] = IF i <= Size(f) THEN [frame |-> f, part |-> i] ELSE d[i]
    BY <1>1 DEF Overwrite, Packets
  <1>3. Overwrite(d, f) = [i \in 1 .. Parts |-> Overwrite(d, f)[i]]
    BY DEF Overwrite
  <1>4. \A i \in 1 .. Parts : Overwrite(d, f)[i] \in [frame : Known(h), part : 0 .. Parts]
    <2> TAKE i \in 1 .. Parts
    <2>1. CASE i <= Size(f)
      <3>1. i \in 0 .. Parts
        BY <1>1
      <3>2. Overwrite(d, f)[i] = [frame |-> f, part |-> i]
        BY <1>2, <2>1
      <3> QED
        BY <3>1, <3>2
    <2>2. CASE ~(i <= Size(f))
      BY <1>2, <2>2, ZenonT(30)
    <2> QED
      BY <2>1, <2>2
  <1>5. Overwrite(d, f)[1] = [frame |-> f, part |-> 1]
    BY <1>1, <1>2
  <1>6. \A i \in 1 .. Size(f) : Overwrite(d, f)[i] = [frame |-> f, part |-> i]
    BY <1>1, <1>2
  <1>7. Overwrite(d, f) \in [1 .. Parts -> [frame : Known(h), part : 0 .. Parts]]
    BY <1>3, <1>4
  <1>8. Unwrap(Overwrite(d, f), Size(f)) = f
    <2> HIDE DEF Overwrite
    <2>1. Overwrite(d, f)[1].frame = f
      BY <1>5
    <2> QED
      BY <1>1, <1>6, <2>1 DEF Unwrap
  <1> QED
    BY <1>7, <1>8
-----------------------------------------------------------------------------
(* What the wires and the history do. *)

\* A transmission of the host changes no dispatch; its packets are no replies.
LEMMA TransmitOK ==
    ASSUME HostOK, NEW f \in Sent, Transmit(f)
    PROVE  /\ out' \in Seq(Outs)
           /\ hist' \in [Call -> [sent : Nat, dispatched : Nat]]
           /\ \A c \in Call : hist'[c].dispatched = hist[c].dispatched
  <1>1. out \in Seq(Outs) /\ hist \in [Call -> [sent : Nat, dispatched : Nat]]
    BY DEF HostOK
  <1>2. f \in Frames /\ Size(f) \in 1 .. Parts /\ Parts \in Nat
    BY FrameFacts, HostLinkAssumption DEF Sent
  <1>3. PICK bad : out' = out \o [i \in 1 .. Size(f) |->
                              [packet |-> IF i = bad THEN NoPacket ELSE Packets(f)[i],
                               short |-> i = Size(f)]]
    BY ZenonT(30) DEF Transmit, SendOut
  <1> DEFINE p(i) == [packet |-> IF i = bad THEN NoPacket ELSE Packets(f)[i],
                      short |-> i = Size(f)]
  <1>4. ASSUME NEW i \in 1 .. Size(f) PROVE p(i) \in Outs
    <2>1. NoPacket \in [frame : Sent, part : 0 .. Parts]
      BY <1>2, ControlFrames DEF NoPacket
    <2>2. Packets(f)[i] = [frame |-> f, part |-> i] /\ i \in 0 .. Parts
      BY <1>2, <1>4 DEF Packets
    <2>3. Packets(f)[i] \in [frame : Sent, part : 0 .. Parts]
      BY <2>2
    <2> QED
      BY <2>1, <2>3 DEF Outs
  <1>5. [i \in 1 .. Size(f) |-> p(i)] \in Seq(Outs)
    <2> HIDE DEF p
    <2> QED
      BY <1>2, <1>4
  <1>6. out' \in Seq(Outs)
    <2> HIDE DEF p
    <2>1. ASSUME NEW q \in Seq(Outs) PROVE out \o q \in Seq(Outs)
      BY <1>1
    <2>2. out' = out \o [i \in 1 .. Size(f) |-> p(i)]
      BY <1>3 DEF p
    <2> QED
      BY <1>5, <2>1, <2>2
  <1>7. CASE f.type = "IpcRequest"
    <2>1. f.seq \in Call
      BY <1>2, <1>7, FrameFacts DEF Data
    <2>2. hist' = [hist EXCEPT ![f.seq].sent = @ + 1]
      BY <1>7 DEF Transmit
    <2>3. hist' \in [Call -> [sent : Nat, dispatched : Nat]]
      BY <1>1, <2>1, <2>2
    <2>4. \A c \in Call : hist'[c].dispatched = hist[c].dispatched
      BY <1>1, <2>1, <2>2
    <2> QED
      BY <1>6, <2>3, <2>4
  <1>8. CASE f.type # "IpcRequest"
    BY <1>1, <1>6, <1>8 DEF Transmit
  <1> QED
    BY <1>7, <1>8

\* What was known stays known.
LEMMA KnownGrows ==
    ASSUME NEW h, NEW k, \A c \in Call : h[c].dispatched > 0 => k[c].dispatched > 0
    PROVE  /\ Known(h) \subseteq Known(k)
           /\ \A c \in Call : Held(h, c) \subseteq Held(k, c)
           /\ Seq(Known(h)) \subseteq Seq(Known(k))
           /\ Tunnels(h) \subseteq Tunnels(k)
  <1>1. Known(h) \subseteq Known(k)
    <2>1. ASSUME NEW f \in Frames, f.type \in Reply PROVE f.seq \in Call
      BY <2>1, FrameFacts DEF Reply, Data
    <2> QED
      BY <2>1, ZenonT(30) DEF Known
  <1>2. \A c \in Call : Held(h, c) \subseteq Held(k, c)
    BY <1>1, ZenonT(30) DEF Held
  <1>3. Seq(Known(h)) \subseteq Seq(Known(k))
    BY <1>1
  <1>4. [1 .. Parts -> [frame : Known(h), part : 0 .. Parts]]
           \subseteq [1 .. Parts -> [frame : Known(k), part : 0 .. Parts]]
    BY <1>1
  <1>5. Tunnels(h) \subseteq Tunnels(k)
    BY <1>4 DEF Tunnels
  <1> QED
    BY <1>1, <1>2, <1>3, <1>5

\* A frame to the host joins those on the wire.
LEMMA SendInOK ==
    ASSUME HostOK, NEW f \in Known(hist), SendIn(f)
    PROVE  in' \in Seq(Known(hist))
  <1>1. in \in Seq(Known(hist)) /\ Damaged \in Known(hist)
    BY ControlFrames DEF HostOK
  <1>2. \A g \in Known(hist) : Append(in, g) \in Seq(Known(hist))
    BY <1>1
  <1> QED
    BY <1>1, <1>2 DEF SendIn

\* Nothing is a length.
LEMMA NoLength == Parts \in Nat /\ 0 \in 0 .. Parts
  BY HostLinkAssumption

\* A field of the tunnel is replaced.
LEMMA TunnelFields ==
    ASSUME NEW h, NEW t \in Tunnels(h)
    PROVE  /\ \A l \in Owner \cup {FREE} : [t EXCEPT !.lock = l] \in Tunnels(h)
           /\ \A n \in 0 .. Parts : [t EXCEPT !.len = n] \in Tunnels(h)
           /\ Release(t) \in Tunnels(h)
  BY DEF Tunnels, Release

\* The host's side, when only the wires and the dispatches move.
LEMMA HostKept ==
    ASSUME HostOK, UNCHANGED host_vars,
           out' \in Seq(Outs), in' \in Seq(Known(hist')),
           hist' \in [Call -> [sent : Nat, dispatched : Nat]],
           \A c \in Call : hist[c].dispatched > 0 => hist'[c].dispatched > 0
    PROVE  HostOK'
  <1>1. \A c \in Call : Held(hist, c) \subseteq Held(hist', c)
    BY KnownGrows, ZenonT(30)
  <1>2. \A c \in Call : calls'[c] \in Calls(hist', c)
    BY <1>1 DEF HostOK, Calls, host_vars
  <1>3. DOMAIN calls' = Call /\ host' \in Hosts
    BY DEF HostOK, host_vars
  <1> QED
    BY <1>2, <1>3 DEF HostOK

\* The device's side, when only transmissions are counted.
LEMMA DeviceKept ==
    ASSUME IInv, UNCHANGED <<dev_vars, gen>>,
           \A c \in Call : hist'[c].dispatched = hist[c].dispatched
    PROVE  DeviceOK' /\ Turns' /\ Whole' /\ Locks'
  <1>1. tunnel' = tunnel /\ usb' = usb /\ proxy' = proxy /\ notes' = notes /\ gen' = gen
    BY DEF dev_vars
  <1>2. Tunnels(hist) \subseteq Tunnels(hist')
    BY KnownGrows, SMTT(30)
  <1>3. DeviceOK'
    BY <1>1, <1>2 DEF IInv, DeviceOK
  <1>4. Turns'
    BY <1>1, ZenonT(30) DEF IInv, Turns, Active
  <1>5. Whole'
    BY <1>1 DEF IInv, Whole
  <1>6. Locks'
    BY <1>1 DEF IInv, Locks, Restarts
  <1> QED
    BY <1>3, <1>4, <1>5, <1>6

\* No restart at all is in particular no restart of U.
LEMMA RestartsOfU ==
    ASSUME DeviceOK
    PROVE  /\ gen["U"] \in Nat /\ gen["P"] \in Nat
           /\ Restarts = 0 => gen["U"] = 0
  BY DEF DeviceOK, Owner, Restarts

\* While U is in its handler, P has nothing of it.
LEMMA WhileU ==
    ASSUME IInv, gen["U"] = 0, usb.pc # "loop"
    PROVE  proxy.pc = "loop" /\ \A i \in 1 .. Len(notes) : ~Active(i)
  BY ZenonT(30) DEF IInv, Turns

\* The host's side, when nothing of it changes.
LEMMA HostSame ==
    ASSUME HostOK, UNCHANGED <<out, in, host_vars, hist>>
    PROVE  HostOK'
  <1>1. out' = out /\ in' = in /\ hist' = hist /\ UNCHANGED host_vars
    OBVIOUS
  <1>2. out' \in Seq(Outs) /\ in' \in Seq(Known(hist'))
        /\ hist' \in [Call -> [sent : Nat, dispatched : Nat]]
    BY <1>1 DEF HostOK
  <1> QED
    BY <1>1, <1>2, HostKept
-----------------------------------------------------------------------------
(* The steps of U. *)

\* u_event keeps the invariant: U is neither staged nor retransmitting, so
\* nothing of it is with P.
LEMMA KeepsEvent ==
    ASSUME IInv, u_event
    PROVE  IInv'
  <1>1. HostOK'
    BY HostSame DEF IInv, u_event
  <1>2. DeviceOK'
    BY SMTT(30) DEF IInv, DeviceOK, u_event, Usbs
  <1>3. usb'.state = usb.state /\ usb.state \notin Busy /\ usb'.pc = "drain" /\ usb.pc = "loop"
    BY DEF IInv, DeviceOK, u_event, Usbs
  <1>4. Turns'
    <2> SUFFICES ASSUME gen'["U"] = 0 PROVE Turns'
      BY DEF Turns
    <2>1. proxy' = proxy /\ notes' = notes /\ gen' = gen /\ gen["U"] = 0
      BY DEF u_event
    <2>2. \A i \in 1 .. Len(notes) : ~Active(i)
      BY <1>3, <2>1 DEF IInv, Turns, Busy
    <2>3. proxy.pc = "loop" /\ proxy.knows_usb
      BY <1>3, <2>1 DEF IInv, Turns
    <2>4. \A i \in 1 .. Len(notes') : ~Active(i)'
      BY <2>1, <2>2 DEF Active
    <2> QED
      BY <1>3, <2>1, <2>3, <2>4 DEF Turns, Busy
  <1>5. Whole'
    BY <1>3 DEF Whole, Busy
  <1>6. Locks'
    BY <1>3 DEF IInv, Locks, u_event, Restarts
  <1> QED
    BY <1>1, <1>2, <1>4, <1>5, <1>6 DEF IInv

\* u_empty keeps the invariant: U leaves its handler with what it had.
LEMMA KeepsEmpty ==
    ASSUME IInv, u_empty
    PROVE  IInv'
  <1>1. HostOK'
    BY HostSame DEF IInv, u_empty
  <1>2. DeviceOK'
    BY DEF IInv, DeviceOK, u_empty, Usbs
  <1>3. usb'.state = usb.state /\ usb.pc = "drain" /\ usb'.pc = "loop"
    BY DEF IInv, DeviceOK, u_empty, Usbs
  <1>4. Turns'
    <2> SUFFICES ASSUME gen'["U"] = 0 PROVE Turns'
      BY DEF Turns
    <2>1. proxy' = proxy /\ notes' = notes /\ gen' = gen /\ gen["U"] = 0
      BY DEF u_empty
    <2>2. proxy.pc = "loop" /\ \A i \in 1 .. Len(notes) : ~Active(i)
      BY <1>3, <2>1, WhileU
    <2>3. proxy.knows_usb
      BY <2>1 DEF IInv, Turns
    <2>4. \A i \in 1 .. Len(notes') : ~Active(i)'
      BY <2>1, <2>2 DEF Active
    <2> QED
      BY <1>3, <2>1, <2>2, <2>3, <2>4 DEF Turns
  <1>5. Whole'
    BY <1>3 DEF IInv, Whole, u_empty
  <1>6. Locks'
    BY <1>3 DEF IInv, Locks, u_empty, Restarts
  <1> QED
    BY <1>1, <1>2, <1>4, <1>5, <1>6 DEF IInv

\* u_read keeps the invariant: a packet is stored only where U holds the
\* tunnel, and within it.
LEMMA KeepsRead ==
    ASSUME IInv, u_read
    PROVE  IInv'
  <1>1. /\ usb.pc = "drain" /\ out \in Seq(Outs) /\ out # <<>>
        /\ tunnel \in Tunnels(hist) /\ usb \in Usbs /\ proxy \in Proxies
        /\ Parts \in Nat
    BY HostLinkAssumption DEF IInv, DeviceOK, HostOK, u_read
  <1>2. Head(out) \in Outs /\ Tail(out) \in Seq(Outs)
    BY <1>1
  <1>3. HostOK'
    <2>1. out' = Tail(out) /\ in' = in /\ hist' = hist /\ UNCHANGED host_vars
      BY DEF u_read
    <2>2. in' \in Seq(Known(hist')) /\ hist' \in [Call -> [sent : Nat, dispatched : Nat]]
      BY <2>1 DEF IInv, HostOK
    <2> QED
      BY <1>2, <2>1, <2>2, HostKept DEF IInv
  <1>4. Head(out).packet \in [frame : Known(hist), part : 0 .. Parts]
        /\ Head(out).short \in BOOLEAN
    BY <1>2, ControlFrames DEF Outs
  <1> DEFINE fits == usb.len < Parts
             stored == usb.state = "Accumulating" \/ (usb.state = "Idle" /\ CanAcquire)
  <1>5. /\ tunnel' = IF ~stored THEN tunnel
                     ELSE [tunnel EXCEPT
                              !.lock = IF usb.state = "Idle" THEN "U" ELSE @,
                              !.data[usb.len + 1] = IF fits THEN Head(out).packet ELSE @]
        /\ usb' = [usb EXCEPT
                      !.state = IF stored /\ fits THEN "Accumulating" ELSE "Overflowed",
                      !.len = IF stored THEN (IF fits THEN @ + 1 ELSE 0) ELSE @,
                      !.disconnected = FALSE,
                      !.pc = IF Head(out).short THEN "process" ELSE "drain"]
        /\ proxy' = proxy /\ notes' = notes /\ gen' = gen /\ hist' = hist
    BY DEF u_read
  <1>6. tunnel' \in Tunnels(hist)
    <2>1. CASE stored /\ fits
      <3>1. usb.len + 1 \in 1 .. Parts
        BY <1>1, <2>1 DEF Usbs
      <3>2. [tunnel.data EXCEPT ![usb.len + 1] = Head(out).packet]
               \in [1 .. Parts -> [frame : Known(hist), part : 0 .. Parts]]
        BY <1>1, <1>4, <3>1 DEF Tunnels
      <3>3. tunnel' = [lock |-> IF usb.state = "Idle" THEN "U" ELSE tunnel.lock,
                       len |-> tunnel.len,
                       data |-> [tunnel.data EXCEPT ![usb.len + 1] = Head(out).packet]]
        BY <1>1, <1>5, <2>1, ZenonT(30) DEF Tunnels
      <3> QED
        BY <1>1, <3>2, <3>3 DEF Tunnels, Owner
    <2>2. CASE stored /\ ~fits
      <3>1. [tunnel.data EXCEPT ![usb.len + 1] = @] = tunnel.data
        BY <1>1 DEF Tunnels
      <3>2. tunnel' = [lock |-> IF usb.state = "Idle" THEN "U" ELSE tunnel.lock,
                       len |-> tunnel.len,
                       data |-> [tunnel.data EXCEPT ![usb.len + 1] = @]]
        BY <1>1, <1>5, <2>2, ZenonT(30) DEF Tunnels
      <3> QED
        BY <1>1, <3>1, <3>2, ZenonT(30) DEF Tunnels, Owner
    <2>3. CASE ~stored
      BY <1>1, <1>5, <2>3
    <2> QED
      BY <2>1, <2>2, <2>3
  <1>7. usb' \in Usbs
    <2>1. usb.len \in 0 .. Parts /\ (fits => usb.len + 1 \in 0 .. Parts) /\ 0 \in 0 .. Parts
      BY <1>1 DEF Usbs
    <2>2. (IF stored /\ fits THEN "Accumulating" ELSE "Overflowed") \in UsbState
          /\ (IF Head(out).short THEN "process" ELSE "drain") \in {"loop", "drain", "process", "push"}
      BY DEF UsbState
    <2> HIDE DEF fits, stored
    <2> QED
      BY <1>1, <1>5, <2>1, <2>2, ZenonT(30) DEF Usbs
  <1>8. usb'.state \in {"Accumulating", "Overflowed"} /\ usb'.pc \in {"drain", "process"}
    BY <1>1, <1>4, <1>5 DEF Usbs
  <1>9. DeviceOK'
    BY <1>5, <1>6, <1>7 DEF IInv, DeviceOK
  <1>10. Turns'
    <2> SUFFICES ASSUME gen'["U"] = 0 PROVE Turns'
      BY DEF Turns
    <2>1. proxy.pc = "loop" /\ \A i \in 1 .. Len(notes) : ~Active(i)
      BY <1>1, <1>5, WhileU
    <2>2. proxy.knows_usb
      BY <1>5 DEF IInv, Turns
    <2>3. \A i \in 1 .. Len(notes') : ~Active(i)'
      BY <1>5, <2>1 DEF Active
    <2> QED
      BY <1>5, <1>8, <2>1, <2>2, <2>3 DEF Turns, Busy
  <1>11. Whole'
    BY <1>8 DEF Whole
  <1>12. Locks'
    <2> SUFFICES ASSUME Restarts = 0, usb'.state = "Accumulating" PROVE tunnel'.lock = "U"
      BY <1>5, <1>8 DEF Locks, Restarts
    <2>1. stored
      BY <1>1, <1>5 DEF Usbs
    <2>2. usb.state # "Idle" => tunnel.lock = "U"
      BY <2>1 DEF IInv, Locks
    <2> QED
      BY <1>1, <1>5, <2>1, <2>2 DEF Tunnels
  <1> QED
    BY <1>3, <1>9, <1>10, <1>11, <1>12 DEF IInv

\* U leaves its handler with nothing for P.
LEMMA BackToIdle ==
    ASSUME IInv, usb.pc # "loop", UNCHANGED <<proxy, gen>>, usb'.pc = "loop", usb'.state = "Idle",
           notes' = notes \/ notes' = Append(notes, "disconnected")
    PROVE  Turns' /\ Whole'
  <1>1. Whole'
    BY DEF Whole
  <1>2. Turns'
    <2> SUFFICES ASSUME gen'["U"] = 0 PROVE Turns'
      BY DEF Turns
    <2>1. proxy.pc = "loop" /\ \A i \in 1 .. Len(notes) : notes[i] = "disconnected"
      BY WhileU DEF Active
    <2>2. proxy.knows_usb
      BY DEF IInv, Turns
    <2>3. \A i \in 1 .. Len(notes') : notes'[i] = "disconnected"
      <3>1. notes \in Seq(Notes)
        BY DEF IInv, DeviceOK
      <3>2. CASE notes' = Append(notes, "disconnected")
        BY <2>1, <3>1, <3>2
      <3> QED
        BY <2>1, <3>2
    <2>4. \A i \in 1 .. Len(notes') : ~Active(i)'
      BY <2>3 DEF Active
    <2> QED
      BY <2>1, <2>2, <2>4 DEF Turns, Busy
  <1> QED
    BY <1>1, <1>2

\* u_disconnected keeps the invariant: what U gives up is not with P.
LEMMA KeepsDisconnected ==
    ASSUME IInv, u_disconnected
    PROVE  IInv'
  <1>1. /\ usb.pc = "drain" /\ tunnel \in Tunnels(hist) /\ usb \in Usbs /\ notes \in Seq(Notes)
        /\ proxy' = proxy /\ gen' = gen /\ hist' = hist
    BY DEF IInv, DeviceOK, u_disconnected
  <1>2. HostOK'
    BY HostSame DEF IInv, u_disconnected
  <1>3. CASE usb.disconnected
    <2>1. usb' = [usb EXCEPT !.pc = "loop"] /\ tunnel' = tunnel /\ notes' = notes
      BY <1>3 DEF u_disconnected
    <2>2. usb'.pc = "loop" /\ usb'.state = usb.state /\ usb' \in Usbs
      BY <1>1, <2>1 DEF Usbs
    <2>3. DeviceOK'
      BY <1>1, <2>1, <2>2 DEF IInv, DeviceOK
    <2>4. Turns'
      <3> SUFFICES ASSUME gen'["U"] = 0 PROVE Turns'
        BY DEF Turns
      <3>1. proxy.pc = "loop" /\ \A i \in 1 .. Len(notes) : ~Active(i)
        BY <1>1, WhileU
      <3>2. proxy.knows_usb
        BY <1>1 DEF IInv, Turns
      <3>3. \A i \in 1 .. Len(notes') : ~Active(i)'
        BY <2>1, <3>1 DEF Active
      <3> QED
        BY <1>1, <2>2, <3>1, <3>2, <3>3 DEF Turns
    <2>5. Whole' /\ Locks'
      BY <1>1, <2>1, <2>2 DEF IInv, Whole, Locks, Restarts
    <2> QED
      BY <1>2, <2>3, <2>4, <2>5 DEF IInv
  <1>4. CASE ~usb.disconnected
    <2>1. /\ usb' = [usb EXCEPT !.pc = "loop", !.state = "Idle", !.len = 0, !.disconnected = TRUE]
          /\ notes' = Append(notes, "disconnected")
          /\ tunnel' = IF usb.state = "Idle" THEN tunnel ELSE Release(tunnel)
      BY <1>4 DEF u_disconnected
    <2>2. usb'.pc = "loop" /\ usb'.state = "Idle" /\ usb' \in Usbs
      BY <1>1, <2>1, NoLength, ZenonT(30) DEF Usbs, UsbState
    <2>3. tunnel' \in Tunnels(hist) /\ notes' \in Seq(Notes)
      BY <1>1, <2>1, TunnelFields DEF Notes
    <2>4. DeviceOK'
      BY <1>1, <2>2, <2>3 DEF IInv, DeviceOK
    <2>5. Turns' /\ Whole'
      BY <1>1, <2>1, <2>2, BackToIdle
    <2>6. Locks'
      <3> SUFFICES ASSUME Restarts = 0 PROVE tunnel'.lock = FREE
        BY <1>1, <2>2 DEF Locks, Restarts
      <3>1. usb.state = "Idle" => tunnel.lock = FREE
        BY DEF IInv, Locks
      <3> QED
        BY <1>1, <2>1, <3>1 DEF Release, Tunnels
    <2> QED
      BY <1>2, <2>4, <2>5, <2>6 DEF IInv
  <1> QED
    BY <1>3, <1>4

\* u_nack keeps the invariant: the tunnel is free again.
LEMMA KeepsNack ==
    ASSUME IInv, u_nack
    PROVE  IInv'
  <1>1. /\ usb.pc = "process" /\ tunnel \in Tunnels(hist) /\ usb \in Usbs
        /\ proxy' = proxy /\ gen' = gen /\ hist' = hist /\ notes' = notes
        /\ tunnel' = Release(tunnel)
        /\ usb' = [usb EXCEPT !.pc = "loop", !.state = "Idle", !.len = 0,
                              !.last_sent = <<RequestCorrupted>>]
    BY DEF IInv, DeviceOK, u_nack
  <1>2. HostOK'
    <2>1. in' \in Seq(Known(hist))
      BY SendInOK, ControlFrames DEF IInv, u_nack
    <2>2. out' = out /\ UNCHANGED host_vars
      BY DEF u_nack
    <2>3. out' \in Seq(Outs) /\ hist' \in [Call -> [sent : Nat, dispatched : Nat]]
      BY <1>1, <2>2 DEF IInv, HostOK
    <2> QED
      BY <1>1, <2>1, <2>2, <2>3, HostKept DEF IInv
  <1>3. usb'.pc = "loop" /\ usb'.state = "Idle" /\ usb' \in Usbs
    BY <1>1, NoLength, ZenonT(30) DEF Usbs, UsbState
  <1>4. tunnel' \in Tunnels(hist) /\ tunnel'.lock = FREE
    BY <1>1, TunnelFields DEF Release, Tunnels
  <1>5. DeviceOK'
    BY <1>1, <1>3, <1>4 DEF IInv, DeviceOK
  <1>6. Turns' /\ Whole'
    BY <1>1, <1>3, BackToIdle
  <1>7. Locks'
    BY <1>3, <1>4 DEF Locks
  <1> QED
    BY <1>2, <1>5, <1>6, <1>7 DEF IInv

\* U has told P of something, and waits for it.
LEMMA ToldP ==
    ASSUME IInv, usb.pc # "loop", UNCHANGED <<proxy, gen>>, usb'.pc = "loop",
           NEW n \in {"request", "redeliver"}, notes' = Append(notes, n),
           usb'.state = IF n = "request" THEN "Staged" ELSE "Retransmitting"
    PROVE  Turns'
  <1> SUFFICES ASSUME gen'["U"] = 0 PROVE Turns'
    BY DEF Turns
  <1>1. proxy.pc = "loop" /\ \A i \in 1 .. Len(notes) : notes[i] = "disconnected"
    BY WhileU DEF Active
  <1>2. proxy.knows_usb
    BY DEF IInv, Turns
  <1>3. notes \in Seq(Notes)
    BY DEF IInv, DeviceOK
  <1>4. /\ Len(notes') = Len(notes) + 1 /\ notes'[Len(notes) + 1] = n
        /\ \A i \in 1 .. Len(notes) : notes'[i] = "disconnected"
    BY <1>1, <1>3
  <1>5. \A i \in 1 .. Len(notes') : Active(i)' => i = Len(notes) + 1
    BY <1>3, <1>4 DEF Active
  <1>6. \A i, j \in 1 .. Len(notes') : Active(i)' /\ Active(j)' => i = j
    BY <1>5
  <1>7. \A i \in 1 .. Len(notes') : Active(i)' =>
           usb'.state = IF notes'[i] = "request" THEN "Staged" ELSE "Retransmitting"
    BY <1>4, <1>5
  <1> QED
    BY <1>1, <1>2, <1>6, <1>7 DEF Turns, Busy

\* u_retransmit keeps the invariant: P is told of at most one thing.
LEMMA KeepsRetransmit ==
    ASSUME IInv, u_retransmit
    PROVE  IInv'
  <1>1. /\ usb.pc = "process" /\ tunnel \in Tunnels(hist) /\ usb \in Usbs /\ notes \in Seq(Notes)
        /\ proxy' = proxy /\ gen' = gen /\ hist' = hist /\ tunnel' = Release(tunnel)
        /\ out' = out /\ UNCHANGED host_vars
    BY DEF IInv, DeviceOK, u_retransmit
  <1>2. tunnel' \in Tunnels(hist) /\ tunnel'.lock = FREE
    BY <1>1, TunnelFields DEF Release, Tunnels
  <1>3. out' \in Seq(Outs) /\ hist' \in [Call -> [sent : Nat, dispatched : Nat]]
        /\ in \in Seq(Known(hist))
    BY <1>1 DEF IInv, HostOK
  <1>4. ASSUME usb' = [usb EXCEPT !.pc = "loop", !.state = "Idle", !.len = 0], notes' = notes,
               in' \in Seq(Known(hist))
        PROVE  IInv'
    <2>1. usb'.pc = "loop" /\ usb'.state = "Idle" /\ usb' \in Usbs
      BY <1>1, <1>4, NoLength, ZenonT(30) DEF Usbs, UsbState
    <2>2. DeviceOK'
      BY <1>1, <1>2, <1>4, <2>1 DEF IInv, DeviceOK
    <2>3. Turns' /\ Whole'
      BY <1>1, <1>4, <2>1, BackToIdle
    <2>4. Locks'
      BY <1>2, <2>1 DEF Locks
    <2>5. HostOK'
      BY <1>1, <1>3, <1>4, HostKept DEF IInv
    <2> QED
      BY <2>2, <2>3, <2>4, <2>5 DEF IInv
  <1>5. CASE usb.last_sent = <<>>
    <2>1. Outcome("IpcReply") # <<>>
      BY DEF Outcome
    <2>2. usb' = [usb EXCEPT !.pc = "loop", !.state = "Idle", !.len = 0] /\ notes' = notes
          /\ in' = in
      BY <1>5, <2>1 DEF u_retransmit
    <2> QED
      BY <1>3, <1>4, <2>2
  <1>6. CASE usb.last_sent = Outcome("IpcReply")
    <2>1. Outcome("IpcReply") # <<>>
      BY DEF Outcome
    <2>2. /\ usb' = [usb EXCEPT !.pc = "loop", !.state = "Retransmitting", !.len = 0]
          /\ notes' = Append(notes, "redeliver") /\ in' = in
      BY <1>6, <2>1 DEF u_retransmit
    <2>3. usb'.pc = "loop" /\ usb'.state = "Retransmitting" /\ usb' \in Usbs
      BY <1>1, <2>2, NoLength, ZenonT(30) DEF Usbs, UsbState, Busy
    <2>4. notes' \in Seq(Notes)
      BY <1>1, <2>2 DEF Notes
    <2>5. DeviceOK'
      BY <1>1, <1>2, <2>3, <2>4 DEF IInv, DeviceOK
    <2>6. Turns'
      BY <1>1, <2>2, <2>3, ToldP
    <2>7. Whole' /\ Locks'
      BY <1>2, <2>3 DEF Whole, Locks
    <2>8. HostOK'
      BY <1>1, <1>3, <2>2, HostKept DEF IInv
    <2> QED
      BY <2>5, <2>6, <2>7, <2>8 DEF IInv
  <1>7. CASE usb.last_sent = <<RequestCorrupted>> /\ usb.last_sent # <<>>
             /\ usb.last_sent # Outcome("IpcReply")
    <2>1. /\ usb' = [usb EXCEPT !.pc = "loop", !.state = "Idle", !.len = 0]
          /\ SendIn(usb.last_sent[1]) /\ notes' = notes
      BY <1>7 DEF u_retransmit
    <2>2. SendIn(RequestCorrupted)
      BY <1>7, <2>1
    <2>3. in' \in Seq(Known(hist))
      BY <2>2, SendInOK, ControlFrames DEF IInv
    <2> QED
      BY <1>4, <2>1, <2>3
  <1> QED
    BY <1>1, <1>5, <1>6, <1>7 DEF Usbs

\* u_stage keeps the invariant: a frame that was recognised is whole by the
\* length it is handed over with.
LEMMA KeepsStage ==
    ASSUME IInv, u_stage
    PROVE  IInv'
  <1> DEFINE f == Unwrap(tunnel.data, usb.len)
  <1>1. /\ usb.pc = "process" /\ tunnel \in Tunnels(hist) /\ usb \in Usbs
        /\ proxy' = proxy /\ gen' = gen /\ hist' = hist /\ notes' = notes
        /\ f.type = "IpcRequest"
        /\ tunnel' = [tunnel EXCEPT !.lock = "P", !.len = Size(f)]
        /\ usb' = [usb EXCEPT !.pc = "push", !.state = "Staged"]
    BY DEF IInv, DeviceOK, u_stage
  <1>2. HostOK'
    BY HostSame DEF IInv, u_stage
  <1>3. f \in Frames /\ f # Damaged
    <2>1. f \in Known(hist)
      BY <1>1, UnwrapKnown DEF Tunnels
    <2>2. Damaged.type # "IpcRequest"
      BY ControlFrames
    <2> QED
      BY <1>1, <2>1, <2>2 DEF Known
  <1>4. Size(f) \in 1 .. Parts /\ Size(f) \in 0 .. Parts /\ Size(f) \in Nat
    BY <1>3, FrameFacts, NoLength
  <1>5. Unwrap(tunnel.data, Size(f)) # Damaged
    BY <1>3, <1>4, UnwrapAgain
  <1> HIDE DEF f
  <1>6. /\ tunnel' \in Tunnels(hist) /\ tunnel'.lock = "P"
        /\ tunnel'.data = tunnel.data /\ tunnel'.len = Size(f)
    BY <1>1, <1>4, ZenonT(30) DEF Tunnels, Owner
  <1>7. usb'.pc = "push" /\ usb'.state = "Staged" /\ usb' \in Usbs
    BY <1>1, ZenonT(30) DEF Usbs, UsbState, Busy
  <1>8. DeviceOK'
    BY <1>1, <1>6, <1>7 DEF IInv, DeviceOK
  <1>9. gen["U"] = 0 => proxy.pc = "loop" /\ proxy.knows_usb
    BY <1>1, WhileU DEF IInv, Turns
  <1>10. Turns'
    <2> SUFFICES ASSUME gen'["U"] = 0 PROVE Turns'
      BY DEF Turns
    <2>1. \A i \in 1 .. Len(notes) : ~Active(i)
      BY <1>1, WhileU
    <2>2. \A i \in 1 .. Len(notes') : ~Active(i)'
      BY <1>1, <2>1 DEF Active
    <2> QED
      BY <1>1, <1>7, <1>9, <2>2 DEF Turns
  <1>11. Whole'
    BY <1>5, <1>6 DEF Whole
  <1>12. Locks'
    BY <1>1, <1>6, <1>7, <1>8, <1>9, RestartsOfU DEF Locks, Restarts, IInv
  <1> QED
    BY <1>2, <1>8, <1>10, <1>11, <1>12 DEF IInv

\* u_push keeps the invariant: the note is the only one P has to act upon.
LEMMA KeepsPush ==
    ASSUME IInv, u_push
    PROVE  IInv'
  <1>1. /\ usb.pc = "push" /\ usb \in Usbs /\ notes \in Seq(Notes)
        /\ tunnel' = tunnel /\ proxy' = proxy /\ gen' = gen /\ hist' = hist
        /\ notes' = Append(notes, "request") /\ usb' = [usb EXCEPT !.pc = "loop"]
    BY DEF IInv, DeviceOK, u_push
  <1>2. HostOK'
    BY HostSame DEF IInv, u_push
  <1>3. usb'.pc = "loop" /\ usb'.state = usb.state /\ usb' \in Usbs
    BY <1>1, SMTT(30) DEF Usbs
  <1>4. notes' \in Seq(Notes)
    BY <1>1 DEF Notes
  <1>5. DeviceOK'
    BY <1>1, <1>3, <1>4 DEF IInv, DeviceOK
  <1>6. Turns'
    <2>1. gen["U"] = 0 => usb.state = "Staged"
      BY <1>1 DEF IInv, Turns
    <2>2. CASE gen["U"] = 0
      BY <1>1, <1>3, <2>1, <2>2, ToldP
    <2> QED
      BY <1>1, <2>2 DEF Turns
  <1>7. Whole' /\ Locks'
    BY <1>1, <1>3 DEF IInv, Whole, Locks, Restarts
  <1> QED
    BY <1>2, <1>5, <1>6, <1>7 DEF IInv
-----------------------------------------------------------------------------
(* The steps of P. *)

\* While P is in its handler, U waits, and no other note of it is on its way.
LEMMA WhileP ==
    ASSUME IInv, gen["U"] = 0, proxy.pc # "loop"
    PROVE  /\ usb.pc = "loop" /\ usb.state \in Busy /\ proxy.knows_usb
           /\ \A i \in 1 .. Len(notes) : ~Active(i)
  BY ZenonT(30) DEF IInv, Turns

\* P moves on in its handler.
LEMMA PMoves ==
    ASSUME IInv, proxy.pc # "loop", UNCHANGED <<usb, notes, gen>>,
           proxy'.knows_usb = proxy.knows_usb, proxy'.pc # "redeliver",
           gen["U"] = 0 /\ proxy'.pc \in {"fetch", "dispatch", "serving"} => usb.state = "Staged"
    PROVE  Turns'
  <1> SUFFICES ASSUME gen'["U"] = 0 PROVE Turns'
    BY DEF Turns
  <1>1. /\ usb.pc = "loop" /\ usb.state \in Busy /\ proxy.knows_usb
        /\ \A i \in 1 .. Len(notes) : ~Active(i)
    BY WhileP
  <1>2. \A i \in 1 .. Len(notes') : ~Active(i)'
    BY <1>1 DEF Active
  <1> QED
    BY <1>1, <1>2 DEF Turns

\* p_recv keeps the invariant: what the note said is now said by the step of P.
LEMMA KeepsRecv ==
    ASSUME IInv, p_recv
    PROVE  IInv'
  <1>1. /\ proxy.pc = "loop" /\ notes \in Seq(Notes) /\ notes # <<>> /\ proxy \in Proxies
        /\ tunnel' = tunnel /\ usb' = usb /\ gen' = gen /\ hist' = hist
        /\ notes' = Tail(notes)
    BY DEF IInv, DeviceOK, p_recv
  <1> DEFINE next == CASE Head(notes) = "request" -> "fetch"
                       [] Head(notes) = "redeliver" /\ proxy.last_len # 0 -> "redeliver"
                       [] OTHER -> "loop"
  <1>2. proxy' = [proxy EXCEPT !.pc = next]
    BY DEF p_recv
  <1>3. /\ next \in {"fetch", "redeliver", "loop"}
        /\ next = "fetch" => Head(notes) = "request"
        /\ next = "redeliver" => Head(notes) = "redeliver"
    OBVIOUS
  <1> HIDE DEF next
  <1>4. proxy' \in Proxies /\ proxy'.pc = next /\ proxy'.knows_usb = proxy.knows_usb
    BY <1>1, <1>2, <1>3, ZenonT(30) DEF Proxies
  <1>5. /\ Len(notes) \in Nat /\ Len(notes) >= 1 /\ Len(notes') = Len(notes) - 1
        /\ Head(notes) = notes[1] /\ notes' \in Seq(Notes)
        /\ \A i \in 1 .. Len(notes') : notes'[i] = notes[i + 1] /\ i + 1 \in 1 .. Len(notes)
    BY <1>1
  <1>6. HostOK'
    BY HostSame DEF IInv, p_recv
  <1>7. DeviceOK'
    BY <1>1, <1>3, <1>4, <1>5 DEF IInv, DeviceOK
  <1>8. Turns'
    <2> SUFFICES ASSUME gen'["U"] = 0 PROVE Turns'
      BY DEF Turns
    <2>1. /\ proxy.knows_usb
          /\ \A i, j \in 1 .. Len(notes) : Active(i) /\ Active(j) => i = j
          /\ \A i \in 1 .. Len(notes) : Active(i) =>
                /\ proxy.pc = "loop" /\ usb.pc = "loop"
                /\ usb.state = IF notes[i] = "request" THEN "Staged" ELSE "Retransmitting"
          /\ usb.state \in Busy => usb.pc \in {"loop", "push"}
          /\ usb.pc = "push" => usb.state = "Staged"
      BY <1>1 DEF IInv, Turns
    <2>2. \A i \in 1 .. Len(notes') : Active(i)' => Active(i + 1) /\ i + 1 \in 1 .. Len(notes)
      BY <1>5 DEF Active
    <2>3. \A i, j \in 1 .. Len(notes') : Active(i)' /\ Active(j)' => i = j
      <3> TAKE i, j \in 1 .. Len(notes')
      <3> HAVE Active(i)' /\ Active(j)'
      <3>1. i + 1 = j + 1
        BY <2>1, <2>2
      <3> QED
        BY <1>5, <3>1
    <2>4. 1 \in 1 .. Len(notes)
      BY <1>5
    <2>5. next # "loop" => Active(1)
      BY <1>3, <1>5 DEF Active
    <2>6. \A i \in 1 .. Len(notes') : Active(i)' => next = "loop"
      <3> SUFFICES ASSUME NEW i \in 1 .. Len(notes'), Active(i)', next # "loop" PROVE FALSE
        OBVIOUS
      <3>1. i + 1 = 1
        BY <2>1, <2>2, <2>4, <2>5
      <3> QED
        BY <1>5, <3>1
    <2>7. \A i \in 1 .. Len(notes') : Active(i)' =>
             /\ usb.pc = "loop"
             /\ usb.state = IF notes'[i] = "request" THEN "Staged" ELSE "Retransmitting"
      BY <1>5, <2>1, <2>2
    <2>8. /\ next # "loop" => usb.pc = "loop" /\ usb.state \in Busy
          /\ next = "fetch" => usb.state = "Staged"
          /\ next = "redeliver" => usb.state = "Retransmitting"
      BY <1>3, <1>5, <2>1, <2>4, <2>5 DEF Busy
    <2> QED
      BY <1>1, <1>3, <1>4, <2>1, <2>3, <2>6, <2>7, <2>8 DEF Turns
  <1>9. Whole'
    BY <1>1 DEF IInv, Whole
  <1>10. Locks'
    BY <1>1, <1>3, <1>4 DEF IInv, Locks, Restarts
  <1> QED
    BY <1>6, <1>7, <1>8, <1>9, <1>10 DEF IInv

\* p_redeliver keeps the invariant: U is retransmitting, so nothing is staged.
LEMMA KeepsRedeliver ==
    ASSUME IInv, p_redeliver
    PROVE  IInv'
  <1>1. /\ proxy.pc = "redeliver" /\ tunnel \in Tunnels(hist) /\ proxy \in Proxies
        /\ usb' = usb /\ gen' = gen /\ hist' = hist /\ notes' = notes
        /\ tunnel' = [tunnel EXCEPT !.len = proxy.last_len]
        /\ proxy' = [proxy EXCEPT !.pc = "deliver"]
    BY DEF IInv, DeviceOK, p_redeliver
  <1>2. tunnel' \in Tunnels(hist) /\ tunnel'.lock = tunnel.lock
    BY <1>1, TunnelFields DEF Proxies, Tunnels
  <1>3. proxy' \in Proxies /\ proxy'.pc = "deliver" /\ proxy'.knows_usb = proxy.knows_usb
    BY <1>1 DEF Proxies
  <1>4. gen["U"] = 0 => usb.state = "Retransmitting"
    BY <1>1 DEF IInv, Turns
  <1>5. HostOK'
    BY HostSame DEF IInv, p_redeliver
  <1>6. DeviceOK'
    BY <1>1, <1>2, <1>3 DEF IInv, DeviceOK
  <1>7. Turns'
    BY <1>1, <1>3, PMoves
  <1>8. Whole'
    BY <1>1, <1>4 DEF Whole
  <1>9. Locks'
    BY <1>1, <1>2, <1>4, RestartsOfU DEF IInv, Locks, Restarts
  <1> QED
    BY <1>5, <1>6, <1>7, <1>8, <1>9 DEF IInv

\* p_server_died keeps the invariant: it takes a restart of U.
LEMMA KeepsServerDied ==
    ASSUME IInv, p_server_died
    PROVE  IInv'
  <1>1. /\ proxy.pc # "loop" /\ ~proxy.knows_usb /\ proxy \in Proxies
        /\ tunnel' = tunnel /\ usb' = usb /\ gen' = gen /\ hist' = hist /\ notes' = notes
        /\ proxy' = [proxy EXCEPT !.pc = "loop", !.knows_usb = TRUE]
    BY DEF IInv, DeviceOK, p_server_died
  <1>2. gen["U"] # 0 /\ Restarts # 0
    BY <1>1, RestartsOfU DEF IInv, Turns
  <1>3. proxy' \in Proxies /\ proxy'.pc = "loop"
    BY <1>1, ZenonT(30) DEF Proxies
  <1>4. HostOK'
    BY HostSame DEF IInv, p_server_died
  <1>5. DeviceOK'
    BY <1>1, <1>3 DEF IInv, DeviceOK
  <1>6. Turns' /\ Whole' /\ Locks'
    BY <1>1, <1>2 DEF Turns, Whole, Locks, Restarts
  <1> QED
    BY <1>4, <1>5, <1>6 DEF IInv

\* p_fetch keeps the invariant: what it takes is staged.
LEMMA KeepsFetch ==
    ASSUME IInv, p_fetch
    PROVE  IInv'
  <1>1. /\ proxy.pc = "fetch" /\ proxy \in Proxies
        /\ tunnel' = tunnel /\ usb' = usb /\ gen' = gen /\ hist' = hist /\ notes' = notes
    BY DEF IInv, DeviceOK, p_fetch
  <1>2. PICK q \in {"dispatch", "loop"} : proxy' = [proxy EXCEPT !.pc = q]
    BY DEF p_fetch
  <1>3. proxy' \in Proxies /\ proxy'.pc = q /\ proxy'.knows_usb = proxy.knows_usb
    BY <1>1, <1>2 DEF Proxies
  <1>4. gen["U"] = 0 => usb.state = "Staged"
    BY <1>1 DEF IInv, Turns
  <1>5. HostOK'
    BY HostSame DEF IInv, p_fetch
  <1>6. DeviceOK'
    BY <1>1, <1>2, <1>3 DEF IInv, DeviceOK
  <1>7. Turns'
    BY <1>1, <1>2, <1>3, <1>4, PMoves
  <1>8. Whole' /\ Locks'
    BY <1>1, <1>2, <1>3 DEF IInv, Whole, Locks, Restarts
  <1> QED
    BY <1>5, <1>6, <1>7, <1>8 DEF IInv

\* p_dispatch keeps the invariant: the dispatch of the call is on record before
\* a reply to it exists.
LEMMA KeepsDispatch ==
    ASSUME IInv, p_dispatch
    PROVE  IInv'
  <1> DEFINE f == tunnel.data[1].frame
  <1>1. /\ proxy.pc = "dispatch" /\ proxy \in Proxies /\ tunnel \in Tunnels(hist)
        /\ hist \in [Call -> [sent : Nat, dispatched : Nat]]
        /\ tunnel' = tunnel /\ usb' = usb /\ gen' = gen /\ notes' = notes
        /\ out' = out /\ in' = in /\ UNCHANGED host_vars
    BY DEF IInv, DeviceOK, HostOK, p_dispatch
  <1>2. f \in Frames
    <2>1. 1 \in 1 .. Parts
      BY HostLinkAssumption
    <2> QED
      BY <1>1, <2>1, ZenonT(30) DEF Tunnels, Known
  <1>3. gen["U"] = 0 => usb.state = "Staged"
    BY <1>1 DEF IInv, Turns
  <1>4. CASE f.type = "IpcRequest"
    <2>1. f.seq \in Call
      BY <1>2, <1>4, FrameFacts DEF Data
    <2>2. /\ proxy' = [proxy EXCEPT !.pc = "serving", !.seq = f.seq]
          /\ hist' = [hist EXCEPT ![f.seq].dispatched = @ + 1]
      BY <1>4 DEF p_dispatch
    <2> HIDE DEF f
    <2>3. /\ hist' \in [Call -> [sent : Nat, dispatched : Nat]]
          /\ hist'[f.seq].dispatched > 0
          /\ \A c \in Call : hist[c].dispatched > 0 => hist'[c].dispatched > 0
      BY <1>1, <2>1, <2>2
    <2>4. /\ proxy' \in Proxies /\ proxy'.pc = "serving" /\ proxy'.seq = f.seq
          /\ proxy'.knows_usb = proxy.knows_usb
      BY <1>1, <2>1, <2>2, ZenonT(30) DEF Proxies
    <2>5. Tunnels(hist) \subseteq Tunnels(hist') /\ Seq(Known(hist)) \subseteq Seq(Known(hist'))
      BY <2>3, KnownGrows, ZenonT(30)
    <2>6. DeviceOK'
      BY <1>1, <2>1, <2>3, <2>4, <2>5 DEF IInv, DeviceOK
    <2>7. HostOK'
      <3>1. out' \in Seq(Outs) /\ in' \in Seq(Known(hist'))
        BY <1>1, <2>5 DEF IInv, HostOK
      <3> QED
        BY <1>1, <2>3, <3>1, HostKept DEF IInv
    <2>8. Turns'
      BY <1>1, <1>3, <2>4, PMoves
    <2>9. Whole' /\ Locks'
      BY <1>1, <2>4 DEF IInv, Whole, Locks, Restarts
    <2> QED
      BY <2>6, <2>7, <2>8, <2>9 DEF IInv
  <1>5. CASE f.type # "IpcRequest"
    <2>1. proxy' = [proxy EXCEPT !.pc = "loop"] /\ hist' = hist
      BY <1>5 DEF p_dispatch
    <2>2. proxy' \in Proxies /\ proxy'.pc = "loop" /\ proxy'.knows_usb = proxy.knows_usb
      BY <1>1, <2>1 DEF Proxies
    <2>3. DeviceOK'
      BY <1>1, <2>1, <2>2 DEF IInv, DeviceOK
    <2>4. HostOK'
      BY <1>1, <2>1, HostSame DEF IInv
    <2>5. Turns'
      BY <1>1, <2>2, PMoves
    <2>6. Whole' /\ Locks'
      BY <1>1, <2>2 DEF IInv, Whole, Locks, Restarts
    <2> QED
      BY <2>3, <2>4, <2>5, <2>6 DEF IInv
  <1> QED
    BY <1>4, <1>5

\* p_handover keeps the invariant: the reply is to the call that P serves, and
\* it is written as a whole.
LEMMA KeepsHandover ==
    ASSUME IInv, p_handover
    PROVE  IInv'
  <1>1. /\ proxy.pc = "serving" /\ proxy \in Proxies /\ tunnel \in Tunnels(hist)
        /\ proxy.seq \in Call /\ hist[proxy.seq].dispatched > 0
        /\ usb' = usb /\ gen' = gen /\ notes' = notes /\ hist' = hist
    BY DEF IInv, DeviceOK, p_handover
  <1>2. PICK type \in {"IpcReply", "TaskDead"} :
           LET f == Frame(type, proxy.seq) IN
           /\ tunnel' = [lock |-> "U", len |-> Size(f), data |-> Overwrite(tunnel.data, f)]
           /\ proxy' = [proxy EXCEPT !.pc = "deliver", !.seq = Unkeyed, !.last_len = Size(f)]
    BY ZenonT(30) DEF p_handover
  <1> DEFINE f == Frame(type, proxy.seq)
  <1>3. f \in Frames /\ f.type \in Reply /\ f.seq = proxy.seq
    BY <1>1 DEF Frames, Frame, Data, Reply
  <1>4. f \in Known(hist) /\ f # Damaged
    BY <1>1, <1>3, FrameFacts DEF Known
  <1>5. Size(f) \in 0 .. Parts
    BY <1>3, FrameFacts, NoLength
  <1>6. /\ tunnel' = [lock |-> "U", len |-> Size(f), data |-> Overwrite(tunnel.data, f)]
        /\ proxy' = [proxy EXCEPT !.pc = "deliver", !.seq = Unkeyed, !.last_len = Size(f)]
    BY <1>2
  <1> HIDE DEF f
  <1>7. /\ Overwrite(tunnel.data, f) \in [1 .. Parts -> [frame : Known(hist), part : 0 .. Parts]]
        /\ Unwrap(Overwrite(tunnel.data, f), Size(f)) = f
    BY <1>1, <1>4, OverwriteWhole DEF Tunnels
  <1>8. /\ tunnel' \in Tunnels(hist) /\ tunnel'.lock = "U"
        /\ Unwrap(tunnel'.data, tunnel'.len) # Damaged
    BY <1>4, <1>5, <1>6, <1>7 DEF Tunnels, Owner
  <1>9. proxy' \in Proxies /\ proxy'.pc = "deliver" /\ proxy'.knows_usb = proxy.knows_usb
    BY <1>1, <1>5, <1>6, ZenonT(30) DEF Proxies
  <1>10. gen["U"] = 0 => usb.state = "Staged"
    BY <1>1 DEF IInv, Turns
  <1>11. HostOK'
    BY HostSame DEF IInv, p_handover
  <1>12. DeviceOK'
    BY <1>1, <1>8, <1>9 DEF IInv, DeviceOK
  <1>13. Turns'
    BY <1>1, <1>9, PMoves
  <1>14. Whole'
    BY <1>8 DEF Whole
  <1>15. Locks'
    BY <1>1, <1>8, <1>9, <1>10, RestartsOfU DEF IInv, Locks, Restarts
  <1> QED
    BY <1>11, <1>12, <1>13, <1>14, <1>15 DEF IInv

\* p_deliver keeps the invariant: what goes to the host was in the tunnel, or
\* is damaged.
LEMMA KeepsDeliver ==
    ASSUME IInv, p_deliver
    PROVE  IInv'
  <1>1. /\ proxy.pc = "deliver" /\ proxy \in Proxies /\ tunnel \in Tunnels(hist) /\ usb \in Usbs
        /\ usb.pc = "loop" /\ notes' = notes /\ gen' = gen /\ hist' = hist
        /\ out' = out /\ UNCHANGED host_vars
        /\ usb' = [usb EXCEPT !.state = "Idle", !.len = 0, !.last_sent = Outcome("IpcReply")]
        /\ tunnel' = Release(tunnel) /\ proxy' = [proxy EXCEPT !.pc = "loop"]
    BY DEF IInv, DeviceOK, p_deliver
  <1>2. tunnel' \in Tunnels(hist) /\ tunnel'.lock = FREE
    BY <1>1, TunnelFields DEF Release, Tunnels
  <1>3. proxy' \in Proxies /\ proxy'.pc = "loop" /\ proxy'.knows_usb = proxy.knows_usb
    BY <1>1 DEF Proxies
  <1>4. usb'.pc = "loop" /\ usb'.state = "Idle" /\ usb' \in Usbs
    BY <1>1, NoLength, ZenonT(30) DEF Usbs, UsbState
  <1>5. HostOK'
    <2>1. Unwrap(tunnel.data, tunnel.len) \in Known(hist)
      BY <1>1, UnwrapKnown DEF Tunnels
    <2>2. in' \in Seq(Known(hist))
      BY <2>1, SendInOK DEF IInv, p_deliver
    <2>3. out' \in Seq(Outs) /\ hist' \in [Call -> [sent : Nat, dispatched : Nat]]
      BY <1>1 DEF IInv, HostOK
    <2> QED
      BY <1>1, <2>2, <2>3, HostKept DEF IInv
  <1>6. DeviceOK'
    BY <1>1, <1>2, <1>3, <1>4 DEF IInv, DeviceOK
  <1>7. Turns'
    <2> SUFFICES ASSUME gen'["U"] = 0 PROVE Turns'
      BY DEF Turns
    <2>1. proxy.knows_usb /\ \A i \in 1 .. Len(notes) : ~Active(i)
      BY <1>1, WhileP
    <2>2. \A i \in 1 .. Len(notes') : ~Active(i)'
      BY <1>1, <2>1 DEF Active
    <2> QED
      BY <1>3, <1>4, <2>1, <2>2 DEF Turns, Busy
  <1>8. Whole' /\ Locks'
    BY <1>2, <1>4 DEF Whole, Locks
  <1> QED
    BY <1>5, <1>6, <1>7, <1>8 DEF IInv
-----------------------------------------------------------------------------
(* Restarts. *)

\* A restart of U keeps what does not depend on its not having been restarted.
LEMMA KeepsRestartUsb ==
    ASSUME IInv, restart_usb
    PROVE  IInv'
  <1>1. /\ proxy \in Proxies /\ gen \in [Owner -> Nat]
        /\ tunnel' = tunnel /\ notes' = notes /\ hist' = hist
        /\ gen' = [gen EXCEPT !["U"] = @ + 1] /\ proxy' = [proxy EXCEPT !.knows_usb = FALSE]
        /\ usb' = [state |-> "Idle", len |-> 0, last_sent |-> <<>>, disconnected |-> TRUE,
                   pc |-> "loop"]
    BY DEF IInv, DeviceOK, restart_usb
  <1>2. gen' \in [Owner -> Nat] /\ gen'["U"] # 0 /\ gen'["U"] + gen'["P"] # 0
    BY <1>1 DEF Owner
  <1>3. proxy' \in Proxies /\ proxy'.pc = proxy.pc /\ proxy'.seq = proxy.seq
    BY <1>1, ZenonT(30) DEF Proxies
  <1>4. usb' \in Usbs
    BY <1>1, NoLength DEF Usbs, UsbState
  <1>5. HostOK'
    BY HostSame DEF IInv, restart_usb
  <1>6. DeviceOK'
    BY <1>1, <1>2, <1>3, <1>4 DEF IInv, DeviceOK
  <1>7. Turns' /\ Whole' /\ Locks'
    BY <1>2 DEF Turns, Whole, Locks, Restarts
  <1> QED
    BY <1>5, <1>6, <1>7 DEF IInv

\* A restart of P keeps the invariant: U still waits for the note it sent.
LEMMA KeepsRestartProxy ==
    ASSUME IInv, restart_proxy
    PROVE  IInv'
  <1>1. /\ gen \in [Owner -> Nat]
        /\ tunnel' = tunnel /\ usb' = usb /\ notes' = notes /\ hist' = hist
        /\ gen' = [gen EXCEPT !["P"] = @ + 1]
        /\ proxy' = [pc |-> "loop", seq |-> Unkeyed, last_len |-> 0, knows_usb |-> gen["U"] = 0]
    BY DEF IInv, DeviceOK, restart_proxy
  <1>2. gen' \in [Owner -> Nat] /\ gen'["U"] = gen["U"] /\ gen'["U"] + gen'["P"] # 0
    BY <1>1 DEF Owner
  <1>3. proxy' \in Proxies /\ proxy'.pc = "loop" /\ (gen["U"] = 0 => proxy'.knows_usb)
    BY <1>1, NoLength, ZenonT(30) DEF Proxies
  <1>4. HostOK'
    BY HostSame DEF IInv, restart_proxy
  <1>5. DeviceOK'
    BY <1>1, <1>2, <1>3 DEF IInv, DeviceOK
  <1>6. Turns'
    <2> SUFFICES ASSUME gen'["U"] = 0 PROVE Turns'
      BY DEF Turns
    <2>1. /\ \A i, j \in 1 .. Len(notes) : Active(i) /\ Active(j) => i = j
          /\ \A i \in 1 .. Len(notes) : Active(i) =>
                /\ usb.pc = "loop"
                /\ usb.state = IF notes[i] = "request" THEN "Staged" ELSE "Retransmitting"
          /\ usb.state \in Busy => usb.pc \in {"loop", "push"}
          /\ usb.pc = "push" => usb.state = "Staged"
      BY <1>2 DEF IInv, Turns
    <2>2. \A i : Active(i)' <=> Active(i)
      BY <1>1 DEF Active
    <2> QED
      BY <1>1, <1>2, <1>3, <2>1, <2>2 DEF Turns
  <1>7. Whole' /\ Locks'
    BY <1>1, <1>2 DEF IInv, Whole, Locks, Restarts
  <1> QED
    BY <1>4, <1>5, <1>6, <1>7 DEF IInv
-----------------------------------------------------------------------------
(* The steps of the host. *)

\* The device's side is left alone.
LEMMA HostMoves ==
    ASSUME IInv, UNCHANGED <<dev_vars, gen>>,
           out' \in Seq(Outs), in' \in Seq(Known(hist)), host' \in Hosts,
           hist' \in [Call -> [sent : Nat, dispatched : Nat]],
           \A c \in Call : hist'[c].dispatched = hist[c].dispatched,
           DOMAIN calls' = Call, \A c \in Call : calls'[c] \in Calls(hist, c)
    PROVE  IInv'
  <1>1. DeviceOK' /\ Turns' /\ Whole' /\ Locks'
    BY DeviceKept
  <1>2. Seq(Known(hist)) \subseteq Seq(Known(hist'))
        /\ \A c \in Call : Held(hist, c) \subseteq Held(hist', c)
    BY KnownGrows, ZenonT(30)
  <1>3. \A c \in Call : calls'[c] \in Calls(hist', c)
    BY <1>2 DEF Calls
  <1>4. HostOK'
    BY <1>2, <1>3 DEF HostOK
  <1> QED
    BY <1>1, <1>4 DEF IInv

\* The same, with no frame sent or received.
LEMMA CallsMove ==
    ASSUME IInv, UNCHANGED <<dev_vars, gen, out, in, hist>>, host' \in Hosts,
           DOMAIN calls' = Call, \A c \in Call : calls'[c] \in Calls(hist, c)
    PROVE  IInv'
  <1>1. out' \in Seq(Outs) /\ in' \in Seq(Known(hist)) /\ hist' = hist
        /\ hist' \in [Call -> [sent : Nat, dispatched : Nat]]
    BY DEF IInv, HostOK
  <1> QED
    BY <1>1, HostMoves

\* One call changes.
LEMMA OneCall ==
    ASSUME HostOK, NEW c \in Call, DOMAIN calls' = Call,
           \A d \in Call \ {c} : calls'[d] = calls[d], calls'[c] \in Calls(hist, c)
    PROVE  \A d \in Call : calls'[d] \in Calls(hist, d)
  BY DEF HostOK

\* What is not from the device may be in the hands of any call.
LEMMA OutcomeHeld ==
    ASSUME NEW h, NEW c
    PROVE  /\ \A w \in {"TransportClosed", "Transport", "Timeout", "Disconnected"} :
                 Outcome(w) \in Held(h, c)
           /\ <<RequestCorrupted>> \in Held(h, c)
  <1>1. RequestCorrupted \in Known(h) /\ RequestCorrupted.type \notin Reply
    BY ControlFrames DEF Sent
  <1> QED
    BY <1>1, ZenonT(30) DEF Held

\* A call that ends with what it may hold is well-formed, and so is one whose
\* slot is filled with that.
LEMMA CallEnds ==
    ASSUME NEW h, NEW c, NEW k \in Calls(h, c), NEW r \in Held(h, c)
    PROVE  /\ [k EXCEPT !.pc = "done", !.result = r] \in Calls(h, c)
           /\ [k EXCEPT !.slot = r] \in Calls(h, c)
  BY ZenonT(30) DEF Calls, CallPcs

\* The pending map gains, loses and ages entries.
LEMMA PendingFacts ==
    ASSUME NEW q \in Pendings
    PROVE  /\ DOMAIN q \subseteq Call /\ q \in [DOMAIN q -> 0 .. MaxRetransmits]
           /\ \A c \in Call : [s \in DOMAIN q \cup {c} |-> IF s = c THEN 0 ELSE q[s]] \in Pendings
           /\ \A c : [s \in DOMAIN q \ {c} |-> q[s]] \in Pendings
           /\ [s \in {} |-> 0] \in Pendings
           /\ [s \in {r \in DOMAIN q : q[r] < MaxRetransmits} |-> q[s] + 1] \in Pendings
  <1>1. PICK S \in SUBSET Call : q \in [S -> 0 .. MaxRetransmits]
    BY DEF Pendings
  <1>2. DOMAIN q = S
    BY <1>1
  <1>3. \A T \in SUBSET Call : \A g \in [T -> 0 .. MaxRetransmits] : g \in Pendings
    BY DEF Pendings
  <1>4. MaxRetransmits \in Nat /\ 0 \in 0 .. MaxRetransmits
    BY HostLinkAssumption
  <1>5. ASSUME NEW c \in Call
        PROVE  [s \in S \cup {c} |-> IF s = c THEN 0 ELSE q[s]] \in Pendings
    <2>1. [s \in S \cup {c} |-> IF s = c THEN 0 ELSE q[s]] \in [S \cup {c} -> 0 .. MaxRetransmits]
      BY <1>1, <1>4
    <2>2. S \cup {c} \in SUBSET Call
      OBVIOUS
    <2> QED
      BY <1>3, <2>1, <2>2
  <1>6. ASSUME NEW c PROVE [s \in S \ {c} |-> q[s]] \in Pendings
    <2>1. [s \in S \ {c} |-> q[s]] \in [S \ {c} -> 0 .. MaxRetransmits]
      BY <1>1
    <2>2. S \ {c} \in SUBSET Call
      OBVIOUS
    <2> QED
      BY <1>3, <2>1, <2>2
  <1>7. [s \in {} |-> 0] \in Pendings
    <2>1. [s \in {} |-> 0] \in [{} -> 0 .. MaxRetransmits]
      OBVIOUS
    <2> QED
      BY <1>3, <2>1, ZenonT(30)
  <1>8. [s \in {r \in S : q[r] < MaxRetransmits} |-> q[s] + 1] \in Pendings
    <2> DEFINE again == {r \in S : q[r] < MaxRetransmits}
    <2>1. \A s \in again : q[s] + 1 \in 0 .. MaxRetransmits
      BY <1>1, <1>4
    <2>2. [s \in again |-> q[s] + 1] \in [again -> 0 .. MaxRetransmits]
      BY <2>1
    <2>3. again \in SUBSET Call
      OBVIOUS
    <2> QED
      BY <1>3, <2>2, <2>3
  <1> QED
    BY <1>1, <1>2, <1>5, <1>6, <1>7, <1>8, ZenonT(30)

\* prepare_call keeps the invariant.
LEMMA KeepsPrepare ==
    ASSUME IInv, NEW c \in Call, prepare_call(c)
    PROVE  IInv'
  <1>1. host \in Hosts /\ DOMAIN calls = Call /\ calls[c] \in Calls(hist, c)
        /\ UNCHANGED <<dev_vars, gen, out, in, hist>>
    BY DEF IInv, HostOK, prepare_call
  <1>2. CASE host.poisoned
    <2>1. /\ calls' = [calls EXCEPT ![c].pc = "done", ![c].result = Outcome("TransportClosed")]
          /\ host' = host
      BY <1>2 DEF prepare_call
    <2>2. /\ DOMAIN calls' = Call /\ \A d \in Call \ {c} : calls'[d] = calls[d]
          /\ calls'[c] = [calls[c] EXCEPT !.pc = "done", !.result = Outcome("TransportClosed")]
      BY <1>1, <2>1
    <2>3. calls'[c] \in Calls(hist, c)
      <3>1. Outcome("TransportClosed") \in Held(hist, c)
        BY OutcomeHeld, ZenonT(30)
      <3>2. [calls[c] EXCEPT !.pc = "done", !.result = Outcome("TransportClosed")] \in Calls(hist, c)
        BY <1>1, <3>1, CallEnds, ZenonT(30)
      <3> QED
        BY <2>2, <3>2, ZenonT(30)
    <2> QED
      BY <1>1, <2>1, <2>2, <2>3, OneCall, CallsMove DEF IInv
  <1>3. CASE ~host.poisoned
    <2>1. /\ host' = [host EXCEPT !.next_seq = @ + 1]
          /\ calls' = [calls EXCEPT ![c].pc = "encoded"]
      BY <1>3 DEF prepare_call
    <2>2. /\ DOMAIN calls' = Call /\ \A d \in Call \ {c} : calls'[d] = calls[d]
          /\ calls'[c] = [calls[c] EXCEPT !.pc = "encoded"]
      BY <1>1, <2>1
    <2>3. calls'[c] \in Calls(hist, c)
      BY <1>1, <2>2 DEF Calls, CallPcs
    <2>4. host' \in Hosts
      BY <1>1, <2>1 DEF Hosts
    <2> QED
      BY <1>1, <2>2, <2>3, <2>4, OneCall, CallsMove DEF IInv
  <1> QED
    BY <1>2, <1>3

\* register keeps the invariant: the pending map grows by a call.
LEMMA KeepsRegister ==
    ASSUME IInv, NEW c \in Call, register(c)
    PROVE  IInv'
  <1>1. /\ host \in Hosts /\ DOMAIN calls = Call /\ calls[c] \in Calls(hist, c)
        /\ UNCHANGED <<dev_vars, gen, out, in, hist>>
        /\ calls' = [calls EXCEPT ![c].pc = "registered"]
    BY DEF IInv, HostOK, register
  <1> DEFINE p == [s \in DOMAIN host.pending \cup {c} |-> IF s = c THEN 0 ELSE host.pending[s]]
  <1>2. host' = [host EXCEPT !.pending = p]
    BY <1>1 DEF register, Hosts
  <1>3. p \in Pendings
    BY <1>1, PendingFacts, ZenonT(30) DEF Hosts
  <1> HIDE DEF p
  <1>4. host' \in Hosts
    BY <1>1, <1>2, <1>3 DEF Hosts
  <1>5. /\ DOMAIN calls' = Call /\ \A d \in Call \ {c} : calls'[d] = calls[d]
        /\ calls'[c] = [calls[c] EXCEPT !.pc = "registered"]
    BY <1>1
  <1>6. calls'[c] \in Calls(hist, c)
    BY <1>1, <1>5 DEF Calls, CallPcs
  <1> QED
    BY <1>1, <1>4, <1>5, <1>6, OneCall, CallsMove DEF IInv

\* send keeps the invariant: what goes out is no reply.
LEMMA KeepsSend ==
    ASSUME IInv, NEW c \in Call, send(c)
    PROVE  IInv'
  <1>1. /\ host \in Hosts /\ DOMAIN calls = Call /\ calls[c] \in Calls(hist, c)
        /\ UNCHANGED <<dev_vars, gen>> /\ in' = in /\ host' = host /\ in \in Seq(Known(hist))
    BY DEF IInv, HostOK, send
  <1>2. CASE plugged
    <2>1. calls' = [calls EXCEPT ![c].pc = "waiting"] /\ Transmit(Frame("IpcRequest", c))
      BY <1>2 DEF send
    <2>2. /\ DOMAIN calls' = Call /\ \A d \in Call \ {c} : calls'[d] = calls[d]
          /\ calls'[c] = [calls[c] EXCEPT !.pc = "waiting"]
      BY <1>1, <2>1
    <2>3. calls'[c] \in Calls(hist, c)
      BY <1>1, <2>2 DEF Calls, CallPcs
    <2>4. /\ out' \in Seq(Outs) /\ hist' \in [Call -> [sent : Nat, dispatched : Nat]]
          /\ \A d \in Call : hist'[d].dispatched = hist[d].dispatched
      BY <2>1, TransmitOK, ControlFrames DEF IInv
    <2>5. \A d \in Call : calls'[d] \in Calls(hist, d)
      BY <2>2, <2>3, OneCall DEF IInv
    <2> QED
      BY <1>1, <2>2, <2>4, <2>5, HostMoves
  <1>3. CASE ~plugged
    <2>1. /\ calls' = [calls EXCEPT ![c].pc = "done", ![c].result = Outcome("Transport")]
          /\ out' = out /\ hist' = hist
      BY <1>3 DEF send
    <2>2. /\ DOMAIN calls' = Call /\ \A d \in Call \ {c} : calls'[d] = calls[d]
          /\ calls'[c] = [calls[c] EXCEPT !.pc = "done", !.result = Outcome("Transport")]
      BY <1>1, <2>1
    <2>3. calls'[c] \in Calls(hist, c)
      <3>1. Outcome("Transport") \in Held(hist, c)
        BY OutcomeHeld, ZenonT(30)
      <3>2. [calls[c] EXCEPT !.pc = "done", !.result = Outcome("Transport")] \in Calls(hist, c)
        BY <1>1, <3>1, CallEnds, ZenonT(30)
      <3> QED
        BY <2>2, <3>2, ZenonT(30)
    <2> QED
      BY <1>1, <2>1, <2>2, <2>3, OneCall, CallsMove DEF IInv
  <1> QED
    BY <1>2, <1>3

\* finish keeps the invariant: the result is what the slot of the call holds.
LEMMA KeepsFinish ==
    ASSUME IInv, NEW c \in Call, finish(c)
    PROVE  IInv'
  <1>1. /\ DOMAIN calls = Call /\ calls[c] \in Calls(hist, c)
        /\ UNCHANGED <<dev_vars, gen, out, in, hist>> /\ host' \in Hosts
        /\ calls' = [calls EXCEPT ![c].pc = "done", ![c].result = calls[c].slot]
    BY DEF IInv, HostOK, finish
  <1>2. /\ DOMAIN calls' = Call /\ \A d \in Call \ {c} : calls'[d] = calls[d]
        /\ calls'[c] = [calls[c] EXCEPT !.pc = "done", !.result = calls[c].slot]
    BY <1>1
  <1>3. calls'[c] \in Calls(hist, c)
    <2>1. calls[c].slot \in Held(hist, c)
      BY <1>1 DEF Calls
    <2> QED
      BY <1>1, <1>2, <2>1, CallEnds, ZenonT(30)
  <1> QED
    BY <1>1, <1>2, <1>3, OneCall, CallsMove DEF IInv

\* timeout keeps the invariant: the result is not from the device.
LEMMA KeepsTimeout ==
    ASSUME IInv, NEW c \in Call, timeout(c)
    PROVE  IInv'
  <1>1. /\ host \in Hosts /\ DOMAIN calls = Call /\ calls[c] \in Calls(hist, c)
        /\ UNCHANGED <<dev_vars, gen, out, in, hist>>
        /\ calls' = [calls EXCEPT ![c].pc = "done", ![c].result = Outcome("Timeout")]
    BY DEF IInv, HostOK, timeout
  <1> DEFINE p == [s \in DOMAIN host.pending \ {c} |-> host.pending[s]]
  <1>2. host' = [host EXCEPT !.pending = p]
    BY <1>1 DEF timeout, Hosts
  <1>3. p \in Pendings
    BY <1>1, PendingFacts, ZenonT(30) DEF Hosts
  <1> HIDE DEF p
  <1>4. host' \in Hosts
    BY <1>1, <1>2, <1>3 DEF Hosts
  <1>5. /\ DOMAIN calls' = Call /\ \A d \in Call \ {c} : calls'[d] = calls[d]
        /\ calls'[c] = [calls[c] EXCEPT !.pc = "done", !.result = Outcome("Timeout")]
    BY <1>1
  <1>6. calls'[c] \in Calls(hist, c)
    <2>1. Outcome("Timeout") \in Held(hist, c)
      BY OutcomeHeld, ZenonT(30)
    <2>2. [calls[c] EXCEPT !.pc = "done", !.result = Outcome("Timeout")] \in Calls(hist, c)
      BY <1>1, <2>1, CallEnds, ZenonT(30)
    <2> QED
      BY <1>5, <2>2, ZenonT(30)
  <1> QED
    BY <1>1, <1>4, <1>5, <1>6, OneCall, CallsMove DEF IInv

\* resolve keeps the invariant: a reply is put only into the slot of the call
\* it is to.
LEMMA KeepsResolve ==
    ASSUME IInv, resolve
    PROVE  IInv'
  <1> DEFINE f == Head(in)
  <1>1. /\ host \in Hosts /\ DOMAIN calls = Call /\ in \in Seq(Known(hist)) /\ in # <<>>
        /\ UNCHANGED <<dev_vars, gen>> /\ hist' = hist /\ in' = Tail(in) /\ out' \in Seq(Outs)
        /\ hist \in [Call -> [sent : Nat, dispatched : Nat]]
        /\ \A c \in Call : calls[c] \in Calls(hist, c)
    BY DEF IInv, HostOK, resolve
  <1>2. f \in Known(hist) /\ in' \in Seq(Known(hist))
    BY <1>1
  <1>3. CASE f.seq \in DOMAIN host.pending
    <2>1. /\ calls' = [calls EXCEPT ![f.seq].slot = <<f>>]
          /\ host' = [host EXCEPT !.pending = [q \in DOMAIN @ \ {f.seq} |-> @[q]]]
      BY <1>3 DEF resolve
    <2> DEFINE p == [q \in DOMAIN host.pending \ {f.seq} |-> host.pending[q]]
    <2>2. host' = [host EXCEPT !.pending = p]
      BY <1>1, <2>1 DEF Hosts
    <2>3. p \in Pendings /\ f.seq \in Call
      BY <1>1, <1>3, PendingFacts, ZenonT(30) DEF Hosts
    <2> HIDE DEF p
    <2>4. host' \in Hosts
      BY <1>1, <2>2, <2>3, ZenonT(30) DEF Hosts
    <2>5. <<f>> \in Held(hist, f.seq)
      BY <1>2 DEF Held
    <2> HIDE DEF f
    <2>6. /\ DOMAIN calls' = Call /\ \A d \in Call \ {f.seq} : calls'[d] = calls[d]
          /\ calls'[f.seq] = [calls[f.seq] EXCEPT !.slot = <<f>>]
      BY <1>1, <2>1, <2>3, ZenonT(30)
    <2>7. calls'[f.seq] \in Calls(hist, f.seq)
      <3>1. [calls[f.seq] EXCEPT !.slot = <<f>>] \in Calls(hist, f.seq)
        BY <1>1, <2>3, <2>5, CallEnds, ZenonT(30)
      <3> QED
        BY <2>6, <3>1, ZenonT(30)
    <2>8. \A d \in Call : calls'[d] \in Calls(hist, d)
      BY <2>3, <2>6, <2>7, OneCall DEF IInv
    <2> QED
      BY <1>1, <1>2, <2>4, <2>6, <2>8, HostMoves
  <1>4. CASE f.seq \notin DOMAIN host.pending
    <2>1. host' = host /\ calls' = calls
      BY <1>4 DEF resolve
    <2> QED
      BY <1>1, <1>2, <2>1, HostMoves
  <1> QED
    BY <1>3, <1>4

\* reply_corrupted keeps the invariant: what goes out is no reply.
LEMMA KeepsReplyCorrupted ==
    ASSUME IInv, reply_corrupted
    PROVE  IInv'
  <1>1. /\ in \in Seq(Known(hist)) /\ in # <<>> /\ in' = Tail(in)
        /\ UNCHANGED <<dev_vars, gen>> /\ host' \in Hosts /\ calls' = calls
        /\ DOMAIN calls = Call /\ \A c \in Call : calls[c] \in Calls(hist, c)
        /\ Transmit(ReplyCorrupted)
    BY DEF IInv, HostOK, reply_corrupted, host_vars
  <1>2. in' \in Seq(Known(hist))
    BY <1>1
  <1>3. /\ out' \in Seq(Outs) /\ hist' \in [Call -> [sent : Nat, dispatched : Nat]]
        /\ \A d \in Call : hist'[d].dispatched = hist[d].dispatched
    BY <1>1, TransmitOK, ControlFrames DEF IInv
  <1> QED
    BY <1>1, <1>2, <1>3, HostMoves

\* retransmit_pending keeps the invariant: the calls given up get no reply.
LEMMA KeepsRetransmitPending ==
    ASSUME IInv, retransmit_pending
    PROVE  IInv'
  <1> DEFINE again == {s \in DOMAIN host.pending : host.pending[s] < MaxRetransmits}
             p == [s \in again |-> host.pending[s] + 1]
  <1>1. /\ host \in Hosts /\ in \in Seq(Known(hist)) /\ in # <<>> /\ in' = Tail(in)
        /\ UNCHANGED <<dev_vars, gen>> /\ hist' = hist /\ out' \in Seq(Outs)
        /\ hist \in [Call -> [sent : Nat, dispatched : Nat]]
        /\ \A c \in Call : calls[c] \in Calls(hist, c)
    BY DEF IInv, HostOK, retransmit_pending
  <1>2. /\ host' = [host EXCEPT !.pending = p, !.reader = "resend", !.resend = again]
        /\ calls' = [c \in Call |-> IF c \in DOMAIN host.pending \ again
                                      THEN [calls[c] EXCEPT !.slot = <<RequestCorrupted>>]
                                      ELSE calls[c]]
    BY DEF retransmit_pending
  <1>3. in' \in Seq(Known(hist))
    BY <1>1
  <1>4. host.pending \in Pendings
    BY <1>1 DEF Hosts
  <1>5. p \in Pendings /\ again \in SUBSET Call
    BY <1>4, PendingFacts
  <1> HIDE DEF p, again
  <1>6. host' \in Hosts
    BY <1>1, <1>2, <1>5, ZenonT(30) DEF Hosts
  <1>7. DOMAIN calls' = Call
    BY <1>2
  <1>8. \A c \in Call : calls'[c] \in Calls(hist, c)
    <2> TAKE c \in Call
    <2>1. [calls[c] EXCEPT !.slot = <<RequestCorrupted>>] \in Calls(hist, c)
      BY <1>1, CallEnds, OutcomeHeld, ZenonT(30)
    <2>2. calls'[c] = [calls[c] EXCEPT !.slot = <<RequestCorrupted>>] \/ calls'[c] = calls[c]
      BY <1>2
    <2> QED
      BY <1>1, <2>1, <2>2
  <1> QED
    BY <1>1, <1>3, <1>6, <1>7, <1>8, HostMoves

\* resend keeps the invariant: what goes out is no reply.
LEMMA KeepsResend ==
    ASSUME IInv, resend
    PROVE  IInv'
  <1>1. /\ host \in Hosts /\ in' \in Seq(Known(hist)) /\ UNCHANGED <<dev_vars, gen>> /\ calls' = calls
        /\ DOMAIN calls = Call /\ \A c \in Call : calls[c] \in Calls(hist, c)
        /\ out \in Seq(Outs) /\ hist \in [Call -> [sent : Nat, dispatched : Nat]]
    BY DEF IInv, HostOK, resend
  <1>2. ASSUME NEW s \in host.resend, host' = [host EXCEPT !.resend = @ \ {s}],
               IF plugged THEN Transmit(Frame("IpcRequest", s)) ELSE UNCHANGED <<out, damage, hist>>
        PROVE  IInv'
    <2>1. host' \in Hosts /\ s \in Call
      BY <1>1, <1>2, ZenonT(30) DEF Hosts
    <2>2. /\ out' \in Seq(Outs) /\ hist' \in [Call -> [sent : Nat, dispatched : Nat]]
          /\ \A d \in Call : hist'[d].dispatched = hist[d].dispatched
      <3>1. CASE plugged
        BY <1>2, <2>1, <3>1, TransmitOK, ControlFrames DEF IInv
      <3>2. CASE ~plugged
        BY <1>1, <1>2, <3>2
      <3> QED
        BY <3>1, <3>2
    <2> QED
      BY <1>1, <2>1, <2>2, HostMoves
  <1>3. ASSUME host' = [host EXCEPT !.reader = "read"], UNCHANGED <<out, damage, hist>>
        PROVE  IInv'
    <2>1. host' \in Hosts
      BY <1>1, <1>3, ZenonT(30) DEF Hosts
    <2> QED
      BY <1>1, <1>3, <2>1, HostMoves
  <1> QED
    BY <1>2, <1>3 DEF resend

\* unplug keeps the invariant: the wires are empty.
LEMMA KeepsUnplug ==
    ASSUME IInv, unplug
    PROVE  IInv'
  <1>1. /\ UNCHANGED <<dev_vars, gen>> /\ calls' = calls /\ host' = host /\ hist' = hist
        /\ out' = <<>> /\ in' = <<>>
    BY DEF unplug, host_vars
  <1>2. /\ host' \in Hosts /\ DOMAIN calls' = Call /\ \A c \in Call : calls'[c] \in Calls(hist, c)
        /\ hist' \in [Call -> [sent : Nat, dispatched : Nat]]
    BY <1>1 DEF IInv, HostOK
  <1>3. out' \in Seq(Outs) /\ in' \in Seq(Known(hist))
    BY <1>1
  <1> QED
    BY <1>1, <1>2, <1>3, HostMoves

\* poison keeps the invariant: the slots that are dropped hold no reply.
LEMMA KeepsPoison ==
    ASSUME IInv, poison
    PROVE  IInv'
  <1>1. /\ host \in Hosts /\ UNCHANGED <<dev_vars, gen, out, in, hist>>
        /\ DOMAIN calls = Call /\ \A c \in Call : calls[c] \in Calls(hist, c)
    BY DEF IInv, HostOK, poison
  <1>2. CASE host' = [host EXCEPT !.poisoned = TRUE, !.reader = "poison"] /\ calls' = calls
    <2>1. host' \in Hosts
      BY <1>1, <1>2, ZenonT(30) DEF Hosts
    <2> QED
      BY <1>1, <1>2, <2>1, CallsMove
  <1>3. CASE /\ host' = [host EXCEPT !.reader = "ended", !.pending = [s \in {} |-> 0]]
             /\ calls' = [c \in Call |-> IF c \in DOMAIN host.pending
                                           THEN [calls[c] EXCEPT !.slot = Outcome("Disconnected")]
                                           ELSE calls[c]]
    <2>1. host.pending \in Pendings
      BY <1>1 DEF Hosts
    <2>2. [s \in {} |-> 0] \in Pendings
      BY <2>1, PendingFacts, ZenonT(30)
    <2>3. host' \in Hosts
      BY <1>1, <1>3, <2>2, ZenonT(30) DEF Hosts
    <2>4. DOMAIN calls' = Call
      BY <1>3
    <2>5. \A c \in Call : calls'[c] \in Calls(hist, c)
      <3> TAKE c \in Call
      <3>1. [calls[c] EXCEPT !.slot = Outcome("Disconnected")] \in Calls(hist, c)
        BY <1>1, CallEnds, OutcomeHeld, ZenonT(30)
      <3>2. calls'[c] = [calls[c] EXCEPT !.slot = Outcome("Disconnected")] \/ calls'[c] = calls[c]
        BY <1>3
      <3> QED
        BY <1>1, <3>1, <3>2
    <2> QED
      BY <1>1, <2>3, <2>4, <2>5, CallsMove
  <1> QED
    BY <1>2, <1>3 DEF poison
-----------------------------------------------------------------------------
(* The invariant, and what follows from it. *)

\* The invariant holds when the tasks have started and no call has been made.
LEMMA StartsRight ==
    ASSUME Init
    PROVE  IInv
  <1>1. tunnel \in Tunnels(hist)
    <2>1. NoPacket \in [frame : Known(hist), part : 0 .. Parts]
      BY ControlFrames, NoLength DEF NoPacket
    <2>2. [i \in 1 .. Parts |-> NoPacket] \in [1 .. Parts -> [frame : Known(hist), part : 0 .. Parts]]
      BY <2>1
    <2> QED
      BY <2>2, NoLength, SMTT(30) DEF Init, Tunnels
  <1>2. usb \in Usbs /\ proxy \in Proxies /\ notes \in Seq(Notes) /\ gen \in [Owner -> Nat]
    BY NoLength DEF Init, Usbs, UsbState, Proxies
  <1>3. DeviceOK
    BY <1>1, <1>2 DEF Init, DeviceOK
  <1>4. HostOK
    <2>1. out \in Seq(Outs) /\ in \in Seq(Known(hist))
          /\ hist \in [Call -> [sent : Nat, dispatched : Nat]]
      BY DEF Init
    <2>2. [c \in {} |-> 0] \in Pendings
      <3>1. [c \in {} |-> 0] \in [{} -> 0 .. MaxRetransmits]
        OBVIOUS
      <3> QED
        BY <3>1 DEF Pendings
    <2>3. host \in Hosts
      BY <2>2, SMTT(30) DEF Init, Hosts
    <2>4. DOMAIN calls = Call /\ \A c \in Call : calls[c] \in Calls(hist, c)
      BY DEF Init, Calls, CallPcs, Held
    <2> QED
      BY <2>1, <2>3, <2>4 DEF HostOK
  <1>5. Turns /\ Whole /\ Locks
    BY DEF Init, Turns, Whole, Locks, Busy
  <1> QED
    BY <1>3, <1>4, <1>5 DEF IInv

\* Every step of the two tasks, of the host and of the cable keeps the
\* invariant.
THEOREM HostLinkInvariant == Spec => []IInv
  <1>1. ASSUME IInv, Next PROVE IInv'
    <2>1. ASSUME u_step PROVE IInv'
      BY <1>1, <2>1, KeepsEvent, KeepsRead, KeepsEmpty, KeepsDisconnected, KeepsNack,
         KeepsRetransmit, KeepsStage, KeepsPush, ZenonT(30) DEF u_step
    <2>2. ASSUME p_step PROVE IInv'
      BY <1>1, <2>2, KeepsRecv, KeepsRedeliver, KeepsServerDied, KeepsFetch, KeepsDispatch,
         KeepsHandover, KeepsDeliver, ZenonT(30) DEF p_step
    <2>3. ASSUME NEW c \in Call,
                 prepare_call(c) \/ register(c) \/ send(c) \/ finish(c) \/ timeout(c)
          PROVE  IInv'
      BY <1>1, <2>3, KeepsPrepare, KeepsRegister, KeepsSend, KeepsFinish, KeepsTimeout, ZenonT(30)
    <2>4. ASSUME resolve \/ reply_corrupted \/ retransmit_pending \/ resend \/ poison PROVE IInv'
      BY <1>1, <2>4, KeepsResolve, KeepsReplyCorrupted, KeepsRetransmitPending, KeepsResend,
         KeepsPoison, ZenonT(30)
    <2> QED
      BY <1>1, <2>1, <2>2, <2>3, <2>4, KeepsRestartUsb, KeepsRestartProxy, KeepsUnplug,
         ZenonT(30) DEF Next
  <1>2. ASSUME IInv, UNCHANGED vars PROVE IInv'
    <2>1. /\ UNCHANGED <<dev_vars, gen, out, in, hist>> /\ host' = host /\ calls' = calls
      BY <1>2 DEF vars, dev_vars
    <2>2. /\ host' \in Hosts /\ DOMAIN calls' = Call
          /\ \A c \in Call : calls'[c] \in Calls(hist, c)
      BY <1>2, <2>1 DEF IInv, HostOK
    <2> QED
      BY <1>2, <2>1, <2>2, CallsMove
  <1> QED
    BY <1>1, <1>2, StartsRight, PTL DEF Spec

\* Every state is of the type that TypeOK gives it.
THEOREM HostLinkTypeOK == Spec => []TypeOK
  <1>1. IInv => TypeOK
    <2> SUFFICES ASSUME IInv PROVE TypeOK
      OBVIOUS
    <2>1. Known(hist) \subseteq Frames /\ Sent \subseteq Frames
      BY DEF Known, Sent
    <2>2. /\ tunnel.lock \in Owner \cup {FREE} /\ tunnel.len \in 0 .. Parts
          /\ tunnel.data \in [1 .. Parts -> [frame : Frames, part : 0 .. Parts]]
      <3>1. tunnel \in Tunnels(hist)
        BY DEF IInv, DeviceOK
      <3> QED
        BY <2>1, <3>1 DEF Tunnels
    <2>3. usb \in Usbs /\ proxy \in Proxies /\ notes \in Seq(Notes)
      BY DEF IInv, DeviceOK
    <2>4. /\ out \in Seq([packet : [frame : Frames, part : 0 .. Parts], short : BOOLEAN])
          /\ in \in Seq(Frames)
      <3>1. Outs \subseteq [packet : [frame : Frames, part : 0 .. Parts], short : BOOLEAN]
        BY <2>1 DEF Outs
      <3>2. \A S, T : S \subseteq T => Seq(S) \subseteq Seq(T)
        OBVIOUS
      <3>3. out \in Seq(Outs) /\ in \in Seq(Known(hist))
        BY DEF IInv, HostOK
      <3> QED
        BY <2>1, <3>1, <3>2, <3>3, ZenonT(30)
    <2>5. host \in Hosts
      BY DEF IInv, HostOK
    <2>6. \A c \in Call : Held(hist, c) \subseteq Result
      BY <2>1, ZenonT(30) DEF Held, Result
    <2>7. \A c \in Call : calls[c].pc \in CallPcs /\ calls[c].slot \in Result
                            /\ calls[c].result \in Result
      BY <2>6, ZenonT(30) DEF IInv, HostOK, Calls
    <2>8. /\ usb.state \in UsbState /\ usb.len \in 0 .. Parts /\ usb.disconnected \in BOOLEAN
          /\ usb.last_sent \in {<<>>, Outcome("IpcReply"), <<RequestCorrupted>>}
          /\ usb.pc \in {"loop", "drain", "process", "push"}
      BY <2>3 DEF Usbs
    <2>9. /\ proxy.pc \in {"loop", "fetch", "redeliver", "dispatch", "serving", "deliver"}
          /\ proxy.seq \in Call \cup {Unkeyed} /\ proxy.last_len \in 0 .. Parts
          /\ proxy.knows_usb \in BOOLEAN
      BY <2>3 DEF Proxies
    <2>10. /\ host.pending \in UNION {[S -> 0 .. MaxRetransmits] : S \in SUBSET Call}
           /\ host.reader \in {"read", "resend", "poison", "ended"} /\ host.resend \subseteq Call
      BY <2>5 DEF Hosts, Pendings
    <2> QED
      BY <2>2, <2>3, <2>4, <2>7, <2>8, <2>9, <2>10, ZenonT(30) DEF TypeOK, Notes, CallPcs
  <1> QED
    BY <1>1, HostLinkInvariant, PTL

\* A call that returns a frame of the device returns the outcome of its own
\* request, and of one that a server was given (resolve, deliver_reply), however
\* many frames are damaged, repeated or left behind by a task that was restarted.
THEOREM HostLinkRightReply == Spec => []RightReply
  <1>1. IInv => RightReply
    <2> SUFFICES ASSUME IInv, NEW c \in Call, calls[c].result # <<>>,
                        calls[c].result[1].type \in {"IpcReply", "TaskDead"}
                 PROVE  calls[c].result[1].seq = c /\ hist[c].dispatched > 0
      BY DEF RightReply
    <2>1. calls[c].result \in Held(hist, c)
      BY DEF IInv, HostOK, Calls
    <2>2. ASSUME NEW w \in {"TransportClosed", "Transport", "Timeout", "Disconnected"},
                 calls[c].result = Outcome(w)
          PROVE  FALSE
      BY <2>2 DEF Outcome, Frame
    <2>3. PICK f \in Known(hist) : /\ calls[c].result = <<f>>
                                   /\ f.type \in Reply => f.seq = c
      BY <2>1, <2>2, ZenonT(30) DEF Held
    <2>4. calls[c].result[1] = f
      BY <2>3
    <2> QED
      BY <2>3, <2>4 DEF Known, Reply
  <1> QED
    BY <1>1, HostLinkInvariant, PTL

\* What host_proxy is about to send to a server is a whole frame, as long as
\* usb_protocol_host has not been restarted.
THEOREM HostLinkDispatchesWhole == Spec => []DispatchesWhole
  <1>1. IInv => DispatchesWhole
    BY DEF IInv, Turns, Whole, DispatchesWhole
  <1> QED
    BY <1>1, HostLinkInvariant, PTL

\* "Only the current owner may access data or len" (tunnel.rs), while no task
\* has been restarted and apart from a redelivery.
THEOREM HostLinkOwnerHolds == Spec => []OwnerHolds
  <1>1. IInv => OwnerHolds
    BY DEF IInv, Locks, OwnerHolds
  <1> QED
    BY <1>1, HostLinkInvariant, PTL
=============================================================================
