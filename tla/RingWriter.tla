----------------------------- MODULE RingWriter -----------------------------
(***************************************************************************)
(* The writer of the log partition (firmware/sysmodule/storage/api,        *)
(* ring.rs): messages are COBS encoded between null bytes, collected in a  *)
(* page buffer, and programmed into NOR flash that is erased sector by     *)
(* sector as the write position enters it.                                 *)
(*                                                                         *)
(* A writer belongs to one task, which the supervisor may restart at any   *)
(* point: the flash stays, the writer starts over.  A byte is below Base   *)
(* (256 in the code), a counter has CounterBytes of them (4).              *)
(***************************************************************************)
EXTENDS SequencesExt, Integers

CONSTANTS
    capacity, erase_size, program_size,   \* the geometry of the partition
    Base,
    CounterBytes,
    MaxData       \* bound: bytes of data in a message

Byte == 0..(Base - 1)
Group == Base - 2     \* bytes in a full COBS group (254)
Cell == 0..(capacity - 1)

ASSUME RingWriterAssumption ==
    /\ program_size \in Nat \ {0} /\ erase_size \in Nat \ {0} /\ capacity \in Nat \ {0}
    /\ erase_size % program_size = 0 /\ capacity % erase_size = 0
    /\ Base \in Nat /\ Base >= 3 /\ CounterBytes \in Nat /\ MaxData \in Nat

VARIABLE
    w     \* the RingWriter, the flash behind it, and the history of a message

(***************************************************************************)
(* programmed is the set of cells that were programmed since their sector  *)
(* was erased.  History: payload and emitted are what the encoder was fed  *)
(* and what it emitted since begin, and clean says that no cell has been   *)
(* programmed twice without an erase.                                      *)
(***************************************************************************)
Writer(flash) ==
    [pos |-> 0, counter |-> 0, prog_buf |-> <<>>, prog_buf_start |-> 0,
     cobs_buf |-> <<>>, in_message |-> FALSE,
     programmed |-> flash, payload |-> <<>>, emitted |-> <<>>, clean |-> TRUE]

\* A new partition is erased.
Init == w = Writer({})

-----------------------------------------------------------------------------
\* Partition::erase of the sector at x.pos.
erase(x) == [x EXCEPT !.programmed = @ \ (x.pos..(x.pos + erase_size - 1))]

\* Partition::program of one page at x.prog_buf_start; the error for a page
\* that does not fit into the partition is ignored by the writer.
program(x) ==
    LET page == x.prog_buf_start..(x.prog_buf_start + program_size - 1) IN
    IF page \subseteq Cell
    THEN [x EXCEPT !.programmed = @ \cup page, !.clean = @ /\ page \cap x.programmed = {}]
    ELSE x

\* What remains of the page is padded, so that a whole page is programmed.
flush_prog(x) == IF x.prog_buf = <<>> THEN x ELSE [program(x) EXCEPT !.prog_buf = <<>>]

emit_byte_Overruns(x, b) ==
    LET y == IF x.pos % erase_size = 0 /\ x.prog_buf = <<>> THEN erase(x) ELSE x
        z == [y EXCEPT !.prog_buf_start = IF y.prog_buf = <<>> THEN y.pos ELSE @,
                       !.prog_buf = Append(@, b),
                       !.pos = (@ + 1) % capacity,
                       !.emitted = Append(@, b)]
    IN  IF Len(z.prog_buf) > program_size THEN flush_prog(z) ELSE z

emit_byte(x, b) ==
    LET y == IF x.pos % erase_size = 0 /\ x.prog_buf = <<>> THEN erase(x) ELSE x
        z == [y EXCEPT !.prog_buf_start = IF y.prog_buf = <<>> THEN y.pos ELSE @,
                       !.prog_buf = Append(@, b),
                       !.pos = (@ + 1) % capacity,
                       !.emitted = Append(@, b)]
    IN  IF Len(z.prog_buf) = program_size THEN flush_prog(z) ELSE z

\* A code byte, then the group: cobs_flush and cobs_flush_full.
EmitGroup(x, code) ==
    [FoldLeft(emit_byte, emit_byte(x, code), x.cobs_buf) EXCEPT !.cobs_buf = <<>>]

cobs_flush(x) == EmitGroup(x, Len(x.cobs_buf) + 1)

cobs_flush_full_ShortCode(x) == EmitGroup(x, Len(x.cobs_buf))

cobs_flush_full(x) == EmitGroup(x, Base - 1)

cobs_feed(x, b) ==
    LET y == [x EXCEPT !.payload = Append(@, b)]
        z == [y EXCEPT !.cobs_buf = Append(@, b)]
    IN  CASE b = 0                                -> cobs_flush(y)
          [] b # 0 /\ Len(z.cobs_buf) = Group     -> cobs_flush_full(z)
          [] b # 0 /\ Len(z.cobs_buf) # Group     -> z

to_le_bytes(n) == [i \in 1..CounterBytes |-> (n \div Base ^ (i - 1)) % Base]

Ended(x) ==
    IF ~x.in_message THEN x
    ELSE [flush_prog(emit_byte(cobs_flush(x), 0)) EXCEPT
             !.counter = (@ + 1) % Base ^ CounterBytes, !.in_message = FALSE]

Begun(x) ==
    LET y == [x EXCEPT !.in_message = TRUE, !.cobs_buf = <<>>, !.payload = <<>>, !.emitted = <<>>]
    IN  FoldLeft(cobs_feed, emit_byte(y, 0), to_le_bytes(x.counter))

-----------------------------------------------------------------------------
begin == w' = Begun(Ended(w))

\* One byte of a write.  Callers write between begin and end only.
write(b) ==
    /\ w.in_message /\ Len(w.payload) < CounterBytes + MaxData
    /\ w' = cobs_feed(w, b)

end == w' = Ended(w)

\* The task is restarted and calls RingWriter::new.
restart == w' = [Writer(w.programmed) EXCEPT !.clean = w.clean]

Next == begin \/ (\E b \in Byte : write(b)) \/ end \/ restart

Spec == Init /\ [][Next]_w

-----------------------------------------------------------------------------
\* Type correctness.  The page buffer and the group buffer, which the code
\* indexes without a check, never overflow.
TypeOK ==
    /\ w.pos \in Cell /\ w.prog_buf_start \in Cell
    /\ w.counter \in 0..(Base ^ CounterBytes - 1)
    /\ w.prog_buf \in Seq(Byte) /\ Len(w.prog_buf) < program_size
    /\ w.cobs_buf \in Seq(Byte \ {0}) /\ Len(w.cobs_buf) < Group
    /\ w.in_message \in BOOLEAN /\ w.programmed \subseteq Cell
    /\ w.emitted \in Seq(Byte)

\* The reference decoder: s from its i-th byte on, which is a code byte.
Decode(s) ==
    LET from[i \in 1..(Len(s) + Base)] ==
            IF i > Len(s) THEN <<>>
            ELSE SubSeq(s, i + 1, i + s[i] - 1)
                 \o (IF s[i] = Base - 1 \/ i + s[i] > Len(s) THEN <<>> ELSE <<0>>)
                 \o from[i + s[i]]
    IN  from[1]

\* A finished message is on the flash between two null bytes, has none inside,
\* and decodes to its counter and its data, at every boundary of the groups.
MessageDecodes ==
    ~w.in_message /\ w.emitted # <<>> =>
        LET n == Len(w.emitted)
            inner == SubSeq(w.emitted, 2, n - 1)
        IN  /\ w.emitted[1] = 0 /\ w.emitted[n] = 0
            /\ \A i \in 1..Len(inner) : inner[i] # 0
            /\ Decode(inner) = w.payload

\* What the storage interface asks of the callers of program: "Caller
\* guarantees the region was previously erased."
ProgramsErased == w.clean
=============================================================================
