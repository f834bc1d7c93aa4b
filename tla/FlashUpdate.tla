---------------------------- MODULE FlashUpdate ----------------------------
(***************************************************************************)
(* A firmware update over IPC (run_flash of host/app), and what the boot   *)
(* loader makes of the flash afterwards.  Power may be cut, a call may     *)
(* fail, and a program operation may leave something else in the flash, at *)
(* any point; the user may then start another update, from the stub that   *)
(* runs in RAM.                                                            *)
(*                                                                         *)
(* Flash is divided into chunks.  An image of n chunks has its footer in   *)
(* the last; it is found by its end, so by whoever knows n.                *)
(* Archives carry flash information: without it the table is not written.  *)
(***************************************************************************)
EXTENDS Naturals, FiniteSets

CONSTANTS
    PartSize,     \* chunks of a firmware partition
    LoaderChunk,  \* the chunk of an image that holds the boot loader
    Version,      \* versions, a set of positive numbers
    MaxUpdates    \* bound: updates that may be started

ASSUME FlashUpdateAssumption ==
    /\ PartSize \in Nat /\ LoaderChunk \in 1 .. PartSize
    /\ Version \subseteq Nat \ {0} /\ MaxUpdates \in Nat

VARIABLES
    cells,     \* slot -> chunk -> what is in the flash there
    ftab,      \* the table in the boot partition
    host,      \* the update: its step, archive, what it read, target, chunk
    updates,   \* updates started
    complete   \* the latest update ended with FlashComplete

vars == <<cells, ftab, host, updates, complete>>

Slot == {"a", "b"}
Chunk == 1 .. PartSize

(* Chunk i of the image of version v that is n chunks long; 0 is erased. *)
Cell(v, n, i) == [version |-> v, size |-> n, at |-> i]
Erased == Cell(0, 0, 0)
Garbage == Cell(0, 0, 1)
Cells == {Cell(v, n, i) : v \in Version, n \in Chunk, i \in Chunk} \cup {Erased, Garbage}

\* An archive: the version, and the sizes of its images; an archive need not
\* have one for slot b.
Archive == [version : Version, a : Chunk, b : Chunk \cup {0}]
NoArchive == [version |-> 0, a |-> 0, b |-> 0]

-----------------------------------------------------------------------------
(* rcard_places *)

\* PlacesImage::parse of the first n chunks of a slot: the footer is there.
Parses(c, s, n) == n \in Chunk /\ c[s][n].version # 0 /\ c[s][n].size = n /\ c[s][n].at = n

\* checksum_valid: the whole image is there.
Intact(c, s, n) ==
    Parses(c, s, n) /\ \A i \in 1 .. n : c[s][i] = Cell(c[s][n].version, n, i)

\* A mutant: images are compared without their checksums.
select_firmware_Unchecked(c, n) ==
    LET newest == {s \in Slot : \A q \in Slot : c[s][n[s]].version >= c[q][n[q]].version}
    IN IF "a" \in newest THEN "a" ELSE "b"

\* select_firmware, for two slots that parse with sizes n[s].  Flash timestamps
\* are as the versions.
select_firmware(c, n) ==
    LET good == {s \in Slot : Intact(c, s, n[s])}
        newest == {s \in good : \A q \in good : c[s][n[s]].version >= c[q][n[q]].version}
    IN IF "a" \in newest THEN "a" ELSE IF "b" \in newest THEN "b" ELSE "none"

-----------------------------------------------------------------------------
(* Booting *)

ErasedTable == [loader |-> "none", loads |-> Erased, size |-> [s \in Slot |-> 0]]

\* bootloader_main: the slot it boots.  A slot whose table entry or footer is
\* missing is empty; one that is alone is not looked at any further.
bootloader_main ==
    LET found == {s \in Slot : Parses(cells, s, ftab.size[s])} IN
    IF found = Slot THEN select_firmware(cells, ftab.size)
    ELSE IF found = {} THEN "none" ELSE CHOOSE s \in found : TRUE

\* The boot ROM finds the boot loader by the table.
BootRom ==
    ftab # ErasedTable /\ cells[ftab.loader][LoaderChunk] = ftab.loads

-----------------------------------------------------------------------------
IdleHost == [pc |-> "idle", archive |-> NoArchive, read |-> {}, target |-> "none", i |-> 0]

TableFor(arch, target, c) ==
    [loader |-> target, loads |-> c[target][LoaderChunk],
     size |-> [s \in Slot |-> arch[s]]]

\* A device is blank, or has had both images of an archive installed.
Init ==
    /\ \/ /\ cells = [s \in Slot |-> [i \in Chunk |-> Erased]]
          /\ ftab = ErasedTable
       \/ \E arch \in Archive :
             /\ cells = [s \in Slot |-> [i \in Chunk |->
                            IF i <= arch[s] THEN Cell(arch.version, arch[s], i) ELSE Erased]]
             /\ ftab = TableFor(arch, "a", cells)
    /\ host = IdleHost
    /\ updates = 0
    /\ complete = FALSE

Go(pc) == host' = [host EXCEPT !.pc = pc, !.i = 1]

\* run_flash begins with an archive.
begin(arch) ==
    /\ host.pc = "idle" /\ updates < MaxUpdates
    /\ updates' = updates + 1
    /\ host' = [IdleHost EXCEPT !.pc = "read_a", !.archive = arch]
    /\ complete' = FALSE
    /\ UNCHANGED <<cells, ftab>>

\* read_partition and parse: the whole partition is read, and parsed as if the
\* image ended with it.  A failure to read counts as an empty slot.
ReadSlot(s) == Parses(cells, s, PartSize)

read_partition(s, pc, next) ==
    /\ host.pc = pc
    /\ \E ok \in {ReadSlot(s), FALSE} :
         host' = [host EXCEPT !.pc = next, !.read = IF ok THEN @ \cup {s} ELSE @]
    /\ UNCHANGED <<cells, ftab, updates, complete>>

\* The slot to write: the one that is not active, as far as they were read.
choose_target ==
    /\ host.pc = "choose"
    /\ LET active == IF host.read = Slot
                       THEN select_firmware(cells, [s \in Slot |-> PartSize])
                       ELSE IF host.read = {"a"} THEN "a" ELSE "none"
       IN host' = [host EXCEPT !.pc = "erase", !.i = 1,
                      !.target = IF active = "a" /\ host.archive.b # 0 THEN "b" ELSE "a"]
    /\ UNCHANGED <<cells, ftab, updates, complete>>

Size == host.archive[host.target]

\* A mutant: what is read back is not compared.
verify_Nothing ==
    /\ host.pc = "verify"
    /\ IF host.i < Size THEN host' = [host EXCEPT !.i = @ + 1] ELSE Go("erase_boot")
    /\ UNCHANGED <<cells, ftab, updates, complete>>

\* flash_partition of the firmware: erase what the image will cover ...
erase ==
    /\ host.pc = "erase"
    /\ cells' = [cells EXCEPT ![host.target][host.i] = Erased]
    /\ IF host.i < Size THEN host' = [host EXCEPT !.i = @ + 1] ELSE Go("program")
    /\ UNCHANGED <<ftab, updates, complete>>

\* ... program it chunk by chunk ...
program ==
    /\ host.pc = "program"
    /\ \E c \in {Cell(host.archive.version, Size, host.i), Garbage} :
         cells' = [cells EXCEPT ![host.target][host.i] = c]
    /\ IF host.i < Size THEN host' = [host EXCEPT !.i = @ + 1] ELSE Go("verify")
    /\ UNCHANGED <<ftab, updates, complete>>

\* ... and read it back.
verify ==
    /\ host.pc = "verify"
    /\ cells[host.target][host.i] = Cell(host.archive.version, Size, host.i)
    /\ IF host.i < Size THEN host' = [host EXCEPT !.i = @ + 1] ELSE Go("erase_boot")
    /\ UNCHANGED <<cells, ftab, updates, complete>>

\* flash_partition of the table: erased, programmed, verified.
erase_boot ==
    /\ host.pc = "erase_boot"
    /\ ftab' = ErasedTable
    /\ Go("program_boot")
    /\ UNCHANGED <<cells, updates, complete>>

program_boot ==
    /\ host.pc = "program_boot"
    /\ ftab' \in {TableFor(host.archive, host.target, cells), ErasedTable}
    /\ Go("verify_boot")
    /\ UNCHANGED <<cells, updates, complete>>

verify_boot ==
    /\ host.pc = "verify_boot"
    /\ ftab = TableFor(host.archive, host.target, cells)
    /\ Go("reset")
    /\ UNCHANGED <<cells, ftab, updates, complete>>

\* Device::reset and FlashComplete.
flash_complete ==
    /\ host.pc = "reset"
    /\ host' = IdleHost
    /\ complete' = TRUE
    /\ UNCHANGED <<cells, ftab, updates>>

\* FlashFailed: a call failed, the comparison failed, or power was cut.
flash_failed ==
    /\ host.pc # "idle"
    /\ host' = IdleHost
    /\ UNCHANGED <<cells, ftab, updates, complete>>

Next ==
    \/ \E arch \in Archive : begin(arch)
    \/ read_partition("a", "read_a", "read_b") \/ read_partition("b", "read_b", "choose")
    \/ choose_target
    \/ erase \/ program \/ verify \/ erase_boot \/ program_boot
    \/ verify_boot \/ flash_complete \/ flash_failed

Spec == Init /\ [][Next]_vars

-----------------------------------------------------------------------------
(* Properties. *)

TypeOK ==
    /\ cells \in [Slot -> [Chunk -> Cells]]
    /\ ftab \in {ErasedTable} \cup [loader : Slot, loads : Cells, size : [Slot -> Chunk \cup {0}]]
    /\ host \in [pc : {"idle", "read_a", "read_b", "choose", "erase", "program", "verify",
                      "erase_boot", "program_boot", "verify_boot", "reset"},
                 archive : Archive \cup {NoArchive}, read : SUBSET Slot,
                 target : Slot \cup {"none"}, i : 0 .. PartSize]
    /\ updates \in 0 .. MaxUpdates
    /\ complete \in BOOLEAN

\* Once an update is complete, a device that is switched on finds its boot
\* loader, and that boots an intact image, whatever earlier updates left in
\* either slot, and whatever sizes the table now gives for the slot that was
\* not written (run_flash, bootloader_main).
CompleteBoots ==
    complete => /\ BootRom /\ bootloader_main # "none"
                /\ Intact(cells, bootloader_main, ftab.size[bootloader_main])

\* While the slot that the boot loader does not come from is being written, a
\* device that loses power boots an intact image, if the other slot holds one:
\* half an image, or the end of a longer one that the erase did not reach, is
\* not preferred to it (flash_partition, select_firmware).
FallbackBoots ==
    /\ host.pc \in {"erase", "program", "verify", "erase_boot"}
    /\ ftab # ErasedTable /\ host.target # ftab.loader
    /\ Intact(cells, ftab.loader, ftab.size[ftab.loader])
    => /\ bootloader_main # "none"
       /\ Intact(cells, bootloader_main, ftab.size[bootloader_main])

\* "writes the new firmware to the *inactive* slot -- keeping the active one as
\* a fallback" (run_flash): the slot being written is not the one that the boot
\* loader would have booted.
WritesInactive ==
    [][host.pc = "choose" /\ host'.pc = "erase" /\ BootRom /\ host.archive.b # 0 =>
          host'.target # bootloader_main]_vars
=============================================================================
