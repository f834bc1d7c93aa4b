------------------------- MODULE FlashUpdateProofs -------------------------
(***************************************************************************)
(* What a device boots, during an update and after it, for partitions of   *)
(* any size, any versions and any number of updates.                       *)
(***************************************************************************)
EXTENDS FlashUpdate, TLAPS

\* Once the target has been chosen, it has an image, and a chunk is in hand.
Chosen == {"erase", "program", "verify", "erase_boot", "program_boot", "verify_boot", "reset"}

InHand ==
    /\ host.pc # "idle" => host.archive \in Archive
    /\ host.pc \in Chosen => host.target \in Slot /\ Size \in Chunk /\ host.i \in 1 .. Size

\* What the read-back has established.
Written(n) == \A j \in 1 .. n : cells[host.target][j] = Cell(host.archive.version, Size, j)

Verified ==
    /\ host.pc = "verify" => Written(host.i - 1)
    /\ host.pc \in {"erase_boot", "program_boot", "verify_boot", "reset"} => Written(Size)
    /\ host.pc = "reset" => ftab = TableFor(host.archive, host.target, cells)

\* The table leads to a boot loader, and names an intact image.
Bootable ==
    /\ ftab.loader \in Slot
    /\ cells[ftab.loader][LoaderChunk] = ftab.loads
    /\ Intact(cells, ftab.loader, ftab.size[ftab.loader])

Completed == complete => host.pc = "idle" /\ Bootable

IInv == TypeOK /\ InHand /\ Verified /\ Completed
-----------------------------------------------------------------------------
(* What the boot loader boots. *)

\* The version in the footer of an intact image is a number.
LEMMA VersionIsNumber ==
    ASSUME TypeOK, NEW s \in Slot, NEW i \in Chunk
    PROVE  cells[s][i].version \in Nat
  <1>1. cells[s][i] \in Cells
    BY DEF TypeOK
  <1> QED
    BY <1>1, FlashUpdateAssumption DEF Cells, Cell, Erased, Garbage

\* select_firmware returns an intact slot if there is one.
LEMMA SelectsIntact ==
    ASSUME TypeOK, NEW n \in [Slot -> Chunk], NEW s \in Slot, Intact(cells, s, n[s])
    PROVE  /\ select_firmware(cells, n) \in Slot
           /\ Intact(cells, select_firmware(cells, n), n[select_firmware(cells, n)])
  <1> DEFINE good == {r \in Slot : Intact(cells, r, n[r])}
             v(r) == cells[r][n[r]].version
             newest == {r \in good : \A q \in good : v(r) >= v(q)}
  <1>1. v("a") \in Nat /\ v("b") \in Nat
    BY VersionIsNumber DEF Slot
  <1>2. s \in good
    OBVIOUS
  <1>3. good \subseteq {"a", "b"}
    BY DEF Slot
  <1>4. "a" \in newest \/ "b" \in newest
    <2> HIDE DEF v, good
    <2>1. CASE "a" \in good /\ "b" \in good
      BY <1>1, <1>3, <2>1
    <2>2. CASE "a" \notin good
      BY <1>1, <1>2, <1>3, <2>2
    <2>3. CASE "b" \notin good
      BY <1>1, <1>2, <1>3, <2>3
    <2> QED
      BY <2>1, <2>2, <2>3
  <1>5. select_firmware(cells, n) = IF "a" \in newest THEN "a"
                                   ELSE IF "b" \in newest THEN "b" ELSE "none"
    BY Zenon DEF select_firmware
  <1>6. select_firmware(cells, n) \in newest
    BY <1>4, <1>5
  <1> QED
    BY <1>6

\* bootloader_main boots an intact image if the table names one.
LEMMA BootsIntact ==
    ASSUME TypeOK, NEW s \in Slot, ftab # ErasedTable, Intact(cells, s, ftab.size[s])
    PROVE  /\ bootloader_main \in Slot
           /\ Intact(cells, bootloader_main, ftab.size[bootloader_main])
  <1> DEFINE found == {r \in Slot : Parses(cells, r, ftab.size[r])}
  <1>1. s \in found
    BY DEF Intact
  <1>2. CASE found = Slot
    <2>1. ftab.size \in [Slot -> Chunk]
      <3>1. ftab.size \in [Slot -> Chunk \cup {0}]
        BY DEF TypeOK
      <3>2. \A r \in Slot : ftab.size[r] \in Chunk
        BY <1>2 DEF Parses
      <3> QED
        BY <3>1, <3>2
    <2>2. bootloader_main = select_firmware(cells, ftab.size)
      BY <1>2, Zenon DEF bootloader_main
    <2> QED
      BY <2>1, <2>2, SelectsIntact
  <1>3. CASE found # Slot
    <2>1. found = {s}
      BY <1>1, <1>3 DEF Slot
    <2>2. bootloader_main = CHOOSE r \in found : TRUE
      BY <1>3, <2>1, Zenon DEF bootloader_main
    <2>3. bootloader_main = s
      BY <2>1, <2>2
    <2> QED
      BY <2>3
  <1> QED
    BY <1>2, <1>3
-----------------------------------------------------------------------------
(* The invariant. *)

\* An image that has been read back, and the table made for it, are bootable.
LEMMA WrittenIsBootable ==
    ASSUME TypeOK, InHand, host.pc = "reset", Written(Size),
           ftab = TableFor(host.archive, host.target, cells)
    PROVE  Bootable
  <1>1. host.target \in Slot /\ Size \in Chunk /\ host.archive \in Archive
    BY DEF InHand, Chosen
  <1>2. ftab.loader = host.target /\ ftab.size[host.target] = Size
        /\ ftab.loads = cells[host.target][LoaderChunk]
    BY <1>1 DEF TableFor, Size
  <1>3. host.archive.version \in Nat \ {0}
    BY <1>1, FlashUpdateAssumption, ZenonT(30) DEF Archive
  <1>4. Size \in 1 .. Size
    BY <1>1, FlashUpdateAssumption DEF Chunk
  <1>5. cells[host.target][Size] = Cell(host.archive.version, Size, Size)
    BY <1>4 DEF Written
  <1>6. Intact(cells, host.target, Size)
    BY <1>1, <1>3, <1>5 DEF Intact, Parses, Cell, Written
  <1> QED
    BY <1>1, <1>2, <1>6 DEF Bootable

\* The chunk after the one in hand is a chunk of the image, until the last.
LEMMA NextChunk ==
    ASSUME TypeOK, InHand, host.pc \in Chosen
    PROVE  /\ host.target \in Slot /\ host.archive \in Archive
           /\ Size \in Chunk /\ host.i \in 1 .. Size /\ host.i \in Chunk
           /\ 1 \in 1 .. Size /\ 1 \in 0 .. PartSize
           /\ host.i < Size => host.i + 1 \in 1 .. Size /\ host.i + 1 \in 0 .. PartSize
  BY FlashUpdateAssumption DEF InHand, Chosen, Chunk

\* The cells that the update writes.
LEMMA WritesCells ==
    ASSUME TypeOK, InHand, host.pc \in Chosen
    PROVE  {Erased, Garbage, Cell(host.archive.version, Size, host.i)} \subseteq Cells
  <1>1. host.archive.version \in Version /\ Size \in Chunk /\ host.i \in Chunk
    BY NextChunk DEF Archive
  <1> QED
    BY <1>1 DEF Cells

\* The steps before anything is written, and the failure, keep the invariant.
LEMMA PlanKeeps ==
    ASSUME IInv,
           \/ \E arch \in Archive : begin(arch)
           \/ read_partition("a", "read_a", "read_b") \/ read_partition("b", "read_b", "choose")
           \/ choose_target \/ flash_failed
    PROVE  IInv'
  <1>0. 0 \in 0 .. PartSize /\ 1 \in 0 .. PartSize /\ 0 \notin Chunk
    BY FlashUpdateAssumption DEF Chunk
  <1>1. ASSUME NEW arch \in Archive, begin(arch) PROVE IInv'
    <2>1. /\ host' = [IdleHost EXCEPT !.pc = "read_a", !.archive = arch]
          /\ complete' = FALSE /\ UNCHANGED <<cells, ftab>>
      BY <1>1, ZenonT(30) DEF begin
    <2>2. updates' \in 0 .. MaxUpdates
      <3>1. updates \in 0 .. MaxUpdates /\ updates < MaxUpdates /\ updates' = updates + 1
        BY <1>1, ZenonT(30) DEF begin, IInv, TypeOK
      <3> QED
        BY <3>1, FlashUpdateAssumption
    <2>3. /\ host' \in [pc : {"read_a"}, archive : {arch}, read : {{}}, target : {"none"}, i : {0}]
          /\ host'.pc = "read_a" /\ host'.archive = arch
      BY <2>1, ZenonT(30) DEF IdleHost
    <2>4. TypeOK'
      BY <1>0, <2>1, <2>2, <2>3, ZenonT(30) DEF IInv, TypeOK
    <2> QED
      BY <2>1, <2>3, <2>4 DEF IInv, InHand, Chosen, Verified, Completed
  <1>2. ASSUME NEW q \in Slot, NEW pc \in {"read_a", "read_b"}, NEW next \in {"read_b", "choose"},
               read_partition(q, pc, next)
        PROVE  IInv'
    <2>1. /\ \E r \in SUBSET Slot : host' = [host EXCEPT !.pc = next, !.read = r]
          /\ host.pc # "idle" /\ UNCHANGED <<cells, ftab, updates, complete>>
      BY <1>2, ZenonT(30) DEF read_partition, IInv, TypeOK
    <2>2. TypeOK'
      BY <2>1, ZenonT(30) DEF IInv, TypeOK
    <2>3. host'.pc = next /\ host'.archive = host.archive
      BY <2>1 DEF IInv, TypeOK
    <2> QED
      BY <2>1, <2>2, <2>3 DEF IInv, InHand, Chosen, Verified, Completed
  <1>3. CASE choose_target
    <2>1. PICK g \in Slot : /\ host' = [host EXCEPT !.pc = "erase", !.i = 1, !.target = g]
                            /\ g = "b" => host.archive.b # 0
      BY <1>3, ZenonT(30) DEF choose_target, Slot
    <2>2. host.pc = "choose" /\ UNCHANGED <<cells, ftab, updates, complete>>
      BY <1>3 DEF choose_target
    <2>3. TypeOK'
      BY <1>0, <2>1, <2>2, ZenonT(30) DEF IInv, TypeOK
    <2>4. /\ host'.pc = "erase" /\ host'.archive = host.archive
          /\ host'.target = g /\ host'.i = 1 /\ host.archive \in Archive
      BY <2>1, <2>2 DEF IInv, TypeOK, InHand
    <2>5. host.archive[g] \in Chunk
      BY <2>1, <2>4 DEF Archive, Slot
    <2>6. Size' \in Chunk /\ 1 \in 1 .. Size'
      BY <2>4, <2>5, FlashUpdateAssumption DEF Size, Chunk
    <2> QED
      BY <2>2, <2>3, <2>4, <2>6 DEF IInv, InHand, Chosen, Verified, Completed
  <1>4. CASE flash_failed
    <2>1. host' = IdleHost /\ host.pc # "idle" /\ UNCHANGED <<cells, ftab, updates, complete>>
      BY <1>4 DEF flash_failed
    <2>2. TypeOK'
      BY <1>0, <2>1 DEF IInv, TypeOK, IdleHost
    <2> QED
      BY <2>1, <2>2 DEF IInv, IdleHost, InHand, Chosen, Verified, Completed
  <1> QED
    BY <1>1, <1>2, <1>3, <1>4 DEF Slot

\* The steps that write and read back the image keep the invariant: each
\* comparison that succeeds extends what is known to be there by one chunk.
LEMMA ImageKeeps ==
    ASSUME IInv, erase \/ program \/ verify
    PROVE  IInv'
  <1>1. host.pc \in {"erase", "program", "verify"} /\ host.pc \in Chosen /\ ~complete
    BY DEF erase, program, verify, Chosen, IInv, Completed
  <1>2. /\ host.target \in Slot /\ host.archive \in Archive
        /\ Size \in Chunk /\ host.i \in 1 .. Size /\ host.i \in Chunk
        /\ 1 \in 1 .. Size /\ 1 \in 0 .. PartSize
        /\ host.i < Size => host.i + 1 \in 1 .. Size /\ host.i + 1 \in 0 .. PartSize
    BY <1>1, NextChunk DEF IInv
  <1>3. UNCHANGED <<ftab, updates, complete>>
    BY DEF erase, program, verify
  <1>4. cells' \in [Slot -> [Chunk -> Cells]]
    <2>1. {Erased, Garbage, Cell(host.archive.version, Size, host.i)} \subseteq Cells
      BY <1>1, WritesCells DEF IInv
    <2> QED
      BY <1>2, <2>1 DEF erase, program, verify, IInv, TypeOK
  <1>5. ASSUME NEW pc \in {"program", "verify", "erase_boot"}, Go(pc)
        PROVE  /\ TypeOK' /\ host'.pc = pc /\ host'.i = 1
               /\ host'.archive = host.archive /\ host'.target = host.target
    BY <1>2, <1>3, <1>4, <1>5, ZenonT(30) DEF Go, IInv, TypeOK
  <1>6. ASSUME host.i < Size, host' = [host EXCEPT !.i = host.i + 1]
        PROVE  /\ TypeOK' /\ host'.pc = host.pc /\ host'.i = host.i + 1
               /\ host'.archive = host.archive /\ host'.target = host.target
    BY <1>2, <1>3, <1>4, <1>6, ZenonT(30) DEF IInv, TypeOK
  <1>7. ASSUME host'.archive = host.archive, host'.target = host.target
        PROVE  Size' = Size
    BY <1>7 DEF Size
  <1>8. CASE erase
    <2>1. host.pc = "erase"
      BY <1>8 DEF erase
    <2>2. CASE host.i < Size /\ host' = [host EXCEPT !.i = host.i + 1]
      BY <1>1, <1>2, <1>3, <1>6, <1>7, <2>1, <2>2 DEF IInv, InHand, Chosen, Verified, Completed
    <2>3. CASE Go("program")
      BY <1>1, <1>2, <1>3, <1>5, <1>7, <2>3 DEF IInv, InHand, Chosen, Verified, Completed
    <2> QED
      BY <1>8, <2>2, <2>3 DEF erase
  <1>9. CASE program
    <2>1. host.pc = "program"
      BY <1>9 DEF program
    <2>2. CASE host.i < Size /\ host' = [host EXCEPT !.i = host.i + 1]
      BY <1>1, <1>2, <1>3, <1>6, <1>7, <2>1, <2>2 DEF IInv, InHand, Chosen, Verified, Completed
    <2>3. CASE Go("verify")
      BY <1>1, <1>2, <1>3, <1>5, <1>7, <2>3
      DEF IInv, InHand, Chosen, Verified, Written, Completed
    <2> QED
      BY <1>9, <2>2, <2>3 DEF program
  <1>10. CASE verify
    <2>1. /\ host.pc = "verify" /\ UNCHANGED cells
          /\ cells[host.target][host.i] = Cell(host.archive.version, Size, host.i)
      BY <1>10 DEF verify
    <2>2. \A j \in 1 .. host.i : cells[host.target][j] = Cell(host.archive.version, Size, j)
      BY <1>2, <2>1 DEF IInv, Verified, Written, Chunk
    <2>3. CASE host.i < Size /\ host' = [host EXCEPT !.i = host.i + 1]
      <3>1. Written(host.i - 1)'
        <4>1. host'.i - 1 = host.i
          BY <1>2, <1>6, <2>3 DEF Chunk
        <4> QED
          BY <1>6, <1>7, <2>1, <2>2, <2>3, <4>1 DEF Written
      <3> QED
        BY <1>1, <1>2, <1>3, <1>6, <1>7, <2>1, <2>3, <3>1
        DEF IInv, InHand, Chosen, Verified, Completed
    <2>4. CASE ~(host.i < Size) /\ Go("erase_boot")
      <3>1. host.i = Size
        BY <1>2, <2>4 DEF Chunk
      <3>2. Written(Size)'
        BY <1>5, <1>7, <2>1, <2>2, <2>4, <3>1 DEF Written
      <3> QED
        BY <1>1, <1>2, <1>3, <1>5, <1>7, <2>4, <3>2
        DEF IInv, InHand, Chosen, Verified, Completed
    <2> QED
      BY <1>10, <2>3, <2>4 DEF verify
  <1> QED
    BY <1>8, <1>9, <1>10

\* The steps of the table keep the invariant, and the last makes it bootable.
LEMMA TableKeeps ==
    ASSUME IInv, erase_boot \/ program_boot \/ verify_boot \/ flash_complete
    PROVE  IInv'
  <1>1. /\ host.pc \in {"erase_boot", "program_boot", "verify_boot", "reset"}
        /\ host.pc \in Chosen /\ ~complete
    BY DEF erase_boot, program_boot, verify_boot, flash_complete, Chosen, IInv, Completed
  <1>2. /\ host.target \in Slot /\ host.archive \in Archive
        /\ Size \in Chunk /\ 1 \in 1 .. Size /\ 1 \in 0 .. PartSize
    BY <1>1, NextChunk DEF IInv
  <1>3. UNCHANGED <<cells, updates>>
    BY DEF erase_boot, program_boot, verify_boot, flash_complete
  <1>4. Written(Size)
    BY <1>1 DEF IInv, Verified
  <1>5. TableFor(host.archive, host.target, cells) \in
            [loader : Slot, loads : Cells, size : [Slot -> Chunk \cup {0}]]
    <2>1. cells[host.target][LoaderChunk] \in Cells
      BY <1>2, FlashUpdateAssumption DEF IInv, TypeOK, Chunk
    <2>2. \A q \in Slot : host.archive[q] \in Chunk \cup {0}
      BY <1>2 DEF Archive, Slot
    <2> QED
      BY <1>2, <2>1, <2>2 DEF TableFor
  <1>6. CASE flash_complete
    <2>1. host.pc = "reset" /\ host' = IdleHost /\ complete' = TRUE /\ UNCHANGED ftab
      BY <1>6 DEF flash_complete
    <2>2. Bootable
      BY <1>4, <2>1, WrittenIsBootable, SMTT(30) DEF IInv, Verified
    <2>3. Bootable'
      BY <1>3, <2>1, <2>2 DEF Bootable, Intact, Parses
    <2>4. 0 \in 0 .. PartSize
      BY FlashUpdateAssumption
    <2>5. TypeOK'
      BY <1>3, <2>1, <2>4 DEF IInv, TypeOK, IdleHost
    <2> QED
      BY <2>1, <2>3, <2>5 DEF IInv, InHand, Verified, Completed, IdleHost, Chosen
  <1>7. ASSUME NEW pc \in {"program_boot", "verify_boot", "reset"}, Go(pc), UNCHANGED complete,
               ftab' \in {ErasedTable, ftab, TableFor(host.archive, host.target, cells)},
               pc = "reset" => ftab' = TableFor(host.archive, host.target, cells)
        PROVE  IInv'
    <2>1. TypeOK'
      BY <1>2, <1>3, <1>5, <1>7, ZenonT(30) DEF Go, IInv, TypeOK
    <2>2. /\ host'.pc = pc /\ host'.i = 1
          /\ host'.archive = host.archive /\ host'.target = host.target
      BY <1>7 DEF Go, IInv, TypeOK
    <2>3. Size' = Size
      BY <2>2 DEF Size
    <2>4. Written(Size)'
      BY <1>3, <1>4, <2>2, <2>3 DEF Written
    <2>5. pc = "reset" => ftab' = TableFor(host'.archive, host'.target, cells')
      BY <1>3, <1>7, <2>2
    <2> QED
      BY <1>1, <1>2, <1>7, <2>1, <2>2, <2>3, <2>4, <2>5
      DEF IInv, InHand, Chosen, Verified, Completed
  <1>8. CASE erase_boot
    BY <1>7, <1>8 DEF erase_boot
  <1>9. CASE program_boot
    BY <1>7, <1>9 DEF program_boot
  <1>10. CASE verify_boot
    BY <1>7, <1>10 DEF verify_boot
  <1> QED
    BY <1>6, <1>8, <1>9, <1>10
-----------------------------------------------------------------------------
(* The theorems. *)

\* What is in the flash is what the read-back established, at every step of
\* every update, whatever failed before.
THEOREM FlashInvariant == Spec => []IInv
  <1>1. Init => IInv
    <2> SUFFICES ASSUME Init PROVE IInv
      OBVIOUS
    <2>0. 0 \in 0 .. PartSize /\ 0 \in 0 .. MaxUpdates
      BY FlashUpdateAssumption
    <2>1. cells \in [Slot -> [Chunk -> Cells]]
      <3>1. ASSUME NEW arch \in Archive, NEW q \in Slot, NEW i \in Chunk, i <= arch[q]
            PROVE  Cell(arch.version, arch[q], i) \in Cells
        <4>1. arch.version \in Version /\ arch[q] \in Chunk \cup {0}
          BY DEF Archive, Slot
        <4>2. arch[q] \in Chunk
          BY <3>1, <4>1, FlashUpdateAssumption DEF Chunk
        <4> QED
          BY <4>1, <4>2 DEF Cells
      <3>2. Erased \in Cells
        BY DEF Cells
      <3> QED
        BY <3>1, <3>2 DEF Init
    <2>2. ftab \in {ErasedTable} \cup [loader : Slot, loads : Cells, size : [Slot -> Chunk \cup {0}]]
      <3>1. ASSUME NEW arch \in Archive PROVE \A q \in Slot : arch[q] \in Chunk \cup {0}
        BY DEF Archive, Slot
      <3>2. cells["a"][LoaderChunk] \in Cells /\ "a" \in Slot
        BY <2>1, FlashUpdateAssumption DEF Chunk, Slot
      <3> QED
        BY <3>1, <3>2 DEF Init, TableFor
    <2>3. TypeOK
      BY <2>0, <2>1, <2>2, ZenonT(30) DEF Init, TypeOK, IdleHost
    <2> QED
      BY <2>3 DEF Init, IInv, IdleHost, InHand, Chosen, Verified, Completed
  <1>2. IInv /\ [Next]_vars => IInv'
    <2> SUFFICES ASSUME IInv, [Next]_vars PROVE IInv'
      BY SMTT(30)
    <2>1. CASE UNCHANGED vars
      BY <2>1 DEF vars, IInv, TypeOK, InHand, Size, Chosen, Verified, Written, Completed, Bootable,
                  Intact, Parses
    <2> QED
      BY <2>1, PlanKeeps, ImageKeeps, TableKeeps DEF Next
  <1> QED
    BY <1>1, <1>2, PTL DEF Spec

\* Whatever the size of the images, and whatever earlier updates left behind, a
\* device boots an intact image after a complete update.
THEOREM FlashCompleteBoots == Spec => []CompleteBoots
  <1>1. IInv => CompleteBoots
    <2> SUFFICES ASSUME IInv, complete
                 PROVE  /\ BootRom /\ bootloader_main # "none"
                        /\ Intact(cells, bootloader_main, ftab.size[bootloader_main])
      BY DEF CompleteBoots
    <2>1. Bootable
      BY DEF IInv, Completed
    <2>2. ftab # ErasedTable
      BY <2>1 DEF Bootable, ErasedTable, Slot
    <2>3. /\ bootloader_main \in Slot
          /\ Intact(cells, bootloader_main, ftab.size[bootloader_main])
      BY <2>1, <2>2, BootsIntact DEF IInv, Bootable
    <2> QED
      BY <2>1, <2>2, <2>3 DEF BootRom, Bootable, Slot
  <1> QED
    BY <1>1, FlashInvariant, PTL

\* As long as the slot of the boot loader is intact and not the one written, a
\* device that loses power during an update boots an intact image.
THEOREM FlashFallbackBoots == Spec => []FallbackBoots
  <1>1. IInv => FallbackBoots
    <2> SUFFICES ASSUME IInv, ftab # ErasedTable,
                        Intact(cells, ftab.loader, ftab.size[ftab.loader])
                 PROVE  /\ bootloader_main # "none"
                        /\ Intact(cells, bootloader_main, ftab.size[bootloader_main])
      BY DEF FallbackBoots
    <2>1. ftab.loader \in Slot
      BY DEF IInv, TypeOK
    <2>2. /\ bootloader_main \in Slot
          /\ Intact(cells, bootloader_main, ftab.size[bootloader_main])
      BY <2>1, BootsIntact DEF IInv
    <2> QED
      BY <2>2 DEF Slot
  <1> QED
    BY <1>1, FlashInvariant, PTL
=============================================================================
