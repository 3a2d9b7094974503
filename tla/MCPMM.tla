------------------------------- MODULE MCPMM -------------------------------
(***************************************************************************)
(* Instances of PMM for TLC.                                               *)
(***************************************************************************)
EXTENDS PMM

Usable(base, length) == [base |-> base, length |-> length, type |-> TYPE_USABLE]
Reserved(base, length) == [base |-> base, length |-> length, type |-> TYPE_RESERVED]
ACPI(base, length) == [base |-> base, length |-> length, type |-> 3]
Bad(base, length) == [base |-> base, length |-> length, type |-> 5]

(* The answers of the BIOS for a map; and those of one that reports, before  *)
(* it, an entry that is not to be used and an empty one.                     *)
Answer(e, valid) ==
  [base |-> e.base, length |-> e.length, type |-> e.type, size |-> 24, valid |-> valid]
WithAnswers(map) == [i \in 1 .. Len(map) |-> Answer(map[i], TRUE)]
WithSkipped(map) ==
  <<Answer(Usable(480, 16), FALSE), Answer(Reserved(16, 0), TRUE)>> \o WithAnswers(map)

(* What lies at address 0 is the table of real mode interrupt vectors:       *)
(* numbers above every address.                                              *)
InterruptVectors ==
  {[prev |-> NULL, next |-> NULL, start |-> W - 1, pages |-> W - 1, free |-> W - 1]}

(* All calls, on a few pages: the first region behind a used one or behind   *)
(* the first megabyte; pages of 16 bytes.                                    *)
AllCalls == {"alloc", "free", "lock"}
SmallLast == Usable(128, 32)
SmallMaps == {WithAnswers(map) : map \in {
   <<Usable(0, 16), Reserved(16, 16), Usable(32, 64)>>,
   <<Usable(0, 16), Usable(16, 64), Bad(80, 16)>>}}

(* What the kernel does, on maps like those of emulators and PCs: the first  *)
(* megabyte (8 pages of 16 bytes) is usable up to the middle of a page, then *)
(* reserved; memory from there to a hole below 4 GB, at 512.                 *)
KernelCalls == {"alloc", "dump"}
KernelLast == Usable(512, 128)
KernelMaps == {WithSkipped(map) : map \in {
   <<Usable(0, 76), Reserved(76, 4), Reserved(112, 16), Usable(128, 160),
     Reserved(288, 32), Reserved(480, 32)>>,
   <<Usable(0, 80), Reserved(80, 48), Usable(128, 144), ACPI(272, 16),
     Bad(288, 32), Reserved(480, 32), Reserved(1024, 32)>>,
   <<Usable(0, 128), ACPI(144, 16), Usable(160, 128), ACPI(288, 32),
     Usable(320, 96), Reserved(416, 64)>>}}

(* The kernel's calls on a map with a hole at 15 MB: the table is too long   *)
(* for the memory below it.                                                  *)
HoleMaps == {WithAnswers(map) : map \in {
   <<Usable(0, 76), Reserved(76, 4), Reserved(112, 16), Usable(128, 32),
     Usable(192, 160), Reserved(352, 32)>>}}

(* The maps are as FreeUsable needs them.                                    *)
ASSUME MapsAreTidy == TidyMaps
=============================================================================
