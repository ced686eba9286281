----------------------------- MODULE MCEptHiding -----------------------------
(***************************************************************************)
(* Model-checking instance of EptHiding: the 8-page geometry of           *)
(* MCEptManager, two processors, page 3 (region 1, PTE 1) hooked through   *)
(* pt[1] and shadowed by host frame 40, and guest instructions that fetch  *)
(* from the hooked page or from page 1 and read, write or leave alone the *)
(* hooked page or page 5.                                                  *)
(***************************************************************************)
EXTENDS EptHiding

UC == 0  \* MemoryType::Uncacheable
WB == 6  \* MemoryType::WriteBack
MCMtrr == [g \in Pages |-> IF g = 0 THEN UC ELSE WB]
\* The hooked page's 2MB region uncacheable: split_2mb_to_4kb then copies
\* memory type 0 into the PDE that references the new PT (paging.rs:177),
\* so that PDE has no reserved bit set.
UcHookMtrr == [g \in Pages |-> IF g = 0 \/ RegionOfPage(g) = RegionOfPage(Hooked) THEN UC ELSE WB]

MCRW == {"R", "W"}

AllInstrs == [fetch : {1, Hooked}, data : {Hooked, 5}, kind : {"R", "W", "none"}]
\* Instructions that do not both run from and touch the hooked page.
SeparateInstrs == {i \in AllInstrs : ~(i.fetch = Hooked /\ i.data = Hooked /\ i.kind # "none")}

\* Reads only, and one instruction per fetch page that makes no data
\* access: with DataAccess = {"R", "W"} a write faults and swaps exactly as
\* a read does, and the data page of a "none" instruction is never used.
ReadInstrs == {i \in SeparateInstrs : i.kind = "R" \/ (i.kind = "none" /\ i.data = 5)}

\* The instructions of ReadInstrs that touch the hooked page; the others
\* use pages of regions the hook never edits and cannot fault.
HookInstrs == {i \in ReadInstrs : i.fetch = Hooked \/ (i.kind # "none" /\ i.data = Hooked)}

=============================================================================
