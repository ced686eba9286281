---------------------------- MODULE MCEptManager ----------------------------
(***************************************************************************)
(* Model-checking instance of EptManager: 2 PDPT entries x 2 PD entries x *)
(* 2 PT entries (4 regions of 2 pages, 8 guest pages) and 3 PT tables, so *)
(* pt[0] backs region 0 and two more regions of each Ept can be split.    *)
(***************************************************************************)
EXTENDS EptManager

UC == 0  \* MemoryType::Uncacheable
WB == 6  \* MemoryType::WriteBack

\* Firmware MTRR layouts: write-back with an uncacheable first page (inside
\* the 4KB-mapped region 0); a region 2 that mixes types, which Mtrr::find
\* cannot classify as one 2MB page.
MCMtrrLayouts ==
    { [g \in Pages |-> IF g = 0 THEN UC ELSE WB],
      [g \in Pages |-> IF g = 5 THEN UC ELSE WB] }

RW  == {"R", "W"}
X   == {"X"}
RWX == {"R", "W", "X"}
MCAccesses == {RW, X, RWX}

=============================================================================
