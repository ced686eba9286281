------------------------------ MODULE EptTables ------------------------------
(***************************************************************************)
(* The Extended Page Table structure of hypervisor/src/intel/ept/paging.rs *)
(* (struct Ept) and its algorithms, as operators over one Ept value.       *)
(*                                                                         *)
(* An Ept value is a record: the frame its box lives at (home), PML4 entry *)
(* 0 (the only one the code touches), the PDPT, the PD tables and the PT   *)
(* tables.  An entry keeps the bitfield fields the code reads or writes:   *)
(* readable, writable, executable, memory_type, large and pfn (the two     *)
(* verification bits 57/58 are never set by the code and are left out).   *)
(* The geometry is scaled down: PdptEntries, PdEntries and PtEntries stand *)
(* for 512 and PtCount for 64; BasePageSize keeps the real 4096, so        *)
(* addresses, alignment checks and index extraction are those of the code. *)
(*                                                                         *)
(* Every operation returns [res |-> result code, ept |-> new Ept value].   *)
(* Translate is the processor's walk of the structure (Intel SDM 29.3.2),  *)
(* the environment the code writes for; it is not code of the repository. *)
(***************************************************************************)
EXTENDS Integers, FiniteSets, FiniteSetsExt, Sequences

CONSTANTS
    BasePageSize,   \* BASE_PAGE_SIZE
    PdptEntries,    \* PDPT entries walked, = number of PD tables (512 in the code)
    PdEntries,      \* entries of a PD table (512 in the code)
    PtEntries,      \* entries of a PT table (512 in the code)
    PtCount,        \* length of the pt array (64 in the code)
    NoType          \* model value: Mtrr::find classified nothing (None)

ASSUME /\ BasePageSize \in Nat \ {0}
       /\ \A n \in {PdptEntries, PdEntries, PtEntries} : n \in Nat \ {0}
       /\ PtCount \in 2 .. 64

LargePageSize == BasePageSize * PtEntries
\* 2MB regions, numbered in the order build_identity walks their PD entries.
Regions == 0 .. (PdptEntries * PdEntries - 1)
Pages == 0 .. (PdptEntries * PdEntries * PtEntries - 1)
PtIndices == 0 .. (PtCount - 1)
RegionOfPage(g) == g \div PtEntries
PagesOfRegion(r) == {g \in Pages : RegionOfPage(g) = r}

\* The x86 crate's index extraction: (va >> shift) & 0x1ff.
PtIndex(a) == (a \div BasePageSize) % PtEntries
PdIndex(a) == (a \div LargePageSize) % PdEntries
PdptIndex(a) == (a \div (LargePageSize * PdEntries)) % PdptEntries
Pfn(pa) == pa \div BasePageSize
IsBaseAligned(a) == a % BasePageSize = 0
IsLargeAligned(a) == a % LargePageSize = 0

\* Frames of the tables of an Ept boxed at frame home: #[repr(C)] lays out
\* pml4, pdpt, pd[..], pt[..] as consecutive 4KB tables.
PdptFrame(home) == home + 1
PdFrame(home, i) == home + 2 + i
PtFrame(home, k) == home + 2 + PdptEntries + k

ZeroEntry == [r |-> FALSE, w |-> FALSE, x |-> FALSE, mt |-> 0, large |-> FALSE, pfn |-> 0]
EntryType == [r : BOOLEAN, w : BOOLEAN, x : BOOLEAN, mt : 0 .. 7, large : BOOLEAN, pfn : Nat]

\* box_zeroed::<Ept>() at frame home.
ZeroEpt(home) ==
    [home  |-> home,
     pml4e |-> ZeroEntry,
     pdpt  |-> [i \in 0 .. PdptEntries - 1 |-> ZeroEntry],
     pd    |-> [i \in 0 .. PdptEntries - 1 |-> [j \in 0 .. PdEntries - 1 |-> ZeroEntry]],
     pt    |-> [k \in PtIndices |-> [p \in 0 .. PtEntries - 1 |-> ZeroEntry]]]

\* AccessType flags as sets of "R", "W", "X"; set_readable(contains(READ)) ...
WithAccess(e, acc) == [e EXCEPT !.r = "R" \in acc, !.w = "W" \in acc, !.x = "X" \in acc]
\* A table-pointer entry: full permissions and the pfn of the table.
PointTo(e, frame) == [e EXCEPT !.r = TRUE, !.w = TRUE, !.x = TRUE, !.pfn = frame]
\* A 4KB leaf as build_identity and split write it (large is left alone).
Leaf4k(e, mt, frame) == [PointTo(e, frame) EXCEPT !.mt = mt]

Ok(ept) == [res |-> "Ok", ept |-> ept]
Reject(ept, err) == [res |-> err, ept |-> ept]
ValidPtIndex(k) == k # 0 /\ k < PtCount

(***************************************************************************)
(* Mtrr::find(range), the external memory-type resolver (mtrr.rs is not   *)
(* part of the sources): the one type the range has, NoType when the       *)
(* range mixes types or lies where no type is known.                       *)
(***************************************************************************)
MtrrFind(mtrr, start, len) ==
    LET types == {mtrr[g] : g \in (start \div BasePageSize) .. ((start + len) \div BasePageSize - 1)}
    IN IF Cardinality(types) = 1 THEN CHOOSE t \in types : TRUE ELSE NoType

(***************************************************************************)
(* build_identity.  The loop makes its Mtrr::find queries in a fixed order:*)
(* PtEntries 4KB queries while filling pt[0] for region 0, then one 2MB    *)
(* query per later PD entry.  pa is one cursor for the whole walk, so      *)
(* region n starts at n * LargePageSize.  The `?` returns at the first     *)
(* query that fails, leaving what was written before it in place: a PDPT   *)
(* entry is written before its PDs' queries, region 0's PDE before its     *)
(* PTEs' queries, every leaf only after its own query.                     *)
(***************************************************************************)
IdentityQueries == 0 .. (PtEntries + PdptEntries * PdEntries - 2)
IdentityQuery(q) ==
    IF q < PtEntries THEN <<q * BasePageSize, BasePageSize>>
    ELSE <<(q - PtEntries + 1) * LargePageSize, LargePageSize>>
QueryOfRegion(n) == IF n = 0 THEN 0 ELSE PtEntries - 1 + n
QueryType(mtrr, q) == MtrrFind(mtrr, IdentityQuery(q)[1], IdentityQuery(q)[2])
FirstUnresolved(mtrr) ==
    LET bad == {q \in IdentityQueries : QueryType(mtrr, q) = NoType}
    IN IF bad = {} THEN Cardinality(IdentityQueries) ELSE Min(bad)

\* The tables build_identity leaves when its walk stops before query stop.
IdentityTables(ept, mtrr, stop) ==
    LET h == ept.home
        Pde(i, j) ==
            LET n == i * PdEntries + j
            IN IF n = 0 THEN PointTo(ept.pd[i][j], PtFrame(h, 0))
               ELSE IF QueryOfRegion(n) < stop
                    THEN [PointTo(ept.pd[i][j], Pfn(n * LargePageSize))
                             EXCEPT !.mt = QueryType(mtrr, QueryOfRegion(n)), !.large = TRUE]
                    ELSE ept.pd[i][j]
    IN [ept EXCEPT
          !.pml4e = PointTo(@, PdptFrame(h)),
          !.pdpt = [i \in DOMAIN @ |->
                      IF QueryOfRegion(i * PdEntries) <= stop
                      THEN PointTo(@[i], PdFrame(h, i)) ELSE @[i]],
          !.pd = [i \in DOMAIN @ |-> [j \in DOMAIN @[i] |-> Pde(i, j)]],
          !.pt[0] = [p \in DOMAIN @ |->
                       IF p < stop
                       THEN Leaf4k(@[p], QueryType(mtrr, p), Pfn(p * BasePageSize))
                       ELSE @[p]]]

\* Mutant: the `?` after Mtrr::find dropped, an unresolved type stored as is.
BuildIdentityNoEarlyReturn(ept, mtrr) ==
    Ok(IdentityTables(ept, mtrr, Cardinality(IdentityQueries)))

BuildIdentity(ept, mtrr) ==
    LET stop == FirstUnresolved(mtrr)
        new == IdentityTables(ept, mtrr, stop)
    IN IF stop = Cardinality(IdentityQueries) THEN Ok(new)
       ELSE Reject(new, "MemoryTypeResolutionError")

\* Mutant: the reset clears only the readable bit.
Unmap2mbReadableOnly(e) == IF ~e.r THEN e ELSE [e EXCEPT !.r = FALSE]

\* unmap_2mb (and unmap_4kb, which delegates to it): an entry that is not
\* readable is taken to be not present and left alone.
Unmap2mb(e) == IF ~e.r THEN e ELSE ZeroEntry

\* Mutant: every new PTE gets the PFN of guest_pa, the + i * 4KB dropped.
SplitTablesSameFrame(ept, guestPa, k, mt) ==
    [ept EXCEPT
       !.pt[k] = [p \in DOMAIN @ |-> Leaf4k(@[p], mt, Pfn(guestPa))],
       !.pd[PdptIndex(guestPa)][PdIndex(guestPa)] =
           [PointTo(Unmap2mb(@), PtFrame(ept.home, k)) EXCEPT !.mt = mt, !.large = FALSE]]

\* The loop over pt[k] and the PDE update of split_2mb_to_4kb, stamping mt.
SplitTables(ept, guestPa, k, mt) ==
    LET i == PdptIndex(guestPa)
        j == PdIndex(guestPa)
    IN [ept EXCEPT
          !.pt[k] = [p \in DOMAIN @ |-> Leaf4k(@[p], mt, Pfn(guestPa + p * BasePageSize))],
          !.pd[i][j] = [PointTo(Unmap2mb(@), PtFrame(ept.home, k))
                          EXCEPT !.mt = mt, !.large = FALSE]]

\* Mutant: the memory type read after unmap_2mb has reset the PDE.
SplitLargeTypeAfterUnmap(ept, guestPa, k) ==
    LET pde == ept.pd[PdptIndex(guestPa)][PdIndex(guestPa)]
    IN CASE ~ValidPtIndex(k) -> Reject(ept, "InvalidPtIndex")
         [] ~pde.large -> Reject(ept, "PageAlreadySplit")
         [] OTHER -> Ok(SplitTables(ept, guestPa, k, Unmap2mb(pde).mt))

\* Mutant: unmap_2mb called before the large-page check.
SplitLargeUnmapFirst(ept, guestPa, k) ==
    LET pde == ept.pd[PdptIndex(guestPa)][PdIndex(guestPa)]
        cleared == [ept EXCEPT !.pd[PdptIndex(guestPa)][PdIndex(guestPa)] = Unmap2mb(@)]
    IN CASE ~ValidPtIndex(k) -> Reject(ept, "InvalidPtIndex")
         [] ~pde.large -> Reject(cleared, "PageAlreadySplit")
         [] OTHER -> Ok(SplitTables(ept, guestPa, k, pde.mt))

\* split_2mb_to_4kb(guest_pa, pt_table_index).
SplitLarge(ept, guestPa, k) ==
    LET pde == ept.pd[PdptIndex(guestPa)][PdIndex(guestPa)]
    IN CASE ~ValidPtIndex(k) -> Reject(ept, "InvalidPtIndex")
         [] ~pde.large -> Reject(ept, "PageAlreadySplit")
         [] OTHER -> Ok(SplitTables(ept, guestPa, k, pde.mt))

\* modify_page_permissions(guest_pa, access_type, pt_table_index).
ModifyPagePermissions(ept, guestPa, acc, k) ==
    LET i == PdptIndex(guestPa)
        j == PdIndex(guestPa)
    IN CASE ~ValidPtIndex(k) -> Reject(ept, "InvalidPtIndex")
         [] ~IsLargeAligned(guestPa) /\ ~IsBaseAligned(guestPa) ->
              Reject(ept, "UnalignedAddressError")
         [] ept.pd[i][j].large -> Ok([ept EXCEPT !.pd[i][j] = WithAccess(@, acc)])
         [] OTHER -> Ok([ept EXCEPT !.pt[k][PtIndex(guestPa)] = WithAccess(@, acc)])

\* Mutant: the PFN set to host_pa itself, without the >> BASE_PAGE_SHIFT.
RemapGpaToHpaUnshifted(ept, guestPa, hostPa, k) ==
    LET i == PdptIndex(guestPa)
        j == PdIndex(guestPa)
    IN CASE ~ValidPtIndex(k) -> Reject(ept, "InvalidPtIndex")
         [] ~IsBaseAligned(guestPa) \/ ~IsBaseAligned(hostPa) ->
              Reject(ept, "UnalignedAddressError")
         [] ept.pd[i][j].large -> Reject(ept, "LargePageRemapError")
         [] OTHER -> Ok([ept EXCEPT !.pt[k][PtIndex(guestPa)].pfn = hostPa])

\* remap_gpa_to_hpa(guest_pa, host_pa, pt_table_index).
RemapGpaToHpa(ept, guestPa, hostPa, k) ==
    LET i == PdptIndex(guestPa)
        j == PdIndex(guestPa)
    IN CASE ~ValidPtIndex(k) -> Reject(ept, "InvalidPtIndex")
         [] ~IsBaseAligned(guestPa) \/ ~IsBaseAligned(hostPa) ->
              Reject(ept, "UnalignedAddressError")
         [] ept.pd[i][j].large -> Reject(ept, "LargePageRemapError")
         [] OTHER -> Ok([ept EXCEPT !.pt[k][PtIndex(guestPa)].pfn = Pfn(hostPa)])

(***************************************************************************)
(* The processor's walk (SDM 29.3.2): follow each present entry's pfn to   *)
(* the next table of this Ept, stop at a large PDE or at the PTE.  The     *)
(* permissions are the AND over the levels; the frame and memory type come *)
(* from the leaf.  An absent level or a pointer to no table gives Unmapped.*)
(***************************************************************************)
Unmapped == [mapped |-> FALSE, acc |-> {}, frame |-> 0, mt |-> 0]
Present(e) == e.r \/ e.w \/ e.x
AccessOf(e) ==
    {f \in {"R", "W", "X"} : (f = "R" /\ e.r) \/ (f = "W" /\ e.w) \/ (f = "X" /\ e.x)}

Translate(ept, g) ==
    LET a == g * BasePageSize
        h == ept.home
        l4 == ept.pml4e
        l3 == ept.pdpt[PdptIndex(a)]
        i == l3.pfn - PdFrame(h, 0)
        l2 == ept.pd[i][PdIndex(a)]
        k == l2.pfn - PtFrame(h, 0)
        leaf == IF l2.large THEN l2 ELSE ept.pt[k][PtIndex(a)]
        frame == IF l2.large THEN (l2.pfn - (l2.pfn % PtEntries)) + PtIndex(a) ELSE leaf.pfn
    IN IF \/ ~Present(l4) \/ l4.pfn # PdptFrame(h)
          \/ ~Present(l3) \/ i \notin DOMAIN ept.pd
          \/ ~Present(l2) \/ (~l2.large /\ k \notin PtIndices)
          \/ ~Present(leaf)
       THEN Unmapped
       ELSE [mapped |-> TRUE,
             acc    |-> AccessOf(l4) \cap AccessOf(l3) \cap AccessOf(l2) \cap AccessOf(leaf),
             frame  |-> frame,
             mt     |-> leaf.mt]

\* The entries the walk for page g reads, root first, as far as the tables
\* the pointers name exist.
WalkEntries(ept, g) ==
    LET a == g * BasePageSize
        l3 == ept.pdpt[PdptIndex(a)]
        i == l3.pfn - PdFrame(ept.home, 0)
        l2 == ept.pd[i][PdIndex(a)]
        k == l2.pfn - PtFrame(ept.home, 0)
    IN IF i \notin DOMAIN ept.pd THEN <<ept.pml4e, l3>>
       ELSE IF l2.large \/ k \notin PtIndices THEN <<ept.pml4e, l3, l2>>
       ELSE <<ept.pml4e, l3, l2, ept.pt[k][PtIndex(a)]>>

\* SDM 29.3.3.1: before reaching an entry that is not present, the walk
\* for page g meets one that allows writes but not reads, or a present
\* entry that references a table (PML4E, PDPTE, PDE without large) with
\* its reserved bits 6:3, where a leaf keeps its memory type, not zero.
ReferencesTable(w, n) == n <= 2 \/ (n = 3 /\ ~w[n].large)
Misconfigured(ept, g) ==
    LET w == WalkEntries(ept, g)
    IN \E n \in 1 .. Len(w) :
          /\ \/ w[n].w /\ ~w[n].r
             \/ Present(w[n]) /\ ReferencesTable(w, n) /\ w[n].mt # 0
          /\ \A m \in 1 .. n - 1 : Present(w[m])

\* What the Ept maps, page by page.
View(ept) == [g \in Pages |-> Translate(ept, g)]

=============================================================================
