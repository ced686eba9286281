----------------------------- MODULE EptManager -----------------------------
(***************************************************************************)
(* The primary and secondary Ept of driver/src/main.rs from allocation to *)
(* runtime edits.  main() zaps relocations, allocates both Epts zeroed,    *)
(* identity-maps the primary and then the secondary, and starts the        *)
(* hypervisor on all processors, returning ABORTED at the first failure.  *)
(* Once running, a caller (the hook code that owns the pt indices; it is  *)
(* not in the sources) calls split_2mb_to_4kb, modify_page_permissions    *)
(* and remap_gpa_to_hpa on either Ept, one call at a time (spec.md 5: the *)
(* surrounding system serialises structural mutations).                   *)
(*                                                                         *)
(* The caller's inputs come from small constant sets.  Two switches say   *)
(* whether it keeps the documented discipline:                             *)
(*   KeepPtOwnership: it passes a pt index only to the 2MB region it split *)
(*     with that index, and splits with an index no region holds yet;     *)
(*   SplitBeforeModify: it splits a region only while the 2MB page still   *)
(*     has its identity-map permissions.                                  *)
(***************************************************************************)
EXTENDS EptTables

CONSTANTS
    Primary, Secondary,         \* model values naming the two Epts
    PrimaryHome, SecondaryHome, \* frames their boxes were allocated at
    MtrrLayouts,                \* MTRR layouts the firmware may leave: [Pages -> types]
    Accesses,                   \* AccessType values the caller passes
    SplitAddrs,                 \* guest_pa values passed to split_2mb_to_4kb
    PermAddrs,                  \* guest_pa values passed to modify_page_permissions
    RemapAddrs,                 \* guest_pa values passed to remap_gpa_to_hpa
    HostAddrs,                  \* host_pa values passed to remap_gpa_to_hpa
    MaxCalls,                   \* bound on the number of runtime calls
    KeepPtOwnership,
    SplitBeforeModify,
    NoRegion                    \* model value: pt index not handed to any region

Epts == {Primary, Secondary}
Home == [e \in Epts |-> IF e = Primary THEN PrimaryHome ELSE SecondaryHome]

ASSUME /\ MaxCalls \in Nat
       /\ Accesses \subseteq SUBSET {"R", "W", "X"}
       /\ KeepPtOwnership \in BOOLEAN /\ SplitBeforeModify \in BOOLEAN

VARIABLES
    phase,    \* where main() is, or "running" once the hypervisor started
    mtrr,     \* the MTRR layout Mtrr::new() reads
    ept,      \* ept[e]: the Ept value of e
    built,    \* built[e]: build_identity returned Ok for e (history)
    ptOwner,  \* ptOwner[e][k]: region the caller gave pt[k] of e (caller state)
    calls,    \* runtime calls made so far
    call      \* the last call on an Ept: [op, ept, addr, acc, host, res]

vars == <<phase, mtrr, ept, built, ptOwner, calls, call>>

Results == {"Ok", "InvalidPtIndex", "PageAlreadySplit", "UnalignedAddressError",
            "LargePageRemapError", "MemoryTypeResolutionError", "None"}

CallRecord(op, e, a, acc, h, res) ==
    [op |-> op, ept |-> e, addr |-> a, acc |-> acc, host |-> h, res |-> res]

RegionOfAddr(a) == PdptIndex(a) * PdEntries + PdIndex(a)

Init ==
    /\ phase = "init"
    /\ mtrr \in MtrrLayouts
    /\ ept = [e \in Epts |-> ZeroEpt(Home[e])]
    /\ built = [e \in Epts |-> FALSE]
    /\ ptOwner = [e \in Epts |-> [k \in PtIndices |-> IF k = 0 THEN 0 ELSE NoRegion]]
    /\ calls = 0
    /\ call = CallRecord("none", Primary, 0, {}, 0, "None")

(* main(): uefi_services::init(..).unwrap() either succeeds or panics; the *)
(* panic handler logs and loops forever, so main never returns.           *)
UefiInit ==
    /\ phase = "init"
    /\ phase' \in {"zap", "panicked"}
    /\ UNCHANGED <<mtrr, ept, built, ptOwner, calls, call>>

(* main(): zap_relocations either fails (ABORTED) or lets main go on to    *)
(* allocate the two zeroed Epts (done in Init) and identity-map them.      *)
ZapRelocations ==
    /\ phase = "zap"
    /\ phase' \in {"build_primary", "aborted"}
    /\ UNCHANGED <<mtrr, ept, built, ptOwner, calls, call>>

\* primary_ept.build_identity() then secondary_ept.build_identity().
BuildIdentityStep(e, at, next) ==
    LET out == BuildIdentity(ept[e], mtrr)
    IN /\ phase = at
       /\ ept' = [ept EXCEPT ![e] = out.ept]
       /\ built' = [built EXCEPT ![e] = out.res = "Ok"]
       /\ phase' = IF out.res = "Ok" THEN next ELSE "aborted"
       /\ call' = CallRecord("build", e, 0, {}, 0, out.res)
       /\ UNCHANGED <<mtrr, ptOwner, calls>>

\* start_hypervisor_on_all_processors: SUCCESS, or ABORTED when it fails.
StartHypervisor ==
    /\ phase = "start"
    /\ phase' \in {"running", "aborted"}
    /\ UNCHANGED <<mtrr, ept, built, ptOwner, calls, call>>

(* The pt_table_index the caller passes for an edit of address a of e:    *)
(* the rejected 0 and PtCount, and either any index or, when it keeps the *)
(* ownership, the index it split the region with (any valid one while the *)
(* region is unsplit; region 0 holds pt[0], which the callee refuses).     *)
EditIndices(e, a) ==
    LET owned == {k \in PtIndices : ptOwner[e][k] = RegionOfAddr(a)}
    IN {0, PtCount} \cup
       (IF ~KeepPtOwnership THEN PtIndices
        ELSE IF owned = {} THEN PtIndices \ {0} ELSE owned)
SplitIndices(e) ==
    {0, PtCount} \cup
    (IF ~KeepPtOwnership THEN PtIndices
     ELSE {k \in PtIndices : ptOwner[e][k] = NoRegion})

Call(op, e, a, acc, h, out) ==
    /\ ept' = [ept EXCEPT ![e] = out.ept]
    /\ call' = CallRecord(op, e, a, acc, h, out.res)
    /\ calls' = calls + 1

Running == phase = "running" /\ calls < MaxCalls

Split(e, a, k) ==
    LET out == SplitLarge(ept[e], a, k)
        pde == ept[e].pd[PdptIndex(a)][PdIndex(a)]
    IN /\ Running
       /\ SplitBeforeModify => (pde.r /\ pde.w /\ pde.x)
       /\ Call("split", e, a, {}, 0, out)
       /\ ptOwner' = IF out.res = "Ok"
                     THEN [ptOwner EXCEPT ![e][k] = RegionOfAddr(a)] ELSE ptOwner
       /\ UNCHANGED <<phase, mtrr, built>>

ModifyPermissions(e, a, acc, k) ==
    /\ Running
    /\ Call("modify", e, a, acc, 0, ModifyPagePermissions(ept[e], a, acc, k))
    /\ UNCHANGED <<phase, mtrr, built, ptOwner>>

Remap(e, a, h, k) ==
    /\ Running
    /\ Call("remap", e, a, {}, h, RemapGpaToHpa(ept[e], a, h, k))
    /\ UNCHANGED <<phase, mtrr, built, ptOwner>>

Next ==
    \/ UefiInit
    \/ ZapRelocations
    \/ BuildIdentityStep(Primary, "build_primary", "build_secondary")
    \/ BuildIdentityStep(Secondary, "build_secondary", "start")
    \/ StartHypervisor
    \/ \E e \in Epts :
         \/ \E a \in SplitAddrs, k \in SplitIndices(e) : Split(e, a, k)
         \/ \E a \in PermAddrs, acc \in Accesses :
                \E k \in EditIndices(e, a) : ModifyPermissions(e, a, acc, k)
         \/ \E a \in RemapAddrs, h \in HostAddrs :
                \E k \in EditIndices(e, a) : Remap(e, a, h, k)

Spec == Init /\ [][Next]_vars

-----------------------------------------------------------------------------

TypeOK ==
    /\ phase \in {"init", "panicked", "zap", "build_primary", "build_secondary", "start", "running", "aborted"}
    /\ mtrr \in MtrrLayouts
    /\ \A e \in Epts :
         /\ ept[e].home = Home[e]
         /\ ept[e].pml4e \in EntryType
         /\ ept[e].pdpt \in [0 .. PdptEntries - 1 -> EntryType]
         /\ ept[e].pd \in [0 .. PdptEntries - 1 -> [0 .. PdEntries - 1 -> EntryType]]
         /\ ept[e].pt \in [PtIndices -> [0 .. PtEntries - 1 -> EntryType]]
    /\ built \in [Epts -> BOOLEAN]
    /\ ptOwner \in [Epts -> [PtIndices -> Regions \cup {NoRegion}]]
    /\ calls \in 0 .. MaxCalls
    /\ call.op \in {"none", "build", "split", "modify", "remap"}
    /\ call.res \in Results

(* Refinement: every step of the two Epts, seen through the processor's   *)
(* walk, is a step of AbstractEpt: build_identity maps the identity,       *)
(* split changes no mapping, permission edits and remaps change only the  *)
(* page (or 2MB page) they name, and of the Ept they are called on.       *)
Granularity(e) ==
    [r \in Regions |->
        IF ~built[e] THEN "none"
        ELSE IF ept[e].pd[r \div PdEntries][r % PdEntries].large THEN "2M" ELSE "4K"]

Abs == INSTANCE AbstractEpt WITH
         view <- [e \in Epts |-> IF built[e] THEN View(ept[e]) ELSE [g \in Pages |-> Unmapped]],
         gran <- [e \in Epts |-> Granularity(e)],
         call <- [op |-> call.op, e |-> call.ept, page |-> call.addr \div BasePageSize,
                  acc |-> call.acc, frame |-> Pfn(call.host), res |-> call.res]

EptRefinement == Abs!Spec

(* spec.md 7: a call rejected with InvalidPtIndex, PageAlreadySplit,      *)
(* UnalignedAddressError or LargePageRemapError leaves both Epts exactly  *)
(* as they were (every bit, not only what the walk sees).                 *)
RejectedCallChangesNothing ==
    [][call'.res \notin {"Ok", "MemoryTypeResolutionError"} => ept' = ept]_vars

(* spec.md 4.1: table-pointer entries (PML4E, PDPTEs, PDEs that reference *)
(* a PT) carry no memory type; only leaves do.  The SDM reserves bits 6:3 *)
(* of a PDE that references a page table.                                 *)
PointerEntriesHaveNoMemoryType ==
    \A e \in Epts :
        /\ ept[e].pml4e.mt = 0
        /\ \A i \in DOMAIN ept[e].pdpt : ept[e].pdpt[i].mt = 0
        /\ \A i \in DOMAIN ept[e].pd, j \in 0 .. PdEntries - 1 :
              ~ept[e].pd[i][j].large => ept[e].pd[i][j].mt = 0

=============================================================================
