------------------------------ MODULE EptHiding ------------------------------
(***************************************************************************)
(* The execute/data hiding protocol of hypervisor/src/intel/vmexit/ept.rs. *)
(*                                                                         *)
(* Two Epts are identity-mapped (paging.rs build_identity) and the region *)
(* of one guest page, Hooked, is split in both.  As the comments of       *)
(* handle_ept_violation describe, the primary Ept gives Hooked the         *)
(* DataAccess permissions (read/write) on the original frame and the       *)
(* secondary Ept gives it execute-only on the Shadow frame (remap).  Both  *)
(* Epts are built from the operators of EptTables, the calls the hook code *)
(* makes; unless HookAtRuntime, all are made before guests run (spec.md 5).*)
(*                                                                         *)
(* Each processor has its own VMCS EPTP field.  The guest on a processor   *)
(* executes one instruction at a time: the processor fetches it (needs X)  *)
(* and makes its data access (needs R or W) through the active Ept.  An    *)
(* access the Ept does not allow is an EPT-violation VM exit whose         *)
(* qualification reports the page's permissions (bits 3-5); an entry the   *)
(* processor rejects is an EPT-misconfiguration exit.  The handlers run on *)
(* the processor that exited; a violation returns Continue with RIP left   *)
(* alone, so the instruction is executed again; a misconfiguration ends in *)
(* int3 and ExitHypervisor.                                                *)
(*                                                                         *)
(* The processor caches the translations its walks produce (SDM 29.4),    *)
(* tagged with the Ept they came from: tlb[c][<<f, g>>].  A cached entry   *)
(* is used instead of a walk; an EPT violation drops the entry of the      *)
(* faulting page; invept_all_contexts empties the cache of the processor  *)
(* that executes it, and only that one.  The processor may also drop an   *)
(* entry at any time; that only replaces a cached translation by a walk of *)
(* the current tables and is left out.  With HookAtRuntime the hook code installs the hook while  *)
(* guests run: its five calls on the two Epts (split, modify on the        *)
(* primary; split, modify, remap on the secondary) run one at a time on    *)
(* processor Editor, whose guest waits meanwhile, and are followed by the  *)
(* invalidation Shootdown says: none, invept on Editor only ("local"), or  *)
(* invept on every processor ("all").                                      *)
(***************************************************************************)
EXTENDS EptTables, Bitwise, SequencesExt

CONSTANTS
    CPUs,                        \* logical processors
    PrimaryHome, SecondaryHome,  \* frames of the two Ept boxes
    Mtrr,                        \* the MTRR layout, [Pages -> memory types]
    Hooked,                      \* the guest page the hook hides
    Shadow,                      \* host frame of the hooked copy of the page
    HookPt,                      \* pt index the hook code splits Hooked's region with
    DataAccess,                  \* AccessType of Hooked in the primary Ept
    Instrs,                      \* guest instructions: [fetch, data, kind]
    HookAtRuntime,               \* the hook is installed while guests run
    Editor,                      \* processor the hook code runs on
    Shootdown,                   \* "none", "local" or "all"
    StoreMode,                   \* "merged" or "separate": how the build stores entry setters
    NoInstr, NoExit, NoEntry     \* model values

ASSUME /\ Hooked \in Pages /\ RegionOfPage(Hooked) # 0
       /\ HookPt \in PtIndices \ {0}
       /\ HookAtRuntime \in BOOLEAN /\ Editor \in CPUs /\ Shootdown \in {"none", "local", "all"}
       /\ StoreMode \in {"merged", "separate"}
       /\ \A i \in Instrs : i.fetch \in Pages /\ i.data \in Pages /\ i.kind \in {"R", "W", "none"}

HookedPa == Hooked * BasePageSize
RegionPa == RegionOfPage(Hooked) * LargePageSize

\* The calls that set up the primary Ept: identity map, split, Hooked
\* limited to DataAccess; each call's [res, ept].
PrimaryCalls ==
    LET built == BuildIdentity(ZeroEpt(PrimaryHome), Mtrr)
        split == SplitLarge(built.ept, RegionPa, HookPt)
    IN <<built, split, ModifyPagePermissions(split.ept, HookedPa, DataAccess, HookPt)>>

\* The secondary Ept: identity map, split, Hooked execute-only on Shadow.
SecondaryCalls ==
    LET built == BuildIdentity(ZeroEpt(SecondaryHome), Mtrr)
        split == SplitLarge(built.ept, RegionPa, HookPt)
        hidden == ModifyPagePermissions(split.ept, HookedPa, {"X"}, HookPt)
    IN <<built, split, hidden, RemapGpaToHpa(hidden.ept, HookedPa, Shadow * BasePageSize, HookPt)>>

\* Every call of the set-up returned Ok.
ASSUME \A n \in 1 .. 3 : PrimaryCalls[n].res = "Ok"
ASSUME \A n \in 1 .. 4 : SecondaryCalls[n].res = "Ok"

(***************************************************************************)
(* The stores of the install, as a processor walking concurrently sees    *)
(* them.  The setters of one entry are plain (non-atomic) bitfield writes: *)
(* a build may fold them into one store ("merged") or keep a store per     *)
(* setter ("separate").  split_2mb_to_4kb resets the PDE (unmap_2mb: r, w, *)
(* x, memory type, large, pfn), fills pt[k], which nothing references yet, *)
(* and writes the PDE (r, w, x, memory type, large, pfn); until its        *)
(* set_pfn the PDE points at frame 0, outside the Ept's tables, which the  *)
(* walk takes as not present.  modify_page_permissions sets readable,      *)
(* writable and executable in turn.  remap_gpa_to_hpa is one set_pfn.      *)
(***************************************************************************)
\* The order of the setters in unmap_2mb and in split's PDE rewrite.
SetterOrder == <<"r", "w", "x", "mt", "large", "pfn">>
\* Entry e after the first n setters that write the fields of t.
AfterSetters(e, t, n) ==
    [fld \in DOMAIN e |-> IF \E m \in 1 .. n : SetterOrder[m] = fld THEN t[fld] ELSE e[fld]]

SplitStores(ept, guestPa, k) ==
    LET i == PdptIndex(guestPa)
        j == PdIndex(guestPa)
        e == ept.pd[i][j]
        done == SplitLarge(ept, guestPa, k).ept
        Reset(n) == [ept EXCEPT !.pd[i][j] = AfterSetters(e, ZeroEntry, n)]
        Rewrite(n) == [done EXCEPT !.pd[i][j] = AfterSetters(Unmap2mb(e), done.pd[i][j], n)]
    IN IF StoreMode = "merged" THEN <<[ept EXCEPT !.pd[i][j] = Unmap2mb(e)], done>>
       ELSE (IF e.r THEN [n \in 1 .. 6 |-> Reset(n)] ELSE <<>>) \o [n \in 1 .. 6 |-> Rewrite(n)]

PermissionStores(ept, guestPa, acc, k) ==
    LET i == PdptIndex(guestPa)
        j == PdIndex(guestPa)
        large == ept.pd[i][j].large
        e0 == IF large THEN ept.pd[i][j] ELSE ept.pt[k][PtIndex(guestPa)]
        e1 == [e0 EXCEPT !.r = "R" \in acc]
        e2 == [e1 EXCEPT !.w = "W" \in acc]
        e3 == [e2 EXCEPT !.x = "X" \in acc]
        Put(e) == IF large THEN [ept EXCEPT !.pd[i][j] = e]
                  ELSE [ept EXCEPT !.pt[k][PtIndex(guestPa)] = e]
    IN IF StoreMode = "merged" THEN <<Put(e3)>> ELSE <<Put(e1), Put(e2), Put(e3)>>

\* A store that leaves the entry as it was is no step a walk can tell.
Dedup(s) == FoldLeft(LAMBDA t, x : IF t # <<>> /\ Last(t) = x THEN t ELSE Append(t, x), <<>>, s)

\* The primary Ept after each store of its split and modify, then the
\* secondary after each store of its split, modify and remap.
PrimaryStores ==
    Dedup(<<PrimaryCalls[1].ept>> \o SplitStores(PrimaryCalls[1].ept, RegionPa, HookPt)
          \o PermissionStores(PrimaryCalls[2].ept, HookedPa, DataAccess, HookPt))
SecondaryStores ==
    Dedup(<<SecondaryCalls[1].ept>> \o SplitStores(SecondaryCalls[1].ept, RegionPa, HookPt)
          \o PermissionStores(SecondaryCalls[2].ept, HookedPa, {"X"}, HookPt)
          \o <<SecondaryCalls[4].ept>>)
ASSUME Last(PrimaryStores) = PrimaryCalls[3].ept /\ Last(SecondaryStores) = SecondaryCalls[4].ept

PrimarySteps == Len(PrimaryStores) - 1
EptsAfter(s) ==
    [primary   |-> PrimaryStores[Min({s, PrimarySteps}) + 1],
     secondary |-> SecondaryStores[Max({s - PrimarySteps, 0}) + 1]]
PrimaryEpt == Last(PrimaryStores)
SecondaryEpt == Last(SecondaryStores)

(***************************************************************************)
(* create_eptp_with_wb_and_4lvl_walk: the PML4 address (the box's address) *)
(* OR the page-walk length 3 << 3 OR MemoryType::WriteBack, or an error    *)
(* when the address has fewer than 12 trailing zero bits.                  *)
(***************************************************************************)
EptPageWalkLength4 == 3 * 8
EptMemoryTypeWb == 6
CreateEptp(ept) ==
    LET addr == ept.home * BasePageSize
    IN IF addr % 4096 = 0
       THEN [res |-> "Ok", eptp |-> (addr | EptPageWalkLength4) | EptMemoryTypeWb]
       ELSE [res |-> "InvalidEptPml4BaseAddress", eptp |-> 0]


VARIABLES
    sharedData, \* vm.shared_data: the two EPTP values encoded at start-up
    walk,     \* walk[s][f][g]: the processor's walk of page g in the Ept boxed
              \* at frame f once s calls of the hook code returned
    stage,    \* calls of the hook code done; Installed once it invalidated
    tlb,      \* tlb[c][<<f, g>>]: c's cached translation of g under Ept f
    eptp,     \* eptp[c]: the VMCS EPTP_FULL field of processor c
    pending,  \* pending[c]: the instruction at RIP of c's guest, or NoInstr
    exit,     \* exit[c]: the VM exit c delivered to the hypervisor, or NoExit
    stopped,  \* stopped[c]: c left the hypervisor (ExitType::ExitHypervisor)
    last      \* last[c]: the accesses <<need, page, frame>> of c's last retired
              \* instruction, and whether the hook was installed (history)

vars == <<sharedData, walk, stage, tlb, eptp, pending, exit, stopped, last>>

\* The accesses an instruction makes, in the order the processor makes them.
Accesses(i) ==
    IF i.kind = "none" THEN <<[need |-> "X", page |-> i.fetch]>>
    ELSE <<[need |-> "X", page |-> i.fetch], [need |-> i.kind, page |-> i.data]>>

\* What the processor's walk of page g in ept yields (SDM 29.3.2, 29.3.3.1).
WalkOf(ept, g) ==
    [acc |-> Translate(ept, g).acc, frame |-> Translate(ept, g).frame,
     misconfigured |-> Misconfigured(ept, g)]
\* The processor decodes an EPTP: PML4 frame in bits 51:12.
EptFrame(p) == p \div 4096
Frames == {PrimaryHome, SecondaryHome}
EmptyTlb == [k \in Frames \X Pages |-> NoEntry]
\* The number of stores of the install, read off the walks cached per store
\* so that no step recomputes the tables.
InstallSteps == Cardinality(DOMAIN walk) - 1
Installed == InstallSteps + 1
\* The translation c uses for page g: its cached one, or a walk.
Lookup(c, g) ==
    LET k == <<EptFrame(eptp[c]), g>>
    IN IF tlb[c][k] # NoEntry THEN tlb[c][k] ELSE walk[Min({stage, InstallSteps})][k[1]][g]


Init ==
    /\ walk = [s \in 0 .. PrimarySteps + Len(SecondaryStores) - 1 |-> [f \in Frames |-> [g \in Pages |->
                 WalkOf(IF f = PrimaryHome THEN EptsAfter(s).primary ELSE EptsAfter(s).secondary, g)]]]
    /\ stage = IF HookAtRuntime THEN 0 ELSE Installed
    /\ tlb = [c \in CPUs |-> EmptyTlb]
    /\ sharedData = [primary_eptp |-> CreateEptp(PrimaryEpt).eptp,
                      secondary_eptp |-> CreateEptp(SecondaryEpt).eptp]
    /\ eptp = [c \in CPUs |-> sharedData.primary_eptp]
    /\ pending = [c \in CPUs |-> NoInstr]
    /\ exit = [c \in CPUs |-> NoExit]
    /\ stopped = [c \in CPUs |-> FALSE]
    /\ last = [c \in CPUs |-> [installed |-> FALSE, acc |-> {}]]

\* The guest of c runs unless the hook code is running on c.
GuestRuns(c) == ~stopped[c] /\ (c = Editor => stage \in {0, Installed})

\* The guest on c reaches its next instruction.
Fetch(c, i) ==
    /\ GuestRuns(c) /\ pending[c] = NoInstr /\ exit[c] = NoExit
    /\ pending' = [pending EXCEPT ![c] = i]
    /\ UNCHANGED <<sharedData, walk, stage, tlb, eptp, exit, stopped, last>>

(* The processor executes c's pending instruction: each access uses the   *)
(* cached translation or walks the Ept the EPTP names, and caches what it *)
(* used.  The first access that meets a misconfigured walk or lacks its    *)
(* permission exits and drops the cached entry of its page (SDM 29.4.3.1);*)
(* The exit records the guest-physical page (GUEST_PHYSICAL_ADDR_FULL)   *)
(* and, for a violation, the access type (qualification bits 0-2) and the *)
(* page's permissions (bits 3-5).  If no access faults, the instruction   *)
(* retires.                                                               *)
Execute(c) ==
    LET acc == Accesses(pending[c])
        key(n) == <<EptFrame(eptp[c]), acc[n].page>>
        t(n) == Lookup(c, acc[n].page)
        bad(n) == t(n).misconfigured \/ acc[n].need \notin t(n).acc
        faults == {n \in 1 .. Len(acc) : bad(n)}
        Filled(m) == [k \in DOMAIN tlb[c] |->
                        IF \E n \in 1 .. m : key(n) = k
                        THEN t(CHOOSE n \in 1 .. m : key(n) = k) ELSE tlb[c][k]]
    IN /\ GuestRuns(c) /\ pending[c] # NoInstr /\ exit[c] = NoExit
       /\ IF faults = {}
          THEN /\ pending' = [pending EXCEPT ![c] = NoInstr]
               /\ tlb' = [tlb EXCEPT ![c] = Filled(Len(acc))]
               /\ last' = [last EXCEPT ![c] =
                             [installed |-> stage = Installed,
                              acc |-> {<<acc[n].need, acc[n].page, t(n).frame>> : n \in 1 .. Len(acc)}]]
               /\ UNCHANGED exit
          ELSE LET n == Min(faults)
               IN /\ exit' = [exit EXCEPT ![c] =
                       IF t(n).misconfigured
                       THEN [reason |-> "misconfiguration", page |-> acc[n].page]
                       ELSE [reason |-> "violation", page |-> acc[n].page, need |-> acc[n].need,
                             readable |-> "R" \in t(n).acc,
                             writable |-> "W" \in t(n).acc,
                             executable |-> "X" \in t(n).acc]]
                  /\ tlb' = [tlb EXCEPT ![c] = [Filled(n - 1) EXCEPT ![key(n)] = NoEntry]]
                  /\ UNCHANGED <<pending, last>>
       /\ UNCHANGED <<sharedData, walk, stage, eptp, stopped>>

(* vmexit::ExitType, and what the VM-exit loop does with the handler's    *)
(* result on c: ExitHypervisor leaves c's guest stopped, IncrementRIP      *)
(* moves past the instruction, Continue resumes at the same RIP so the     *)
(* instruction is executed again.                                          *)
ExitTypes == {"ExitHypervisor", "IncrementRIP", "Continue"}
Resume(c, type) ==
    /\ exit' = [exit EXCEPT ![c] = NoExit]
    /\ stopped' = [stopped EXCEPT ![c] = (type = "ExitHypervisor")]
    /\ pending' = IF type = "IncrementRIP" THEN [pending EXCEPT ![c] = NoInstr] ELSE pending

\* Mutant: the readable and writable tests dropped from the first swap.
EndViolationIgnoringRw(c, onRw, onX) ==
    LET q == exit[c]
        toSecondary == ~q.executable
        toPrimary == ~q.readable /\ ~q.writable /\ q.executable
    IN /\ exit[c] # NoExit /\ exit[c].reason = "violation"
       /\ eptp' = [eptp EXCEPT ![c] = IF toPrimary THEN onX ELSE IF toSecondary THEN onRw ELSE @]
       /\ tlb' = IF toSecondary \/ toPrimary THEN [tlb EXCEPT ![c] = EmptyTlb] ELSE tlb
       /\ Resume(c, "Continue")
       /\ UNCHANGED <<sharedData, walk, stage, last>>

(* The body of handle_ept_violation with the EPTP values it loads: onRw   *)
(* when the page is read/write but not execute, onX when it is execute    *)
(* only, each followed by invept_all_contexts on this processor.  RIP is   *)
(* not advanced.                                                           *)
EndViolation(c, onRw, onX) ==
    LET q == exit[c]
        toSecondary == q.readable /\ q.writable /\ ~q.executable
        toPrimary == ~q.readable /\ ~q.writable /\ q.executable
    IN /\ exit[c] # NoExit /\ exit[c].reason = "violation"
       /\ eptp' = [eptp EXCEPT ![c] = IF toPrimary THEN onX ELSE IF toSecondary THEN onRw ELSE @]
       /\ tlb' = IF toSecondary \/ toPrimary THEN [tlb EXCEPT ![c] = EmptyTlb] ELSE tlb
       /\ Resume(c, "Continue")
       /\ UNCHANGED <<sharedData, walk, stage, last>>

\* Mutant: the two EPTP loads swapped.
HandleEptViolationSwapped(c) ==
    EndViolation(c, sharedData.primary_eptp, sharedData.secondary_eptp)

\* Mutant: the Ept's physical address written where the encoded EPTP belongs.
HandleEptViolationRawAddress(c) ==
    EndViolation(c, SecondaryHome * BasePageSize, PrimaryHome * BasePageSize)

\* handle_ept_violation: shared_data.secondary_eptp, then primary_eptp.
HandleEptViolation(c) ==
    EndViolation(c, sharedData.secondary_eptp, sharedData.primary_eptp)

\* handle_ept_misconfiguration: int3, then ExitType::ExitHypervisor.
HandleEptMisconfiguration(c) ==
    /\ exit[c] # NoExit /\ exit[c].reason = "misconfiguration"
    /\ Resume(c, "ExitHypervisor")
    /\ UNCHANGED <<sharedData, walk, stage, tlb, eptp, last>>

(* The hook code on Editor makes its next call on the shared Epts; it     *)
(* starts between two guest instructions of Editor.                        *)
HookStep ==
    /\ stage < InstallSteps /\ ~stopped[Editor]
    /\ stage = 0 => exit[Editor] = NoExit
    /\ stage' = stage + 1
    /\ UNCHANGED <<sharedData, walk, tlb, eptp, pending, exit, stopped, last>>

\* After its last call the hook code invalidates as Shootdown says.
Invalidate ==
    /\ stage = InstallSteps
    /\ stage' = Installed
    /\ tlb' = CASE Shootdown = "none" -> tlb
                [] Shootdown = "local" -> [tlb EXCEPT ![Editor] = EmptyTlb]
                [] OTHER -> [c \in CPUs |-> EmptyTlb]
    /\ UNCHANGED <<sharedData, walk, eptp, pending, exit, stopped, last>>

Next ==
    \/ HookStep
    \/ Invalidate
    \/ \E c \in CPUs :
        \/ \E i \in Instrs : Fetch(c, i)
        \/ Execute(c)
        \/ HandleEptViolation(c)
        \/ HandleEptMisconfiguration(c)

(* The processor keeps executing and every VM exit is handled at once on  *)
(* the processor that took it; hook code that has started runs to its end.*)
(* The guest need not fetch more instructions, nor the hook code start.    *)
Fairness ==
    /\ WF_vars(stage > 0 /\ HookStep)
    /\ WF_vars(Invalidate)
    /\ \A c \in CPUs :
        /\ WF_vars(Execute(c))
        /\ WF_vars(HandleEptViolation(c))
        /\ WF_vars(HandleEptMisconfiguration(c))

Spec == Init /\ [][Next]_vars /\ Fairness

-----------------------------------------------------------------------------

TypeOK ==
    /\ eptp \in [CPUs -> {sharedData.primary_eptp, sharedData.secondary_eptp}]
    /\ pending \in [CPUs -> Instrs \cup {NoInstr}]
    /\ \A c \in CPUs : exit[c] = NoExit \/ (exit[c].reason \in {"violation", "misconfiguration"} /\ exit[c].page \in Pages)
    /\ stopped \in [CPUs -> BOOLEAN]
    /\ stage \in 0 .. Installed
    /\ \A c \in CPUs : DOMAIN tlb[c] = Frames \X Pages
    /\ DOMAIN last = CPUs
    /\ \A c \in CPUs : last[c].installed \in BOOLEAN /\ last[c].acc \subseteq {"X", "R", "W"} \X Pages \X Nat

(* The hiding the handler's comments promise: whenever an instruction     *)
(* retires, a fetch from Hooked ran the Shadow copy and a read or write of *)
(* Hooked reached the original frame; every other page is the identity.   *)
HookedPageHidden ==
    \A c \in CPUs : last[c].installed =>
        \A <<need, g, frame>> \in last[c].acc :
            frame = IF g = Hooked /\ need = "X" THEN Shadow ELSE g

(* spec.md 4.2: a split leaves the region's mapping as it was.  While the *)
(* hook code's stores land one by one and other processors keep walking   *)
(* and caching, every retired access other than a fetch from Hooked      *)
(* reached the page's own frame: no intermediate table, and no entry      *)
(* cached from one, sends a guest access to a wrong frame.                *)
AccessesReachOriginal ==
    \A c \in CPUs : \A <<need, g, frame>> \in last[c].acc :
        (g # Hooked \/ need # "X") => frame = g

(* The EPTP field of each processor read as spec.md 4.7's two states, and *)
(* its pending EPT violation as the faulting page and access type.         *)
Protocol == INSTANCE EptViews WITH
    active <- [c \in CPUs |-> IF eptp[c] = sharedData.primary_eptp THEN "Primary" ELSE "Secondary"],
    fault <- [c \in CPUs |-> IF exit[c] = NoExit \/ exit[c].reason # "violation" THEN NoExit
                             ELSE [page |-> exit[c].page, need |-> exit[c].need]],
    NoFault <- NoExit

(* spec.md 4.7: handle_ept_violation decides from the permissions in the  *)
(* exit qualification, and those come from whatever entry the processor   *)
(* walked or had cached, while the hook code may be storing into the      *)
(* tables.  Still, a processor moves between the primary and secondary    *)
(* EPTP only when it handles a violation on the hooked page, and only to  *)
(* the view that serves the faulting access: secondary for an execute,    *)
(* primary for a read or write.  A fault anywhere else (a page in a region *)
(* being split, say) leaves its EPTP alone.                                *)
ViewsRefined == Protocol!Spec

(* spec.md 4.7: the re-executed instruction meets the newly active table, *)
(* so every instruction a processor starts eventually retires, unless a   *)
(* misconfiguration ends the hypervisor on that processor.                *)
InstructionsRetire ==
    \A c \in CPUs : pending[c] # NoInstr ~> (pending[c] = NoInstr \/ stopped[c])

(* spec.md 4.7 and 7: a misconfiguration signals a corrupted structure,  *)
(* never what the structure operations produce; so with tables every call *)
(* of the hook code was accepted for (all returned Ok), no processor ever  *)
(* halts in handle_ept_misconfiguration.                                   *)
NoProcessorHalts ==
    \A c \in CPUs : ~stopped[c]

=============================================================================
