# TLA+ models of the illusion-rs EPT core

This directory models the memory-virtualisation core of the hypervisor: the
Extended Page Table structure (`hypervisor/src/intel/ept/paging.rs`), the
physical-address helpers (`hypervisor/src/intel/addresses.rs`), the
EPT-violation and EPT-misconfiguration VM-exit handlers
(`hypervisor/src/intel/vmexit/ept.rs`, `vmexit/mod.rs`), and the part of the
UEFI driver's `main` (`driver/src/main.rs`) that allocates and builds the two
Epts. Every module except `PhysicalAddress` is checked with TLC (see section 4).

## 1. The system

| part | source | state | operations |
|---|---|---|---|
| PhysicalAddress | addresses.rs | a u64 | `from_pa`, `from_pfn`, `pfn`, `pa` |
| Entry / Table / AccessType | paging.rs 422-480 | a 64-bit bitfield: r, w, x, memory_type, large, pfn | setters only |
| Ept | paging.rs 27-382 | PML4, PDPT, 512 PDs, 64 PTs, laid out consecutively (`#[repr(C)]`) | `build_identity`, `split_2mb_to_4kb`, `modify_page_permissions`, `remap_gpa_to_hpa`, `unmap_2mb`/`unmap_4kb`, `create_eptp_with_wb_and_4lvl_walk` |
| Violation / misconfiguration handlers | vmexit/ept.rs, vmexit/mod.rs | the VMCS EPTP field and the translation cache of the processor that exited | `handle_ept_violation`, `handle_ept_misconfiguration`, their `ExitType` |
| Translation caches (hardware) | SDM 29.4; `invept_all_contexts` in ept.rs | per processor, walk results tagged by Ept | fill on access, drop on violation, flush on invept (local) |
| Driver boot | main.rs 26-110 | the two boxed Epts | UEFI services init (a failure panics into the looping panic handler), zap relocations, allocate, build both, start all processors |
| Mtrr::find (external) | not in src | firmware MTRRs | classify a range, or fail |
| Hook code (external) | not in src | which pt index backs which region; how far the install got | calls split / modify / remap, then invalidates |

How the parts interact:
- `main` builds both Epts with `build_identity` and returns ABORTED at the
  first failure.
- The hook code, which is not in the sources, splits the hooked page's 2MB
  region in both Epts with a pt index that it owns. It restricts the page to
  read/write in the primary Ept and to execute-only in the secondary Ept,
  where it also remaps the page to a shadow frame. That is what the comments
  of `handle_ept_violation` describe.
- Each processor runs its guest through the Ept its own EPTP names.
- A fetch from the hooked page under the primary Ept faults with the
  qualification "readable, writable, not executable". The handler then loads
  the secondary EPTP.
- A data access to the page under the secondary Ept faults with "execute
  only". The handler then loads the primary EPTP.
- RIP is not advanced (`ExitType::Continue`), so the instruction runs again.
- Each processor caches translations. The handler's `invept_all_contexts`
  empties the cache of the processor that runs it, and no other. The
  structural operations never invalidate; spec.md 4.2 and 6 leave that to
  the caller.
- The hook may be installed while guests run: the hook code makes its five
  calls on one processor and then invalidates.
- An entry that is writable but not readable is an EPT misconfiguration. Its
  handler executes `int3` and returns `ExitHypervisor`.

Behaviours that are hard to test, and which a model checker reaches:
- The order of calls on the structure: split after an edit, an edit of the
  first 2MB, pt-index reuse, and an address inside a 2MB page.
- `build_identity` failing part-way.
- Processors swapping EPTPs independently over the two shared tables.
- Cached translations that outlive a structural edit, and guests that run on half-hooked tables.
- An instruction that keeps faulting in alternate views.
- Legal inputs that yield a table the processor rejects.
- Addresses past the 512 GB the index masks can tell apart.
- Entries written field by field while another processor walks them.

## 2. Modules

| module | models | kind |
|---|---|---|
| `EptTables` | Entry, Ept and every Ept algorithm as operators on an Ept value; `Mtrr::find` abstracted; the processor's walk (SDM 29.3.2) and its misconfiguration test (SDM 29.3.3.1: a write-without-read entry, or a present entry that references a table with a non-zero memory type in its reserved bits 6:3) as the environment | operators |
| `AbstractEpt` | what the structure promises (spec.md 4.1-4.5): per Ept, the mapping of every page, the granularity of every region, and the last call with its result | abstract spec |
| `EptManager` | `main`'s boot sequence and then a caller making runtime calls on either Ept; refines `AbstractEpt` | state machine |
| `MCEptManager` | constants for `EptManager` | MC |
| `EptHiding` | the two Epts, the hook install (at boot or at runtime), per-processor EPTPs and translation caches, guest instructions executed by the processor, both VM-exit handlers and `ExitType` | state machine |
| `EptViews` | what the EPT-violation protocol promises (spec.md 4.7): per processor, the active view (Primary or Secondary) and its unhandled fault; only a handled fault on the hooked page may move the view, and only to the view that serves the access | abstract spec |
| `MCEptHiding` | constants for `EptHiding` | MC |
| `PhysicalAddress` | `from_pa`, `pa`, `from_pfn`, `pfn` at a fixed word width | pure |

How the state corresponds to the code:
- An Ept value is the record `[home, pml4e, pdpt, pd, pt]`.
  - `home` is the frame the box was allocated at.
  - The tables' frames follow from the `#[repr(C)]` layout: `PdptFrame`, `PdFrame` and `PtFrame`.
  - A pointer entry's `pfn` names one of these frames, and the walk follows it.
  - So `split_2mb_to_4kb` repointing a PDE at `pt[k]` is a real change of pfn.
- Every operation returns `[res, ept]`. A rejected call returns its input Ept.
  The one exception is `MemoryTypeResolutionError`, which returns the
  partially written tables, just as `?` leaves them.
- `EptManager` keeps the following variables:
  - `phase`: where `main` is: `init` (UEFI services, `UefiInit`), `zap`, the two builds, `start`, then `running`, `aborted` or `panicked`;
  - `mtrr`;
  - `ept[e]`;
  - `built[e]`: the history of `build_identity` returning Ok;
  - `ptOwner`: the caller's record of which region each pt index backs;
  - `calls`: bounded by `MaxCalls`;
  - `call`: the last call and its result.
- In `EptManager`, each action is a whole call: the operation's guard, every
  write it makes, and its result.
- `EptHiding` keeps the following variables:
  - `eptp[c]`: the VMCS EPTP field;
  - `sharedData`: `primary_eptp` and `secondary_eptp` as encoded by `create_eptp_with_wb_and_4lvl_walk`;
  - `walk[s][f][g]`: what the processor's walk of page `g` yields in the Ept boxed at frame `f` once `s` stores of the install have landed. The tables after each store are fixed, so it is computed once in `Init` (a table of constants kept in a variable, which keeps TLC's fairness checks fast);
  - `stage`: how many stores of the install have landed, and `Installed` once the hook code invalidated. Without `HookAtRuntime` it starts at `Installed`;
  - `tlb[c][<<f, g>>]`: processor `c`'s cached translation of `g` under the Ept at frame `f`, or `NoEntry`;
  - `pending[c]`: the instruction at RIP;
  - `exit[c]`: the VM exit being handled;
  - `stopped[c]`;
  - `last[c]`: the frames the last retired instruction used, and whether the hook was installed then.
- `EptHiding`'s actions:
  - `Fetch`: the guest reaches an instruction. The guest of `Editor` waits while the hook code runs on it.
  - `Execute`: the processor makes the fetch and then the data access, each through its cached translation or a walk (`Lookup`). It exits at the first access that is misconfigured or lacks its permission, and drops that page's cached entry. The exit records the faulting page (`GUEST_PHYSICAL_ADDR_FULL`) and, for a violation, the access type (qualification bits 0-2) and the page's permission bits (bits 3-5). A retired instruction caches what it used.
  - `HandleEptViolation` (`EndViolation`): both `if`s of the handler, in order; each swap is followed by emptying this processor's cache; then `Resume(c, "Continue")`.
  - `HandleEptMisconfiguration`: `Resume(c, "ExitHypervisor")`.
  - `HookStep`: the next store of the install, taken between two guest instructions of `Editor`. The calls are primary split, primary modify, secondary split, secondary modify and secondary remap. Their stores, as a concurrent walk sees them (`SplitStores`, `PermissionStores`), are:
    - a split resets the PDE (`unmap_2mb`), fills the PT that nothing references yet, and then writes the PDE;
    - a permission edit writes readable, writable and executable in turn;
    - the build constant `StoreMode` says whether the setters of one entry reach memory as one store (`"merged"`) or one store each (`"separate"`). They are plain bitfield writes of one `u64`, so both are builds the compiler may produce. With separate stores, `unmap_2mb`'s six setters and the split's six PDE setters are stores of their own, in the code's order (`SetterOrder`, `AfterSetters`);
    - a remap is one `set_pfn`.
    Stores that leave the tables unchanged are dropped (`Dedup`).
  - `Invalidate`: after the last call, invept on no processor, on `Editor`, or on all, as the constant `Shootdown` says.

The refinement mapping (in `EptManager`) sends:
- `view[e]` to the walk of every page, or to Unmapped while `build_identity`
  has not succeeded;
- `gran[e][r]` to the PDE's large flag;
- `call` to the last call.

`AbstractEpt` allows each kind of call the following effects:
- A build that returns Ok maps the identity. The memory types come from
  `Mtrr::find`.
- A split that returns Ok changes granularity only.
- A permission edit that returns Ok changes the access of its page, or of
  its whole region while that region is a 2MB page (spec.md 4.3).
- A remap changes one frame.
- A rejected call changes nothing.

An Ok call that changes nothing, or that changes something else, violates the
refinement.

`EptHiding` is checked against `EptViews` (`ViewsRefined`, the instance
`Protocol`):
- `active[c]` is `Primary` when `c`'s EPTP equals `shared_data.primary_eptp`, and `Secondary` otherwise;
- `fault[c]` is the page and access type of `c`'s pending violation exit, or `NoFault`.

A misconfiguration exit, and every step of another processor or of the hook
code, is a stutter of `EptViews`. The handler decides from the permission bits
the processor saw, and those can be a transient entry while the hook code
stores into the tables. A fault in a region being split reports no
permissions. The refinement says that such a decision never moves a processor,
and that a fault on the hooked page moves it only towards the view that serves
the access.

## 3. Runs

| run | cfg | expect | what it shows |
|---|---|---|---|
| ept_refinement | MCEptManager.cfg | pass | With a caller that keeps the pt-index contract and splits at 2MB boundaries before editing, both builds and every sequence of up to 3 calls implement `AbstractEpt` (`EptRefinement`), `TypeOK` holds, and every rejected call leaves all bits of both Epts alone (`RejectedCallChangesNothing`). The second MTRR layout makes `build_identity` fail at region 2, so the partial-failure and abort paths are covered. |
| split_inside_2mb | MCEptManager_split_inside.cfg | violation | A split at 0x3000 (inside region 1) maps pages 2 and 3 to frames 3 and 4. |
| split_after_modify | MCEptManager_split_after_modify.cfg | violation | A 2MB page made read/write only regains execute when it is split. |
| first_region_edit | MCEptManager_first_region.cfg | violation | `modify_page_permissions(0x1000, …, k)` returns Ok but changes `pt[k]`, not page 1's entry in `pt[0]`. |
| pointer_memory_type | MCEptManager_pointer_mt.cfg | violation | After a split, the PDE that references the PT still has memory type 6. |
| address_beyond_512gb | MCEptManager_alias.cfg | violation | `modify_page_permissions(0xA000, …)`, page 10, past the 8 pages one PML4 entry maps here (512 GB in the code), returns Ok and edits page 2, which the masked indices alias it to. `AbstractEpt` allows an Ok call only on a page the Ept maps (`Governed`). |
| hiding | MCEptHiding.cfg | pass | The hook is installed at runtime, one store per setter, on `c1` while `c2` runs, with the hooked region uncacheable, and invept then runs on every processor. Every retired access other than a fetch from the hooked page reached its own frame, during the install too (`AccessesReachOriginal`). Once installed, every retired fetch from the hooked page ran the shadow frame and every data access reached the original frame (`HookedPageHidden`). A processor that walks a transient write-without-read entry halts in `handle_ept_misconfiguration`, which fires here. 92,880 states, about 25 s. |
| instructions_retire | MCEptHiding_retire.cfg | pass | With the same runtime install, every instruction that touches the hooked page without both running from and touching it retires (`InstructionsRetire`), including on `c2` while the PDE is reset or the tables are half-hooked. Each processor's EPTP moves only when it handles a violation on the hooked page, and only to the view that serves the access (`ViewsRefined`). 26,781 states, about 1.5 min. |
| separate_setter_stores | MCEptHiding_separate_stores.cfg | violation | With one store per setter, `unmap_2mb`'s `set_readable(false)` in the primary split leaves a write/execute-without-read 2MB PDE. `c2` reads the hooked page, walks that PDE and halts (`NoProcessorHalts`). The secondary `modify_page_permissions(X)` has the same window on its PTE. |
| tlb_local_shootdown | MCEptHiding_local_shootdown.cfg | violation | If the hook code invalidates only on the processor it runs on (what `invalidate_all_ept_contexts` on one processor does), `c2` keeps its cached read/write/execute entry for the hooked page and, after the install, executes the original frame. |
| hiding_livelock | MCEptHiding_livelock.cfg | violation | With an instruction that runs from the hooked page and writes it, the handler swaps EPTPs forever. |
| split_pde_halts | MCEptHiding_split_pde.cfg | violation | With the hooked region write-back, as RAM usually is, the PDE that `split_2mb_to_4kb` points at the new PT keeps memory type 6 in reserved bits 6:3 (`paging.rs:177`). The first access to the region is an EPT misconfiguration, and the processor halts (`NoProcessorHalts`). Every other `EptHiding` run therefore uses an uncacheable hooked region (`UcHookMtrr`). |

Every property of the passing runs has a mutant in `PROJECT.json`: a
plausible bug in the mapped code that TLC finds. The mutants are:
- the `?` dropped in `build_identity`;
- the memory type read after `unmap_2mb`;
- `unmap_2mb` called before the large check;
- the PFN written without `>> 12` in `remap_gpa_to_hpa`;
- the two EPTP loads of the handler swapped;
- the raw Ept address written as EPTP;
- the `+ i * BASE_PAGE_SIZE` dropped from the PFNs of a split (for `AccessesReachOriginal`);
- the `readable && writable` test dropped from the handler's first swap (for `ViewsRefined`). A data access that faults in a region being split then loads the secondary EPTP.

## 4. Bounds and why they are enough

- Geometry:
  - `PdptEntries = PdEntries = PtEntries = 2` and `PtCount = 3`. This gives 4 regions of 2 pages, region 0 in `pt[0]`, and two spare PTs.
  - `BasePageSize = 4096` is the real value, so the alignment checks and the index extraction work on real addresses.
  - Every branch of every operation needs at most two entries per table and two spare PTs to be reached: an unsplit and a split region, an owned and a foreign index, the first region and a later one.
- MTRR: `EptHiding` runs use `UcHookMtrr` (the hooked region uncacheable) except `split_pde_halts`, which uses the write-back layout. For `EptManager`, one layout that resolves everywhere, with an uncacheable first page so that `pt[0]` carries mixed types. A second layout mixes types in region 2, so `build_identity` fails after writing regions 0 and 1.
- Calls: `MaxCalls = 3` allows split-then-edit-then-remap, split-then-split again (`PageAlreadySplit`), and an edit on both Epts. The input sets hold aligned, unaligned, in-page and first-region addresses.
- Hiding:
  - 2 processors, so the two views are live at once, and one can run while the other installs the hook. `split_pde_halts` and `hiding_livelock` need one.
  - The hooked page is page 3, the second PTE of region 1, so a split that gets the offset `i * 4KB` wrong is visible.
  - Instructions fetch from page 1 or the hooked page, and read, write or leave alone the hooked page or page 5. This covers every combination of fault and swap. `tlb_local_shootdown` and `separate_setter_stores` keep reads only, with one no-access instruction per fetch page. With read/write data access a write faults and swaps exactly as a read does, so no behaviour is lost. `hiding` and `instructions_retire` further keep only the instructions that touch the hooked page; the others use regions the hook never edits and cannot fault. This keeps the separate-store install and the single-threaded liveness check within minutes.
  - The install is the five real calls in the order the handler's comments imply, store by store. Page 5 lies in a region the hook never splits, so its cached entry survives every edit. The hooked page's entries change at almost every store.
- The 512 GB aliasing: an address of page 10 is past the 8 pages of the scaled PML4 entry and masks to page 2, exactly as an address at 512 GB + 8 KB masks to 8 KB in the code.
- PhysicalAddress: a 20-bit word with the real shift of 12. `PfnRoundTrip` fails at `from_pfn(256)`, which is `2^52` at 64 bits. No run checks it, because no code under `src/` calls `from_pfn`, and no 52-bit physical address has a PFN that large.

## 5. Fairness

`EptHiding` assumes weak fairness of `Execute`, `HandleEptViolation` and
`HandleEptMisconfiguration` on each processor, and of the hook code once it
has started (`stage > 0 /\ HookStep`, and `Invalidate`): the calls run
synchronously on `Editor` and do not wait for anything.
- A processor with a pending instruction executes it.
- A VM exit is handled synchronously on the processor that took it
  (spec.md 5).

The guest is not required to fetch anything (`Fetch` has no fairness), and the hook code is not required to start.
`EptManager` has no liveness property and no fairness.

Deadlock checking is off in two configurations:
- `MCEptManager`: it stops after `MaxCalls` calls, in `aborted`, or in `panicked`, where the panic handler loops.
- `split_pde_halts`: every processor may halt.

## 6. Not modelled

- Spontaneous eviction from the translation cache: it only replaces a cached translation by a walk of the current tables, so it adds states and no behaviour a property tells apart. Paging-structure caches are folded into the one cache: the model caches whole walks.
- The invalidation is one step. A shootdown by IPIs reaches the processors one by one; a processor flushed early re-caches from the final tables, so that changes nothing the properties see.
- Structural edits other than the hook install while guests run.
- What a walk reads through the transient PDE of a split that points at frame 0 (between `set_readable` and `set_pfn` in a build with separate stores). That is firmware data, unknown to the model, and the walk is taken as not present, like the reset PDE.
- `Mtrr::find`: it is abstracted to a function of a layout.
- The decode of the exit qualification (`vmerror.rs`, not in the sources): it is taken to report the page's permission bits (SDM Table 28-7, bits 3-5).
- Logging. `uefi_services::init`, `zap_relocations` and processor start-up are nondeterministic success or failure; the first panics on failure.
- The verification bits 57/58: the code never sets them.

## 7. Plan for later work

1. Compose `EptManager`'s runtime calls with `EptHiding` beyond the fixed hook install: any sequence of edits while guests run.
2. The secondary hook installed before the primary one, and a third processor.
