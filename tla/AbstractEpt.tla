----------------------------- MODULE AbstractEpt -----------------------------
(***************************************************************************)
(* What the Ept structure promises its callers (spec.md 4.1 - 4.5), with   *)
(* no tables at all: for each Ept, the mapping of every guest page (frame, *)
(* access and memory type), the granularity of every 2MB region, and the   *)
(* last call made on the structure with its result.                        *)
(*   - a build_identity that returns Ok maps page g to frame g with full   *)
(*     access, region 0 at 4KB granularity with per-page memory types, the *)
(*     other regions as 2MB pages with the type of the whole region;       *)
(*   - a split that returns Ok changes the granularity of the region that  *)
(*     holds the page, and nothing any page maps;                          *)
(*   - a permission change that returns Ok sets the access of the page, or *)
(*     of its whole region while that is a 2MB page, and nothing else;     *)
(*   - a remap that returns Ok sets the frame of its 4KB page, nothing else;*)
(*   - a call that returns an error changes nothing;                       *)
(*   - a call on an address beyond the 512 GB the Ept maps has no entry to *)
(*     edit, so it cannot return Ok.                                       *)
(***************************************************************************)
EXTENDS EptTables

CONSTANTS Epts

VARIABLES
    view,   \* view[e][g]: Translate record of page g in Ept e
    gran,   \* gran[e][r] \in {"none", "4K", "2M"}
    mtrr,   \* the MTRR layout the firmware left (never changes)
    call    \* the last call: [op, e, page, acc, frame, res]

absVars == <<view, gran, mtrr, call>>

IdentityView(m) ==
    [g \in Pages |->
        [mapped |-> TRUE, acc |-> {"R", "W", "X"}, frame |-> g,
         mt |-> IF RegionOfPage(g) = 0
                THEN MtrrFind(m, g * BasePageSize, BasePageSize)
                ELSE MtrrFind(m, RegionOfPage(g) * LargePageSize, LargePageSize)]]

Init ==
    /\ view = [e \in Epts |-> [g \in Pages |-> Unmapped]]
    /\ gran = [e \in Epts |-> [r \in Regions |-> "none"]]
    /\ mtrr \in [Pages -> Nat \cup {NoType}]
    /\ call.op = "none"

Returns(op, res) == call'.op = op /\ call'.res = res

MapIdentity(e) ==
    /\ gran[e][0] = "none"
    /\ view' = [view EXCEPT ![e] = IdentityView(mtrr)]
    /\ gran' = [gran EXCEPT ![e] = [r \in Regions |-> IF r = 0 THEN "4K" ELSE "2M"]]
    /\ UNCHANGED mtrr

Split(e, r) ==
    /\ gran[e][r] = "2M"
    /\ gran' = [gran EXCEPT ![e][r] = "4K"]
    /\ UNCHANGED <<view, mtrr>>

SetAccess(e, g, acc) ==
    LET targets == IF gran[e][RegionOfPage(g)] = "2M"
                   THEN PagesOfRegion(RegionOfPage(g)) ELSE {g}
    IN /\ gran[e][RegionOfPage(g)] # "none"
       /\ view' = [view EXCEPT ![e] = [p \in Pages |->
                     IF p \in targets THEN [@[p] EXCEPT !.acc = acc] ELSE @[p]]]
       /\ UNCHANGED <<gran, mtrr>>

SetFrame(e, g, frame) ==
    /\ gran[e][RegionOfPage(g)] = "4K"
    /\ view' = [view EXCEPT ![e][g].frame = frame]
    /\ UNCHANGED <<gran, mtrr>>

Rejected ==
    /\ call'.res # "Ok"
    /\ UNCHANGED <<view, gran, mtrr>>

\* A call on a page is about an entry of the one PML4 entry the Ept maps
\* (spec.md 4.1: 512 GB); beyond it no entry governs the address.
Governed(g) == g \in Pages

Next ==
    \/ Returns("build", "Ok") /\ MapIdentity(call'.e)
    \/ Returns("split", "Ok") /\ Governed(call'.page) /\ Split(call'.e, RegionOfPage(call'.page))
    \/ Returns("modify", "Ok") /\ Governed(call'.page) /\ SetAccess(call'.e, call'.page, call'.acc)
    \/ Returns("remap", "Ok") /\ Governed(call'.page) /\ SetFrame(call'.e, call'.page, call'.frame)
    \/ Rejected

Spec == Init /\ [][Next]_absVars

=============================================================================
