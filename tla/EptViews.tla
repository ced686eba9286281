------------------------------ MODULE EptViews ------------------------------
(***************************************************************************)
(* What the EPT-violation protocol promises (spec.md 4.7), with no tables: *)
(* every processor has one of two views active, Primary or Secondary, and  *)
(* only its own EPT-violation exits move it.                               *)
(*   - a processor that faults is held at the faulting access, page and    *)
(*     access type, until the exit is handled;                             *)
(*   - handling a fault on the hooked page either loads the view that      *)
(*     serves the access (Secondary for an execute, Primary for a read or  *)
(*     write) or leaves the active view alone;                             *)
(*   - handling a fault on any other page leaves the active view alone.    *)
(***************************************************************************)
CONSTANTS CPUs, Pages, Hooked, NoFault

VARIABLES
    active,  \* active[c]: the view loaded in c's EPTP field
    fault    \* fault[c]: [page, need] of c's unhandled violation, or NoFault

viewVars == <<active, fault>>

Views == {"Primary", "Secondary"}
Faults == [page : Pages, need : {"R", "W", "X"}]

\* The view an access to the hooked page is served from.
ViewFor(need) == IF need = "X" THEN "Secondary" ELSE "Primary"

\* The views handling fault f may leave active on a processor in view v.
Allowed(f, v) == IF f.page = Hooked THEN {v, ViewFor(f.need)} ELSE {v}

Init ==
    /\ active = [c \in CPUs |-> "Primary"]
    /\ fault = [c \in CPUs |-> NoFault]

Fault(c, f) ==
    /\ fault[c] = NoFault
    /\ fault' = [fault EXCEPT ![c] = f]
    /\ UNCHANGED active

Handle(c) ==
    /\ fault[c] # NoFault
    /\ \E v \in Allowed(fault[c], active[c]) : active' = [active EXCEPT ![c] = v]
    /\ fault' = [fault EXCEPT ![c] = NoFault]

Next == \E c \in CPUs : Handle(c) \/ \E f \in Faults : Fault(c, f)

Spec == Init /\ [][Next]_viewVars

=============================================================================
