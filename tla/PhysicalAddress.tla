--------------------------- MODULE PhysicalAddress ---------------------------
(***************************************************************************)
(* PhysicalAddress of hypervisor/src/intel/addresses.rs: a u64 physical   *)
(* address with conversions from and to page frame numbers.  Arithmetic    *)
(* keeps the width of the word: AddressWidth stands for the 64 bits of a   *)
(* u64 (TLC's integers are narrower), BasePageShift is BASE_PAGE_SHIFT.    *)
(* The variable is a PFN the code converts; it never changes, so each      *)
(* initial state is one input checked.                                     *)
(***************************************************************************)
EXTENDS Integers

CONSTANTS
    AddressWidth,   \* bits of the address word (64 in the code)
    BasePageShift,  \* BASE_PAGE_SHIFT (12)
    Pfns            \* page frame numbers passed to from_pfn

ASSUME /\ AddressWidth \in Nat /\ BasePageShift \in 1 .. AddressWidth
       /\ Pfns \subseteq 0 .. (2^AddressWidth - 1)

\* A u64 result: the value modulo 2^64 (<< drops the bits shifted out).
Word(n) == n % (2^AddressWidth)

\* PhysicalAddress::from_pa and pa: the u64 is kept as it is.
FromPa(pa) == Word(pa)
Pa(addr) == addr

\* PhysicalAddress::from_pfn and pfn.
FromPfn(pfn) == FromPa(pfn * 2^BasePageShift)
PfnOf(addr) == Pa(addr) \div (2^BasePageShift)

VARIABLE pfn

Init == pfn \in Pfns
Next == UNCHANGED pfn
Spec == Init /\ [][Next]_pfn

(* spec.md 3 and 8: from_pfn(x).pfn() == x for every x; the code shifts   *)
(* a u64 left by BASE_PAGE_SHIFT, so a PFN with any of its top 12 bits     *)
(* set loses them.                                                         *)
PfnRoundTrip == PfnOf(FromPfn(pfn)) = pfn

=============================================================================
