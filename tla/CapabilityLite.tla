--------------------------- MODULE CapabilityLite ---------------------------
(***************************************************************************)
(* CapabilityLite: tagged base/length/permissions/offset descriptors, the  *)
(* derivations of the execute stage and the authorization check of the     *)
(* memory stage.  Permissions are the set of the bits that are 1.          *)
(***************************************************************************)
EXTENDS AddressMap

PermRead  == 1
PermWrite == 2
PermExec  == 4
PermBits  == {PermRead, PermWrite, PermExec}

Capability == [tag : BOOLEAN, base : Word, length : Word,
               perms : SUBSET PermBits, offset : Word]

NullCapability == [tag |-> FALSE, base |-> 0, length |-> 0, perms |-> {}, offset |-> 0]

RamRoot  == [tag |-> TRUE, base |-> 0, length |-> RamSize,
             perms |-> {PermRead, PermWrite}, offset |-> 0]
MmioRoot == [tag |-> TRUE, base |-> MmioBase, length |-> MmioSize,
             perms |-> {PermRead, PermWrite}, offset |-> 0]

\* c0, c1 and c2 are wired to the null capability and the two roots.
CapResetValue(c) == CASE c = 1 -> RamRoot [] c = 2 -> MmioRoot [] OTHER -> NullCapability

Writable(c) == c >= 3

\* Three-bit permission words.
PermsOfWord(w) == {p \in PermBits : (w \div p) % 2 = 1}
WordOfPerms(s) == AsWord(PermRead \in s) + 2 * AsWord(PermWrite \in s)
                                         + 4 * AsWord(PermExec \in s)

Top(cap)    == cap.base + cap.length
Cursor(cap) == Wrap(cap.base + cap.offset)

\* Every address and right of a is one of b.
Within(a, b) ==
    /\ b.base <= a.base /\ Top(a) <= Top(b)
    /\ a.perms \subseteq b.perms

-----------------------------------------------------------------------------
\* Security reasons and access types, as encoded in SEC_INFO and TRAP_CAUSE.
InvalidCapability == 1
BoundsViolation   == 2
ReadPermission    == 3
WritePermission   == 4
Monotonicity      == 6
Reason == 0 .. 6

AccessRead  == 0
AccessWrite == 1
AccessCapabilityOperation == 3
AccessType  == 0 .. 3

NoViolation == [valid |-> FALSE, reason |-> 0, address |-> 0]
Violated(r, a) == [valid |-> TRUE, reason |-> r, address |-> a]

\* The derivation an OP_CAP instruction makes from the capability in cs1: whether
\* it writes cd, what it writes, and the violation it reports otherwise.
Derivation(write, cap, violation) ==
    [write |-> write, cap |-> cap, violation |-> violation]

DerivationSet ==
    [write : BOOLEAN, cap : Capability,
     violation : [valid : BOOLEAN, reason : Reason, address : Word]]

NoDerivation == Derivation(FALSE, NullCapability, NoViolation)
Refused(r, a) == Derivation(FALSE, NullCapability, Violated(r, a))
Derived(cap)  == Derivation(TRUE, cap, NoViolation)

\* Fault: the offset of the parent is left out of the bounds check.
SetBoundsIgnoringOffset(cap, len) ==
    IF cap.tag /\ len <= cap.length
    THEN Derived([cap EXCEPT !.base = Cursor(cap), !.length = len, !.offset = 0])
    ELSE Refused(IF cap.tag THEN Monotonicity ELSE InvalidCapability, Cursor(cap))

SetBounds(cap, len) ==
    IF /\ cap.tag
       /\ cap.offset <= cap.length
       /\ len <= cap.length - cap.offset
    THEN Derived([cap EXCEPT !.base = Cursor(cap), !.length = len, !.offset = 0])
    ELSE Refused(IF cap.tag THEN Monotonicity ELSE InvalidCapability, Cursor(cap))

AndPerm(cap, mask) ==
    IF cap.tag
    THEN Derived([cap EXCEPT !.perms = @ \intersect PermsOfWord(mask)])
    ELSE Refused(InvalidCapability, cap.base)

IncOffset(cap, delta) ==
    LET newOffset == cap.offset + Signed(delta)
    IN  IF cap.tag /\ 0 <= newOffset /\ newOffset <= cap.length
        THEN Derived([cap EXCEPT !.offset = newOffset])
        ELSE Refused(IF cap.tag THEN BoundsViolation ELSE InvalidCapability, Cursor(cap))

Derive(i, cap, rs2) ==
    CASE i.fn = "CSETBOUNDS" -> SetBounds(cap, rs2)
      [] i.fn = "CANDPERM"   -> AndPerm(cap, rs2)
      [] i.fn = "CINCOFFSET" -> IncOffset(cap, rs2)
      [] i.fn = "CCLEAR"     -> Derived(NullCapability)
      [] OTHER               -> NoDerivation

\* What CGETBASE .. CGETOFFSET return; the other operations put 0 on the bus.
CapField(fn, cap) ==
    CASE fn = "CGETBASE"   -> cap.base
      [] fn = "CGETLEN"    -> cap.length
      [] fn = "CGETTAG"    -> AsWord(cap.tag)
      [] fn = "CGETPERM"   -> WordOfPerms(cap.perms)
      [] fn = "CGETOFFSET" -> cap.offset
      [] OTHER             -> 0

\* Fault: no upper bound.
CheckReasonWithoutTop(cap, address, size, isWrite) ==
    CASE ~cap.tag -> InvalidCapability
      [] cap.tag /\ address < cap.base -> BoundsViolation
      [] OTHER ->
           IF isWrite
           THEN IF PermWrite \in cap.perms THEN 0 ELSE WritePermission
           ELSE IF PermRead \in cap.perms THEN 0 ELSE ReadPermission

\* CapabilityChecker: the first of tag, bounds and permission that fails decides
\* the reason; 0 allows the access.  Nothing wraps: the sums have 33 bits.
CheckReason(cap, address, size, isWrite) ==
    CASE ~cap.tag -> InvalidCapability
      [] cap.tag /\ ~(cap.base <= address /\ address + size <= Top(cap)) -> BoundsViolation
      [] OTHER ->
           IF isWrite
           THEN IF PermWrite \in cap.perms THEN 0 ELSE WritePermission
           ELSE IF PermRead \in cap.perms THEN 0 ELSE ReadPermission
=============================================================================
