---------------------------- MODULE MCNativeAsync ----------------------------
(***************************************************************************)
(* Instances of NativeAsync for TLC.  early and other are asynchronous calls, *)
(* late is a synchronous one.                                               *)
(***************************************************************************)
EXTENDS NativeAsync, TLC

CONSTANTS o1, o2, early, other, late

(* Two attempts of the activity that overlap. *)
TwoOwners == {o1, o2}
OneOwner == {o1}

TwoCalls == {early, late}
ThreeCalls == {early, other, late}
AsyncCalls == {early, other} \cap Calls
EarlyCall == {early}
EarlyAndLate == {early, late}

OwnerSymmetry == Permutations(Owners)

=============================================================================
