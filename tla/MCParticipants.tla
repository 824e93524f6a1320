--------------------------- MODULE MCParticipants ---------------------------
(***************************************************************************)
(* A role that is run by the Core and one that is worked by a participant.  *)
(***************************************************************************)
EXTENDS Participants, TLC

CONSTANTS native, guest, ws, k1, k2

MCRole == {native, guest}
MCNeeds == (native :> {ws}) @@ (guest :> {})
ForUser(o) == [to |-> o, mode |-> "result", dest |-> User, problem |-> User]
ForNative == [to |-> guest, mode |-> "result", dest |-> native, problem |-> User]
Work == {ForUser(native), ForUser(guest)}
Delegated == {ForNative}
Defaults == (native :> User) @@ (guest :> User)
MCProfiled == {native}
MCAttached == {guest}
KeySymmetry == Permutations(Key)
=============================================================================
