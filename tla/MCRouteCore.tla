---------------------------- MODULE MCRouteCore ----------------------------
(***************************************************************************)
(* Instances of RouteCore for TLC.                                          *)
(***************************************************************************)
EXTENDS RouteCoreRefinement, TLC

CONSTANTS a, b       \* two roles
CONSTANTS ws, auth   \* a workspace and an auth unit

\* Both roles run on one workspace; b also needs the auth unit.
SharedNeeds == (a :> {ws}) @@ (b :> {ws, auth})

\* Requests: to a role, completed towards the user, role a, or role b.
AForUser == [to |-> a, mode |-> "result", dest |-> User, problem |-> User]
BForA    == [to |-> b, mode |-> "result", dest |-> a, problem |-> User]
BReports == [to |-> b, mode |-> "result", dest |-> a, problem |-> a]
AThenB   == [to |-> a, mode |-> "handoff", dest |-> b, problem |-> User]
OnlyA    == {AForUser}
OnlyB    == {BForA}
Delegate == {AForUser, BForA}
Handoff  == {AThenB, BReports}
UserAny  == {AThenB, BForA}
Defaults == (a :> User) @@ (b :> User)

=============================================================================
