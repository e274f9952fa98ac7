------------------------- MODULE MCUserProvisioning -------------------------
(* UserProvisioning on a small instance. *)
EXTENDS UserProvisioning, TLC

\* Person a is always at 1; person h moves between 2 and 3.
SteadyAndMoving == {<<"a", 1>>, <<"h", 2>>, <<"h", 3>>}

\* 1 and 2 belong to an organization's domain, 3 to another one's.
TwoDomains == (1 :> {1}) @@ (2 :> {1}) @@ (3 :> {2})
=============================================================================
