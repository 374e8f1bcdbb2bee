------------------------ MODULE MCClusterMembership ------------------------
(***************************************************************************)
(* Cuts of the network for instances of ClusterMembership.                 *)
(***************************************************************************)
EXTENDS ClusterMembership

Isolation(n) == {{n, m} : m \in Node \ {n}}

\* One node is cut off for good.
MCIsolations == {Isolation(n) : n \in Node}

\* The home of the actor is cut off and comes back.
MCRejoin == {Isolation(Home), {}}
=============================================================================
