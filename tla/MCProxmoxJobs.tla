--------------------------- MODULE MCProxmoxJobs ---------------------------
EXTENDS ProxmoxJobs, TLC

CONSTANTS create, delete, c1, c2, c3

\* Two calls race for the first job's key.
MCKeyOf == c1 :> create @@ c2 :> create @@ c3 :> delete
FewKeyOf == c1 :> create @@ c3 :> delete
=============================================================================
