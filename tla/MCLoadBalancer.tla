--------------------------- MODULE MCLoadBalancer ---------------------------
(* Instances of LoadBalancer for TLC. *)
EXTENDS LoadBalancer, TLC

CONSTANTS t1, t2, t3, r1, r2, deploy, pause, main

OneTarget == <<t1>>
WriterAndReader == <<t1, t2>>
ThreeTargets == <<t1, t2, t3>>

Deployed == {"waiting"}
Restored == {"restoring"}
DeployedOrRestored == {"waiting", "restoring"}

\* A bound on the runs about the pools, which no hijacked connection touches:
\* only a drain tells it from another request.
NoHijacks == \A r \in Requests : ~hijacked[r]
=============================================================================
