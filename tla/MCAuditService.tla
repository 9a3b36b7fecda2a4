--------------------------- MODULE MCAuditService ---------------------------
(* AuditService on a small instance: the process the browser talks to, and *)
(* another one over the same runs folder that writes to Revit.             *)
EXTENDS AuditService

CONSTANTS s1, s2

TwoServers == {s1, s2}
AuditsOnOne == [s \in TwoServers |->
                  IF s = s1 THEN {"audit", "write"} ELSE {"write"}]
=============================================================================
