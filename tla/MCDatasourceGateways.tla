------------------------ MODULE MCDatasourceGateways ------------------------
(* Three requests, up to symmetry: two share a gateway and the third       *)
(* evicts it with another sampling, or names an unregistered datasource.   *)
EXTENDS DatasourceGateways

CONSTANTS r1, r2, r3, s1, s3, c1, c2

MCAsks ==
    {[r \in Requests |-> IF r = r3 THEN k ELSE <<s1, c1>>] :
        k \in {<<s1, c2>>, <<s3, c1>>}}
=============================================================================
