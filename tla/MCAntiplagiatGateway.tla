----------------------- MODULE MCAntiplagiatGateway ------------------------
(* Instances of AntiplagiatGateway for TLC: a request of each kind.         *)
EXTENDS AntiplagiatGateway

Kinds == <<<<"POST", "/api/analyze">>, <<"GET", "/api/files/1">>, <<"GET", "/health">>,
           <<"POST", "/api/upload">>, <<"OPTIONS", "/api/upload">>, <<"GET", "/api/other">>,
           <<"PUT", "/api/files/1">>>>

MCRequests == 1 .. 7
MCMethod == [r \in MCRequests |-> Kinds[r][1]]
MCPath == [r \in MCRequests |-> Kinds[r][2]]
=============================================================================
