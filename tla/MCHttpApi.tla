------------------------------ MODULE MCHttpApi -------------------------------
(***************************************************************************)
(* Either one request for any route, or three that meet on one counter of  *)
(* limit 1 and outlive its window.                                         *)
(***************************************************************************)
EXTENDS HttpApiInv

CONSTANTS r1, r2, r3, c1, p1

MCRequests == {r1, r2, r3}
AnyRequest == [r \in MCRequests |-> [routes |-> IF r = r1 THEN v1_router ELSE {}, bodies |-> Bodies]]
OneCounter == [r \in MCRequests |-> [routes |-> {request_otp}, bodies |-> {"valid"}]]
MCLoads == {AnyRequest, OneCounter}
MCClients == {c1}
MCPhones == {p1}
MCTokenRoles == {{}, {ROLE_CUSTOMER}, {ROLE_PROVIDER}}
===============================================================================
