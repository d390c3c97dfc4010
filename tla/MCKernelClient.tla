--------------------------- MODULE MCKernelClient ---------------------------
(* Model-checking instance of KernelClient: two servers, two requests. *)
EXTENDS KernelClient, TLC

CONSTANTS s1, s2, r1, r2

MCServers == {s1, s2}
MCReqs == {r1, r2}

\* Servers and requests are interchangeable model values.
MCSymmetry == Permutations(MCServers) \cup Permutations(MCReqs)

\* The abstract request service the client implements.
Service == INSTANCE BlockRequestService WITH
    status <- [r \in Reqs |->
                 IF r \notin submitted THEN "idle"
                 ELSE IF ended[r] = 0 THEN "pending"
                 ELSE result[r]]

\* The client implements the abstract request service.
ServiceRefinement == Service!Spec
====
