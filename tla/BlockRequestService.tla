------------------------- MODULE BlockRequestService -------------------------
(***************************************************************************)
(* What the kernel client promises the block layer for its read requests: *)
(* a submitted request is pending until it is ended once, with data or    *)
(* with an I/O error, and it is eventually ended.                          *)
(***************************************************************************)
CONSTANTS Reqs

VARIABLE status

Status == {"idle", "pending", "ok", "ioerr"}

TypeOK == status \in [Reqs -> Status]

Init == status = [r \in Reqs |-> "idle"]

\* dnbd3_queue_rq accepted the request.
Submit(r) ==
    /\ status[r] = "idle"
    /\ status' = [status EXCEPT ![r] = "pending"]

\* blk_mq_end_request with BLK_STS_OK or BLK_STS_IOERR on the pending
\* requests S; failing all requests ends several at once.
End(S) ==
    /\ S # {}
    /\ \A r \in S : status[r] = "pending"
    /\ \E res \in [S -> {"ok", "ioerr"}] :
          status' = [r \in Reqs |-> IF r \in S THEN res[r] ELSE status[r]]

\* Some step ends request r.
Ends(r) == \E S \in SUBSET Reqs : r \in S /\ End(S)

Next == \/ \E r \in Reqs : Submit(r)
        \/ \E S \in SUBSET Reqs : End(S)

Spec == Init /\ [][Next]_status /\ \A r \in Reqs : WF_status(Ends(r))
====
