----------------------------- MODULE CowUploader -----------------------------
(* The background uploader of the copy-on-write FUSE client               *)
(* (src/fuse/cowfile.c: cowfile_uploader, uploaderLoop, MessageHandler,   *)
(* addUpload, finishUpload, startMerge) together with the part of         *)
(* writeData it races with: a write stores the block's data and then      *)
(* stamps block->timeChanged with time(NULL).                             *)
(*                                                                         *)
(* A metadata block is one number: the version of its data.  Each write   *)
(* makes a new version; the server holds the version of the last upload   *)
(* it accepted.  curl's multi handle is the sequence hs of transfers;     *)
(* curl_multi_perform moves them on, and activeUploads is the number of   *)
(* running transfers curl reported at the last perform.                   *)
EXTENDS Integers, Sequences, SequencesExt, FiniteSets

CONSTANTS
    NBlocks,          \* metadata blocks, visited in this order by a pass
    MaxBg,            \* COW_MAX_PARALLEL_BACKGROUND_UPLOADS
    MaxFg,            \* COW_MAX_PARALLEL_UPLOADS
    Retries,          \* finishUpload retries a block while fails <= 5
    MergeRetries,     \* startMerge retries while fails <= 5
    Delay,            \* COW_MIN_UPLOAD_DELAY, in clock ticks
    MaxTime,          \* the last tick of time(NULL) explored
    MaxWrites,        \* writes the client makes
    MaxFailures,      \* failed transfers the server and network cause
    SameSecondWrites, \* may the client write a block twice in one second?
    MergeAfterUpload, \* cow_merge_after_upload
    HandleBound       \* transfers the model keeps in the multi handle

ASSUME /\ NBlocks \in Nat \ {0}
       /\ \A x \in {MaxBg, MaxFg, HandleBound} : x \in Nat \ {0}
       /\ \A x \in {Retries, MergeRetries, Delay, MaxWrites, MaxFailures} : x \in Nat
       /\ MaxTime \in Nat \ {0}
       /\ SameSecondWrites \in BOOLEAN /\ MergeAfterUpload \in BOOLEAN

Blocks == 1..NBlocks
MaxUploads(ign) == IF ign THEN MaxFg ELSE MaxBg

VARIABLES
    ver,          \* the data of each block in the data file (a version)
    wpc,          \* each block's writer: "idle" or "stamp" (data written,
                  \* timeChanged not yet)
    tc,           \* block->timeChanged (0: clean)
    lastStamp,    \* the last time a write stamped the block
    now,          \* time(NULL)
    writes,       \* writes made
    uploadLoop,   \* cleared by cowfile_close at unmount
    srv,          \* the version of each block the server accepted last
    hs,           \* transfers in the curl multi handle
    activeUploads,
    failures,     \* failed transfers so far
    upc,          \* the uploader thread's place in its loops
    blk,          \* uploaderLoop's current block
    ign,          \* ignoreMinUploadDelay of the current pass
    brk,          \* breakIfNotMax of the current MessageHandler call
    ret,          \* where MessageHandler returns to: "add" or "drain"
    status,       \* MessageHandler's status
    success,      \* uploaderLoop's success
    uploadLoopDone,
    merges,       \* merge requests the server accepted
    mfails,       \* startMerge's fails
    msuccess      \* startMerge's success

writer == <<ver, wpc, tc, lastStamp, now, writes, uploadLoop>>
uploader == <<hs, activeUploads, failures, upc, blk, ign, brk, ret, status, success,
              uploadLoopDone>>
merger == <<merges, mfails, msuccess>>
vars == <<writer, srv, uploader, merger>>

Running(h) == h.st = "run"
RunningCount(s) == Cardinality({j \in 1..Len(s) : Running(s[j])})

-----------------------------------------------------------------------------
(* The client's writes (writeData) and the clock.                          *)

\* pwrite of the block's data; the bits are set with it.  The code lets a
\* block be stamped twice in one second (time(NULL) has one-second
\* resolution); with SameSecondWrites FALSE the model assumes a client
\* that never writes a block again within the second of its last stamp,
\* which separates the outcomes of the timeChanged compare-and-swap that
\* need that coincidence from those that do not.
WriteData(b) ==
    /\ uploadLoop
    /\ wpc[b] = "idle"
    /\ writes < MaxWrites
    /\ SameSecondWrites \/ lastStamp[b] < now
    /\ ver' = [ver EXCEPT ![b] = writes + 1]
    /\ writes' = writes + 1
    /\ wpc' = [wpc EXCEPT ![b] = "stamp"]
    /\ UNCHANGED <<tc, lastStamp, now, uploadLoop, srv, uploader, merger>>

\* block->timeChanged = time(NULL)
Stamp(b) ==
    /\ wpc[b] = "stamp"
    /\ tc' = [tc EXCEPT ![b] = now]
    /\ lastStamp' = [lastStamp EXCEPT ![b] = now]
    /\ wpc' = [wpc EXCEPT ![b] = "idle"]
    /\ UNCHANGED <<ver, now, writes, uploadLoop, srv, uploader, merger>>

Tick ==
    /\ now < MaxTime
    /\ now' = now + 1
    /\ UNCHANGED <<ver, wpc, tc, lastStamp, writes, uploadLoop, srv, uploader, merger>>

\* cowfile_close, once FUSE has stopped handing out writes
Unmount ==
    /\ uploadLoop
    /\ \A b \in Blocks : wpc[b] = "idle"
    /\ uploadLoop' = FALSE
    /\ UNCHANGED <<ver, wpc, tc, lastStamp, now, writes, srv, uploader, merger>>

-----------------------------------------------------------------------------
(* The uploader thread.                                                    *)

\* cowfile_uploader: uploaderLoop(false) while uploadLoop, then once
\* uploaderLoop(true); each call starts with success = true
PassStart ==
    /\ upc = "pass"
    /\ upc' = "scan"
    /\ blk' = 1
    /\ ign' = ~uploadLoop
    /\ success' = TRUE
    /\ UNCHANGED <<writer, srv, hs, activeUploads, failures, brk, ret, status,
                   uploadLoopDone, merger>>

\* a block uploaderLoop uploads: allocated (a block that was never
\* written has timeChanged 0), dirty, and quiet for COW_MIN_UPLOAD_DELAY
\* unless the delay is ignored
Due(b) == tc[b] # 0 /\ (now - tc[b] > Delay \/ ign)

CallMessageHandler(breakIfNotMax, returnTo) ==
    /\ upc' = "perform"
    /\ brk' = breakIfNotMax
    /\ ret' = returnTo
    /\ status' = TRUE

\* one iteration of the loop over the L1 and L2 arrays; a due block first
\* waits in MessageHandler(cm, &activeUploads, true, ...) for a free slot
Scan ==
    /\ upc = "scan"
    /\ IF blk > NBlocks
       THEN /\ upc' = "drain"
            /\ UNCHANGED <<blk, brk, ret, status>>
       ELSE IF Due(blk)
       THEN /\ CallMessageHandler(TRUE, "add")
            /\ UNCHANGED blk
       ELSE /\ blk' = blk + 1
            /\ UNCHANGED <<upc, brk, ret, status>>
    /\ UNCHANGED <<writer, srv, hs, activeUploads, failures, ign, success,
                   uploadLoopDone, merger>>

\* what curl_multi_perform may do with one transfer: leave it, move it on
\* (the read callback streams the bitfield and the block's data; then the
\* server answers 200), or fail it.  A transfer whose read position was
\* left at the end by an earlier attempt has no body left to send.
Allowed(h, c) == c = "stay" \/ (Running(h) /\ (c = "fail" \/ ~h.partial))

Advance(h) ==
    IF ~h.read THEN [h EXCEPT !.read = TRUE, !.data = ver[h.blk]]
    ELSE [h EXCEPT !.st = "done", !.ok = TRUE]

Outcome(h, c) ==
    CASE c = "stay" -> h
      [] c = "adv"  -> Advance(h)
      [] OTHER      -> [h EXCEPT !.st = "done", !.ok = FALSE]

\* curl_multi_perform(cm, activeUploads): transfers move on and
\* activeUploads becomes the number still running
Perform ==
    /\ upc = "perform"
    /\ \E f \in [1..Len(hs) -> {"stay", "adv", "fail"}] :
         LET next == [j \in 1..Len(hs) |-> Outcome(hs[j], f[j])]
             lost == Cardinality({j \in 1..Len(hs) : f[j] = "fail" /\ ~hs[j].partial})
         IN /\ \A j \in 1..Len(hs) : Allowed(hs[j], f[j])
            /\ failures + lost <= MaxFailures
            /\ hs' = next
            /\ failures' = failures + lost
            /\ activeUploads' = RunningCount(next)
    /\ upc' = "msgs"
    /\ UNCHANGED <<writer, srv, blk, ign, brk, ret, status, success, uploadLoopDone, merger>>

\* mutant: the success path clears timeChanged without the compare
finishUploadClearAlways(j) ==
    LET h == hs[j]
        rest == RemoveAt(hs, j)
    IN IF ~h.ok
       THEN IF h.fails + 1 <= Retries
            THEN /\ hs' = Append(rest, [h EXCEPT !.fails = @ + 1, !.st = "run",
                                                 !.read = FALSE,
                                                 !.partial = h.read \/ h.partial])
                 /\ UNCHANGED <<tc, srv, status>>
            ELSE /\ hs' = rest
                 /\ status' = FALSE
                 /\ UNCHANGED <<tc, srv>>
       ELSE /\ hs' = rest
            /\ srv' = [srv EXCEPT ![h.blk] = h.data]
            /\ tc' = [tc EXCEPT ![h.blk] = 0]
            /\ UNCHANGED status

\* mutant: a failed transfer is added again whatever its fails
finishUploadRetryForever(j) ==
    LET h == hs[j]
        rest == RemoveAt(hs, j)
    IN IF ~h.ok
       THEN /\ hs' = Append(rest, [h EXCEPT !.fails = @ + 1, !.st = "run",
                                            !.read = FALSE,
                                            !.partial = h.read \/ h.partial])
            /\ UNCHANGED <<tc, srv, status>>
       ELSE /\ hs' = rest
            /\ srv' = [srv EXCEPT ![h.blk] = h.data]
            /\ tc' = IF tc[h.blk] = h.time THEN [tc EXCEPT ![h.blk] = 0] ELSE tc
            /\ UNCHANGED status

\* finishUpload: a failed transfer is added again (addUpload with the same
\* cow_curl_read_upload_t, its position and captured time kept) while
\* fails <= 5, otherwise dropped with status false; a successful one clears
\* timeChanged only if it still holds the time captured at the start
finishUpload(j) ==
    LET h == hs[j]
        rest == RemoveAt(hs, j)
    IN IF ~h.ok
       THEN IF h.fails + 1 <= Retries
            THEN /\ hs' = Append(rest, [h EXCEPT !.fails = @ + 1, !.st = "run",
                                                 !.read = FALSE,
                                                 !.partial = h.read \/ h.partial])
                 /\ UNCHANGED <<tc, srv, status>>
            ELSE /\ hs' = rest
                 /\ status' = FALSE
                 /\ UNCHANGED <<tc, srv>>
       ELSE /\ hs' = rest
            /\ srv' = [srv EXCEPT ![h.blk] = h.data]
            /\ tc' = IF tc[h.blk] = h.time THEN [tc EXCEPT ![h.blk] = 0] ELSE tc
            /\ UNCHANGED status

\* while ((msg = curl_multi_info_read(cm, &msgsLeft))) finishUpload(...)
Msgs ==
    /\ upc = "msgs"
    /\ LET j == SelectInSeq(hs, LAMBDA h : h.st = "done")
       IN IF j = 0
          THEN /\ upc' = "check"
               /\ UNCHANGED <<hs, tc, srv, status>>
          ELSE /\ finishUpload(j)
               /\ UNCHANGED upc
    /\ UNCHANGED <<ver, wpc, lastStamp, now, writes, uploadLoop, activeUploads, failures,
                   blk, ign, brk, ret, success, uploadLoopDone, merger>>

\* MessageHandler returns: to the do-while in front of addUpload, or to
\* the loop at DONE, which ignores its status.  The do-while calls it
\* again while !(activeUploads < max) && activeUploads, but a call with
\* breakIfNotMax returns only when activeUploads < max or is 0, so the
\* do-while always goes on to addUpload.
Return ==
    IF ret = "add"
    THEN /\ success' = (success /\ status)
         /\ upc' = "add"
         /\ UNCHANGED status
    ELSE /\ upc' = "drain"
         /\ UNCHANGED <<success, status>>

\* mutant: breaks out once activeUploads reaches the limit
CheckAtLimit ==
    /\ upc = "check"
    /\ IF (brk /\ activeUploads <= MaxUploads(ign)) \/ activeUploads = 0
       THEN Return
       ELSE /\ upc' = "perform"
            /\ UNCHANGED <<success, status>>
    /\ UNCHANGED <<writer, srv, hs, activeUploads, failures, blk, ign, brk, ret,
                   uploadLoopDone, merger>>

\* mutant: the loop only ends through breakIfNotMax
CheckNoIdleExit ==
    /\ upc = "check"
    /\ IF brk /\ activeUploads < MaxUploads(ign)
       THEN Return
       ELSE /\ upc' = "perform"
            /\ UNCHANGED <<success, status>>
    /\ UNCHANGED <<writer, srv, hs, activeUploads, failures, blk, ign, brk, ret,
                   uploadLoopDone, merger>>

\* the end of one round of MessageHandler's do-while: break when a slot
\* is free (breakIfNotMax), stop when no upload is active, otherwise
\* curl_multi_wait and perform again
Check ==
    /\ upc = "check"
    /\ IF (brk /\ activeUploads < MaxUploads(ign)) \/ activeUploads = 0
       THEN Return
       ELSE /\ upc' = "perform"
            /\ UNCHANGED <<success, status>>
    /\ UNCHANGED <<writer, srv, hs, activeUploads, failures, blk, ign, brk, ret,
                   uploadLoopDone, merger>>

\* malloc a cow_curl_read_upload_t with fails 0, position 0 and time
\* read from block->timeChanged now, then addUpload; a background pass
\* that notices the unmount jumps to DONE
AddUpload ==
    /\ upc = "add"
    /\ Len(hs) < HandleBound
    /\ hs' = Append(hs, [blk |-> blk, time |-> tc[blk], fails |-> 0, st |-> "run",
                         read |-> FALSE, partial |-> FALSE, ok |-> FALSE, data |-> 0])
    /\ IF ~ign /\ ~uploadLoop
       THEN /\ upc' = "drain"
            /\ UNCHANGED blk
       ELSE /\ upc' = "scan"
            /\ blk' = blk + 1
    /\ UNCHANGED <<writer, srv, activeUploads, failures, ign, brk, ret, status, success,
                   uploadLoopDone, merger>>

\* DONE: while (activeUploads > 0) MessageHandler(cm, ..., false, ...);
\* then uploaderLoop returns success.  A background pass sleeps and
\* starts again; the forced pass ends cowfile_uploader, which calls
\* curl_multi_cleanup, sets uploadLoopDone and, only after a successful
\* pass, calls startMerge if cow_merge_after_upload is set
Drain ==
    /\ upc = "drain"
    /\ IF activeUploads > 0
       THEN /\ CallMessageHandler(FALSE, "drain")
            /\ UNCHANGED <<hs, uploadLoopDone>>
       ELSE /\ UNCHANGED <<brk, ret, status>>
            /\ IF ~ign
               THEN /\ upc' = "pass"
                    /\ UNCHANGED <<hs, uploadLoopDone>>
               ELSE /\ upc' = IF success /\ MergeAfterUpload THEN "merge" ELSE "end"
                    /\ hs' = <<>>
                    /\ uploadLoopDone' = TRUE
    /\ UNCHANGED <<writer, srv, activeUploads, failures, blk, ign, success, merger>>

\* mergeRequest: the server may accept the request or not
RequestMerge(ok) ==
    /\ merges' = merges + (IF ok THEN 1 ELSE 0)

\* startMerge: success = mergeRequest(); while (fails <= 5 && !success)
\* { fails++; mergeRequest(); } (the result of the retry is not stored)
startMerge ==
    /\ upc = "merge"
    /\ \E ok \in BOOLEAN : RequestMerge(ok) /\ msuccess' = ok
    /\ upc' = "mergeloop"
    /\ UNCHANGED <<writer, srv, hs, activeUploads, failures, blk, ign, brk, ret, status,
                   success, uploadLoopDone, mfails>>

\* mutant: the retry loop is bounded by success alone
MergeLoopUnbounded ==
    /\ upc = "mergeloop"
    /\ IF ~msuccess
       THEN /\ mfails' = mfails + 1
            /\ \E ok \in BOOLEAN : RequestMerge(ok)
            /\ UNCHANGED upc
       ELSE /\ upc' = "end"
            /\ UNCHANGED <<merges, mfails>>
    /\ UNCHANGED <<writer, srv, hs, activeUploads, failures, blk, ign, brk, ret, status,
                   success, uploadLoopDone, msuccess>>

MergeLoop ==
    /\ upc = "mergeloop"
    /\ IF mfails <= MergeRetries /\ ~msuccess
       THEN /\ mfails' = mfails + 1
            /\ \E ok \in BOOLEAN : RequestMerge(ok)
            /\ UNCHANGED upc
       ELSE /\ upc' = "end"
            /\ UNCHANGED <<merges, mfails>>
    /\ UNCHANGED <<writer, srv, hs, activeUploads, failures, blk, ign, brk, ret, status,
                   success, uploadLoopDone, msuccess>>

\* the uploader thread has returned; cowfile_close's join completes
Finished ==
    /\ upc = "end"
    /\ UNCHANGED vars

-----------------------------------------------------------------------------

\* cowfile_load / cowfile_init: a fresh image, the uploader thread
\* started with uploadLoop = true and an empty multi handle
Init ==
    /\ ver = [b \in Blocks |-> 0]
    /\ wpc = [b \in Blocks |-> "idle"]
    /\ tc = [b \in Blocks |-> 0]
    /\ lastStamp = [b \in Blocks |-> 0]
    /\ now = 1
    /\ writes = 0
    /\ uploadLoop = TRUE
    /\ srv = [b \in Blocks |-> 0]
    /\ hs = <<>>
    /\ activeUploads = 0
    /\ failures = 0
    /\ upc = "pass"
    /\ blk = 1
    /\ ign = FALSE
    /\ brk = FALSE
    /\ ret = "drain"
    /\ status = TRUE
    /\ success = TRUE
    /\ uploadLoopDone = FALSE
    /\ merges = 0
    /\ mfails = 0
    /\ msuccess = FALSE

UploaderStep ==
    \/ PassStart \/ Scan \/ Perform \/ Msgs \/ Check \/ AddUpload \/ Drain
    \/ startMerge \/ MergeLoop

Next ==
    \/ \E b \in Blocks : WriteData(b) \/ Stamp(b)
    \/ Tick \/ Unmount
    \/ UploaderStep
    \/ Finished

\* a perform in which some transfer moves on or ends
PerformProgress == Perform /\ hs' # hs

\* The uploader thread is scheduled (weak fairness), a transfer that can
\* move on eventually does (strong: it can only at a perform), and the
\* writer's stamp follows its pwrite.  Writes, the clock and the unmount
\* are the environment's and get no fairness.
Fairness ==
    /\ WF_vars(UploaderStep)
    /\ SF_vars(PerformProgress)
    /\ \A b \in Blocks : WF_vars(Stamp(b))

Spec == Init /\ [][Next]_vars /\ Fairness

-----------------------------------------------------------------------------
(* Properties.                                                             *)

Handle == [blk : Blocks, time : 0..MaxTime, fails : 0..Retries, st : {"run", "done"},
           read : BOOLEAN, partial : BOOLEAN, ok : BOOLEAN, data : 0..MaxWrites]

TypeOK ==
    /\ ver \in [Blocks -> 0..MaxWrites] /\ srv \in [Blocks -> 0..MaxWrites]
    /\ wpc \in [Blocks -> {"idle", "stamp"}]
    /\ tc \in [Blocks -> 0..MaxTime] /\ lastStamp \in [Blocks -> 0..MaxTime]
    /\ now \in 1..MaxTime /\ writes \in 0..MaxWrites
    /\ hs \in Seq(Handle) /\ Len(hs) <= HandleBound
    /\ activeUploads \in 0..HandleBound /\ failures \in 0..MaxFailures
    /\ upc \in {"pass", "scan", "perform", "msgs", "check", "add", "drain", "merge",
                "mergeloop", "end"}
    /\ blk \in 1..NBlocks + 1 /\ ret \in {"add", "drain"}
    /\ {uploadLoop, ign, brk, status, success, uploadLoopDone, msuccess} \subseteq BOOLEAN
    /\ merges \in Nat /\ mfails \in 0..MergeRetries + 1

\* A block whose timeChanged finishUpload's compare-and-swap has reset to
\* 0, and that no write is between pwrite and stamp on, has the server
\* holding its current data: a clean block is never left behind by an
\* upload that read older data than the data file holds.
CleanMeansUploaded ==
    \A b \in Blocks : tc[b] = 0 /\ wpc[b] = "idle" => srv[b] = ver[b]

\* When cowfile_uploader sets uploadLoopDone after a forced pass that
\* reported success ("all blocks uploaded", and the merge may follow),
\* the server holds the current data of every block.
AllUploaded ==
    uploadLoopDone /\ success => \A b \in Blocks : srv[b] = ver[b]

\* At most COW_MAX_PARALLEL_BACKGROUND_UPLOADS transfers run during
\* steady state and COW_MAX_PARALLEL_UPLOADS during the final drain.
ParallelBound ==
    RunningCount(hs) <= MaxUploads(ign)

\* Once cowfile_close clears uploadLoop, the uploader thread finishes
\* and sets uploadLoopDone (cowfile_close joins it).
DrainTerminates ==
    ~uploadLoop ~> uploadLoopDone

====
