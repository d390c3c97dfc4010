---------------------------- MODULE MCCowUploader ----------------------------
EXTENDS CowUploader

\* the bounds the runs explore; the merge loop runs its retries while
\* the server keeps refusing
MCStateBound == now <= MaxTime
====
