---------------------------- MODULE GemmService ----------------------------
(***************************************************************************)
(* What the accelerator promises the host, without its pipeline: a job is  *)
(* loaded beat by beat over two independent streams, its result is then    *)
(* delivered beat by beat, and one status tells which of the three it is   *)
(* (rtl/GEMM_top.v as the host sees it through status and streams).        *)
(***************************************************************************)
EXTENDS Integers

CONSTANTS
  Jobs          \* jobs run one after the other

VARIABLES
  InputBeats,   \* beats of each input stream, per job
  OutputBeats,  \* beats of the result stream, per job
  job,          \* the running job
  sent,         \* input beats taken, per channel
  received,     \* result beats delivered
  status        \* idle, busy or done

vars == <<InputBeats, OutputBeats, job, sent, received, status>>

Channels == {"feature", "weight"}

Init ==
  /\ job = 1
  /\ sent = [ch \in Channels |-> 0]
  /\ received = 0
  /\ status = "idle"

Loaded == sent = InputBeats[job]

\* One beat of each channel in S is taken; the job is busy from the first.
Load(S) ==
  /\ S # {}
  /\ job <= Jobs
  /\ \A ch \in S : sent[ch] < InputBeats[job][ch]
  /\ sent' = [ch \in Channels |-> IF ch \in S THEN sent[ch] + 1 ELSE sent[ch]]
  /\ status' = "busy"
  /\ UNCHANGED <<job, received>>

\* A result beat is delivered, only once all input was taken.
Deliver ==
  /\ job <= Jobs
  /\ Loaded
  /\ status = "busy"
  /\ received < OutputBeats[job] - 1
  /\ received' = received + 1
  /\ UNCHANGED <<job, sent, status>>

\* The last result beat ends the job.
DeliverLast ==
  /\ job <= Jobs
  /\ Loaded
  /\ status = "busy"
  /\ received = OutputBeats[job] - 1
  /\ received' = 0
  /\ sent' = [ch \in Channels |-> 0]
  /\ job' = job + 1
  /\ status' = "done"

\* The host clears done; a running job is not affected.
ClearDone ==
  /\ status = "done"
  /\ status' = "idle"
  /\ UNCHANGED <<job, sent, received>>

Next == /\ \/ \E S \in SUBSET Channels : Load(S)
           \/ Deliver
           \/ DeliverLast
           \/ ClearDone
        /\ UNCHANGED <<InputBeats, OutputBeats>>

Spec == Init /\ [][Next]_vars

=============================================================================
