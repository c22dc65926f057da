--------------------------- MODULE UploadLifecycle ---------------------------
(***************************************************************************)
(* What the http server and the upload pipeline promise each other, and    *)
(* both of them to someone who polls the status of an upload and fetches   *)
(* its objects (README.md, "Poll GET /images/{id}/status until it reads    *)
(* complete"): the workflow runs for a recorded upload only and needs a    *)
(* signal to get past its timer; one verdict is reached; it is the only    *)
(* final status that is ever shown; and it tells the truth about the       *)
(* resized objects.  How the verdict is reached, and whether it gets       *)
(* shown, is the business of UploadPipeline; who may record, start and     *)
(* signal is that of HttpApi.  Both implement this.                        *)
(***************************************************************************)
CONSTANT Variants

VARIABLES
    status,     \* what a poller reads, "none" before the upload is recorded
    verdict,    \* the final status decided on, "none" before
    published,  \* the resized objects that can be fetched
    started,    \* there is a workflow
    signalled   \* it has been signalled in time

vars == <<status, verdict, published, started, signalled>>

Verdicts == {"complete", "failed", "rejected", "abandoned"}
Dead == {"rejected", "abandoned"}

Init ==
    /\ status = "none" /\ verdict = "none" /\ published = {}
    /\ started = FALSE /\ signalled = FALSE

Record ==
    /\ status = "none" /\ status' = "pending"
    /\ UNCHANGED <<verdict, published, started, signalled>>

\* A workflow is there for a recorded upload.
Start ==
    /\ status # "none" /\ started' = TRUE
    /\ UNCHANGED <<status, verdict, published, signalled>>

\* It hears a signal until the timer has decided the upload's fate.
Hear ==
    /\ started /\ verdict = "none" /\ signalled' = TRUE
    /\ UNCHANGED <<status, verdict, published, started>>

\* Nothing is resized unasked, nor for an upload that was rejected or abandoned.
Publish(v) ==
    /\ signalled /\ verdict \notin Dead
    /\ published' = published \cup {v}
    /\ UNCHANGED <<status, verdict, started, signalled>>

\* The verdict is one for good: "abandoned" without a signal, and with one any
\* other.  Validation can end with the very step that shows its start.
Decide(d) ==
    /\ started /\ verdict = "none"
    /\ signalled <=> d # "abandoned"
    /\ d = "complete" => published = Variants
    /\ d \in Dead => published = {}
    /\ verdict' = d
    /\ UNCHANGED status \/ (d = "rejected" /\ status' = "validating")
    /\ UNCHANGED <<published, started, signalled>>

\* A status that is still to be shown may trail behind the verdict, but only on
\* the verdict's own branch of the status diagram.
Show(s) ==
    /\ \/ s = "validating" /\ signalled
       \/ s = "processing" /\ signalled /\ verdict \notin Dead
       \/ s = verdict /\ s # "none"
    /\ status' = s
    /\ UNCHANGED <<verdict, published, started, signalled>>

\* The steps of the workflow's side.
Run ==
    \/ \E v \in Variants : Publish(v)
    \/ \E d \in Verdicts : Decide(d)
    \/ \E s \in {"validating", "processing"} \cup Verdicts : Show(s)

Next == Record \/ Start \/ Hear \/ Run

Spec == Init /\ [][Next]_vars
=============================================================================
