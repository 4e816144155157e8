---------------------------- MODULE HakoValuesMC ----------------------------
(* The value entry points for TLC: two calls in a row, so that a result  *)
(* or a pending exception of the first meets the second.                  *)
EXTENDS HakoValues

MCMaxCalls == 2
MCMaxJobs == 1

\* No reference is lost or dropped twice: every count stays >= 0, and
\* between calls, once the host has released what it was given, no local
\* of HAKO_Dump, HAKO_ToJson, HAKO_CopyTypedArrayBuffer or the host holds a
\* reference (the frees of Dump's loop and of the cleanup: labels).
ValuesBalanced ==
    /\ \A l \in Locals : live[l] >= 0
    /\ vpc = "idle" => \A l \in Locals : live[l] = 0

\* Every entry point the host calls returns to it: HAKO_Dump's walk down
\* the cause chain stops at depth 2 even when the chain is a cycle, and
\* every other entry point runs straight to its return.
CallsReturn == (vpc \notin {"idle", "returned"}) ~> (vpc = "returned")

\* HAKO_ExecutePendingJob's result tells the host what happened: -1 names,
\* in *out_last_job_ctx, the context of the job that threw (where the
\* host then looks for the exception); a count short of the limit means the
\* queue was drained.  About the loop's exit test and the stores of pctx on
\* each of its paths.
JobsRunAsReported ==
    vpc = "returned" /\ arg \in DOMAIN MaxJobsArg =>
        /\ out = "error" => lastCtx = failedIn
        /\ out = "count" /\ executed # MaxJobsArg[arg] => jobs = << >>

\* hako.h:117-118: max_jobs_to_execute 0 runs jobs without limit, so a call
\* with 0 that returns a count leaves no job pending; and *out_last_job_ctx
\* is set to the context of the last job the call ran.
JobsAsDocumented ==
    vpc = "returned" /\ arg \in DOMAIN MaxJobsArg /\ out = "count" =>
        /\ arg = "zero" => jobs = << >>
        /\ executed > 0 => lastCtx \in Ctxs

\* The host never hands a free function what the matching allocation did
\* not make: HAKO_FreeCString gets only strings of JS_ToCString (hako.h
\* says HAKO_Dump's result is freed with it), HAKO_FreeValuePointer only
\* boxes of values the call made (hako.h says so of both resolving
\* functions of HAKO_NewPromiseCapability).
FreedAsAllocated == ~badFree
=============================================================================
