------------------------------- MODULE TallySync -----------------------------
(***************************************************************************)
(* The Tally queue: tally/tally-queue.service.ts queues a job with each    *)
(* posted document, tally/tally-sync.service.ts claims due jobs, pushes    *)
(* them to Tally Prime outside any transaction and records the outcome.    *)
(* Passes overlap: the timer starts one every two minutes and an           *)
(* accountant can start another one.                                       *)
(*                                                                         *)
(* Time is abstracted: next_attempt_at and locked_until pass at any later  *)
(* moment, and PassOutlivesLease says whether a pass may still be at work  *)
(* on a batch when the two-minute lease of one of its jobs runs out.       *)
(***************************************************************************)
EXTENDS Integers, FiniteSets

CONSTANTS
    Job,                 \* posted documents, at most one job each
    Pass,                \* runs of runTallySync that can overlap
    Limit,               \* how many jobs a pass claims
    MAX_AUTO_ATTEMPTS,   \* automatic attempts before a manual retry is needed
    PassOutlivesLease,   \* may a lease run out under a working pass
    MaxCrashes,          \* bound: passes that die with claimed jobs
    MaxRetries           \* bound: manual retries

NotQueued == 0

ASSUME TallyAssumption ==
    /\ Limit \in Nat \ {0}
    /\ MAX_AUTO_ATTEMPTS \in Nat \ {0}
    /\ PassOutlivesLease \in BOOLEAN
    /\ MaxCrashes \in Nat
    /\ MaxRetries \in Nat

VARIABLES
    status,     \* tally_sync_job.status, or ABSENT
    created,    \* rank of created_at, or NotQueued
    attempts,   \* tally_sync_job.attempts
    due,        \* next_attempt_at <= now()
    lapsed,     \* locked_until < now()
    claimed,    \* jobs each pass has claimed and not recorded yet
    pushing,    \* the job each pass is working on, as a set of at most one
    result,     \* what client.push returned to the pass
    accepted,   \* whether Tally has imported the voucher of the job
    crashes,    \* passes that died so far
    retries     \* manual retries so far

tallyVars == <<status, created, attempts, due, lapsed, claimed, pushing, result,
          accepted, crashes, retries>>
jobRow == <<status, created, attempts, due, lapsed>>
bounds == <<crashes, retries>>

JobStatus == {"ABSENT", "PENDING", "IN_PROGRESS", "SYNCED", "FAILED"}

TallyTypeOK ==
    /\ status \in [Job -> JobStatus]
    /\ created \in [Job -> Nat]
    /\ attempts \in [Job -> Nat]
    /\ due \in [Job -> BOOLEAN]
    /\ lapsed \in [Job -> BOOLEAN]
    /\ claimed \in [Pass -> SUBSET Job]
    /\ pushing \in [Pass -> SUBSET Job]
    /\ result \in [Pass -> {"none", "ok", "failed"}]
    /\ accepted \in [Job -> BOOLEAN]
    /\ crashes \in 0..MaxCrashes
    /\ retries \in 0..MaxRetries
    /\ \A w \in Pass : /\ pushing[w] \subseteq claimed[w]
                       /\ Cardinality(claimed[w]) <= Limit

TallyInit ==
    /\ status = [j \in Job |-> "ABSENT"]
    /\ created = [j \in Job |-> NotQueued]
    /\ attempts = [j \in Job |-> 0]
    /\ due = [j \in Job |-> FALSE]
    /\ lapsed = [j \in Job |-> FALSE]
    /\ claimed = [w \in Pass |-> {}]
    /\ pushing = [w \in Pass |-> {}]
    /\ result = [w \in Pass |-> "none"]
    /\ accepted = [j \in Job |-> FALSE]
    /\ crashes = 0
    /\ retries = 0

\* enqueueTallySync, at the commit of the business transaction.  The unique
\* index on the document makes it skip a job that exists.
Enqueue(j) ==
    /\ status[j] = "ABSENT"
    /\ status' = [status EXCEPT ![j] = "PENDING"]
    /\ created' = [created EXCEPT ![j] = 1 + Cardinality({i \in Job : status[i] # "ABSENT"})]
    /\ due' = [due EXCEPT ![j] = TRUE]
    /\ UNCHANGED <<attempts, lapsed, claimed, pushing, result, accepted, bounds>>

-----------------------------------------------------------------------------
(***************************************************************************)
(* One pass.                                                               *)
(***************************************************************************)

\* Mutant of Claimable: a job in progress is claimed whatever its lease.
ClaimableInProgress(j) ==
    \/ status[j] \in {"PENDING", "FAILED"} /\ due[j] /\ attempts[j] < MAX_AUTO_ATTEMPTS
    \/ status[j] = "IN_PROGRESS"

\* Mutant of Claimable: the jobs of a pass that died are not picked up again.
ClaimableOnce(j) ==
    status[j] \in {"PENDING", "FAILED"} /\ due[j] /\ attempts[j] < MAX_AUTO_ATTEMPTS

\* Mutant of Claimable: the WHERE forgets the status of a due job.
ClaimableAnyStatus(j) ==
    \/ status[j] # "IN_PROGRESS" /\ due[j] /\ attempts[j] < MAX_AUTO_ATTEMPTS
    \/ status[j] = "IN_PROGRESS" /\ lapsed[j]

Claimable(j) ==
    \/ status[j] \in {"PENDING", "FAILED"} /\ due[j] /\ attempts[j] < MAX_AUTO_ATTEMPTS
    \/ status[j] = "IN_PROGRESS" /\ lapsed[j]

\* ORDER BY created_at LIMIT: the jobs with fewer than Limit older ones.
Oldest(jobs) ==
    {j \in jobs : Cardinality({i \in jobs : created[i] < created[j]}) < Limit}

\* claimDueJobs: one UPDATE over rows picked FOR UPDATE SKIP LOCKED.
Claim(w) ==
    LET batch == Oldest({j \in Job : Claimable(j)}) IN
    /\ claimed[w] = {}
    /\ batch # {}
    /\ status' = [j \in Job |-> IF j \in batch THEN "IN_PROGRESS" ELSE status[j]]
    /\ attempts' = [j \in Job |-> IF j \in batch THEN attempts[j] + 1 ELSE attempts[j]]
    /\ lapsed' = [j \in Job |-> lapsed[j] /\ j \notin batch]
    /\ claimed' = [claimed EXCEPT ![w] = batch]
    /\ UNCHANGED <<created, due, pushing, result, accepted, bounds>>

\* The pass takes the next job RETURNING gave it, in no particular order.
StartPush(w) ==
    /\ pushing[w] = {}
    /\ \E j \in claimed[w] : pushing' = [pushing EXCEPT ![w] = {j}]
    /\ UNCHANGED <<jobRow, claimed, result, accepted, bounds>>

\* What Tally counts for a voucher it creates, or alters because it has it already.
Imported(again) ==
    [lineError |-> FALSE, created |-> IF again THEN 0 ELSE 1,
     altered |-> IF again THEN 1 ELSE 0, errors |-> 0]

\* What it may answer instead: an error on a line, an error counted, or nothing done.
Refusals ==
    {[lineError |-> TRUE, created |-> 0, altered |-> 0, errors |-> 1],
     [lineError |-> FALSE, created |-> 0, altered |-> 0, errors |-> 1],
     [lineError |-> FALSE, created |-> 0, altered |-> 0, errors |-> 0]}

\* Mutant of ParseImportResponse: no error counted is success.
ParseErrorsOnly(reply) ==
    IF ~reply.lineError /\ reply.errors = 0 THEN "ok" ELSE "failed"

ParseImportResponse(reply) ==
    IF ~reply.lineError /\ reply.errors = 0 /\ reply.created + reply.altered > 0
    THEN "ok" ELSE "failed"

\* XmlTallyClient.push: Tally imports the voucher; a timeout, a connection that
\* breaks or an HTTP error may still lose its answer.
PushAccepted(w) ==
    /\ pushing[w] # {}
    /\ result[w] = "none"
    /\ accepted' = [j \in Job |-> accepted[j] \/ j \in pushing[w]]
    /\ \E answer \in {ParseImportResponse(Imported(\E j \in pushing[w] : accepted[j])), "failed"} :
          result' = [result EXCEPT ![w] = answer]
    /\ UNCHANGED <<jobRow, claimed, pushing, bounds>>

\* buildTallyVoucher finds no mapping, Tally is not reached, or it refuses.
PushFailed(w) ==
    /\ pushing[w] # {}
    /\ result[w] = "none"
    /\ \E answer \in {ParseImportResponse(reply) : reply \in Refusals} \cup {"failed"} :
          result' = [result EXCEPT ![w] = answer]
    /\ UNCHANGED <<jobRow, claimed, pushing, accepted, bounds>>

Outcome(w) == IF result[w] = "ok" THEN "SYNCED" ELSE "FAILED"

\* recordAttempt: the job is updated by id, whatever its state is by now.
RecordAttempt(w) ==
    /\ result[w] # "none"
    /\ status' = [j \in Job |-> IF j \in pushing[w] THEN Outcome(w) ELSE status[j]]
    /\ lapsed' = [j \in Job |-> lapsed[j] /\ j \notin pushing[w]]
    /\ due' = [j \in Job |-> due[j] /\ (j \in pushing[w] => result[w] = "ok")]
    /\ claimed' = [claimed EXCEPT ![w] = @ \ pushing[w]]
    /\ pushing' = [pushing EXCEPT ![w] = {}]
    /\ result' = [result EXCEPT ![w] = "none"]
    /\ UNCHANGED <<created, attempts, accepted, bounds>>

\* The process is killed, or recordAttempt fails: the rest of the batch is
\* abandoned in the state it is in.
Crash(w) ==
    /\ claimed[w] # {}
    /\ crashes < MaxCrashes
    /\ crashes' = crashes + 1
    /\ claimed' = [claimed EXCEPT ![w] = {}]
    /\ pushing' = [pushing EXCEPT ![w] = {}]
    /\ result' = [result EXCEPT ![w] = "none"]
    /\ UNCHANGED <<jobRow, accepted, retries>>

-----------------------------------------------------------------------------
(***************************************************************************)
(* Time, and the accountant.                                               *)
(***************************************************************************)

BackoffElapses(j) ==
    /\ status[j] = "FAILED"
    /\ ~due[j]
    /\ due' = [due EXCEPT ![j] = TRUE]
    /\ UNCHANGED <<status, created, attempts, lapsed, claimed, pushing, result, accepted, bounds>>

LeaseExpires(j) ==
    /\ status[j] = "IN_PROGRESS"
    /\ ~lapsed[j]
    /\ PassOutlivesLease \/ \A w \in Pass : j \notin claimed[w]
    /\ lapsed' = [lapsed EXCEPT ![j] = TRUE]
    /\ UNCHANGED <<status, created, attempts, due, claimed, pushing, result, accepted, bounds>>

\* retryTallyJob
Retry(j) ==
    /\ status[j] = "FAILED"
    /\ retries < MaxRetries
    /\ retries' = retries + 1
    /\ status' = [status EXCEPT ![j] = "PENDING"]
    /\ attempts' = [attempts EXCEPT ![j] = 0]
    /\ due' = [due EXCEPT ![j] = TRUE]
    /\ UNCHANGED <<created, lapsed, claimed, pushing, result, accepted, crashes>>

TallyNext ==
    \/ \E w \in Pass : \/ Claim(w)
                       \/ StartPush(w)
                       \/ PushAccepted(w)
                       \/ PushFailed(w)
                       \/ RecordAttempt(w)
                       \/ Crash(w)
    \/ \E j \in Job : \/ Enqueue(j)
                      \/ BackoffElapses(j)
                      \/ LeaseExpires(j)
                      \/ Retry(j)

\* The timer keeps starting some pass, a push ends by TALLY_TIMEOUT_MS, and time
\* passes; nothing makes anyone post, retry or crash.
Fairness ==
    /\ WF_tallyVars(\E w \in Pass : Claim(w))
    /\ \A w \in Pass : /\ WF_tallyVars(StartPush(w))
                       /\ WF_tallyVars(PushAccepted(w) \/ PushFailed(w))
                       /\ WF_tallyVars(RecordAttempt(w))
    /\ \A j \in Job : WF_tallyVars(BackoffElapses(j)) /\ WF_tallyVars(LeaseExpires(j))

TallySpec == TallyInit /\ [][TallyNext]_tallyVars /\ Fairness

-----------------------------------------------------------------------------
(***************************************************************************)
(* Properties.                                                             *)
(***************************************************************************)

\* While no pass outlives a lease, a job belongs to one pass at most and is
\* marked in progress for it: claims are exclusive over every interleaving of
\* claims, crashes, expired leases and manual retries (claimDueJobs).
ClaimsAreExclusive ==
    ~PassOutlivesLease =>
        \A w \in Pass : \A j \in claimed[w] :
            /\ status[j] = "IN_PROGRESS"
            /\ \A x \in Pass \ {w} : j \notin claimed[x]

\* A job is SYNCED only if Tally has imported its voucher: neither a lost
\* answer, a retry nor a pass that comes late marks a voucher that is not there.
SyncedIsInTally == \A j \in Job : status[j] = "SYNCED" => accepted[j]

\* While no pass outlives a lease, SYNCED is final: no claim, retry or late
\* record takes the job back into the queue.
SyncedIsFinal ==
    [][\A j \in Job : (~PassOutlivesLease /\ status[j] = "SYNCED") => status'[j] = "SYNCED"]_tallyVars

\* TallyPage, for a user who may sync: the jobs of each status it counts, and
\* those it lists with a button "Retry".
TallyPage ==
    [counts |-> [s \in JobStatus \ {"ABSENT"} |-> Cardinality({j \in Job : status[j] = s})],
     retryable |-> {j \in Job : status[j] = "FAILED"}]

Settled(j) ==
    \/ status[j] = "SYNCED"
    \/ attempts[j] >= MAX_AUTO_ATTEMPTS /\ j \in TallyPage.retryable /\ TallyPage.counts["FAILED"] > 0

\* Every queued document reaches Tally or, with its attempts used up, is counted
\* as failed and waits on the page for a manual retry: crashed passes, older failing jobs and the limit
\* of a batch never leave it behind (runTallySync, "never block newer ones").
QueuedJobsSettle == \A j \in Job : (status[j] # "ABSENT") ~> Settled(j)

\* "concurrent runs never push the same job twice" (tally-sync.service.ts:33).
RunsPushApart == \A w, x \in Pass : w # x => pushing[w] \cap pushing[x] = {}
==============================================================================
