--------------------------- MODULE IdempotentJobs ---------------------------
(***************************************************************************)
(* The idempotent POST endpoints of the solver-orchestrator besides single *)
(* optimizations: batches, teaching gradings, predictions and reruns of a  *)
(* reproduction voucher.  Each looks its Idempotency-Key up, does the work *)
(* if there is no row, and inserts job and key row in one transaction; the *)
(* unique index on (user, key) decides between requests that raced.  They  *)
(* differ in what an expired key means, in which outcomes get a key row,   *)
(* and in what the loser of a race is told.                                *)
(***************************************************************************)
EXTENDS Integers, Sequences, FiniteSets

CONSTANTS
    Callers,    \* concurrent requests of one user
    Kinds,      \* subset of {"batch", "grading", "prediction", "rerun"}
    Keys,       \* Idempotency-Key values
    Bodies,     \* request bodies; for a rerun, the voucher that is rerun
    MaxJobs     \* bound on the jobs ever stored

VARIABLES
    jobs,       \* the committed job rows
    key_rows,   \* kind -> key -> the row: [job, body, expired], or NoRow
    call,       \* caller -> its request
    answers     \* what callers were told: [kind, key, body, job, source]

jobVars == <<jobs, key_rows, call, answers>>

NoRow == [job |-> 0, body |-> 0, expired |-> FALSE]
NoCall == [step |-> "idle"]

JobInit ==
    /\ jobs = <<>>
    /\ key_rows = [kind \in Kinds |-> [key \in Keys |-> NoRow]]
    /\ call = [c \in Callers |-> NoCall]
    /\ answers = {}

(* What a rerun answers as its source is the parent of the job's voucher.  *)
SourceOf(job) == jobs[job].parent

Answer(kind, key, body, job) ==
    answers' = answers \cup {[kind |-> kind, key |-> key, body |-> body, job |-> job,
                              source |-> SourceOf(job)]}

Done(c) == call' = [call EXCEPT ![c] = NoCall]

(***************************************************************************)
(* Requests.                                                               *)
(***************************************************************************)
(* No row: the work begins.  A prediction also treats an expired row as    *)
(* none, after deleting it.                                                *)
LookupNew(c, kind, key, body) ==
    LET row == key_rows[kind][key]
    IN  /\ call[c] = NoCall
        /\ row = NoRow \/ (kind = "prediction" /\ row.expired)
        /\ call' = [call EXCEPT ![c] =
              [step |-> IF row = NoRow THEN "work" ELSE "delete",
               kind |-> kind, key |-> key, body |-> body, deletes |-> FALSE]]
        /\ UNCHANGED <<jobs, key_rows, answers>>

(* A row for the same body is replayed, whether or not it expired; a row   *)
(* for another body is a conflict.                                         *)
LookupReplay(c, kind, key, body) ==
    LET row == key_rows[kind][key]
    IN  /\ call[c] = NoCall /\ row # NoRow
        /\ kind = "prediction" => ~row.expired
        /\ row.body = body
        /\ Answer(kind, key, body, row.job)
        /\ UNCHANGED <<jobs, key_rows, call>>

(* Another transaction has written the key's row and not ended. *)
KeyLocked(c) ==
    \E d \in Callers \ {c} :
        /\ call[d] # NoCall /\ call[d].kind = call[c].kind /\ call[d].key = call[c].key
        /\ call[d].deletes \/ call[d].step = "commit"

(* The delete waits for another one, and then finds the row gone. *)
DeleteExpired(c) ==
    /\ call[c].step = "delete" /\ ~KeyLocked(c)
    /\ call' = [call EXCEPT ![c].step = "work",
                            ![c].deletes = key_rows[call[c].kind][call[c].key].expired]
    /\ UNCHANGED <<jobs, key_rows, answers>>

JobRow(r, outcome) ==
    [kind |-> r.kind, key |-> r.key, body |-> r.body, status |-> outcome,
     parent |-> r.body, voucher |-> Len(jobs) + 1, replaced |-> FALSE]

Replaced(r) ==
    LET row == key_rows[r.kind][r.key]
    IN  IF r.deletes THEN [jobs EXCEPT ![row.job].replaced = TRUE] ELSE jobs

(* A failed prediction is stored without a key row, and a repeated request *)
(* runs again; a failed rerun leaves nothing.                              *)
WorkFails(c) ==
    LET r == call[c]
    IN  /\ r.step = "work" /\ r.kind \in {"prediction", "rerun"}
        /\ r.kind = "prediction" => Len(jobs) < MaxJobs
        /\ jobs' = IF r.kind = "rerun" THEN jobs ELSE Append(Replaced(r), JobRow(r, "failed"))
        /\ key_rows' = IF r.deletes THEN [key_rows EXCEPT ![r.kind][r.key] = NoRow] ELSE key_rows
        /\ Done(c) /\ UNCHANGED answers

(* The key row is an upsert. *)
InsertKeyUpsert(c) ==
    LET r == call[c]
    IN  /\ r.step = "work" /\ ~KeyLocked(c) /\ Len(jobs) < MaxJobs
        /\ call' = [call EXCEPT ![c].step = "commit"]
        /\ UNCHANGED <<jobs, key_rows, answers>>

(* The insert of the key row passes the index. *)
InsertKey(c) ==
    LET r == call[c]
    IN  /\ r.step = "work" /\ ~KeyLocked(c) /\ Len(jobs) < MaxJobs
        /\ key_rows[r.kind][r.key] = NoRow \/ r.deletes
        /\ call' = [call EXCEPT ![c].step = "commit"]
        /\ UNCHANGED <<jobs, key_rows, answers>>

(* The insert fails: everything is rolled back.  A batch looks again and   *)
(* replays the winner; the others answer 409, the rerun 500.               *)
InsertConflict(c) ==
    LET r == call[c]
        row == key_rows[r.kind][r.key]
    IN  /\ r.step = "work" /\ ~KeyLocked(c) /\ ~r.deletes /\ row # NoRow
        /\ IF r.kind = "batch" /\ row.body = r.body
           THEN Answer(r.kind, r.key, r.body, row.job) ELSE UNCHANGED answers
        /\ Done(c) /\ UNCHANGED <<jobs, key_rows>>

CommitJob(c) ==
    LET r == call[c]
    IN  /\ r.step = "commit"
        /\ jobs' = Append(Replaced(r), JobRow(r, "done"))
        /\ key_rows' = [key_rows EXCEPT ![r.kind][r.key] =
                          [job |-> Len(jobs) + 1, body |-> r.body, expired |-> FALSE]]
        /\ answers' = answers \cup {[kind |-> r.kind, key |-> r.key, body |-> r.body,
                                     job |-> Len(jobs) + 1, source |-> r.body]}
        /\ Done(c)

(* The process dies, or the client never hears the answer. *)
AbortJob(c) ==
    /\ call[c] # NoCall /\ Done(c) /\ UNCHANGED <<jobs, key_rows, answers>>

(* A day passes. *)
ExpireKey(kind, key) ==
    /\ key_rows[kind][key] # NoRow /\ ~key_rows[kind][key].expired
    /\ key_rows' = [key_rows EXCEPT ![kind][key].expired = TRUE]
    /\ UNCHANGED <<jobs, call, answers>>

JobNext ==
    \/ \E c \in Callers :
         \/ \E kind \in Kinds : \E key \in Keys : \E body \in Bodies :
              LookupNew(c, kind, key, body) \/ LookupReplay(c, kind, key, body)
         \/ DeleteExpired(c) \/ WorkFails(c) \/ InsertKey(c) \/ InsertConflict(c)
         \/ CommitJob(c) \/ AbortJob(c)
    \/ \E kind \in Kinds : \E key \in Keys : ExpireKey(kind, key)

-----------------------------------------------------------------------------
(* However requests with one key overlap, crash and are repeated, the key  *)
(* stands for one job: batches, gradings and reruns are made once for      *)
(* good, a prediction once until its key expired.                          *)
OneJobPerKey ==
    \A i, j \in DOMAIN jobs :
        /\ \A n \in {i, j} : jobs[n].status = "done" /\ ~jobs[n].replaced
        /\ jobs[i].kind = jobs[j].kind /\ jobs[i].key = jobs[j].key
        => i = j

(* Whoever is answered with a job asked for that job: the answer names a   *)
(* stored job with the caller's key and body, a rerun names the voucher it *)
(* was asked to rerun, and only predictions answer with a job that was     *)
(* replaced since.                                                         *)
AnswersAreTheCallers ==
    \A a \in answers :
        /\ a.job \in DOMAIN jobs
        /\ jobs[a.job].kind = a.kind /\ jobs[a.job].key = a.key /\ jobs[a.job].body = a.body
        /\ jobs[a.job].status = "done"
        /\ a.source = a.body
        /\ jobs[a.job].replaced => a.kind = "prediction"
=============================================================================
