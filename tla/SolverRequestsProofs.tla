------------------------ MODULE SolverRequestsProofs ------------------------
(***************************************************************************)
(* Proofs about what the solver-orchestrator keeps of requests, for any    *)
(* number of callers, keys, templates and vouchers.                        *)
(***************************************************************************)
EXTENDS MCSolverRequests, TLAPS, FiniteSetTheorems, SequenceTheorems, WellFoundedInduction

(***************************************************************************)
(* Idempotent jobs.  What makes their properties inductive: a key's row    *)
(* and the job that stands for the key point to each other; one request at *)
(* most has written a key's row and not ended, and it either deletes the   *)
(* row it found expired or found none.                                     *)
(***************************************************************************)
JobRows ==
    [kind : Kinds, key : Keys, body : Bodies, status : {"done", "failed"}, parent : Bodies,
     voucher : Nat, replaced : BOOLEAN]
JobKeyRows == [job : Nat, body : Bodies \cup {0}, expired : BOOLEAN]
JobCalls ==
    [step : {"work", "delete", "commit"}, kind : Kinds, key : Keys, body : Bodies,
     deletes : BOOLEAN]
JobAnswers == [kind : Kinds, key : Keys, body : Bodies, job : Nat, source : Bodies]

JobsTypeOK ==
    /\ jobs \in Seq(JobRows)
    /\ key_rows \in [Kinds -> [Keys -> JobKeyRows]]
    /\ call \in [Callers -> {NoCall} \cup JobCalls]
    /\ answers \subseteq JobAnswers

(* Only predictions are replaced, and a rerun's source is what was asked.  *)
RowsAreMade ==
    \A i \in DOMAIN jobs :
        jobs[i].parent = jobs[i].body /\ (jobs[i].replaced => jobs[i].kind = "prediction")

(* Row i stands for this key. *)
StandsFor(rows, i, kind, k) ==
    /\ i \in DOMAIN rows /\ rows[i].kind = kind /\ rows[i].key = k
    /\ rows[i].status = "done" /\ ~rows[i].replaced

KeysPointToJobs ==
    \A kind \in Kinds : \A k \in Keys :
        key_rows[kind][k] # NoRow =>
            /\ StandsFor(jobs, key_rows[kind][k].job, kind, k)
            /\ jobs[key_rows[kind][k].job].body = key_rows[kind][k].body

JobsPointToKeys ==
    \A i \in DOMAIN jobs :
        StandsFor(jobs, i, jobs[i].kind, jobs[i].key) => key_rows[jobs[i].kind][jobs[i].key].job = i

(* The request holds the lock on the row of its key. *)
HoldsKey(c) == call[c] # NoCall /\ (call[c].deletes \/ call[c].step = "commit")

HoldersExclude ==
    \A c, d \in Callers :
        /\ HoldsKey(c) /\ HoldsKey(d)
        /\ call[c].kind = call[d].kind /\ call[c].key = call[d].key
        => c = d

(* Only a prediction deletes, and what it deletes is there. *)
HoldersKnow ==
    \A c \in Callers : call[c] # NoCall =>
        /\ call[c].step = "delete" \/ call[c].deletes => call[c].kind = "prediction"
        /\ call[c].step = "delete" => ~call[c].deletes
        /\ call[c].deletes => key_rows[call[c].kind][call[c].key] # NoRow
        /\ call[c].step = "commit" =>
              call[c].deletes \/ key_rows[call[c].kind][call[c].key] = NoRow

JobsInvariant ==
    /\ JobsTypeOK /\ RowsAreMade /\ KeysPointToJobs /\ JobsPointToKeys /\ HoldersExclude
    /\ HoldersKnow /\ AnswersAreTheCallers

(***************************************************************************)
(* Gradings: what was graded so far can be justified by the children.      *)
(***************************************************************************)
Child ==
    [status : {"queued", "in_progress", "completed", "failed", "timeout", "cancelled"},
     raw : Int, teaching : BOOLEAN, solution : BOOLEAN]
GradedItem == [status : {"graded", "not_gradable"}, score : Int]

(* The grade g of child i can be justified. *)
Justified(g, i) ==
    IF g.status = "graded"
    THEN /\ g.score = MAX_SCORE
         /\ children[i].status = "completed" /\ children[i].solution /\ children[i].teaching
    ELSE g.score = 0

GradingInvariant ==
    /\ children \in [1..BatchSize -> Child]
    /\ grading # NotGrading => /\ grading \in Seq(GradedItem) /\ Len(grading) <= BatchSize
                               /\ \A i \in DOMAIN grading : Justified(grading[i], i)
    /\ graded # NoGrades => /\ graded.items \in Seq(GradedItem) /\ Len(graded.items) = BatchSize
                            /\ \A i \in 1..BatchSize : Justified(graded.items[i], i)
    /\ GradesStayJustified

-----------------------------------------------------------------------------
(* One place of the key rows changes. *)
LEMMA KeyRowChanged ==
  ASSUME JobsTypeOK, NEW kind \in Kinds, NEW k \in Keys, NEW row \in JobKeyRows,
         key_rows' = [key_rows EXCEPT ![kind][k] = row]
  PROVE  /\ key_rows' \in [Kinds -> [Keys -> JobKeyRows]]
         /\ key_rows'[kind][k] = row
         /\ \A x \in Kinds : \A y \in Keys :
               x # kind \/ y # k => key_rows'[x][y] = key_rows[x][y]
BY DEF JobsTypeOK

(* A request whose job is stored, and the prediction it replaces. *)
LEMMA JobStored ==
  ASSUME JobsInvariant, NEW c \in Callers, call[c] # NoCall, NEW outcome \in {"done", "failed"},
         jobs' = Append(Replaced(call[c]), JobRow(call[c], outcome))
  PROVE  /\ jobs' \in Seq(JobRows) /\ Len(jobs) + 1 \notin DOMAIN jobs
         /\ DOMAIN jobs' = DOMAIN jobs \cup {Len(jobs) + 1}
         /\ \A i \in DOMAIN jobs :
               /\ jobs'[i].kind = jobs[i].kind /\ jobs'[i].key = jobs[i].key
               /\ jobs'[i].body = jobs[i].body /\ jobs'[i].status = jobs[i].status
               /\ jobs'[i].parent = jobs[i].parent
               /\ jobs'[i].replaced <=>
                     jobs[i].replaced
                     \/ (call[c].deletes /\ i = key_rows[call[c].kind][call[c].key].job)
         /\ jobs'[Len(jobs) + 1].kind = call[c].kind /\ jobs'[Len(jobs) + 1].key = call[c].key
         /\ jobs'[Len(jobs) + 1].body = call[c].body /\ jobs'[Len(jobs) + 1].status = outcome
         /\ jobs'[Len(jobs) + 1].parent = call[c].body /\ jobs'[Len(jobs) + 1].replaced = FALSE
<1>1. call[c] \in JobCalls /\ jobs \in Seq(JobRows)
  BY DEF JobsInvariant, JobsTypeOK
<1>2. PICK r \in JobCalls : r = call[c]
  BY <1>1
<1>3. PICK old \in Seq(JobRows) : old = jobs
  BY <1>1
<1>4. Len(old) \in Nat /\ DOMAIN old = 1..Len(old) /\ \A i \in DOMAIN old : old[i] \in JobRows
  BY <1>3
<1>5. PICK row : row = JobRow(r, outcome)
  BY Zenon
<1>6. /\ row \in JobRows /\ row.kind = r.kind /\ row.key = r.key /\ row.body = r.body
      /\ row.status = outcome /\ row.parent = r.body /\ row.replaced = FALSE
  BY <1>2, <1>3, <1>4, <1>5 DEF JobRow, JobRows, JobCalls
<1>7. PICK j : j = key_rows[r.kind][r.key].job
  BY Zenon
<1>8. r.deletes => j \in DOMAIN old
  BY <1>1, <1>2, <1>3, <1>7
     DEF JobsInvariant, HoldersKnow, KeysPointToJobs, StandsFor, JobCalls
<1>9. PICK mid : mid = IF r.deletes THEN [old EXCEPT ![j].replaced = TRUE] ELSE old
  BY Zenon
<1>10. mid = Replaced(r)
  BY <1>3, <1>7, <1>9 DEF Replaced
<1>11. /\ mid \in Seq(JobRows) /\ Len(mid) = Len(old)
       /\ \A i \in DOMAIN old :
             /\ mid[i].kind = old[i].kind /\ mid[i].key = old[i].key /\ mid[i].body = old[i].body
             /\ mid[i].status = old[i].status /\ mid[i].parent = old[i].parent
             /\ mid[i].replaced <=> old[i].replaced \/ (r.deletes /\ i = j)
  <2>1. CASE ~r.deletes
    BY <1>3, <1>9, <2>1
  <2>2. CASE r.deletes
    <3>1. mid = [old EXCEPT ![j].replaced = TRUE] /\ j \in DOMAIN old /\ old[j] \in JobRows
      BY <1>4, <1>8, <1>9, <2>2
    <3>2. [old[j] EXCEPT !.replaced = TRUE] \in JobRows
      BY <3>1 DEF JobRows
    <3>3. mid \in Seq(JobRows) /\ Len(mid) = Len(old)
      BY <1>3, <1>4, <3>1, <3>2
    <3>4. \A i \in DOMAIN old : i # j => mid[i] = old[i]
      BY <3>1
    <3>5. mid[j] = [old[j] EXCEPT !.replaced = TRUE]
      BY <3>1
    <3>6. /\ mid[j].kind = old[j].kind /\ mid[j].key = old[j].key /\ mid[j].body = old[j].body
          /\ mid[j].status = old[j].status /\ mid[j].parent = old[j].parent /\ mid[j].replaced = TRUE
      BY <3>1, <3>5 DEF JobRows
    <3> QED
      BY <2>2, <3>3, <3>4, <3>6
  <2> QED
    BY <1>2, <2>1, <2>2 DEF JobCalls
<1>12. PICK new : new = jobs'
  BY Zenon
<1>13. new = Append(mid, row)
  BY <1>2, <1>5, <1>10, <1>12
<1>14. /\ new \in Seq(JobRows) /\ Len(new) = Len(old) + 1 /\ new[Len(old) + 1] = row
       /\ \A i \in 1..Len(old) : new[i] = mid[i]
  BY <1>4, <1>6, <1>11, <1>13
<1>15. /\ DOMAIN new = DOMAIN old \cup {Len(old) + 1} /\ Len(old) + 1 \notin DOMAIN old
  BY <1>4, <1>14
<1>16. \A i \in DOMAIN old :
             /\ new[i].kind = old[i].kind /\ new[i].key = old[i].key /\ new[i].body = old[i].body
             /\ new[i].status = old[i].status /\ new[i].parent = old[i].parent
             /\ new[i].replaced <=> old[i].replaced \/ (r.deletes /\ i = j)
  BY <1>4, <1>11, <1>14
<1> QED
  BY <1>2, <1>3, <1>6, <1>7, <1>12, <1>14, <1>15, <1>16

(* A request moves on or ends, and the tables stay. *)
LEMMA CallMoves ==
  ASSUME JobsInvariant, NEW c \in Callers, NEW new \in {NoCall} \cup JobCalls,
         call' \in [Callers -> {NoCall} \cup JobCalls], call'[c] = new,
         \A d \in Callers \ {c} : call'[d] = call[d],
         UNCHANGED <<jobs, key_rows>>,
         answers' \subseteq JobAnswers, AnswersAreTheCallers',
         new # NoCall =>
            /\ new.step = "delete" \/ new.deletes => new.kind = "prediction"
            /\ new.step = "delete" => ~new.deletes
            /\ new.deletes => key_rows[new.kind][new.key] # NoRow
            /\ new.step = "commit" => new.deletes \/ key_rows[new.kind][new.key] = NoRow
            /\ new.deletes \/ new.step = "commit" =>
                  \A d \in Callers \ {c} :
                     HoldsKey(d) => call[d].kind # new.kind \/ call[d].key # new.key
  PROVE  JobsInvariant'
<1>1. JobsTypeOK' /\ RowsAreMade' /\ KeysPointToJobs' /\ JobsPointToKeys'
  BY DEF JobsInvariant, JobsTypeOK, RowsAreMade, KeysPointToJobs, JobsPointToKeys, StandsFor
<1>2. HoldersExclude'
  <2> SUFFICES ASSUME NEW a \in Callers, NEW b \in Callers, HoldsKey(a)', HoldsKey(b)',
                      call'[a].kind = call'[b].kind, call'[a].key = call'[b].key
               PROVE  a = b
    BY DEF HoldersExclude
  <2>1. CASE a # c /\ b # c
    BY <2>1 DEF HoldsKey, JobsInvariant, HoldersExclude
  <2>2. CASE (a = c /\ b # c) \/ (a # c /\ b = c)
    BY <2>2 DEF HoldsKey
  <2> QED
    BY <2>1, <2>2
<1>3. HoldersKnow'
  BY DEF JobsInvariant, HoldersKnow
<1> QED
  BY <1>1, <1>2, <1>3 DEF JobsInvariant

(* A request that has stored its key's row: the new job stands for the key, *)
(* and the one it replaced, if any, does not any more.                      *)
LEMMA CommitJobPreserves ==
  ASSUME JobsInvariant, NEW c \in Callers, CommitJob(c)
  PROVE  JobsInvariant'
<1>1. call[c] # NoCall /\ call[c].step = "commit"
  BY DEF CommitJob, NoCall
<1>2. call[c] \in JobCalls
  BY <1>1 DEF JobsInvariant, JobsTypeOK
<1>3. PICK r \in JobCalls : r = call[c]
  BY <1>2
<1>4. r.kind \in Kinds /\ r.key \in Keys /\ r.body \in Bodies /\ r.deletes \in BOOLEAN
  BY <1>3 DEF JobCalls
<1>5. PICK n : n = Len(jobs) + 1
  BY Zenon
<1>6. n \in Nat /\ n # 0
  BY <1>5 DEF JobsInvariant, JobsTypeOK
<1>7. PICK j : j = key_rows[r.kind][r.key].job
  BY Zenon
<1>8. /\ jobs' \in Seq(JobRows) /\ n \notin DOMAIN jobs /\ DOMAIN jobs' = DOMAIN jobs \cup {n}
      /\ \A i \in DOMAIN jobs :
            /\ jobs'[i].kind = jobs[i].kind /\ jobs'[i].key = jobs[i].key
            /\ jobs'[i].body = jobs[i].body /\ jobs'[i].status = jobs[i].status
            /\ jobs'[i].parent = jobs[i].parent
            /\ jobs'[i].replaced <=> jobs[i].replaced \/ (r.deletes /\ i = j)
      /\ jobs'[n].kind = r.kind /\ jobs'[n].key = r.key /\ jobs'[n].body = r.body
      /\ jobs'[n].status = "done" /\ jobs'[n].parent = r.body /\ jobs'[n].replaced = FALSE
  <2>1. jobs' = Append(Replaced(call[c]), JobRow(call[c], "done"))
    BY DEF CommitJob
  <2> QED
    BY <1>1, <1>3, <1>5, <1>7, <2>1, JobStored
<1>9. PICK row : row = [job |-> n, body |-> r.body, expired |-> FALSE]
  BY Zenon
<1>10. row \in JobKeyRows /\ row.job = n /\ row.body = r.body /\ row # NoRow
  BY <1>4, <1>6, <1>9 DEF JobKeyRows, NoRow
<1>11. key_rows' = [key_rows EXCEPT ![r.kind][r.key] = row]
  BY <1>3, <1>5, <1>9 DEF CommitJob
<1>12. /\ key_rows' \in [Kinds -> [Keys -> JobKeyRows]] /\ key_rows'[r.kind][r.key] = row
       /\ \A x \in Kinds : \A y \in Keys :
             x # r.kind \/ y # r.key => key_rows'[x][y] = key_rows[x][y]
  BY <1>4, <1>10, <1>11, KeyRowChanged, ZenonT(30) DEF JobsInvariant
<1>13. /\ call' \in [Callers -> {NoCall} \cup JobCalls] /\ call'[c] = NoCall
       /\ \A d \in Callers \ {c} : call'[d] = call[d]
  BY DEF CommitJob, Done, JobsInvariant, JobsTypeOK
<1>14. answers' = answers \cup {[kind |-> r.kind, key |-> r.key, body |-> r.body, job |-> n,
                                 source |-> r.body]}
  BY <1>3, <1>5 DEF CommitJob
<1>15. /\ r.deletes => /\ r.kind = "prediction" /\ StandsFor(jobs, j, r.kind, r.key)
                       /\ key_rows[r.kind][r.key] # NoRow
       /\ r.deletes \/ key_rows[r.kind][r.key] = NoRow
  BY <1>1, <1>3, <1>4, <1>7 DEF JobsInvariant, HoldersKnow, KeysPointToJobs
<1>16. \A x \in Kinds : \A y \in Keys : \A i \in DOMAIN jobs :
          StandsFor(jobs', i, x, y) => StandsFor(jobs, i, x, y) /\ (x # r.kind \/ y # r.key)
  <2> SUFFICES ASSUME NEW x \in Kinds, NEW y \in Keys, NEW i \in DOMAIN jobs, StandsFor(jobs', i, x, y)
               PROVE  StandsFor(jobs, i, x, y) /\ (x # r.kind \/ y # r.key)
    BY Zenon
  <2>1. StandsFor(jobs, i, x, y) /\ ~(r.deletes /\ i = j)
    BY <1>8 DEF StandsFor
  <2>2. ASSUME x = r.kind, y = r.key PROVE FALSE
    <3>1. jobs[i].kind = r.kind /\ jobs[i].key = r.key /\ StandsFor(jobs, i, jobs[i].kind, jobs[i].key)
      BY <2>1, <2>2 DEF StandsFor
    <3>2. i = j
      BY <1>7, <3>1 DEF JobsInvariant, JobsPointToKeys
    <3>3. key_rows[r.kind][r.key] = NoRow /\ i \in Nat /\ i # 0
      BY <1>15, <2>1, <3>2 DEF JobsInvariant, JobsTypeOK
    <3> QED
      BY <1>7, <3>2, <3>3 DEF NoRow
  <2> QED
    BY <2>1, <2>2
<1>17. JobsTypeOK'
  BY <1>4, <1>6, <1>8, <1>12, <1>13, <1>14 DEF JobsInvariant, JobsTypeOK, JobAnswers
<1>18. RowsAreMade'
  <2> SUFFICES ASSUME NEW i \in DOMAIN jobs'
               PROVE  jobs'[i].parent = jobs'[i].body /\ (jobs'[i].replaced => jobs'[i].kind = "prediction")
    BY DEF RowsAreMade
  <2>1. CASE i = n
    BY <1>8, <2>1
  <2>2. CASE i \in DOMAIN jobs
    BY <1>8, <1>15, <2>2 DEF JobsInvariant, RowsAreMade, StandsFor
  <2> QED
    BY <1>8, <2>1, <2>2
<1>19. KeysPointToJobs'
  <2> SUFFICES ASSUME NEW x \in Kinds, NEW y \in Keys, key_rows'[x][y] # NoRow
               PROVE  /\ StandsFor(jobs', key_rows'[x][y].job, x, y)
                      /\ jobs'[key_rows'[x][y].job].body = key_rows'[x][y].body
    BY DEF KeysPointToJobs, StandsFor
  <2>1. CASE x = r.kind /\ y = r.key
    BY <1>8, <1>10, <1>12, <2>1 DEF StandsFor
  <2>2. CASE x # r.kind \/ y # r.key
    <3>1. key_rows'[x][y] = key_rows[x][y]
      BY <1>12, <2>2
    <3>2. PICK i : i = key_rows[x][y].job
      BY Zenon
    <3>3. StandsFor(jobs, i, x, y) /\ jobs[i].body = key_rows[x][y].body
      BY <3>1, <3>2 DEF JobsInvariant, KeysPointToJobs
    <3>4. ~(r.deletes /\ i = j)
      BY <1>15, <2>2, <3>3 DEF StandsFor
    <3>5. StandsFor(jobs', i, x, y) /\ jobs'[i].body = jobs[i].body
      BY <1>8, <3>3, <3>4 DEF StandsFor
    <3> QED
      BY <3>1, <3>2, <3>3, <3>5
  <2> QED
    BY <2>1, <2>2
<1>20. JobsPointToKeys'
  <2> SUFFICES ASSUME NEW i \in DOMAIN jobs', StandsFor(jobs', i, jobs'[i].kind, jobs'[i].key)
               PROVE  key_rows'[jobs'[i].kind][jobs'[i].key].job = i
    BY DEF JobsPointToKeys, StandsFor
  <2>1. CASE i = n
    BY <1>8, <1>10, <1>12, <2>1
  <2>2. CASE i \in DOMAIN jobs
    <3>1. /\ jobs'[i].kind = jobs[i].kind /\ jobs'[i].key = jobs[i].key
          /\ jobs[i].kind \in Kinds /\ jobs[i].key \in Keys
      <4>1. jobs[i] \in JobRows
        BY <2>2 DEF JobsInvariant, JobsTypeOK
      <4> QED
        BY <1>8, <2>2, <4>1 DEF JobRows
    <3>2. PICK x \in Kinds, y \in Keys : x = jobs[i].kind /\ y = jobs[i].key
      BY <3>1
    <3>3. StandsFor(jobs', i, x, y)
      BY <3>1, <3>2 DEF StandsFor
    <3>4. StandsFor(jobs, i, x, y) /\ (x # r.kind \/ y # r.key)
      BY <1>16, <2>2, <3>3
    <3>5. key_rows[x][y].job = i
      BY <2>2, <3>2, <3>4 DEF JobsInvariant, JobsPointToKeys
    <3> QED
      BY <1>12, <3>1, <3>2, <3>4, <3>5
  <2> QED
    BY <1>8, <2>1, <2>2
<1>21. HoldersExclude'
  BY <1>13 DEF JobsInvariant, HoldersExclude, HoldsKey
<1>22. HoldersKnow'
  <2> SUFFICES ASSUME NEW d \in Callers, call'[d] # NoCall
               PROVE  /\ call'[d].step = "delete" \/ call'[d].deletes => call'[d].kind = "prediction"
                      /\ call'[d].step = "delete" => ~call'[d].deletes
                      /\ call'[d].deletes => key_rows'[call'[d].kind][call'[d].key] # NoRow
                      /\ call'[d].step = "commit" =>
                            call'[d].deletes \/ key_rows'[call'[d].kind][call'[d].key] = NoRow
    BY DEF HoldersKnow
  <2>1. d # c /\ call'[d] = call[d]
    BY <1>13
  <2>2. call[d].kind \in Kinds /\ call[d].key \in Keys
    <3>1. call[d] \in JobCalls
      BY <2>1 DEF JobsInvariant, JobsTypeOK
    <3> QED
      BY <3>1 DEF JobCalls
  <2>3. HoldsKey(d) => call[d].kind # r.kind \/ call[d].key # r.key
    BY <1>1, <1>3, <2>1 DEF JobsInvariant, HoldersExclude, HoldsKey
  <2>4. HoldsKey(d) => key_rows'[call[d].kind][call[d].key] = key_rows[call[d].kind][call[d].key]
    BY <1>12, <2>2, <2>3
  <2> QED
    BY <2>1, <2>4 DEF JobsInvariant, HoldersKnow, HoldsKey
<1>23. AnswersAreTheCallers'
  <2> SUFFICES ASSUME NEW a \in answers'
               PROVE  /\ a.job \in DOMAIN jobs'
                      /\ jobs'[a.job].kind = a.kind /\ jobs'[a.job].key = a.key
                      /\ jobs'[a.job].body = a.body /\ jobs'[a.job].status = "done"
                      /\ a.source = a.body /\ (jobs'[a.job].replaced => a.kind = "prediction")
    BY DEF AnswersAreTheCallers
  <2>1. CASE a \in answers
    <3>1. /\ a.job \in DOMAIN jobs /\ jobs[a.job].kind = a.kind /\ jobs[a.job].key = a.key
          /\ jobs[a.job].body = a.body /\ jobs[a.job].status = "done" /\ a.source = a.body
      BY <2>1 DEF JobsInvariant, AnswersAreTheCallers
    <3>2. jobs'[a.job].replaced => jobs'[a.job].kind = "prediction"
      BY <1>8, <1>18, <3>1 DEF RowsAreMade
    <3> QED
      BY <1>8, <3>1, <3>2
  <2>2. CASE a = [kind |-> r.kind, key |-> r.key, body |-> r.body, job |-> n, source |-> r.body]
    BY <1>8, <2>2
  <2> QED
    BY <1>14, <2>1, <2>2
<1> QED
  BY <1>17, <1>18, <1>19, <1>20, <1>21, <1>22, <1>23 DEF JobsInvariant

(* A request that ends without a key's row; a failed prediction leaves a    *)
(* job that stands for no key.                                              *)
LEMMA WorkFailsPreserves ==
  ASSUME JobsInvariant, NEW c \in Callers, WorkFails(c)
  PROVE  JobsInvariant'
<1>1. call[c] # NoCall /\ call[c].step = "work" /\ call[c].kind \in {"prediction", "rerun"}
  BY DEF WorkFails, NoCall
<1>2. PICK r \in JobCalls : r = call[c]
  BY <1>1 DEF JobsInvariant, JobsTypeOK
<1>3. r.kind \in Kinds /\ r.key \in Keys /\ r.body \in Bodies /\ r.deletes \in BOOLEAN
  BY <1>2 DEF JobCalls
<1>4. /\ call' \in [Callers -> {NoCall} \cup JobCalls] /\ call'[c] = NoCall
      /\ \A d \in Callers \ {c} : call'[d] = call[d] /\ answers' = answers
  BY DEF WorkFails, Done, JobsInvariant, JobsTypeOK
<1>5. answers' = answers
  BY DEF WorkFails
<1>6. r.deletes => r.kind = "prediction" /\ key_rows[r.kind][r.key] # NoRow
  BY <1>1, <1>2 DEF JobsInvariant, HoldersKnow
<1>7. CASE r.kind = "rerun"
  <2>1. UNCHANGED <<jobs, key_rows>>
    BY <1>2, <1>3, <1>6, <1>7 DEF WorkFails
  <2>2. answers' \subseteq JobAnswers /\ AnswersAreTheCallers'
    BY <1>5, <2>1 DEF JobsInvariant, JobsTypeOK, AnswersAreTheCallers
  <2> QED
    BY <1>4, <2>1, <2>2, CallMoves
<1>8. CASE r.kind = "prediction"
  <2>1. PICK n : n = Len(jobs) + 1
    BY Zenon
  <2>2. PICK j : j = key_rows[r.kind][r.key].job
    BY Zenon
  <2>3. /\ jobs' \in Seq(JobRows) /\ n \notin DOMAIN jobs /\ DOMAIN jobs' = DOMAIN jobs \cup {n}
        /\ \A i \in DOMAIN jobs :
              /\ jobs'[i].kind = jobs[i].kind /\ jobs'[i].key = jobs[i].key
              /\ jobs'[i].body = jobs[i].body /\ jobs'[i].status = jobs[i].status
              /\ jobs'[i].parent = jobs[i].parent
              /\ jobs'[i].replaced <=> jobs[i].replaced \/ (r.deletes /\ i = j)
        /\ jobs'[n].kind = r.kind /\ jobs'[n].key = r.key /\ jobs'[n].body = r.body
        /\ jobs'[n].status = "failed" /\ jobs'[n].parent = r.body /\ jobs'[n].replaced = FALSE
    <3>1. jobs' = Append(Replaced(call[c]), JobRow(call[c], "failed"))
      BY <1>2, <1>8 DEF WorkFails
    <3> QED
      BY <1>1, <1>2, <2>1, <2>2, <3>1, JobStored
  <2>4. /\ key_rows' \in [Kinds -> [Keys -> JobKeyRows]]
        /\ r.deletes => key_rows'[r.kind][r.key] = NoRow
        /\ \A x \in Kinds : \A y \in Keys :
              x # r.kind \/ y # r.key \/ ~r.deletes => key_rows'[x][y] = key_rows[x][y]
    <3>1. CASE ~r.deletes
      <4>1. key_rows' = key_rows
        BY <1>2, <3>1 DEF WorkFails
      <4> QED
        BY <3>1, <4>1 DEF JobsInvariant, JobsTypeOK
    <3>2. CASE r.deletes
      <4>1. PICK row : row = NoRow
        BY Zenon
      <4>2. row \in JobKeyRows
        BY <4>1 DEF JobKeyRows, NoRow
      <4>3. key_rows' = [key_rows EXCEPT ![r.kind][r.key] = row]
        BY <1>2, <3>2, <4>1 DEF WorkFails
      <4>4. /\ key_rows' \in [Kinds -> [Keys -> JobKeyRows]] /\ key_rows'[r.kind][r.key] = row
            /\ \A x \in Kinds : \A y \in Keys :
                  x # r.kind \/ y # r.key => key_rows'[x][y] = key_rows[x][y]
        <5>1. PICK kind \in Kinds, k \in Keys : kind = r.kind /\ k = r.key
          BY <1>3
        <5>2. key_rows' = [key_rows EXCEPT ![kind][k] = row] /\ JobsTypeOK
          BY <4>3, <5>1 DEF JobsInvariant
        <5>3. PICK new \in JobKeyRows : new = row
          BY <4>2
        <5>4. key_rows' = [key_rows EXCEPT ![kind][k] = new]
          BY <5>2, <5>3
        <5>5. /\ key_rows' \in [Kinds -> [Keys -> JobKeyRows]] /\ key_rows'[kind][k] = new
              /\ \A x \in Kinds : \A y \in Keys :
                    x # kind \/ y # k => key_rows'[x][y] = key_rows[x][y]
          BY <5>2, <5>4 DEF JobsTypeOK
        <5> QED
          BY <5>1, <5>3, <5>5
      <4> QED
        BY <3>2, <4>1, <4>4
    <3> QED
      BY <1>3, <3>1, <3>2
  <2>5. r.deletes => StandsFor(jobs, j, r.kind, r.key)
    BY <1>3, <1>6, <2>2 DEF JobsInvariant, KeysPointToJobs
  <2>6. JobsTypeOK'
    BY <1>4, <1>5, <2>3, <2>4 DEF JobsInvariant, JobsTypeOK
  <2>7. RowsAreMade'
    <3> SUFFICES ASSUME NEW i \in DOMAIN jobs'
                 PROVE  jobs'[i].parent = jobs'[i].body /\ (jobs'[i].replaced => jobs'[i].kind = "prediction")
      BY DEF RowsAreMade
    <3>1. CASE i = n
      BY <2>3, <3>1
    <3>2. CASE i \in DOMAIN jobs
      BY <1>8, <2>3, <2>5, <3>2 DEF JobsInvariant, RowsAreMade, StandsFor
    <3> QED
      BY <2>3, <3>1, <3>2
  <2>8. KeysPointToJobs'
    <3> SUFFICES ASSUME NEW x \in Kinds, NEW y \in Keys, key_rows'[x][y] # NoRow
                 PROVE  /\ StandsFor(jobs', key_rows'[x][y].job, x, y)
                        /\ jobs'[key_rows'[x][y].job].body = key_rows'[x][y].body
      BY DEF KeysPointToJobs
    <3>1. key_rows'[x][y] = key_rows[x][y] /\ (x # r.kind \/ y # r.key \/ ~r.deletes)
      BY <2>4
    <3>2. PICK i : i = key_rows[x][y].job
      BY Zenon
    <3>3. StandsFor(jobs, i, x, y) /\ jobs[i].body = key_rows[x][y].body
      BY <3>1, <3>2 DEF JobsInvariant, KeysPointToJobs
    <3>4. ~(r.deletes /\ i = j)
      BY <2>5, <3>1, <3>3 DEF StandsFor
    <3>5. StandsFor(jobs', i, x, y) /\ jobs'[i].body = jobs[i].body
      BY <2>3, <3>3, <3>4 DEF StandsFor
    <3> QED
      BY <3>1, <3>2, <3>3, <3>5
  <2>9. JobsPointToKeys'
    <3> SUFFICES ASSUME NEW i \in DOMAIN jobs', StandsFor(jobs', i, jobs'[i].kind, jobs'[i].key)
                 PROVE  key_rows'[jobs'[i].kind][jobs'[i].key].job = i
      BY DEF JobsPointToKeys
    <3>1. i \in DOMAIN jobs
      BY <2>3 DEF StandsFor
    <3>2. /\ jobs'[i].kind = jobs[i].kind /\ jobs'[i].key = jobs[i].key
          /\ jobs[i].kind \in Kinds /\ jobs[i].key \in Keys
      <4>1. jobs[i] \in JobRows
        BY <3>1 DEF JobsInvariant, JobsTypeOK
      <4> QED
        BY <2>3, <3>1, <4>1 DEF JobRows
    <3>3. PICK x \in Kinds, y \in Keys : x = jobs[i].kind /\ y = jobs[i].key
      BY <3>2
    <3>4. StandsFor(jobs, i, x, y) /\ ~(r.deletes /\ i = j)
      BY <2>3, <3>1, <3>3 DEF StandsFor
    <3>5. key_rows[x][y].job = i
      BY <3>1, <3>3, <3>4 DEF JobsInvariant, JobsPointToKeys
    <3>6. x # r.kind \/ y # r.key \/ ~r.deletes
      BY <2>2, <3>4, <3>5
    <3> QED
      BY <2>4, <3>2, <3>3, <3>5, <3>6
  <2>10. HoldersExclude'
    BY <1>4 DEF JobsInvariant, HoldersExclude, HoldsKey
  <2>11. HoldersKnow'
    <3> SUFFICES ASSUME NEW d \in Callers, call'[d] # NoCall
                 PROVE  /\ call'[d].step = "delete" \/ call'[d].deletes => call'[d].kind = "prediction"
                        /\ call'[d].step = "delete" => ~call'[d].deletes
                        /\ call'[d].deletes => key_rows'[call'[d].kind][call'[d].key] # NoRow
                        /\ call'[d].step = "commit" =>
                              call'[d].deletes \/ key_rows'[call'[d].kind][call'[d].key] = NoRow
      BY DEF HoldersKnow
    <3>1. d # c /\ call'[d] = call[d]
      BY <1>4
    <3>2. call[d].kind \in Kinds /\ call[d].key \in Keys
      <4>1. call[d] \in JobCalls
        BY <3>1 DEF JobsInvariant, JobsTypeOK
      <4> QED
        BY <4>1 DEF JobCalls
    <3>3. HoldsKey(d) /\ r.deletes => call[d].kind # r.kind \/ call[d].key # r.key
      BY <1>1, <1>2, <3>1 DEF JobsInvariant, HoldersExclude, HoldsKey
    <3>4. HoldsKey(d) => key_rows'[call[d].kind][call[d].key] = key_rows[call[d].kind][call[d].key]
      BY <2>4, <3>2, <3>3
    <3> QED
      BY <3>1, <3>4 DEF JobsInvariant, HoldersKnow, HoldsKey
  <2>12. AnswersAreTheCallers'
    <3> SUFFICES ASSUME NEW a \in answers
                 PROVE  /\ a.job \in DOMAIN jobs'
                        /\ jobs'[a.job].kind = a.kind /\ jobs'[a.job].key = a.key
                        /\ jobs'[a.job].body = a.body /\ jobs'[a.job].status = "done"
                        /\ a.source = a.body /\ (jobs'[a.job].replaced => a.kind = "prediction")
      BY <1>5 DEF AnswersAreTheCallers
    <3>1. /\ a.job \in DOMAIN jobs /\ jobs[a.job].kind = a.kind /\ jobs[a.job].key = a.key
          /\ jobs[a.job].body = a.body /\ jobs[a.job].status = "done" /\ a.source = a.body
      BY DEF JobsInvariant, AnswersAreTheCallers
    <3>2. jobs'[a.job].replaced => jobs'[a.job].kind = "prediction"
      BY <2>3, <2>7, <3>1 DEF RowsAreMade
    <3> QED
      BY <2>3, <3>1, <3>2
  <2> QED
    BY <2>6, <2>7, <2>8, <2>9, <2>10, <2>11, <2>12 DEF JobsInvariant
<1> QED
  BY <1>1, <1>2, <1>7, <1>8

(* An answer out of a key's row names the job that stands for the key. *)
LEMMA AnswersKept ==
  ASSUME JobsInvariant, NEW kind \in Kinds, NEW k \in Keys, NEW body \in Bodies,
         key_rows[kind][k] # NoRow, key_rows[kind][k].body = body, UNCHANGED jobs,
         Answer(kind, k, body, key_rows[kind][k].job)
  PROVE  answers' \subseteq JobAnswers /\ AnswersAreTheCallers'
<1>1. PICK j : j = key_rows[kind][k].job
  BY Zenon
<1>2. StandsFor(jobs, j, kind, k) /\ jobs[j].body = body /\ jobs[j].parent = body /\ j \in Nat
  <2>1. StandsFor(jobs, j, kind, k) /\ jobs[j].body = body
    BY <1>1 DEF JobsInvariant, KeysPointToJobs
  <2> QED
    BY <2>1 DEF JobsInvariant, RowsAreMade, JobsTypeOK, StandsFor
<1>3. answers' = answers \cup {[kind |-> kind, key |-> k, body |-> body, job |-> j, source |-> body]}
  BY <1>1, <1>2 DEF Answer, SourceOf
<1>4. answers' \subseteq JobAnswers
  BY <1>2, <1>3 DEF JobsInvariant, JobsTypeOK, JobAnswers
<1>5. AnswersAreTheCallers'
  BY <1>2, <1>3 DEF JobsInvariant, AnswersAreTheCallers, StandsFor
<1> QED
  BY <1>4, <1>5

(* The steps of a request that store nothing. *)
LEMMA JobStepsPreserve ==
  ASSUME JobsInvariant, NEW c \in Callers,
         \/ \E kind \in Kinds : \E k \in Keys : \E body \in Bodies :
               LookupNew(c, kind, k, body) \/ LookupReplay(c, kind, k, body)
         \/ DeleteExpired(c) \/ InsertKey(c) \/ InsertConflict(c) \/ AbortJob(c)
  PROVE  JobsInvariant'
<1>0. call \in [Callers -> {NoCall} \cup JobCalls] /\ key_rows \in [Kinds -> [Keys -> JobKeyRows]]
  BY DEF JobsInvariant, JobsTypeOK
<1>1. UNCHANGED <<jobs, answers>> => answers' \subseteq JobAnswers /\ AnswersAreTheCallers'
  BY DEF JobsInvariant, JobsTypeOK, AnswersAreTheCallers
<1>2. ASSUME NEW kind \in Kinds, NEW k \in Keys, NEW body \in Bodies, LookupNew(c, kind, k, body)
      PROVE  JobsInvariant'
  <2>1. PICK row \in JobKeyRows : row = key_rows[kind][k]
    BY <1>0
  <2>2. PICK new : new = [step |-> IF row = NoRow THEN "work" ELSE "delete",
                          kind |-> kind, key |-> k, body |-> body, deletes |-> FALSE]
    BY Zenon
  <2>3. /\ new \in JobCalls /\ new.deletes = FALSE /\ new.step # "commit" /\ new.kind = kind
        /\ new.step = "delete" => row # NoRow
    <3>1. CASE row = NoRow
      <4>1. new = [step |-> "work", kind |-> kind, key |-> k, body |-> body, deletes |-> FALSE]
        BY <2>2, <3>1
      <4> QED
        BY <4>1 DEF JobCalls
    <3>2. CASE row # NoRow
      <4>1. new = [step |-> "delete", kind |-> kind, key |-> k, body |-> body, deletes |-> FALSE]
        BY <2>2, <3>2
      <4> QED
        BY <3>2, <4>1 DEF JobCalls
    <3> QED
      BY <3>1, <3>2
  <2>4. row # NoRow => kind = "prediction"
    BY <1>2, <2>1 DEF LookupNew
  <2>5. call' = [call EXCEPT ![c] = new] /\ UNCHANGED <<jobs, key_rows, answers>>
    BY <1>2, <2>1, <2>2 DEF LookupNew
  <2>6. /\ call' \in [Callers -> {NoCall} \cup JobCalls] /\ call'[c] = new
        /\ \A d \in Callers \ {c} : call'[d] = call[d]
    BY <1>0, <2>3, <2>5
  <2> QED
    BY <1>1, <2>3, <2>4, <2>5, <2>6, CallMoves
<1>3. ASSUME NEW kind \in Kinds, NEW k \in Keys, NEW body \in Bodies, LookupReplay(c, kind, k, body)
      PROVE  JobsInvariant'
  <2>1. /\ key_rows[kind][k] # NoRow /\ key_rows[kind][k].body = body
        /\ UNCHANGED <<jobs, key_rows, call>> /\ call[c] = NoCall
        /\ Answer(kind, k, body, key_rows[kind][k].job)
    BY <1>3 DEF LookupReplay
  <2>2. answers' \subseteq JobAnswers /\ AnswersAreTheCallers'
    BY <2>1, AnswersKept
  <2> QED
    BY <1>0, <2>1, <2>2, CallMoves
<1>4. CASE AbortJob(c)
  <2>1. call' = [call EXCEPT ![c] = NoCall] /\ UNCHANGED <<jobs, key_rows, answers>>
    BY <1>4 DEF AbortJob, Done
  <2>2. /\ call' \in [Callers -> {NoCall} \cup JobCalls] /\ call'[c] = NoCall
        /\ \A d \in Callers \ {c} : call'[d] = call[d]
    BY <1>0, <2>1
  <2> QED
    BY <1>1, <2>1, <2>2, CallMoves
<1>5. CASE InsertConflict(c)
  <2>1. call[c] # NoCall /\ call[c].step = "work"
    BY <1>5 DEF InsertConflict, NoCall
  <2>2. PICK r \in JobCalls : r = call[c]
    BY <1>0, <2>1
  <2>3. PICK kind \in Kinds, k \in Keys, body \in Bodies : kind = r.kind /\ k = r.key /\ body = r.body
    BY DEF JobCalls
  <2>4. /\ call' = [call EXCEPT ![c] = NoCall] /\ UNCHANGED <<jobs, key_rows>>
        /\ key_rows[kind][k] # NoRow
        /\ \/ /\ key_rows[kind][k].body = body /\ Answer(kind, k, body, key_rows[kind][k].job)
           \/ UNCHANGED answers
    BY <1>5, <2>2, <2>3 DEF InsertConflict, Done
  <2>5. answers' \subseteq JobAnswers /\ AnswersAreTheCallers'
    BY <1>1, <2>4, AnswersKept
  <2>6. /\ call' \in [Callers -> {NoCall} \cup JobCalls] /\ call'[c] = NoCall
        /\ \A d \in Callers \ {c} : call'[d] = call[d]
    BY <1>0, <2>4
  <2> QED
    BY <2>4, <2>5, <2>6, CallMoves
<1>6. ASSUME call[c] # NoCall, ~KeyLocked(c)
      PROVE  \A d \in Callers \ {c} :
                HoldsKey(d) => call[d].kind # call[c].kind \/ call[d].key # call[c].key
  BY <1>6 DEF KeyLocked, HoldsKey
<1>7. CASE InsertKey(c)
  <2>1. call[c] # NoCall /\ call[c].step = "work" /\ ~KeyLocked(c)
    BY <1>7 DEF InsertKey, NoCall
  <2>2. PICK r \in JobCalls : r = call[c]
    BY <1>0, <2>1
  <2>3. PICK new : new = [r EXCEPT !.step = "commit"]
    BY Zenon
  <2>4. /\ new \in JobCalls /\ new.step = "commit" /\ new.kind = r.kind /\ new.key = r.key
        /\ new.deletes = r.deletes
    BY <2>2, <2>3 DEF JobCalls
  <2>5. /\ call' = [call EXCEPT ![c].step = "commit"] /\ UNCHANGED <<jobs, key_rows, answers>>
        /\ key_rows[r.kind][r.key] = NoRow \/ r.deletes
    BY <1>7, <2>2 DEF InsertKey
  <2>6. /\ call' \in [Callers -> {NoCall} \cup JobCalls] /\ call'[c] = new
        /\ \A d \in Callers \ {c} : call'[d] = call[d]
    <3>1. call' = [call EXCEPT ![c] = new]
      BY <2>2, <2>3, <2>5
    <3> QED
      BY <1>0, <2>4, <3>1
  <2>7. r.deletes => r.kind = "prediction" /\ key_rows[r.kind][r.key] # NoRow
    BY <2>1, <2>2 DEF JobsInvariant, HoldersKnow
  <2>8. \A d \in Callers \ {c} : HoldsKey(d) => call[d].kind # new.kind \/ call[d].key # new.key
    BY <1>6, <2>1, <2>2, <2>4
  <2> QED
    BY <1>1, <2>4, <2>5, <2>6, <2>7, <2>8, CallMoves
<1>8. CASE DeleteExpired(c)
  <2>1. call[c] # NoCall /\ call[c].step = "delete" /\ ~KeyLocked(c)
    BY <1>8 DEF DeleteExpired, NoCall
  <2>2. PICK r \in JobCalls : r = call[c]
    BY <1>0, <2>1
  <2>3. PICK row \in JobKeyRows : row = key_rows[r.kind][r.key]
    BY <1>0, <2>2 DEF JobCalls
  <2>4. row.expired \in BOOLEAN /\ (row.expired => row # NoRow)
    BY <2>3 DEF JobKeyRows, NoRow
  <2>5. PICK new : new = [r EXCEPT !.step = "work", !.deletes = row.expired]
    BY Zenon
  <2>6. /\ new \in JobCalls /\ new.step = "work" /\ new.kind = r.kind /\ new.key = r.key
        /\ new.deletes = row.expired
    BY <2>2, <2>4, <2>5 DEF JobCalls
  <2>7. /\ call' = [call EXCEPT ![c].step = "work", ![c].deletes = row.expired]
        /\ UNCHANGED <<jobs, key_rows, answers>>
    BY <1>8, <2>2, <2>3 DEF DeleteExpired
  <2>8. /\ call' \in [Callers -> {NoCall} \cup JobCalls] /\ call'[c] = new
        /\ \A d \in Callers \ {c} : call'[d] = call[d]
    <3>1. call' = [call EXCEPT ![c] = new]
      BY <1>0, <2>2, <2>5, <2>7
    <3> QED
      BY <1>0, <2>6, <3>1
  <2>9. r.kind = "prediction"
    BY <2>1, <2>2 DEF JobsInvariant, HoldersKnow
  <2>10. \A d \in Callers \ {c} : HoldsKey(d) => call[d].kind # new.kind \/ call[d].key # new.key
    BY <1>6, <2>1, <2>2, <2>6
  <2>11. new.deletes => key_rows[new.kind][new.key] # NoRow
    BY <2>3, <2>4, <2>6
  <2>12. new.step # "delete" /\ new.step # "commit" /\ new.kind = "prediction"
    BY <2>6, <2>9
  <2>13. answers' \subseteq JobAnswers /\ AnswersAreTheCallers' /\ UNCHANGED <<jobs, key_rows>>
    BY <1>1, <2>7
  <2> QED
    BY <2>6, <2>8, <2>10, <2>11, <2>12, <2>13, CallMoves
<1> QED
  BY <1>2, <1>3, <1>4, <1>5, <1>7, <1>8

(* A key's row expires: it still points to its job. *)
LEMMA ExpireKeyPreserves ==
  ASSUME JobsInvariant, NEW kind \in Kinds, NEW k \in Keys, ExpireKey(kind, k)
  PROVE  JobsInvariant'
<1>1. PICK old \in JobKeyRows : old = key_rows[kind][k] /\ old # NoRow
  BY DEF JobsInvariant, JobsTypeOK, ExpireKey
<1>2. PICK row : row = [old EXCEPT !.expired = TRUE]
  BY Zenon
<1>3. row \in JobKeyRows /\ row.job = old.job /\ row.body = old.body /\ row # NoRow
  BY <1>1, <1>2 DEF JobKeyRows, NoRow
<1>4. key_rows' = [key_rows EXCEPT ![kind][k] = row] /\ UNCHANGED <<jobs, call, answers>>
  BY <1>1, <1>2 DEF ExpireKey, JobsInvariant, JobsTypeOK
<1>5. /\ key_rows' \in [Kinds -> [Keys -> JobKeyRows]] /\ key_rows'[kind][k] = row
      /\ \A x \in Kinds : \A y \in Keys : x # kind \/ y # k => key_rows'[x][y] = key_rows[x][y]
  BY <1>3, <1>4, KeyRowChanged, ZenonT(30) DEF JobsInvariant
<1>6. \A x \in Kinds : \A y \in Keys :
         /\ key_rows'[x][y].job = key_rows[x][y].job /\ key_rows'[x][y].body = key_rows[x][y].body
         /\ key_rows'[x][y] = NoRow <=> key_rows[x][y] = NoRow
  BY <1>1, <1>3, <1>5
<1>7. JobsTypeOK' /\ RowsAreMade' /\ HoldersExclude' /\ AnswersAreTheCallers'
  BY <1>4, <1>5 DEF JobsInvariant, JobsTypeOK, RowsAreMade, HoldersExclude, HoldsKey,
                    AnswersAreTheCallers
<1>8. KeysPointToJobs'
  BY <1>4, <1>6 DEF JobsInvariant, KeysPointToJobs
<1>9. JobsPointToKeys'
  <2>1. \A i \in DOMAIN jobs : jobs[i].kind \in Kinds /\ jobs[i].key \in Keys
    <3>1. \A i \in DOMAIN jobs : jobs[i] \in JobRows
      BY DEF JobsInvariant, JobsTypeOK
    <3> QED
      BY <3>1 DEF JobRows
  <2> QED
    BY <1>4, <1>6, <2>1 DEF JobsInvariant, JobsPointToKeys
<1>10. HoldersKnow'
  <2>1. \A c \in Callers : call[c] # NoCall => call[c].kind \in Kinds /\ call[c].key \in Keys
    BY DEF JobsInvariant, JobsTypeOK, JobCalls
  <2> QED
    BY <1>4, <1>6, <2>1 DEF JobsInvariant, HoldersKnow
<1> QED
  BY <1>7, <1>8, <1>9, <1>10 DEF JobsInvariant

(* Every step of the idempotent endpoints. *)
LEMMA JobsPreserved ==
  JobsInvariant /\ [JobNext]_jobVars => JobsInvariant'
<1> SUFFICES ASSUME JobsInvariant, [JobNext]_jobVars PROVE JobsInvariant'
  OBVIOUS
<1>1. CASE UNCHANGED jobVars
  BY <1>1 DEF jobVars, JobsInvariant, JobsTypeOK, RowsAreMade, KeysPointToJobs, JobsPointToKeys,
              HoldersExclude, HoldsKey, HoldersKnow, AnswersAreTheCallers
<1>2. ASSUME NEW c \in Callers, CommitJob(c) PROVE JobsInvariant'
  BY <1>2, CommitJobPreserves
<1>3. ASSUME NEW c \in Callers, WorkFails(c) PROVE JobsInvariant'
  BY <1>3, WorkFailsPreserves
<1>4. ASSUME NEW c \in Callers,
             \/ \E kind \in Kinds : \E k \in Keys : \E body \in Bodies :
                   LookupNew(c, kind, k, body) \/ LookupReplay(c, kind, k, body)
             \/ DeleteExpired(c) \/ InsertKey(c) \/ InsertConflict(c) \/ AbortJob(c)
      PROVE  JobsInvariant'
  BY <1>4, JobStepsPreserve
<1>5. ASSUME NEW kind \in Kinds, NEW k \in Keys, ExpireKey(kind, k) PROVE JobsInvariant'
  BY <1>5, ExpireKeyPreserves
<1> QED
  BY <1>1, <1>2, <1>3, <1>4, <1>5 DEF JobNext

(* Nothing is stored at first. *)
LEMMA JobsInitially ==
  JobInit => JobsInvariant
<1> SUFFICES ASSUME JobInit PROVE JobsInvariant
  OBVIOUS
<1>1. jobs = <<>> /\ answers = {} /\ \A c \in Callers : call[c] = NoCall
  BY DEF JobInit
<1>2. \A kind \in Kinds : \A k \in Keys : key_rows[kind][k] = NoRow
  BY DEF JobInit
<1>3. JobsTypeOK
  <2>1. PICK row : row = NoRow
    BY Zenon
  <2>2. row \in JobKeyRows
    BY <2>1 DEF NoRow, JobKeyRows
  <2>3. key_rows \in [Kinds -> [Keys -> JobKeyRows]]
    BY <2>1, <2>2 DEF JobInit
  <2>4. call \in [Callers -> {NoCall} \cup JobCalls]
    BY DEF JobInit
  <2> QED
    BY <1>1, <2>3, <2>4 DEF JobsTypeOK
<1>4. RowsAreMade /\ KeysPointToJobs /\ JobsPointToKeys
  BY <1>1, <1>2 DEF RowsAreMade, KeysPointToJobs, JobsPointToKeys
<1>5. HoldersExclude /\ HoldersKnow /\ AnswersAreTheCallers
  BY <1>1 DEF HoldersExclude, HoldersKnow, HoldsKey, AnswersAreTheCallers
<1> QED
  BY <1>3, <1>4, <1>5 DEF JobsInvariant

-----------------------------------------------------------------------------
(* An item is graded on what its submission was when it was read. *)
LEMMA GradeIsEarned ==
  ASSUME NEW c \in Child
  PROVE  /\ _build_teaching_grading_result(c) \in GradedItem
         /\ _build_teaching_grading_result(c).status = "graded" =>
               /\ _build_teaching_grading_result(c).score = MAX_SCORE
               /\ c.status = "completed" /\ c.solution /\ c.teaching
         /\ _build_teaching_grading_result(c).status # "graded" =>
               _build_teaching_grading_result(c).score = 0
<1>1. PICK can : can = (\A n \in DOMAIN Criteria(c) : Criteria(c)[n])
  OBVIOUS
<1>2. c.teaching \in BOOLEAN /\ c.solution \in BOOLEAN
  BY DEF Child
<1>3. DOMAIN Criteria(c) = 1..4 /\ Len(Criteria(c)) = 4
  BY DEF Criteria
<1>4. /\ Criteria(c)[1] = c.teaching /\ Criteria(c)[2] = (c.status = "completed")
      /\ Criteria(c)[3] = c.solution
  BY DEF Criteria
<1>5. CASE can
  <2>1. _build_teaching_grading_result(c) = [status |-> "graded", score |-> CRITERION_POINTS * 4]
    BY <1>1, <1>3, <1>5 DEF _build_teaching_grading_result
  <2>2. CRITERION_POINTS * 4 = MAX_SCORE /\ MAX_SCORE \in Int
    BY DEF CRITERION_POINTS, MAX_SCORE
  <2>3. c.teaching /\ c.status = "completed" /\ c.solution
    <3>1. Criteria(c)[1] /\ Criteria(c)[2] /\ Criteria(c)[3]
      <4>1. 1 \in DOMAIN Criteria(c) /\ 2 \in DOMAIN Criteria(c) /\ 3 \in DOMAIN Criteria(c)
        BY <1>3
      <4> QED
        BY <1>1, <1>5, <4>1, Zenon
    <3> QED
      BY <1>4, <3>1
  <2> QED
    BY <2>1, <2>2, <2>3 DEF GradedItem
<1>6. CASE ~can
  <2>1. _build_teaching_grading_result(c) = [status |-> "not_gradable", score |-> 0]
    BY <1>1, <1>6 DEF _build_teaching_grading_result
  <2> QED
    BY <2>1 DEF GradedItem
<1> QED
  BY <1>5, <1>6

(* The counts of a stored grading: every item is graded or is not, and the *)
(* graded ones are those with the full score.                              *)
LEMMA CountsAddUp ==
  ASSUME NEW n \in Nat, NEW items, DOMAIN items = 1..n,
         \A i \in 1..n : items[i].score = IF items[i].status = "graded" THEN MAX_SCORE ELSE 0
  PROVE  /\ Cardinality({i \in DOMAIN items : items[i].status = "graded"})
              + Cardinality({i \in DOMAIN items : items[i].status # "graded"}) = n
         /\ Cardinality({i \in DOMAIN items : items[i].status = "graded"})
              = Cardinality({i \in 1..n : items[i].score = MAX_SCORE})
<1> DEFINE G == {i \in DOMAIN items : items[i].status = "graded"}
           N == {i \in DOMAIN items : items[i].status # "graded"}
<1>1. IsFiniteSet(1..n) /\ Cardinality(1..n) = n
  BY FS_Interval
<1>2. G \subseteq 1..n /\ N \subseteq 1..n /\ G \cup N = 1..n /\ G \cap N = {}
  OBVIOUS
<1>3. IsFiniteSet(G) /\ IsFiniteSet(N)
  BY <1>1, <1>2, FS_Subset
<1>4. Cardinality(G \cup N) = Cardinality(G) + Cardinality(N) - Cardinality(G \cap N)
  BY <1>3, FS_Union
<1>5. Cardinality({}) = 0 /\ Cardinality(G) \in Nat /\ Cardinality(N) \in Nat
  BY <1>3, FS_EmptySet, FS_CardinalityType
<1>6. Cardinality(G) + Cardinality(N) = n
  <2> HIDE DEF G, N
  <2>1. Cardinality(G \cup N) = n /\ Cardinality(G \cap N) = 0
    BY <1>1, <1>2, <1>5
  <2> QED
    BY <1>4, <1>5, <2>1
<1>7. G = {i \in 1..n : items[i].score = MAX_SCORE}
  BY DEF MAX_SCORE
<1> QED
  BY <1>6, <1>7

(* A child that completed is final; the others keep what they are for.     *)
LEMMA ChildrenMove ==
  ASSUME GradingInvariant, NEW i \in 1..BatchSize,
         WorkerStarts(i) \/ WorkerReports(i) \/ WorkerEnds(i) \/ CancelChild(i)
  PROVE  /\ children' \in [1..BatchSize -> Child] /\ UNCHANGED <<grading, graded>>
         /\ \A j \in 1..BatchSize : children[j].status = "completed" => children'[j] = children[j]
<1>1. PICK c \in Child : c = children[i]
  BY DEF GradingInvariant
<1>2. children \in [1..BatchSize -> Child]
  BY DEF GradingInvariant
<1>3. \E new \in Child : children' = [children EXCEPT ![i] = new] /\ c.status # "completed"
  <2>1. CASE WorkerStarts(i)
    <3>1. PICK new : new = [c EXCEPT !.status = "in_progress"]
      BY Zenon
    <3>2. new \in Child
      BY <3>1 DEF Child
    <3> QED
      BY <1>1, <1>2, <2>1, <3>1, <3>2 DEF WorkerStarts
  <2>2. CASE WorkerReports(i)
    <3>1. PICK raw \in RawProgress : children' = [children EXCEPT ![i].raw = raw]
      BY <2>2 DEF WorkerReports
    <3>2. PICK new : new = [c EXCEPT !.raw = raw]
      BY Zenon
    <3>3. new \in Child
      BY <3>1, <3>2, BatchAssumption DEF Child
    <3> QED
      BY <1>1, <1>2, <2>2, <3>1, <3>2, <3>3 DEF WorkerReports
  <2>3. CASE WorkerEnds(i)
    <3>1. PICK status \in {"completed", "failed", "timeout"} :
             children' = [children EXCEPT ![i].status = status, ![i].solution = (status = "completed")]
      BY <2>3 DEF WorkerEnds
    <3>2. PICK done \in BOOLEAN : done = (status = "completed")
      OBVIOUS
    <3>3. PICK new : new = [c EXCEPT !.status = status, !.solution = done]
      BY Zenon
    <3>4. new \in Child
      BY <3>1, <3>2, <3>3 DEF Child
    <3>5. children' = [children EXCEPT ![i] = new]
      BY <1>1, <1>2, <3>1, <3>2, <3>3
    <3> QED
      BY <1>1, <2>3, <3>4, <3>5 DEF WorkerEnds
  <2>4. CASE CancelChild(i)
    <3>1. PICK new : new = [c EXCEPT !.status = "cancelled"]
      BY Zenon
    <3>2. new \in Child
      BY <3>1 DEF Child
    <3> QED
      BY <1>1, <1>2, <2>4, <3>1, <3>2 DEF CancelChild, Unfinished
  <2> QED
    BY <2>1, <2>2, <2>3, <2>4
<1>4. UNCHANGED <<grading, graded>>
  BY DEF WorkerStarts, WorkerReports, WorkerEnds, CancelChild
<1> QED
  BY <1>1, <1>2, <1>3, <1>4

(* Every step of a batch and of its grading. *)
LEMMA GradesPreserved ==
  GradingInvariant /\ [BatchNext]_batchVars => GradingInvariant'
<1> SUFFICES ASSUME GradingInvariant, [BatchNext]_batchVars PROVE GradingInvariant'
  OBVIOUS
<1>0. children \in [1..BatchSize -> Child] /\ BatchSize \in Nat
  BY BatchAssumption DEF GradingInvariant
<1>1. CASE UNCHANGED batchVars
  BY <1>1 DEF batchVars, GradingInvariant, Justified, GradesStayJustified
<1>2. ASSUME NEW i \in 1..BatchSize,
             WorkerStarts(i) \/ WorkerReports(i) \/ WorkerEnds(i) \/ CancelChild(i)
      PROVE  GradingInvariant'
  <2>1. /\ children' \in [1..BatchSize -> Child] /\ UNCHANGED <<grading, graded>>
        /\ \A j \in 1..BatchSize : children[j].status = "completed" => children'[j] = children[j]
    BY <1>2, ChildrenMove
  <2>2. ASSUME NEW g, NEW j \in 1..BatchSize, Justified(g, j)
        PROVE  IF g.status = "graded"
               THEN /\ g.score = MAX_SCORE
                    /\ children'[j].status = "completed" /\ children'[j].solution
                    /\ children'[j].teaching
               ELSE g.score = 0
    BY <2>1, <2>2 DEF Justified
  <2>3. ASSUME grading' # NotGrading
        PROVE  /\ grading' \in Seq(GradedItem) /\ Len(grading') <= BatchSize
               /\ \A j \in DOMAIN grading' : Justified(grading[j], j)'
    <3>1. /\ grading \in Seq(GradedItem) /\ Len(grading) <= BatchSize
          /\ \A j \in DOMAIN grading : Justified(grading[j], j) /\ j \in 1..BatchSize
      BY <1>0, <2>1, <2>3 DEF GradingInvariant
    <3> QED
      BY <2>1, <2>2, <3>1 DEF Justified
  <2>4. ASSUME graded' # NoGrades
        PROVE  /\ graded'.items \in Seq(GradedItem) /\ Len(graded'.items) = BatchSize
               /\ \A j \in 1..BatchSize : Justified(graded.items[j], j)'
    <3>1. /\ graded.items \in Seq(GradedItem) /\ Len(graded.items) = BatchSize
          /\ \A j \in 1..BatchSize : Justified(graded.items[j], j)
      BY <2>1, <2>4 DEF GradingInvariant
    <3> QED
      BY <2>1, <2>2, <3>1 DEF Justified
  <2>5. GradesStayJustified'
    BY <2>1, <2>4 DEF GradingInvariant, GradesStayJustified, Justified
  <2> QED
    BY <2>1, <2>3, <2>4, <2>5 DEF GradingInvariant
<1>3. CASE StartGrading
  <2>1. grading' = <<>> /\ children' = children /\ graded' = graded /\ graded = NoGrades
    BY <1>3 DEF StartGrading
  <2> QED
    BY <1>0, <2>1 DEF GradingInvariant, GradesStayJustified
<1>4. CASE GradeNext
  <2>1. PICK n \in 1..BatchSize : n = Len(grading) + 1 /\ grading \in Seq(GradedItem)
    BY <1>0, <1>4 DEF GradeNext, GradingInvariant
  <2>2. PICK new : new = _build_teaching_grading_result(children[n])
    OBVIOUS
  <2>3. new \in GradedItem /\ Justified(new, n)
    BY <1>0, <2>1, <2>2, GradeIsEarned DEF Justified
  <2>4. grading' = Append(grading, new) /\ UNCHANGED <<children, graded>>
    BY <1>4, <2>1, <2>2 DEF GradeNext
  <2>5. /\ grading' \in Seq(GradedItem) /\ Len(grading') = n /\ grading'[n] = new
        /\ DOMAIN grading' = 1..n /\ \A j \in 1..n : j # n => j \in DOMAIN grading /\ grading'[j] = grading[j]
    BY <2>1, <2>3, <2>4
  <2>6. \A j \in DOMAIN grading : Justified(grading[j], j)
    BY <1>4 DEF GradeNext, GradingInvariant
  <2>7. \A j \in DOMAIN grading' : Justified(grading[j], j)'
    BY <2>3, <2>4, <2>5, <2>6 DEF Justified
  <2>8. /\ graded' # NoGrades =>
              /\ graded'.items \in Seq(GradedItem) /\ Len(graded'.items) = BatchSize
              /\ \A j \in 1..BatchSize : Justified(graded.items[j], j)'
        /\ GradesStayJustified'
    BY <2>4 DEF GradingInvariant, GradesStayJustified, Justified
  <2> QED
    BY <1>0, <2>1, <2>4, <2>5, <2>7, <2>8 DEF GradingInvariant
<1>5. CASE create_teaching_grading_batch
  <2>1. PICK items \in Seq(GradedItem) : items = grading
    BY <1>5 DEF create_teaching_grading_batch, GradingInvariant
  <2>2. /\ Len(items) = BatchSize /\ DOMAIN items = 1..BatchSize
        /\ \A j \in 1..BatchSize : Justified(items[j], j)
    BY <1>0, <1>5, <2>1 DEF create_teaching_grading_batch, GradingInvariant
  <2>3. PICK a, b :
           /\ a = Cardinality({j \in DOMAIN items : items[j].status = "graded"})
           /\ b = Cardinality({j \in DOMAIN items : items[j].status # "graded"})
    OBVIOUS
  <2>4. a + b = BatchSize /\ a = Cardinality({j \in 1..BatchSize : items[j].score = MAX_SCORE})
    <3>1. \A j \in 1..BatchSize :
             items[j].score = IF items[j].status = "graded" THEN MAX_SCORE ELSE 0
      BY <2>2 DEF Justified
    <3> QED
      BY <1>0, <2>2, <2>3, <3>1, CountsAddUp
  <2>5. /\ graded' = [items |-> items, graded_count |-> a, not_gradable_count |-> b]
        /\ grading' = NotGrading /\ children' = children
    BY <1>5, <2>1, <2>3 DEF create_teaching_grading_batch
  <2>6. graded'.items = items /\ graded'.graded_count = a /\ graded'.not_gradable_count = b
    BY <2>5
  <2>7. GradesStayJustified'
    BY <2>2, <2>4, <2>5, <2>6 DEF GradesStayJustified, Justified
  <2>8. \A j \in 1..BatchSize : Justified(graded.items[j], j)'
    BY <2>2, <2>5, <2>6 DEF Justified
  <2> QED
    BY <1>0, <2>2, <2>5, <2>6, <2>7, <2>8 DEF GradingInvariant
<1> QED
  BY <1>1, <1>2, <1>3, <1>4, <1>5 DEF BatchNext

(* Nothing is graded at first. *)
LEMMA GradesInitially ==
  BatchInit => GradingInvariant
<1> SUFFICES ASSUME BatchInit PROVE GradingInvariant
  OBVIOUS
<1>1. children \in [1..BatchSize -> Child]
  <2>1. \A t \in BOOLEAN :
           [status |-> "queued", raw |-> 0, teaching |-> t, solution |-> FALSE] \in Child
    BY DEF Child
  <2>2. PICK Queued : /\ Queued = {[status |-> "queued", raw |-> 0, teaching |-> t, solution |-> FALSE] :
                                      t \in BOOLEAN}
                      /\ children \in [1..BatchSize -> Queued]
    BY DEF BatchInit
  <2>3. Queued \subseteq Child
    BY <2>1, <2>2, Zenon
  <2> QED
    BY <2>2, <2>3
<1> QED
  BY <1>1 DEF BatchInit, GradingInvariant, GradesStayJustified

-----------------------------------------------------------------------------
(* The rows and the jobs point to each other: a key stands for one job. *)
LEMMA KeysStandForOneJob ==
  JobsInvariant => OneJobPerKey
<1> SUFFICES ASSUME JobsInvariant, NEW i \in DOMAIN jobs, NEW j \in DOMAIN jobs,
                    \A n \in {i, j} : jobs[n].status = "done" /\ ~jobs[n].replaced,
                    jobs[i].kind = jobs[j].kind, jobs[i].key = jobs[j].key
             PROVE  i = j
  BY DEF OneJobPerKey
<1>1. StandsFor(jobs, i, jobs[i].kind, jobs[i].key) /\ StandsFor(jobs, j, jobs[j].kind, jobs[j].key)
  BY DEF StandsFor
<1> QED
  BY <1>1 DEF JobsInvariant, JobsPointToKeys

(* However requests with one key overlap, crash and are repeated, the key  *)
(* stands for one job, every answer names a job of its caller with the     *)
(* caller's body, and a stored grading is justified by its submissions and *)
(* accounts for all of them: for any number of concurrent requests, kinds, *)
(* keys, bodies and submissions (POST /v1/batches, /v1/teaching/gradings,  *)
(* /v1/predictions and reruns of a voucher).                               *)
THEOREM JobsSafe ==
  MCSpec => []JobsSound
<1>1. MCInit => JobsInvariant /\ GradingInvariant
  BY JobsInitially, GradesInitially DEF MCInit, Init
<1>2. JobsInvariant /\ [MCNext]_<<admission, execution, records, story>> => JobsInvariant'
  <2>1. [MCNext]_<<admission, execution, records, story>> => [JobNext]_jobVars
    BY DEF MCNext, LimitPart, KeyUsePart, RoutePart, LpPart, JobPart, BatchPart, TemplatePart,
           MigrationPart, CitationPart, ExitPart, admission, execution, records
  <2> QED
    BY <2>1, JobsPreserved
<1>3. GradingInvariant /\ [MCNext]_<<admission, execution, records, story>> => GradingInvariant'
  <2>1. [MCNext]_<<admission, execution, records, story>> => [BatchNext]_batchVars
    BY DEF MCNext, LimitPart, KeyUsePart, RoutePart, LpPart, JobPart, BatchPart, TemplatePart,
           MigrationPart, CitationPart, ExitPart, admission, execution, records
  <2> QED
    BY <2>1, GradesPreserved
<1>4. JobsInvariant /\ GradingInvariant => JobsSound
  BY KeysStandForOneJob DEF JobsInvariant, GradingInvariant, JobsSound
<1> QED
  BY <1>1, <1>2, <1>3, <1>4, PTL DEF MCSpec

-----------------------------------------------------------------------------
(***************************************************************************)
(* Templates.  What makes their properties inductive: what a request is    *)
(* about to insert was derived from a committed row; a request that has    *)
(* numbered its version holds the lock of the lineage, in which no number  *)
(* is as large; and a root about to be committed is the only one of its    *)
(* name.                                                                   *)
(***************************************************************************)
TemplateRows ==
    [name : Names, root : Nat, parent : Nat, version : Nat, payload : SUBSET Fields,
     deleted : BOOLEAN]
Edits ==
    [step : {"insert", "find", "lock", "number", "insert_version", "commit"}, tries : Nat,
     row : TemplateRows]

TemplatesTypeOK ==
    /\ templates \in Seq(TemplateRows) /\ Len(templates) <= MaxTemplates
    /\ edit \in [Editors -> {NoEdit} \cup Edits]
    /\ lineage_lock \in [1..MaxTemplates -> {Nobody} \cup Editors]

OneObjective(payload) == ~("minimize" \in payload /\ "maximize" \in payload)

(* The row was made from its parent by changing one parameter. *)
FromParent(row) ==
    /\ row.parent \in DOMAIN templates /\ row.root = RootOf(row.parent)
    /\ templates[row.parent].payload \subseteq row.payload
    /\ Cardinality(row.payload \ templates[row.parent].payload) <= 1

TemplateOK(i) ==
    /\ OneObjective(templates[i].payload) /\ templates[i].version <= i
    /\ RootOf(i) \in DOMAIN templates
    /\ templates[i].parent # 0 =>
         /\ templates[i].parent < i /\ FromParent(templates[i])
         /\ templates[templates[i].parent].version < templates[i].version

(* An active root of this name. *)
ActiveRoot(i, name) ==
    i \in DOMAIN templates /\ ~templates[i].deleted /\ templates[i].name = name /\ templates[i].parent = 0

RootsDiffer ==
    \A i, j \in DOMAIN templates :
        ActiveRoot(i, templates[i].name) /\ ActiveRoot(j, templates[i].name) => i = j

(* No number of the row's lineage is as large. *)
IsNewest(row) ==
    /\ row.version <= Len(templates) + 1
    /\ \A i \in DOMAIN templates : RootOf(i) = row.root => templates[i].version < row.version

(* What request e is about to insert. *)
EditOK(e, x) ==
    /\ OneObjective(x.row.payload)
    /\ x.step \in {"insert", "find"} => x.row.parent = 0
    /\ x.step \in {"lock", "number", "insert_version"} => x.row.parent # 0
    /\ x.row.parent = 0 => x.row.root = 0 /\ x.row.version = 1
    /\ x.row.parent # 0 => FromParent(x.row)
    /\ x.row.parent # 0 /\ x.step # "lock" => lineage_lock[x.row.root] = e
    /\ x.row.parent # 0 /\ x.step \in {"insert_version", "commit"} => IsNewest(x.row)
    /\ x.row.parent = 0 /\ x.step = "commit" =>
         \A i \in DOMAIN templates : ~ActiveRoot(i, x.row.name)

(* The request has inserted a root and not committed it. *)
InsertedRoot(x, name) ==
    x # NoEdit /\ x.step = "commit" /\ x.row.parent = 0 /\ x.row.name = name

InsertsExclude ==
    \A d, e \in Editors : \A name \in Names :
        InsertedRoot(edit[d], name) /\ InsertedRoot(edit[e], name) => d = e

TemplatesInvariant ==
    /\ TemplatesTypeOK
    /\ \A i \in DOMAIN templates : TemplateOK(i)
    /\ VersionsAreFinal /\ RootsDiffer
    /\ \A e \in Editors : edit[e] # NoEdit => EditOK(e, edit[e])
    /\ InsertsExclude

(***************************************************************************)
(* Vouchers: every one has the task and the solver of the provider it      *)
(* locks, which are those of the first.                                    *)
(***************************************************************************)
VoucherRows ==
    [provider : Providers, parent : Nat, depth : Nat, expired : BOOLEAN,
     task : {Offer[p].task : p \in Providers}, solver : {Offer[p].solver : p \in Providers},
     listed : BOOLEAN]

VoucherOK(i) ==
    LET v == vouchers[i]
    IN  /\ v.parent < i
        /\ v.depth = 0 <=> v.parent = 0
        /\ v.parent # 0 => v.depth = vouchers[v.parent].depth + 1
        /\ v.task = vouchers[1].task /\ v.solver = vouchers[1].solver
        /\ Offer[v.provider].task = v.task /\ Offer[v.provider].solver = v.solver
        /\ v.listed => Offer[v.provider].tags = Offer[vouchers[1].provider].tags

VouchersInvariant ==
    /\ lifecycle \in [Providers -> Statuses]
    /\ vouchers \in Seq(VoucherRows) /\ 1 \in DOMAIN vouchers
    /\ \A i \in DOMAIN vouchers : VoucherOK(i)
    /\ RerunsStayEquivalent

-----------------------------------------------------------------------------
(* A set of bounded numbers has a largest one. *)
LEMMA MaxOfBounded ==
  ASSUME NEW n \in Nat, NEW S \in SUBSET (0..n), S # {}
  PROVE  Max(S) \in S /\ \A y \in S : y <= Max(S)
<1> DEFINE T == {x \in 0..n : n - x \in S}
<1>1. IsWellFoundedOn(OpToRel(<, Nat), Nat)
  BY NatLessThanWellFounded
<1>2. PICK s \in S : s \in 0..n
  OBVIOUS
<1>3. n - s \in T /\ T \subseteq Nat
  <2>1. n - s \in 0..n /\ n - (n - s) = s
    BY <1>2
  <2> QED
    BY <1>2, <2>1
<1>4. PICK x \in T : \A y \in T : ~(<<y, x>> \in OpToRel(<, Nat))
  BY <1>1, <1>3, WFMin
<1>5. \A y \in T : ~(y < x)
  BY <1>3, <1>4 DEF OpToRel
<1>6. n - x \in S /\ \A y \in S : n - x >= y
  <2>1. ASSUME NEW y \in S PROVE n - x >= y
    <3>1. y \in 0..n /\ n - y \in 0..n /\ n - (n - y) = y
      OBVIOUS
    <3>2. n - y \in T
      BY <2>1, <3>1
    <3>3. ~(n - y < x) /\ x \in 0..n
      BY <1>5, <3>2
    <3> QED
      BY <3>1, <3>3
  <2> QED
    BY <2>1
<1>7. \E m \in S : \A y \in S : m >= y
  BY <1>6
<1>8. PICK m : m = Max(S)
  BY Zenon
<1>9. m \in S /\ \A y \in S : m >= y
  BY <1>7, <1>8, Zenon DEF Max
<1>10. \A y \in S : y \in 0..n
  OBVIOUS
<1> QED
  BY <1>8, <1>9, <1>10

(* The number of the next version exceeds all of its lineage. *)
LEMMA NextVersionIsNewest ==
  ASSUME TemplatesInvariant, NEW root
  PROVE  /\ _next_job_template_version(root) \in 1..(Len(templates) + 1)
         /\ \A i \in DOMAIN templates :
               RootOf(i) = root => templates[i].version < _next_job_template_version(root)
<1> DEFINE S == {0} \cup {templates[i].version : i \in {j \in DOMAIN templates : RootOf(j) = root}}
<1>1. Len(templates) \in Nat /\ DOMAIN templates = 1..Len(templates)
  BY DEF TemplatesInvariant, TemplatesTypeOK
<1>2. \A i \in DOMAIN templates : templates[i].version \in 0..Len(templates)
  <2>1. \A i \in DOMAIN templates : templates[i] \in TemplateRows
    BY DEF TemplatesInvariant, TemplatesTypeOK
  <2>2. \A i \in DOMAIN templates : templates[i].version \in Nat /\ templates[i].version <= i
    BY <2>1 DEF TemplatesInvariant, TemplateOK, TemplateRows
  <2> QED
    BY <1>1, <2>2
<1>3. S \in SUBSET (0..Len(templates)) /\ S # {}
  BY <1>1, <1>2
<1>4. PICK m : m = Max(S)
  BY Zenon
<1>5. m \in S /\ \A y \in S : y <= m
  BY <1>1, <1>3, <1>4, MaxOfBounded
<1>6. m \in 0..Len(templates)
  BY <1>3, <1>5
<1>7. _next_job_template_version(root) = 1 + m
  BY <1>4 DEF _next_job_template_version
<1>8. \A i \in DOMAIN templates : RootOf(i) = root => templates[i].version \in S
  OBVIOUS
<1> QED
  <2> HIDE DEF S
  <2>1. \A i \in DOMAIN templates : RootOf(i) = root => templates[i].version <= m
    BY <1>5, <1>8
  <2> QED
    BY <1>1, <1>2, <1>6, <1>7, <2>1

(* Something added to a payload. *)
LEMMA AtMostOneMore ==
  ASSUME NEW old, NEW new, NEW path, new \subseteq old \cup {path}
  PROVE  Cardinality(new \ old) <= 1
<1>1. new \ old = {} \/ new \ old = {path}
  OBVIOUS
<1>2. Cardinality({}) = 0 /\ Cardinality({path}) = 1
  BY FS_EmptySet, FS_Singleton, Zenon
<1>3. Cardinality(new \ old) = 0 \/ Cardinality(new \ old) = 1
  BY <1>1, <1>2, Zenon
<1> QED
  BY <1>3

(* A request moves on and no row changes. *)
LEMMA EditMoves ==
  ASSUME TemplatesInvariant, NEW e \in Editors, NEW new \in {NoEdit} \cup Edits,
         edit' = [edit EXCEPT ![e] = new], UNCHANGED templates,
         lineage_lock' \in [1..MaxTemplates -> {Nobody} \cup Editors],
         \A i \in 1..MaxTemplates : \A d \in Editors \ {e} :
            lineage_lock[i] = d => lineage_lock'[i] = d,
         new # NoEdit => EditOK(e, new)',
         \A name \in Names : InsertedRoot(new, name) =>
            \A d \in Editors \ {e} : ~InsertedRoot(edit[d], name)
  PROVE  TemplatesInvariant'
<1>1. TemplatesTypeOK'
  BY DEF TemplatesInvariant, TemplatesTypeOK
<1>2. edit'[e] = new /\ \A d \in Editors \ {e} : edit'[d] = edit[d]
  BY DEF TemplatesInvariant, TemplatesTypeOK
<1>3. (\A i \in DOMAIN templates : TemplateOK(i))' /\ VersionsAreFinal' /\ RootsDiffer'
  BY DEF TemplatesInvariant, TemplateOK, FromParent, RootOf, VersionsAreFinal, RootsDiffer, ActiveRoot
<1>4. ASSUME NEW d \in Editors, edit'[d] # NoEdit PROVE EditOK(d, edit[d])'
  <2>1. CASE d = e
    <3>1. d = e /\ edit'[d] = new /\ EditOK(e, new)'
      BY <1>2, <1>4, <2>1
    <3> QED
      BY <3>1
  <2>2. CASE d # e
    <3>1. PICK x \in Edits : x = edit[d] /\ edit'[d] = x /\ EditOK(d, x)
      BY <1>2, <1>4, <2>2 DEF TemplatesInvariant, TemplatesTypeOK
    <3>2. x.row.parent # 0 => x.row.root \in 1..MaxTemplates
      <4>1. x.row.parent # 0 => x.row.root \in DOMAIN templates
        BY <3>1 DEF EditOK, FromParent, TemplatesInvariant, TemplateOK
      <4>2. DOMAIN templates = 1..Len(templates) /\ Len(templates) \in Nat /\ Len(templates) <= MaxTemplates
        BY DEF TemplatesInvariant, TemplatesTypeOK
      <4> QED
        BY <4>1, <4>2, TemplateAssumption
    <3>3. x.row.parent # 0 /\ x.step # "lock" => lineage_lock'[x.row.root] = d
      BY <2>2, <3>1, <3>2 DEF EditOK
    <3>4. EditOK(d, x)'
      BY <3>1, <3>3 DEF EditOK, FromParent, RootOf, IsNewest, ActiveRoot
    <3> QED
      BY <3>1, <3>4
  <2> QED
    BY <2>1, <2>2
<1>5. InsertsExclude'
  <2> SUFFICES ASSUME NEW c \in Editors, NEW d \in Editors, NEW name \in Names,
                      InsertedRoot(edit'[c], name), InsertedRoot(edit'[d], name)
               PROVE  c = d
    BY DEF InsertsExclude
  <2>1. CASE c # e /\ d # e
    BY <1>2, <2>1 DEF TemplatesInvariant, InsertsExclude
  <2>2. CASE c = e \/ d = e
    BY <1>2, <2>2
  <2> QED
    BY <2>1, <2>2
<1> QED
  BY <1>1, <1>3, <1>4, <1>5 DEF TemplatesInvariant

(* A request begins: a root. *)
LEMMA CreateRootPreserves ==
  ASSUME TemplatesInvariant, NEW e \in Editors, NEW name \in Names, NEW payload,
         create_job_template(e, name, payload)
  PROVE  TemplatesInvariant'
<1>1. PICK row : row = Root(name, _normalize_optimization_payload(payload))
  BY Zenon
<1>2. /\ row \in TemplateRows /\ row.parent = 0 /\ row.root = 0 /\ row.version = 1
      /\ row.payload = payload \cap Fields
  BY <1>1 DEF Root, TemplateRows, _normalize_optimization_payload
<1>3. PICK new : new = [step |-> "insert", tries |-> 1, row |-> row]
  BY Zenon
<1>4. new \in Edits /\ new.row = row /\ new.step = "insert"
  BY <1>2, <1>3 DEF Edits
<1>5. edit' = [edit EXCEPT ![e] = new] /\ UNCHANGED <<templates, lineage_lock>>
  BY <1>1, <1>3 DEF create_job_template
<1>6. OneObjective(row.payload)
  <2>1. ~("minimize" \in payload /\ "maximize" \in payload)
    BY DEF create_job_template, Templateable
  <2> QED
    BY <1>2, <2>1 DEF OneObjective
<1>7. EditOK(e, new)'
  BY <1>2, <1>4, <1>6 DEF EditOK, OneObjective
<1>8. \A n \in Names : ~InsertedRoot(new, n)
  BY <1>4 DEF InsertedRoot
<1>9. lineage_lock' \in [1..MaxTemplates -> {Nobody} \cup Editors]
  BY <1>5 DEF TemplatesInvariant, TemplatesTypeOK
<1> QED
  BY <1>4, <1>5, <1>7, <1>8, <1>9, EditMoves

(* The lookup of a name finds its active roots. *)
LEMMA FindsActiveRoots ==
  ASSUME NEW name
  PROVE  _find_active_job_template(name) = {i \in DOMAIN templates : ActiveRoot(i, name)}
BY DEF _find_active_job_template, Active, ActiveRoot

(* The insert of a root, which the index lets pass or not. *)
LEMMA InsertRootPreserves ==
  ASSUME TemplatesInvariant, NEW e \in Editors, InsertRoot(e)
  PROVE  TemplatesInvariant'
<1>1. PICK x \in Edits : x = edit[e] /\ x.step = "insert" /\ EditOK(e, x)
  BY DEF InsertRoot, NoEdit, TemplatesInvariant, TemplatesTypeOK
<1>2. x.row.name \in Names /\ x.row.parent = 0
  BY <1>1 DEF Edits, TemplateRows, EditOK
<1>3. PICK s : s = IF _find_active_job_template(x.row.name) = {} THEN "commit" ELSE "find"
  BY Zenon
<1>4. /\ s = "commit" \/ s = "find"
      /\ s = "commit" => \A i \in DOMAIN templates : ~ActiveRoot(i, x.row.name)
  BY <1>3, FindsActiveRoots
<1>5. PICK new : new = [x EXCEPT !.step = s]
  BY Zenon
<1>6. new \in Edits /\ new.row = x.row /\ new.step = s
  BY <1>1, <1>4, <1>5 DEF Edits
<1>7. edit' = [edit EXCEPT ![e] = new] /\ UNCHANGED <<templates, lineage_lock>>
  BY <1>1, <1>3, <1>5 DEF InsertRoot, TemplatesInvariant, TemplatesTypeOK
<1>8. EditOK(e, new)'
  BY <1>1, <1>2, <1>4, <1>6, <1>7 DEF EditOK, ActiveRoot
<1>9. \A n \in Names : InsertedRoot(new, n) => \A d \in Editors \ {e} : ~InsertedRoot(edit[d], n)
  BY <1>1, <1>2, <1>6 DEF InsertedRoot, InsertRoot, BlockedBy
<1>10. lineage_lock' \in [1..MaxTemplates -> {Nobody} \cup Editors]
  BY <1>7 DEF TemplatesInvariant, TemplatesTypeOK
<1> QED
  BY <1>6, <1>7, <1>8, <1>9, <1>10, EditMoves

(* The row in the way is looked for. *)
LEMMA FindConflictingPreserves ==
  ASSUME TemplatesInvariant, NEW e \in Editors, FindConflicting(e)
  PROVE  TemplatesInvariant'
<1>1. PICK x \in Edits : x = edit[e] /\ x.step = "find" /\ EditOK(e, x)
  BY DEF FindConflicting, NoEdit, TemplatesInvariant, TemplatesTypeOK
<1>2. PICK again : again = [x EXCEPT !.step = "insert", !.tries = 2]
  BY Zenon
<1>3. again \in Edits /\ again.row = x.row /\ again.step = "insert"
  BY <1>1, <1>2 DEF Edits
<1>4. PICK new : edit' = [edit EXCEPT ![e] = new] /\ (new = NoEdit \/ new = again)
  BY <1>1, <1>2 DEF FindConflicting, TemplatesInvariant, TemplatesTypeOK
<1>5. UNCHANGED <<templates, lineage_lock>>
  BY DEF FindConflicting
<1>6. new # NoEdit => EditOK(e, new)'
  <2>1. x.row.parent = 0 /\ x.row.root = 0 /\ x.row.version = 1 /\ OneObjective(x.row.payload)
    BY <1>1 DEF EditOK
  <2>2. EditOK(e, again)'
    BY <1>3, <2>1 DEF EditOK, OneObjective
  <2> QED
    BY <1>4, <2>2
<1>7. \A n \in Names : ~InsertedRoot(new, n)
  BY <1>3, <1>4 DEF InsertedRoot
<1>8. lineage_lock' \in [1..MaxTemplates -> {Nobody} \cup Editors] /\ new \in {NoEdit} \cup Edits
  BY <1>3, <1>4, <1>5 DEF TemplatesInvariant, TemplatesTypeOK
<1> QED
  BY <1>4, <1>5, <1>6, <1>7, <1>8, EditMoves

(* A request begins: a version of row i. *)
LEMMA CreateVersionPreserves ==
  ASSUME TemplatesInvariant, NEW e \in Editors, NEW i \in DOMAIN templates, NEW path,
         NEW value \in {{}, {"solution"}}, create_job_template_version(e, i, path, value)
  PROVE  TemplatesInvariant'
<1>1. PICK t \in TemplateRows : t = templates[i]
  BY DEF TemplatesInvariant, TemplatesTypeOK
<1>2. PICK payload : payload = (t.payload \cup {path} \cup value) \cap Fields
  BY Zenon
<1>3. RootOf(i) \in DOMAIN templates /\ RootOf(i) \in Nat /\ i \in Nat /\ i # 0 /\ RootOf(i) # 0
  BY DEF TemplatesInvariant, TemplateOK, TemplatesTypeOK
<1>4. PICK row : row = [t EXCEPT !.root = RootOf(i), !.parent = i, !.payload = payload]
  BY Zenon
<1>5. row \in TemplateRows /\ row.parent = i /\ row.root = RootOf(i) /\ row.payload = payload
  BY <1>1, <1>2, <1>3, <1>4 DEF TemplateRows
<1>6. value = {} /\ ~("minimize" \in payload /\ "maximize" \in payload)
  <2>1. /\ (t.payload \cup {path} \cup value) \cap Internal = {}
        /\ Templateable(t.payload \cup {path} \cup value)
    BY <1>1 DEF create_job_template_version, apply_template_parameter_override,
                reject_internal_template_payload_fields
  <2>2. value # {"solution"}
    BY <2>1 DEF Internal
  <2>3. ~("minimize" \in payload /\ "maximize" \in payload)
    BY <1>2, <2>1 DEF Templateable
  <2> QED
    BY <2>2, <2>3
<1>7. /\ t.payload \subseteq payload /\ Cardinality(payload \ t.payload) <= 1
  <2>1. t.payload \subseteq Fields
    BY <1>1 DEF TemplateRows
  <2>2. t.payload \subseteq payload /\ payload \subseteq t.payload \cup {path}
    BY <1>2, <1>6, <2>1
  <2> QED
    BY <2>2, AtMostOneMore
<1>8. PICK new : new = [step |-> "lock", tries |-> 1, row |-> row]
  BY Zenon
<1>9. new \in Edits /\ new.row = row /\ new.step = "lock"
  BY <1>5, <1>8 DEF Edits
<1>10. edit' = [edit EXCEPT ![e] = new] /\ UNCHANGED <<templates, lineage_lock>>
  BY <1>1, <1>2, <1>4, <1>8
     DEF create_job_template_version, apply_template_parameter_override,
         _normalize_optimization_payload
<1>11. FromParent(row)
  BY <1>1, <1>5, <1>7 DEF FromParent
<1>12. EditOK(e, new)'
  BY <1>3, <1>5, <1>6, <1>9, <1>10, <1>11 DEF EditOK, FromParent, OneObjective, RootOf
<1>13. \A n \in Names : ~InsertedRoot(new, n)
  BY <1>9 DEF InsertedRoot
<1>14. lineage_lock' \in [1..MaxTemplates -> {Nobody} \cup Editors]
  BY <1>10 DEF TemplatesInvariant, TemplatesTypeOK
<1> QED
  BY <1>9, <1>10, <1>12, <1>13, <1>14, EditMoves

(* The lineage is locked. *)
LEMMA LockLineagePreserves ==
  ASSUME TemplatesInvariant, NEW e \in Editors, LockLineage(e)
  PROVE  TemplatesInvariant'
<1>1. PICK x \in Edits : x = edit[e] /\ x.step = "lock" /\ EditOK(e, x)
  BY DEF LockLineage, NoEdit, TemplatesInvariant, TemplatesTypeOK
<1>2. x.row.parent # 0 /\ FromParent(x.row) /\ OneObjective(x.row.payload)
  BY <1>1 DEF EditOK
<1>3. x.row.root \in 1..MaxTemplates
  <2>1. x.row.root \in DOMAIN templates
    BY <1>2 DEF FromParent, TemplatesInvariant, TemplateOK
  <2> QED
    BY <2>1, TemplateAssumption DEF TemplatesInvariant, TemplatesTypeOK
<1>4. PICK new : new = [x EXCEPT !.step = "number"]
  BY Zenon
<1>5. new \in Edits /\ new.row = x.row /\ new.step = "number"
  BY <1>1, <1>4 DEF Edits
<1>6. edit' = [edit EXCEPT ![e] = new] /\ UNCHANGED templates
  BY <1>1, <1>4 DEF LockLineage, TemplatesInvariant, TemplatesTypeOK
<1>7. /\ lineage_lock \in [1..MaxTemplates -> {Nobody} \cup Editors]
      /\ lineage_lock[x.row.root] = Nobody /\ lineage_lock' = [lineage_lock EXCEPT ![x.row.root] = e]
  BY <1>1 DEF LockLineage, TemplatesInvariant, TemplatesTypeOK
<1>8. /\ lineage_lock' \in [1..MaxTemplates -> {Nobody} \cup Editors]
      /\ lineage_lock'[x.row.root] = e
      /\ \A n \in 1..MaxTemplates : \A d \in Editors \ {e} : lineage_lock[n] = d => lineage_lock'[n] = d
  BY <1>3, <1>7, TemplateAssumption DEF Nobody
<1>9. EditOK(e, new)'
  BY <1>2, <1>5, <1>6, <1>8 DEF EditOK, FromParent, RootOf, OneObjective
<1>10. \A n \in Names : ~InsertedRoot(new, n)
  BY <1>5 DEF InsertedRoot
<1> QED
  BY <1>5, <1>6, <1>8, <1>9, <1>10, EditMoves

(* The version is numbered under the lock. *)
LEMMA NumberVersionPreserves ==
  ASSUME TemplatesInvariant, NEW e \in Editors, NumberVersion(e)
  PROVE  TemplatesInvariant'
<1>1. PICK x \in Edits : x = edit[e] /\ x.step = "number" /\ EditOK(e, x)
  BY DEF NumberVersion, NoEdit, TemplatesInvariant, TemplatesTypeOK
<1>2. /\ x.row.parent # 0 /\ FromParent(x.row) /\ OneObjective(x.row.payload)
      /\ lineage_lock[x.row.root] = e /\ x.row \in TemplateRows
  BY <1>1 DEF EditOK, Edits
<1>3. PICK v : v = _next_job_template_version(x.row.root)
  BY Zenon
<1>4. /\ v \in Nat /\ v <= Len(templates) + 1
      /\ \A i \in DOMAIN templates : RootOf(i) = x.row.root => templates[i].version < v
  <2>1. Len(templates) \in Nat
    BY DEF TemplatesInvariant, TemplatesTypeOK
  <2>2. /\ v \in 1..(Len(templates) + 1)
        /\ \A i \in DOMAIN templates : RootOf(i) = x.row.root => templates[i].version < v
    BY <1>3, NextVersionIsNewest
  <2> QED
    BY <2>1, <2>2
<1>5. PICK row : row = [x.row EXCEPT !.version = v]
  BY Zenon
<1>6. /\ row \in TemplateRows /\ row.parent = x.row.parent /\ row.root = x.row.root
      /\ row.payload = x.row.payload /\ row.version = v
  BY <1>2, <1>4, <1>5 DEF TemplateRows
<1>7. PICK new : new = [x EXCEPT !.step = "insert_version", !.row = row]
  BY Zenon
<1>8. new \in Edits /\ new.row = row /\ new.step = "insert_version"
  BY <1>1, <1>6, <1>7 DEF Edits
<1>9. edit' = [edit EXCEPT ![e] = new] /\ UNCHANGED <<templates, lineage_lock>>
  <2>1. x = [step |-> x.step, tries |-> x.tries, row |-> x.row]
    BY <1>1 DEF Edits
  <2>2. edit \in [Editors -> {NoEdit} \cup Edits]
    BY DEF TemplatesInvariant, TemplatesTypeOK
  <2>3. edit' = [edit EXCEPT ![e].step = "insert_version", ![e].row.version = v]
    BY <1>1, <1>3 DEF NumberVersion
  <2>4. [edit EXCEPT ![e].step = "insert_version", ![e].row.version = v] = [edit EXCEPT ![e] = new]
    BY <1>1, <1>5, <1>7, <2>2
  <2> QED
    BY <2>3, <2>4 DEF NumberVersion
<1>10. IsNewest(row)' /\ FromParent(row)'
  BY <1>2, <1>4, <1>6, <1>9 DEF IsNewest, FromParent, RootOf
<1>11. EditOK(e, new)'
  BY <1>2, <1>6, <1>8, <1>9, <1>10 DEF EditOK, OneObjective
<1>12. \A n \in Names : ~InsertedRoot(new, n)
  BY <1>8 DEF InsertedRoot
<1>13. lineage_lock' \in [1..MaxTemplates -> {Nobody} \cup Editors]
  BY <1>9 DEF TemplatesInvariant, TemplatesTypeOK
<1> QED
  BY <1>8, <1>9, <1>11, <1>12, <1>13, EditMoves

(* The insert of a version. *)
LEMMA InsertVersionPreserves ==
  ASSUME TemplatesInvariant, NEW e \in Editors, _insert_job_template_version(e)
  PROVE  TemplatesInvariant'
<1>1. PICK x \in Edits : x = edit[e] /\ x.step = "insert_version" /\ EditOK(e, x)
  BY DEF _insert_job_template_version, NoEdit, TemplatesInvariant, TemplatesTypeOK
<1>2. /\ x.row.parent # 0 /\ FromParent(x.row) /\ OneObjective(x.row.payload)
      /\ lineage_lock[x.row.root] = e /\ IsNewest(x.row) /\ x.tries \in Nat
  BY <1>1 DEF EditOK, Edits
<1>3. PICK through, again : /\ through = [x EXCEPT !.step = "commit"]
                            /\ again = [x EXCEPT !.step = "number", !.tries = x.tries + 1]
  BY Zenon
<1>4. /\ through \in Edits /\ through.row = x.row /\ through.step = "commit"
      /\ again \in Edits /\ again.row = x.row /\ again.step = "number"
  <2>1. through \in Edits /\ through.row = x.row /\ through.step = "commit"
    BY <1>1, <1>3 DEF Edits
  <2>2. PICK tries \in Nat : tries = x.tries + 1
    BY <1>2
  <2>3. again = [x EXCEPT !.step = "number", !.tries = tries]
    BY <1>3, <2>2
  <2>4. again \in Edits /\ again.row = x.row /\ again.step = "number"
    BY <1>1, <2>3 DEF Edits
  <2> QED
    BY <2>1, <2>4
<1>5. UNCHANGED <<templates, lineage_lock>>
  BY DEF _insert_job_template_version
<1>6. PICK new : edit' = [edit EXCEPT ![e] = new] /\ new \in {NoEdit, through, again}
  <2>1. PICK taken : taken = (\E i \in DOMAIN templates :
           Active(i) /\ RootOf(i) = x.row.root /\ templates[i].version = x.row.version)
    BY Zenon
  <2>2. edit' = [edit EXCEPT ![e] = IF ~taken THEN [@ EXCEPT !.step = "commit"]
                                    ELSE IF @.tries < 3 THEN [@ EXCEPT !.step = "number", !.tries = edit[e].tries + 1]
                                    ELSE NoEdit]
    BY <1>1, <2>1 DEF _insert_job_template_version
  <2>3. edit \in [Editors -> {NoEdit} \cup Edits]
    BY DEF TemplatesInvariant, TemplatesTypeOK
  <2>4. PICK new : new = IF ~taken THEN through ELSE IF x.tries < 3 THEN again ELSE NoEdit
    BY Zenon
  <2>5. edit' = [edit EXCEPT ![e] = new]
    <3>1. CASE ~taken
      <4>1. edit' = [edit EXCEPT ![e] = [@ EXCEPT !.step = "commit"]] /\ new = through
        BY <2>2, <2>4, <3>1
      <4> QED
        BY <1>1, <1>3, <4>1
    <3>2. CASE taken /\ x.tries < 3
      <4>1. new = again
        BY <2>4, <3>2
      <4>2. edit' = [edit EXCEPT ![e] = [@ EXCEPT !.step = "number", !.tries = edit[e].tries + 1]]
        BY <1>1, <2>2, <3>2
      <4> QED
        BY <1>1, <1>3, <4>1, <4>2
    <3>3. CASE taken /\ ~(x.tries < 3)
      BY <1>1, <2>2, <2>4, <3>3
    <3> QED
      BY <3>1, <3>2, <3>3
  <2>6. new \in {NoEdit, through, again}
    BY <2>4
  <2> QED
    BY <2>5, <2>6
<1>7. FromParent(x.row)' /\ IsNewest(x.row)'
  BY <1>2, <1>5 DEF FromParent, IsNewest, RootOf
<1>8. EditOK(e, through)' /\ EditOK(e, again)'
  BY <1>2, <1>4, <1>5, <1>7 DEF EditOK, OneObjective
<1>9. new # NoEdit => EditOK(e, new)'
  BY <1>6, <1>8
<1>10. \A n \in Names : ~InsertedRoot(new, n)
  BY <1>2, <1>4, <1>6 DEF InsertedRoot
<1>11. lineage_lock' \in [1..MaxTemplates -> {Nobody} \cup Editors] /\ new \in {NoEdit} \cup Edits
  BY <1>4, <1>5, <1>6 DEF TemplatesInvariant, TemplatesTypeOK
<1> QED
  BY <1>5, <1>6, <1>9, <1>10, <1>11, EditMoves

(* The end of a transaction releases its own locks only. *)
LEMMA OwnLocksReleased ==
  ASSUME TemplatesInvariant, NEW e \in Editors, lineage_lock' = Release(e)
  PROVE  /\ lineage_lock' \in [1..MaxTemplates -> {Nobody} \cup Editors]
         /\ \A n \in 1..MaxTemplates : \A d \in Editors \ {e} : lineage_lock[n] = d => lineage_lock'[n] = d
BY DEF Release, TemplatesInvariant, TemplatesTypeOK

(* A request dies or gives up. *)
LEMMA AbortTemplatePreserves ==
  ASSUME TemplatesInvariant, NEW e \in Editors, AbortTemplate(e)
  PROVE  TemplatesInvariant'
<1>1. PICK new : new = NoEdit
  BY Zenon
<1>2. edit' = [edit EXCEPT ![e] = new] /\ UNCHANGED templates /\ lineage_lock' = Release(e)
  BY <1>1 DEF AbortTemplate
<1>3. \A n \in Names : ~InsertedRoot(new, n)
  BY <1>1 DEF InsertedRoot
<1> QED
  BY <1>1, <1>2, <1>3, OwnLocksReleased, EditMoves

(* A committed row is only ever marked as deleted. *)
LEMMA RowsKept ==
  ASSUME TemplatesInvariant, DOMAIN templates \subseteq DOMAIN templates',
         \A i \in DOMAIN templates :
            /\ templates'[i].name = templates[i].name /\ templates'[i].root = templates[i].root
            /\ templates'[i].parent = templates[i].parent
            /\ templates'[i].version = templates[i].version
            /\ templates'[i].payload = templates[i].payload
            /\ templates[i].deleted => templates'[i].deleted
  PROVE  /\ \A i \in DOMAIN templates : RootOf(i)' = RootOf(i)
         /\ \A row : FromParent(row) => FromParent(row)'
         /\ \A i \in DOMAIN templates : TemplateOK(i)'
         /\ \A i \in DOMAIN templates : \A name : ActiveRoot(i, name)' => ActiveRoot(i, name)
<1>1. \A i \in DOMAIN templates : RootOf(i)' = RootOf(i)
  BY DEF RootOf
<1>2. ASSUME NEW row, FromParent(row) PROVE FromParent(row)'
  <2>1. PICK p \in DOMAIN templates : p = row.parent
    BY <1>2 DEF FromParent
  <2>2. RootOf(p)' = RootOf(p) /\ templates'[p].payload = templates[p].payload
    BY <1>1, <2>1
  <2> QED
    BY <1>2, <2>1, <2>2 DEF FromParent
<1>3. ASSUME NEW i \in DOMAIN templates PROVE TemplateOK(i)'
  <2>1. TemplateOK(i) /\ RootOf(i)' = RootOf(i)
    BY <1>1 DEF TemplatesInvariant
  <2>2. /\ OneObjective(templates[i].payload)' /\ templates'[i].version <= i
        /\ RootOf(i)' \in DOMAIN templates'
    BY <2>1 DEF TemplateOK, OneObjective
  <2>3. ASSUME templates'[i].parent # 0
        PROVE  /\ templates'[i].parent < i /\ FromParent(templates[i])'
               /\ templates'[templates'[i].parent].version < templates'[i].version
    <3>1. PICK p \in DOMAIN templates : p = templates[i].parent
      BY <2>1, <2>3 DEF TemplateOK, FromParent
    <3>2. /\ p < i /\ templates[p].version < templates[i].version /\ templates'[i].parent = p
          /\ templates[i].root = RootOf(p) /\ templates[p].payload \subseteq templates[i].payload
          /\ Cardinality(templates[i].payload \ templates[p].payload) <= 1
      BY <2>1, <2>3, <3>1 DEF TemplateOK, FromParent
    <3>3. /\ templates'[i].root = RootOf(p)' /\ templates'[p].payload \subseteq templates'[i].payload
          /\ Cardinality(templates'[i].payload \ templates'[p].payload) <= 1
          /\ templates'[p].version < templates'[i].version
      BY <1>1, <3>1, <3>2
    <3> QED
      BY <3>1, <3>2, <3>3 DEF FromParent
  <2> QED
    BY <2>2, <2>3 DEF TemplateOK
<1>4. \A i \in DOMAIN templates : \A name : ActiveRoot(i, name)' => ActiveRoot(i, name)
  BY DEF ActiveRoot
<1> QED
  BY <1>1, <1>2, <1>3, <1>4

(* A request commits its row and releases the lineage. *)
LEMMA CommitTemplatePreserves ==
  ASSUME TemplatesInvariant, NEW e \in Editors, CommitTemplate(e)
  PROVE  TemplatesInvariant'
<1>1. PICK x \in Edits : x = edit[e] /\ x.step = "commit" /\ EditOK(e, x)
  BY DEF CommitTemplate, NoEdit, TemplatesInvariant, TemplatesTypeOK
<1>2. PICK row \in TemplateRows : row = x.row
  BY <1>1 DEF Edits
<1>3. PICK n : n = Len(templates) + 1
  BY Zenon
<1>4. /\ templates \in Seq(TemplateRows) /\ Len(templates) \in Nat /\ Len(templates) < MaxTemplates
      /\ templates' = Append(templates, row)
      /\ edit' = [edit EXCEPT ![e] = NoEdit] /\ lineage_lock' = Release(e)
  BY <1>1, <1>2 DEF CommitTemplate, TemplatesInvariant, TemplatesTypeOK
<1>5. /\ templates' \in Seq(TemplateRows) /\ Len(templates') = n /\ templates'[n] = row
      /\ DOMAIN templates = 1..Len(templates) /\ DOMAIN templates' = DOMAIN templates \cup {n}
      /\ n \notin DOMAIN templates /\ n \in Nat /\ n # 0
      /\ \A i \in DOMAIN templates : templates'[i] = templates[i] /\ i < n
  BY <1>3, <1>4
<1>6. /\ lineage_lock' \in [1..MaxTemplates -> {Nobody} \cup Editors]
      /\ \A m \in 1..MaxTemplates : \A d \in Editors \ {e} :
            lineage_lock[m] = d => lineage_lock'[m] = d
  BY <1>4, OwnLocksReleased
<1>7. TemplatesTypeOK'
  <2>1. n <= MaxTemplates
    BY <1>3, <1>4, TemplateAssumption
  <2> QED
    BY <1>4, <1>5, <1>6, <2>1 DEF TemplatesTypeOK, TemplatesInvariant
<1>8. /\ \A i \in DOMAIN templates : RootOf(i)' = RootOf(i)
      /\ \A r : FromParent(r) => FromParent(r)'
      /\ \A i \in DOMAIN templates : TemplateOK(i)'
      /\ \A i \in DOMAIN templates : \A name : ActiveRoot(i, name)' => ActiveRoot(i, name)
  BY <1>5, RowsKept
<1>9. /\ OneObjective(row.payload)
      /\ row.parent = 0 => row.root = 0 /\ row.version = 1
      /\ row.parent # 0 => FromParent(row) /\ lineage_lock[row.root] = e /\ IsNewest(row)
      /\ row.parent = 0 => \A i \in DOMAIN templates : ~ActiveRoot(i, row.name)
  BY <1>1, <1>2 DEF EditOK
<1>10. /\ \A i \in DOMAIN templates : RootOf(i) \in DOMAIN templates
       /\ row.parent # 0 => row.root \in DOMAIN templates /\ row.root # 0 /\ RootOf(n)' = row.root
       /\ row.parent = 0 => RootOf(n)' = n
  <2>1. \A i \in DOMAIN templates : RootOf(i) \in DOMAIN templates
    BY DEF TemplatesInvariant, TemplateOK
  <2>2. row.parent # 0 => row.root \in DOMAIN templates /\ row.root # 0
    BY <1>5, <1>9, <2>1 DEF FromParent
  <2> QED
    BY <1>5, <1>9, <2>1, <2>2 DEF RootOf
<1>11. TemplateOK(n)'
  <2>1. OneObjective(templates[n].payload)' /\ templates'[n].version <= n
    <3>1. row.version <= n
      BY <1>3, <1>5, <1>9 DEF IsNewest
    <3> QED
      BY <1>5, <1>9, <3>1 DEF OneObjective
  <2>2. RootOf(n)' \in DOMAIN templates'
    BY <1>5, <1>10
  <2>3. ASSUME templates'[n].parent # 0
        PROVE  /\ templates'[n].parent < n /\ FromParent(templates[n])'
               /\ templates'[templates'[n].parent].version < templates'[n].version
    <3>1. PICK p \in DOMAIN templates : p = row.parent /\ row.root = RootOf(p)
      BY <1>5, <1>9, <2>3 DEF FromParent
    <3>2. templates[p].version < row.version
      BY <1>5, <1>9, <2>3, <3>1 DEF IsNewest
    <3>3. FromParent(row)'
      BY <1>5, <1>8, <1>9, <2>3
    <3>4. FromParent(templates[n])'
      BY <1>5, <3>3
    <3> QED
      BY <1>5, <3>1, <3>2, <3>4
  <2> QED
    BY <2>1, <2>2, <2>3 DEF TemplateOK
<1>12. VersionsAreFinal'
  <2>1. ASSUME NEW i \in DOMAIN templates, RootOf(i)' = RootOf(n)'
        PROVE  templates'[i].version # templates'[n].version
    <3>1. RootOf(i) = RootOf(n)' /\ RootOf(i) \in DOMAIN templates
      BY <1>8, <1>10, <2>1
    <3>2. row.parent # 0 /\ RootOf(i) = row.root
      BY <1>5, <1>10, <3>1
    <3>3. templates[i].version < row.version /\ templates[i].version \in Nat
      <4>1. templates[i] \in TemplateRows
        BY <1>4
      <4> QED
        BY <1>9, <3>2, <4>1 DEF IsNewest, TemplateRows
    <3>4. row.version \in Nat
      BY DEF TemplateRows
    <3> QED
      BY <1>5, <3>3, <3>4
  <2>2. ASSUME NEW i \in DOMAIN templates, NEW j \in DOMAIN templates, RootOf(i)' = RootOf(j)',
               templates'[i].version = templates'[j].version
        PROVE  i = j
    BY <1>5, <1>8, <2>2 DEF TemplatesInvariant, VersionsAreFinal
  <2>3. ASSUME NEW i \in DOMAIN templates', NEW j \in DOMAIN templates', RootOf(i)' = RootOf(j)',
               templates'[i].version = templates'[j].version
        PROVE  i = j
    <3>1. CASE i = n /\ j = n
      BY <3>1
    <3>2. CASE i = n /\ j \in DOMAIN templates
      BY <2>1, <2>3, <3>2
    <3>3. CASE j = n /\ i \in DOMAIN templates
      BY <2>1, <2>3, <3>3
    <3>4. CASE i \in DOMAIN templates /\ j \in DOMAIN templates
      BY <2>2, <2>3, <3>4
    <3> QED
      BY <1>5, <3>1, <3>2, <3>3, <3>4
  <2> QED
    BY <2>3 DEF VersionsAreFinal
<1>13. RootsDiffer'
  <2> SUFFICES ASSUME NEW i \in DOMAIN templates', NEW j \in DOMAIN templates',
                      ActiveRoot(i, templates[i].name)', ActiveRoot(j, templates[i].name)'
               PROVE  i = j
    BY DEF RootsDiffer
  <2>1. CASE i = n /\ j # n
    <3>1. j \in DOMAIN templates /\ row.parent = 0 /\ ActiveRoot(j, row.name)'
      BY <1>5, <2>1 DEF ActiveRoot
    <3>2. ActiveRoot(j, row.name)
      BY <1>8, <3>1
    <3> QED
      BY <1>9, <3>1, <3>2
  <2>2. CASE i # n /\ j = n
    <3>1. i \in DOMAIN templates /\ row.parent = 0 /\ templates'[i].name = row.name
      BY <1>5, <2>2 DEF ActiveRoot
    <3>2. ActiveRoot(i, row.name)
      BY <1>5, <3>1 DEF ActiveRoot
    <3> QED
      BY <1>9, <3>1, <3>2
  <2>3. CASE i # n /\ j # n
    <3>1. i \in DOMAIN templates /\ j \in DOMAIN templates /\ templates'[i].name = templates[i].name
      BY <1>5, <2>3
    <3>2. ActiveRoot(i, templates[i].name) /\ ActiveRoot(j, templates[i].name)
      BY <1>5, <3>1 DEF ActiveRoot
    <3> QED
      BY <3>1, <3>2 DEF TemplatesInvariant, RootsDiffer
  <2> QED
    BY <2>1, <2>2, <2>3
<1>14. edit'[e] = NoEdit /\ \A d \in Editors \ {e} : edit'[d] = edit[d]
  BY <1>4 DEF TemplatesInvariant, TemplatesTypeOK
<1>15. ASSUME NEW d \in Editors, edit'[d] # NoEdit PROVE EditOK(d, edit[d])'
  <2>1. PICK y \in Edits : y = edit[d] /\ edit'[d] = y /\ EditOK(d, y) /\ d # e
    BY <1>14, <1>15 DEF TemplatesInvariant, TemplatesTypeOK
  <2>2. PICK r \in TemplateRows : r = y.row
    BY <2>1 DEF Edits
  <2>3. /\ OneObjective(r.payload)
        /\ y.step \in {"insert", "find"} => r.parent = 0
        /\ y.step \in {"lock", "number", "insert_version"} => r.parent # 0
        /\ r.parent = 0 => r.root = 0 /\ r.version = 1
        /\ r.parent # 0 => FromParent(r)
        /\ r.parent # 0 /\ y.step # "lock" => lineage_lock[r.root] = d
        /\ r.parent # 0 /\ y.step \in {"insert_version", "commit"} => IsNewest(r)
        /\ r.parent = 0 /\ y.step = "commit" => \A i \in DOMAIN templates : ~ActiveRoot(i, r.name)
    BY <2>1, <2>2 DEF EditOK
  <2>4. r.parent # 0 => r.root \in DOMAIN templates /\ r.root \in 1..MaxTemplates
    <3>1. r.parent # 0 => r.root \in DOMAIN templates
      BY <1>10, <2>3 DEF FromParent
    <3> QED
      BY <1>4, <1>5, <3>1, TemplateAssumption
  <2>5. r.parent # 0 => FromParent(r)'
    BY <1>8, <2>3
  <2>6. r.parent # 0 /\ y.step # "lock" => lineage_lock'[r.root] = d
    BY <1>6, <2>1, <2>3, <2>4
  <2>7. ASSUME r.parent # 0, y.step \in {"insert_version", "commit"} PROVE IsNewest(r)'
    <3>1. IsNewest(r) /\ lineage_lock[r.root] = d
      BY <2>3, <2>7
    <3>2. RootOf(n)' # r.root
      BY <1>5, <1>9, <1>10, <2>1, <2>4, <2>7, <3>1
    <3>3. ASSUME NEW i \in DOMAIN templates', RootOf(i)' = r.root
          PROVE  templates'[i].version < r.version
      <4>1. i \in DOMAIN templates
        BY <1>5, <3>2, <3>3
      <4> QED
        BY <1>5, <1>8, <3>1, <3>3, <4>1 DEF IsNewest
    <3>4. r.version <= Len(templates') + 1
      <4>1. r.version \in Nat
        BY DEF TemplateRows
      <4> QED
        BY <1>3, <1>4, <1>5, <3>1, <4>1 DEF IsNewest
    <3> QED
      BY <3>3, <3>4 DEF IsNewest
  <2>8. ASSUME r.parent = 0, y.step = "commit", NEW i \in DOMAIN templates', ActiveRoot(i, r.name)'
        PROVE  FALSE
    <3>1. CASE i \in DOMAIN templates
      BY <1>8, <2>3, <2>8, <3>1
    <3>2. CASE i = n
      <4>1. row.parent = 0 /\ row.name = r.name /\ r.name \in Names
        BY <1>5, <2>8, <3>2 DEF ActiveRoot, TemplateRows
      <4>2. x # NoEdit /\ y # NoEdit
        BY <1>1, <2>8 DEF NoEdit
      <4>3. InsertedRoot(edit[e], r.name) /\ InsertedRoot(edit[d], r.name)
        BY <1>1, <1>2, <2>1, <2>2, <2>8, <4>1, <4>2 DEF InsertedRoot
      <4> QED
        BY <2>1, <4>1, <4>3 DEF TemplatesInvariant, InsertsExclude
    <3> QED
      BY <1>5, <3>1, <3>2
  <2>9. EditOK(d, y)'
    BY <2>2, <2>3, <2>5, <2>6, <2>7, <2>8 DEF EditOK, OneObjective
  <2> QED
    BY <2>1, <2>9
<1>16. InsertsExclude'
  BY <1>14 DEF TemplatesInvariant, InsertsExclude, InsertedRoot
<1> QED
  BY <1>5, <1>7, <1>8, <1>11, <1>12, <1>13, <1>15, <1>16 DEF TemplatesInvariant

(* A row is marked as deleted. *)
LEMMA DeleteTemplatePreserves ==
  ASSUME TemplatesInvariant, NEW n \in DOMAIN templates, delete_job_template(n)
  PROVE  TemplatesInvariant'
<1>1. PICK t \in TemplateRows : t = templates[n]
  BY DEF TemplatesInvariant, TemplatesTypeOK
<1>2. PICK row : row = [t EXCEPT !.deleted = TRUE]
  BY Zenon
<1>3. /\ row \in TemplateRows /\ row.name = t.name /\ row.root = t.root /\ row.parent = t.parent
      /\ row.version = t.version /\ row.payload = t.payload /\ row.deleted
  BY <1>1, <1>2 DEF TemplateRows
<1>4. /\ templates \in Seq(TemplateRows) /\ templates' = [templates EXCEPT ![n] = row]
      /\ UNCHANGED <<edit, lineage_lock>>
  BY <1>1, <1>2 DEF delete_job_template, TemplatesInvariant, TemplatesTypeOK
<1>5. /\ templates' \in Seq(TemplateRows) /\ Len(templates') = Len(templates)
      /\ DOMAIN templates' = DOMAIN templates /\ templates'[n] = row
      /\ \A i \in DOMAIN templates : i # n => templates'[i] = templates[i]
  BY <1>3, <1>4
<1>6. \A i \in DOMAIN templates :
         /\ templates'[i].name = templates[i].name /\ templates'[i].root = templates[i].root
         /\ templates'[i].parent = templates[i].parent
         /\ templates'[i].version = templates[i].version
         /\ templates'[i].payload = templates[i].payload
         /\ templates[i].deleted => templates'[i].deleted
  BY <1>1, <1>3, <1>5
<1>7. /\ \A i \in DOMAIN templates : RootOf(i)' = RootOf(i)
      /\ \A r : FromParent(r) => FromParent(r)'
      /\ \A i \in DOMAIN templates : TemplateOK(i)'
      /\ \A i \in DOMAIN templates : \A name : ActiveRoot(i, name)' => ActiveRoot(i, name)
  BY <1>5, <1>6, RowsKept
<1>8. TemplatesTypeOK'
  BY <1>4, <1>5 DEF TemplatesTypeOK, TemplatesInvariant
<1>9. VersionsAreFinal'
  BY <1>5, <1>6, <1>7 DEF TemplatesInvariant, VersionsAreFinal
<1>10. RootsDiffer'
  <2> SUFFICES ASSUME NEW i \in DOMAIN templates, NEW j \in DOMAIN templates,
                      ActiveRoot(i, templates[i].name)', ActiveRoot(j, templates[i].name)'
               PROVE  i = j
    BY <1>5 DEF RootsDiffer
  <2>1. ActiveRoot(i, templates[i].name) /\ ActiveRoot(j, templates[i].name)
    BY <1>5, <1>6 DEF ActiveRoot
  <2> QED
    BY <2>1 DEF TemplatesInvariant, RootsDiffer
<1>11. ASSUME NEW d \in Editors, edit'[d] # NoEdit PROVE EditOK(d, edit[d])'
  <2>1. PICK y : y = edit[d] /\ edit'[d] = y /\ EditOK(d, y)
    BY <1>4, <1>11 DEF TemplatesInvariant
  <2>2. FromParent(y.row) => FromParent(y.row)'
    BY <1>7
  <2>3. IsNewest(y.row) => IsNewest(y.row)'
    BY <1>5, <1>6, <1>7 DEF IsNewest
  <2>4. \A i \in DOMAIN templates' : ActiveRoot(i, y.row.name)' => ActiveRoot(i, y.row.name)
    BY <1>5, <1>7
  <2>5. EditOK(d, y)'
    BY <1>4, <1>5, <2>1, <2>2, <2>3, <2>4 DEF EditOK, OneObjective
  <2> QED
    BY <2>1, <2>5
<1>12. InsertsExclude'
  BY <1>4 DEF TemplatesInvariant, InsertsExclude, InsertedRoot
<1> QED
  BY <1>5, <1>7, <1>8, <1>9, <1>10, <1>11, <1>12 DEF TemplatesInvariant

(* Every step of the templates. *)
LEMMA TemplatesPreserved ==
  TemplatesInvariant /\ [TemplateNext]_templateVars => TemplatesInvariant'
<1> SUFFICES ASSUME TemplatesInvariant, [TemplateNext]_templateVars PROVE TemplatesInvariant'
  OBVIOUS
<1>1. CASE UNCHANGED templateVars
  <2>1. templates' = templates /\ edit' = edit /\ lineage_lock' = lineage_lock
    BY <1>1 DEF templateVars
  <2>2. TemplatesTypeOK' /\ VersionsAreFinal' /\ RootsDiffer' /\ InsertsExclude'
    BY <2>1 DEF TemplatesInvariant, TemplatesTypeOK, VersionsAreFinal, RootOf, RootsDiffer, ActiveRoot,
                InsertsExclude, InsertedRoot
  <2>3. \A i \in DOMAIN templates' : TemplateOK(i)'
    BY <2>1, RowsKept
  <2>4. \A e \in Editors : edit'[e] # NoEdit => EditOK(e, edit[e])'
    BY <2>1 DEF TemplatesInvariant, EditOK, OneObjective, FromParent, RootOf, IsNewest, ActiveRoot
  <2> QED
    BY <2>2, <2>3, <2>4 DEF TemplatesInvariant
<1>2. ASSUME NEW e \in Editors, NEW name \in Names, NEW payload, create_job_template(e, name, payload)
      PROVE  TemplatesInvariant'
  BY <1>2, CreateRootPreserves
<1>3. ASSUME NEW e \in Editors, InsertRoot(e) PROVE TemplatesInvariant'
  BY <1>3, InsertRootPreserves
<1>4. ASSUME NEW e \in Editors, FindConflicting(e) PROVE TemplatesInvariant'
  BY <1>4, FindConflictingPreserves
<1>5. ASSUME NEW e \in Editors, NEW i \in DOMAIN templates, NEW path,
             NEW value \in {{}, {"solution"}}, create_job_template_version(e, i, path, value)
      PROVE  TemplatesInvariant'
  BY <1>5, CreateVersionPreserves
<1>6. ASSUME NEW e \in Editors, LockLineage(e) PROVE TemplatesInvariant'
  BY <1>6, LockLineagePreserves
<1>7. ASSUME NEW e \in Editors, NumberVersion(e) PROVE TemplatesInvariant'
  BY <1>7, NumberVersionPreserves
<1>8. ASSUME NEW e \in Editors, _insert_job_template_version(e) PROVE TemplatesInvariant'
  BY <1>8, InsertVersionPreserves
<1>9. ASSUME NEW e \in Editors, CommitTemplate(e) PROVE TemplatesInvariant'
  BY <1>9, CommitTemplatePreserves
<1>10. ASSUME NEW e \in Editors, AbortTemplate(e) PROVE TemplatesInvariant'
  BY <1>10, AbortTemplatePreserves
<1>11. ASSUME NEW i \in DOMAIN templates, delete_job_template(i) PROVE TemplatesInvariant'
  BY <1>11, DeleteTemplatePreserves
<1> QED
  BY <1>1, <1>2, <1>3, <1>4, <1>5, <1>6, <1>7, <1>8, <1>9, <1>10, <1>11 DEF TemplateNext

(* There is no template at first. *)
LEMMA TemplatesInitially ==
  TemplateInit => TemplatesInvariant
<1> SUFFICES ASSUME TemplateInit PROVE TemplatesInvariant
  OBVIOUS
<1>1. templates = <<>> /\ DOMAIN templates = {} /\ Len(templates) = 0
  BY DEF TemplateInit
<1>2. \A e \in Editors : edit[e] = NoEdit
  BY DEF TemplateInit
<1>3. TemplatesTypeOK
  BY <1>1, TemplateAssumption DEF TemplateInit, TemplatesTypeOK
<1>4. VersionsAreFinal /\ RootsDiffer /\ InsertsExclude
  BY <1>1, <1>2 DEF VersionsAreFinal, RootsDiffer, InsertsExclude, InsertedRoot
<1> QED
  BY <1>1, <1>2, <1>3, <1>4 DEF TemplatesInvariant

(* The invariant says what the templates promise. *)
LEMMA TemplatesSound ==
  TemplatesInvariant => VersionsAreFinal /\ OneActiveRoot /\ LineageIsSound
<1> SUFFICES ASSUME TemplatesInvariant PROVE OneActiveRoot /\ LineageIsSound
  BY DEF TemplatesInvariant
<1>1. ASSUME NEW name \in Names PROVE Cardinality(_find_active_job_template(name)) <= 1
  <2>1. PICK S : S = {i \in DOMAIN templates : ActiveRoot(i, name)}
    BY Zenon
  <2>2. \A i, j \in S : i = j
    BY <2>1 DEF TemplatesInvariant, RootsDiffer, ActiveRoot
  <2>3. S = {} \/ \E i : S = {i}
    BY <2>2
  <2>4. Cardinality(S) = 0 \/ Cardinality(S) = 1
    BY <2>3, FS_EmptySet, FS_Singleton, Zenon
  <2>5. _find_active_job_template(name) = S
    BY <2>1, FindsActiveRoots, Zenon
  <2> QED
    BY <2>4, <2>5
<1>2. LineageIsSound
  <2> SUFFICES ASSUME NEW i \in DOMAIN templates
               PROVE  /\ templates[i].payload \cap Internal = {}
                      /\ {"minimize", "maximize"} \cap templates[i].payload # {"minimize", "maximize"}
                      /\ templates[i].parent # 0 =>
                           /\ templates[i].parent < i
                           /\ RootOf(templates[i].parent) = templates[i].root
                           /\ templates[templates[i].parent].version < templates[i].version
                           /\ templates[templates[i].parent].payload \subseteq templates[i].payload
                           /\ Cardinality(templates[i].payload
                                            \ templates[templates[i].parent].payload) <= 1
    BY DEF LineageIsSound
  <2>1. TemplateOK(i) /\ templates[i] \in TemplateRows
    BY DEF TemplatesInvariant, TemplatesTypeOK
  <2>2. templates[i].payload \cap Internal = {}
    <3>1. templates[i].payload \subseteq Fields
      BY <2>1 DEF TemplateRows
    <3> QED
      BY <3>1 DEF Fields, Internal
  <2>3. {"minimize", "maximize"} \cap templates[i].payload # {"minimize", "maximize"}
    BY <2>1 DEF TemplateOK, OneObjective
  <2> QED
    BY <2>1, <2>2, <2>3 DEF TemplateOK, FromParent
<1> QED
  BY <1>1, <1>2 DEF OneActiveRoot

-----------------------------------------------------------------------------
(* Numbers have a least one. *)
LEMMA LeastOf ==
  ASSUME NEW S \in SUBSET Nat, S # {}
  PROVE  \E x \in S : \A y \in S : x <= y
<1>1. IsWellFoundedOn(OpToRel(<, Nat), Nat)
  BY NatLessThanWellFounded
<1>2. PICK x \in S : \A y \in S : ~(<<y, x>> \in OpToRel(<, Nat))
  BY <1>1, WFMin
<1>3. \A y \in S : ~(y < x)
  BY <1>2 DEF OpToRel
<1> QED
  BY <1>3

(* Among candidates one comes before all others. *)
LEMMA CandidateIsChosen ==
  ASSUME NEW v, v.provider \in Providers, NEW C \in SUBSET Providers, C # {}
  PROVE  _candidate_sort_key(v, C) \in C
<1> DEFINE kind(x) == IF Offer[x].kind = Offer[v.provider].kind THEN 0 ELSE 1
           apart(x) == Offer[x].version - Offer[v.provider].version
           distance(x) == IF apart(x) < 0 THEN -apart(x) ELSE apart(x)
<1>1. \A x \in C : kind(x) \in Nat /\ distance(x) \in Nat /\ x \in Nat
  <2>1. ASSUME NEW x \in C PROVE apart(x) \in Int /\ x \in Nat
    <3>1. x \in Providers /\ v.provider \in Providers
      BY <2>1
    <3>2. Offer[x].version \in Int /\ Offer[v.provider].version \in Int /\ x \in Nat
      BY <3>1, MigrationAssumption, Zenon
    <3> QED
      BY <3>2
  <2> HIDE DEF apart
  <2> QED
    BY <2>1
<1>2. \A p, q \in C :
         (\/ kind(p) < kind(q)
          \/ kind(p) = kind(q) /\ distance(p) < distance(q)
          \/ kind(p) = kind(q) /\ distance(p) = distance(q) /\ p < q) => Before(v, p, q)
  BY DEF Before
<1> HIDE DEF kind, distance
<1>3. PICK k \in {kind(x) : x \in C} : \A y \in {kind(x) : x \in C} : k <= y
  <2>1. {kind(x) : x \in C} \subseteq Nat /\ {kind(x) : x \in C} # {}
    BY <1>1
  <2> QED
    BY <2>1, LeastOf
<1>4. PICK K : K = {x \in C : kind(x) = k}
  BY Zenon
<1>5. K \subseteq C /\ K # {} /\ (\A x \in K : kind(x) = k) /\ (\A x \in C \ K : k < kind(x))
  BY <1>1, <1>3, <1>4
<1>6. PICK d \in {distance(x) : x \in K} : \A y \in {distance(x) : x \in K} : d <= y
  <2>1. {distance(x) : x \in K} \subseteq Nat /\ {distance(x) : x \in K} # {}
    BY <1>1, <1>5
  <2> QED
    BY <2>1, LeastOf
<1>7. PICK D : D = {x \in K : distance(x) = d}
  BY Zenon
<1>8. D \subseteq K /\ D # {} /\ (\A x \in D : distance(x) = d) /\ (\A x \in K \ D : d < distance(x))
  BY <1>1, <1>5, <1>6, <1>7
<1>9. PICK p \in D : \A q \in D : p <= q
  <2>1. D \subseteq Nat
    BY <1>1, <1>5, <1>8
  <2> QED
    BY <1>8, <2>1, LeastOf
<1>10. p \in C /\ \A q \in C \ {p} : Before(v, p, q)
  <2>1. p \in K /\ p \in C /\ p \in Nat /\ kind(p) = k /\ distance(p) = d
    BY <1>1, <1>5, <1>8, <1>9
  <2>2. ASSUME NEW q \in C \ {p} PROVE Before(v, p, q)
    <3>1. CASE q \notin K
      BY <1>2, <1>5, <2>1, <2>2, <3>1
    <3>2. CASE q \in K /\ q \notin D
      BY <1>2, <1>5, <1>8, <2>1, <2>2, <3>2
    <3>3. CASE q \in D
      <4>1. p < q /\ kind(q) = k /\ distance(q) = d /\ q \in C
        BY <1>1, <1>5, <1>8, <1>9, <2>1, <2>2, <3>3
      <4> QED
        BY <1>2, <2>1, <4>1
    <3> QED
      BY <3>1, <3>2, <3>3
  <2> QED
    BY <2>1, <2>2
<1>11. PICK best : best = _candidate_sort_key(v, C)
  BY Zenon
<1>12. best \in C
  BY <1>10, <1>11, Zenon DEF _candidate_sort_key
<1> QED
  BY <1>11, <1>12

(* Where a rerun goes: it stays with an active provider, and leaves one    *)
(* that is not for an active one with the task, the solver and the tags.   *)
LEMMA RerunIsEquivalent ==
  ASSUME VouchersInvariant, NEW i \in DOMAIN vouchers,
         NEW p \in resolve_provider_migration(vouchers[i])
  PROVE  /\ p \in Providers /\ lifecycle[p] = "active"
         /\ Offer[p].task = vouchers[i].task /\ Offer[p].solver = vouchers[i].solver
         /\ Row(vouchers[i].provider) => Offer[p].tags = Offer[vouchers[i].provider].tags
         /\ p # vouchers[i].provider => lifecycle[vouchers[i].provider] # "active"
<1>1. PICK v \in VoucherRows : v = vouchers[i]
  BY DEF VouchersInvariant
<1>2. /\ v.provider \in Providers /\ Offer[v.provider].task = v.task
      /\ Offer[v.provider].solver = v.solver
  BY <1>1 DEF VouchersInvariant, VoucherOK, VoucherRows
<1>3. CASE NotRequired(v)
  <2>1. p = v.provider /\ lifecycle[v.provider] = "active"
    BY <1>1, <1>3 DEF resolve_provider_migration, NotRequired
  <2> QED
    BY <1>1, <1>2, <2>1
<1>4. CASE ~NotRequired(v)
  <2>1. MigrationCandidates(v) # {} /\ p = _candidate_sort_key(v, MigrationCandidates(v))
    BY <1>1, <1>4 DEF resolve_provider_migration
  <2>2. PICK C : C = MigrationCandidates(v)
    BY Zenon
  <2>3. C \in SUBSET Providers /\ C # {}
    BY <2>1, <2>2 DEF MigrationCandidates
  <2>4. p \in C
    BY <1>2, <2>1, <2>2, <2>3, CandidateIsChosen
  <2>5. /\ p \in Providers /\ lifecycle[p] = "active" /\ Offer[p].task = v.task
        /\ Offer[p].solver = v.solver /\ Offer[p].tags = _source_tags(v)
    BY <2>2, <2>4 DEF MigrationCandidates
  <2>6. Row(v.provider) => Offer[p].tags = Offer[v.provider].tags
    BY <1>2, <2>5 DEF _source_tags
  <2>7. lifecycle[v.provider] # "active"
    BY <1>2, <1>4 DEF NotRequired
  <2> QED
    BY <1>1, <2>5, <2>6, <2>7
<1> QED
  BY <1>3, <1>4

(* A rerun issues a voucher. *)
LEMMA RerunPreserves ==
  ASSUME VouchersInvariant, NEW i \in DOMAIN vouchers, rerun_reproduction(i)
  PROVE  VouchersInvariant'
<1>1. PICK v \in VoucherRows : v = vouchers[i]
  BY DEF VouchersInvariant
<1>2. PICK n : n = Len(vouchers) + 1
  BY Zenon
<1>3. PICK p \in resolve_provider_migration(v) :
        /\ vouchers' = Append(vouchers, [v EXCEPT !.provider = p, !.parent = i, !.depth = v.depth + 1,
                                                  !.listed = v.listed /\ Row(v.provider)])
        /\ migrations' = migrations \cup
             {[from |-> v.provider, to |-> p, voucher |-> n,
               active |-> {q \in Providers : lifecycle[q] = "active"}]}
  BY <1>1, <1>2 DEF rerun_reproduction
<1>4. /\ p \in Providers /\ lifecycle[p] = "active"
      /\ Offer[p].task = v.task /\ Offer[p].solver = v.solver
      /\ Row(v.provider) => Offer[p].tags = Offer[v.provider].tags
      /\ p # v.provider => lifecycle[v.provider] # "active"
  BY <1>1, <1>3, RerunIsEquivalent
<1>5. /\ v.provider \in Providers /\ v.depth \in Nat /\ v.listed \in BOOLEAN
      /\ v.task = vouchers[1].task /\ v.solver = vouchers[1].solver
      /\ Offer[v.provider].task = v.task /\ Offer[v.provider].solver = v.solver
      /\ v.listed => Offer[v.provider].tags = Offer[vouchers[1].provider].tags
  BY <1>1 DEF VouchersInvariant, VoucherOK, VoucherRows
<1>6. PICK depth \in Nat, listed \in BOOLEAN :
         depth = v.depth + 1 /\ depth # 0 /\ listed = (v.listed /\ Row(v.provider))
  <2>1. PICK depth \in Nat : depth = v.depth + 1 /\ depth # 0
    BY <1>5
  <2>2. PICK listed \in BOOLEAN : listed = (v.listed /\ Row(v.provider))
    BY Zenon
  <2> QED
    BY <2>1, <2>2
<1>7. PICK new : new = [v EXCEPT !.provider = p, !.parent = i, !.depth = depth, !.listed = listed]
  BY Zenon
<1>8. /\ vouchers \in Seq(VoucherRows) /\ Len(vouchers) \in Nat /\ 1 \in DOMAIN vouchers
      /\ DOMAIN vouchers = 1..Len(vouchers) /\ i \in Nat /\ i # 0 /\ i < n
  BY <1>2 DEF VouchersInvariant
<1>9. /\ new \in VoucherRows /\ new.provider = p /\ new.parent = i /\ new.depth = depth
      /\ new.listed = listed /\ new.task = v.task /\ new.solver = v.solver
  BY <1>1, <1>4, <1>6, <1>7, <1>8 DEF VoucherRows
<1>10. vouchers' = Append(vouchers, new)
  BY <1>3, <1>6, <1>7
<1>11. /\ vouchers' \in Seq(VoucherRows) /\ DOMAIN vouchers' = DOMAIN vouchers \cup {n}
       /\ vouchers'[n] = new /\ n \notin DOMAIN vouchers
       /\ \A j \in DOMAIN vouchers : vouchers'[j] = vouchers[j]
  BY <1>2, <1>8, <1>9, <1>10
<1>12. vouchers'[1] = vouchers[1] /\ vouchers'[i] = v
  BY <1>1, <1>8, <1>11
<1>13. listed => Offer[p].tags = Offer[vouchers[1].provider].tags
  BY <1>4, <1>5, <1>6
<1>14. VoucherOK(n)'
  BY <1>4, <1>5, <1>6, <1>8, <1>9, <1>11, <1>12, <1>13 DEF VoucherOK
<1>15. ASSUME NEW j \in DOMAIN vouchers PROVE VoucherOK(j)'
  <2>1. VoucherOK(j) /\ vouchers[j] \in VoucherRows /\ vouchers'[j] = vouchers[j]
    BY <1>11 DEF VouchersInvariant
  <2>2. vouchers[j].parent # 0 => vouchers[j].parent \in DOMAIN vouchers
    <3>1. vouchers[j].parent \in Nat /\ vouchers[j].parent < j
      BY <2>1 DEF VoucherOK, VoucherRows
    <3> QED
      BY <1>8, <3>1
  <2>3. vouchers[j].parent # 0 => vouchers'[vouchers[j].parent] = vouchers[vouchers[j].parent]
    BY <1>11, <2>2
  <2> QED
    BY <1>12, <2>1, <2>3 DEF VoucherOK
<1>16. RerunsStayEquivalent'
  <2>1. ASSUME NEW j \in DOMAIN vouchers', vouchers'[j].listed
        PROVE  Offer[vouchers'[j].provider].tags = Offer[vouchers'[1].provider].tags
    BY <1>11, <1>14, <1>15, <2>1 DEF VoucherOK
  <2>2. ASSUME NEW m \in migrations'
        PROVE  /\ Offer[m.to].task = Offer[m.from].task /\ Offer[m.to].solver = Offer[m.from].solver
               /\ m.to \in m.active /\ (m.to # m.from => m.from \notin m.active)
    <3>1. CASE m \in migrations
      BY <3>1 DEF VouchersInvariant, RerunsStayEquivalent
    <3>2. CASE m = [from |-> v.provider, to |-> p, voucher |-> n,
                    active |-> {q \in Providers : lifecycle[q] = "active"}]
      <4>1. m.from = v.provider /\ m.to = p /\ m.active = {q \in Providers : lifecycle[q] = "active"}
        BY <3>2
      <4> QED
        BY <1>4, <1>5, <4>1
    <3> QED
      BY <1>3, <3>1, <3>2
  <2> QED
    BY <2>1, <2>2 DEF RerunsStayEquivalent
<1>17. lifecycle' = lifecycle
  BY DEF rerun_reproduction
<1> QED
  BY <1>8, <1>11, <1>14, <1>15, <1>16, <1>17 DEF VouchersInvariant

(* Every step of the vouchers. *)
LEMMA VouchersPreserved ==
  VouchersInvariant /\ [MigrationNext]_migrationVars => VouchersInvariant'
<1> SUFFICES ASSUME VouchersInvariant, [MigrationNext]_migrationVars PROVE VouchersInvariant'
  OBVIOUS
<1>1. CASE UNCHANGED migrationVars
  BY <1>1 DEF migrationVars, VouchersInvariant, VoucherOK, RerunsStayEquivalent
<1>2. ASSUME NEW p \in Providers, NEW status \in Statuses, ChangeLifecycle(p, status)
      PROVE  VouchersInvariant'
  BY <1>2 DEF ChangeLifecycle, VouchersInvariant, VoucherOK, RerunsStayEquivalent
<1>3. ASSUME NEW i \in DOMAIN vouchers, rerun_reproduction(i) PROVE VouchersInvariant'
  BY <1>3, RerunPreserves
<1>4. ASSUME NEW i \in DOMAIN vouchers, ExpireVoucher(i) PROVE VouchersInvariant'
  <2>1. PICK v \in VoucherRows : v = vouchers[i]
    BY DEF VouchersInvariant
  <2>2. PICK new : new = [v EXCEPT !.expired = TRUE]
    BY Zenon
  <2>3. /\ new \in VoucherRows /\ new.provider = v.provider /\ new.parent = v.parent
        /\ new.depth = v.depth /\ new.task = v.task /\ new.solver = v.solver /\ new.listed = v.listed
    BY <2>1, <2>2 DEF VoucherRows
  <2>4. /\ vouchers \in Seq(VoucherRows) /\ 1 \in DOMAIN vouchers
        /\ DOMAIN vouchers = 1..Len(vouchers) /\ Len(vouchers) \in Nat
        /\ vouchers' = [vouchers EXCEPT ![i] = new] /\ UNCHANGED <<lifecycle, migrations>>
    BY <1>4, <2>1, <2>2 DEF ExpireVoucher, VouchersInvariant
  <2>5. /\ vouchers' \in Seq(VoucherRows) /\ DOMAIN vouchers' = DOMAIN vouchers
        /\ \A j \in DOMAIN vouchers :
              /\ vouchers'[j].provider = vouchers[j].provider /\ vouchers'[j].parent = vouchers[j].parent
              /\ vouchers'[j].depth = vouchers[j].depth /\ vouchers'[j].task = vouchers[j].task
              /\ vouchers'[j].solver = vouchers[j].solver /\ vouchers'[j].listed = vouchers[j].listed
    BY <2>1, <2>3, <2>4
  <2>6. ASSUME NEW j \in DOMAIN vouchers PROVE VoucherOK(j)'
    <3>1. VoucherOK(j) /\ vouchers[j] \in VoucherRows
      BY DEF VouchersInvariant
    <3>2. vouchers[j].parent # 0 => vouchers[j].parent \in DOMAIN vouchers
      <4>1. vouchers[j].parent \in Nat /\ vouchers[j].parent < j
        BY <3>1 DEF VoucherOK, VoucherRows
      <4> QED
        BY <2>4, <4>1
    <3> QED
      BY <2>4, <2>5, <3>1, <3>2 DEF VoucherOK
  <2>7. RerunsStayEquivalent'
    BY <2>4, <2>5 DEF VouchersInvariant, RerunsStayEquivalent
  <2> QED
    BY <2>4, <2>5, <2>6, <2>7 DEF VouchersInvariant
<1> QED
  BY <1>1, <1>2, <1>3, <1>4 DEF MigrationNext

(* The first voucher. *)
LEMMA VouchersInitially ==
  MigrationInit => VouchersInvariant
<1> SUFFICES ASSUME MigrationInit PROVE VouchersInvariant
  OBVIOUS
<1>1. PICK p \in Providers :
         vouchers = <<[provider |-> p, parent |-> 0, depth |-> 0, expired |-> FALSE,
                       task |-> Offer[p].task, solver |-> Offer[p].solver, listed |-> TRUE]>>
  BY DEF MigrationInit
<1>2. PICK v : v = [provider |-> p, parent |-> 0, depth |-> 0, expired |-> FALSE,
                    task |-> Offer[p].task, solver |-> Offer[p].solver, listed |-> TRUE]
  BY Zenon
<1>3. /\ v \in VoucherRows /\ v.provider = p /\ v.parent = 0 /\ v.depth = 0
      /\ v.task = Offer[p].task /\ v.solver = Offer[p].solver
  BY <1>2 DEF VoucherRows
<1>4. vouchers = <<v>>
  BY <1>1, <1>2
<1>5. vouchers \in Seq(VoucherRows) /\ DOMAIN vouchers = {1} /\ vouchers[1] = v
  BY <1>3, <1>4
<1>6. VoucherOK(1)
  BY <1>3, <1>5 DEF VoucherOK
<1>7. migrations = {} /\ lifecycle \in [Providers -> Statuses]
  BY DEF MigrationInit, Statuses
<1>8. RerunsStayEquivalent
  BY <1>5, <1>7 DEF RerunsStayEquivalent
<1> QED
  BY <1>5, <1>6, <1>7, <1>8 DEF VouchersInvariant

-----------------------------------------------------------------------------
(***************************************************************************)
(* Exit notices.  What makes their property inductive: the users a call    *)
(* inserts requests for have none and are no other call's, and the users a *)
(* call is done with have a request or will get one from it.               *)
(***************************************************************************)
ExitCalls ==
    [step : {"idle", "planned", "notify"}, todo : SUBSET Holders, users : SUBSET Holders,
     mine : SUBSET Holders]

ExitTypeOK ==
    /\ affected \subseteq Holders /\ requested \subseteq Holders
    /\ exit_plan \in BOOLEAN /\ announcement \in [exists : BOOLEAN, users : Nat]
    /\ exit_events \in [Holders -> Nat] /\ announced \in Nat
    /\ exit_call \in [Admins -> ExitCalls]

ExitCallsSound ==
    \A a \in Admins :
        /\ exit_call[a].mine \cap requested = {}
        /\ \A b \in Admins \ {a} : exit_call[a].mine \cap exit_call[b].mine = {}
        /\ exit_call[a].users \ exit_call[a].todo \subseteq requested \cup exit_call[a].mine

ExitInvariant == ExitTypeOK /\ ExitCallsSound /\ ExitNoticedOnce

LEMMA ExitInitially ==
  ExitInit => ExitInvariant
<1> SUFFICES ASSUME ExitInit PROVE ExitInvariant
  OBVIOUS
<1>1. NoExitCall \in ExitCalls /\ NoAnnouncement \in [exists : BOOLEAN, users : Nat]
  BY DEF NoExitCall, NoAnnouncement, ExitCalls
<1>2. ExitTypeOK
  <2>1. exit_call \in [Admins -> ExitCalls] /\ announcement \in [exists : BOOLEAN, users : Nat]
    BY <1>1 DEF ExitInit
  <2>2. affected \subseteq Holders /\ requested \subseteq Holders
    BY DEF ExitInit
  <2>3. exit_events \in [Holders -> Nat] /\ announced \in Nat
    BY DEF ExitInit
  <2>4. exit_plan \in BOOLEAN
    BY DEF ExitInit
  <2> QED
    BY <2>1, <2>2, <2>3, <2>4 DEF ExitTypeOK
<1>3. ExitCallsSound
  BY DEF ExitInit, ExitCallsSound, NoExitCall
<1>4. ExitNoticedOnce
  <2>1. Cardinality({}) = 0
    BY FS_EmptySet
  <2> QED
    BY <2>1 DEF ExitInit, ExitNoticedOnce, NoAnnouncement
<1> QED
  BY <1>2, <1>3, <1>4 DEF ExitInvariant

(* A call moves on, and nothing is committed. *)
LEMMA ExitCallMoves ==
  ASSUME ExitInvariant, NEW a \in Admins, NEW c \in ExitCalls,
         exit_call' = [exit_call EXCEPT ![a] = c],
         UNCHANGED <<affected, exit_plan, requested, exit_events, announcement, announced>>,
         c.mine \cap requested = {},
         \A b \in Admins \ {a} : c.mine \cap exit_call[b].mine = {},
         c.users \ c.todo \subseteq requested \cup c.mine
  PROVE  ExitInvariant'
<1>1. exit_call'[a] = c /\ \A b \in Admins \ {a} : exit_call'[b] = exit_call[b]
  BY DEF ExitInvariant, ExitTypeOK
<1>2. ExitTypeOK' /\ ExitNoticedOnce'
  BY DEF ExitInvariant, ExitTypeOK, ExitNoticedOnce
<1>3. ExitCallsSound'
  <2>1. ASSUME NEW x \in Admins, NEW y \in Admins \ {x}
        PROVE  exit_call'[x].mine \cap exit_call'[y].mine = {}
    <3>1. CASE x = a
      BY <1>1, <3>1
    <3>2. CASE y = a
      BY <1>1, <3>2
    <3>3. CASE x # a /\ y # a
      BY <1>1, <3>3 DEF ExitInvariant, ExitCallsSound
    <3> QED
      BY <3>1, <3>2, <3>3
  <2>2. ASSUME NEW x \in Admins
        PROVE  /\ exit_call'[x].mine \cap requested = {}
               /\ exit_call'[x].users \ exit_call'[x].todo \subseteq requested \cup exit_call'[x].mine
    BY <1>1 DEF ExitInvariant, ExitCallsSound
  <2> QED
    BY <2>1, <2>2 DEF ExitCallsSound
<1> QED
  BY <1>2, <1>3 DEF ExitInvariant

(* A call commits: every user it looked at has a request now. *)
LEMMA CommitExitPreserves ==
  ASSUME ExitInvariant, NEW a \in Admins, CommitExitCall(a)
  PROVE  ExitInvariant'
<1>1. PICK c \in ExitCalls : c = exit_call[a]
  BY DEF ExitInvariant, ExitTypeOK
<1>2. c.todo = {} /\ c.users \subseteq Holders /\ c.mine \subseteq Holders
  BY <1>1 DEF CommitExitCall, ExitCalls
<1>3. /\ exit_plan' = TRUE /\ requested' = requested \cup c.mine
      /\ exit_events' = [u \in Holders |-> exit_events[u] + (IF u \in c.mine THEN 1 ELSE 0)]
      /\ announcement' = [exists |-> TRUE, users |-> Cardinality(c.users)]
      /\ announced' = IF announcement.exists THEN announced ELSE announced + 1
      /\ exit_call' = [exit_call EXCEPT ![a] = NoExitCall] /\ UNCHANGED affected
  BY <1>1 DEF CommitExitCall
<1>4. /\ c.mine \cap requested = {} /\ c.users \subseteq requested \cup c.mine
      /\ \A b \in Admins \ {a} : c.mine \cap exit_call[b].mine = {}
  <2>1. c.users \ c.todo \subseteq requested \cup c.mine
    BY <1>1 DEF ExitInvariant, ExitCallsSound
  <2>2. /\ c.mine \cap requested = {}
        /\ \A b \in Admins \ {a} : c.mine \cap exit_call[b].mine = {}
    BY <1>1 DEF ExitInvariant, ExitCallsSound
  <2> QED
    BY <1>2, <2>1, <2>2
<1>5. requested' \subseteq Holders /\ c.users \subseteq requested'
  BY <1>2, <1>3, <1>4 DEF ExitInvariant, ExitTypeOK
<1>6. /\ Cardinality(c.users) \in Nat /\ Cardinality(requested') \in Nat
      /\ Cardinality(c.users) <= Cardinality(requested')
  <2>1. IsFiniteSet(requested') /\ IsFiniteSet(c.users)
    BY <1>2, <1>5, HoldersAssumption, FS_Subset
  <2> QED
    BY <1>5, <2>1, FS_Subset, FS_CardinalityType
<1>7. NoExitCall \in ExitCalls /\ NoExitCall.mine = {} /\ NoExitCall.users = {}
  BY DEF NoExitCall, ExitCalls
<1>8. exit_call'[a] = NoExitCall /\ \A b \in Admins \ {a} : exit_call'[b] = exit_call[b]
  BY <1>3 DEF ExitInvariant, ExitTypeOK
<1>9. ExitTypeOK'
  <2>1. exit_call' \in [Admins -> ExitCalls]
    BY <1>3, <1>7 DEF ExitInvariant, ExitTypeOK
  <2>2. announcement' \in [exists : BOOLEAN, users : Nat]
    BY <1>3, <1>6
  <2>3. exit_events' \in [Holders -> Nat] /\ announced' \in Nat
    BY <1>3 DEF ExitInvariant, ExitTypeOK
  <2>4. exit_plan' \in BOOLEAN /\ affected' \subseteq Holders
    BY <1>3 DEF ExitInvariant, ExitTypeOK
  <2> QED
    BY <1>5, <2>1, <2>2, <2>3, <2>4 DEF ExitTypeOK
<1>10. ExitCallsSound'
  <2>1. ASSUME NEW x \in Admins \ {a}
        PROVE  /\ exit_call'[x].mine \cap requested' = {}
               /\ exit_call'[x].users \ exit_call'[x].todo \subseteq requested' \cup exit_call'[x].mine
    BY <1>3, <1>4, <1>8 DEF ExitInvariant, ExitCallsSound
  <2>2. ASSUME NEW x \in Admins \ {a}, NEW y \in Admins \ {x}
        PROVE  exit_call'[x].mine \cap exit_call'[y].mine = {}
    BY <1>7, <1>8 DEF ExitInvariant, ExitCallsSound
  <2> QED
    BY <1>7, <1>8, <2>1, <2>2 DEF ExitCallsSound
<1>11. ExitNoticedOnce'
  <2>1. ASSUME NEW u \in Holders PROVE exit_events'[u] = IF u \in requested' THEN 1 ELSE 0
    <3>1. exit_events[u] = IF u \in requested THEN 1 ELSE 0
      BY DEF ExitInvariant, ExitNoticedOnce
    <3> QED
      BY <1>3, <1>4, <3>1
  <2>2. announced' = 1 /\ announcement'.exists /\ announcement'.users = Cardinality(c.users)
    BY <1>3 DEF ExitInvariant, ExitNoticedOnce
  <2> QED
    BY <1>3, <1>6, <2>1, <2>2 DEF ExitNoticedOnce
<1> QED
  BY <1>9, <1>10, <1>11 DEF ExitInvariant

(* Every step of the notices. *)
LEMMA ExitPreserved ==
  ExitInvariant /\ [ExitNext]_exitVars => ExitInvariant'
<1> SUFFICES ASSUME ExitInvariant, [ExitNext]_exitVars PROVE ExitInvariant'
  OBVIOUS
<1>1. CASE UNCHANGED exitVars
  BY <1>1 DEF exitVars, ExitInvariant, ExitTypeOK, ExitCallsSound, ExitNoticedOnce
<1>2. ASSUME NEW u \in Holders, AffectedChange(u) PROVE ExitInvariant'
  <2>1. /\ affected' \subseteq Holders
        /\ UNCHANGED <<exit_plan, requested, exit_events, announcement, announced, exit_call>>
    BY <1>2 DEF AffectedChange, ExitInvariant, ExitTypeOK
  <2> QED
    BY <2>1 DEF ExitInvariant, ExitTypeOK, ExitCallsSound, ExitNoticedOnce
<1>3. ASSUME NEW a \in Admins,
             \/ create_provider_exit_plan(a) \/ _affected_voucher_rows(a) \/ AbortExitCall(a)
             \/ \E u \in Holders : RequestNotification(a, u)
      PROVE  ExitInvariant'
  <2>1. PICK c \in ExitCalls : c = exit_call[a]
    BY DEF ExitInvariant, ExitTypeOK
  <2>2. /\ c.todo \subseteq Holders /\ c.users \subseteq Holders /\ c.mine \subseteq Holders
        /\ c = [step |-> c.step, todo |-> c.todo, users |-> c.users, mine |-> c.mine]
    BY DEF ExitCalls
  <2>3. /\ c.mine \cap requested = {} /\ c.users \ c.todo \subseteq requested \cup c.mine
        /\ \A b \in Admins \ {a} : c.mine \cap exit_call[b].mine = {}
    BY <2>1 DEF ExitInvariant, ExitCallsSound
  <2>4. CASE create_provider_exit_plan(a)
    <3>1. PICK d : d = [c EXCEPT !.step = "planned"]
      BY Zenon
    <3>2. d \in ExitCalls /\ d.mine = c.mine /\ d.users = c.users /\ d.todo = c.todo
      BY <3>1 DEF ExitCalls
    <3>3. /\ exit_call' = [exit_call EXCEPT ![a] = d]
          /\ UNCHANGED <<affected, exit_plan, requested, exit_events, announcement, announced>>
      BY <2>1, <2>4, <3>1 DEF create_provider_exit_plan
    <3> QED
      BY <2>3, <3>2, <3>3, ExitCallMoves, ZenonT(30)
  <2>5. CASE _affected_voucher_rows(a)
    <3>1. PICK d : d = [step |-> "notify", todo |-> affected, users |-> affected, mine |-> c.mine]
      BY Zenon
    <3>2. d \in ExitCalls /\ d.mine = c.mine /\ d.users = affected /\ d.todo = affected
      BY <2>2, <3>1 DEF ExitCalls, ExitInvariant, ExitTypeOK
    <3>3. /\ exit_call' = [exit_call EXCEPT ![a] = d]
          /\ UNCHANGED <<affected, exit_plan, requested, exit_events, announcement, announced>>
      <4> DEFINE one == [exit_call EXCEPT ![a].step = "notify"]
                 two == [one EXCEPT ![a].todo = affected]
                 looked == [step |-> "notify", todo |-> affected, users |-> c.users, mine |-> c.mine]
      <4>0. exit_call \in [Admins -> ExitCalls]
        BY DEF ExitInvariant, ExitTypeOK
      <4>1. one[a] = [step |-> "notify", todo |-> c.todo, users |-> c.users, mine |-> c.mine]
        BY <2>1, <2>2, <4>0
      <4>2. two = [one EXCEPT ![a] = looked]
        <5>1. [one[a] EXCEPT !.todo = affected] = looked
          BY <4>1
        <5> QED
          BY <5>1
      <4>3. two = [exit_call EXCEPT ![a] = looked]
        BY <4>0, <4>2
      <4>4. exit_call' = [two EXCEPT ![a].users = affected]
        BY <2>5 DEF _affected_voucher_rows
      <4> HIDE DEF two
      <4> QED
        BY <2>5, <3>1, <4>0, <4>3, <4>4 DEF _affected_voucher_rows
    <3> QED
      BY <2>3, <3>2, <3>3, ExitCallMoves, ZenonT(30)
  <2>6. CASE AbortExitCall(a)
    <3>1. NoExitCall \in ExitCalls /\ NoExitCall.mine = {} /\ NoExitCall.users = {}
      BY DEF NoExitCall, ExitCalls
    <3>2. /\ exit_call' = [exit_call EXCEPT ![a] = NoExitCall]
          /\ UNCHANGED <<affected, exit_plan, requested, exit_events, announcement, announced>>
      BY <2>6 DEF AbortExitCall
    <3> QED
      BY <3>1, <3>2, ExitCallMoves
  <2>7. ASSUME NEW u \in Holders, RequestNotification(a, u) PROVE ExitInvariant'
    <3>1. PICK d : d = [step |-> c.step, todo |-> c.todo \ {u}, users |-> c.users,
                        mine |-> IF u \in requested THEN c.mine ELSE c.mine \cup {u}]
      BY Zenon
    <3>2. /\ d \in ExitCalls /\ d.users = c.users /\ d.todo = c.todo \ {u}
          /\ d.mine = IF u \in requested THEN c.mine ELSE c.mine \cup {u}
      BY <2>2, <3>1 DEF ExitCalls
    <3>3. /\ exit_call' = [exit_call EXCEPT ![a] = d]
          /\ UNCHANGED <<affected, exit_plan, requested, exit_events, announcement, announced>>
          /\ \A b \in Admins \ {a} : u \notin exit_call[b].mine
      <4> DEFINE one == [exit_call EXCEPT ![a].todo = c.todo \ {u}]
                 own == IF u \in requested THEN c.mine ELSE c.mine \cup {u}
      <4>0. exit_call \in [Admins -> ExitCalls]
        BY DEF ExitInvariant, ExitTypeOK
      <4>1. one[a] = [step |-> c.step, todo |-> c.todo \ {u}, users |-> c.users, mine |-> c.mine]
        BY <2>1, <2>2, <4>0
      <4>2. exit_call' = [one EXCEPT ![a].mine = IF u \in requested THEN @ ELSE @ \cup {u}]
        BY <2>1, <2>7 DEF RequestNotification
      <4>3. exit_call' = [one EXCEPT ![a].mine = own]
        BY <4>1, <4>2
      <4>4. d = [step |-> c.step, todo |-> c.todo \ {u}, users |-> c.users, mine |-> own]
        BY <3>1, Zenon
      <4>5. [one[a] EXCEPT !.mine = own] = d
        <5> HIDE DEF own, one
        <5> QED
          BY <4>1, <4>4
      <4>6. exit_call' = [one EXCEPT ![a] = d]
        BY <4>3, <4>5
      <4>7. exit_call' = [exit_call EXCEPT ![a] = d]
        BY <4>0, <4>6
      <4> QED
        BY <2>7, <4>7 DEF RequestNotification
    <3>4. /\ d.mine \cap requested = {}
          /\ \A b \in Admins \ {a} : d.mine \cap exit_call[b].mine = {}
          /\ d.users \ d.todo \subseteq requested \cup d.mine
      BY <2>3, <3>2, <3>3
    <3> QED
      BY <3>2, <3>3, <3>4, ExitCallMoves
  <2> QED
    BY <1>3, <2>4, <2>5, <2>6, <2>7
<1> QED
  BY <1>1, <1>2, <1>3, CommitExitPreserves DEF ExitNext

(* However requests overlap, die and are repeated, a version number names  *)
(* one row of its lineage for good, a name has one active root, every      *)
(* version and every rerun leads back to its origin, changed in nothing    *)
(* but the one parameter, with the task, the solver and, while its         *)
(* providers were listed, the capabilities of the first result, and every  *)
(* holder of a leaving provider's vouchers is sent one notice: for any     *)
(* number of requests, names, rows, providers, vouchers and holders (the   *)
(* job template endpoints, reruns of a voucher and the exit notices).      *)
THEOREM LineagesSafe ==
  MCSpec => []LineagesSound
<1>1. MCInit => TemplatesInvariant /\ VouchersInvariant /\ ExitInvariant
  BY TemplatesInitially, VouchersInitially, ExitInitially DEF MCInit, Init
<1>2. TemplatesInvariant /\ [MCNext]_<<admission, execution, records, story>> => TemplatesInvariant'
  <2>1. [MCNext]_<<admission, execution, records, story>> => [TemplateNext]_templateVars
    BY DEF MCNext, LimitPart, KeyUsePart, RoutePart, LpPart, JobPart, BatchPart, TemplatePart,
           MigrationPart, CitationPart, ExitPart, admission, execution, records
  <2> QED
    BY <2>1, TemplatesPreserved
<1>3. VouchersInvariant /\ [MCNext]_<<admission, execution, records, story>> => VouchersInvariant'
  <2>1. [MCNext]_<<admission, execution, records, story>> => [MigrationNext]_migrationVars
    BY DEF MCNext, LimitPart, KeyUsePart, RoutePart, LpPart, JobPart, BatchPart, TemplatePart,
           MigrationPart, CitationPart, ExitPart, admission, execution, records
  <2> QED
    BY <2>1, VouchersPreserved
<1>4. ExitInvariant /\ [MCNext]_<<admission, execution, records, story>> => ExitInvariant'
  <2>1. [MCNext]_<<admission, execution, records, story>> => [ExitNext]_exitVars
    BY DEF MCNext, LimitPart, KeyUsePart, RoutePart, LpPart, JobPart, BatchPart, TemplatePart,
           MigrationPart, CitationPart, ExitPart, admission, execution, records
  <2> QED
    BY <2>1, ExitPreserved
<1>5. VouchersInvariant => VoucherLineage /\ RerunsStayEquivalent
  BY DEF VouchersInvariant, VoucherLineage, VoucherOK
<1>6. TemplatesInvariant /\ VouchersInvariant /\ ExitInvariant => LineagesSound
  BY <1>5, TemplatesSound DEF LineagesSound, ExitInvariant
<1> QED
  BY <1>1, <1>2, <1>3, <1>4, <1>6, PTL DEF MCSpec

-----------------------------------------------------------------------------
(* Of two numbers the larger and the smaller one. *)
LEMMA OfTwo ==
  ASSUME NEW a \in Int, NEW b \in Int
  PROVE  /\ Max({a, b}) = IF a >= b THEN a ELSE b
         /\ Min({a, b}) = IF a <= b THEN a ELSE b
<1> DEFINE S == {a, b}
<1>1. CASE a >= b
  <2>1. \A x \in S : (\A y \in S : x >= y) <=> x = a
    BY <1>1
  <2>2. \A x \in S : (\A y \in S : x <= y) <=> x = b
    BY <1>1
  <2> QED
    BY <1>1, <2>1, <2>2 DEF Max, Min
<1>2. CASE ~(a >= b)
  <2>1. \A x \in S : (\A y \in S : x >= y) <=> x = b
    BY <1>2
  <2>2. \A x \in S : (\A y \in S : x <= y) <=> x = a
    BY <1>2
  <2> QED
    BY <1>2, <2>1, <2>2 DEF Max, Min
<1> QED
  BY <1>1, <1>2

(* A set of numbers that is not empty has a first one. *)
LEMMA FirstOfNumbers ==
  ASSUME NEW S \in SUBSET Nat, S # {}
  PROVE  Min(S) \in S
<1>1. PICK x \in S : \A y \in S : ~(<<y, x>> \in OpToRel(<, Nat))
  BY NatLessThanWellFounded, WFMin, Zenon
<1>2. \A y \in S : ~(y < x)
  BY <1>1 DEF OpToRel
<1>3. \A y \in S : x <= y
  BY <1>2
<1> QED
  BY <1>3, Zenon DEF Min

-----------------------------------------------------------------------------
(***************************************************************************)
(* Rate limits.  What makes their properties inductive: a request that a   *)
(* sorted set does not hold any more was read a window ago, and one that   *)
(* it holds keeps the set from expiring for a window.                      *)
(***************************************************************************)
Readings == [plan : Plans, now : Nat]

RateTypeOK ==
    /\ clock \in Nat /\ lag \in Nat
    /\ reading \in [Clients -> {IDLE} \cup Readings]
    /\ \A c \in Clients : reading[c] # IDLE => reading[c] \in Readings /\ reading[c].now <= clock
    /\ admitted \in [Plans -> Seq(Nat)]
    /\ DOMAIN hits = Plans /\ DOMAIN expires = Plans
    /\ \A p \in Plans : DOMAIN hits[p] = DOMAIN Limit[p] /\ DOMAIN expires[p] = DOMAIN Limit[p]

SetSound(p, w) ==
    /\ hits[p][w] \subseteq DOMAIN admitted[p] /\ Cardinality(hits[p][w]) <= Limit[p][w]
    /\ expires[p][w] \in Int
    /\ \A j \in DOMAIN admitted[p] :
         /\ admitted[p][j] <= clock
         /\ IF j \in hits[p][w] THEN expires[p][w] >= admitted[p][j] + w * Second
            ELSE clock >= admitted[p][j] + w * Second

LimitKept(p, w) ==
    \A i \in DOMAIN admitted[p] :
        Cardinality({j \in DOMAIN admitted[p] :
                        admitted[p][j] \in admitted[p][i]..(admitted[p][i] + w * Second - lag - 1)})
            <= Limit[p][w]

RefusalSound ==
    refusal # NoRefusal =>
        /\ refusal.plan \in Plans /\ refusal.window \in DOMAIN Limit[refusal.plan]
        /\ refusal.until \in Int
        /\ Cardinality({j \in hits[refusal.plan][refusal.window] :
                           admitted[refusal.plan][j] + refusal.window * Second > refusal.until})
              < Limit[refusal.plan][refusal.window]

RateInvariant ==
    /\ RateTypeOK /\ RefusalSound
    /\ \A p \in Plans : \A w \in DOMAIN Limit[p] : SetSound(p, w) /\ LimitKept(p, w)

(* The size of a window in ticks. *)
LEMMA WindowTicks ==
  ASSUME NEW p \in Plans, NEW w \in DOMAIN Limit[p]
  PROVE  w * Second \in Nat /\ Limit[p][w] \in Nat \ {0} /\ w \in Nat
<1>1. w \in Nat \ {0} /\ Second \in Nat \ {0} /\ Limit[p][w] \in Nat \ {0}
  BY RateLimitAssumption
<1> QED
  BY <1>1

(* Sets of numbered requests are finite. *)
LEMMA NumbersAreFinite ==
  ASSUME NEW s \in Seq(Nat), NEW S \in SUBSET DOMAIN s
  PROVE  /\ IsFiniteSet(S) /\ Cardinality(S) \in Nat
         /\ \A T \in SUBSET S : IsFiniteSet(T) /\ Cardinality(T) \in Nat
                                /\ Cardinality(T) <= Cardinality(S)
         /\ \A x \in S : Cardinality(S \ {x}) = Cardinality(S) - 1
         /\ \A x : x \notin S => Cardinality(S \cup {x}) = Cardinality(S) + 1
<1>1. IsFiniteSet(1..Len(s)) /\ S \subseteq 1..Len(s)
  BY FS_Interval
<1>2. IsFiniteSet(S)
  BY <1>1, FS_Subset
<1> QED
  BY <1>2, FS_Subset, FS_CardinalityType, FS_RemoveElement, FS_AddElement

(* What the script looks at is part of the set, and what is not part of it *)
(* was read a window ago.                                                  *)
LEMMA LiveIsRecent ==
  ASSUME RateInvariant, NEW p \in Plans, NEW w \in DOMAIN Limit[p], NEW now \in Nat, now <= clock
  PROVE  /\ Live(p, w, now) \subseteq hits[p][w]
         /\ \A j \in DOMAIN admitted[p] \ Live(p, w, now) : clock >= admitted[p][j] + w * Second
<1>1. PICK L \in Nat : L = w * Second
  BY WindowTicks
<1>2. SetSound(p, w) /\ admitted[p] \in Seq(Nat) /\ clock \in Nat
  BY DEF RateInvariant, RateTypeOK
<1>3. Live(p, w, now) \subseteq hits[p][w]
  BY DEF Live
<1>4. ASSUME NEW j \in DOMAIN admitted[p], j \notin Live(p, w, now)
      PROVE  clock >= admitted[p][j] + L
  <2>1. admitted[p][j] \in Nat /\ expires[p][w] \in Int
    BY <1>2 DEF SetSound
  <2>2. CASE j \notin hits[p][w]
    BY <1>1, <1>2, <2>2 DEF SetSound
  <2>3. CASE j \in hits[p][w]
    <3>1. expires[p][w] >= admitted[p][j] + L
      BY <1>1, <1>2, <2>3 DEF SetSound
    <3>2. clock > expires[p][w] \/ ~(admitted[p][j] > now - L)
      BY <1>1, <1>4, <2>3 DEF Live
    <3> QED
      BY <1>2, <2>1, <3>1, <3>2
  <2> QED
    BY <2>2, <2>3
<1> QED
  BY <1>1, <1>3, <1>4

(* A request that is let in: the windows it is in held less than their     *)
(* limit, and whatever else is near it they held.                          *)
LEMMA AdmitKeepsLimit ==
  ASSUME RateInvariant, NEW p \in Plans, NEW now \in Nat, now <= clock, Admit(p, now),
         lag' \in Nat, lag' >= lag, lag' >= clock - now, NEW w \in DOMAIN Limit[p]
  PROVE  LimitKept(p, w)'
<1>1. PICK L \in Nat : L = w * Second
  BY WindowTicks
<1>2. /\ admitted[p] \in Seq(Nat) /\ clock \in Nat /\ lag \in Nat /\ Limit[p][w] \in Nat
      /\ hits[p][w] \subseteq DOMAIN admitted[p]
  BY WindowTicks DEF RateInvariant, RateTypeOK, SetSound
<1>3. PICK n \in Nat : n = Len(admitted[p]) + 1
  BY <1>2
<1>4. admitted'[p] = Append(admitted[p], now)
  BY DEF Admit, RateInvariant, RateTypeOK
<1>5. /\ admitted'[p] \in Seq(Nat) /\ DOMAIN admitted'[p] = DOMAIN admitted[p] \cup {n}
      /\ n \notin DOMAIN admitted[p] /\ admitted'[p][n] = now
      /\ \A j \in DOMAIN admitted[p] : admitted'[p][j] = admitted[p][j] /\ admitted[p][j] \in Nat
  <2>1. PICK s \in Seq(Nat) : s = admitted[p] /\ n = Len(s) + 1 /\ admitted'[p] = Append(s, now)
    BY <1>2, <1>3, <1>4
  <2>2. /\ Append(s, now) \in Seq(Nat) /\ DOMAIN Append(s, now) = DOMAIN s \cup {n}
        /\ n \notin DOMAIN s /\ Append(s, now)[n] = now
        /\ \A j \in DOMAIN s : Append(s, now)[j] = s[j] /\ s[j] \in Nat
    BY <2>1
  <2> QED
    BY <2>1, <2>2
<1> SUFFICES ASSUME NEW i \in DOMAIN admitted'[p]
             PROVE  Cardinality({j \in DOMAIN admitted'[p] :
                        admitted'[p][j] \in admitted'[p][i]..(admitted'[p][i] + L - lag' - 1)})
                       <= Limit[p][w]
  BY <1>1 DEF LimitKept
<1> DEFINE K == {j \in DOMAIN admitted'[p] :
                    admitted'[p][j] \in admitted'[p][i]..(admitted'[p][i] + L - lag' - 1)}
<1>6. CASE n \notin K /\ i \in DOMAIN admitted[p]
  <2> DEFINE before == {j \in DOMAIN admitted[p] :
                           admitted[p][j] \in admitted[p][i]..(admitted[p][i] + L - lag - 1)}
  <2>1. ASSUME NEW j \in K PROVE j \in before
    <3>1. j \in DOMAIN admitted[p] /\ admitted'[p][j] = admitted[p][j] /\ admitted[p][j] \in Nat
      BY <1>5, <1>6
    <3>2. admitted'[p][i] = admitted[p][i] /\ admitted[p][i] \in Nat
      BY <1>5, <1>6
    <3>3. admitted[p][j] \in admitted[p][i]..(admitted[p][i] + L - lag' - 1)
      BY <3>1, <3>2
    <3>4. PICK x \in Nat, y \in Nat : x = admitted[p][j] /\ y = admitted[p][i]
      BY <3>1, <3>2
    <3>5. x \in y..(y + L - lag' - 1)
      BY <3>3, <3>4
    <3>6. x \in y..(y + L - lag - 1)
      BY <1>2, <3>5
    <3> QED
      BY <3>1, <3>4, <3>6
  <2>2. Cardinality(before) <= Limit[p][w]
    BY <1>1, <1>6 DEF RateInvariant, LimitKept
  <2>3. before \in SUBSET DOMAIN admitted[p]
    OBVIOUS
  <2> HIDE DEF K, before
  <2>4. Cardinality(K) <= Cardinality(before) /\ Cardinality(K) \in Nat /\ Cardinality(before) \in Nat
    BY <1>2, <2>1, <2>3, NumbersAreFinite
  <2>5. Cardinality(K) <= Limit[p][w]
    BY <1>2, <2>2, <2>4
  <2> QED
    BY <2>5 DEF K
<1>7. CASE n \notin K /\ i = n
  <2>0. PICK top \in Int : top = now + L - lag' - 1
    OBVIOUS
  <2>1. ~(now <= top)
    <3>1. n \notin {j \in DOMAIN admitted'[p] :
                        admitted'[p][j] \in admitted'[p][n]..(admitted'[p][n] + L - lag' - 1)}
      BY <1>7
    <3>2. now \notin now..(now + L - lag' - 1)
      BY <1>5, <3>1
    <3>3. now \notin now..top
      BY <2>0, <3>2, Zenon
    <3>4. now \in Int /\ top \in Int
      OBVIOUS
    <3> HIDE DEF K
    <3> QED
      BY <3>3, <3>4
  <2>2. K = {}
    <3>1. ASSUME NEW j \in K PROVE FALSE
      <4>1. admitted'[p][j] \in Nat /\ admitted'[p][i] = now
        BY <1>5, <1>7
      <4>2. now <= admitted'[p][j] /\ admitted'[p][j] <= top
        BY <2>0, <4>1
      <4> HIDE DEF K
      <4> QED
        BY <2>1, <4>1, <4>2
    <3> QED
      BY <3>1
  <2>3. Cardinality(K) = 0
    BY <2>2, FS_EmptySet
  <2> QED
    BY <1>2, <2>3
<1>8. CASE n \in K
  <2>1. ASSUME NEW j \in K, j # n PROVE j \in Live(p, w, now)
    <3>1. j \in DOMAIN admitted[p] /\ admitted'[p][j] = admitted[p][j] /\ admitted[p][j] \in Nat
      BY <1>5, <2>1
    <3>2. admitted'[p][i] \in Nat /\ admitted'[p][n] = now
      BY <1>5
    <3>3. /\ admitted[p][j] >= admitted'[p][i] /\ now <= admitted'[p][i] + L - lag' - 1
      BY <1>8, <2>1, <3>1, <3>2
    <3>4. now <= admitted[p][j] + L - lag' - 1
      BY <3>1, <3>2, <3>3
    <3>5. clock < admitted[p][j] + L
      BY <1>2, <3>1, <3>4
    <3> QED
      BY <1>1, <1>2, <3>1, <3>5, LiveIsRecent, SMTT(30)
  <2>2. K \subseteq Live(p, w, now) \cup {n}
    BY <2>1
  <2>3. Cardinality(Live(p, w, now)) < Limit[p][w]
    <3>1. Live(p, w, now) \in SUBSET DOMAIN admitted[p]
      BY <1>2, LiveIsRecent
    <3>2. Cardinality(Live(p, w, now)) \in Nat
      BY <1>2, <3>1, NumbersAreFinite
    <3> QED
      BY <1>2, <3>2 DEF Admit, Exceeded
  <2>4. Live(p, w, now) \in SUBSET DOMAIN admitted[p] /\ n \notin Live(p, w, now)
    BY <1>2, <1>5, LiveIsRecent
  <2>5. /\ Cardinality(Live(p, w, now) \cup {n}) = Cardinality(Live(p, w, now)) + 1
        /\ Cardinality(Live(p, w, now)) \in Nat
    BY <1>2, <2>4, NumbersAreFinite
  <2>6. Live(p, w, now) \cup {n} \in SUBSET DOMAIN admitted'[p]
    BY <1>5, <2>4
  <2> HIDE DEF K
  <2>7. Cardinality(K) <= Cardinality(Live(p, w, now) \cup {n}) /\ Cardinality(K) \in Nat
    BY <1>5, <2>2, <2>6, NumbersAreFinite
  <2>8. Cardinality(K) <= Limit[p][w]
    BY <1>2, <2>3, <2>5, <2>7
  <2> QED
    BY <2>8 DEF K
<1> QED
  BY <1>5, <1>6, <1>7, <1>8

(* Nothing let in: the protected intervals do not grow. *)
LEMMA LimitStaysKept ==
  ASSUME RateInvariant, NEW p \in Plans, NEW w \in DOMAIN Limit[p],
         admitted'[p] = admitted[p], lag' \in Nat, lag' >= lag
  PROVE  LimitKept(p, w)'
<1>1. PICK L \in Nat : L = w * Second
  BY WindowTicks
<1>2. admitted[p] \in Seq(Nat) /\ lag \in Nat /\ Limit[p][w] \in Nat
  BY WindowTicks DEF RateInvariant, RateTypeOK
<1> SUFFICES ASSUME NEW i \in DOMAIN admitted[p]
             PROVE  Cardinality({j \in DOMAIN admitted[p] :
                        admitted[p][j] \in admitted[p][i]..(admitted[p][i] + L - lag' - 1)})
                       <= Limit[p][w]
  BY <1>1 DEF LimitKept
<1> DEFINE K == {j \in DOMAIN admitted[p] :
                    admitted[p][j] \in admitted[p][i]..(admitted[p][i] + L - lag' - 1)}
           before == {j \in DOMAIN admitted[p] :
                         admitted[p][j] \in admitted[p][i]..(admitted[p][i] + L - lag - 1)}
<1>3. K \subseteq before
  <2>1. \A j \in DOMAIN admitted[p] : admitted[p][j] \in Nat
    BY <1>2
  <2> QED
    BY <1>2, <2>1
<1>4. Cardinality(before) <= Limit[p][w]
  BY <1>1 DEF RateInvariant, LimitKept
<1>5. before \in SUBSET DOMAIN admitted[p]
  OBVIOUS
<1> HIDE DEF K, before
<1>6. Cardinality(K) <= Cardinality(before) /\ Cardinality(K) \in Nat /\ Cardinality(before) \in Nat
  BY <1>2, <1>3, <1>5, NumbersAreFinite
<1>7. Cardinality(K) <= Limit[p][w]
  BY <1>2, <1>4, <1>6
<1> QED
  BY <1>7 DEF K

(* A request is let in. *)
LEMMA AdmitPreserves ==
  ASSUME RateInvariant, NEW p \in Plans, NEW now \in Nat, now <= clock, Admit(p, now),
         UNCHANGED clock, lag' \in Nat, lag' >= lag, lag' >= clock - now,
         reading' \in [Clients -> {IDLE} \cup Readings],
         \A c \in Clients : reading'[c] # IDLE => reading'[c] \in Readings /\ reading'[c].now <= clock
  PROVE  RateInvariant'
<1>1. /\ admitted \in [Plans -> Seq(Nat)] /\ clock \in Nat /\ DOMAIN hits = Plans
      /\ DOMAIN expires = Plans
      /\ \A q \in Plans : DOMAIN hits[q] = DOMAIN Limit[q] /\ DOMAIN expires[q] = DOMAIN Limit[q]
  BY DEF RateInvariant, RateTypeOK
<1>2. /\ admitted' = [admitted EXCEPT ![p] = Append(admitted[p], now)]
      /\ hits' = [hits EXCEPT ![p] =
            [w \in DOMAIN Limit[p] |-> Live(p, w, now) \cup {Len(admitted[p]) + 1}]]
      /\ expires' = [expires EXCEPT ![p] = [w \in DOMAIN Limit[p] |-> clock + w * Second]]
  BY DEF Admit
<1>3. PICK n \in Nat : n = Len(admitted[p]) + 1
  BY <1>1
<1>4. /\ \A q \in Plans \ {p} : /\ admitted'[q] = admitted[q] /\ hits'[q] = hits[q]
                               /\ expires'[q] = expires[q]
      /\ \A w \in DOMAIN Limit[p] : /\ hits'[p][w] = Live(p, w, now) \cup {n}
                                   /\ expires'[p][w] = clock + w * Second
  BY <1>1, <1>2, <1>3
<1>5. /\ admitted'[p] \in Seq(Nat) /\ DOMAIN admitted'[p] = DOMAIN admitted[p] \cup {n}
      /\ n \notin DOMAIN admitted[p] /\ admitted'[p][n] = now
      /\ \A j \in DOMAIN admitted[p] : admitted'[p][j] = admitted[p][j] /\ admitted[p][j] \in Nat
  BY <1>1, <1>2, <1>3
<1>6. RateTypeOK'
  <2>1. admitted' \in [Plans -> Seq(Nat)]
    BY <1>1, <1>2, <1>5
  <2>2. /\ DOMAIN hits' = Plans /\ DOMAIN expires' = Plans
        /\ \A q \in Plans : DOMAIN hits'[q] = DOMAIN Limit[q] /\ DOMAIN expires'[q] = DOMAIN Limit[q]
    BY <1>1, <1>2
  <2> QED
    BY <1>1, <2>1, <2>2 DEF RateTypeOK
<1>7. ASSUME NEW w \in DOMAIN Limit[p] PROVE SetSound(p, w)'
  <2>1. PICK L \in Nat : L = w * Second /\ Limit[p][w] \in Nat
    BY WindowTicks
  <2>2. /\ Live(p, w, now) \subseteq DOMAIN admitted[p]
        /\ \A j \in DOMAIN admitted[p] \ Live(p, w, now) : clock >= admitted[p][j] + L
        /\ \A j \in DOMAIN admitted[p] : admitted[p][j] <= clock
    BY <2>1, LiveIsRecent DEF RateInvariant, SetSound
  <2>3. /\ Cardinality(Live(p, w, now) \cup {n}) = Cardinality(Live(p, w, now)) + 1
        /\ Cardinality(Live(p, w, now)) \in Nat
    BY <1>1, <1>5, <2>2, NumbersAreFinite
  <2>4. Cardinality(Live(p, w, now)) < Limit[p][w]
    BY <2>1, <2>3 DEF Admit, Exceeded
  <2>5. expires'[p][w] = clock + L
    BY <1>4, <2>1
  <2>6. ASSUME NEW j \in DOMAIN admitted'[p]
        PROVE  /\ admitted'[p][j] <= clock
               /\ IF j \in hits'[p][w] THEN expires'[p][w] >= admitted'[p][j] + L
                  ELSE clock >= admitted'[p][j] + L
    <3>1. CASE j = n
      BY <1>1, <1>4, <1>5, <2>5, <3>1
    <3>2. CASE j \in DOMAIN admitted[p]
      <4>1. admitted'[p][j] = admitted[p][j] /\ admitted[p][j] \in Nat /\ admitted[p][j] <= clock
        BY <1>5, <2>2, <3>2
      <4>2. j \in hits'[p][w] <=> j \in Live(p, w, now)
        BY <1>4, <1>5, <3>2
      <4> QED
        BY <1>1, <2>2, <2>5, <3>2, <4>1, <4>2
    <3> QED
      BY <1>5, <3>1, <3>2
  <2>7. hits'[p][w] \subseteq DOMAIN admitted'[p] /\ Cardinality(hits'[p][w]) <= Limit[p][w]
    <3>1. hits'[p][w] = Live(p, w, now) \cup {n}
      BY <1>4
    <3>2. hits'[p][w] \subseteq DOMAIN admitted'[p]
      BY <1>5, <2>2, <3>1
    <3>3. Cardinality(hits'[p][w]) = Cardinality(Live(p, w, now)) + 1
      BY <2>3, <3>1
    <3> QED
      BY <2>1, <2>3, <2>4, <3>2, <3>3
  <2>8. expires'[p][w] \in Int
    BY <1>1, <2>5
  <2> QED
    BY <2>1, <2>6, <2>7, <2>8 DEF SetSound
<1>8. \A w \in DOMAIN Limit[p] : LimitKept(p, w)'
  BY AdmitKeepsLimit
<1>9. ASSUME NEW q \in Plans \ {p}, NEW w \in DOMAIN Limit[q] PROVE SetSound(q, w)' /\ LimitKept(q, w)'
  BY <1>4, <1>9, LimitStaysKept DEF RateInvariant, SetSound
<1>10. RefusalSound'
  <2>1. CASE refusal' = NoRefusal
    BY <2>1 DEF RefusalSound
  <2>2. CASE refusal' # NoRefusal
    <3>1. refusal' = refusal /\ refusal.plan # p
      BY <2>2 DEF Admit
    <3> QED
      BY <1>4, <2>2, <3>1 DEF RateInvariant, RefusalSound
  <2> QED
    BY <2>1, <2>2
<1> QED
  BY <1>6, <1>7, <1>8, <1>9, <1>10 DEF RateInvariant

(* Waiting for this many seconds is waiting for the ticks. *)
LEMMA SecondsCoverTicks ==
  ASSUME NEW t \in Nat
  PROVE  Ceiling(t) \in Nat /\ Second * Ceiling(t) >= t
<1>1. Second \in Nat \ {0}
  BY RateLimitAssumption
<1> QED
  BY <1>1 DEF Ceiling

(* A refusal names an exceeded window and a time by which its oldest       *)
(* request has left it.                                                    *)
LEMMA RefusalOutlastsOldest ==
  ASSUME RateInvariant, NEW p \in Plans, NEW now \in Nat, now <= clock, Exceeded(p, now) # {}
  PROVE  LET w == NamedWindow(p, now)
             until == clock + Second * Max({1, Ceiling(RetryTicks(p, w, now))})
         IN  /\ w \in Exceeded(p, now) /\ until \in Int
             /\ \E o \in Live(p, w, now) : admitted[p][o] + w * Second <= until
<1>0. admitted[p] \in Seq(Nat) /\ clock \in Nat
  BY DEF RateInvariant, RateTypeOK
<1>1. ASSUME NEW w \in Exceeded(p, now)
      PROVE  /\ RetryTicks(p, w, now) \in Nat
             /\ \E o \in Live(p, w, now) :
                   admitted[p][o] + w * Second - now <= RetryTicks(p, w, now)
  <2>1. PICK L \in Nat : L = w * Second /\ Limit[p][w] \in Nat \ {0}
    BY WindowTicks DEF Exceeded
  <2>2. Cardinality(Live(p, w, now)) >= Limit[p][w] /\ w \in DOMAIN Limit[p]
    BY DEF Exceeded
  <2>3. Live(p, w, now) # {}
    BY <2>1, <2>2, FS_EmptySet
  <2>4. Live(p, w, now) \subseteq DOMAIN admitted[p]
    BY <2>2, LiveIsRecent DEF RateInvariant, SetSound
  <2> DEFINE scores == {admitted[p][j] : j \in Live(p, w, now)}
  <2>5. scores \in SUBSET Nat /\ scores # {}
    BY <1>0, <2>3, <2>4
  <2> HIDE DEF scores
  <2>6. Min(scores) \in scores
    BY <2>5, FirstOfNumbers
  <2>7. Oldest(p, Live(p, w, now)) = Min(scores)
    BY DEF Oldest, scores
  <2>8. PICK o \in Live(p, w, now) : Oldest(p, Live(p, w, now)) = admitted[p][o]
    BY <2>6, <2>7 DEF scores
  <2>9. admitted[p][o] \in Nat
    BY <1>0, <2>4
  <2>10. RetryTicks(p, w, now) = Max({1, admitted[p][o] + L - now})
    BY <2>1, <2>8 DEF RetryTicks
  <2>11. PICK wait \in Int : wait = admitted[p][o] + L - now
    BY <2>9
  <2>12. RetryTicks(p, w, now) = IF 1 >= wait THEN 1 ELSE wait
    <3>1. 1 \in Int
      OBVIOUS
    <3> QED
      BY <2>10, <2>11, <3>1, OfTwo, Zenon
  <2>13. RetryTicks(p, w, now) \in Nat /\ admitted[p][o] + L - now <= RetryTicks(p, w, now)
    BY <2>11, <2>12
  <2> QED
    BY <2>1, <2>13
<1> DEFINE ticks == {RetryTicks(p, w, now) : w \in Exceeded(p, now)}
           named == {w \in Exceeded(p, now) : RetryTicks(p, w, now) = Min(ticks)}
<1>2. ticks \in SUBSET Nat /\ ticks # {}
  BY <1>1
<1>3. Min(ticks) \in ticks
  <2> HIDE DEF ticks
  <2> QED
    BY <1>2, FirstOfNumbers
<1>4. named \in SUBSET Nat /\ named # {}
  <2>1. \A w \in Exceeded(p, now) : w \in Nat
    BY WindowTicks DEF Exceeded
  <2> QED
    BY <1>3, <2>1
<1>5. Min(named) \in named
  <2> HIDE DEF named
  <2> QED
    BY <1>4, FirstOfNumbers
<1>6. PICK w \in Exceeded(p, now) : w = NamedWindow(p, now)
  BY <1>5 DEF NamedWindow
<1>7. PICK o \in Live(p, w, now) : admitted[p][o] + w * Second - now <= RetryTicks(p, w, now)
  BY <1>1
<1>8. PICK t \in Nat : t = RetryTicks(p, w, now)
  BY <1>1
<1>9. PICK m \in Nat : m = Max({1, Ceiling(t)}) /\ m >= Ceiling(t)
  <2>1. 1 \in Int /\ Ceiling(t) \in Int /\ Ceiling(t) \in Nat
    BY SecondsCoverTicks
  <2>2. Max({1, Ceiling(t)}) = IF 1 >= Ceiling(t) THEN 1 ELSE Ceiling(t)
    BY <2>1, OfTwo, Zenon
  <2> QED
    BY <2>1, <2>2
<1>10. Second * m \in Nat /\ Second * m >= t
  <2>1. Second \in Nat \ {0} /\ Ceiling(t) \in Nat /\ Second * Ceiling(t) >= t
    BY SecondsCoverTicks, RateLimitAssumption
  <2>2. Second * m >= Second * Ceiling(t)
    BY <1>9, <2>1
  <2>3. Second * m \in Nat /\ Second * Ceiling(t) \in Nat
    BY <2>1
  <2> QED
    BY <2>1, <2>2, <2>3
<1>11. PICK L \in Nat : L = w * Second
  BY WindowTicks DEF Exceeded
<1>12. admitted[p][o] \in Nat
  BY <1>0, LiveIsRecent DEF Exceeded, RateInvariant, SetSound
<1>13. admitted[p][o] + w * Second <= clock + Second * m
  BY <1>0, <1>7, <1>8, <1>10, <1>11, <1>12
<1>14. clock + Second * m \in Int
  BY <1>0, <1>10
<1>15. clock + Second * m = clock + Second * Max({1, Ceiling(RetryTicks(p, w, now))})
  BY <1>8, <1>9, Zenon
<1> QED
  BY <1>6, <1>13, <1>14, <1>15, Zenon

(* A request that is refused. *)
LEMMA RefusePreserves ==
  ASSUME RateInvariant, NEW p \in Plans, NEW now \in Nat, now <= clock, Refuse(p, now),
         UNCHANGED clock, lag' \in Nat, lag' >= lag,
         reading' \in [Clients -> {IDLE} \cup Readings],
         \A c \in Clients : reading'[c] # IDLE => reading'[c] \in Readings /\ reading'[c].now <= clock
  PROVE  RateInvariant'
<1>1. /\ admitted \in [Plans -> Seq(Nat)] /\ clock \in Nat /\ DOMAIN hits = Plans
      /\ DOMAIN expires = Plans
      /\ \A q \in Plans : DOMAIN hits[q] = DOMAIN Limit[q] /\ DOMAIN expires[q] = DOMAIN Limit[q]
  BY DEF RateInvariant, RateTypeOK
<1>2. /\ hits' = [hits EXCEPT ![p] = [w \in DOMAIN Limit[p] |-> Live(p, w, now)]]
      /\ UNCHANGED <<expires, admitted>>
  BY DEF Refuse
<1>3. /\ \A q \in Plans \ {p} : hits'[q] = hits[q]
      /\ \A w \in DOMAIN Limit[p] : hits'[p][w] = Live(p, w, now)
  BY <1>1, <1>2
<1>4. RateTypeOK'
  BY <1>1, <1>2 DEF RateTypeOK
<1>5. \A q \in Plans : \A w \in DOMAIN Limit[q] : LimitKept(q, w)'
  BY <1>2, LimitStaysKept
<1>6. ASSUME NEW w \in DOMAIN Limit[p]
      PROVE  /\ SetSound(p, w)' /\ Live(p, w, now) \in SUBSET DOMAIN admitted[p]
             /\ Cardinality(Live(p, w, now)) \in Nat /\ Cardinality(Live(p, w, now)) <= Limit[p][w]
  <2>1. SetSound(p, w) /\ Limit[p][w] \in Nat
    BY WindowTicks DEF RateInvariant
  <2>2. /\ Live(p, w, now) \subseteq hits[p][w]
        /\ \A j \in DOMAIN admitted[p] \ Live(p, w, now) : clock >= admitted[p][j] + w * Second
    BY LiveIsRecent
  <2>3. hits[p][w] \in SUBSET DOMAIN admitted[p] /\ Cardinality(hits[p][w]) <= Limit[p][w]
    BY <2>1 DEF SetSound
  <2>4. /\ Cardinality(Live(p, w, now)) <= Cardinality(hits[p][w])
        /\ Cardinality(Live(p, w, now)) \in Nat /\ Cardinality(hits[p][w]) \in Nat
    BY <1>1, <2>2, <2>3, NumbersAreFinite
  <2>5. Cardinality(Live(p, w, now)) <= Limit[p][w]
    BY <2>1, <2>3, <2>4
  <2> QED
    BY <1>2, <1>3, <2>1, <2>2, <2>3, <2>4, <2>5 DEF SetSound
<1>7. ASSUME NEW q \in Plans \ {p}, NEW w \in DOMAIN Limit[q] PROVE SetSound(q, w)'
  BY <1>2, <1>3 DEF RateInvariant, SetSound
<1>8. RefusalSound'
  <2>1. PICK w \in Exceeded(p, now), until \in Int :
           /\ refusal' = [plan |-> p, window |-> w, until |-> until]
           /\ \E o \in Live(p, w, now) : admitted[p][o] + w * Second <= until
    BY RefusalOutlastsOldest DEF Refuse
  <2>2. PICK o \in Live(p, w, now) : admitted[p][o] + w * Second <= until
    BY <2>1
  <2>3. w \in DOMAIN Limit[p]
    BY DEF Exceeded
  <2>4. PICK L \in Nat : L = w * Second /\ Limit[p][w] \in Nat
    BY <2>3, WindowTicks
  <2> DEFINE S == Live(p, w, now)
             T == {j \in S : admitted[p][j] + L > until}
  <2>5. T \subseteq S \ {o}
    <3>1. o \in DOMAIN admitted[p]
      BY <1>6, <2>3
    <3>2. admitted[p][o] \in Nat
      BY <1>1, <3>1
    <3> QED
      BY <2>2, <2>4, <3>2
  <2>6. S \in SUBSET DOMAIN admitted[p] /\ Cardinality(S) \in Nat /\ Cardinality(S) <= Limit[p][w]
    BY <1>6, <2>3
  <2>7. S \ {o} \in SUBSET S /\ T \in SUBSET DOMAIN admitted[p] /\ S \ {o} \in SUBSET DOMAIN admitted[p]
    BY <2>5, <2>6
  <2> HIDE DEF S, T
  <2>8. o \in S
    BY DEF S
  <2>9. Cardinality(S \ {o}) = Cardinality(S) - 1
    BY <1>1, <2>6, <2>8, NumbersAreFinite
  <2>10. Cardinality(T) <= Cardinality(S \ {o}) /\ Cardinality(T) \in Nat
    BY <1>1, <2>5, <2>7, NumbersAreFinite
  <2>11. Cardinality(T) < Limit[p][w]
    BY <2>4, <2>6, <2>9, <2>10
  <2>12. /\ refusal'.plan = p /\ refusal'.window = w /\ refusal'.until = until
         /\ hits'[p][w] = S /\ admitted' = admitted
    BY <1>2, <1>3, <2>1, <2>3 DEF S
  <2> QED
    BY <2>1, <2>3, <2>4, <2>11, <2>12 DEF RefusalSound, T
<1> QED
  BY <1>4, <1>5, <1>6, <1>7, <1>8 DEF RateInvariant

LEMMA RatesInitially ==
  RateInit => RateInvariant
<1> SUFFICES ASSUME RateInit PROVE RateInvariant
  OBVIOUS
<1>1. /\ clock = 1 /\ lag = 0 /\ refusal = NoRefusal /\ reading = [c \in Clients |-> IDLE]
      /\ hits = [p \in Plans |-> [w \in DOMAIN Limit[p] |-> {}]]
      /\ expires = [p \in Plans |-> [w \in DOMAIN Limit[p] |-> 0]]
      /\ admitted = [p \in Plans |-> <<>>]
  BY DEF RateInit
<1>2. RateTypeOK
  BY <1>1 DEF RateTypeOK
<1>3. RefusalSound
  BY <1>1 DEF RefusalSound
<1>4. ASSUME NEW p \in Plans, NEW w \in DOMAIN Limit[p] PROVE SetSound(p, w) /\ LimitKept(p, w)
  <2>1. /\ hits[p][w] = {} /\ expires[p][w] = 0 /\ admitted[p] = <<>> /\ DOMAIN admitted[p] = {}
        /\ Limit[p][w] \in Nat
    BY <1>1, WindowTicks
  <2>2. Cardinality({}) = 0
    BY FS_EmptySet
  <2> QED
    BY <2>1, <2>2 DEF SetSound, LimitKept
<1> QED
  BY <1>2, <1>3, <1>4 DEF RateInvariant

LEMMA RatesPreserved ==
  RateInvariant /\ [RateNext]_rateVars => RateInvariant'
<1> SUFFICES ASSUME RateInvariant, [RateNext]_rateVars PROVE RateInvariant'
  OBVIOUS
<1>0. /\ clock \in Nat /\ lag \in Nat /\ reading \in [Clients -> {IDLE} \cup Readings]
      /\ \A c \in Clients : reading[c] # IDLE => reading[c] \in Readings /\ reading[c].now <= clock
  BY DEF RateInvariant, RateTypeOK
<1>1. ASSUME UNCHANGED <<hits, expires, admitted, refusal, lag>>, clock' \in Nat, clock' >= clock,
             reading' \in [Clients -> {IDLE} \cup Readings],
             \A c \in Clients : reading'[c] # IDLE =>
                reading'[c] \in Readings /\ reading'[c].now <= clock'
      PROVE  RateInvariant'
  <2>1. RateTypeOK' /\ RefusalSound'
    BY <1>1 DEF RateInvariant, RateTypeOK, RefusalSound
  <2>2. ASSUME NEW p \in Plans, NEW w \in DOMAIN Limit[p] PROVE SetSound(p, w)' /\ LimitKept(p, w)'
    <3>1. PICK L \in Nat : L = w * Second
      BY WindowTicks
    <3>2. SetSound(p, w) /\ LimitKept(p, w) /\ admitted[p] \in Seq(Nat)
      BY DEF RateInvariant, RateTypeOK
    <3>3. ASSUME NEW j \in DOMAIN admitted[p]
          PROVE  /\ admitted[p][j] <= clock'
                 /\ IF j \in hits[p][w] THEN expires[p][w] >= admitted[p][j] + L
                    ELSE clock' >= admitted[p][j] + L
      <4>1. admitted[p][j] \in Nat
        BY <3>2
      <4>2. /\ admitted[p][j] <= clock
            /\ IF j \in hits[p][w] THEN expires[p][w] >= admitted[p][j] + L
               ELSE clock >= admitted[p][j] + L
        BY <3>1, <3>2 DEF SetSound
      <4> QED
        BY <1>0, <1>1, <4>1, <4>2
    <3> QED
      BY <1>1, <3>1, <3>2, <3>3 DEF SetSound, LimitKept
  <2> QED
    BY <2>1, <2>2 DEF RateInvariant
<1>2. CASE Tick \/ ChangePlan \/ UNCHANGED rateVars
  <2>1. /\ UNCHANGED <<hits, expires, admitted, refusal, lag, reading>>
        /\ clock' \in Nat /\ clock' >= clock
    BY <1>0, <1>2 DEF Tick, ChangePlan, rateVars
  <2>2. \A c \in Clients : reading[c] # IDLE => reading[c] \in Readings /\ reading[c].now <= clock'
    <3>1. ASSUME NEW c \in Clients, reading[c] # IDLE
          PROVE  reading[c] \in Readings /\ reading[c].now <= clock'
      <4>1. reading[c] \in Readings /\ reading[c].now <= clock
        BY <1>0, <3>1
      <4>2. reading[c].now \in Nat
        BY <4>1 DEF Readings
      <4> QED
        BY <1>0, <2>1, <4>1, <4>2
    <3> QED
      BY <3>1
  <2> QED
    BY <1>0, <1>1, <2>1, <2>2
<1>3. ASSUME NEW c \in Clients, enforce_rate_limit(c) \/ RedisUnavailable(c) PROVE RateInvariant'
  <2>1. PICK x \in {IDLE} \cup Readings :
           /\ reading' = [reading EXCEPT ![c] = x]
           /\ x # IDLE => x \in Readings /\ x.now = clock
    <3>1. CASE enforce_rate_limit(c)
      <4>1. reading' = [reading EXCEPT ![c] = [plan |-> plan, now |-> clock]] /\ plan \in Plans
        BY <3>1 DEF enforce_rate_limit
      <4>2. [plan |-> plan, now |-> clock] \in Readings
        BY <1>0, <4>1 DEF Readings
      <4> DEFINE x == [plan |-> plan, now |-> clock]
      <4>3. x \in Readings /\ x.now = clock /\ reading' = [reading EXCEPT ![c] = x]
        BY <4>1, <4>2
      <4> HIDE DEF x
      <4> QED
        BY <4>3
    <3>2. CASE RedisUnavailable(c)
      BY <3>2 DEF RedisUnavailable
    <3> QED
      BY <1>3, <3>1, <3>2
  <2>2. UNCHANGED <<clock, hits, expires, admitted, refusal, lag>>
    BY <1>3 DEF enforce_rate_limit, RedisUnavailable
  <2>3. /\ reading' \in [Clients -> {IDLE} \cup Readings]
        /\ \A d \in Clients : reading'[d] # IDLE => reading'[d] \in Readings /\ reading'[d].now <= clock'
    BY <1>0, <2>1, <2>2
  <2> QED
    BY <1>0, <1>1, <2>2, <2>3
<1>4. ASSUME NEW c \in Clients, _check_sliding_windows(c) PROVE RateInvariant'
  <2>1. PICK r \in Readings : r = reading[c] /\ r.now <= clock
    BY <1>0, <1>4 DEF _check_sliding_windows
  <2>2. r.plan \in Plans /\ r.now \in Nat
    BY DEF Readings
  <2>3. /\ Admit(r.plan, r.now) \/ Refuse(r.plan, r.now)
        /\ lag' = Max({lag, clock - r.now}) /\ reading' = [reading EXCEPT ![c] = IDLE]
        /\ UNCHANGED clock
    BY <1>4, <2>1 DEF _check_sliding_windows
  <2>4. lag' \in Nat /\ lag' >= lag /\ lag' >= clock - r.now
    <3>1. lag \in Int /\ clock - r.now \in Int
      BY <1>0, <2>2
    <3>2. lag' = IF lag >= clock - r.now THEN lag ELSE clock - r.now
      BY <2>3, <3>1, OfTwo, Zenon
    <3> QED
      BY <1>0, <3>1, <3>2
  <2>5. /\ reading' \in [Clients -> {IDLE} \cup Readings]
        /\ \A d \in Clients : reading'[d] # IDLE => reading'[d] \in Readings /\ reading'[d].now <= clock
    BY <1>0, <2>3
  <2> QED
    BY <2>1, <2>2, <2>3, <2>4, <2>5, AdmitPreserves, RefusePreserves
<1> QED
  BY <1>2, <1>3, <1>4 DEF RateNext

(* What the invariant says of the runs' property. *)
LEMMA RatesOfInvariant ==
  RateInvariant => LimitPerWindow /\ RetryAfterIsHonest
<1> SUFFICES ASSUME RateInvariant PROVE LimitPerWindow /\ RetryAfterIsHonest
  OBVIOUS
<1>1. LimitPerWindow
  BY DEF RateInvariant, LimitKept, LimitPerWindow
<1>2. ASSUME refusal # NoRefusal, clock >= refusal.until
      PROVE  refusal.window \notin Exceeded(refusal.plan, clock)
  <2>0. PICK p \in Plans : p = refusal.plan
    BY <1>2 DEF RateInvariant, RefusalSound
  <2>9. PICK w \in DOMAIN Limit[p] : w = refusal.window
    BY <1>2, <2>0 DEF RateInvariant, RefusalSound
  <2>10. PICK until \in Int : until = refusal.until
    BY <1>2 DEF RateInvariant, RefusalSound
  <2>1. p = refusal.plan /\ w = refusal.window /\ until = refusal.until
    BY <2>0, <2>9, <2>10
  <2>2. PICK L \in Nat : L = w * Second /\ Limit[p][w] \in Nat
    BY WindowTicks
  <2> DEFINE T == {j \in hits[p][w] : admitted[p][j] + L > until}
  <2>3. Cardinality(T) < Limit[p][w]
    BY <1>2, <2>1, <2>2 DEF RateInvariant, RefusalSound
  <2>4. admitted[p] \in Seq(Nat) /\ clock \in Nat /\ hits[p][w] \subseteq DOMAIN admitted[p]
    BY DEF RateInvariant, RateTypeOK, SetSound
  <2>5. Live(p, w, clock) \subseteq T
    <3>1. ASSUME NEW j \in Live(p, w, clock) PROVE j \in T
      <4>1. j \in hits[p][w] /\ admitted[p][j] > clock - L
        BY <2>2 DEF Live
      <4>2. admitted[p][j] \in Nat
        BY <2>4, <4>1
      <4> QED
        BY <1>2, <2>1, <2>4, <4>1, <4>2
    <3> QED
      BY <3>1
  <2>6. T \in SUBSET DOMAIN admitted[p]
    BY <2>4
  <2> HIDE DEF T
  <2>7. /\ Cardinality(Live(p, w, clock)) <= Cardinality(T)
        /\ Cardinality(Live(p, w, clock)) \in Nat /\ Cardinality(T) \in Nat
    BY <2>4, <2>5, <2>6, NumbersAreFinite
  <2>8. ~(Cardinality(Live(p, w, clock)) >= Limit[p][w])
    BY <2>2, <2>3, <2>7
  <2> QED
    BY <2>1, <2>8 DEF Exceeded
<1> QED
  BY <1>1, <1>2 DEF RetryAfterIsHonest

-----------------------------------------------------------------------------
(***************************************************************************)
(* Key use.  What makes the scores inductive: what a request has read, or  *)
(* will write, is already covered by the user's score and the evidence;    *)
(* and while no two requests with a key overlap, it is what the key has.   *)
(***************************************************************************)
KeyRows == [place : Places \cup {Unknown}, score : Nat, revoked : BOOLEAN]
ReadUses == [step : {"read"}, key : ApiKeys, place : Places \cup {Unknown}, row : KeyRows]
WrittenUses ==
    [step : {"written"}, key : ApiKeys, place : Places \cup {Unknown}, anomaly : BOOLEAN, score : Nat]

UseTypeOK ==
    /\ key \in [ApiKeys -> KeyRows] /\ evidence \in [ApiKeys -> Nat]
    /\ user_score \in 0..MAX_RISK_SCORE
    /\ use \in [Requests -> {NoUse} \cup ReadUses \cup WrittenUses]
    /\ raced \in BOOLEAN

UsesCovered ==
    \A r \in Requests :
        /\ use[r] \in ReadUses =>
             /\ use[r].row.score <= user_score
             /\ use[r].row.score <= GEO_RISK_DELTA * evidence[use[r].key]
             /\ ~raced => use[r].row.score = key[use[r].key].score
        /\ use[r] \in WrittenUses =>
             /\ use[r].score <= MAX_RISK_SCORE
             /\ use[r].score <= GEO_RISK_DELTA * (evidence[use[r].key] + 1)
             /\ ~raced => use[r].score = next_risk_score(key[use[r].key].score)

OneUsePerKey ==
    ~raced => \A q, r \in Requests :
        q # r /\ use[q] # NoUse /\ use[r] # NoUse => use[q].key # use[r].key

UseInvariant == UseTypeOK /\ UsesCovered /\ OneUsePerKey /\ ScoreHasEvidence

(* The next score of a key. *)
LEMMA NextScore ==
  ASSUME NEW score \in Nat
  PROVE  /\ next_risk_score(score) = IF 100 <= score + 35 THEN 100 ELSE score + 35
         /\ next_risk_score(score) \in Nat
<1>1. 100 \in Int /\ score + 35 \in Int
  OBVIOUS
<1>2. next_risk_score(score) = IF 100 <= score + 35 THEN 100 ELSE score + 35
  BY <1>1, OfTwo, Zenon DEF next_risk_score, MAX_RISK_SCORE, GEO_RISK_DELTA
<1> QED
  BY <1>2

(* What tells the steps of a request apart. *)
LEMMA UseSteps ==
  ASSUME UseTypeOK, NEW r \in Requests
  PROVE  /\ use[r] \in ReadUses => use[r].step = "read" /\ use[r] # NoUse /\ use[r] \notin WrittenUses
         /\ use[r] \in WrittenUses => use[r].step = "written" /\ use[r] # NoUse
         /\ use[r].step = "read" => use[r] \in ReadUses
         /\ use[r].step = "written" => use[r] \in WrittenUses
         /\ use[r] # NoUse => use[r] \in ReadUses \/ use[r] \in WrittenUses
<1>1. /\ \A x \in ReadUses : x.step = "read"
      /\ \A x \in WrittenUses : x.step = "written"
      /\ NoUse.step = "idle"
  BY DEF ReadUses, WrittenUses, NoUse
<1>2. use[r] \in {NoUse} \cup ReadUses \cup WrittenUses
  BY DEF UseTypeOK
<1> QED
  BY <1>1, <1>2

LEMMA UsesInitially ==
  UseInit => UseInvariant
<1> SUFFICES ASSUME UseInit PROVE UseInvariant
  OBVIOUS
<1>1. /\ key = [k \in ApiKeys |-> [place |-> Unknown, score |-> 0, revoked |-> FALSE]]
      /\ user_score = 0 /\ evidence = [k \in ApiKeys |-> 0]
      /\ use = [r \in Requests |-> NoUse] /\ raced = FALSE
  BY DEF UseInit
<1>2. UseTypeOK
  <2>1. [place |-> Unknown, score |-> 0, revoked |-> FALSE] \in KeyRows
    BY DEF KeyRows
  <2>2. key \in [ApiKeys -> KeyRows]
    BY <1>1, <2>1
  <2>3. use \in [Requests -> {NoUse} \cup ReadUses \cup WrittenUses]
    BY <1>1
  <2>4. user_score \in 0..MAX_RISK_SCORE
    BY <1>1 DEF MAX_RISK_SCORE
  <2>6. raced \in BOOLEAN
    BY <1>1
  <2>5. evidence \in [ApiKeys -> Nat]
    BY <1>1
  <2> QED
    BY <2>2, <2>3, <2>4, <2>5, <2>6 DEF UseTypeOK
<1>3. UsesCovered /\ OneUsePerKey
  BY <1>1, <1>2, UseSteps DEF UsesCovered, OneUsePerKey
<1>4. ScoreHasEvidence
  BY <1>1 DEF ScoreHasEvidence, MAX_RISK_SCORE, GEO_RISK_DELTA
<1> QED
  BY <1>2, <1>3, <1>4 DEF UseInvariant

(* A request begins: what it reads is what the key has. *)
LEMMA ReadPreserves ==
  ASSUME UseInvariant, NEW r \in Requests, NEW k \in ApiKeys, NEW place \in Places \cup {Unknown},
         verify_api_key(r, k, place)
  PROVE  UseInvariant'
<1> DEFINE x == [step |-> "read", key |-> k, place |-> place, row |-> key[k]]
<1>1. /\ use[r] = NoUse /\ use' = [use EXCEPT ![r] = x] /\ UNCHANGED <<key, user_score, evidence>>
      /\ raced' = (raced \/ \E q \in Requests : use[q] # NoUse /\ use[q].key = k)
  BY DEF verify_api_key
<1>2. x \in ReadUses /\ x.key = k /\ x.row = key[k]
  BY DEF UseInvariant, UseTypeOK, ReadUses
<1> HIDE DEF x
<1>3. use'[r] = x /\ \A q \in Requests \ {r} : use'[q] = use[q]
  BY <1>1 DEF UseInvariant, UseTypeOK
<1>4. UseTypeOK'
  BY <1>1, <1>2 DEF UseInvariant, UseTypeOK
<1>5. UsesCovered'
  <2>1. ASSUME NEW q \in Requests \ {r} PROVE UsesCovered!(q)'
    BY <1>1, <1>3 DEF UseInvariant, UsesCovered
  <2>2. UsesCovered!(r)'
    <3>1. /\ x.row.score <= user_score /\ x.row.score <= GEO_RISK_DELTA * evidence[k]
          /\ x.row.score = key[k].score
      BY <1>2 DEF UseInvariant, ScoreHasEvidence
    <3> QED
      BY <1>1, <1>2, <1>3, <1>4, <3>1, UseSteps DEF UseTypeOK, ReadUses, WrittenUses
  <2> QED
    BY <2>1, <2>2 DEF UsesCovered
<1>6. OneUsePerKey'
  <2>1. ASSUME ~raced', NEW p \in Requests, NEW q \in Requests, p # q,
               use'[p] # NoUse, use'[q] # NoUse
        PROVE  use'[p].key # use'[q].key
    <3>1. ~raced /\ \A o \in Requests : use[o] # NoUse => use[o].key # k
      BY <1>1, <2>1
    <3>2. CASE p # r /\ q # r
      BY <1>3, <2>1, <3>1, <3>2 DEF UseInvariant, OneUsePerKey
    <3>3. CASE p = r
      BY <1>2, <1>3, <2>1, <3>1, <3>3
    <3>4. CASE q = r
      BY <1>2, <1>3, <2>1, <3>1, <3>4
    <3> QED
      BY <3>2, <3>3, <3>4
  <2> QED
    BY <2>1 DEF OneUsePerKey
<1>7. ScoreHasEvidence'
  BY <1>1 DEF UseInvariant, ScoreHasEvidence
<1> QED
  BY <1>4, <1>5, <1>6, <1>7 DEF UseInvariant

(* A request writes, in its transaction: one anomaly above what it read. *)
LEMMA WritePreserves ==
  ASSUME UseInvariant, NEW r \in Requests, _record_api_key_use(r)
  PROVE  UseInvariant'
<1>1. use[r] \in ReadUses
  BY UseSteps DEF _record_api_key_use, UseInvariant
<1>2. PICK u \in ReadUses : u = use[r]
  BY <1>1
<1>3. u.key \in ApiKeys /\ u.place \in Places \cup {Unknown} /\ u.row.score \in Nat
  BY DEF ReadUses, KeyRows
<1> DEFINE x == [step |-> "written", key |-> u.key, place |-> u.place,
                 anomaly |-> is_geo_anomaly(u.row.place, u.place),
                 score |-> next_risk_score(u.row.score)]
<1>4. use' = [use EXCEPT ![r] = x] /\ UNCHANGED <<key, user_score, evidence, raced>>
  BY <1>2 DEF _record_api_key_use
<1>5. is_geo_anomaly(u.row.place, u.place) \in BOOLEAN
  BY DEF is_geo_anomaly
<1>6. x \in WrittenUses /\ x.key = u.key /\ x.score = next_risk_score(u.row.score) /\ x.step = "written"
  BY <1>3, <1>5, NextScore DEF WrittenUses
<1> HIDE DEF x
<1>7. use'[r] = x /\ \A q \in Requests \ {r} : use'[q] = use[q]
  BY <1>4 DEF UseInvariant, UseTypeOK
<1>8. UseTypeOK'
  BY <1>4, <1>6 DEF UseInvariant, UseTypeOK
<1>9. UsesCovered'
  <2>1. ASSUME NEW q \in Requests \ {r} PROVE UsesCovered!(q)'
    BY <1>4, <1>7 DEF UseInvariant, UsesCovered
  <2>2. UsesCovered!(r)'
    <3>1. /\ u.row.score <= GEO_RISK_DELTA * evidence[u.key]
          /\ ~raced => u.row.score = key[u.key].score
      BY <1>1, <1>2 DEF UseInvariant, UsesCovered
    <3>2. evidence[u.key] \in Nat
      BY <1>3 DEF UseInvariant, UseTypeOK
    <3>3. x.score <= MAX_RISK_SCORE /\ x.score <= GEO_RISK_DELTA * (evidence[u.key] + 1)
      BY <1>3, <1>6, <3>1, <3>2, NextScore DEF MAX_RISK_SCORE, GEO_RISK_DELTA
    <3>4. ~raced => x.score = next_risk_score(key[u.key].score)
      BY <1>6, <3>1
    <3>5. x \notin ReadUses
      BY <1>6 DEF ReadUses
    <3> QED
      BY <1>4, <1>6, <1>7, <3>3, <3>4, <3>5 DEF next_risk_score
  <2> QED
    BY <2>1, <2>2 DEF UsesCovered
<1>10. OneUsePerKey'
  <2>1. use[r] # NoUse /\ x.key = use[r].key
    BY <1>1, <1>2, <1>6, UseSteps DEF UseInvariant
  <2> QED
    BY <1>4, <1>7, <2>1 DEF UseInvariant, OneUsePerKey
<1>11. ScoreHasEvidence'
  BY <1>4 DEF UseInvariant, ScoreHasEvidence
<1> QED
  BY <1>8, <1>9, <1>10, <1>11 DEF UseInvariant

(* What a commit makes of the key, the user and the evidence. *)
LEMMA CommitEffect ==
  ASSUME UseInvariant, NEW r \in Requests, CommitUse(r)
  PROVE  /\ use[r] \in WrittenUses /\ use[r].key \in ApiKeys
         /\ key' \in [ApiKeys -> KeyRows] /\ evidence' \in [ApiKeys -> Nat]
         /\ user_score' \in 0..MAX_RISK_SCORE /\ user_score' >= user_score
         /\ \A k \in ApiKeys \ {use[r].key} : key'[k] = key[k] /\ evidence'[k] = evidence[k]
         /\ IF use[r].anomaly
            THEN /\ key'[use[r].key].score = use[r].score /\ user_score' >= use[r].score
                 /\ evidence'[use[r].key] = evidence[use[r].key] + 1
            ELSE key'[use[r].key].score = key[use[r].key].score /\ UNCHANGED <<user_score, evidence>>
<1>1. use[r] \in WrittenUses
  BY UseSteps DEF CommitUse, UseInvariant
<1>2. PICK u \in WrittenUses : u = use[r]
  BY <1>1
<1>3. /\ u.key \in ApiKeys /\ u.place \in Places \cup {Unknown} /\ u.score \in Nat
      /\ u.anomaly \in BOOLEAN /\ u.score <= 100
  BY <1>2 DEF WrittenUses, UseInvariant, UsesCovered, MAX_RISK_SCORE
<1>4. /\ key' = [key EXCEPT ![u.key].place = IF u.place = Unknown THEN @ ELSE u.place,
                           ![u.key].score = IF u.anomaly THEN u.score ELSE @]
      /\ user_score' = IF u.anomaly THEN UserScore(u.score) ELSE user_score
      /\ evidence' = IF u.anomaly THEN [evidence EXCEPT ![u.key] = @ + 1] ELSE evidence
  BY <1>2 DEF CommitUse
<1>5. key \in [ApiKeys -> KeyRows] /\ evidence \in [ApiKeys -> Nat] /\ user_score \in 0..100
  BY DEF UseInvariant, UseTypeOK, MAX_RISK_SCORE
<1> DEFINE row == [place |-> IF u.place = Unknown THEN key[u.key].place ELSE u.place,
                   score |-> IF u.anomaly THEN u.score ELSE key[u.key].score,
                   revoked |-> key[u.key].revoked]
<1>6. key' = [key EXCEPT ![u.key] = row]
  <2>1. PICK pl, sc, rv : key[u.key] = [place |-> pl, score |-> sc, revoked |-> rv]
    BY <1>3, <1>5 DEF KeyRows
  <2> DEFINE np == IF u.place = Unknown THEN pl ELSE u.place
             ns == IF u.anomaly THEN u.score ELSE sc
             moved == [key EXCEPT ![u.key].place = np]
  <2>2. moved[u.key] = [place |-> np, score |-> sc, revoked |-> rv]
    BY <1>3, <1>5, <2>1
  <2>3. key' = [moved EXCEPT ![u.key].score = ns]
    <3>1. key[u.key].place = pl /\ moved[u.key].score = sc
      BY <2>1, <2>2
    <3>2. key' = [[key EXCEPT ![u.key].place = IF u.place = Unknown THEN key[u.key].place ELSE u.place]
                    EXCEPT ![u.key].score = IF u.anomaly THEN u.score ELSE @]
      BY <1>4
    <3> QED
      BY <3>1, <3>2
  <2>4. [moved[u.key] EXCEPT !.score = ns] = row
    BY <2>1, <2>2
  <2>5. key' = [moved EXCEPT ![u.key] = row]
    BY <2>3, <2>4
  <2> QED
    BY <1>3, <1>5, <2>5
<1>7. row \in KeyRows /\ row.score = IF u.anomaly THEN u.score ELSE key[u.key].score
  BY <1>3, <1>5 DEF KeyRows
<1> HIDE DEF row
<1>8. /\ key' \in [ApiKeys -> KeyRows] /\ key'[u.key] = row
      /\ \A k \in ApiKeys \ {u.key} : key'[k] = key[k]
  BY <1>3, <1>5, <1>6, <1>7
<1>9. UserScore(u.score) = IF user_score >= u.score THEN user_score ELSE u.score
  <2>1. user_score \in Int /\ u.score \in Int
    BY <1>3, <1>5
  <2> QED
    BY <2>1, OfTwo, Zenon DEF UserScore
<1>10. /\ user_score' \in 0..100 /\ user_score' >= user_score
       /\ u.anomaly => user_score' >= u.score
  BY <1>3, <1>4, <1>5, <1>9
<1>11. /\ evidence' \in [ApiKeys -> Nat]
       /\ \A k \in ApiKeys \ {u.key} : evidence'[k] = evidence[k]
       /\ u.anomaly => evidence'[u.key] = evidence[u.key] + 1
  BY <1>3, <1>4, <1>5
<1> QED
  BY <1>2, <1>3, <1>4, <1>7, <1>8, <1>10, <1>11 DEF MAX_RISK_SCORE

(* A request commits. *)
LEMMA CommitUsePreserves ==
  ASSUME UseInvariant, NEW r \in Requests, CommitUse(r)
  PROVE  UseInvariant'
<1>1. PICK u \in WrittenUses : u = use[r] /\ u.key \in ApiKeys
  BY CommitEffect
<1>2. /\ key' \in [ApiKeys -> KeyRows] /\ evidence' \in [ApiKeys -> Nat]
      /\ user_score' \in 0..100 /\ user_score' >= user_score
      /\ \A k \in ApiKeys \ {u.key} : key'[k] = key[k] /\ evidence'[k] = evidence[k]
      /\ IF u.anomaly
         THEN /\ key'[u.key].score = u.score /\ user_score' >= u.score
              /\ evidence'[u.key] = evidence[u.key] + 1
         ELSE key'[u.key].score = key[u.key].score /\ UNCHANGED <<user_score, evidence>>
  BY <1>1, CommitEffect DEF MAX_RISK_SCORE
<1>3. use' = [use EXCEPT ![r] = NoUse] /\ UNCHANGED raced
  BY DEF CommitUse
<1>4. key \in [ApiKeys -> KeyRows] /\ evidence \in [ApiKeys -> Nat] /\ user_score \in 0..100
  BY DEF UseInvariant, UseTypeOK, MAX_RISK_SCORE
<1>5. use'[r] = NoUse /\ \A q \in Requests \ {r} : use'[q] = use[q]
  BY <1>3 DEF UseInvariant, UseTypeOK
<1>6. UseTypeOK'
  BY <1>2, <1>3 DEF UseInvariant, UseTypeOK, MAX_RISK_SCORE
<1>7. NoUse \notin ReadUses /\ NoUse \notin WrittenUses
  BY DEF NoUse, ReadUses, WrittenUses
<1>8. /\ u.score \in Nat /\ u.score <= 35 * (evidence[u.key] + 1)
      /\ ~raced => u.score = next_risk_score(key[u.key].score)
  BY <1>1 DEF WrittenUses, UseInvariant, UsesCovered, GEO_RISK_DELTA
<1>9. \A k \in ApiKeys : evidence'[k] >= evidence[k] /\ evidence'[k] \in Nat /\ evidence[k] \in Nat
  BY <1>2, <1>4
<1>10. UsesCovered'
  <2>1. ASSUME NEW q \in Requests \ {r} PROVE UsesCovered!(q)'
    <3>1. ~raced /\ use[q] # NoUse => use[q].key # u.key
      BY <1>1, <1>7, <2>1 DEF UseInvariant, OneUsePerKey
    <3>2. CASE use[q] \in ReadUses
      <4>1. PICK y \in ReadUses : y = use[q] /\ y = use'[q]
        BY <1>5, <3>2
      <4>2. y.key \in ApiKeys /\ y.row.score \in Nat
        BY DEF ReadUses, KeyRows
      <4>3. /\ y.row.score <= user_score /\ y.row.score <= 35 * evidence[y.key]
            /\ ~raced => y.row.score = key[y.key].score
        BY <3>2, <4>1 DEF UseInvariant, UsesCovered, GEO_RISK_DELTA
      <4>4. y.row.score <= user_score'
        BY <1>2, <1>4, <4>2, <4>3
      <4>5. y.row.score <= 35 * evidence'[y.key]
        BY <1>9, <4>2, <4>3
      <4>6. ~raced' => y.row.score = key'[y.key].score
        BY <1>2, <1>3, <1>7, <3>1, <4>1, <4>2, <4>3
      <4>7. y \notin WrittenUses
        BY DEF ReadUses, WrittenUses
      <4> QED
        BY <4>1, <4>4, <4>5, <4>6, <4>7 DEF GEO_RISK_DELTA
    <3>3. CASE use[q] \in WrittenUses
      <4>1. PICK y \in WrittenUses : y = use[q] /\ y = use'[q]
        BY <1>5, <3>3
      <4>2. y.key \in ApiKeys /\ y.score \in Nat
        BY DEF WrittenUses
      <4>3. /\ y.score <= MAX_RISK_SCORE /\ y.score <= 35 * (evidence[y.key] + 1)
            /\ ~raced => y.score = next_risk_score(key[y.key].score)
        BY <3>3, <4>1 DEF UseInvariant, UsesCovered, GEO_RISK_DELTA
      <4>4. y.score <= 35 * (evidence'[y.key] + 1)
        BY <1>9, <4>2, <4>3
      <4>5. ~raced' => y.score = next_risk_score(key'[y.key].score)
        BY <1>2, <1>3, <1>7, <3>1, <4>1, <4>2, <4>3
      <4>6. y \notin ReadUses
        BY DEF ReadUses, WrittenUses
      <4> QED
        BY <4>1, <4>3, <4>4, <4>5, <4>6 DEF GEO_RISK_DELTA, next_risk_score
    <3>4. CASE use[q] = NoUse
      BY <1>5, <1>7, <3>4
    <3> QED
      BY <3>2, <3>3, <3>4 DEF UseInvariant, UseTypeOK
  <2> QED
    BY <1>5, <1>7, <2>1 DEF UsesCovered
<1>11. OneUsePerKey'
  BY <1>3, <1>5 DEF UseInvariant, OneUsePerKey
<1>12. ScoreHasEvidence'
  <2>1. ASSUME NEW k \in ApiKeys
        PROVE  /\ key'[k].score <= user_score' /\ key'[k].score <= 35 * evidence'[k]
               /\ ~raced /\ key'[k].score < 100 => key'[k].score = 35 * evidence'[k]
    <3>1. /\ key[k].score <= user_score /\ key[k].score <= 35 * evidence[k]
          /\ ~raced /\ key[k].score < 100 => key[k].score = 35 * evidence[k]
          /\ key[k].score \in Nat
      BY <1>4 DEF UseInvariant, ScoreHasEvidence, KeyRows, MAX_RISK_SCORE, GEO_RISK_DELTA
    <3>2. CASE k # u.key
      BY <1>2, <1>4, <3>1, <3>2
    <3>3. CASE k = u.key /\ ~u.anomaly
      BY <1>2, <3>1, <3>3
    <3>4. CASE k = u.key /\ u.anomaly
      <4>1. /\ key'[k].score = u.score /\ user_score' >= u.score
            /\ evidence'[k] = evidence[k] + 1
        BY <1>2, <3>4
      <4>2. ~raced => u.score = IF 100 <= key[k].score + 35 THEN 100 ELSE key[k].score + 35
        BY <1>8, <3>1, <3>4, NextScore
      <4> QED
        BY <1>2, <1>8, <1>9, <3>1, <3>4, <4>1, <4>2
    <3> QED
      BY <3>2, <3>3, <3>4
  <2> QED
    BY <1>2, <1>3, <2>1 DEF ScoreHasEvidence, MAX_RISK_SCORE, GEO_RISK_DELTA
<1> QED
  BY <1>6, <1>10, <1>11, <1>12 DEF UseInvariant

LEMMA UsesPreserved ==
  UseInvariant /\ [UseNext]_useVars => UseInvariant'
<1> SUFFICES ASSUME UseInvariant, [UseNext]_useVars PROVE UseInvariant'
  OBVIOUS
<1>1. ASSUME NEW r \in Requests, RollbackUse(r) PROVE UseInvariant'
  <2>1. use' = [use EXCEPT ![r] = NoUse] /\ UNCHANGED <<key, user_score, evidence, raced>>
    BY <1>1 DEF RollbackUse
  <2>2. use'[r] = NoUse /\ \A q \in Requests \ {r} : use'[q] = use[q]
    BY <2>1 DEF UseInvariant, UseTypeOK
  <2>3. UseTypeOK'
    BY <2>1 DEF UseInvariant, UseTypeOK
  <2>4. UsesCovered'
    <3>1. NoUse \notin ReadUses /\ NoUse \notin WrittenUses
      BY DEF NoUse, ReadUses, WrittenUses
    <3>2. ASSUME NEW q \in Requests \ {r} PROVE UsesCovered!(q)'
      BY <2>1, <2>2 DEF UseInvariant, UsesCovered
    <3> QED
      BY <2>2, <3>1, <3>2 DEF UsesCovered
  <2>5. OneUsePerKey' /\ ScoreHasEvidence'
    BY <2>1, <2>2 DEF UseInvariant, OneUsePerKey, ScoreHasEvidence
  <2> QED
    BY <2>3, <2>4, <2>5 DEF UseInvariant
<1>2. ASSUME NEW k \in ApiKeys, RevokeKey(k) PROVE UseInvariant'
  <2>1. key' = [key EXCEPT ![k].revoked = TRUE] /\ UNCHANGED <<user_score, evidence, use, raced>>
    BY <1>2 DEF RevokeKey
  <2>2. key' \in [ApiKeys -> KeyRows] /\ \A j \in ApiKeys : key'[j].score = key[j].score
    BY <2>1 DEF UseInvariant, UseTypeOK, KeyRows
  <2>3. UseTypeOK'
    BY <2>1, <2>2 DEF UseInvariant, UseTypeOK
  <2>4. UsesCovered'
    <3>1. ASSUME NEW q \in Requests PROVE UsesCovered!(q)'
      <4>1. use[q] \in ReadUses \cup WrittenUses => use[q].key \in ApiKeys
        BY DEF ReadUses, WrittenUses
      <4> QED
        BY <2>1, <2>2, <4>1 DEF UseInvariant, UsesCovered
    <3> QED
      BY <3>1 DEF UsesCovered
  <2>5. OneUsePerKey' /\ ScoreHasEvidence'
    BY <2>1, <2>2 DEF UseInvariant, OneUsePerKey, ScoreHasEvidence
  <2> QED
    BY <2>3, <2>4, <2>5 DEF UseInvariant
<1>3. CASE UNCHANGED useVars
  BY <1>3 DEF useVars, UseInvariant, UseTypeOK, UsesCovered, OneUsePerKey, ScoreHasEvidence
<1> QED
  BY <1>1, <1>2, <1>3, ReadPreserves, WritePreserves, CommitUsePreserves DEF UseNext

(* A step of the key-use part never lowers the user's score. *)
LEMMA UserScoreKept ==
  UseInvariant /\ [UseNext]_useVars => user_score' >= user_score
<1> SUFFICES ASSUME UseInvariant, [UseNext]_useVars PROVE user_score' >= user_score
  OBVIOUS
<1>1. user_score \in Nat
  BY DEF UseInvariant, UseTypeOK, MAX_RISK_SCORE
<1>2. CASE UNCHANGED user_score
  BY <1>1, <1>2
<1>3. ASSUME NEW r \in Requests, CommitUse(r) PROVE user_score' >= user_score
  BY <1>3, CommitEffect
<1> QED
  BY <1>2, <1>3 DEF UseNext, useVars, verify_api_key, _record_api_key_use, RollbackUse, RevokeKey

(* However requests of a user overlap, change plan or are answered late,   *)
(* no interval the length of a window, less the longest delay, holds more  *)
(* of them than the window allows, a refused one that waits as it was told *)
(* finds room, and no key's risk score is above the user's or the evidence *)
(* that was recorded: for any number of clients, plans, windows, limits,   *)
(* keys and places (the rate limiter's script and verify_api_key).         *)
THEOREM AdmissionAlwaysJustified ==
  MCSpec => []AdmissionIsJustified
<1>1. MCInit => RateInvariant /\ UseInvariant
  BY RatesInitially, UsesInitially DEF MCInit, Init
<1>2. RateInvariant /\ [MCNext]_<<admission, execution, records, story>> => RateInvariant'
  <2>1. [MCNext]_<<admission, execution, records, story>> => [RateNext]_rateVars
    BY DEF MCNext, LimitPart, KeyUsePart, RoutePart, LpPart, JobPart, BatchPart, TemplatePart,
           MigrationPart, CitationPart, ExitPart, admission, execution, records
  <2> QED
    BY <2>1, RatesPreserved
<1>3. UseInvariant /\ [MCNext]_<<admission, execution, records, story>> => UseInvariant'
  <2>1. [MCNext]_<<admission, execution, records, story>> => [UseNext]_useVars
    BY DEF MCNext, LimitPart, KeyUsePart, RoutePart, LpPart, JobPart, BatchPart, TemplatePart,
           MigrationPart, CitationPart, ExitPart, admission, execution, records
  <2> QED
    BY <2>1, UsesPreserved
<1>4. RateInvariant /\ UseInvariant => AdmissionIsJustified
  BY RatesOfInvariant DEF UseInvariant, AdmissionIsJustified
<1> QED
  BY <1>1, <1>2, <1>3, <1>4, PTL DEF MCSpec

(* The user's risk score never falls, although requests write scores they  *)
(* computed from old readings and may be rolled back: for any number of    *)
(* requests, keys and places (the update of _record_api_key_use).          *)
THEOREM RiskScoreNeverFalls ==
  MCSpec => UserScoreNeverFalls
<1>1. MCInit => UseInvariant
  BY UsesInitially DEF MCInit, Init
<1>2. [MCNext]_<<admission, execution, records, story>> => [UseNext]_useVars
  BY DEF MCNext, LimitPart, KeyUsePart, RoutePart, LpPart, JobPart, BatchPart, TemplatePart,
         MigrationPart, CitationPart, ExitPart, admission, execution, records
<1>3. UseInvariant /\ [MCNext]_<<admission, execution, records, story>> => UseInvariant'
  BY <1>2, UsesPreserved
<1>4. UseInvariant /\ [MCNext]_<<admission, execution, records, story>> =>
         [user_score' >= user_score]_useVars
  BY <1>2, UserScoreKept
<1> QED
  BY <1>1, <1>3, <1>4, PTL DEF MCSpec, UserScoreNeverFalls

-----------------------------------------------------------------------------
(***************************************************************************)
(* Execution.  What makes its properties inductive: the plan names public  *)
(* algorithms only, what was tried is the plan's beginning, and whether    *)
(* the request is exhausted can be read off the last attempt.              *)
(***************************************************************************)
CatalogNames == {Catalog[i].k : i \in DOMAIN Catalog}
SolverNames == Solvers \cup {Head(Catalog[i].solvers) : i \in DOMAIN Catalog}
Roles == {"primary", "fallback"}
SolveStatuses == {"optimal", "infeasible", "unbounded", "timeout", "error"}
PlannedAttempts == [role : Roles, solver : SolverNames, k : CatalogNames]
TriedAttempts ==
    [attempt : Nat, role : Roles, k : CatalogNames, status : SolveStatuses, seconds : Nat,
     remaining_budget : Nat]
JobRecords ==
    [status : {"none", "queued", "in_progress", "completed", "failed", "demo", "demo answered"},
     primary : CatalogNames \cup {"none"}, executed : CatalogNames \cup {"none"},
     execution : BOOLEAN, terminal : Nat, seconds : Nat, attempts : Seq(TriedAttempts),
     exhausted : BOOLEAN]

IsPublic(k) ==
    \E row \in publishable_catalog_items :
        /\ row.k = k
        /\ row.kind = "self" => \A r \in Rules : r \in DOMAIN row.audit /\ row.audit[r]

RouteTypeOK ==
    /\ attempts \in Seq(PlannedAttempts) /\ tried \in Seq(TriedAttempts)
    /\ total_solve_seconds \in Nat /\ exhausted \in BOOLEAN /\ job \in JobRecords
    /\ request = NoRequest => attempts = <<>> /\ tried = <<>> /\ job = NoJob

PlanIsPublic ==
    /\ Len(attempts) <= 4
    /\ \A i \in DOMAIN attempts :
         IsPublic(attempts[i].k) /\ attempts[i].role = IF i = 1 THEN "primary" ELSE "fallback"

TriedInOrder ==
    /\ Len(tried) <= Len(attempts)
    /\ \A i \in DOMAIN tried :
         /\ tried[i].attempt = i /\ tried[i].role = attempts[i].role /\ tried[i].k = attempts[i].k
         /\ i < Len(tried) => is_retryable_solver_result(tried[i].status)

ExhaustedByLast ==
    exhausted <=> /\ tried # <<>> /\ is_retryable_solver_result(tried[Len(tried)].status)
                  /\ total_solve_seconds >= MaxSolveSeconds \/ Len(tried) = Len(attempts)

JobOfRequest ==
    /\ job.status \notin {"none", "demo", "demo answered"} => job.primary = attempts[1].k
    /\ job.status = "none" => tried = <<>>
    /\ job.execution =>
          /\ job.status \in {"completed", "failed"} /\ tried # <<>>
          /\ job.attempts = tried /\ job.exhausted = exhausted
          /\ job.terminal = Len(tried) /\ job.executed = tried[Len(tried)].k
          /\ exhausted \/ ~is_retryable_solver_result(tried[Len(tried)].status)

RouteInvariant ==
    /\ RouteTypeOK /\ PlanIsPublic /\ TriedInOrder /\ OneBudget
    /\ tried = <<>> => total_solve_seconds = 0
    /\ ExhaustedByLast /\ JobOfRequest

(* A route that is "ok" leads to a public row. *)
LEMMA RouteIsPublic ==
  ASSUME NEW task, NEW solver \in Solvers \cup {Default},
         select_provider_route(task, solver).status = "ok"
  PROVE  /\ select_provider_route(task, solver).k \in CatalogNames
         /\ IsPublic(select_provider_route(task, solver).k)
         /\ select_provider_route(task, solver).selected \in SolverNames
<1> DEFINE rows == find_by_task_type_and_solver(task, solver)
           row == Catalog[Min(rows)]
<1>1. rows \subseteq DOMAIN Catalog /\ DOMAIN Catalog \subseteq Nat
  BY FallbackAssumption DEF find_by_task_type_and_solver, Matches
<1>2. /\ Matches(task) # {} /\ rows # {} /\ self_audit_passed(row)
      /\ select_provider_route(task, solver) =
            [status |-> "ok", k |-> row.k,
             selected |-> IF solver = Default THEN Head(row.solvers) ELSE solver]
  BY DEF select_provider_route
<1>3. Min(rows) \in DOMAIN Catalog
  <2> HIDE DEF rows
  <2> QED
    BY <1>1, <1>2, FirstOfNumbers
<1>4. row.k \in CatalogNames
  BY <1>3 DEF CatalogNames
<1>5. IsPublic(row.k)
  <2>1. row \in publishable_catalog_items
    BY <1>2, <1>3 DEF publishable_catalog_items, ToSet
  <2>2. row.kind = "self" => \A r \in Rules : r \in DOMAIN row.audit /\ row.audit[r]
    BY <1>2 DEF self_audit_passed, self_audit_missing_rules
  <2> QED
    BY <2>1, <2>2 DEF IsPublic
<1>6. (IF solver = Default THEN Head(row.solvers) ELSE solver) \in SolverNames
  BY <1>3 DEF SolverNames
<1> QED
  BY <1>2, <1>4, <1>5, <1>6

(* A sequence with one more in front. *)
LEMMA OneInFront ==
  ASSUME NEW S, NEW a \in S, NEW m \in Nat, NEW f \in [1..m -> S]
  PROVE  /\ <<a>> \o f \in Seq(S) /\ Len(<<a>> \o f) = m + 1
         /\ (<<a>> \o f)[1] = a /\ \A i \in 1..m : (<<a>> \o f)[i + 1] = f[i]
<1>1. f \in Seq(S) /\ Len(f) = m /\ <<a>> \in Seq(S) /\ Len(<<a>>) = 1
  OBVIOUS
<1> QED
  BY <1>1

(* What is planned is public, and the roles say which attempt is first. *)
LEMMA PlanOfRequest ==
  ASSUME NEW r, PlanAccepted(r), NEW n \in Nat, r.chain \in [1..n -> Solvers],
         r.solver \in Solvers \cup {Default}
  PROVE  /\ build_fallback_attempts(r) \in Seq(PlannedAttempts)
         /\ Len(build_fallback_attempts(r)) \in 1..4
         /\ \A i \in 1..Len(build_fallback_attempts(r)) :
              /\ IsPublic(build_fallback_attempts(r)[i].k)
              /\ build_fallback_attempts(r)[i].role = IF i = 1 THEN "primary" ELSE "fallback"
<1>1. PICK m \in 0..3 : m = Min({3, Len(r.chain)}) /\ m <= n /\ Len(r.chain) = n
  <2>1. Len(r.chain) = n
    OBVIOUS
  <2>2. Min({3, n}) = IF 3 <= n THEN 3 ELSE n
    <3>1. 3 \in Int /\ n \in Int
      OBVIOUS
    <3> QED
      BY <3>1, OfTwo, Zenon
  <2> QED
    BY <2>1, <2>2
<1>2. /\ DOMAIN Candidates(r.chain) = 1..m
      /\ \A i \in 1..m : Candidates(r.chain)[i] \in Solvers
  <2>1. r.chain \in Seq(Solvers)
    OBVIOUS
  <2>2. Candidates(r.chain) = SubSeq(r.chain, 1, m)
    BY <1>1 DEF Candidates
  <2>3. Len(SubSeq(r.chain, 1, m)) = m
    BY <1>1, <2>1, SubSeqProperties
  <2>4. \A i \in 1..m : SubSeq(r.chain, 1, m)[i] = r.chain[i]
    BY <1>1, <2>1, SubSeqProperties
  <2>5. \A i \in 1..m : r.chain[i] \in Solvers
    BY <1>1
  <2>6. SubSeq(r.chain, 1, m) \in Seq(Solvers)
    <3>1. 1 \in Int /\ m \in Int
      OBVIOUS
    <3> QED
      BY <2>5, <3>1, SubSeqProperties, Zenon
  <2> QED
    BY <2>2, <2>3, <2>4, <2>5, <2>6
<1> DEFINE a == Attempt("primary", r.task, r.solver)
           f == [i \in 1..m |-> Attempt("fallback", r.task, Candidates(r.chain)[i])]
<1>3. build_fallback_attempts(r) = <<a>> \o f
  BY <1>2 DEF build_fallback_attempts
<1>4. a \in PlannedAttempts /\ IsPublic(a.k) /\ a.role = "primary"
  <2>1. select_provider_route(r.task, r.solver).status = "ok"
    BY DEF PlanAccepted
  <2> QED
    BY <2>1, RouteIsPublic DEF Attempt, PlannedAttempts, Roles
<1>5. \A i \in 1..m : f[i] \in PlannedAttempts /\ IsPublic(f[i].k) /\ f[i].role = "fallback"
  <2> SUFFICES ASSUME NEW i \in 1..m
               PROVE  f[i] \in PlannedAttempts /\ IsPublic(f[i].k) /\ f[i].role = "fallback"
    OBVIOUS
  <2>1. select_provider_route(r.task, Candidates(r.chain)[i]).status = "ok"
    BY <1>2 DEF PlanAccepted
  <2> QED
    BY <1>2, <2>1, RouteIsPublic DEF Attempt, PlannedAttempts, Roles
<1> HIDE DEF a, f
<1>6. f \in [1..m -> PlannedAttempts]
  BY <1>5 DEF f
<1>7. /\ <<a>> \o f \in Seq(PlannedAttempts) /\ Len(<<a>> \o f) = m + 1
      /\ (<<a>> \o f)[1] = a /\ \A i \in 1..m : (<<a>> \o f)[i + 1] = f[i]
  BY <1>4, <1>6, OneInFront
<1>8. ASSUME NEW i \in 2..(m + 1) PROVE (<<a>> \o f)[i] = f[i - 1] /\ i - 1 \in 1..m
  BY <1>7
<1> QED
  BY <1>3, <1>4, <1>5, <1>7, <1>8

LEMMA RouteInitially ==
  RouteInit => RouteInvariant
<1> SUFFICES ASSUME RouteInit PROVE RouteInvariant
  OBVIOUS
<1>1. /\ attempts = <<>> /\ tried = <<>> /\ total_solve_seconds = 0 /\ exhausted = FALSE
      /\ job = NoJob
  BY DEF RouteInit
<1>2. RouteTypeOK
  <2>1. attempts \in Seq(PlannedAttempts) /\ tried \in Seq(TriedAttempts) /\ total_solve_seconds \in Nat
    BY <1>1
  <2>2. exhausted \in BOOLEAN
    BY <1>1, Zenon
  <2>3. job \in JobRecords
    BY <1>1 DEF NoJob, JobRecords
  <2> QED
    BY <1>1, <2>1, <2>2, <2>3, Zenon DEF RouteTypeOK
<1>5. PlanIsPublic /\ TriedInOrder
  BY <1>1 DEF PlanIsPublic, TriedInOrder
<1>3. OneBudget /\ ExhaustedByLast
  BY <1>1, FallbackAssumption DEF OneBudget, ExhaustedByLast
<1>4. JobOfRequest
  BY <1>1 DEF JobOfRequest, NoJob
<1> QED
  BY <1>1, <1>2, <1>3, <1>4, <1>5 DEF RouteInvariant

(* A request is planned. *)
LEMMA RequestPreserves ==
  ASSUME RouteInvariant, post_optimization_route \/ post_optimization_demo
  PROVE  RouteInvariant'
<1>1. /\ attempts = <<>> /\ tried = <<>> /\ job = NoJob
      /\ UNCHANGED <<tried, total_solve_seconds, exhausted>>
  BY DEF RouteInvariant, RouteTypeOK, post_optimization_route, post_optimization_demo
<1>2. PICK r : /\ PlanAccepted(r) /\ r.solver \in Solvers \cup {Default}
               /\ \E n \in Nat : r.chain \in [1..n -> Solvers]
               /\ r # NoRequest /\ request' = r /\ attempts' = build_fallback_attempts(r)
  <2>1. CASE post_optimization_route
    <3>1. PICK task \in Tasks, solver \in Solvers \cup {Default}, n \in 0..MaxChain :
             \E chain \in [1..n -> Solvers] :
                LET r == [task |-> task, solver |-> solver, chain |-> chain]
                IN  PlanAccepted(r) /\ request' = r /\ attempts' = build_fallback_attempts(r)
      BY <2>1 DEF post_optimization_route
    <3>2. n \in Nat /\ task # "none"
      BY FallbackAssumption
    <3>3. PICK chain \in [1..n -> Solvers] :
                LET r == [task |-> task, solver |-> solver, chain |-> chain]
                IN  PlanAccepted(r) /\ request' = r /\ attempts' = build_fallback_attempts(r)
      BY <3>1
    <3>4. [task |-> task, solver |-> solver, chain |-> chain] # NoRequest
      BY <3>2 DEF NoRequest
    <3> QED
      BY <3>2, <3>3, <3>4
  <2>2. CASE post_optimization_demo
    <3>1. PICK solver \in Solvers \cup {Default}, n \in 0..MaxChain :
             \E chain \in [1..n -> Solvers] :
                LET r == [task |-> "lp", solver |-> solver, chain |-> chain]
                IN  PlanAccepted(r) /\ request' = r /\ attempts' = build_fallback_attempts(r)
      BY <2>2 DEF post_optimization_demo
    <3>2. n \in Nat
      BY FallbackAssumption
    <3>3. PICK chain \in [1..n -> Solvers] :
                LET r == [task |-> "lp", solver |-> solver, chain |-> chain]
                IN  PlanAccepted(r) /\ request' = r /\ attempts' = build_fallback_attempts(r)
      BY <3>1
    <3>4. [task |-> "lp", solver |-> solver, chain |-> chain] # NoRequest
      BY DEF NoRequest
    <3> QED
      BY <3>2, <3>3, <3>4
  <2> QED
    BY <2>1, <2>2
<1>3. /\ attempts' \in Seq(PlannedAttempts) /\ Len(attempts') \in 1..4
      /\ \A i \in 1..Len(attempts') :
           IsPublic(attempts'[i].k) /\ attempts'[i].role = IF i = 1 THEN "primary" ELSE "fallback"
  <2>1. PICK n \in Nat : r.chain \in [1..n -> Solvers]
    BY <1>2
  <2> QED
    BY <1>2, <2>1, PlanOfRequest
<1>4. PlanIsPublic'
  BY <1>3 DEF PlanIsPublic, IsPublic
<1>5. TriedInOrder' /\ OneBudget' /\ ExhaustedByLast' /\ (tried' = <<>> => total_solve_seconds' = 0)
  BY <1>1, <1>3 DEF RouteInvariant, TriedInOrder, OneBudget, ExhaustedByLast
<1>6. JobOfRequest' /\ job' \in JobRecords
  <2>1. CASE post_optimization_route
    <3>1. PICK status \in {"queued", "in_progress", "failed"} :
             job' = [NoJob EXCEPT !.status = status, !.primary = attempts'[1].k]
      BY <2>1 DEF post_optimization_route
    <3>2. attempts'[1] \in PlannedAttempts
      BY <1>3
    <3>3. attempts'[1].k \in CatalogNames
      BY <3>2 DEF PlannedAttempts
    <3>4. /\ job'.status = status /\ job'.primary = attempts'[1].k /\ job'.execution = FALSE
      BY <3>1 DEF NoJob
    <3>5. JobOfRequest'
      BY <1>1, <3>4 DEF JobOfRequest
    <3>6. job' \in JobRecords
      <4>1. NoJob \in JobRecords
        BY <1>1 DEF RouteInvariant, RouteTypeOK
      <4> QED
        BY <3>1, <3>3, <4>1 DEF JobRecords
    <3> QED
      BY <3>5, <3>6
  <2>2. CASE post_optimization_demo
    <3>1. job' = [job EXCEPT !.status = "demo"]
      BY <1>1, <2>2 DEF post_optimization_demo
    <3>2. job'.status = "demo" /\ job'.execution = FALSE
      BY <1>1, <3>1 DEF NoJob
    <3>3. JobOfRequest'
      BY <1>1, <3>2 DEF JobOfRequest
    <3>4. job' \in JobRecords
      <4>1. job \in JobRecords
        BY DEF RouteInvariant, RouteTypeOK
      <4> QED
        BY <3>1, <4>1 DEF JobRecords
    <3> QED
      BY <3>3, <3>4
  <2> QED
    BY <2>1, <2>2
<1>7. RouteTypeOK'
  BY <1>1, <1>2, <1>3, <1>6 DEF RouteTypeOK, RouteInvariant
<1> QED
  BY <1>4, <1>5, <1>6, <1>7 DEF RouteInvariant

(* An attempt is executed with the budget that is left. *)
LEMMA AttemptPreserves ==
  ASSUME RouteInvariant, ExecuteAttempt
  PROVE  RouteInvariant'
<1>1. /\ attempts \in Seq(PlannedAttempts) /\ tried \in Seq(TriedAttempts)
      /\ total_solve_seconds \in Nat /\ MaxSolveSeconds \in Nat \ {0}
  BY FallbackAssumption DEF RouteInvariant, RouteTypeOK
<1>2. remaining_budget = MaxSolveSeconds - total_solve_seconds /\ remaining_budget > 0
  <2>1. remaining_budget > 0
    BY DEF ExecuteAttempt, Execute, Running
  <2>2. /\ MaxSolveSeconds - total_solve_seconds \in Int /\ 0 \in Int
        /\ Max({MaxSolveSeconds - total_solve_seconds, 0}) = remaining_budget
    BY <1>1 DEF remaining_budget
  <2>3. remaining_budget = IF MaxSolveSeconds - total_solve_seconds >= 0
                           THEN MaxSolveSeconds - total_solve_seconds ELSE 0
    BY <2>2, OfTwo, Zenon
  <2> QED
    BY <1>1, <2>1, <2>3
<1>3. PICK n \in Nat : n = Len(tried) /\ n < Len(attempts) /\ n + 1 \in DOMAIN attempts
  BY <1>1 DEF ExecuteAttempt, Execute, Running
<1>4. PICK status \in SolveStatuses, seconds \in 0..(remaining_budget + 1) :
         /\ tried' = Append(tried, [attempt |-> n + 1, role |-> attempts[n + 1].role,
                                    k |-> attempts[n + 1].k, status |-> status, seconds |-> seconds,
                                    remaining_budget |-> remaining_budget])
         /\ total_solve_seconds' = total_solve_seconds + seconds
         /\ exhausted' = ( /\ is_retryable_solver_result(status)
                           /\ \/ total_solve_seconds' >= MaxSolveSeconds
                              \/ n + 1 = Len(attempts))
  BY <1>3 DEF ExecuteAttempt, Execute, SolveStatuses
<1>5. UNCHANGED <<request, attempts, job>>
  BY DEF ExecuteAttempt, Execute
<1>6. PICK x \in TriedAttempts :
         /\ x.attempt = n + 1 /\ x.role = attempts[n + 1].role /\ x.k = attempts[n + 1].k
         /\ x.status = status /\ x.seconds = seconds
         /\ x.remaining_budget = MaxSolveSeconds - total_solve_seconds /\ tried' = Append(tried, x)
  <2>1. attempts[n + 1] \in PlannedAttempts
    BY <1>1, <1>3
  <2>2. attempts[n + 1].role \in Roles /\ attempts[n + 1].k \in CatalogNames
    BY <2>1 DEF PlannedAttempts
  <2>3. remaining_budget \in Nat /\ seconds \in Nat
    BY <1>1, <1>2
  <2> QED
    BY <1>2, <1>4, <2>2, <2>3 DEF TriedAttempts
<1>7. /\ tried' \in Seq(TriedAttempts) /\ Len(tried') = n + 1 /\ tried'[n + 1] = x
      /\ DOMAIN tried' = 1..(n + 1) /\ DOMAIN tried = 1..n
      /\ \A i \in 1..n : tried'[i] = tried[i]
  BY <1>1, <1>3, <1>6
<1>8. seconds \in Nat /\ seconds <= MaxSolveSeconds - total_solve_seconds + 1
  BY <1>1, <1>2
<1>9. RouteTypeOK'
  <2>1. request # NoRequest
    BY <1>1, <1>3 DEF RouteInvariant, RouteTypeOK
  <2> QED
    BY <1>1, <1>4, <1>5, <1>7, <1>8, <2>1 DEF RouteTypeOK, RouteInvariant
<1>10. PlanIsPublic'
  BY <1>5 DEF RouteInvariant, PlanIsPublic, IsPublic
<1>11. n > 0 => is_retryable_solver_result(tried[n].status)
  BY <1>3, <1>7 DEF ExecuteAttempt, Execute, Running, Last
<1>12. TriedInOrder'
  <2>1. ASSUME NEW i \in 1..(n + 1)
        PROVE  /\ tried'[i].attempt = i /\ tried'[i].role = attempts[i].role
               /\ tried'[i].k = attempts[i].k
               /\ i < n + 1 => is_retryable_solver_result(tried'[i].status)
    <3>1. CASE i = n + 1
      BY <1>6, <1>7, <3>1
    <3>2. CASE i < n + 1
      <4>1. i \in 1..n
        BY <3>2
      <4> QED
        BY <1>3, <1>7, <1>11, <4>1 DEF RouteInvariant, TriedInOrder
    <3> QED
      BY <3>1, <3>2
  <2> QED
    BY <1>3, <1>5, <1>7, <2>1 DEF TriedInOrder, is_retryable_solver_result
<1>13. OneBudget'
  <2>1. total_solve_seconds' <= MaxSolveSeconds + 1
    BY <1>1, <1>4, <1>8
  <2>2. Len(tried') <= 4
    BY <1>1, <1>3, <1>7 DEF RouteInvariant, PlanIsPublic
  <2>3. ASSUME NEW i \in 1..(n + 1)
        PROVE  LET left == tried'[i].remaining_budget - tried'[i].seconds
               IN  /\ tried'[i].remaining_budget > 0
                   /\ i = 1 => tried'[i].remaining_budget = MaxSolveSeconds
                   /\ IF i = n + 1 THEN total_solve_seconds' = MaxSolveSeconds - left
                      ELSE tried'[i + 1].remaining_budget = left
    <3>1. CASE i = n + 1
      <4>1. tried'[i] = x /\ (i = 1 => total_solve_seconds = 0)
        BY <1>3, <1>7, <3>1 DEF RouteInvariant
      <4>2. tried'[i].remaining_budget = MaxSolveSeconds - total_solve_seconds
        BY <1>6, <4>1
      <4>3. tried'[i].remaining_budget > 0
        BY <1>2, <4>2
      <4>4. i = 1 => tried'[i].remaining_budget = MaxSolveSeconds
        BY <1>1, <4>1, <4>2
      <4>5. total_solve_seconds' = MaxSolveSeconds - (tried'[i].remaining_budget - tried'[i].seconds)
        <5>1. tried'[i].seconds = seconds
          BY <1>6, <4>1
        <5>2. total_solve_seconds' = total_solve_seconds + seconds
          BY <1>4
        <5> QED
          BY <1>1, <1>8, <4>2, <5>1, <5>2
      <4> QED
        BY <3>1, <4>3, <4>4, <4>5
    <3>2. CASE i = n
      <4>1. /\ tried'[i] = tried[i] /\ tried'[i + 1] = x /\ tried[i] \in TriedAttempts
            /\ i \in DOMAIN tried /\ i = Len(tried)
        BY <1>1, <1>3, <1>7, <3>2
      <4>2. /\ tried[i].remaining_budget > 0
            /\ i = 1 => tried[i].remaining_budget = MaxSolveSeconds
            /\ total_solve_seconds = MaxSolveSeconds - (tried[i].remaining_budget - tried[i].seconds)
        BY <4>1 DEF RouteInvariant, OneBudget
      <4>3. tried[i].remaining_budget \in Nat /\ tried[i].seconds \in Nat
        BY <4>1 DEF TriedAttempts
      <4> QED
        BY <1>1, <1>6, <3>2, <4>1, <4>2, <4>3
    <3>3. CASE i < n
      <4>1. /\ tried'[i] = tried[i] /\ tried'[i + 1] = tried[i + 1] /\ i \in DOMAIN tried
            /\ i # Len(tried)
        BY <1>3, <1>7, <3>3
      <4> QED
        BY <3>3, <4>1 DEF RouteInvariant, OneBudget
    <3> QED
      BY <3>1, <3>2, <3>3
  <2> QED
    BY <1>7, <2>1, <2>2, <2>3 DEF OneBudget
<1>14. ExhaustedByLast'
  BY <1>4, <1>5, <1>6, <1>7 DEF ExhaustedByLast, is_retryable_solver_result
<1>15. JobOfRequest'
  BY <1>5 DEF RouteInvariant, JobOfRequest, ExecuteAttempt, Execute, Running
<1> QED
  BY <1>7, <1>9, <1>10, <1>12, <1>13, <1>14, <1>15 DEF RouteInvariant

(* An executed job is stored with the last attempt as its result. *)
LEMMA FinishPreserves ==
  ASSUME RouteInvariant, FinishExecution
  PROVE  RouteInvariant'
<1>1. /\ job.status = "in_progress" /\ tried # <<>> /\ ~Running
      /\ UNCHANGED <<request, attempts, tried, total_solve_seconds, exhausted>>
      /\ job' = build_fallback_execution_metadata
  BY DEF FinishExecution
<1>2. PICK n \in Nat : n = Len(tried) /\ n > 0 /\ n \in DOMAIN tried
  BY <1>1 DEF RouteInvariant, RouteTypeOK
<1>3. job.primary = attempts[1].k /\ job # NoJob
  BY <1>1 DEF RouteInvariant, JobOfRequest, NoJob
<1>4. exhausted \/ ~is_retryable_solver_result(tried[n].status)
  <2>1. remaining_budget <= 0 => total_solve_seconds >= MaxSolveSeconds
    <3>1. /\ MaxSolveSeconds - total_solve_seconds \in Int /\ 0 \in Int
          /\ Max({MaxSolveSeconds - total_solve_seconds, 0}) = remaining_budget
      BY FallbackAssumption DEF remaining_budget, RouteInvariant, RouteTypeOK
    <3>2. remaining_budget = IF MaxSolveSeconds - total_solve_seconds >= 0
                             THEN MaxSolveSeconds - total_solve_seconds ELSE 0
      BY <3>1, OfTwo, Zenon
    <3> QED
      BY <3>2, FallbackAssumption DEF RouteInvariant, RouteTypeOK
  <2>2. remaining_budget \in Int
    <3>1. /\ MaxSolveSeconds - total_solve_seconds \in Int /\ 0 \in Int
          /\ Max({MaxSolveSeconds - total_solve_seconds, 0}) = remaining_budget
      BY FallbackAssumption DEF remaining_budget, RouteInvariant, RouteTypeOK
    <3> QED
      BY <3>1, OfTwo
  <2>3. n <= Len(attempts) /\ Len(attempts) \in Nat
    BY <1>2 DEF RouteInvariant, RouteTypeOK, TriedInOrder
  <2> QED
    BY <1>1, <1>2, <2>1, <2>2, <2>3 DEF Running, Last, RouteInvariant, ExhaustedByLast
<1>5. job' = [job EXCEPT !.status = IF tried[n].status = "optimal" THEN "completed" ELSE "failed",
                         !.executed = tried[n].k, !.execution = TRUE,
                         !.terminal = tried[n].attempt, !.seconds = total_solve_seconds,
                         !.attempts = tried, !.exhausted = exhausted]
  BY <1>1, <1>2 DEF build_fallback_execution_metadata, Last
<1>6. /\ tried \in Seq(TriedAttempts) /\ total_solve_seconds \in Nat /\ exhausted \in BOOLEAN
      /\ job \in JobRecords
  BY DEF RouteInvariant, RouteTypeOK
<1>7. tried[n] \in TriedAttempts /\ tried[n].attempt = n
  BY <1>2, <1>6 DEF RouteInvariant, TriedInOrder
<1>8. tried[n].attempt \in Nat /\ tried[n].k \in CatalogNames
  BY <1>7 DEF TriedAttempts
<1>9. /\ job'.status \in {"completed", "failed"} /\ job'.primary = job.primary
      /\ job'.executed = tried[n].k /\ job'.execution = TRUE /\ job'.terminal = n
      /\ job'.attempts = tried /\ job'.exhausted = exhausted /\ job' \in JobRecords
  BY <1>5, <1>6, <1>7, <1>8 DEF JobRecords
<1>10. request # NoRequest
  BY <1>3 DEF RouteInvariant, RouteTypeOK
<1>11. RouteTypeOK'
  BY <1>1, <1>9, <1>10 DEF RouteInvariant, RouteTypeOK
<1>12. JobOfRequest'
  BY <1>1, <1>2, <1>3, <1>4, <1>9 DEF JobOfRequest
<1> QED
  BY <1>1, <1>11, <1>12
     DEF RouteInvariant, PlanIsPublic, IsPublic, TriedInOrder, OneBudget, ExhaustedByLast

(* The other steps leave the plan and what was tried alone. *)
LEMMA RoutePreserved ==
  RouteInvariant /\ [RouteNext]_routeVars => RouteInvariant'
<1> SUFFICES ASSUME RouteInvariant, [RouteNext]_routeVars PROVE RouteInvariant'
  OBVIOUS
<1>1. CASE post_optimization_route \/ post_optimization_demo
  BY <1>1, RequestPreserves
<1>2. CASE ExecuteAttempt
  BY <1>2, AttemptPreserves
<1>3. CASE FinishExecution
  BY <1>3, FinishPreserves
<1>4. CASE AnswerDemo
  <2>1. /\ job.status = "demo" /\ tried # <<>>
        /\ UNCHANGED <<request, attempts, tried, total_solve_seconds, exhausted>>
        /\ job' = [job EXCEPT !.status = "demo answered",
                              !.executed = IF Last(tried).status = "optimal" THEN Last(tried).k ELSE @]
    BY <1>4 DEF AnswerDemo
  <2>2. tried \in Seq(TriedAttempts) /\ job \in JobRecords /\ ~job.execution
    BY <2>1 DEF RouteInvariant, RouteTypeOK, JobOfRequest
  <2>3. Last(tried) \in TriedAttempts
    BY <2>1, <2>2 DEF Last
  <2>4. Last(tried).k \in CatalogNames
    BY <2>3 DEF TriedAttempts
  <2>5. job' \in JobRecords /\ job'.status = "demo answered" /\ ~job'.execution
    BY <2>1, <2>2, <2>4 DEF JobRecords
  <2>6. RouteTypeOK' /\ JobOfRequest'
    BY <2>1, <2>5 DEF RouteInvariant, RouteTypeOK, JobOfRequest
  <2> QED
    BY <2>1, <2>6 DEF RouteInvariant, PlanIsPublic, IsPublic, TriedInOrder, OneBudget, ExhaustedByLast
<1>5. CASE ReadHistory \/ UNCHANGED routeVars
  <2>1. UNCHANGED <<request, attempts, tried, total_solve_seconds, exhausted, job>>
    BY <1>5 DEF ReadHistory, routeVars
  <2> QED
    BY <2>1 DEF RouteInvariant, RouteTypeOK, JobOfRequest, PlanIsPublic, IsPublic, TriedInOrder,
                OneBudget, ExhaustedByLast
<1> QED
  BY <1>1, <1>2, <1>3, <1>4, <1>5 DEF RouteNext

(* What the invariant says of the runs' property. *)
LEMMA ExecutionOfInvariant ==
  RouteInvariant => OnlyPublishedExecuted /\ OneBudget /\ HistoryExplainsResult
<1> SUFFICES ASSUME RouteInvariant PROVE OnlyPublishedExecuted /\ HistoryExplainsResult
  BY DEF RouteInvariant
<1>1. /\ attempts \in Seq(PlannedAttempts) /\ tried \in Seq(TriedAttempts)
      /\ Len(tried) <= Len(attempts)
  BY DEF RouteInvariant, RouteTypeOK, TriedInOrder
<1>2. OnlyPublishedExecuted
  <2> SUFFICES ASSUME NEW i \in DOMAIN tried PROVE IsPublic(tried[i].k)
    BY DEF OnlyPublishedExecuted, IsPublic
  <2>1. i \in DOMAIN attempts
    BY <1>1
  <2> QED
    BY <2>1 DEF RouteInvariant, TriedInOrder, PlanIsPublic
<1>3. HistoryExplainsResult
  <2> SUFFICES ASSUME job.execution
               PROVE  LET h == _routing_history_metadata(job)
                      IN  /\ h.exhausted <=> is_retryable_solver_result(h.status)
                          /\ \A i \in 1..(Len(tried) - 1) : is_retryable_solver_result(tried[i].status)
                          /\ h.count = Len(tried) /\ h.terminal = Len(tried)
                          /\ h.fallback_used <=> Len(tried) > 1
                          /\ h.executed = attempts[Len(tried)].k
                          /\ h.executed # job.primary => h.fallback_used
    BY DEF HistoryExplainsResult
  <2>1. PICK n \in Nat : n = Len(tried) /\ n > 0 /\ n \in DOMAIN tried /\ DOMAIN tried = 1..n
    <3>1. tried # <<>>
      BY DEF RouteInvariant, JobOfRequest
    <3> QED
      BY <1>1, <3>1
  <2>2. /\ job.attempts = tried /\ job.exhausted = exhausted /\ job.terminal = n
        /\ job.executed = tried[n].k /\ job.primary = attempts[1].k
        /\ exhausted \/ ~is_retryable_solver_result(tried[n].status)
    BY <2>1 DEF RouteInvariant, JobOfRequest
  <2>3. /\ \A i \in 1..n : tried[i].role = (IF i = 1 THEN "primary" ELSE "fallback")
        /\ tried[n].k = attempts[n].k
    BY <1>1, <2>1 DEF RouteInvariant, TriedInOrder, PlanIsPublic
  <2>4. (\E i \in DOMAIN tried : tried[i].role = "fallback") <=> n > 1
    BY <2>1, <2>3
  <2>5. Max({n, n}) = n
    BY OfTwo
  <2>6. /\ _routing_history_metadata(job).count = n /\ _routing_history_metadata(job).terminal = n
        /\ _routing_history_metadata(job).fallback_used <=> n > 1
        /\ _routing_history_metadata(job).status = tried[n].status
        /\ _routing_history_metadata(job).exhausted = exhausted
        /\ _routing_history_metadata(job).executed = tried[n].k
    BY <2>1, <2>2, <2>4, <2>5 DEF _routing_history_metadata, Last
  <2>7. exhausted <=> is_retryable_solver_result(tried[n].status)
    BY <2>1, <2>2 DEF RouteInvariant, ExhaustedByLast
  <2>8. \A i \in 1..(n - 1) : is_retryable_solver_result(tried[i].status)
    BY <2>1 DEF RouteInvariant, TriedInOrder
  <2> QED
    BY <2>1, <2>2, <2>3, <2>6, <2>7, <2>8
<1> QED
  BY <1>2, <1>3

(* Whatever solvers answer and however often one is retried, only          *)
(* algorithms that may be published are executed, all attempts share one   *)
(* time budget, and the stored history says which of them the result came  *)
(* from: for any catalog, chain length and budget (the routing, fallback   *)
(* and demo of POST /v1/optimizations and its worker).                     *)
THEOREM ExecutionAlwaysSound ==
  MCSpec => []ExecutionSound
<1>1. MCInit => RouteInvariant
  BY RouteInitially DEF MCInit, Init
<1>2. RouteInvariant /\ [MCNext]_<<admission, execution, records, story>> => RouteInvariant'
  <2>1. [MCNext]_<<admission, execution, records, story>> => [RouteNext]_routeVars
    BY DEF MCNext, LimitPart, KeyUsePart, RoutePart, LpPart, JobPart, BatchPart, TemplatePart,
           MigrationPart, CitationPart, ExitPart, admission, execution, records
  <2> QED
    BY <2>1, RoutePreserved
<1>3. RouteInvariant => ExecutionSound
  BY ExecutionOfInvariant DEF ExecutionSound
<1> QED
  BY <1>1, <1>2, <1>3, PTL DEF MCSpec
=============================================================================
