---------------------------- MODULE DataExports ----------------------------
(***************************************************************************)
(* What users read of their own data.  Its export: a queue of requests in  *)
(* the database, and workers that take a batch of rows FOR UPDATE SKIP     *)
(* LOCKED, build each package from a series of queries and commit the      *)
(* batch at its end.  And the audit log, page by page.                     *)
(***************************************************************************)
EXTENDS AccountAccess, Integers

CONSTANTS
    Exporters,   \* runs of the export worker at a time
    Formats,     \* SUPPORTED_FORMATS
    Limit,       \* the worker's --limit
    MaxExports   \* bound: data_export_requests rows

ASSUME ExportAssumption == Limit \in Nat \ {0}

VARIABLES
    exports,   \* the rows, in the order of requested_at
    exporter,  \* the transaction of each worker run
    announced  \* history: data_export.completed events by row

exportVars == <<exports, exporter, announced>>

NoPackage == [profile |-> "none", deletion |-> "none"]
Resting == [rows |-> <<>>, built |-> <<>>, read |-> 0, package |-> NoPackage]

ExportInit ==
    /\ exports = <<>>
    /\ exporter = [x \in Exporters |-> Resting]
    /\ announced = [i \in 1 .. MaxExports |-> 0]

_get_active_export_request(i, u, format) ==
    /\ exports[i].user = u /\ exports[i].format = format
    /\ exports[i].status \in {"queued", "completed"}
    /\ ~exports[i].expired

(* The advisory lock on user and format is held until the commit. *)
request_data_export(u, format) ==
    /\ user[u].registered
    /\ Len(exports) < MaxExports
    /\ ~\E i \in DOMAIN exports : _get_active_export_request(i, u, format)
    /\ exports' = Append(exports, [user |-> u, format |-> format, status |-> "queued",
                                   expired |-> FALSE, package |-> NoPackage])
    /\ UNCHANGED <<exporter, announced>>

Locked == UNION {Range(exporter[x].rows) : x \in Exporters}

QueuedRows(x) == {i \in DOMAIN exports : exports[i].status = "queued"} \ Locked

(* The oldest rows, as many as the limit allows.  The status "processing"  *)
(* is written but never committed on its own.                              *)
complete_pending_data_export_requests(x) ==
    LET rows == SetToSortSeq(QueuedRows(x), <) IN
    /\ exporter[x] = Resting
    /\ rows # <<>>
    /\ exporter' = [exporter EXCEPT ![x].rows = SubSeq(rows, 1, IF Len(rows) < Limit THEN Len(rows)
                                                                ELSE Limit)]
    /\ UNCHANGED <<exports, announced>>

Current(x) == exporter[x].rows[Len(exporter[x].built) + 1]
Unfinished(x) == Len(exporter[x].built) < Len(exporter[x].rows)

(* Mutant: the profile comes last. *)
profile_last == <<"deletion", "profile">>

(* The sections that change while a package is built, in the order of the  *)
(* queries of _build_data_export_snapshot.                                 *)
Sections == <<"profile", "deletion">>

SectionOf(u) ==
    [profile |-> IF user[u].erased THEN "erased" ELSE "personal", deletion |-> deletion[u].status]

(* Each query sees what is committed when it runs. *)
_build_data_export_snapshot(x) ==
    LET section == Sections[exporter[x].read + 1] IN
    /\ Unfinished(x) /\ exporter[x].read < Len(Sections)
    /\ exporter' = [exporter EXCEPT ![x].read = @ + 1,
                       ![x].package[section] = SectionOf(exports[Current(x)].user)[section]]
    /\ UNCHANGED <<exports, announced>>

(* Rendering may raise; the failure is recorded without a package. *)
_build_data_export_package(x) ==
    /\ Unfinished(x) /\ exporter[x].read = Len(Sections)
    /\ \E result \in {[status |-> "completed", package |-> exporter[x].package],
                      [status |-> "failed", package |-> NoPackage]} :
         exporter' = [exporter EXCEPT ![x].read = 0, ![x].package = NoPackage,
                                      ![x].built = Append(@, result)]
    /\ UNCHANGED <<exports, announced>>

CommitBatch(x) ==
    LET e == exporter[x]
        mine(i) == CHOOSE n \in DOMAIN e.rows : e.rows[n] = i
    IN  /\ e.rows # <<>> /\ ~Unfinished(x)
        /\ exports' = [i \in DOMAIN exports |->
                         IF i \in Range(e.rows)
                         THEN [exports[i] EXCEPT !.status = e.built[mine(i)].status,
                                                 !.package = e.built[mine(i)].package]
                         ELSE exports[i]]
        /\ announced' = [i \in DOMAIN announced |->
                           IF i \in Range(e.rows) /\ e.built[mine(i)].status = "completed"
                           THEN announced[i] + 1 ELSE announced[i]]
        /\ exporter' = [exporter EXCEPT ![x] = Resting]

(* The worker dies: its transaction is rolled back and the locks go. *)
ExporterCrashes(x) ==
    /\ exporter[x] # Resting
    /\ exporter' = [exporter EXCEPT ![x] = Resting]
    /\ UNCHANGED <<exports, announced>>

(* EXPORT_EXPIRES_DAYS pass; only a completed row has an expiry. *)
ExportExpires(i) ==
    /\ exports[i].status = "completed" /\ ~exports[i].expired
    /\ exports' = [exports EXCEPT ![i].expired = TRUE]
    /\ UNCHANGED <<exporter, announced>>

ExportNext ==
    /\ \/ \E u \in Users : \E format \in Formats : request_data_export(u, format)
       \/ \E x \in Exporters :
            \/ complete_pending_data_export_requests(x)
            \/ _build_data_export_snapshot(x)
            \/ _build_data_export_package(x)
            \/ CommitBatch(x)
            \/ ExporterCrashes(x)
       \/ \E i \in DOMAIN exports : ExportExpires(i)
    /\ UNCHANGED <<accountVars, mergeVars, accessVars, requestVars>>

(***************************************************************************)
(* A user pages through the audit log with a signed cursor while handlers  *)
(* go on writing it.  A row carries the time its transaction began, so one *)
(* may appear below rows that were shown already; ids are random and order *)
(* the rows of the same instant.                                           *)
(***************************************************************************)
CONSTANTS
    RowIds,    \* ids of audit_logs rows
    Times,     \* values of created_at, from and to
    Limits     \* values of limit, 1 to _AUDIT_LOG_MAX_LIMIT

ASSUME AuditAssumption ==
    RowIds \subseteq Nat /\ Times \subseteq Nat /\ Limits \subseteq Nat \ {0}

VARIABLES
    log,     \* the committed rows of the user: created_at by id, -1 for none
    pager,   \* the query being paged through and its cursor
    shown,   \* the ids of the rows returned so far, in order
    due      \* history: the rows that matched when the query began

auditVars == <<log, pager, shown, due>>

NoCursor == [at |-> -1, id |-> -1]
NoQuery == [state |-> "none", from |-> 0, to |-> 0, limit |-> 1, cursor |-> NoCursor]

AuditInit ==
    /\ log = [i \in RowIds |-> -1]
    /\ pager = NoQuery
    /\ shown = <<>>
    /\ due = {}

(* Any handler commits an entry. *)
AuditLog(i, at) ==
    /\ log[i] = -1
    /\ log' = [log EXCEPT ![i] = at]
    /\ UNCHANGED <<pager, shown, due>>

InWindow(from, to) == {i \in RowIds : log[i] # -1 /\ from <= log[i] /\ log[i] <= to}

Below(i, cursor) ==
    \/ cursor = NoCursor
    \/ log[i] < cursor.at
    \/ log[i] = cursor.at /\ i < cursor.id

(* The cursor exists when one row more than the limit was found. *)
NextCursor(page, limit) ==
    IF Len(page) > limit THEN [at |-> log[page[limit]], id |-> page[limit]] ELSE NoCursor

Newer(i, j) == log[i] > log[j] \/ (log[i] = log[j] /\ i > j)

(* The cursor carries from, to and limit, and a request that names others  *)
(* is refused.                                                             *)
list_my_audit_logs(from, to, limit, cursor) ==
    LET rows == SetToSortSeq({i \in InWindow(from, to) : Below(i, cursor)}, Newer)
        page == SubSeq(rows, 1, IF Len(rows) > limit THEN limit + 1 ELSE Len(rows))
        next == NextCursor(page, limit)
    IN  /\ shown' = shown \o SubSeq(page, 1, IF Len(page) > limit THEN limit ELSE Len(page))
        /\ pager' = [state |-> IF next = NoCursor THEN "done" ELSE "paging",
                     from |-> from, to |-> to, limit |-> limit, cursor |-> next]

FirstPage(from, to, limit) ==
    /\ pager.state = "none"
    /\ from <= to
    /\ list_my_audit_logs(from, to, limit, NoCursor)
    /\ due' = InWindow(from, to)
    /\ UNCHANGED log

NextPage ==
    /\ pager.state = "paging"
    /\ list_my_audit_logs(pager.from, pager.to, pager.limit, pager.cursor)
    /\ UNCHANGED <<log, due>>

AuditNext ==
    \/ \E i \in RowIds : \E at \in Times : AuditLog(i, at)
    \/ \E from, to \in Times : \E limit \in Limits : FirstPage(from, to, limit)
    \/ NextPage

-----------------------------------------------------------------------------
(* The pages hold every row that matched when the first was asked for, and *)
(* no row twice, newest first, whatever is written in between.             *)
PagesAreComplete ==
    /\ \A m, n \in DOMAIN shown : m < n => Newer(shown[m], shown[n])
    /\ pager.state = "done" => due \subseteq Range(shown)
=============================================================================
