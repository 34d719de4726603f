----------------------------- MODULE MCAccounts -----------------------------
(***************************************************************************)
(* The auth-service as a whole: signup and risk, merges and appeals,       *)
(* logins, keys, notifications, deletions, exports and the audit log over  *)
(* one database, and what its handlers keep true between them.  In the     *)
(* instance for TLC every behaviour follows one story; the parts that can  *)
(* meet in a property appear in the same story.                            *)
(***************************************************************************)
EXTENDS DataExports, TLC

vars == <<accountVars, mergeVars, accessVars, exportVars, auditVars, requestVars>>

Init == RiskInit /\ MergeInit /\ AccessInit /\ ExportInit /\ AuditInit

RiskPart == FlagNext /\ UNCHANGED <<mergeVars, accessVars, exportVars, auditVars>>
SignupPart == ConsentNext /\ UNCHANGED <<mergeVars, accessVars, exportVars, auditVars>>
MergePart == MergeNext /\ UNCHANGED <<accessVars, exportVars, auditVars>>
KeyPart == KeyNext /\ UNCHANGED <<exportVars, auditVars>>
LoginPart == LoginNext /\ UNCHANGED <<exportVars, auditVars>>
DeletionPart == DeletionNext /\ UNCHANGED <<exportVars, auditVars>>
NotificationPart == NotificationNext /\ UNCHANGED <<exportVars, auditVars>>
ExportPart == ExportNext /\ UNCHANGED auditVars
AuditPart ==
    AuditNext /\ UNCHANGED <<accountVars, mergeVars, accessVars, exportVars, requestVars>>
RollbackPart == RollbackNext /\ UNCHANGED <<mergeVars, accessVars, exportVars, auditVars>>

Next ==
    \/ SignupPart \/ RiskPart \/ MergePart \/ KeyPart \/ LoginPart
    \/ DeletionPart \/ NotificationPart \/ ExportPart \/ AuditPart \/ RollbackPart

Spec == Init /\ [][Next]_vars

-----------------------------------------------------------------------------
VARIABLE story

Registered == {u \in Users : user[u].registered}

Stories == {"signup", "risk", "merge", "retire", "login", "notify", "export",
            "audit"}

(* Stories about signups begin with nobody, the others with everybody. *)
MCInit ==
    /\ Init
    /\ story \in Stories
    /\ Registered = IF story \in {"signup", "risk"} THEN {} ELSE Users
    /\ story # "notify" => prefs = {}

MCNext ==
    /\ UNCHANGED story
    /\ \/ story = "signup" /\ SignupPart
       \/ story = "risk" /\ (SignupPart \/ RiskPart) /\ consents' = <<>>
       \/ story = "merge" /\ (RiskPart \/ MergePart)
       \/ story = "retire" /\ (MergePart \/ RiskPart \/ KeyPart \/ DeletionPart)
       \/ story = "login" /\ (LoginPart \/ DeletionPart)
       \/ story = "notify" /\ (NotificationPart \/ DeletionPart)
       \/ story = "export" /\ (ExportPart \/ DeletionPart)
       \/ story = "audit" /\ AuditPart
       \/ RollbackPart
    (* What is checked of these stories is about requests that do not overlap. *)
    /\ story \in {"risk", "merge", "retire"} => overlaps' = 0
    (* What a story needs of the parts it takes along. *)
    /\ story \in {"risk", "retire"} => links' = links
    /\ story = "merge" => links'["u1"] = {} /\ links'["u2"] \subseteq {"u1"}
    /\ story = "retire" => Len(appeals') = 0 /\ Len(proposals') <= 1

MCSpec == MCInit /\ [][MCNext]_<<vars, story>>

WorkerSymmetry == Permutations(Workers) \cup Permutations(Exporters)

Networks == [u \in Users |-> "net"]
Domains == [u \in Users |-> IF u = "u2" THEN "b.example" ELSE "a.example"]

-----------------------------------------------------------------------------
(* As long as no requests overlap, an account flagged for as many enabled  *)
(* rules as the threshold asks for is frozen, unless somebody lifted the   *)
(* freeze, a merge resolved it or the account was erased after the last    *)
(* flag.  Two flags that do overlap each count one rule and freeze nobody. *)
FlaggedAccountsAreFrozen ==
    overlaps = 0 =>
        \A u \in Users :
            Cardinality(flags[u] \cap EnabledRules) >= FREEZE_THRESHOLD /\ ~pardoned[u]
                => user[u].frozen

(* As long as no requests overlap, every chain of merged accounts ends in  *)
(* an account that is not merged: two accounts can never be retired in     *)
(* favour of each other, although each may hold an approved proposal for   *)
(* the other.                                                              *)
SomeoneRemains ==
    overlaps = 0 =>
        \A S \in SUBSET Users :
            S # {} => ~\A u \in S : user[u].merged \in S

(* As long as no requests overlap, a merged or deleted account holds no    *)
(* usable API key, whichever way it was retired.                           *)
RetiredAccountsHoldNoKey ==
    overlaps = 0 => \A u \in Users : Retired(u) => keys[u] # "active"

(* As long as no requests overlap, an appeal marked as accepted stands for *)
(* a merge that took place: its proposal is the user's own and accepted.   *)
(* A stale review can put an accepted proposal back to approved.           *)
AcceptedAppealsWereMerged ==
    overlaps = 0 =>
        \A a \in DOMAIN appeals :
            appeals[a].status = "accepted" =>
                /\ appeals[a].proposal \in DOMAIN proposals
                /\ proposals[appeals[a].proposal].requester = appeals[a].user
                /\ proposals[appeals[a].proposal].status = "accepted"

(* However signups overlap, the account of a minor rests on exactly one    *)
(* confirmed consent for that person; as long as none overlaps with a      *)
(* refresh, the consent was given for the age of the signup.  A consent    *)
(* that is refreshed while it is being confirmed changes age afterwards.   *)
MinorsHaveConsent ==
    \A u \in Users :
        user[u].registered /\ user[u].age \in Ages =>
            \E i \in DOMAIN consents :
                /\ consents[i].confirmed /\ consents[i].who = u
                /\ overlaps = 0 => consents[i].age = user[u].age
                /\ \A j \in DOMAIN consents :
                     consents[j].confirmed /\ consents[j].who = u => j = i

(* As long as no requests overlap, a pair of one-time passwords opens at   *)
(* most one session.                                                       *)
OtpOpensOneSession ==
    overlaps = 0 => \A u \in Users : \A i \in DOMAIN logins[u] : logins[u][i] <= 1

(* However fan-outs of an incident overlap, a subscriber gets one          *)
(* notification request, and each request one outbox event.                *)
OneEventPerNotification ==
    \A i \in Incidents : \A u \in Users :
        events[i][u] = IF u \in notified[i] THEN 1 ELSE 0

(* However workers interleave and crash, an export is announced as         *)
(* completed once, and exactly when it is.                                 *)
ExportAnnouncedOnce ==
    \A i \in DOMAIN exports :
        announced[i] = IF exports[i].status = "completed" THEN 1 ELSE 0

(* A user has at most one export of a format that is queued or can still   *)
(* be downloaded.                                                          *)
OneActiveExport ==
    \A i, j \in DOMAIN exports :
        /\ exports[i].user = exports[j].user /\ exports[i].format = exports[j].format
        /\ \A k \in {i, j} : exports[k].status \in {"queued", "completed"} /\ ~exports[k].expired
        => i = j

(* A package is not read in one snapshot, but in an order that keeps it    *)
(* honest: an erased profile comes with the completed deletion request.    *)
ErasedProfileIsExplained ==
    \A i \in DOMAIN exports :
        exports[i].package.profile = "erased" => exports[i].package.deletion = "completed"

(* Freezes and merges do what they record: a flagged account is frozen,     *)
(* somebody remains of merged accounts, an accepted appeal was merged.      *)
FreezesAndMergesSound ==
    FlaggedAccountsAreFrozen /\ SomeoneRemains /\ AcceptedAppealsWereMerged

(* Nobody has access or is told anything beyond their due: no key of a      *)
(* retired account, no minor without consent, one session for a one-time    *)
(* password, one event for a notification.                                  *)
AccessSound ==
    /\ RetiredAccountsHoldNoKey /\ MinorsHaveConsent
    /\ OtpOpensOneSession /\ OneEventPerNotification

(* What users are shown of their data is whole: exports are announced once, *)
(* one at a time, their packages explain themselves, and the pages of the   *)
(* audit log leave nothing out.                                             *)
ExportsAndPagesSound ==
    ExportAnnouncedOnce /\ OneActiveExport /\ ErasedProfileIsExplained /\ PagesAreComplete
=============================================================================
