---------------------------- MODULE AccountMerge ----------------------------
(***************************************************************************)
(* The way out of a freeze: a proposal to merge duplicate accounts into    *)
(* the frozen one, its review, its acceptance, and the public appeal that  *)
(* leads a user there without a session.                                   *)
(***************************************************************************)
EXTENDS AccountRisk

CONSTANTS
    Domain,         \* the domain of a user's email
    AUTO_APPROVE_THRESHOLD,  \* in tenths
    MaxProposals,   \* bound: account_merge_proposals rows
    MaxAppeals      \* bound: account_freeze_appeals rows

ASSUME MergeAssumption == DOMAIN Domain = Users /\ AUTO_APPROVE_THRESHOLD \in 0 .. 10

VARIABLES
    proposals,  \* the rows, in the order of creation
    appeals     \* the rows; past says that expires_at lies behind the clock

mergeVars == <<proposals, appeals>>

MergeInit == proposals = <<>> /\ appeals = <<>>

_is_tombstoned(u) == user[u].deleted

Retired(u) == _is_tombstoned(u) \/ user[u].merged # Nobody

_has_merge_signal(u, v) ==
    \/ Domain[u] = Domain[v]
    \/ flags[u] # {} /\ flags[v] # {}
    \/ v \in links[u]

_calculate_auto_score(u, dups, reason) ==
    5 + (IF \A v \in dups : Domain[u] = Domain[v] THEN 2 ELSE 0)
      + (IF flags[u] # {} /\ \A v \in dups : flags[v] # {} THEN 2 ELSE 0)
      + (IF reason THEN 1 ELSE 0)

(* The pending states of a proposal, which an appeal picks up. *)
NonTerminal == {"pending_review", "approved", "auto_approved"}
Approved == {"approved", "auto_approved"}

(* What a proposal asks for: the duplicates, a team of three or more, a    *)
(* reason of eight characters or more.                                     *)
Bodies == [dups : SUBSET Users \ {{}}, team : BOOLEAN, reason : BOOLEAN]

Proposable(u, body) ==
    /\ user[u].registered /\ ~Retired(u) /\ user[u].frozen
    /\ u \notin body.dups
    /\ \A v \in body.dups : user[v].registered /\ ~Retired(v) /\ _has_merge_signal(u, v)

NewProposal(u, body) ==
    [requester |-> u, dups |-> body.dups,
     status |-> IF ~body.team
                   /\ _calculate_auto_score(u, body.dups, body.reason) >= AUTO_APPROVE_THRESHOLD
                THEN "auto_approved" ELSE "pending_review"]

create_merge_proposal(w, u, body) ==
    /\ Proposable(u, body)
    /\ Len(proposals) < MaxProposals
    /\ Begin(w, [op |-> "propose", row |-> NewProposal(u, body)])
    /\ UNCHANGED <<accountVars, mergeVars>>

CommitProposal(w) ==
    /\ req[w].op = "propose"
    /\ proposals' = Append(proposals, req[w].row)
    /\ Done(w)
    /\ UNCHANGED <<accountVars, appeals>>

Reviewable(p) == proposals[p].status = "pending_review"

review_merge_proposal(w, p, decision) ==
    /\ Reviewable(p)
    /\ Begin(w, [op |-> "review", p |-> p, status |-> decision])
    /\ UNCHANGED <<accountVars, mergeVars>>

CommitReview(w) ==
    LET r == req[w] IN
    /\ r.op = "review"
    /\ proposals' = [proposals EXCEPT ![r.p].status = r.status]
    /\ Done(w)
    /\ UNCHANGED <<accountVars, appeals>>

-----------------------------------------------------------------------------
(* Mutant: whether a duplicate was merged before is not looked at. *)
mergeable_unless_deleted(p) ==
    \A u \in {proposals[p].requester} \cup proposals[p].dups : ~_is_tombstoned(u)

Mergeable(p) == \A u \in {proposals[p].requester} \cup proposals[p].dups : ~Retired(u)

(* a is the appeal through which the user accepts, 0 if there is none. *)
accept_merge_proposal(w, p, a) ==
    /\ a # 0 => proposals[p].requester = appeals[a].user
    /\ proposals[p].status \in Approved
    /\ Mergeable(p)
    /\ Begin(w, [op |-> "accept", p |-> p, a |-> a])
    /\ UNCHANGED <<accountVars, mergeVars>>

(* Mutant: the API keys of the duplicates stay. *)
merge_keeping_keys(primary, dups) ==
    /\ user' = [u \in Users |->
                  CASE u = primary -> [user[u] EXCEPT !.frozen = FALSE]
                    [] u \in dups -> [user[u] EXCEPT !.frozen = TRUE, !.merged = primary]
                    [] OTHER -> user[u]]
    /\ UNCHANGED keys

Merge(primary, dups) ==
    /\ user' = [u \in Users |->
                  CASE u = primary -> [user[u] EXCEPT !.frozen = FALSE]
                    [] u \in dups -> [user[u] EXCEPT !.frozen = TRUE, !.merged = primary]
                    [] OTHER -> user[u]]
    /\ keys' = [u \in Users |->
                  IF u \in dups /\ keys[u] = "active" THEN "revoked" ELSE keys[u]]

CommitAccept(w) ==
    LET r == req[w]
        p == proposals[r.p]
    IN  /\ r.op = "accept"
        /\ Merge(p.requester, p.dups)
        /\ pardoned' = [pardoned EXCEPT ![p.requester] = TRUE]
        /\ proposals' = [proposals EXCEPT ![r.p].status = "accepted"]
        /\ appeals' = IF r.a = 0 THEN appeals ELSE [appeals EXCEPT ![r.a].status = "accepted"]
        /\ Done(w)
        /\ UNCHANGED <<flags, links, consents>>

-----------------------------------------------------------------------------
(* Appeals. *)
_latest_non_terminal_proposal(u) ==
    LET open == {p \in DOMAIN proposals :
                   proposals[p].requester = u /\ proposals[p].status \in NonTerminal}
    IN  IF open = {} THEN 0 ELSE CHOOSE p \in open : \A q \in open : q <= p

start_frozen_appeal(w, u) ==
    /\ user[u].registered /\ ~Retired(u) /\ user[u].frozen
    /\ Len(appeals) < MaxAppeals
    /\ Begin(w, [op |-> "appeal", row |-> [user |-> u, status |-> "started", past |-> FALSE,
                                          proposal |-> _latest_non_terminal_proposal(u)]])
    /\ UNCHANGED <<accountVars, mergeVars>>

CommitAppeal(w) ==
    /\ req[w].op = "appeal"
    /\ appeals' = Append(appeals, req[w].row)
    /\ Done(w)
    /\ UNCHANGED <<accountVars, proposals>>

(* APPEAL_TTL_HOURS pass. *)
AppealExpires(a) ==
    /\ ~appeals[a].past
    /\ appeals' = [appeals EXCEPT ![a].past = TRUE]
    /\ UNCHANGED <<accountVars, proposals, requestVars>>

(* Any use of an expired appeal is refused and marks the row. *)
_load_appeal_or_404(a) ==
    /\ appeals[a].past /\ appeals[a].status # "expired"
    /\ appeals' = [appeals EXCEPT ![a].status = "expired"]
    /\ AtOnce
    /\ UNCHANGED <<accountVars, proposals>>

submit_frozen_appeal_proposal(w, a, body) ==
    /\ ~appeals[a].past
    /\ appeals[a].proposal = 0
    /\ Proposable(appeals[a].user, body)
    /\ Len(proposals) < MaxProposals
    /\ Begin(w, [op |-> "submit", a |-> a, row |-> NewProposal(appeals[a].user, body)])
    /\ UNCHANGED <<accountVars, mergeVars>>

CommitSubmit(w) ==
    LET r == req[w] IN
    /\ r.op = "submit"
    /\ proposals' = Append(proposals, r.row)
    /\ appeals' = [appeals EXCEPT ![r.a].proposal = Len(proposals) + 1,
                                  ![r.a].status = "proposal_submitted"]
    /\ Done(w)
    /\ UNCHANGED accountVars

(* A proposal that was accepted elsewhere only marks the appeal. *)
accept_frozen_appeal(w, a) ==
    LET p == appeals[a].proposal IN
    /\ ~appeals[a].past
    /\ p # 0
    /\ \/ accept_merge_proposal(w, p, a)
       \/ /\ proposals[p].status = "accepted" /\ appeals[a].status # "accepted"
          /\ Begin(w, [op |-> "mark", a |-> a])
          /\ UNCHANGED <<accountVars, mergeVars>>

CommitMark(w) ==
    /\ req[w].op = "mark"
    /\ appeals' = [appeals EXCEPT ![req[w].a].status = "accepted"]
    /\ Done(w)
    /\ UNCHANGED <<accountVars, proposals>>

MergeNext ==
    \/ \E w \in Workers :
         \/ \E u \in Users : \/ \E body \in Bodies : create_merge_proposal(w, u, body)
                             \/ start_frozen_appeal(w, u)
         \/ \E p \in DOMAIN proposals : \/ accept_merge_proposal(w, p, 0)
                                        \/ \E decision \in {"approved", "rejected"} :
                                             review_merge_proposal(w, p, decision)
         \/ \E a \in DOMAIN appeals : \/ accept_frozen_appeal(w, a)
                                      \/ \E body \in Bodies :
                                           submit_frozen_appeal_proposal(w, a, body)
         \/ CommitProposal(w) \/ CommitReview(w) \/ CommitAccept(w)
         \/ CommitAppeal(w) \/ CommitSubmit(w) \/ CommitMark(w)
    \/ \E a \in DOMAIN appeals : AppealExpires(a) \/ _load_appeal_or_404(a)
=============================================================================
