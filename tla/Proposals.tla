----------------------------- MODULE Proposals -----------------------------
(***************************************************************************)
(* The proposal ledger of one copy: application_proposals with their       *)
(* consent events and the daily cap (services/proposals.py,                *)
(* routers/proposals.py), and the applications whose status moves with     *)
(* them (services/application_status.py, routers/applications.py).         *)
(*                                                                         *)
(* Every request has two steps.  In the first it loads its rows and        *)
(* decides; in the second it commits.  SQLAlchemy writes only the columns  *)
(* that the request changed, by primary key, and nothing compares the row  *)
(* with what was loaded.  Only a create holds the write lock from its      *)
(* check to its insert (begin_write).                                      *)
(*                                                                         *)
(* Settings (full automation, the skip list) can be switched between any   *)
(* two requests, so a check of one may always refuse; which channel gave a *)
(* consent is left out, since chat may give any.                           *)
(*                                                                         *)
(* A job goes with its applications, its proposals and their consent       *)
(* events (ON DELETE CASCADE), whatever their status.                      *)
(***************************************************************************)
EXTENDS Integers, FiniteSets

CONSTANTS
  Jobs, Proposals, Applications,
  JobOf,          \* the job of an application
  AgentJobs,      \* the jobs an agent captured (Job.source)
  Requests,       \* as many requests as may be in flight at once
  MaxPerDay,      \* max_submissions_per_day
  LastDay,        \* bounds the days that pass
  Windows,        \* the overlaps that may happen: "stale", "cap"
  NoApp, NoLock

ASSUME ConstantsOK ==
  /\ Jobs # {} /\ IsFiniteSet(Proposals)
  /\ JobOf \in [Applications -> Jobs]
  /\ AgentJobs \subseteq Jobs
  /\ MaxPerDay \in Nat /\ LastDay \in Nat \ {0}
  /\ Windows \subseteq {"stale", "cap"}
  /\ NoApp \notin Applications
  /\ NoLock \notin Requests

VARIABLES
  props,    \* the rows of application_proposals
  ledger,   \* the actions of each proposal's consent events
  apps,     \* the status of each application
  dropped,  \* the jobs that are deleted
  requests, \* the request that is in flight in each slot
  lock,     \* the request that holds the write lock past its first step
  day       \* the day; one passes as more than 24 hours do

vars == <<props, ledger, apps, dropped, requests, lock, day>>

-----------------------------------------------------------------------------
(* Statuses, models/application_proposal.py and services/proposals.py *)

OpenStatuses == {"pending_review", "needs_decision", "accepted", "approved", "needs_human"}
Terminal == {"submitted", "rejected", "expired"}
Expiring == {"pending_review", "needs_decision"}
Statuses == OpenStatuses \cup Terminal \cup {"submission_uncertain", "none", "deleted"}

Allowed(from) ==
  CASE from = "pending_review" ->
         {"accepted", "approved", "rejected", "needs_decision", "needs_human", "expired"}
    [] from = "needs_decision" -> {"pending_review", "rejected", "expired"}
    [] from = "accepted" -> {"approved", "rejected", "needs_human"}
    [] from = "approved" -> {"submitted", "needs_human", "rejected", "submission_uncertain"}
    [] from = "needs_human" -> {"approved", "rejected", "pending_review"}
    [] from = "submission_uncertain" -> {"submitted"}
    [] OTHER -> {}

(* The consent events that are kept here; "accepted" and "rejected" are    *)
(* written the same way as "approved".                                     *)
Actions == {"approved", "submitted"}

(* What PATCH may name; "expired" is the server's own. *)
Asked == {"pending_review", "needs_decision", "accepted", "approved", "submitted",
          "rejected", "needs_human", "submission_uncertain"}

MayAttachEvidence == {"pending_review", "accepted", "needs_human", "approved"}

(* manual: its reason is APPLIED_MANUALLY.  reviewed: the applications     *)
(* that the final reviews among the evidence were taken of; whether a      *)
(* submission receipt is among it too is for the submit to say.  slot: the *)
(* day of cap_reserved_at, 0 for none.  filed: the day it was created.     *)
Row == [status : Statuses, job : Jobs, app : Applications \cup {NoApp},
        manual : BOOLEAN, reviewed : SUBSET (Applications \cup {NoApp}),
        slot : 0..LastDay, filed : 0..LastDay]

NotFiled == [status |-> "none", job |-> CHOOSE j \in Jobs : TRUE, app |-> NoApp,
             manual |-> FALSE, reviewed |-> {}, slot |-> 0, filed |-> 0]

Exists(p) == props[p].status \notin {"none", "deleted"}

(* An application's status: SUBMITTED_STAGES are one, "applied"; "closed"  *)
(* is rejected, withdrawn or skipped.                                      *)
AppStatuses == {"none", "draft", "applied", "closed", "gone"}
Live(a) == apps[a] \notin {"none", "gone"}
IsApplied(a) == a # NoApp /\ apps[a] = "applied"

-----------------------------------------------------------------------------
(* Requests in flight *)

(* seen and new: the loaded and the changed rows; marks: applications that *)
(* get a status; doomed: a proposal to delete; drops: a job to delete.     *)
NoRows == [p \in {} |-> NotFiled]
NoMarks == [a \in {} |-> "draft"]
Idle == [seen |-> NoRows, new |-> NoRows, events |-> {}, marks |-> NoMarks,
         doomed |-> {}, drops |-> {}]

(* The jobs a request is about: of its rows, and of the applications that  *)
(* these link or that it marks.                                            *)
LinkedJob(row) == {JobOf[a] : a \in {row.app} \ {NoApp}}
About(row) == {row.job} \cup LinkedJob(row)
JobsOf(q) ==
  (UNION {About(q.new[p]) \cup LinkedJob(q.seen[p]) : p \in DOMAIN q.new})
  \cup (UNION {About(props[p]) : p \in q.doomed})
  \cup {JobOf[a] : a \in DOMAIN q.marks} \cup q.drops

Touched(q) == DOMAIN q.new \cup q.doomed
InFlight(r) == requests[r] # Idle
Files(q) == \E p \in DOMAIN q.new : q.seen[p].status = "none"

(* With "stale" closed, requests about one job do not overlap, except that *)
(* creates may try to.                                                     *)
Apart(r, q) ==
  \/ "stale" \in Windows
  \/ \A other \in Requests \ {r} :
       \/ JobsOf(q) \cap JobsOf(requests[other]) = {}
       \/ Files(q) /\ Files(requests[other])

Reserves(q) == \E p \in DOMAIN q.new : q.new[p].slot # q.seen[p].slot /\ q.new[p].slot # 0
CapUncontested(r) ==
  \/ "cap" \in Windows
  \/ \A other \in Requests \ {r} : ~Reserves(requests[other])

Begin(r, q) ==
  /\ ~InFlight(r) /\ Apart(r, q)
  /\ requests' = [requests EXCEPT ![r] = q]
  /\ UNCHANGED <<props, ledger, apps, dropped, day>>

Change(r, seen, new, events, marks) ==
  Begin(r, [Idle EXCEPT !.seen = seen, !.new = new, !.events = events, !.marks = marks])

(* A request that changes the one proposal p. *)
ChangeOne(r, p, row, actions, marks) ==
  /\ Change(r, [x \in {p} |-> props[p]], [x \in {p} |-> row], {p} \X actions, marks)
  /\ UNCHANGED lock

Marked(app, status) == IF app = NoApp THEN NoMarks ELSE [a \in {app} |-> status]
-----------------------------------------------------------------------------
(* services/proposals.py: transition *)

Sent(row, to) == IF to = "submitted" THEN Marked(row.app, "applied") ELSE NoMarks

CapReached == Cardinality({p \in Proposals : Exists(p) /\ props[p].slot = day}) >= MaxPerDay

(* What transition checks, without the consent, which the caller can give. *)
CanMove(row, to, attested) ==
  /\ to \in Allowed(row.status)
  /\ to = "approved" =>
       /\ row.reviewed # {}
       /\ ~IsApplied(row.app)
  /\ to = "submitted" => attested \/ row.status # "submission_uncertain"

(* _reserve_cap and _release_cap *)
\* mutant: a rejection keeps the slot
SlotKept(row, to) == IF to = "approved" /\ row.slot = 0 THEN day ELSE row.slot

Slot(row, to) ==
  CASE to = "approved" /\ row.slot = 0 -> day
    [] to = "rejected" -> 0
    [] OTHER -> row.slot

CanReserve(r, row, to) ==
  to = "approved" /\ row.slot = 0 => ~CapReached /\ CapUncontested(r)

Moved(row, to) == [row EXCEPT !.status = to, !.slot = Slot(row, to)]

RecordedSubmit(to, attested) == IF to = "submitted" /\ attested THEN {to} ELSE {}  \* mutant

Recorded(to, attested) ==
  IF to = "approved" \/ (to = "submitted" /\ attested) THEN {to} ELSE {}

-----------------------------------------------------------------------------
(* routers/proposals.py *)

(* PATCH, and each row of the bulk transition: it may link an application  *)
(* first, if the row has none yet.                                         *)
TransitionProposal(r, p, to, attested, link) ==
  LET row == IF link = NoApp THEN props[p] ELSE [props[p] EXCEPT !.app = link]
  IN  /\ Exists(p)
      /\ link # NoApp => /\ Live(link) /\ JobOf[link] = row.job
                         /\ props[p].app \in {NoApp, link}
      /\ ~(to = "pending_review" /\ row.status = "needs_decision")
      /\ CanMove(row, to, attested) /\ CanReserve(r, row, to)
      /\ ChangeOne(r, p, Moved(row, to), Recorded(to, attested), Sent(row, to))

(* The decision that a needs_decision proposal waits for: the application  *)
(* is given, of whatever job, or is the job's newest one, unless the row   *)
(* has one.                                                                *)
RecordDecision(r, p, a) ==
  /\ Exists(p) /\ props[p].status = "needs_decision"
  /\ Live(a)
  /\ props[p].app \in {NoApp, a}
  /\ ChangeOne(r, p, Moved([props[p] EXCEPT !.app = a], "pending_review"), {}, NoMarks)

RequestDecision(r, p) ==
  /\ Exists(p)
  /\ CanMove(props[p], "needs_decision", FALSE)
  /\ ChangeOne(r, p, Moved(props[p], "needs_decision"), {}, NoMarks)

ResumeProposal(r, p) ==
  /\ props[p].status = "needs_human"
  /\ ChangeOne(r, p, Moved([props[p] EXCEPT !.slot = 0], "pending_review"), {}, NoMarks)

ReportFailure(r, p, to) ==
  /\ Exists(p)
  /\ CanMove(props[p], to, FALSE)
  /\ ChangeOne(r, p, Moved(props[p], to), {}, NoMarks)

(* POST evidence: only while the agent's job has an open proposal; a job   *)
(* the user saved is not gated.                                            *)
UploadEvidence(r, p) ==
  /\ Exists(p)
  /\ props[p].job \in AgentJobs => props[p].status \in MayAttachEvidence
  /\ props[p].app # NoApp
  /\ ChangeOne(r, p, [props[p] EXCEPT !.reviewed = @ \cup {props[p].app}], {}, NoMarks)

(* POST companion-submitted: the user pressed Submit and the Companion saw *)
(* the confirmation.  Approved and submitted in one commit, or, when the   *)
(* cap or the skip list refuses, closed as applied by the user.            *)
CompanionSubmitted(r, p) ==
  LET row == [props[p] EXCEPT !.reviewed = @ \cup {props[p].app}]
  IN  /\ props[p].status = "accepted"
      /\ CanMove(row, "approved", FALSE) /\ CanReserve(r, row, "approved")
      /\ ChangeOne(r, p, Moved(Moved(row, "approved"), "submitted"),
                   {"approved", "submitted"}, Sent(row, "submitted"))

AppliedYourself(r, p) ==
  /\ props[p].status = "accepted"
  /\ ChangeOne(r, p, Moved([props[p] EXCEPT !.manual = TRUE], "rejected"), {},
               Sent(props[p], "submitted"))

\* mutant: one that may have been sent can be deleted
DeleteUnsubmitted(r, p) ==
  /\ Exists(p) /\ props[p].status # "submitted"
  /\ Begin(r, [Idle EXCEPT !.doomed = {p}])
  /\ UNCHANGED lock

(* DELETE: a submitted proposal's record is kept. *)
DeleteProposal(r, p) ==
  /\ Exists(p) /\ props[p].status \notin {"submitted", "submission_uncertain"}
  /\ Begin(r, [Idle EXCEPT !.doomed = {p}])
  /\ UNCHANGED lock

(* expire_stale, which the reads of the inbox run first. *)
ExpireStale(r) ==
  LET stale == {p \in Proposals : props[p].status \in Expiring /\ props[p].filed < day}
      expired == [p \in stale |->
                    [props[p] EXCEPT !.status = "expired"]]
  IN  /\ stale # {}
      /\ Change(r, [p \in stale |-> props[p]], expired, {}, NoMarks)
      /\ UNCHANGED lock

(* POST: the only request that takes the write lock before it looks.       *)
Open(j) == {p \in Proposals : props[p].status \in OpenStatuses /\ props[p].job = j}
Closed(j) == {p \in Proposals : props[p].status = "rejected" /\ props[p].job = j}

\* mutant: a final review of the draft it leaves does not matter
MayRelinkReviewed(p, a) ==
  props[p].status = "accepted" /\ apps[a] = "draft" /\ apps[props[p].app] = "draft"

MayRelink(p, a) ==
  /\ props[p].status = "accepted" /\ props[p].reviewed = {}
  /\ apps[a] = "draft"
  /\ apps[props[p].app] = "draft"

(* The skipped jobs and those the user applied to are not filed again.     *)
Declined(j) ==
  \E p \in Closed(j) :
     props[p].manual =>
       \E a \in Applications : JobOf[a] = j /\ IsApplied(a)

LooksFirst(r) == NoLock  \* mutant: the check is made without the lock
Locks(r) == r

LateLink(r, p, a) ==
  /\ a # NoApp
  /\ props[p].app = NoApp \/ (props[p].app \notin {NoApp, a} /\ MayRelink(p, a))
  /\ Change(r, [x \in {p} |-> props[p]], [x \in {p} |-> [props[p] EXCEPT !.app = a]],
            {}, NoMarks)

File(r, j, a) ==
  /\ ~Declined(j)
  /\ \E p \in Proposals :
       /\ props[p].status = "none"
       /\ \A other \in Requests : p \notin DOMAIN requests[other].new
       /\ Change(r, [x \in {p} |-> props[p]],
                 [x \in {p} |-> [NotFiled EXCEPT !.status = "pending_review", !.job = j,
                                                 !.app = a, !.filed = day]],
                 {}, NoMarks)

CreateProposal(r, j, a) ==
  /\ lock = NoLock /\ lock' = Locks(r)
  /\ j \notin dropped
  /\ a # NoApp => Live(a) /\ JobOf[a] = j
  /\ \/ \E p \in Open(j) : LateLink(r, p, a)
     \/ Open(j) = {} /\ File(r, j, a)

-----------------------------------------------------------------------------
(* routers/applications.py and services/application_writes.py *)

ChangeApplication(r, a, to, new) ==
  /\ Change(r, [p \in DOMAIN new |-> props[p]], new, {}, Marked(a, to))
  /\ UNCHANGED lock

(* PATCH status.  Applied or skipped declines the open proposals of the    *)
(* job (_close_open_proposals), rejected or withdrawn does not.            *)
PatchApplication(r, a, to, declines) ==
  /\ Live(a)
  /\ to = "applied" => declines
  /\ to = "draft" => ~declines
  /\ LET closes == IF declines THEN Open(JobOf[a]) ELSE {}
         new == [p \in {q \in closes : "rejected" \in Allowed(props[q].status)} |->
                   Moved([props[p] EXCEPT !.manual = @ \/ to = "applied"], "rejected")]
     IN  ChangeApplication(r, a, to, new)

DeleteApplication(r, a) == Live(a) /\ ChangeApplication(r, a, "gone", NoRows)

(* A job has one application: a tailor or from-base makes one only if it   *)
(* has none.                                                               *)
NewDraft(r, a) ==
  /\ apps[a] = "none" /\ JobOf[a] \notin dropped
  /\ \A b \in Applications : JobOf[b] = JobOf[a] => ~Live(b)
  /\ \A other \in Requests : a \notin DOMAIN requests[other].marks
  /\ ChangeApplication(r, a, "draft", NoRows)

(* routers/jobs.py delete_job: it asks nothing of the job's proposals.     *)
DeleteJob(r, j) ==
  /\ j \notin dropped
  /\ Begin(r, [Idle EXCEPT !.drops = {j}])
  /\ UNCHANGED lock

-----------------------------------------------------------------------------
(* The second step *)

(* The columns that the request changed are written, the others stay. *)
Merged(now, seen, new) ==
  [f \in DOMAIN now |-> IF new[f] = seen[f] THEN now[f] ELSE new[f]]

(* A row that is gone, or a reference to an application or a job that is   *)
(* gone, fails the whole commit.                                           *)
CanCommit(q) ==
  /\ \A p \in Touched(q) : props[p].status # "deleted"
  /\ \A p \in DOMAIN q.new :
       /\ q.new[p].job \notin dropped
       /\ LET a == q.new[p].app IN a \notin {q.seen[p].app, NoApp} => apps[a] # "gone"
  /\ \A a \in DOMAIN q.marks : apps[a] # "gone" /\ JobOf[a] \notin dropped

(* The rows that a commit deletes, and the applications: a job's own go    *)
(* with it, whatever they are by then.                                     *)
Doomed(q) == q.doomed \cup {p \in Proposals : Exists(p) /\ props[p].job \in q.drops}
Freed(q) ==
  {a \in DOMAIN q.marks : q.marks[a] = "gone"}
  \cup {a \in Applications : Live(a) /\ JobOf[a] \in q.drops}

Gone == [NotFiled EXCEPT !.status = "deleted"]

Written(q, p) ==
  LET row == IF p \in Doomed(q) THEN Gone
             ELSE IF p \in DOMAIN q.new THEN Merged(props[p], q.seen[p], q.new[p])
             ELSE props[p]
  IN  IF row.app \in Freed(q) THEN [row EXCEPT !.app = NoApp] ELSE row

Events(q, p) ==
  IF p \in Doomed(q) THEN {}
  ELSE ledger[p] \cup {action \in Actions : <<p, action>> \in q.events}

Status(q, a) ==
  IF a \in Freed(q) THEN "gone" ELSE IF a \in DOMAIN q.marks THEN q.marks[a] ELSE apps[a]

Done(r) ==
  /\ requests' = [requests EXCEPT ![r] = Idle]
  /\ lock' = IF lock = r THEN NoLock ELSE lock

Commit(r) ==
  LET q == requests[r]
  IN  /\ InFlight(r) /\ lock \in {NoLock, r}
      /\ CanCommit(q)
      /\ props' = [p \in Proposals |-> Written(q, p)]
      /\ ledger' = [p \in Proposals |-> Events(q, p)]
      /\ apps' = [a \in Applications |-> Status(q, a)]
      /\ dropped' = dropped \cup q.drops
      /\ Done(r)
      /\ UNCHANGED day

(* The request fails before or at its commit: nothing is written. *)
Fail(r) == InFlight(r) /\ Done(r) /\ UNCHANGED <<props, ledger, apps, dropped, day>>

Tomorrow ==
  /\ day < LastDay /\ day' = day + 1
  /\ UNCHANGED <<props, ledger, apps, dropped, requests, lock>>

-----------------------------------------------------------------------------
Init ==
  /\ props = [p \in Proposals |-> NotFiled]
  /\ ledger = [p \in Proposals |-> {}]
  /\ apps \in [Applications -> {"none", "draft"}]
  /\ dropped = {}
  /\ requests = [r \in Requests |-> Idle]
  /\ lock = NoLock
  /\ day = 1

NewRequest(r) ==
  \/ ExpireStale(r)
  \/ \E p \in Proposals :
       \/ \E to \in Asked \cap Allowed(props[p].status), attested \in BOOLEAN,
             link \in Applications \cup {NoApp} :
            /\ attested => to = "submitted"
            /\ TransitionProposal(r, p, to, attested, link)
       \/ \E a \in Applications : RecordDecision(r, p, a)
       \/ RequestDecision(r, p)
       \/ ResumeProposal(r, p)
       \/ \E to \in {"needs_human", "submission_uncertain"} : ReportFailure(r, p, to)
       \/ UploadEvidence(r, p)
       \/ CompanionSubmitted(r, p) \/ AppliedYourself(r, p)
       \/ DeleteProposal(r, p)
  \/ \E j \in Jobs :
       \/ \E a \in Applications \cup {NoApp} : CreateProposal(r, j, a)
       \/ DeleteJob(r, j)
  \/ \E a \in Applications :
       \/ \E to \in {"draft", "applied", "closed"}, declines \in BOOLEAN :
            PatchApplication(r, a, to, declines)
       \/ DeleteApplication(r, a) \/ NewDraft(r, a)

Next ==
  \/ Tomorrow
  \/ \E r \in Requests :
       \/ Commit(r) \/ Fail(r)
       \/ ~InFlight(r) /\ NewRequest(r)

Spec == Init /\ [][Next]_vars

-----------------------------------------------------------------------------
(* Properties *)

(* The rows, the ledger, the requests and the lock stay in their domains.  *)
TypeOK ==
  /\ props \in [Proposals -> Row]
  /\ ledger \in [Proposals -> SUBSET Actions]
  /\ apps \in [Applications -> AppStatuses]
  /\ \A r \in Requests :
       /\ DOMAIN requests[r].new \subseteq Proposals
       /\ requests[r].seen \in [DOMAIN requests[r].new -> Row]
       /\ requests[r].new \in [DOMAIN requests[r].new -> Row]
       /\ requests[r].events \subseteq Proposals \X Actions
       /\ DOMAIN requests[r].marks \subseteq Applications
       /\ requests[r].marks \in [DOMAIN requests[r].marks -> AppStatuses]
       /\ requests[r].doomed \subseteq Proposals /\ requests[r].drops \subseteq Jobs
  /\ dropped \subseteq Jobs
  /\ lock \in Requests \cup {NoLock}
  /\ day \in 1..LastDay

(* A job has at most one open proposal, however many creates look before   *)
(* either inserts (create_proposal under begin_write, no unique index).    *)
OneOpenProposalPerJob == \A j \in Jobs : \A p, q \in Open(j) : p = q

(* Whatever overlaps, a proposal that is approved, sent or perhaps sent    *)
(* has its approval in the ledger (transition writes both in one commit).  *)
SubmittedIsConsented ==
  \A p \in Proposals :
     props[p].status \in {"approved", "submitted", "submission_uncertain"} =>
       "approved" \in ledger[p]

(* A proposal is not moved to an application that its final review did not *)
(* show, unless the reviewed one was deleted (_may_relink).                *)
ReviewedIsLinked ==
  \A p \in Proposals :
     \A a \in props[p].reviewed : a # props[p].app => a = NoApp \/ apps[a] = "gone"

(* An approval holds a slot until it is known not to be used, a rejected   *)
(* proposal holds none, and no day has more slots than the cap (_reserve_cap, *)
(* _release_cap, cap_status).                                              *)
CapHolds ==
  /\ \A p \in Proposals :
       /\ props[p].status \in {"approved", "submission_uncertain", "submitted"} =>
            props[p].slot # 0
       /\ props[p].status = "rejected" => props[p].slot = 0
  /\ \A d \in 1..LastDay : Cardinality({p \in Proposals : props[p].slot = d}) <= MaxPerDay

(* The record of a sent application, or of one that may have been sent,    *)
(* goes only with its whole job: until then nothing deletes it, reopens it *)
(* or takes an event from it, and one that may have been sent only becomes *)
(* sent (ALLOWED, delete_proposal, delete_job).                            *)
SentIsKept ==
  [][\A p \in Proposals :
       props[p].status \in {"submitted", "submission_uncertain"} =>
         \/ /\ props'[p].status \in {"submitted", props[p].status}
            /\ ledger[p] \subseteq ledger'[p]
         \/ props[p].job \in dropped' \ dropped]_vars

(* A sent application's record outlives everything (claimed by the answer  *)
(* to delete_proposal, "its record is kept as proof"); false of delete_job. *)
RecordOutlivesJob ==
  [][\A p \in Proposals :
       props[p].status = "submitted" => props'[p].status = "submitted"]_vars

(* A job that may have been applied to is not consented to again (claimed  *)
(* by docs/playbooks/agent-apply.md, "Never click submit again").          *)
NeverSentAgain ==
  \A p, q \in Proposals :
     props[p].status = "submission_uncertain" /\ props[q].status = "approved"
       => props[p].job # props[q].job
=============================================================================
