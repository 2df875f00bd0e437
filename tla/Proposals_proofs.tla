-------------------------- MODULE Proposals_proofs --------------------------
(***************************************************************************)
(* Proofs about Proposals, for any jobs, proposals, applications, requests *)
(* and caps.  On every timing the rows stay well typed and consent stands  *)
(* in the ledger.  When requests about one job do not overlap, a job has   *)
(* one open proposal, the record of a sent one is kept and what a final    *)
(* review showed stays linked; and when, besides, a reservation is         *)
(* committed before the next request looks, no day has more slots than the *)
(* cap.                                                                    *)
(***************************************************************************)
EXTENDS Proposals, FiniteSetTheorems, TLAPS

NoStale == "stale" \notin Windows

Rows == UNION {[S -> Row] : S \in SUBSET Proposals}
Marks == UNION {[S -> AppStatuses] : S \in SUBSET Applications}
Request == [seen : Rows, new : Rows, events : SUBSET (Proposals \X Actions),
            marks : Marks, doomed : SUBSET Proposals, drops : SUBSET Jobs]

Typed ==
  /\ TypeOK
  /\ requests \in [Requests -> Request]
  /\ \A r \in Requests : DOMAIN requests[r].seen = DOMAIN requests[r].new

-----------------------------------------------------------------------------
(* The inductive invariant *)

Consented == {"approved", "submitted", "submission_uncertain"}
SentStatuses == {"submitted", "submission_uncertain"}

(* What a request makes of a row that is there.                            *)
Changes(was, row) ==
  /\ was.status \notin {"none", "deleted"}
  /\ row.job = was.job /\ row.status # "none"
  /\ row.status \in OpenStatuses => was.status \in OpenStatuses
  /\ was.status \in SentStatuses => row.status \in {"submitted", was.status}

(* What a create makes of a free id.                                       *)
FilesRow(was, row) == was.status = "none" /\ row.status = "pending_review" /\ Open(row.job) = {}

(* A consent that a request is about to need is in the ledger or with it.  *)
Backed(q) ==
  \A p \in DOMAIN q.new :
     q.new[p].status \in Consented =>
       \/ <<p, "approved">> \in q.events
       \/ "approved" \in ledger[p]
       \/ props[p].status = "deleted"

(* What a request loaded still stands.                                     *)
Current(q, held) ==
  /\ \A p \in DOMAIN q.new :
       /\ props[p] = q.seen[p]
       /\ Changes(q.seen[p], q.new[p]) \/ (held /\ FilesRow(q.seen[p], q.new[p]) /\ DOMAIN q.new = {p})
  /\ \A p \in q.doomed : props[p].status \notin {"none", "deleted"} \cup SentStatuses
  /\ DOMAIN q.new # {} => q.doomed = {} /\ q.drops = {}

(* What a final review showed is the row's application, or was deleted.    *)
Fits(row) == \A a \in row.reviewed : a # row.app => a = NoApp \/ apps[a] = "gone"
Linked ==
  /\ \A p \in Proposals : Fits(props[p])
  /\ \A p \in Proposals : props[p].status = "none" => props[p].app = NoApp
  /\ \A r \in Requests : \A p \in DOMAIN requests[r].new : Fits(requests[r].new[p])

(* No row outlives its job. *)
OfJobs == \A p \in Proposals : Exists(p) => props[p].job \notin dropped

Separate(q, s) == JobsOf(q) \cap JobsOf(requests[s]) = {}

Undisturbed ==
  /\ \A r \in Requests : Current(requests[r], lock = r)
  /\ \A r, s \in Requests : r # s => Separate(requests[r], s)
  /\ Linked /\ OfJobs
  /\ OneOpenProposalPerJob

Inv ==
  /\ Typed
  /\ SubmittedIsConsented
  /\ \A r \in Requests : Backed(requests[r])
  /\ NoStale => Undisturbed

-----------------------------------------------------------------------------
(* Facts about single rows and requests *)

LEMMA MergedRow ==
  ASSUME NEW now \in Row, NEW seen \in Row, NEW new \in Row
  PROVE  /\ Merged(now, seen, new) \in Row
         /\ Merged(now, seen, new).status = IF new.status = seen.status THEN now.status ELSE new.status
         /\ Merged(now, seen, new).job = IF new.job = seen.job THEN now.job ELSE new.job
         /\ Merged(now, seen, new).app = IF new.app = seen.app THEN now.app ELSE new.app
BY DEF Merged, Row

LEMMA RowTypes ==
  ASSUME NEW S \in SUBSET Proposals, NEW f \in [S -> Row]
  PROVE  f \in Rows
BY DEF Rows

LEMMA RowsAre ==
  ASSUME NEW f \in Rows
  PROVE  /\ DOMAIN f \subseteq Proposals
         /\ f \in [DOMAIN f -> Row]
         /\ \A p \in DOMAIN f : f[p] \in Row
<1> PICK S \in SUBSET Proposals : f \in [S -> Row]
  BY DEF Rows
<1> QED
  OBVIOUS

LEMMA MarksAre ==
  ASSUME NEW f \in Marks
  PROVE  /\ DOMAIN f \subseteq Applications
         /\ f \in [DOMAIN f -> AppStatuses]
<1> PICK S \in SUBSET Applications : f \in [S -> AppStatuses]
  BY DEF Marks
<1> QED
  OBVIOUS

LEMMA IdleRequest == Idle \in Request /\ DOMAIN Idle.new = {} /\ DOMAIN Idle.seen = {}
<1>1. NoRows \in [{} -> Row] /\ NoMarks \in [{} -> AppStatuses]
  BY DEF NoRows, NoMarks
<1>2. NoRows \in Rows /\ NoMarks \in Marks
  BY <1>1 DEF Rows, Marks
<1> QED
  BY <1>1, <1>2 DEF Idle, Request, NoRows

LEMMA IdleIsEmpty ==
  /\ Idle.doomed = {} /\ Idle.drops = {} /\ DOMAIN Idle.marks = {}
  /\ JobsOf(Idle) = {}
BY DEF Idle, NoMarks, NoRows, JobsOf

LEMMA JobsOfAre ==
  ASSUME NEW q
  PROVE  /\ \A p \in DOMAIN q.new :
              /\ q.new[p].job \in JobsOf(q)
              /\ About(q.new[p]) \subseteq JobsOf(q) /\ LinkedJob(q.seen[p]) \subseteq JobsOf(q)
         /\ \A p \in q.doomed : props[p].job \in JobsOf(q) /\ About(props[p]) \subseteq JobsOf(q)
         /\ \A a \in DOMAIN q.marks : JobOf[a] \in JobsOf(q)
         /\ q.drops \subseteq JobsOf(q)
<1> DEFINE Changing == UNION {About(q.new[p]) \cup LinkedJob(q.seen[p]) : p \in DOMAIN q.new}
           Deleting == UNION {About(props[p]) : p \in q.doomed}
<1>1. \A row : row.job \in About(row)
  BY DEF About
<1>2. ASSUME NEW p \in DOMAIN q.new
      PROVE  About(q.new[p]) \cup LinkedJob(q.seen[p]) \subseteq Changing
  OBVIOUS
<1>3. ASSUME NEW p \in q.doomed
      PROVE  About(props[p]) \subseteq Deleting
  OBVIOUS
<1>4. Changing \subseteq JobsOf(q) /\ Deleting \subseteq JobsOf(q)
  BY Zenon DEF JobsOf
<1>5. (\A a \in DOMAIN q.marks : JobOf[a] \in JobsOf(q)) /\ q.drops \subseteq JobsOf(q)
  BY Zenon DEF JobsOf
<1> HIDE DEF Changing, Deleting
<1> QED
  BY <1>1, <1>2, <1>3, <1>4, <1>5

LEMMA TypedRequests ==
  ASSUME NEW q \in Request, DOMAIN q.seen = DOMAIN q.new
  PROVE  /\ DOMAIN q.new \subseteq Proposals
         /\ q.seen \in [DOMAIN q.new -> Row] /\ q.new \in [DOMAIN q.new -> Row]
         /\ q.events \subseteq Proposals \X Actions
         /\ DOMAIN q.marks \subseteq Applications
         /\ q.marks \in [DOMAIN q.marks -> AppStatuses]
         /\ q.doomed \subseteq Proposals /\ q.drops \subseteq Jobs
<1>1. q.seen \in Rows /\ q.new \in Rows /\ q.marks \in Marks
  BY DEF Request
<1> QED
  BY <1>1, RowsAre, MarksAre DEF Request

LEMMA AllowedSteps ==
  ASSUME NEW from \in Statuses, NEW to \in Allowed(from)
  PROVE  /\ to \in Statuses /\ to \notin {"none", "deleted"}
         /\ from \notin {"none", "deleted"}
         /\ to \in OpenStatuses => from \in OpenStatuses
         /\ from \in SentStatuses => to = "submitted"
         /\ to \in Consented => to = "approved" \/ from \in Consented
BY DEF Allowed, Statuses, OpenStatuses, Terminal, SentStatuses, Consented

LEMMA MovedRow ==
  ASSUME Typed, NEW row \in Row, NEW to \in Statuses
  PROVE  /\ Moved(row, to) \in Row
         /\ Moved(row, to).status = to
         /\ Moved(row, to).job = row.job /\ Moved(row, to).app = row.app
         /\ Moved(row, to).reviewed = row.reviewed
<1>1. Slot(row, to) \in 0..LastDay
  BY ConstantsOK DEF Slot, Typed, TypeOK, Row
<1> QED
  BY <1>1 DEF Moved, Row

LEMMA MarkedType ==
  ASSUME NEW a \in Applications \cup {NoApp}, NEW status \in AppStatuses
  PROVE  /\ Marked(a, status) \in Marks
         /\ \A x \in DOMAIN Marked(a, status) : x = a /\ x # NoApp
<1>1. CASE a = NoApp
  <2>1. NoMarks \in [{} -> AppStatuses] /\ DOMAIN NoMarks = {}
    BY DEF NoMarks
  <2> QED
    BY <1>1, <2>1 DEF Marked, Marks
<1>2. CASE a # NoApp
  <2>1. [x \in {a} |-> status] \in [{a} -> AppStatuses]
    OBVIOUS
  <2> QED
    BY <1>2, <2>1 DEF Marked, Marks
<1> QED
  BY <1>1, <1>2

-----------------------------------------------------------------------------
(* A request begins *)

Started(r, q) ==
  /\ requests[r] = Idle /\ requests' = [requests EXCEPT ![r] = q]
  /\ UNCHANGED <<props, ledger, apps, dropped, day>>
  /\ q \in Request /\ DOMAIN q.seen = DOMAIN q.new
  /\ Backed(q)
  /\ lock' = lock \/ (lock = NoLock /\ lock' = r)
  /\ NoStale =>
       /\ Current(q, lock' = r)
       /\ \A p \in DOMAIN q.new : Fits(q.new[p])
       /\ \A s \in Requests \ {r} : Separate(q, s)

LEMMA StartedInv ==
  ASSUME Inv, NEW r \in Requests, NEW q, Started(r, q)
  PROVE  Inv'
<1> USE DEF Started
<1>1. Typed'
  <2>1. requests' \in [Requests -> Request]
    BY DEF Inv, Typed
  <2>2. \A s \in Requests : DOMAIN requests'[s].seen = DOMAIN requests'[s].new
    BY DEF Inv, Typed
  <2> QED
    BY <2>1, <2>2, TypedRequests DEF Inv, Typed, TypeOK
<1>2. SubmittedIsConsented'
  BY DEF Inv, SubmittedIsConsented
<1>3. \A s \in Requests : Backed(requests[s])'
  BY DEF Inv, Typed, Backed
<1>4. ASSUME NoStale
      PROVE  Undisturbed'
  <2>1. \A s \in Requests : Current(requests[s], lock = s)'
    <3> SUFFICES ASSUME NEW s \in Requests
                 PROVE  Current(requests[s], lock = s)'
      OBVIOUS
    <3>1. CASE s = r
      BY <1>4, <3>1 DEF Inv, Typed, Current, FilesRow, Open
    <3>2. CASE s # r
      <4>1. Current(requests[s], lock = s) /\ requests'[s] = requests[s]
        BY <1>4, <3>2 DEF Inv, Undisturbed, Typed
      <4>2. lock = s => lock' = s
        BY ConstantsOK
      <4> QED
        BY <4>1, <4>2 DEF Current, FilesRow, Open
    <3> QED
      BY <3>1, <3>2
  <2>2. \A s, t \in Requests : s # t => Separate(requests[s], t)'
    <3> SUFFICES ASSUME NEW s \in Requests, NEW t \in Requests, s # t
                 PROVE  JobsOf(requests[s])' \cap JobsOf(requests[t])' = {}
      BY DEF Separate
    <3>1. \A x \in Requests : JobsOf(requests[x])' = IF x = r THEN JobsOf(q) ELSE JobsOf(requests[x])
      BY DEF Inv, Typed, JobsOf
    <3>2. s # r => JobsOf(requests[s]) \cap JobsOf(q) = {}
      BY <1>4 DEF Separate
    <3>3. t # r => JobsOf(requests[t]) \cap JobsOf(q) = {}
      BY <1>4 DEF Separate
    <3>4. JobsOf(requests[s]) \cap JobsOf(requests[t]) = {}
      BY <1>4 DEF Inv, Undisturbed, Separate
    <3> QED
      BY <3>1, <3>2, <3>3, <3>4
  <2>3. Linked'
    BY <1>4 DEF Inv, Undisturbed, Typed, Linked, Fits
  <2>4. OneOpenProposalPerJob' /\ OfJobs'
    BY <1>4 DEF Inv, Undisturbed, OneOpenProposalPerJob, Open, OfJobs, Exists
  <2> QED
    BY <2>1, <2>2, <2>3, <2>4 DEF Undisturbed
<1> QED
  BY <1>1, <1>2, <1>3, <1>4 DEF Inv, NoStale

(* A request that changes the rows of S, which the others leave alone.     *)
Changed(r, S, seen, new, events, marks) ==
  /\ S \subseteq Proposals /\ seen \in [S -> Row] /\ new \in [S -> Row]
  /\ events \subseteq Proposals \X Actions /\ marks \in Marks
  /\ \A p \in S : seen[p] = props[p]
  /\ Change(r, seen, new, events, marks)
  /\ lock' = lock \/ (lock = NoLock /\ lock' = r)
  /\ \A p \in S : \/ Changes(props[p], new[p])
                  \/ /\ lock = NoLock /\ lock' = r
                     /\ FilesRow(props[p], new[p]) /\ S = {p}
  /\ \A p \in S : new[p].status \in Consented =>
                    <<p, "approved">> \in events \/ "approved" \in ledger[p]
  /\ NoStale => \A p \in S : Fits(new[p])

(* A create that has the lock finds no other create under way.             *)
LEMMA NoOtherFiles ==
  ASSUME Inv, NoStale, lock = NoLock, NEW s \in Requests
  PROVE  ~Files(requests[s])
<1>1. Current(requests[s], FALSE)
  BY ConstantsOK DEF Inv, Undisturbed
<1> QED
  BY <1>1 DEF Current, Files, Changes

LEMMA ChangedInv ==
  ASSUME Inv, NEW r \in Requests, NEW S, NEW seen, NEW new, NEW events, NEW marks,
         Changed(r, S, seen, new, events, marks)
  PROVE  Inv'
<1> PICK q : q = [Idle EXCEPT !.seen = seen, !.new = new, !.events = events, !.marks = marks]
  OBVIOUS
<1> USE DEF Changed
<1>1. /\ requests[r] = Idle /\ requests' = [requests EXCEPT ![r] = q] /\ Apart(r, q)
      /\ UNCHANGED <<props, ledger, apps, dropped, day>>
  BY DEF Change, Begin, InFlight
<1>2. /\ q.seen = seen /\ q.new = new /\ q.events = events /\ q.marks = marks
      /\ q.doomed = {} /\ q.drops = {}
  BY DEF Idle
<1>3. q \in Request /\ DOMAIN q.seen = DOMAIN q.new
  <2>1. seen \in Rows /\ new \in Rows
    BY RowTypes
  <2>2. q = [seen |-> seen, new |-> new, events |-> events, marks |-> marks,
             doomed |-> {}, drops |-> {}]
    BY DEF Idle
  <2> QED
    BY <2>1, <2>2 DEF Request
<1>4. Backed(q)
  BY <1>2 DEF Backed
<1>5. ASSUME NoStale
      PROVE  /\ Current(q, lock' = r)
             /\ \A p \in DOMAIN q.new : Fits(q.new[p])
             /\ \A s \in Requests \ {r} : Separate(q, s)
  <2>1. Current(q, lock' = r)
    BY <1>2 DEF Current
  <2>2. \A p \in DOMAIN q.new : Fits(q.new[p])
    BY <1>2, <1>5
  <2>3. Files(q) => lock = NoLock
    BY <1>2 DEF Files, Changes
  <2>4. \A s \in Requests \ {r} : Separate(q, s)
    BY <1>1, <1>5, <2>3, NoOtherFiles DEF Apart, NoStale, Separate
  <2> QED
    BY <2>1, <2>2, <2>4
<1>6. Started(r, q)
  BY <1>1, <1>3, <1>4, <1>5 DEF Started
<1> QED
  BY <1>6, StartedInv

(* A request that changes one row.                                         *)
LEMMA ChangeOneInv ==
  ASSUME Inv, NEW r \in Requests, NEW p \in Proposals, NEW row, NEW actions, NEW marks,
         row \in Row, actions \subseteq Actions, marks \in Marks,
         ChangeOne(r, p, row, actions, marks),
         Changes(props[p], row),
         row.status \in Consented => "approved" \in actions \/ "approved" \in ledger[p],
         NoStale => Fits(row)
  PROVE  Inv'
<1> PICK S : S = {p}
  OBVIOUS
<1> PICK seen : seen = [x \in S |-> props[x]]
  OBVIOUS
<1> PICK new : new = [x \in S |-> row]
  OBVIOUS
<1> PICK events : events = S \X actions
  OBVIOUS
<1>1. Change(r, seen, new, events, marks) /\ lock' = lock
  <2>1. seen = [x \in {p} |-> props[p]]
    OBVIOUS
  <2> QED
    BY <2>1 DEF ChangeOne
<1>2. /\ S \subseteq Proposals /\ new \in [S -> Row] /\ events \subseteq Proposals \X Actions
      /\ seen \in [S -> Row] /\ \A x \in S : seen[x] = props[x]
  BY DEF Inv, Typed, TypeOK
<1>3. /\ \A x \in S : Changes(props[x], new[x])
      /\ \A x \in S : new[x].status \in Consented =>
                       <<x, "approved">> \in events \/ "approved" \in ledger[x]
      /\ NoStale => \A x \in S : Fits(new[x])
  OBVIOUS
<1>4. Changed(r, S, seen, new, events, marks)
  BY <1>1, <1>2, <1>3 DEF Changed
<1> QED
  BY <1>4, ChangedInv

-----------------------------------------------------------------------------
(* The requests about one proposal *)

(* A request that moves a proposal along the allowed transitions.          *)
Moves(r, p, row, to, actions, marks) ==
  /\ row \in Row /\ row.status = props[p].status /\ row.job = props[p].job
  /\ NoStale => Fits(row)
  /\ Exists(p) /\ to \in Asked /\ to \in Allowed(row.status)
  /\ to = "approved" => "approved" \in actions
  /\ actions \subseteq Actions
  /\ marks = NoMarks \/ marks = Marked(row.app, "applied")
  /\ ChangeOne(r, p, Moved(row, to), actions, marks)

LEMMA MoveInv ==
  ASSUME Inv, NEW r \in Requests, NEW p \in Proposals, NEW row, NEW to,
         NEW actions, NEW marks,
         Moves(r, p, row, to, actions, marks)
  PROVE  Inv'
<1> USE DEF Moves
<1> PICK new : new = Moved(row, to)
  OBVIOUS
<1>1. /\ new \in Row /\ new.status = to /\ new.job = row.job /\ new.app = row.app
      /\ new.reviewed = row.reviewed /\ to \in Statuses
  BY MovedRow DEF Inv, Asked, Statuses, OpenStatuses, Terminal
<1>2. row.status \in Statuses /\ row.app \in Applications \cup {NoApp}
  BY DEF Row
<1>3. marks \in Marks
  <2>1. NoMarks = Marked(NoApp, "applied")
    BY DEF Marked
  <2>2. NoMarks \in Marks
    BY <2>1, MarkedType DEF AppStatuses, NoMarks
  <2> QED
    BY <1>2, <2>2, MarkedType DEF AppStatuses
<1>4. Changes(props[p], new)
  BY <1>1, <1>2, AllowedSteps DEF Changes, Exists
<1>5. new.status \in Consented => "approved" \in actions \/ "approved" \in ledger[p]
  BY <1>1, <1>2, AllowedSteps DEF Inv, SubmittedIsConsented, Consented
<1>6. NoStale => Fits(new)
  BY <1>1 DEF Fits
<1>7. ChangeOne(r, p, new, actions, marks)
  OBVIOUS
<1> QED
  BY <1>1, <1>3, <1>4, <1>5, <1>6, <1>7, ChangeOneInv

(* What Inv says of a row.                                                 *)
LEMMA RowOf ==
  ASSUME Inv, NEW p \in Proposals
  PROVE  /\ props[p] \in Row
         /\ NoStale => Fits(props[p])
BY DEF Inv, Typed, TypeOK, Undisturbed, Linked

LEMMA TransitionProposalInv ==
  ASSUME Inv, NEW r \in Requests, NEW p \in Proposals, NEW to \in Asked,
         NEW attested \in BOOLEAN, NEW link \in Applications \cup {NoApp},
         TransitionProposal(r, p, to, attested, link)
  PROVE  Inv'
<1> PICK row : row = IF link = NoApp THEN props[p] ELSE [props[p] EXCEPT !.app = link]
  OBVIOUS
<1> PICK actions : actions = Recorded(to, attested)
  OBVIOUS
<1> PICK marks : marks = Sent(row, to)
  OBVIOUS
<1>1. /\ ChangeOne(r, p, Moved(row, to), actions, marks) /\ Exists(p)
      /\ to \in Allowed(row.status)
      /\ link # NoApp => props[p].app \in {NoApp, link}
  BY DEF TransitionProposal, CanMove
<1>2. /\ row \in Row /\ row.status = props[p].status /\ row.job = props[p].job
      /\ NoStale => Fits(row)
  <2>1. CASE link = NoApp
    BY <2>1, RowOf
  <2>2. CASE link # NoApp
    <3>1. row = [props[p] EXCEPT !.app = link]
      BY <2>2
    <3>2. row \in Row /\ row.app = link
      BY <3>1, RowOf DEF Row
    <3>3. /\ row.status = props[p].status /\ row.job = props[p].job
          /\ row.reviewed = props[p].reviewed
      BY <3>1, RowOf DEF Row
    <3>4. NoStale => Fits(props[p])
      BY RowOf
    <3>5. NoStale => Fits(row)
      BY <1>1, <2>2, <3>2, <3>3, <3>4 DEF Fits
    <3> QED
      BY <3>2, <3>3, <3>5
  <2> QED
    BY <2>1, <2>2
<1>3. /\ to = "approved" => "approved" \in actions
      /\ actions \subseteq Actions
      /\ marks = NoMarks \/ marks = Marked(row.app, "applied")
  BY DEF Recorded, Sent, Actions
<1>4. Moves(r, p, row, to, actions, marks)
  BY <1>1, <1>2, <1>3 DEF Moves
<1> QED
  BY <1>4, MoveInv

LEMMA RecordDecisionInv ==
  ASSUME Inv, NEW r \in Requests, NEW p \in Proposals, NEW a \in Applications,
         RecordDecision(r, p, a)
  PROVE  Inv'
<1> PICK row : row = [props[p] EXCEPT !.app = a]
  OBVIOUS
<1>1. /\ row \in Row /\ row.status = props[p].status /\ row.job = props[p].job
      /\ NoStale => Fits(row)
  BY RowOf DEF RecordDecision, Fits, Row
<1>2. ChangeOne(r, p, Moved(row, "pending_review"), {}, NoMarks) /\ Exists(p)
  BY DEF RecordDecision
<1>3. "pending_review" \in Allowed(row.status) /\ "pending_review" \in Asked
  BY <1>1 DEF RecordDecision, Allowed, Asked
<1>4. Moves(r, p, row, "pending_review", {}, NoMarks)
  BY <1>1, <1>2, <1>3 DEF Moves
<1> QED
  BY <1>4, MoveInv

LEMMA RequestDecisionInv ==
  ASSUME Inv, NEW r \in Requests, NEW p \in Proposals, RequestDecision(r, p)
  PROVE  Inv'
<1> PICK row : row = props[p]
  OBVIOUS
<1>1. /\ ChangeOne(r, p, Moved(row, "needs_decision"), {}, NoMarks) /\ Exists(p)
      /\ "needs_decision" \in Allowed(row.status) /\ "needs_decision" \in Asked
  BY DEF RequestDecision, CanMove, Asked
<1>2. Moves(r, p, row, "needs_decision", {}, NoMarks)
  BY <1>1, RowOf DEF Moves
<1> QED
  BY <1>2, MoveInv

LEMMA ResumeProposalInv ==
  ASSUME Inv, NEW r \in Requests, NEW p \in Proposals, ResumeProposal(r, p)
  PROVE  Inv'
<1> PICK row : row = [props[p] EXCEPT !.slot = 0]
  OBVIOUS
<1>1. /\ row \in Row /\ row.status = props[p].status /\ row.job = props[p].job
      /\ NoStale => Fits(row)
  BY RowOf, ConstantsOK DEF Fits, Row
<1>2. /\ ChangeOne(r, p, Moved(row, "pending_review"), {}, NoMarks) /\ Exists(p)
      /\ "pending_review" \in Allowed(row.status) /\ "pending_review" \in Asked
  BY <1>1 DEF ResumeProposal, Allowed, Asked, Exists
<1>3. Moves(r, p, row, "pending_review", {}, NoMarks)
  BY <1>1, <1>2 DEF Moves
<1> QED
  BY <1>3, MoveInv

LEMMA ReportFailureInv ==
  ASSUME Inv, NEW r \in Requests, NEW p \in Proposals,
         NEW to \in {"needs_human", "submission_uncertain"}, ReportFailure(r, p, to)
  PROVE  Inv'
<1> PICK row : row = props[p]
  OBVIOUS
<1>1. /\ ChangeOne(r, p, Moved(row, to), {}, NoMarks) /\ Exists(p)
      /\ to \in Allowed(row.status) /\ to \in Asked /\ to # "approved"
  BY DEF ReportFailure, CanMove, Asked
<1>2. Moves(r, p, row, to, {}, NoMarks)
  BY <1>1, RowOf DEF Moves
<1> QED
  BY <1>2, MoveInv

LEMMA UploadEvidenceInv ==
  ASSUME Inv, NEW r \in Requests, NEW p \in Proposals, UploadEvidence(r, p)
  PROVE  Inv'
<1> PICK row : row = [props[p] EXCEPT !.reviewed = @ \cup {props[p].app}]
  OBVIOUS
<1>1. /\ row \in Row /\ row.status = props[p].status /\ row.job = props[p].job
      /\ NoStale => Fits(row)
  BY RowOf DEF Fits, Row
<1>2. ChangeOne(r, p, row, {}, NoMarks) /\ Exists(p)
  BY DEF UploadEvidence
<1>3. Changes(props[p], row)
  BY <1>1, <1>2 DEF Changes, Exists
<1>4. row.status \in Consented => "approved" \in ledger[p]
  BY <1>1 DEF Inv, SubmittedIsConsented, Consented
<1>5. NoMarks \in Marks /\ DOMAIN NoMarks = {}
  BY MarkedType DEF AppStatuses, NoMarks, Marked
<1> QED
  BY <1>1, <1>2, <1>3, <1>4, <1>5, ChangeOneInv

LEMMA CompanionSubmittedInv ==
  ASSUME Inv, NEW r \in Requests, NEW p \in Proposals, CompanionSubmitted(r, p)
  PROVE  Inv'
<1> PICK was : was = [props[p] EXCEPT !.reviewed = @ \cup {props[p].app}]
  OBVIOUS
<1> PICK row : row = Moved(Moved(was, "approved"), "submitted")
  OBVIOUS
<1> PICK marks : marks = Sent(was, "submitted")
  OBVIOUS
<1>1. /\ was \in Row /\ was.job = props[p].job /\ was.app = props[p].app
      /\ NoStale => Fits(was)
  BY RowOf DEF Fits, Row
<1>2. /\ row \in Row /\ row.status = "submitted" /\ row.job = was.job /\ row.app = was.app
      /\ row.reviewed = was.reviewed
  <2>1. Moved(was, "approved") \in Row /\ Moved(was, "approved").job = was.job
        /\ Moved(was, "approved").app = was.app
        /\ Moved(was, "approved").reviewed = was.reviewed
    BY <1>1, MovedRow DEF Inv, Statuses, OpenStatuses
  <2> QED
    BY <2>1, MovedRow DEF Inv, Statuses, Terminal
<1>3. props[p].status = "accepted" /\ ChangeOne(r, p, row, {"approved", "submitted"}, marks)
  BY DEF CompanionSubmitted
<1>4. Changes(props[p], row)
  BY <1>1, <1>2, <1>3 DEF Changes, SentStatuses, OpenStatuses
<1>5. marks \in Marks
  BY <1>1, MarkedType DEF Sent, Row, AppStatuses
<1>6. NoStale => Fits(row)
  BY <1>1, <1>2 DEF Fits
<1> QED
  BY <1>2, <1>3, <1>4, <1>5, <1>6, ChangeOneInv DEF Actions

LEMMA AppliedYourselfInv ==
  ASSUME Inv, NEW r \in Requests, NEW p \in Proposals, AppliedYourself(r, p)
  PROVE  Inv'
<1> PICK row : row = [props[p] EXCEPT !.manual = TRUE]
  OBVIOUS
<1> PICK marks : marks = Sent(props[p], "submitted")
  OBVIOUS
<1>1. /\ row \in Row /\ row.status = props[p].status /\ row.job = props[p].job
      /\ row.app = props[p].app /\ NoStale => Fits(row)
  BY RowOf DEF Fits, Row
<1>2. /\ ChangeOne(r, p, Moved(row, "rejected"), {}, marks) /\ Exists(p)
      /\ "rejected" \in Allowed(row.status) /\ "rejected" \in Asked
      /\ marks = Marked(row.app, "applied")
  BY <1>1 DEF AppliedYourself, Allowed, Asked, Exists, Sent
<1>3. Moves(r, p, row, "rejected", {}, marks)
  BY <1>1, <1>2 DEF Moves
<1> QED
  BY <1>3, MoveInv

(* A request that deletes and changes no row. *)
LEMMA DeletesInv ==
  ASSUME Inv, NEW r \in Requests, NEW q \in Request,
         Begin(r, q), UNCHANGED lock,
         DOMAIN q.new = {}, DOMAIN q.seen = {}, Current(q, lock' = r)
  PROVE  Inv'
<1>1. /\ requests[r] = Idle /\ requests' = [requests EXCEPT ![r] = q] /\ Apart(r, q)
      /\ UNCHANGED <<props, ledger, apps, dropped, day>>
  BY DEF Begin, InFlight
<1>2. Backed(q)
  BY DEF Backed
<1>3. NoStale => \A s \in Requests \ {r} : Separate(q, s)
  BY <1>1 DEF Apart, NoStale, Files, Separate
<1>4. Started(r, q)
  BY <1>1, <1>2, <1>3 DEF Started
<1> QED
  BY <1>4, StartedInv

LEMMA DeleteProposalInv ==
  ASSUME Inv, NEW r \in Requests, NEW p \in Proposals, DeleteProposal(r, p)
  PROVE  Inv'
<1> PICK q : q = [Idle EXCEPT !.doomed = {p}]
  OBVIOUS
<1>1. /\ q \in Request /\ DOMAIN q.seen = DOMAIN q.new /\ DOMAIN q.new = {}
      /\ q.doomed = {p}
  BY IdleRequest DEF Request, Idle
<1>2. /\ Begin(r, q) /\ UNCHANGED lock
      /\ props[p].status \notin {"none", "deleted"} \cup SentStatuses
  BY DEF DeleteProposal, Exists, SentStatuses
<1>3. Current(q, lock' = r)
  BY <1>1, <1>2 DEF Current
<1> QED
  BY <1>1, <1>2, <1>3, DeletesInv

LEMMA DeleteJobInv ==
  ASSUME Inv, NEW r \in Requests, NEW j \in Jobs, DeleteJob(r, j)
  PROVE  Inv'
<1> PICK q : q = [Idle EXCEPT !.drops = {j}]
  OBVIOUS
<1>1. /\ q \in Request /\ DOMAIN q.seen = DOMAIN q.new /\ DOMAIN q.new = {}
      /\ q.doomed = {}
  BY IdleRequest, IdleIsEmpty DEF Request, Idle
<1>2. Begin(r, q) /\ UNCHANGED lock
  BY DEF DeleteJob
<1>3. Current(q, lock' = r)
  BY <1>1 DEF Current
<1> QED
  BY <1>1, <1>2, <1>3, DeletesInv

-----------------------------------------------------------------------------
(* The other requests *)

LEMMA ExpireStaleInv ==
  ASSUME Inv, NEW r \in Requests, ExpireStale(r)
  PROVE  Inv'
<1> PICK S : S = {p \in Proposals : props[p].status \in Expiring /\ props[p].filed < day}
  OBVIOUS
<1> PICK seen : seen = [p \in S |-> props[p]]
  OBVIOUS
<1> PICK new : new = [p \in S |-> [props[p] EXCEPT !.status = "expired"]]
  OBVIOUS
<1>1. Change(r, seen, new, {}, NoMarks) /\ UNCHANGED lock
  BY DEF ExpireStale
<1>2. /\ S \subseteq Proposals /\ seen \in [S -> Row]
      /\ \A p \in S : seen[p] = props[p] /\ props[p].status \in Expiring
  BY RowOf
<1>3. \A p \in S : /\ new[p] \in Row /\ new[p].status = "expired"
                   /\ new[p].job = props[p].job /\ new[p].app = props[p].app
                   /\ new[p].reviewed = props[p].reviewed
  BY RowOf DEF Row, Statuses, Terminal
<1>4. new \in [S -> Row]
  BY <1>3
<1>5. \A p \in S : Changes(props[p], new[p])
  BY <1>2, <1>3 DEF Changes, Expiring, OpenStatuses, SentStatuses
<1>6. NoStale => \A p \in S : Fits(new[p])
  BY <1>2, <1>3, RowOf DEF Fits
<1>7. NoMarks \in Marks
  BY MarkedType DEF AppStatuses, NoMarks, Marked
<1>8. Changed(r, S, seen, new, {}, NoMarks)
  BY <1>1, <1>2, <1>3, <1>4, <1>5, <1>6, <1>7 DEF Changed, Consented
<1> QED
  BY <1>8, ChangedInv

LEMMA CreateProposalInv ==
  ASSUME Inv, NEW r \in Requests, NEW j \in Jobs, NEW a \in Applications \cup {NoApp},
         CreateProposal(r, j, a)
  PROVE  Inv'
<1>1. lock = NoLock /\ lock' = r
  BY DEF CreateProposal, Locks
<1>2. NoMarks \in Marks
  BY MarkedType DEF AppStatuses, NoMarks, Marked
<1>3. ASSUME NEW p \in Open(j), LateLink(r, p, a)
      PROVE  Inv'
  <2> PICK S : S = {p}
    OBVIOUS
  <2> PICK seen : seen = [x \in S |-> props[x]]
    OBVIOUS
  <2> PICK new : new = [x \in S |-> [props[x] EXCEPT !.app = a]]
    OBVIOUS
  <2>1. /\ Change(r, seen, new, {}, NoMarks) /\ a # NoApp
        /\ props[p].app = NoApp \/ props[p].reviewed = {}
    BY <1>3 DEF LateLink, MayRelink
  <2>2. p \in Proposals /\ props[p].status \in OpenStatuses /\ props[p].job = j
    BY <1>3 DEF Open
  <2>3. /\ S \subseteq Proposals /\ seen \in [S -> Row]
        /\ \A x \in S : seen[x] = props[x]
    BY <2>2, RowOf
  <2>4. \A x \in S : /\ new[x] \in Row /\ new[x].status = props[p].status
                     /\ new[x].job = j /\ new[x].app = a /\ x = p
                     /\ new[x].reviewed = props[p].reviewed
    BY <2>2, RowOf DEF Row
  <2>5. new \in [S -> Row]
    BY <2>4
  <2>6. \A x \in S : Changes(props[x], new[x])
    BY <2>2, <2>4 DEF Changes, OpenStatuses, SentStatuses
  <2>7. \A x \in S : new[x].status \in Consented => "approved" \in ledger[x]
    BY <2>2, <2>4 DEF Inv, SubmittedIsConsented, Consented
  <2>8. NoStale => \A x \in S : Fits(new[x])
    <3>1. NoStale => Fits(props[p])
      BY <2>2, RowOf
    <3> QED
      BY <1>1, <2>1, <2>4, <3>1 DEF Fits
  <2>9. Changed(r, S, seen, new, {}, NoMarks)
    BY <1>1, <1>2, <2>1, <2>3, <2>4, <2>5, <2>6, <2>7, <2>8 DEF Changed
  <2> QED
    BY <2>9, ChangedInv
<1>4. ASSUME Open(j) = {}, NEW p \in Proposals, props[p].status = "none",
             NEW new, NEW seen,
             seen = [x \in {p} |-> props[x]],
             new = [x \in {p} |-> [NotFiled EXCEPT !.status = "pending_review", !.job = j,
                                                 !.app = a, !.filed = day]],
             Change(r, seen, new, {}, NoMarks)
      PROVE  Inv'
  <2> PICK S : S = {p}
    OBVIOUS
  <2>1. /\ S \subseteq Proposals /\ seen \in [S -> Row]
        /\ \A x \in S : seen[x] = props[x]
    BY <1>4, RowOf
  <2>2. day \in 0..LastDay
    BY ConstantsOK DEF Inv, Typed, TypeOK
  <2>3. \A x \in S : /\ new[x] \in Row /\ new[x].status = "pending_review"
                     /\ new[x].job = j /\ new[x].app = a /\ x = p
                     /\ new[x].reviewed = {}
    <3> PICK row : row = [NotFiled EXCEPT !.status = "pending_review", !.job = j,
                                          !.app = a, !.filed = day]
      OBVIOUS
    <3>1. row = [status |-> "pending_review", job |-> j, app |-> a, manual |-> FALSE,
                 reviewed |-> {}, slot |-> 0, filed |-> day]
      BY DEF NotFiled
    <3>2. /\ row.status = "pending_review" /\ row.job = j /\ row.app = a
          /\ 0 \in 0..LastDay /\ {} \in SUBSET (Applications \cup {NoApp})
          /\ "pending_review" \in Statuses
      BY <3>1, ConstantsOK DEF Statuses, OpenStatuses
    <3>3. row \in Row
      <4>1. [status |-> "pending_review", job |-> j, app |-> a, manual |-> FALSE,
             reviewed |-> {}, slot |-> 0, filed |-> day] \in
              [status : Statuses, job : Jobs, app : Applications \cup {NoApp}, manual : BOOLEAN,
               reviewed : SUBSET (Applications \cup {NoApp}), slot : 0..LastDay,
               filed : 0..LastDay]
        BY ONLY <2>2, <3>2, j \in Jobs, a \in Applications \cup {NoApp}
      <4> QED
        BY <3>1, <4>1, Zenon DEF Row
    <3>4. row.reviewed = {}
      BY ONLY <3>1
    <3> QED
      BY <1>4, <3>2, <3>3, <3>4
  <2>4. new \in [S -> Row]
    BY <1>4, <2>3
  <2>5. \A x \in S : FilesRow(props[x], new[x]) /\ S = {x}
    BY <1>4, <2>3 DEF FilesRow
  <2>6. \A x \in S : Fits(new[x])
    BY <1>1, <2>3 DEF Fits
  <2>7. Changed(r, S, seen, new, {}, NoMarks)
    BY <1>1, <1>2, <1>4, <2>1, <2>3, <2>4, <2>5, <2>6 DEF Changed, Consented
  <2> QED
    BY <2>7, ChangedInv
<1>5. CASE Open(j) = {} /\ File(r, j, a)
  <2> PICK p \in Proposals :
         /\ props[p].status = "none"
         /\ Change(r, [x \in {p} |-> props[p]],
                   [x \in {p} |-> [NotFiled EXCEPT !.status = "pending_review", !.job = j,
                                                   !.app = a, !.filed = day]],
                   {}, NoMarks)
    BY <1>5 DEF File
  <2> PICK seen : seen = [x \in {p} |-> props[x]]
    OBVIOUS
  <2> PICK new : new = [x \in {p} |-> [NotFiled EXCEPT !.status = "pending_review", !.job = j,
                                                 !.app = a, !.filed = day]]
    OBVIOUS
  <2>1. seen = [x \in {p} |-> props[p]]
    OBVIOUS
  <2>2. Change(r, seen, new, {}, NoMarks)
    BY <2>1
  <2> QED
    BY <1>4, <1>5, <2>2
<1> QED
  BY <1>3, <1>5 DEF CreateProposal

(* A request about an application, which may decline its job's proposals.  *)
Declines(r, a, to, new) ==
  /\ a \in Applications /\ to \in AppStatuses
  /\ DOMAIN new \subseteq Open(JobOf[a])
  /\ new \in [DOMAIN new -> Row]
  /\ \A p \in DOMAIN new :
       /\ new[p].status = "rejected" /\ new[p].job = props[p].job
       /\ new[p].app = props[p].app /\ new[p].reviewed = props[p].reviewed
  /\ ChangeApplication(r, a, to, new)

LEMMA DeclinesInv ==
  ASSUME Inv, NEW r \in Requests, NEW a, NEW to, NEW new, Declines(r, a, to, new)
  PROVE  Inv'
<1> USE DEF Declines
<1> PICK S : S = DOMAIN new
  OBVIOUS
<1> PICK seen : seen = [p \in S |-> props[p]]
  OBVIOUS
<1> PICK marks : marks = Marked(a, to)
  OBVIOUS
<1>1. Change(r, seen, new, {}, marks) /\ UNCHANGED lock
  BY DEF ChangeApplication
<1>2. /\ S \subseteq Proposals
      /\ \A p \in S : props[p].status \in OpenStatuses /\ props[p].job = JobOf[a]
  BY DEF Open
<1>3. seen \in [S -> Row] /\ new \in [S -> Row] /\ \A p \in S : seen[p] = props[p]
  BY <1>2, RowOf
<1>4. marks \in Marks
  BY MarkedType
<1>5. \A p \in S : Changes(props[p], new[p])
  BY <1>2 DEF Changes, OpenStatuses, SentStatuses
<1>6. NoStale => \A p \in S : Fits(new[p])
  <2>1. NoStale => \A p \in S : Fits(props[p])
    BY <1>2, RowOf
  <2> QED
    BY <2>1 DEF Fits
<1>7. Changed(r, S, seen, new, {}, marks)
  BY <1>1, <1>2, <1>3, <1>4, <1>5, <1>6 DEF Changed, Consented
<1> QED
  BY <1>7, ChangedInv

LEMMA PatchApplicationInv ==
  ASSUME Inv, NEW r \in Requests, NEW a \in Applications,
         NEW to \in {"draft", "applied", "closed"}, NEW declines \in BOOLEAN,
         PatchApplication(r, a, to, declines)
  PROVE  Inv'
<1> PICK closes : closes = IF declines THEN Open(JobOf[a]) ELSE {}
  OBVIOUS
<1> PICK new : new = [p \in {q \in closes : "rejected" \in Allowed(props[q].status)} |->
                   Moved([props[p] EXCEPT !.manual = @ \/ to = "applied"], "rejected")]
  OBVIOUS
<1>1. ChangeApplication(r, a, to, new)
  BY DEF PatchApplication
<1>2. DOMAIN new \subseteq Open(JobOf[a]) /\ DOMAIN new \subseteq Proposals
  BY DEF Open
<1>3. \A p \in DOMAIN new :
         /\ new[p] \in Row /\ new[p].status = "rejected"
         /\ new[p].job = props[p].job /\ new[p].app = props[p].app
         /\ new[p].reviewed = props[p].reviewed
  <2> SUFFICES ASSUME NEW p \in DOMAIN new
               PROVE  /\ new[p] \in Row /\ new[p].status = "rejected"
                      /\ new[p].job = props[p].job /\ new[p].app = props[p].app
                      /\ new[p].reviewed = props[p].reviewed
    OBVIOUS
  <2> PICK row : row = [props[p] EXCEPT !.manual = @ \/ to = "applied"]
    OBVIOUS
  <2>1. /\ row \in Row /\ row.job = props[p].job /\ row.app = props[p].app
        /\ row.reviewed = props[p].reviewed
    <3>1. (props[p].manual \/ to = "applied") \in BOOLEAN
      BY Zenon
    <3> QED
      BY <1>2, <3>1, RowOf DEF Row
  <2>2. new[p] = Moved(row, "rejected")
    OBVIOUS
  <2> QED
    BY <2>1, <2>2, MovedRow DEF Inv, Statuses, Terminal
<1>4. new \in [DOMAIN new -> Row]
  BY <1>3
<1>5. Declines(r, a, to, new)
  BY <1>1, <1>2, <1>3, <1>4 DEF Declines, AppStatuses
<1> QED
  BY <1>5, DeclinesInv

LEMMA ApplicationInv ==
  ASSUME Inv, NEW r \in Requests, NEW a \in Applications,
         DeleteApplication(r, a) \/ NewDraft(r, a)
  PROVE  Inv'
<1> PICK to \in {"gone", "draft"} : ChangeApplication(r, a, to, NoRows)
  BY DEF DeleteApplication, NewDraft
<1>1. DOMAIN NoRows = {} /\ NoRows \in [DOMAIN NoRows -> Row]
  BY DEF NoRows
<1>2. Declines(r, a, to, NoRows)
  BY <1>1 DEF Declines, AppStatuses
<1> QED
  BY <1>2, DeclinesInv

-----------------------------------------------------------------------------
(* The second step of a request *)

(* The rows that a commit writes: a job's go with it. *)
Reached(q) == DOMAIN q.new \cup Doomed(q)

(* What a commit writes into a row.                                        *)
LEMMA WrittenRow ==
  ASSUME Typed, NEW r \in Requests, NEW p \in Proposals, NEW q, q = requests[r]
  PROVE  /\ Written(q, p) \in Row
         /\ p \in Doomed(q) => /\ Written(q, p).status = "deleted"
                               /\ Written(q, p).app = NoApp
         /\ p \notin Doomed(q) /\ p \in DOMAIN q.new =>
              /\ Written(q, p).status = IF q.new[p].status = q.seen[p].status
                                        THEN props[p].status ELSE q.new[p].status
              /\ Written(q, p).job = IF q.new[p].job = q.seen[p].job
                                     THEN props[p].job ELSE q.new[p].job
              /\ Written(q, p).app \in {NoApp, IF q.new[p].app = q.seen[p].app
                                               THEN props[p].app ELSE q.new[p].app}
         /\ p \notin Reached(q) => /\ Written(q, p).status = props[p].status
                                   /\ Written(q, p).job = props[p].job
                                   /\ Written(q, p).app \in {NoApp, props[p].app}
<1>1. props[p] \in Row /\ (p \in DOMAIN q.new => q.seen[p] \in Row /\ q.new[p] \in Row)
  BY DEF Typed, TypeOK
<1>2. Gone \in Row /\ Gone.status = "deleted" /\ Gone.app = NoApp
  <2>1. (CHOOSE j \in Jobs : TRUE) \in Jobs
    BY <1>1 DEF Row
  <2>2. NotFiled \in Row
    <3>1. 0 \in 0..LastDay /\ {} \in SUBSET (Applications \cup {NoApp})
      BY ConstantsOK
    <3> QED
      BY <2>1, <3>1 DEF NotFiled, Row, Statuses
  <2>3. Gone.status = "deleted" /\ Gone.app = NoApp
    BY DEF Gone, NotFiled
  <2> QED
    BY <2>2, <2>3 DEF Gone, Row, Statuses
<1> PICK row : row = IF p \in Doomed(q) THEN Gone
                     ELSE IF p \in DOMAIN q.new THEN Merged(props[p], q.seen[p], q.new[p])
                     ELSE props[p]
  OBVIOUS
<1>3. row \in Row
  BY <1>1, <1>2, MergedRow
<1>4. Written(q, p) = IF row.app \in Freed(q) THEN [row EXCEPT !.app = NoApp] ELSE row
  BY DEF Written
<1>5. /\ Written(q, p) \in Row /\ Written(q, p).status = row.status
      /\ Written(q, p).job = row.job /\ Written(q, p).app \in {NoApp, row.app}
  BY <1>3, <1>4 DEF Row
<1>6. p \in Doomed(q) => row.status = "deleted" /\ row.app = NoApp
  BY <1>2
<1>7. p \notin Reached(q) => row = props[p]
  BY DEF Reached
<1>8. p \notin Doomed(q) /\ p \in DOMAIN q.new => row = Merged(props[p], q.seen[p], q.new[p])
  OBVIOUS
<1> QED
  BY <1>1, <1>5, <1>6, <1>7, <1>8, MergedRow

(* What a commit does to the rows and to the requests.                     *)
LEMMA CommitIs ==
  ASSUME Typed, NEW r \in Requests, NEW q, q = requests[r], Commit(r)
  PROVE  /\ CanCommit(q) /\ lock \in {NoLock, r} /\ lock' = NoLock
         /\ \A p \in Reached(q) \cap Proposals : props[p].status # "deleted"
         /\ \A p \in Proposals : props'[p] = Written(q, p) /\ ledger'[p] = Events(q, p)
         /\ \A p \in Proposals : p \notin Doomed(q) => ledger[p] \subseteq ledger'[p]
         /\ requests'[r] = Idle
         /\ \A s \in Requests \ {r} : requests'[s] = requests[s]
BY DEF Commit, Done, Events, Typed, CanCommit, Reached, Touched, Doomed, Exists

LEMMA DoneTyped ==
  ASSUME Typed, NEW r \in Requests, Done(r),
         props' \in [Proposals -> Row], ledger' \in [Proposals -> SUBSET Actions],
         apps' \in [Applications -> AppStatuses], dropped' \subseteq Jobs, UNCHANGED day
  PROVE  Typed'
<1>1. requests' \in [Requests -> Request]
  BY IdleRequest DEF Typed, Done
<1>2. \A s \in Requests : DOMAIN requests'[s].seen = DOMAIN requests'[s].new
  BY IdleRequest DEF Typed, Done
<1>3. lock' \in Requests \cup {NoLock} /\ day' \in 1..LastDay
  BY DEF Typed, TypeOK, Done
<1> QED
  BY <1>1, <1>2, <1>3, TypedRequests DEF Typed, TypeOK

LEMMA CommitTyped ==
  ASSUME Typed, NEW r \in Requests, Commit(r)
  PROVE  Typed'
<1> PICK q : q = requests[r]
  OBVIOUS
<1>1. q \in Request /\ DOMAIN q.seen = DOMAIN q.new
  BY DEF Typed
<1>2. props' \in [Proposals -> Row]
  BY WrittenRow DEF Commit
<1>3. ledger' \in [Proposals -> SUBSET Actions]
  <2>1. \A p \in Proposals : Events(q, p) \in SUBSET Actions
    BY DEF Events, Typed, TypeOK
  <2> QED
    BY <2>1 DEF Commit
<1>4. apps' \in [Applications -> AppStatuses]
  <2>1. q.marks \in [DOMAIN q.marks -> AppStatuses]
    BY <1>1, TypedRequests
  <2>2. \A a \in Applications : Status(q, a) \in AppStatuses
    BY <2>1 DEF Status, Typed, TypeOK, AppStatuses
  <2> QED
    BY <2>2 DEF Commit
<1>5. dropped' \subseteq Jobs
  BY <1>1, TypedRequests DEF Commit, Typed, TypeOK
<1> QED
  BY <1>2, <1>3, <1>4, <1>5, DoneTyped DEF Commit

(* Consent stays in the ledger, and a request's consent behind it.         *)
LEMMA CommitConsented ==
  ASSUME Inv, NEW r \in Requests, Commit(r)
  PROVE  /\ SubmittedIsConsented'
         /\ \A s \in Requests : Backed(requests[s])'
<1> PICK q : q = requests[r]
  OBVIOUS
<1>1. Typed /\ Backed(q) /\ q \in Request /\ DOMAIN q.new \subseteq Proposals
  BY TypedRequests DEF Inv, Typed
<1>2. \A p \in Proposals : p \in Doomed(q) => props'[p].status = "deleted"
  BY <1>1, CommitIs, WrittenRow
<1>3. ASSUME NEW p \in Proposals, props'[p].status \in Consented
      PROVE  "approved" \in ledger'[p]
  <2>1. p \notin Doomed(q) /\ ledger[p] \subseteq ledger'[p]
    BY <1>1, <1>2, <1>3, CommitIs DEF Consented
  <2>2. props'[p] = Written(q, p) /\ ledger'[p] = Events(q, p)
    BY <1>1, CommitIs
  <2>3. CASE props'[p].status = props[p].status
    BY <1>3, <2>1, <2>3 DEF Inv, SubmittedIsConsented, Consented
  <2>4. CASE p \in DOMAIN q.new /\ props'[p].status = q.new[p].status
    <3>1. props[p].status # "deleted"
      BY <1>1, <2>4, CommitIs DEF Reached
    <3>2. CASE <<p, "approved">> \in q.events
      BY <2>1, <2>2, <3>2 DEF Events, Actions
    <3> QED
      BY <1>1, <1>3, <2>1, <2>4, <3>1, <3>2 DEF Backed
  <2> QED
    BY <1>1, <2>1, <2>2, <2>3, <2>4, WrittenRow DEF Reached
<1>4. SubmittedIsConsented'
  BY <1>3 DEF SubmittedIsConsented, Consented
<1>5. ASSUME NEW s \in Requests, s # r, NEW p \in DOMAIN requests[s].new,
             requests[s].new[p].status \in Consented
      PROVE  \/ <<p, "approved">> \in requests[s].events
             \/ "approved" \in ledger'[p]
             \/ props'[p].status = "deleted"
  <2>1. p \in Proposals
    BY <1>5, TypedRequests DEF Inv, Typed
  <2>2. \/ <<p, "approved">> \in requests[s].events
        \/ "approved" \in ledger[p]
        \/ props[p].status = "deleted"
    BY <1>5 DEF Inv, Backed
  <2>3. CASE "approved" \in ledger[p]
    BY <1>1, <1>2, <2>1, <2>3, CommitIs
  <2>4. CASE props[p].status = "deleted"
    <3>1. p \notin Reached(q)
      BY <1>1, <2>1, <2>4, CommitIs
    <3> QED
      BY <1>1, <2>1, <2>4, <3>1, CommitIs, WrittenRow
  <2> QED
    BY <2>2, <2>3, <2>4
<1>6. \A s \in Requests : Backed(requests[s])'
  <2> SUFFICES ASSUME NEW s \in Requests
               PROVE  Backed(requests[s])'
    OBVIOUS
  <2>1. CASE s = r
    BY <1>1, <2>1, CommitIs, IdleRequest DEF Backed
  <2>2. CASE s # r
    <3>1. requests'[s] = requests[s]
      BY <1>1, <2>2, CommitIs
    <3> QED
      BY <1>5, <2>2, <3>1 DEF Backed
  <2> QED
    BY <2>1, <2>2
<1> QED
  BY <1>4, <1>6

(* A commit that deletes an application takes it from the rows.            *)
Cleared(q, row) == IF row.app \in Freed(q) THEN [row EXCEPT !.app = NoApp] ELSE row

LEMMA ClearedRow ==
  ASSUME Inv, NEW r \in Requests, NEW q, q = requests[r], Commit(r),
         NEW row \in Row, NEW w, w = Cleared(q, row)
  PROVE  /\ w \in Row /\ w.status = row.status /\ w.job = row.job
         /\ row.app = NoApp => w.app = NoApp
         /\ Fits(row) => Fits(row)' /\ Fits(w)'
<1>1. /\ w \in Row /\ w.status = row.status /\ w.job = row.job /\ w.reviewed = row.reviewed
      /\ w.app = IF row.app \in Freed(q) THEN NoApp ELSE row.app
  BY DEF Cleared, Row
<1>2. q \in Request /\ Typed
  BY DEF Inv, Typed
<1>3. DOMAIN q.marks \subseteq Applications
  BY <1>2, TypedRequests DEF Inv, Typed
<1>4. \A a \in Freed(q) : a \in Applications /\ apps'[a] = "gone"
  BY <1>3 DEF Freed, Commit, Status
<1>5. \A a \in Applications : apps[a] = "gone" => apps'[a] = "gone"
  BY <1>2, CommitIs DEF Commit, CanCommit, Status
<1>6. row.reviewed \subseteq Applications \cup {NoApp}
  BY DEF Row
<1> QED
  BY <1>1, <1>4, <1>5, <1>6, ConstantsOK DEF Fits

(* Undisturbed, a commit writes the rows as the request made them.         *)
LEMMA CommitWrites ==
  ASSUME Inv, NoStale, NEW r \in Requests, NEW q, q = requests[r], Commit(r),
         NEW p \in DOMAIN q.new
  PROVE  /\ p \in Proposals /\ p \notin Doomed(q)
         /\ q.new[p] \in Row /\ props'[p] = Cleared(q, q.new[p])
         /\ props'[p].status = q.new[p].status /\ props'[p].job = q.new[p].job
         /\ Changes(props[p], q.new[p]) \/ (FilesRow(props[p], q.new[p]) /\ DOMAIN q.new = {p})
<1>1. /\ Typed /\ Current(q, lock = r) /\ q \in Request /\ p \in Proposals
      /\ props[p] \in Row /\ q.new[p] \in Row
  BY TypedRequests, RowOf DEF Inv, Typed, Undisturbed
<1>2. p \notin Doomed(q)
  BY <1>1 DEF Current, Doomed
<1>3. props[p] = q.seen[p]
  BY <1>1 DEF Current
<1>4. Changes(q.seen[p], q.new[p]) \/ (FilesRow(q.seen[p], q.new[p]) /\ DOMAIN q.new = {p})
  BY <1>1 DEF Current
<1>5. Merged(props[p], q.seen[p], q.new[p]) = q.new[p]
  BY <1>1, <1>3 DEF Merged, Row
<1>6. props'[p] = Cleared(q, q.new[p])
  BY <1>1, <1>2, <1>5, CommitIs DEF Written, Cleared
<1> QED
  BY <1>1, <1>2, <1>3, <1>4, <1>6, ClearedRow

LEMMA CommitKeeps ==
  ASSUME Inv, NEW r \in Requests, NEW q, q = requests[r], Commit(r),
         NEW p \in Proposals, p \notin Reached(q)
  PROVE  props'[p] = Cleared(q, props[p])
BY CommitIs DEF Inv, Written, Cleared, Reached

(* It leaves the rows of the others alone.                                 *)
LEMMA CommitSpares ==
  ASSUME Inv, NoStale, NEW r \in Requests, NEW q, q = requests[r], Commit(r),
         NEW s \in Requests, s # r, NEW p \in Touched(requests[s])
  PROVE  p \in Proposals /\ props'[p] = props[p]
<1>1. Typed /\ q \in Request /\ lock # s
  BY CommitIs, ConstantsOK DEF Inv, Typed
<1>2. p \in Proposals
  BY TypedRequests DEF Inv, Typed, Touched
<1>3. About(props[p]) \subseteq JobsOf(requests[s]) /\ props[p].status # "none"
  <2>1. Current(requests[s], FALSE)
    BY <1>1 DEF Inv, Undisturbed
  <2>2. CASE p \in DOMAIN requests[s].new
    <3>1. /\ props[p] = requests[s].seen[p]
          /\ Changes(requests[s].seen[p], requests[s].new[p])
      BY <2>1, <2>2 DEF Current
    <3> QED
      BY <2>2, <3>1, JobsOfAre DEF About, Changes
  <2>3. CASE p \in requests[s].doomed
    BY <2>1, <2>3, JobsOfAre DEF Current
  <2> QED
    BY <2>2, <2>3 DEF Touched
<1>4. JobsOf(q) \cap JobsOf(requests[s]) = {}
  BY DEF Inv, Undisturbed, Separate
<1>5. p \notin DOMAIN q.new
  <2> SUFFICES ASSUME p \in DOMAIN q.new
               PROVE  FALSE
    OBVIOUS
  <2>1. Changes(props[p], q.new[p])
    BY <1>3, CommitWrites DEF FilesRow
  <2>2. q.new[p].job \in JobsOf(q)
    BY JobsOfAre
  <2> QED
    BY <1>3, <1>4, <2>1, <2>2 DEF Changes, About
<1>6. p \notin Doomed(q)
  BY <1>3, <1>4, JobsOfAre DEF Doomed, About
<1>7. props[p].app \notin Freed(q)
  <2>1. DOMAIN q.marks \subseteq Applications
    BY <1>1, TypedRequests DEF Inv, Typed
  <2>2. \A a \in Freed(q) : JobOf[a] \in JobsOf(q) /\ a # NoApp
    BY <2>1, JobsOfAre, ConstantsOK DEF Freed
  <2> QED
    BY <1>3, <1>4, <2>2 DEF About, LinkedJob
<1> QED
  BY <1>2, <1>5, <1>6, <1>7, CommitKeeps DEF Reached, Cleared

LEMMA CommitUndisturbed ==
  ASSUME Inv, NoStale, NEW r \in Requests, Commit(r)
  PROVE  Undisturbed'
<1> PICK q : q = requests[r]
  OBVIOUS
<1>1. /\ Typed /\ Undisturbed /\ q \in Request /\ Current(q, lock = r)
      /\ DOMAIN q.new \subseteq Proposals
  BY TypedRequests DEF Inv, Typed, Undisturbed
<1>2. \A s \in Requests : Current(requests[s], lock = s)'
  <2> SUFFICES ASSUME NEW s \in Requests
               PROVE  Current(requests[s], lock = s)'
    OBVIOUS
  <2>1. CASE s = r
    <3>1. requests'[s] = Idle
      BY <1>1, <2>1, CommitIs
    <3> QED
      BY <3>1, IdleRequest, IdleIsEmpty DEF Current
  <2>2. CASE s # r
    <3>1. requests'[s] = requests[s] /\ lock # s
      BY <1>1, <2>2, CommitIs, ConstantsOK
    <3>2. Current(requests[s], FALSE)
      BY <1>1, <3>1 DEF Undisturbed
    <3>3. \A p \in Touched(requests[s]) : props'[p] = props[p]
      BY <2>2, CommitSpares
    <3> QED
      BY <3>1, <3>2, <3>3 DEF Current, Touched
  <2> QED
    BY <2>1, <2>2
<1>3. \A s, t \in Requests : s # t => Separate(requests[s], t)'
  <2>1. JobsOf(requests[r])' = {}
    <3>1. requests'[r] = Idle
      BY <1>1, CommitIs
    <3> QED
      BY <3>1, IdleIsEmpty DEF JobsOf
  <2>2. ASSUME NEW s \in Requests, s # r
        PROVE  JobsOf(requests[s])' = JobsOf(requests[s])
    <3>1. requests'[s] = requests[s]
      BY <1>1, <2>2, CommitIs
    <3>2. \A p \in requests[s].doomed : props'[p] = props[p]
      BY <2>2, CommitSpares DEF Touched
    <3> QED
      BY <3>1, <3>2 DEF JobsOf, About, LinkedJob
  <2> SUFFICES ASSUME NEW s \in Requests, NEW t \in Requests, s # t
               PROVE  JobsOf(requests[s])' \cap JobsOf(requests[t])' = {}
    BY DEF Separate
  <2>3. JobsOf(requests[s]) \cap JobsOf(requests[t]) = {}
    BY <1>1 DEF Undisturbed, Separate
  <2> QED
    BY <2>1, <2>2, <2>3
<1>4. Linked'
  <2>1. ASSUME NEW p \in Proposals
        PROVE  /\ Fits(props[p])'
               /\ props'[p].status = "none" => props'[p].app = NoApp
    <3>1. CASE p \in Doomed(q)
      <4>1. props'[p] = Gone
        <5>1. NoApp \notin Freed(q)
          BY <1>1, TypedRequests, ConstantsOK DEF Typed, Freed
        <5>2. Gone.app = NoApp
          BY DEF Gone, NotFiled
        <5> QED
          BY <1>1, <3>1, <5>1, <5>2, CommitIs DEF Written
      <4> QED
        BY <4>1 DEF Gone, NotFiled, Fits
    <3>2. CASE p \in DOMAIN q.new
      <4>1. Fits(q.new[p]) /\ q.new[p].status # "none"
        BY <1>1, <3>2, CommitWrites DEF Undisturbed, Linked, Changes, FilesRow
      <4>2. /\ q.new[p] \in Row /\ props'[p] = Cleared(q, q.new[p])
            /\ props'[p].status = q.new[p].status
        BY <3>2, CommitWrites
      <4> PICK w : w = props'[p]
        OBVIOUS
      <4>3. Fits(w)'
        BY <4>1, <4>2, ClearedRow
      <4> QED
        BY <4>1, <4>2, <4>3 DEF Fits
    <3>3. CASE p \notin Reached(q)
      <4>1. Fits(props[p]) /\ (props[p].status = "none" => props[p].app = NoApp)
        BY <1>1 DEF Undisturbed, Linked
      <4> PICK row : row = props[p]
        OBVIOUS
      <4> PICK w : w = props'[p]
        OBVIOUS
      <4>2. row \in Row /\ w = Cleared(q, row)
        BY <3>3, CommitKeeps, RowOf
      <4>3. Fits(row)
        BY <4>1 DEF Fits
      <4>4. Fits(w)' /\ (w.status = "none" => w.app = NoApp)
        BY <4>1, <4>2, <4>3, ClearedRow
      <4> QED
        BY <4>4 DEF Fits
    <3> QED
      BY <3>1, <3>2, <3>3 DEF Reached
  <2>2. ASSUME NEW s \in Requests, NEW p \in DOMAIN requests'[s].new
        PROVE  Fits(requests[s].new[p])'
    <3>1. s # r /\ requests'[s] = requests[s]
      BY <1>1, <2>2, CommitIs, IdleRequest
    <3> PICK row : row = requests[s].new[p]
      OBVIOUS
    <3>2. row \in Row
      BY <1>1, <2>2, <3>1, TypedRequests DEF Typed
    <3>3. Fits(requests[s].new[p])
      BY <1>1, <2>2, <3>1 DEF Undisturbed, Linked
    <3>4. Fits(row)
      BY <3>3 DEF Fits
    <3> PICK w : w = Cleared(q, row)
      OBVIOUS
    <3>5. Fits(row)'
      BY <3>2, <3>4, ClearedRow
    <3> QED
      BY <3>1, <3>5 DEF Fits
  <2> QED
    BY <2>1, <2>2 DEF Linked
<1>5. OneOpenProposalPerJob'
  <2>1. ASSUME NEW j \in Jobs, NEW p \in Open(j)'
        PROVE  \/ p \in Open(j)
               \/ p \in DOMAIN q.new /\ DOMAIN q.new = {p} /\ Open(j) = {}
    <3>1. p \in Proposals /\ props'[p].status \in OpenStatuses /\ props'[p].job = j
      BY <2>1 DEF Open
    <3>2. CASE p \in DOMAIN q.new
      <4>1. props'[p].status = q.new[p].status /\ props'[p].job = q.new[p].job
        BY <3>2, CommitWrites
      <4>2. CASE Changes(props[p], q.new[p])
        BY <3>1, <4>1, <4>2 DEF Changes, Open
      <4>3. CASE FilesRow(props[p], q.new[p]) /\ DOMAIN q.new = {p}
        BY <3>1, <3>2, <4>1, <4>3 DEF FilesRow
      <4> QED
        BY <3>2, <4>2, <4>3, CommitWrites
    <3>3. CASE p \in Doomed(q)
      BY <1>1, <3>1, <3>3, CommitIs, WrittenRow DEF OpenStatuses
    <3>4. CASE p \notin Reached(q)
      BY <1>1, <3>1, <3>4, CommitIs, WrittenRow DEF Open
    <3> QED
      BY <3>2, <3>3, <3>4 DEF Reached
  <2> SUFFICES ASSUME NEW j \in Jobs, NEW p \in Open(j)', NEW o \in Open(j)'
               PROVE  p = o
    BY DEF OneOpenProposalPerJob
  <2>2. \A x, y \in Open(j) : x = y
    BY <1>1 DEF Undisturbed, OneOpenProposalPerJob
  <2> QED
    BY <2>1, <2>2
<1>6. OfJobs'
  <2> SUFFICES ASSUME NEW p \in Proposals, Exists(p)'
               PROVE  props'[p].job \notin dropped'
    BY DEF OfJobs
  <2>1. CASE p \in Doomed(q)
    BY <1>1, <2>1, CommitIs, WrittenRow DEF Exists
  <2>2. CASE p \in DOMAIN q.new
    <3>1. props'[p].job = q.new[p].job /\ q.new[p].job \notin dropped
      BY <1>1, <2>2, CommitWrites, CommitIs DEF CanCommit
    <3>2. q.drops = {}
      BY <1>1, <2>2 DEF Current
    <3> QED
      BY <3>1, <3>2 DEF Commit
  <2>3. CASE p \notin Reached(q)
    <3>1. props'[p].job = props[p].job /\ props'[p].status = props[p].status
      BY <1>1, <2>3, CommitIs, WrittenRow
    <3>2. Exists(p)
      BY <3>1 DEF Exists
    <3>3. props[p].job \notin dropped \cup q.drops
      BY <1>1, <2>3, <3>2 DEF Undisturbed, OfJobs, Reached, Doomed
    <3> QED
      BY <3>1, <3>3 DEF Commit
  <2> QED
    BY <2>1, <2>2, <2>3 DEF Reached
<1> QED
  BY <1>2, <1>3, <1>4, <1>5, <1>6 DEF Undisturbed

LEMMA CommitInv ==
  ASSUME Inv, NEW r \in Requests, Commit(r)
  PROVE  Inv'
BY CommitTyped, CommitConsented, CommitUndisturbed DEF Inv, NoStale

LEMMA FailInv ==
  ASSUME Inv, NEW r \in Requests, Fail(r)
  PROVE  Inv'
<1>1. Typed /\ UNCHANGED <<props, ledger, apps, dropped, day>> /\ Done(r)
  BY DEF Inv, Fail
<1>2. Typed'
  BY <1>1, DoneTyped DEF Typed, TypeOK
<1>3. /\ requests'[r] = Idle /\ \A s \in Requests \ {r} : requests'[s] = requests[s]
      /\ lock' = IF lock = r THEN NoLock ELSE lock
  BY <1>1 DEF Done, Typed
<1>4. SubmittedIsConsented' /\ \A s \in Requests : Backed(requests[s])'
  <2>1. ASSUME NEW s \in Requests
        PROVE  Backed(requests[s])'
    <3>1. CASE s = r
      BY <1>3, <3>1, IdleRequest DEF Backed
    <3>2. CASE s # r
      BY <1>1, <1>3, <3>2 DEF Inv, Backed
    <3> QED
      BY <3>1, <3>2
  <2> QED
    BY <1>1, <2>1 DEF Inv, SubmittedIsConsented
<1>5. ASSUME NoStale
      PROVE  Undisturbed'
  <2>1. ASSUME NEW s \in Requests
        PROVE  Current(requests[s], lock = s)'
    <3>1. CASE s = r
      BY <1>3, <3>1, IdleRequest, IdleIsEmpty DEF Current
    <3>2. CASE s # r
      <4>1. Current(requests[s], lock = s) /\ (lock = s => lock' = s)
        BY <1>3, <1>5, <3>2 DEF Inv, Undisturbed
      <4>2. requests'[s] = requests[s]
        BY <1>3, <3>2
      <4> QED
        BY <1>1, <4>1, <4>2 DEF Current, FilesRow, Open
    <3> QED
      BY <3>1, <3>2
  <2>2. JobsOf(requests[r])' = {}
    BY <1>3, IdleIsEmpty DEF JobsOf
  <2>3. \A s \in Requests \ {r} : JobsOf(requests[s])' = JobsOf(requests[s])
    BY <1>1, <1>3 DEF JobsOf, About, LinkedJob
  <2>4. ASSUME NEW s \in Requests, NEW t \in Requests, s # t
        PROVE  Separate(requests[s], t)'
    <3>1. JobsOf(requests[s]) \cap JobsOf(requests[t]) = {}
      BY <1>5, <2>4 DEF Inv, Undisturbed, Separate
    <3> QED
      BY <2>2, <2>3, <3>1 DEF Separate
  <2>5. Linked'
    <3>1. ASSUME NEW s \in Requests, NEW p \in DOMAIN requests'[s].new
          PROVE  Fits(requests'[s].new[p])
      <4>1. s # r
        BY <1>3, <3>1, IdleRequest
      <4> QED
        BY <1>3, <1>5, <3>1, <4>1 DEF Inv, Undisturbed, Linked
    <3> QED
      BY <1>1, <1>5, <3>1 DEF Inv, Undisturbed, Linked, Fits
  <2>6. OneOpenProposalPerJob' /\ OfJobs'
    BY <1>1, <1>5 DEF Inv, Undisturbed, OneOpenProposalPerJob, Open, OfJobs, Exists
  <2> QED
    BY <2>1, <2>4, <2>5, <2>6 DEF Undisturbed
<1> QED
  BY <1>2, <1>4, <1>5 DEF Inv, NoStale

(* A day passes, or nothing happens: the invariant does not read the day.  *)
LEMMA TomorrowInv ==
  ASSUME Inv, Tomorrow \/ UNCHANGED vars
  PROVE  Inv'
<1>1. UNCHANGED <<props, ledger, apps, dropped, requests, lock>> /\ day' \in 1..LastDay
  BY ConstantsOK DEF Inv, Typed, TypeOK, Tomorrow, vars
<1>2. Typed'
  BY <1>1 DEF Inv, Typed, TypeOK
<1>3. SubmittedIsConsented' /\ \A r \in Requests : Backed(requests[r])'
  BY <1>1 DEF Inv, SubmittedIsConsented, Backed
<1>4. ASSUME NoStale
      PROVE  Undisturbed'
  <2>1. \A r \in Requests : Current(requests[r], lock = r)'
    BY <1>1, <1>4 DEF Inv, Undisturbed, Current, FilesRow, Open
  <2>2. \A r, s \in Requests : r # s => Separate(requests[r], s)'
    <3>1. \A r \in Requests : JobsOf(requests[r])' = JobsOf(requests[r])
      BY <1>1 DEF JobsOf, About, LinkedJob
    <3>2. \A r, s \in Requests : r # s => JobsOf(requests[r]) \cap JobsOf(requests[s]) = {}
      BY <1>4 DEF Inv, Undisturbed, Separate
    <3> QED
      BY <3>1, <3>2 DEF Separate
  <2>3. Linked' /\ OneOpenProposalPerJob' /\ OfJobs'
    BY <1>1, <1>4 DEF Inv, Undisturbed, Linked, Fits, OneOpenProposalPerJob, Open, OfJobs, Exists
  <2> QED
    BY <2>1, <2>2, <2>3 DEF Undisturbed
<1> QED
  BY <1>2, <1>3, <1>4 DEF Inv, NoStale

LEMMA NewRequestInv ==
  ASSUME Inv, NEW r \in Requests, NewRequest(r)
  PROVE  Inv'
BY ExpireStaleInv, TransitionProposalInv, RecordDecisionInv, RequestDecisionInv,
   ResumeProposalInv, ReportFailureInv, UploadEvidenceInv, CompanionSubmittedInv,
   AppliedYourselfInv, DeleteProposalInv, DeleteJobInv, CreateProposalInv, PatchApplicationInv,
   ApplicationInv DEF NewRequest

LEMMA InitInv == Init => Inv
<1> SUFFICES ASSUME Init
             PROVE  Inv
  OBVIOUS
<1>1. \A r \in Requests : requests[r] = Idle
  BY DEF Init
<1>2. ASSUME NEW p \in Proposals
      PROVE  /\ props[p] = NotFiled /\ NotFiled.app = NoApp
             /\ NotFiled.status = "none" /\ NotFiled.reviewed = {}
  BY DEF Init, NotFiled
<1>3. Typed
  <2>1. requests \in [Requests -> Request]
    BY IdleRequest DEF Init
  <2>2. \A r \in Requests : DOMAIN requests[r].seen = DOMAIN requests[r].new
    BY <1>1, IdleRequest
  <2>3. apps \in [Applications -> AppStatuses] /\ ledger \in [Proposals -> SUBSET Actions]
    BY DEF Init, AppStatuses
  <2>4. lock \in Requests \cup {NoLock} /\ day \in 1..LastDay /\ dropped \subseteq Jobs
    BY ConstantsOK DEF Init
  <2>5. NotFiled \in Row
    <3>1. (CHOOSE j \in Jobs : TRUE) \in Jobs
      BY ConstantsOK
    <3>2. 0 \in 0..LastDay /\ {} \in SUBSET (Applications \cup {NoApp})
      BY ConstantsOK
    <3> QED
      BY <3>1, <3>2 DEF NotFiled, Row, Statuses
  <2>6. props \in [Proposals -> Row]
    BY <2>5 DEF Init
  <2> QED
    BY <2>1, <2>2, <2>3, <2>4, <2>6, TypedRequests DEF Typed, TypeOK
<1>4. SubmittedIsConsented
  BY <1>2 DEF SubmittedIsConsented
<1>5. \A r \in Requests : Backed(requests[r])
  BY <1>1, IdleRequest DEF Backed
<1>6. \A r \in Requests : Current(requests[r], lock = r) /\ JobsOf(requests[r]) = {}
  BY <1>1, IdleRequest, IdleIsEmpty DEF Current
<1>7. Linked
  BY <1>1, <1>2, IdleRequest DEF Linked, Fits
<1>8. OneOpenProposalPerJob
  BY <1>2 DEF OneOpenProposalPerJob, Open, OpenStatuses
<1>9. OfJobs
  BY DEF OfJobs, Init
<1>10. Undisturbed
  BY <1>6, <1>7, <1>8, <1>9 DEF Undisturbed, Separate
<1> QED
  BY <1>3, <1>4, <1>5, <1>10 DEF Inv

-----------------------------------------------------------------------------
(* The theorems *)

LEMMA NextInv ==
  ASSUME Inv, [Next]_vars
  PROVE  Inv'
BY CommitInv, FailInv, TomorrowInv, NewRequestInv DEF Next

(* The invariant holds in every state, on every timing: what it says of    *)
(* jobs it says under the timings it names.                                *)
THEOREM Invariance == Spec => []Inv
<1>1. Inv /\ [Next]_vars => Inv'
  BY NextInv
<1> QED
  BY <1>1, InitInv, PTL DEF Spec

(* On every timing the rows, the ledger and the requests stay typed.       *)
THEOREM TypeCorrect == Spec => []TypeOK
<1>1. Inv => TypeOK
  BY DEF Inv, Typed
<1> QED
  BY <1>1, Invariance, PTL

(* However requests overlap, a proposal is approved, sent or perhaps sent  *)
(* only with its approval in the ledger (transition writes both in one     *)
(* commit, and nothing takes an event from a row that stays).              *)
THEOREM ConsentIsRecorded == Spec => []SubmittedIsConsented
<1>1. Inv => SubmittedIsConsented
  BY DEF Inv
<1> QED
  BY <1>1, Invariance, PTL

(* When requests about one job do not overlap, but creates may, a job has  *)
(* one open proposal: begin_write makes a create's check and its insert    *)
(* one step to the others.                                                 *)
THEOREM OneOpenAlways ==
  ASSUME NoStale PROVE Spec => []OneOpenProposalPerJob
<1>1. Inv => OneOpenProposalPerJob
  BY DEF Inv, Undisturbed
<1> QED
  BY <1>1, Invariance, PTL

(* What a final review showed stays the linked application, unless it was  *)
(* deleted: a create moves an accepted proposal to another draft only while *)
(* no review is attached (_may_relink).                                    *)
THEOREM ReviewedIsLinkedAlways ==
  ASSUME NoStale PROVE Spec => []ReviewedIsLinked
<1>1. Inv => ReviewedIsLinked
  BY DEF Inv, Undisturbed, Linked, Fits, ReviewedIsLinked
<1> QED
  BY <1>1, Invariance, PTL

(* A request writes nothing before its second step.                        *)
LEMMA RequestsOnlyBegin ==
  ASSUME NEW r \in Requests, NewRequest(r)
  PROVE  UNCHANGED <<props, ledger>>
<1> USE DEF Change, Begin
<1>1. CASE ExpireStale(r)
  BY <1>1 DEF ExpireStale
<1>3. ASSUME NEW p \in Proposals, NEW to, NEW attested, NEW link,
             TransitionProposal(r, p, to, attested, link)
      PROVE  UNCHANGED <<props, ledger>>
  BY <1>3 DEF TransitionProposal, ChangeOne
<1>4. ASSUME NEW p \in Proposals,
             \/ \E a \in Applications : RecordDecision(r, p, a)
             \/ RequestDecision(r, p) \/ ResumeProposal(r, p)
             \/ \E to \in {"needs_human", "submission_uncertain"} : ReportFailure(r, p, to)
      PROVE  UNCHANGED <<props, ledger>>
  BY <1>4 DEF RecordDecision, RequestDecision, ResumeProposal, ReportFailure, ChangeOne
<1>5. ASSUME NEW p \in Proposals,
             \/ UploadEvidence(r, p) \/ CompanionSubmitted(r, p)
             \/ AppliedYourself(r, p) \/ DeleteProposal(r, p)
      PROVE  UNCHANGED <<props, ledger>>
  BY <1>5 DEF UploadEvidence, CompanionSubmitted, AppliedYourself, DeleteProposal, ChangeOne
<1>6. ASSUME NEW j \in Jobs,
             DeleteJob(r, j) \/ \E a \in Applications \cup {NoApp} : CreateProposal(r, j, a)
      PROVE  UNCHANGED <<props, ledger>>
  BY <1>6 DEF DeleteJob, CreateProposal, LateLink, File
<1>7. ASSUME NEW a \in Applications, NEW to, NEW declines, PatchApplication(r, a, to, declines)
      PROVE  UNCHANGED <<props, ledger>>
  BY <1>7 DEF PatchApplication, ChangeApplication
<1>8. ASSUME NEW a \in Applications, DeleteApplication(r, a) \/ NewDraft(r, a)
      PROVE  UNCHANGED <<props, ledger>>
  BY <1>8 DEF DeleteApplication, NewDraft, ChangeApplication
<1> QED
  BY <1>1, <1>3, <1>4, <1>5, <1>6, <1>7, <1>8 DEF NewRequest

(* What a step may do to the record of what was sent, or may have been.    *)
Keeps(p) ==
  \/ props'[p].status \in {"submitted", props[p].status} /\ ledger[p] \subseteq ledger'[p]
  \/ props[p].job \in dropped' \ dropped

(* Only the deletion of its job takes the record of a sent application, or *)
(* of one that may have been sent (delete_proposal refuses, delete_job does *)
(* not ask): until then it is neither deleted nor reopened, and its events *)
(* stay.                                                                   *)
THEOREM SentIsKeptAlways ==
  ASSUME NoStale PROVE Spec => SentIsKept
<1>1. ASSUME Inv, [Next]_vars, NEW p \in Proposals,
             props[p].status \in {"submitted", "submission_uncertain"}
      PROVE  Keeps(p)
  <2>1. CASE UNCHANGED <<props, ledger>>
    BY <2>1 DEF Keeps
  <2>2. ASSUME NEW r \in Requests, Commit(r)
        PROVE  Keeps(p)
    <3> PICK q : q = requests[r]
      OBVIOUS
    <3>1. Typed /\ Current(q, lock = r)
      BY <1>1 DEF Inv, Undisturbed
    <3>2. p \notin q.doomed
      BY <1>1, <3>1 DEF Current, SentStatuses
    <3>3. CASE props[p].job \in q.drops /\ props[p].job \notin dropped
      BY <2>2, <3>3 DEF Keeps, Commit
    <3>4. CASE props[p].job \notin q.drops
      <4>1. p \notin Doomed(q)
        BY <3>2, <3>4 DEF Doomed
      <4>2. ledger[p] \subseteq ledger'[p]
        BY <2>2, <3>1, <4>1, CommitIs
      <4>3. CASE p \in DOMAIN q.new
        <5>1. Changes(props[p], q.new[p])
          BY <1>1, <2>2, <4>3, CommitWrites DEF FilesRow
        <5>2. props'[p].status = q.new[p].status
          BY <1>1, <2>2, <4>3, CommitWrites
        <5> QED
          BY <1>1, <4>2, <5>1, <5>2 DEF Changes, SentStatuses, Keeps
      <4>4. CASE p \notin Reached(q)
        <5>1. props'[p].status = props[p].status
          BY <2>2, <3>1, <4>4, CommitIs, WrittenRow
        <5> QED
          BY <4>2, <5>1 DEF Keeps
      <4> QED
        BY <4>1, <4>3, <4>4 DEF Reached
    <3>5. props[p].job \notin dropped
      BY <1>1 DEF Inv, Undisturbed, OfJobs, Exists
    <3> QED
      BY <3>3, <3>4, <3>5
  <2>3. ASSUME NEW r \in Requests, NewRequest(r)
        PROVE  UNCHANGED <<props, ledger>>
    BY <2>3, RequestsOnlyBegin
  <2> QED
    BY <1>1, <2>1, <2>2, <2>3 DEF Next, Tomorrow, Fail, vars
<1>2. Inv /\ [Next]_vars =>
        [\A p \in Proposals :
           props[p].status \in {"submitted", "submission_uncertain"} =>
             \/ /\ props'[p].status \in {"submitted", props[p].status}
                /\ ledger[p] \subseteq ledger'[p]
             \/ props[p].job \in dropped' \ dropped]_vars
  BY <1>1 DEF Keeps
<1> QED
  BY <1>2, Invariance, PTL DEF Spec, SentIsKept

-----------------------------------------------------------------------------
(* The daily cap *)

NoCapWindow == "cap" \notin Windows

(* What a status says of a row's slot.                                     *)
Slots(row) ==
  /\ row.status \in Consented => row.slot # 0
  /\ row.status \in {"rejected", "none", "deleted"} => row.slot = 0

Reserving(q, p) == q.new[p].slot # q.seen[p].slot /\ q.new[p].slot # 0
SlotsOn(d) == {p \in Proposals : props[p].slot = d}

(* Who reserves is alone, and has seen a slot that is still free.          *)
WithinCap ==
  /\ \A d \in 1..LastDay : Cardinality(SlotsOn(d)) <= MaxPerDay
  /\ \A r \in Requests : \A p \in DOMAIN requests[r].new :
       Reserving(requests[r], p) => Cardinality(SlotsOn(requests[r].new[p].slot)) < MaxPerDay
  /\ \A r, s \in Requests : Reserves(requests[r]) /\ Reserves(requests[s]) => r = s

Capped ==
  /\ \A p \in Proposals : Slots(props[p])
  /\ \A r \in Requests : \A p \in DOMAIN requests[r].new :
       /\ Slots(requests[r].new[p])
       /\ Reserving(requests[r], p) => DOMAIN requests[r].new = {p}
  /\ NoCapWindow => WithinCap

CapInv == Inv /\ Capped

-----------------------------------------------------------------------------
(* A request begins *)

(* It keeps or gives up the slots of its rows, or takes one that is free.  *)
Takes(r, q) ==
  /\ requests' = [requests EXCEPT ![r] = q] /\ UNCHANGED <<props, ledger, apps, dropped, day>>
  /\ \A p \in DOMAIN q.new :
       /\ Slots(q.new[p])
       /\ Reserving(q, p) =>
            /\ DOMAIN q.new = {p}
            /\ NoCapWindow =>
                 /\ Cardinality(SlotsOn(q.new[p].slot)) < MaxPerDay
                 /\ \A s \in Requests \ {r} : ~Reserves(requests[s])

LEMMA TakesCapped ==
  ASSUME CapInv, NEW r \in Requests, NEW q, Takes(r, q)
  PROVE  Capped'
<1>1. /\ requests'[r] = q /\ \A s \in Requests \ {r} : requests'[s] = requests[s]
      /\ UNCHANGED <<props, ledger, apps, dropped, day>>
  BY DEF Takes, CapInv, Inv, Typed
<1>2. \A d : SlotsOn(d)' = SlotsOn(d)
  BY <1>1 DEF SlotsOn
<1>3. \A s \in Requests : \A p \in DOMAIN requests'[s].new :
        /\ Slots(requests'[s].new[p])
        /\ Reserving(requests'[s], p) => DOMAIN requests'[s].new = {p}
  BY <1>1 DEF Takes, CapInv, Capped
<1>4. ASSUME NoCapWindow
      PROVE  WithinCap'
  <2>1. \A d \in 1..LastDay : Cardinality(SlotsOn(d)) <= MaxPerDay
    BY <1>4 DEF CapInv, Capped, WithinCap
  <2>2. \A s \in Requests : \A p \in DOMAIN requests'[s].new :
          Reserving(requests'[s], p) => Cardinality(SlotsOn(requests'[s].new[p].slot)) < MaxPerDay
    BY <1>1, <1>4 DEF Takes, CapInv, Capped, WithinCap
  <2>3. Reserves(q) => \A s \in Requests \ {r} : ~Reserves(requests[s])
    BY <1>4 DEF Takes, Reserves, Reserving
  <2>4. \A s, t \in Requests : Reserves(requests'[s]) /\ Reserves(requests'[t]) => s = t
    BY <1>1, <1>4, <2>3 DEF CapInv, Capped, WithinCap
  <2> QED
    BY <1>2, <2>1, <2>2, <2>4 DEF WithinCap, Reserves, Reserving
<1>5. \A p \in Proposals : Slots(props[p])'
  BY <1>1 DEF CapInv, Capped, Slots
<1> QED
  BY <1>3, <1>4, <1>5 DEF Capped, Slots, Reserving, NoCapWindow

TakesOne(r, p, row) ==
  /\ Slots(row)
  /\ row.slot \notin {0, props[p].slot} /\ NoCapWindow =>
       /\ Cardinality(SlotsOn(row.slot)) < MaxPerDay
       /\ \A s \in Requests \ {r} : ~Reserves(requests[s])

LEMMA ChangeOneCapped ==
  ASSUME CapInv, NEW r \in Requests, NEW p \in Proposals, NEW row, NEW actions, NEW marks,
         TakesOne(r, p, row), ChangeOne(r, p, row, actions, marks)
  PROVE  Capped'
<1> PICK q : q = [Idle EXCEPT !.seen = [x \in {p} |-> props[p]], !.new = [x \in {p} |-> row],
                              !.events = {p} \X actions, !.marks = marks]
  OBVIOUS
<1>1. requests' = [requests EXCEPT ![r] = q] /\ UNCHANGED <<props, ledger, apps, dropped, day>>
  BY DEF ChangeOne, Change, Begin
<1>2. DOMAIN q.new = {p} /\ q.new[p] = row /\ q.seen[p] = props[p]
  BY DEF Idle
<1>3. Takes(r, q)
  BY <1>1, <1>2 DEF Takes, TakesOne, Reserving
<1> QED
  BY <1>3, TakesCapped

(* A reservation has seen a slot of the day that is free.                  *)
LEMMA FreeSlot ==
  ASSUME CapInv, NEW r \in Requests, NEW row, row.slot = 0, CanReserve(r, row, "approved"),
         NoCapWindow
  PROVE  /\ Cardinality(SlotsOn(day)) < MaxPerDay
         /\ \A s \in Requests \ {r} : ~Reserves(requests[s])
<1>1. {p \in Proposals : Exists(p) /\ props[p].slot = day} = SlotsOn(day)
  <2>1. day # 0
    BY ConstantsOK DEF CapInv, Inv, Typed, TypeOK
  <2> QED
    BY <2>1 DEF CapInv, Capped, Slots, Exists, SlotsOn
<1>2. ~(Cardinality(SlotsOn(day)) >= MaxPerDay)
  BY <1>1 DEF CanReserve, CapReached
<1>3. Cardinality(SlotsOn(day)) \in Nat
  <2>1. SlotsOn(day) \in SUBSET Proposals
    BY DEF SlotsOn
  <2>2. IsFiniteSet(SlotsOn(day))
    BY <2>1, FS_Subset, ConstantsOK
  <2> QED
    BY <2>2, FS_CardinalityType
<1> QED
  BY <1>2, <1>3, ConstantsOK DEF CanReserve, CapUncontested, NoCapWindow

(* A move along the transitions, of a row that kept its slot or gave it up *)
(* on the way back from the human.                                         *)
Advances(r, p, row, to) ==
  /\ row.status = props[p].status
  /\ row.slot = props[p].slot \/ (row.slot = 0 /\ row.status \notin Consented)
  /\ row.slot \in 0..LastDay
  /\ to \in Allowed(row.status)
  /\ CanReserve(r, row, to)

LEMMA MoveCapped ==
  ASSUME CapInv, NEW r \in Requests, NEW p \in Proposals, NEW row \in Row, NEW to,
         NEW actions, NEW marks,
         Advances(r, p, row, to),
         ChangeOne(r, p, Moved(row, to), actions, marks)
  PROVE  Capped'
<1> USE DEF Advances
<1> PICK new : new = Moved(row, to)
  OBVIOUS
<1>1. /\ to \in Statuses /\ to \notin {"none", "deleted"}
      /\ to \in Consented => to = "approved" \/ row.status \in Consented
  BY AllowedSteps DEF Row
<1>2. new.status = to /\ new.slot = Slot(row, to)
  BY DEF Moved, Row
<1>3. day \in 1..LastDay /\ day # 0
  BY ConstantsOK DEF CapInv, Inv, Typed, TypeOK
<1>4. Slots(props[p])
  BY DEF CapInv, Capped
<1>5. Slots(new)
  BY <1>1, <1>2, <1>3, <1>4 DEF Slots, Slot, Consented
<1>6. CASE to = "approved" /\ row.slot = 0
  <2>1. new.slot = day
    BY <1>2, <1>6 DEF Slot
  <2>2. TakesOne(r, p, new)
    BY <1>5, <1>6, <2>1, FreeSlot DEF TakesOne
  <2> QED
    BY <2>2, ChangeOneCapped
<1>7. CASE ~(to = "approved" /\ row.slot = 0)
  <2>1. new.slot \in {0, props[p].slot}
    BY <1>2, <1>7 DEF Slot
  <2>2. TakesOne(r, p, new)
    BY <1>5, <2>1 DEF TakesOne
  <2> QED
    BY <2>2, ChangeOneCapped
<1> QED
  BY <1>6, <1>7

-----------------------------------------------------------------------------
(* The requests                                                            *)

LEMMA CapRow ==
  ASSUME CapInv, NEW p \in Proposals
  PROVE  props[p] \in Row /\ Slots(props[p]) /\ props[p].slot \in 0..LastDay
BY RowOf DEF CapInv, Capped, Row

LEMMA TransitionProposalCapped ==
  ASSUME CapInv, NEW r \in Requests, NEW p \in Proposals, NEW to \in Asked,
         NEW attested \in BOOLEAN, NEW link \in Applications \cup {NoApp},
         TransitionProposal(r, p, to, attested, link)
  PROVE  Capped'
<1> PICK row : row = IF link = NoApp THEN props[p] ELSE [props[p] EXCEPT !.app = link]
  OBVIOUS
<1> PICK actions : actions = Recorded(to, attested)
  OBVIOUS
<1> PICK marks : marks = Sent(row, to)
  OBVIOUS
<1>1. /\ ChangeOne(r, p, Moved(row, to), actions, marks)
      /\ to \in Allowed(row.status) /\ CanReserve(r, row, to)
  BY DEF TransitionProposal, CanMove
<1>2. /\ row \in Row /\ row.status = props[p].status /\ row.slot = props[p].slot
  BY CapRow DEF Row
<1>3. Advances(r, p, row, to)
  BY <1>1, <1>2, CapRow DEF Advances
<1> QED
  BY <1>1, <1>2, <1>3, MoveCapped

(* The moves that take no slot.                                            *)
LEMMA StepCapped ==
  ASSUME CapInv, NEW r \in Requests, NEW p \in Proposals,
         NEW row \in Row, NEW to, NEW marks,
         row.status = props[p].status,
         row.slot = props[p].slot \/ (row.slot = 0 /\ row.status \notin Consented),
         to \in Allowed(row.status), to # "approved",
         ChangeOne(r, p, Moved(row, to), {}, marks)
  PROVE  Capped'
<1>1. Advances(r, p, row, to)
  BY CapRow, ConstantsOK DEF Advances, CanReserve, Row
<1> QED
  BY <1>1, MoveCapped

LEMMA DecisionsCapped ==
  ASSUME CapInv, NEW r \in Requests, NEW p \in Proposals,
         \/ \E a \in Applications : RecordDecision(r, p, a)
         \/ RequestDecision(r, p)
         \/ ResumeProposal(r, p)
         \/ \E to \in {"needs_human", "submission_uncertain"} : ReportFailure(r, p, to)
         \/ AppliedYourself(r, p)
  PROVE  Capped'
<1>1. ASSUME NEW a \in Applications, RecordDecision(r, p, a)
      PROVE  Capped'
  <2> PICK row : row = [props[p] EXCEPT !.app = a]
    OBVIOUS
  <2>1. row \in Row /\ row.status = "needs_decision" /\ row.slot = props[p].slot
        /\ props[p].status = "needs_decision"
    BY <1>1, CapRow DEF RecordDecision, Row
  <2>2. ChangeOne(r, p, Moved(row, "pending_review"), {}, NoMarks)
    BY <1>1 DEF RecordDecision
  <2>3. "pending_review" \in Allowed(row.status)
    BY <2>1 DEF Allowed
  <2> QED
    BY <2>1, <2>2, <2>3, StepCapped
<1>2. CASE RequestDecision(r, p)
  <2> PICK row : row = props[p]
    OBVIOUS
  <2>1. ChangeOne(r, p, Moved(row, "needs_decision"), {}, NoMarks)
        /\ "needs_decision" \in Allowed(row.status)
    BY <1>2 DEF RequestDecision, CanMove
  <2> QED
    BY <2>1, CapRow, StepCapped
<1>3. CASE ResumeProposal(r, p)
  <2> PICK row : row = [props[p] EXCEPT !.slot = 0]
    OBVIOUS
  <2>1. row \in Row /\ row.status = "needs_human" /\ row.slot = 0
        /\ props[p].status = "needs_human"
    BY <1>3, CapRow, ConstantsOK DEF ResumeProposal, Row
  <2>2. ChangeOne(r, p, Moved(row, "pending_review"), {}, NoMarks)
    BY <1>3 DEF ResumeProposal
  <2>3. "pending_review" \in Allowed(row.status) /\ row.status \notin Consented
    BY <2>1 DEF Allowed, Consented
  <2> QED
    BY <2>1, <2>2, <2>3, StepCapped
<1>4. ASSUME NEW to \in {"needs_human", "submission_uncertain"}, ReportFailure(r, p, to)
      PROVE  Capped'
  <2> PICK row : row = props[p]
    OBVIOUS
  <2>1. ChangeOne(r, p, Moved(row, to), {}, NoMarks) /\ to \in Allowed(row.status)
        /\ to # "approved"
    BY <1>4 DEF ReportFailure, CanMove
  <2> QED
    BY <2>1, CapRow, StepCapped
<1>5. CASE AppliedYourself(r, p)
  <2> PICK row : row = [props[p] EXCEPT !.manual = TRUE]
    OBVIOUS
  <2> PICK marks : marks = Sent(props[p], "submitted")
    OBVIOUS
  <2>1. row \in Row /\ row.status = "accepted" /\ row.slot = props[p].slot
        /\ props[p].status = "accepted"
    BY <1>5, CapRow DEF AppliedYourself, Row
  <2>2. ChangeOne(r, p, Moved(row, "rejected"), {}, marks)
    BY <1>5 DEF AppliedYourself
  <2>3. "rejected" \in Allowed(row.status)
    BY <2>1 DEF Allowed
  <2> QED
    BY <2>1, <2>2, <2>3, StepCapped
<1> QED
  BY <1>1, <1>2, <1>3, <1>4, <1>5

LEMMA UploadEvidenceCapped ==
  ASSUME CapInv, NEW r \in Requests, NEW p \in Proposals, UploadEvidence(r, p)
  PROVE  Capped'
<1> PICK row : row = [props[p] EXCEPT !.reviewed = @ \cup {props[p].app}]
  OBVIOUS
<1>1. row.status = props[p].status /\ row.slot = props[p].slot
  BY CapRow DEF Row
<1>2. ChangeOne(r, p, row, {}, NoMarks)
  BY DEF UploadEvidence
<1>3. TakesOne(r, p, row)
  BY <1>1, CapRow DEF TakesOne, Slots
<1> QED
  BY <1>2, <1>3, ChangeOneCapped

LEMMA CompanionSubmittedCapped ==
  ASSUME CapInv, NEW r \in Requests, NEW p \in Proposals, CompanionSubmitted(r, p)
  PROVE  Capped'
<1> PICK was : was = [props[p] EXCEPT !.reviewed = @ \cup {props[p].app}]
  OBVIOUS
<1> PICK row : row = Moved(Moved(was, "approved"), "submitted")
  OBVIOUS
<1> PICK marks : marks = Sent(was, "submitted")
  OBVIOUS
<1>1. was \in Row /\ was.slot = props[p].slot /\ was.slot \in 0..LastDay
  BY CapRow DEF Row
<1>2. ChangeOne(r, p, row, {"approved", "submitted"}, marks) /\ CanReserve(r, was, "approved")
  BY DEF CompanionSubmitted
<1>3. row.status = "submitted" /\ row.slot = IF was.slot = 0 THEN day ELSE was.slot
  <2>1. /\ Moved(was, "approved") \in Row
        /\ Moved(was, "approved").slot = IF was.slot = 0 THEN day ELSE was.slot
    <3>1. Moved(was, "approved") \in Row
      BY <1>1, MovedRow DEF CapInv, Inv, Statuses, OpenStatuses
    <3> QED
      BY <1>1, <3>1 DEF Moved, Slot, Row
  <2> QED
    BY <2>1 DEF Moved, Slot, Row
<1>4. day # 0
  BY ConstantsOK DEF CapInv, Inv, Typed, TypeOK
<1>5. Slots(row)
  BY <1>3, <1>4 DEF Slots
<1>6. TakesOne(r, p, row)
  BY <1>1, <1>2, <1>3, <1>5, FreeSlot DEF TakesOne
<1> QED
  BY <1>2, <1>6, ChangeOneCapped

(* The requests that leave slots as they are, or give them up.             *)
Releases(r, q) ==
  /\ requests' = [requests EXCEPT ![r] = q] /\ UNCHANGED <<props, ledger, apps, dropped, day>>
  /\ \A p \in DOMAIN q.new : Slots(q.new[p]) /\ q.new[p].slot \in {0, q.seen[p].slot}

LEMMA ReleasesCapped ==
  ASSUME CapInv, NEW r \in Requests, NEW q, Releases(r, q)
  PROVE  Capped'
<1>1. Takes(r, q)
  BY DEF Releases, Takes, Reserving
<1> QED
  BY <1>1, TakesCapped

LEMMA DeleteProposalCapped ==
  ASSUME CapInv, NEW r \in Requests, NEW p \in Proposals, DeleteProposal(r, p)
  PROVE  Capped'
<1> PICK q : q = [Idle EXCEPT !.doomed = {p}]
  OBVIOUS
<1>1. DOMAIN q.new = {}
  BY IdleRequest DEF Idle
<1>2. Releases(r, q)
  BY <1>1 DEF DeleteProposal, Begin, Releases
<1> QED
  BY <1>2, ReleasesCapped

LEMMA DeleteJobCapped ==
  ASSUME CapInv, NEW r \in Requests, NEW j \in Jobs, DeleteJob(r, j)
  PROVE  Capped'
<1> PICK q : q = [Idle EXCEPT !.drops = {j}]
  OBVIOUS
<1>1. DOMAIN q.new = {}
  BY IdleRequest DEF Idle
<1>2. Releases(r, q)
  BY <1>1 DEF DeleteJob, Begin, Releases
<1> QED
  BY <1>2, ReleasesCapped

LEMMA ExpireStaleCapped ==
  ASSUME CapInv, NEW r \in Requests, ExpireStale(r)
  PROVE  Capped'
<1> PICK S : S = {p \in Proposals : props[p].status \in Expiring /\ props[p].filed < day}
  OBVIOUS
<1> PICK q : q = [Idle EXCEPT !.seen = [p \in S |-> props[p]],
                              !.new = [p \in S |-> [props[p] EXCEPT !.status = "expired"]],
                              !.events = {}, !.marks = NoMarks]
  OBVIOUS
<1>1. requests' = [requests EXCEPT ![r] = q] /\ UNCHANGED <<props, ledger, apps, dropped, day>>
  BY DEF ExpireStale, Change, Begin
<1>2. /\ DOMAIN q.new = S
      /\ \A p \in S : /\ q.new[p] = [props[p] EXCEPT !.status = "expired"]
                       /\ q.seen[p] = props[p]
  BY DEF Idle
<1>3. \A p \in S : q.new[p].status = "expired" /\ q.new[p].slot = q.seen[p].slot
  BY <1>2, CapRow DEF Row
<1>4. Releases(r, q)
  BY <1>1, <1>2, <1>3 DEF Releases, Slots, Consented
<1> QED
  BY <1>4, ReleasesCapped

LEMMA CreateProposalCapped ==
  ASSUME CapInv, NEW r \in Requests, NEW j \in Jobs, NEW a \in Applications \cup {NoApp},
         CreateProposal(r, j, a)
  PROVE  Capped'
<1>1. ASSUME NEW p \in Open(j), LateLink(r, p, a)
      PROVE  Capped'
  <2>1. p \in Proposals
    BY DEF Open
  <2> PICK q : q = [Idle EXCEPT !.seen = [x \in {p} |-> props[p]],
                                !.new = [x \in {p} |-> [props[p] EXCEPT !.app = a]],
                                !.events = {}, !.marks = NoMarks]
    OBVIOUS
  <2>2. requests' = [requests EXCEPT ![r] = q] /\ UNCHANGED <<props, ledger, apps, dropped, day>>
    BY <1>1 DEF LateLink, Change, Begin
  <2>3. /\ DOMAIN q.new = {p} /\ q.seen[p] = props[p]
        /\ q.new[p] = [props[p] EXCEPT !.app = a]
    BY DEF Idle
  <2>4. /\ q.new[p].status = props[p].status /\ q.new[p].slot = props[p].slot
        /\ q.seen[p].slot = props[p].slot
    BY <2>1, <2>3, CapRow DEF Row
  <2>5. Releases(r, q)
    BY <2>1, <2>2, <2>3, <2>4, CapRow DEF Releases, Slots
  <2> QED
    BY <2>5, ReleasesCapped
<1>2. CASE File(r, j, a)
  <2> PICK p \in Proposals :
         Change(r, [x \in {p} |-> props[p]],
                   [x \in {p} |-> [NotFiled EXCEPT !.status = "pending_review", !.job = j,
                                                   !.app = a, !.filed = day]],
                   {}, NoMarks)
    BY <1>2 DEF File
  <2> PICK row : row = [NotFiled EXCEPT !.status = "pending_review", !.job = j,
                                        !.app = a, !.filed = day]
    OBVIOUS
  <2> PICK q : q = [Idle EXCEPT !.seen = [x \in {p} |-> props[p]],
                                !.new = [x \in {p} |-> row],
                                !.events = {}, !.marks = NoMarks]
    OBVIOUS
  <2>1. requests' = [requests EXCEPT ![r] = q] /\ UNCHANGED <<props, ledger, apps, dropped, day>>
    BY DEF Change, Begin
  <2>2. row.status = "pending_review" /\ row.slot = 0
    BY DEF NotFiled
  <2>3. DOMAIN q.new = {p} /\ q.new[p] = row
    BY DEF Idle
  <2>4. Releases(r, q)
    BY <2>1, <2>2, <2>3 DEF Releases, Slots, Consented
  <2> QED
    BY <2>4, ReleasesCapped
<1> QED
  BY <1>1, <1>2 DEF CreateProposal

LEMMA PatchApplicationCapped ==
  ASSUME CapInv, NEW r \in Requests, NEW a \in Applications, NEW to, NEW declines \in BOOLEAN,
         PatchApplication(r, a, to, declines)
  PROVE  Capped'
<1> PICK S : S = {p \in IF declines THEN Open(JobOf[a]) ELSE {} :
                    "rejected" \in Allowed(props[p].status)}
  OBVIOUS
<1> PICK new : new = [p \in S |-> Moved([props[p] EXCEPT !.manual = @ \/ to = "applied"],
                                         "rejected")]
  OBVIOUS
<1> PICK q : q = [Idle EXCEPT !.seen = [p \in S |-> props[p]], !.new = new,
                              !.events = {}, !.marks = Marked(a, to)]
  OBVIOUS
<1>1. requests' = [requests EXCEPT ![r] = q] /\ UNCHANGED <<props, ledger, apps, dropped, day>>
  <2>1. DOMAIN new = S
    OBVIOUS
  <2>2. ChangeApplication(r, a, to, new)
    BY DEF PatchApplication
  <2> QED
    BY <2>1, <2>2 DEF ChangeApplication, Change, Begin
<1>2. q.new = new /\ DOMAIN q.new = S /\ S \subseteq Proposals
  BY DEF Open, Idle
<1>3. ASSUME NEW p \in S
      PROVE  q.new[p].status = "rejected" /\ q.new[p].slot = 0
  <2> PICK row : row = [props[p] EXCEPT !.manual = @ \/ to = "applied"]
    OBVIOUS
  <2>1. row = [status |-> row.status, job |-> row.job, app |-> row.app, manual |-> row.manual,
               reviewed |-> row.reviewed, slot |-> row.slot, filed |-> row.filed]
    BY <1>2, CapRow DEF Row
  <2>2. Moved(row, "rejected").status = "rejected" /\ Moved(row, "rejected").slot = 0
    BY <2>1 DEF Moved, Slot
  <2> QED
    BY <1>2, <2>2
<1>4. Releases(r, q)
  BY <1>1, <1>2, <1>3 DEF Releases, Slots, Consented
<1> QED
  BY <1>4, ReleasesCapped

LEMMA ApplicationCapped ==
  ASSUME CapInv, NEW r \in Requests, NEW a \in Applications,
         DeleteApplication(r, a) \/ NewDraft(r, a)
  PROVE  Capped'
<1> PICK to \in {"gone", "draft"} : ChangeApplication(r, a, to, NoRows)
  BY DEF DeleteApplication, NewDraft
<1> PICK q : q = [Idle EXCEPT !.seen = [p \in DOMAIN NoRows |-> props[p]], !.new = NoRows,
                              !.events = {}, !.marks = Marked(a, to)]
  OBVIOUS
<1>1. requests' = [requests EXCEPT ![r] = q] /\ UNCHANGED <<props, ledger, apps, dropped, day>>
  BY DEF ChangeApplication, Change, Begin
<1>2. DOMAIN q.new = {}
  BY DEF NoRows, Idle
<1>3. Releases(r, q)
  BY <1>1, <1>2 DEF Releases
<1> QED
  BY <1>3, ReleasesCapped

-----------------------------------------------------------------------------
(* A commit *)

(* It puts a row on a day only for a request that reserves.                *)
LEMMA CommitSlots ==
  ASSUME CapInv, NoStale, NEW r \in Requests, NEW q, q = requests[r], Commit(r)
  PROVE  /\ \A p \in Proposals : Slots(props[p])'
         /\ \A d \in 1..LastDay : \A p \in SlotsOn(d)' :
              \/ p \in SlotsOn(d)
              \/ p \in DOMAIN q.new /\ Reserving(q, p) /\ q.new[p].slot = d
<1>1. Typed /\ Inv
  BY DEF CapInv, Inv
<1>2. ASSUME NEW row \in Row, NEW w, w = Cleared(q, row)
      PROVE  w.status = row.status /\ w.slot = row.slot
  BY <1>2 DEF Cleared, Row
<1>3. ASSUME NEW p \in Proposals, p \in Doomed(q)
      PROVE  props'[p].status = "deleted" /\ props'[p].slot = 0
  <2>1. Written(q, p).slot = 0
    BY <1>3 DEF Written, Gone, NotFiled
  <2> QED
    BY <1>1, <1>3, <2>1, CommitIs, WrittenRow
<1>4. ASSUME NEW p \in DOMAIN q.new
      PROVE  /\ p \in Proposals /\ props[p] = q.seen[p]
             /\ props'[p].status = q.new[p].status /\ props'[p].slot = q.new[p].slot
             /\ Slots(q.new[p])
  <2>1. props[p] = q.seen[p]
    BY <1>1, <1>4 DEF Inv, Undisturbed, Current
  <2>2. q.new[p] \in Row /\ props'[p] = Cleared(q, q.new[p]) /\ p \in Proposals
    BY <1>1, <1>4, CommitWrites
  <2>3. Slots(q.new[p])
    BY <1>4 DEF CapInv, Capped
  <2> QED
    BY <1>2, <2>1, <2>2, <2>3
<1>5. ASSUME NEW p \in Proposals, p \notin Reached(q)
      PROVE  props'[p].status = props[p].status /\ props'[p].slot = props[p].slot
  BY <1>1, <1>2, <1>5, CommitKeeps, CapRow
<1>6. \A p \in Proposals : Slots(props[p])'
  <2> SUFFICES ASSUME NEW p \in Proposals
               PROVE  Slots(props[p])'
    OBVIOUS
  <2>1. CASE p \in Doomed(q)
    BY <1>3, <2>1 DEF Slots, Consented
  <2>2. CASE p \in DOMAIN q.new
    BY <1>4, <2>2 DEF Slots
  <2>3. CASE p \notin Reached(q)
    BY <1>5, <2>3, CapRow DEF Slots
  <2> QED
    BY <2>1, <2>2, <2>3 DEF Reached
<1>7. ASSUME NEW d \in 1..LastDay, NEW p \in SlotsOn(d)'
      PROVE  \/ p \in SlotsOn(d)
             \/ p \in DOMAIN q.new /\ Reserving(q, p) /\ q.new[p].slot = d
  <2>1. p \in Proposals /\ props'[p].slot = d /\ d # 0
    BY <1>7, ConstantsOK DEF SlotsOn
  <2>2. CASE p \in Doomed(q)
    BY <1>3, <2>1, <2>2
  <2>3. CASE p \in DOMAIN q.new
    BY <1>4, <2>1, <2>3 DEF SlotsOn, Reserving
  <2>4. CASE p \notin Reached(q)
    BY <1>5, <2>1, <2>4 DEF SlotsOn
  <2> QED
    BY <2>2, <2>3, <2>4 DEF Reached
<1> QED
  BY <1>6, <1>7

LEMMA FewerSlots ==
  ASSUME NEW S \in SUBSET Proposals, NEW T \in SUBSET Proposals
  PROVE  /\ Cardinality(S) \in Nat
         /\ T \subseteq S => Cardinality(T) <= Cardinality(S)
         /\ \A p : T \subseteq S \cup {p} => Cardinality(T) <= Cardinality(S) + 1
<1>1. IsFiniteSet(S) /\ IsFiniteSet(T)
  BY FS_Subset, ConstantsOK
<1>2. Cardinality(S) \in Nat /\ Cardinality(T) \in Nat
  BY <1>1, FS_CardinalityType
<1>3. T \subseteq S => Cardinality(T) <= Cardinality(S)
  BY <1>1, FS_Subset
<1>4. ASSUME NEW p, T \subseteq S \cup {p}
      PROVE  Cardinality(T) <= Cardinality(S) + 1
  <2>1. /\ IsFiniteSet(S \cup {p})
        /\ Cardinality(S \cup {p}) = IF p \in S THEN Cardinality(S) ELSE Cardinality(S) + 1
    BY <1>1, FS_AddElement
  <2>2. Cardinality(T) <= Cardinality(S \cup {p})
    BY <1>4, <2>1, FS_Subset
  <2> QED
    BY <1>2, <2>1, <2>2
<1> QED
  BY <1>2, <1>3, <1>4

LEMMA CommitCapped ==
  ASSUME CapInv, NoStale, NEW r \in Requests, Commit(r)
  PROVE  Capped'
<1> PICK q : q = requests[r]
  OBVIOUS
<1>1. /\ requests'[r] = Idle /\ \A s \in Requests \ {r} : requests'[s] = requests[s]
      /\ DOMAIN Idle.new = {}
  BY CommitIs, IdleRequest DEF CapInv, Inv
<1>2. \A s \in Requests : \A p \in DOMAIN requests'[s].new :
        /\ s # r /\ requests'[s] = requests[s]
        /\ Slots(requests[s].new[p])
        /\ Reserving(requests[s], p) => DOMAIN requests[s].new = {p}
  BY <1>1 DEF CapInv, Capped
<1>3. \A s \in Requests : Reserves(requests'[s]) => s # r /\ Reserves(requests[s])
  BY <1>1 DEF Reserves
<1>4. ASSUME NoCapWindow
      PROVE  WithinCap'
  <2>1. WithinCap
    BY <1>4 DEF CapInv, Capped
  <2>2. \A d : SlotsOn(d) \in SUBSET Proposals /\ SlotsOn(d)' \in SUBSET Proposals
    BY DEF SlotsOn
  <2>3. MaxPerDay \in Nat /\ \A d : Cardinality(SlotsOn(d)) \in Nat /\ Cardinality(SlotsOn(d)') \in Nat
    BY <2>2, FewerSlots, ConstantsOK
  <2>4. \A s, t \in Requests : Reserves(requests'[s]) /\ Reserves(requests'[t]) => s = t
    BY <1>3, <2>1 DEF WithinCap
  <2>5. CASE Reserves(q)
    <3> PICK p \in DOMAIN q.new : Reserving(q, p)
      BY <2>5 DEF Reserves, Reserving
    <3>1. DOMAIN q.new = {p} /\ Cardinality(SlotsOn(q.new[p].slot)) < MaxPerDay
      BY <2>1 DEF CapInv, Capped, WithinCap
    <3>2. ASSUME NEW d \in 1..LastDay
          PROVE  Cardinality(SlotsOn(d)') <= MaxPerDay
      <4>1. Cardinality(SlotsOn(d)) <= MaxPerDay
        BY <2>1 DEF WithinCap
      <4>2. CASE d = q.new[p].slot
        <5>1. SlotsOn(d)' \subseteq SlotsOn(d) \cup {p}
          BY <3>1, CommitSlots
        <5>2. Cardinality(SlotsOn(d)') <= Cardinality(SlotsOn(d)) + 1
          BY <2>2, <5>1, FewerSlots
        <5> QED
          BY <2>3, <3>1, <4>2, <5>2
      <4>3. CASE d # q.new[p].slot
        <5>1. SlotsOn(d)' \subseteq SlotsOn(d)
          BY <3>1, <4>3, CommitSlots
        <5>2. Cardinality(SlotsOn(d)') <= Cardinality(SlotsOn(d))
          BY <2>2, <5>1, FewerSlots
        <5> QED
          BY <2>3, <4>1, <5>2
      <4> QED
        BY <4>2, <4>3
    <3>3. \A s \in Requests : ~Reserves(requests'[s])
      BY <1>3, <2>1, <2>5 DEF WithinCap
    <3>4. \A s \in Requests : \A x \in DOMAIN requests'[s].new : ~Reserving(requests'[s], x)
      BY <3>3 DEF Reserves, Reserving
    <3> QED
      BY <2>4, <3>2, <3>4 DEF WithinCap, Reserving, Reserves
  <2>6. CASE ~Reserves(q)
    <3>1. \A p \in DOMAIN q.new : ~Reserving(q, p)
      BY <2>6 DEF Reserves, Reserving
    <3>2. ASSUME NEW d \in 1..LastDay
          PROVE  Cardinality(SlotsOn(d)') <= Cardinality(SlotsOn(d))
      <4>1. SlotsOn(d)' \subseteq SlotsOn(d)
        BY <3>1, CommitSlots
      <4> QED
        BY <2>2, <4>1, FewerSlots
    <3>3. \A d \in 1..LastDay : Cardinality(SlotsOn(d)') <= MaxPerDay
      BY <2>1, <2>3, <3>2 DEF WithinCap
    <3>4. ASSUME NEW s \in Requests, NEW p \in DOMAIN requests'[s].new, Reserving(requests'[s], p)
          PROVE  Cardinality(SlotsOn(requests[s].new[p].slot))' < MaxPerDay
      <4> PICK d : d = requests[s].new[p].slot
        OBVIOUS
      <4>1. s # r /\ requests'[s] = requests[s]
        BY <1>2, <3>4
      <4>2. Cardinality(SlotsOn(requests[s].new[p].slot)) < MaxPerDay
        BY <2>1, <3>4, <4>1 DEF WithinCap
      <4>3. requests[s].new[p].slot \in 1..LastDay
        <5>1. requests[s].new[p].slot \in 0..LastDay
          BY <3>4, <4>1, TypedRequests DEF CapInv, Inv, Typed, Row
        <5> QED
          BY <3>4, <4>1, <5>1, ConstantsOK DEF Reserving
      <4>4. Cardinality(SlotsOn(d)') < MaxPerDay
        BY <2>3, <3>2, <4>2, <4>3
      <4>5. SlotsOn(requests[s].new[p].slot)' = SlotsOn(d)'
        BY <4>1 DEF SlotsOn
      <4> QED
        BY <4>4, <4>5
    <3> QED
      BY <2>4, <3>3, <3>4 DEF WithinCap, Reserving, Reserves
  <2> QED
    BY <2>5, <2>6
<1>5. \A p \in Proposals : Slots(props[p])'
  BY CommitSlots
<1> QED
  BY <1>2, <1>4, <1>5 DEF Capped, Slots, Reserving, NoCapWindow

(* What does not change the rows and at most ends a request.               *)
LEMMA EndsCapped ==
  ASSUME CapInv, UNCHANGED props,
         \A s \in Requests : requests'[s] \in {requests[s], Idle}
  PROVE  Capped'
<1>1. \A s \in Requests : requests'[s] # Idle => requests'[s] = requests[s]
  OBVIOUS
<1>2. DOMAIN Idle.new = {} /\ ~Reserves(Idle)
  BY IdleRequest DEF Reserves
<1>3. \A d : SlotsOn(d)' = SlotsOn(d)
  BY DEF SlotsOn
<1>4. ASSUME NoCapWindow
      PROVE  WithinCap'
  <2>1. WithinCap
    BY <1>4 DEF CapInv, Capped
  <2>2. \A s, t \in Requests : Reserves(requests'[s]) /\ Reserves(requests'[t]) => s = t
    BY <1>1, <1>2, <2>1 DEF WithinCap
  <2>3. \A s \in Requests : \A p \in DOMAIN requests'[s].new :
          Reserving(requests'[s], p) => Cardinality(SlotsOn(requests'[s].new[p].slot)) < MaxPerDay
    BY <1>1, <1>2, <2>1 DEF WithinCap
  <2> QED
    BY <1>3, <2>1, <2>2, <2>3 DEF WithinCap, Reserving, Reserves
<1>5. \A s \in Requests : \A p \in DOMAIN requests'[s].new :
        /\ Slots(requests'[s].new[p])
        /\ Reserving(requests'[s], p) => DOMAIN requests'[s].new = {p}
  BY <1>1, <1>2 DEF CapInv, Capped
<1>6. \A p \in Proposals : Slots(props[p])'
  BY DEF CapInv, Capped, Slots
<1> QED
  BY <1>4, <1>5, <1>6 DEF Capped, Slots, Reserving, NoCapWindow

LEMMA NextCapped ==
  ASSUME CapInv, NoStale, [Next]_vars
  PROVE  Capped'
<1>1. ASSUME NEW r \in Requests, Fail(r)
      PROVE  Capped'
  BY <1>1, EndsCapped DEF Fail, Done, CapInv, Inv, Typed
<1>2. CASE Tomorrow \/ UNCHANGED vars
  BY <1>2, EndsCapped DEF Tomorrow, vars
<1>3. ASSUME NEW r \in Requests, NewRequest(r)
      PROVE  Capped'
  BY <1>3, ExpireStaleCapped, TransitionProposalCapped, DecisionsCapped, UploadEvidenceCapped,
     CompanionSubmittedCapped, DeleteProposalCapped, DeleteJobCapped, CreateProposalCapped,
     PatchApplicationCapped, ApplicationCapped DEF NewRequest
<1> QED
  BY <1>1, <1>2, <1>3, CommitCapped DEF Next

LEMMA InitCapped == Init => Capped
<1> SUFFICES ASSUME Init
             PROVE  Capped
  OBVIOUS
<1>1. \A p \in Proposals : props[p].status = "none" /\ props[p].slot = 0
  BY DEF Init, NotFiled
<1>2. \A r \in Requests : DOMAIN requests[r].new = {}
  BY IdleRequest DEF Init
<1>3. \A d \in 1..LastDay : SlotsOn(d) = {}
  BY <1>1, ConstantsOK DEF SlotsOn
<1>4. \A d \in 1..LastDay : Cardinality(SlotsOn(d)) <= MaxPerDay
  BY <1>3, FS_EmptySet, ConstantsOK
<1> QED
  BY <1>1, <1>2, <1>4 DEF Capped, WithinCap, Slots, Reserves, Consented

(* When requests about one job do not overlap, and a reservation is        *)
(* committed before the next request looks at the cap, an approval holds a *)
(* slot until it is known to be unused and no day has more slots than the  *)
(* cap (_reserve_cap, _release_cap, cap_status).                           *)
THEOREM CapHoldsAlways ==
  ASSUME NoStale, NoCapWindow PROVE Spec => []CapHolds
<1>1. CapInv /\ [Next]_vars => CapInv'
  BY NextInv, NextCapped DEF CapInv
<1>2. Init => CapInv
  BY InitInv, InitCapped DEF CapInv
<1>3. CapInv => CapHolds
  BY DEF CapInv, Capped, WithinCap, CapHolds, Slots, SlotsOn, Consented
<1> QED
  BY <1>1, <1>2, <1>3, PTL DEF Spec
=============================================================================
