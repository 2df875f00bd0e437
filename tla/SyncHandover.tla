---------------------------- MODULE SyncHandover ----------------------------
(***************************************************************************)
(* Which of the two copies may write a job, and how that right moves.      *)
(*                                                                         *)
(* "home" is the laptop, "bot" the always-on copy.  Each copy has its own  *)
(* SQLite row of a job; the bot runs every sync round and home only        *)
(* answers its calls.  A job goes to the bot by an offer (handover =       *)
(* "offered", a commit on home, then a flip on the bot) and comes back by  *)
(* a take-over request (handover = "returning", a return to home, then a   *)
(* flip on the bot).  A call may never reach home, its answer may be lost, *)
(* it may reach home after the bot gave it up, and either process may      *)
(* stop between two of its commits.                                        *)
(*                                                                         *)
(* A job's rows, files and proposals are one "version": the number of      *)
(* writes it contains; "work" is the part the round looks at.              *)
(***************************************************************************)
EXTENDS Naturals, FiniteSets

CONSTANTS
  Jobs,         \* jobs, by id: the same id names the job on both copies
  Asks,         \* ids of the take-over requests home may make
  JobOf,        \* JobOf[a]: the job the take-over a is about
  NoAsk,        \* no take-over is being decided
  MaxVersion,   \* bound: writes made to one job, on either copy
  MaxOffers,    \* bound: times the user queues a job for the bot
  MaxLate,      \* bound: abandoned requests still on their way to home
  Windows       \* which rare timings may happen, of those below

\* "overlap": a round starts while a request of an earlier one can still land
\* "guard":   a write passes the flush guard before it holds the write lock
\* "settle":  home stops between the two commits of _store_returned
\* "peek":    queueing a job reads the switch before its flush takes the lock
\* "commit":  post_commit reads the offers before its flush takes the lock
RareTimings == {"overlap", "guard", "settle", "peek", "commit"}

ASSUME NoAskAssumption == NoAsk \notin Asks
ASSUME JobOfAssumption == JobOf \in [Asks -> Jobs]
ASSUME BoundsAssumption ==
  /\ MaxVersion \in Nat
  /\ MaxOffers \in Nat
  /\ MaxLate \in Nat
ASSUME WindowsAssumption == Windows \subseteq RareTimings

VARIABLES
  home,        \* the job rows of the laptop
  bot,         \* the job rows of the always-on copy
  edits,       \* every write made to a job so far, on either copy
  deleted,     \* SyncTombstone rows on home
  botDeleted,  \* SyncTombstone rows on the bot
  switch,      \* the laptop's full-automation setting
  offers,      \* how often a job was queued for the bot (bounds the model)
  queueing,    \* jobs a request marks as offered: it has seen the switch on
  asks,        \* home's take_over rows of sync_requests, by status
  decided,     \* the bot's records of the take-overs it decided
  passed,      \* writes whose flush guard has passed, not yet written
  late,        \* requests the bot gave up that may still reach home
  step,        \* where the bot's round is
  page,        \* what the current step still has to handle
  stored,      \* offered jobs the bot stored, then those home committed
  takeovers,   \* take-overs this round has yet to decide
  results,     \* decisions this round has yet to report
  current      \* the take-over being decided

local == <<home, bot, edits, deleted, botDeleted, switch, offers, queueing, asks, passed>>
round == <<step, page, stored, takeovers, results, current>>
vars == <<home, bot, edits, deleted, botDeleted, switch, offers, queueing, asks, decided,
          passed, late, step, page, stored, takeovers, results, current>>

-----------------------------------------------------------------------------
(* Rows *)

Copies == {"home", "bot"}

\* none: no application, and no proposal past pending_review.
\* applying: a proposal is approved or submission_uncertain.
Works == {"none", "worked", "applying"}

\* owner: the row is absent, or names the copy that owns the job.
Row == [owner : Copies \cup {"absent"},
        handover : {"none", "offered", "returning"},
        version : Nat,
        work : Works]

Absent == [owner |-> "absent", handover |-> "none", version |-> 0, work |-> "none"]
New(copy) == [owner |-> copy, handover |-> "none", version |-> 0, work |-> "none"]

\* hooks.owned_here: a copy may write a job it owns that is not on its way out.
HomeMayWrite(j) == home[j].owner = "home" /\ home[j].handover # "offered"
BotOwns(j) == bot[j].owner = "bot"  \* mutant: the mark is not looked at
BotMayWrite(j) == bot[j].owner = "bot" /\ bot[j].handover # "returning"
MayWrite(copy, j) == IF copy = "home" THEN HomeMayWrite(j) ELSE BotMayWrite(j)

\* apply_job: the row takes the bundle's content; the local column handover stays.
Copied(row, m, owner) ==
  [owner |-> owner, handover |-> row.handover, version |-> m.version, work |-> m.work]

\* _set_owner, post_commit, _store_returned: flip the owner and clear the handover.
Given(row, owner) == [row EXCEPT !.owner = owner, !.handover = "none"]

\* _progressed and _mid_application.
Progressed(row) == row.work # "none"
MidApplication(row) == row.work = "applying"

-----------------------------------------------------------------------------
(* What a round handles, and what may still be on its way to home *)

Says == {"home", "remote", "gone", "send", "tombstone", "store", "offer"}
Item == [says : Says, job : Jobs, version : Nat, work : Works]
Bare(says, j) == [says |-> says, job |-> j, version |-> 0, work |-> "none"]
Bundle(says, j, row) ==
  [says |-> says, job |-> j, version |-> row.version, work |-> row.work]

Requests == {"send", "commit", "return", "settle"}
Request == [kind : Requests, job : Jobs, version : Nat, work : Works]
Late(kind, m) == [kind |-> kind, job |-> m.job, version |-> m.version, work |-> m.work]

Steps == {"idle", "reconcile", "push", "pull", "answers", "offers", "storing",
          "committing", "taken", "returns", "marked", "checked", "landed", "handed", "refusing"}

Open == {"pending", "sent"}

-----------------------------------------------------------------------------
Init ==
  /\ \E born \in [Jobs -> Copies] :
       /\ home = [j \in Jobs |-> IF born[j] = "home" THEN New("home") ELSE Absent]
       /\ bot = [j \in Jobs |-> IF born[j] = "bot" THEN New("bot") ELSE Absent]
  /\ edits = [j \in Jobs |-> 0]
  /\ deleted = {} /\ botDeleted = {}
  /\ switch \in BOOLEAN
  /\ offers = 0 /\ queueing = {}
  /\ asks = [a \in Asks |-> "unused"]
  /\ decided = [a \in Asks |-> "none"]
  /\ passed = {} /\ late = {}
  /\ step = "idle"
  /\ page = {} /\ stored = {} /\ takeovers = {} /\ results = {}
  /\ current = NoAsk

-----------------------------------------------------------------------------
(* What people and agents do on one copy, between and during rounds *)

\* The write lands in the row as it is now, whatever the guard saw.
Wrote(row, work) == [row EXCEPT !.version = @ + 1, !.work = work]

Lands(copy, j, work) ==
  /\ edits[j] < MaxVersion
  /\ edits' = [edits EXCEPT ![j] = @ + 1]
  /\ IF copy = "home"
       THEN home' = [home EXCEPT ![j] = Wrote(@, work)] /\ UNCHANGED bot
       ELSE bot' = [bot EXCEPT ![j] = Wrote(@, work)] /\ UNCHANGED home

\* Work begins, a proposal is approved, an application is submitted or dropped.
WorkAfter(work) == IF work = "none" THEN {"none", "worked"} ELSE {"worked", "applying"}

RowOf(copy, j) == IF copy = "home" THEN home[j] ELSE bot[j]

\* Any write to a job or a row attached to it, under the flush guard.
Write(copy, j) ==
  /\ MayWrite(copy, j)
  /\ \E work \in WorkAfter(RowOf(copy, j).work) : Lands(copy, j, work)
  /\ UNCHANGED <<deleted, botDeleted, switch, offers, queueing, asks, decided, passed, late, round>>

\* The guard reads the owner before the first UPDATE takes the write lock
\* (one such write at a time).
PassGuard(copy, j) ==
  /\ "guard" \in Windows
  /\ MayWrite(copy, j)
  /\ passed = {}
  /\ \E work \in WorkAfter(RowOf(copy, j).work) :
       passed' = {[copy |-> copy, job |-> j, work |-> work]}
  /\ UNCHANGED <<home, bot, edits, deleted, botDeleted, switch, offers, queueing, asks, decided, late, round>>

FlushPassed ==
  \E w \in passed :
    /\ passed' = {}
    /\ IF RowOf(w.copy, w.job).owner = "absent"
         THEN UNCHANGED <<home, bot, edits>>
         ELSE Lands(w.copy, w.job, w.work)
    /\ UNCHANGED <<deleted, botDeleted, switch, offers, queueing, asks, decided, late, round>>

DeleteAtHome(j) ==
  /\ HomeMayWrite(j)
  /\ home' = [home EXCEPT ![j] = Absent]
  /\ deleted' = deleted \cup {j}
  /\ UNCHANGED <<bot, edits, botDeleted, switch, offers, queueing, asks, decided, passed, late, round>>

DeleteAtBot(j) ==
  /\ BotMayWrite(j)
  /\ bot' = [bot EXCEPT ![j] = Absent]
  /\ botDeleted' = botDeleted \cup {j}
  /\ UNCHANGED <<home, edits, deleted, switch, offers, queueing, asks, decided, passed, late, round>>

\* mark_when_queued: the laptop's own job, not offered yet.
Offerable(j) ==
  home[j].owner = "home" /\ home[j].handover = "none" /\ ~MidApplication(home[j])

\* The switch is read without the write lock: what it said then is what counts.
PeekSwitch(j) ==
  /\ "peek" \in Windows
  /\ switch /\ Offerable(j)
  /\ queueing' = queueing \cup {j}
  /\ UNCHANGED <<home, bot, edits, deleted, botDeleted, switch, offers, asks, decided, passed, late, round>>

\* The user queues a job (its proposal becomes accepted) with full automation
\* on, or seen on by the request that saves it now.
QueueForBot(j) ==
  /\ switch \/ j \in queueing
  /\ Offerable(j)
  /\ offers < MaxOffers /\ edits[j] < MaxVersion
  /\ offers' = offers + 1
  /\ queueing' = queueing \ {j}
  /\ edits' = [edits EXCEPT ![j] = @ + 1]
  /\ home' = [home EXCEPT ![j] = [owner |-> "home", handover |-> "offered",
                                  version |-> @.version + 1, work |-> "worked"]]
  /\ UNCHANGED <<bot, deleted, botDeleted, switch, asks, decided, passed, late, round>>

\* The request ends unsaved: the flush guard refuses it, or the process stops.
QueueFails(j) ==
  /\ j \in queueing
  /\ queueing' = queueing \ {j}
  /\ UNCHANGED <<home, bot, edits, deleted, botDeleted, switch, offers, asks, decided, passed, late, round>>

KeepHere(j) ==
  /\ home[j].owner = "home" /\ home[j].handover = "offered"
  /\ home' = [home EXCEPT ![j].handover = "none"]
  /\ UNCHANGED <<bot, edits, deleted, botDeleted, switch, offers, queueing, asks, decided, passed, late, round>>

\* Switching full automation off withdraws every offer in the same commit.
Withdrawn(row) ==
  IF row.owner = "home" /\ row.handover = "offered" THEN [row EXCEPT !.handover = "none"] ELSE row

SetFullAutomation(value) ==
  /\ switch # value
  /\ switch' = value
  /\ home' = IF value THEN home ELSE [j \in Jobs |-> Withdrawn(home[j])]
  /\ UNCHANGED <<bot, edits, deleted, botDeleted, offers, queueing, asks, decided, passed, late, round>>

\* "Work on it here", for a job of the bot's; a second one folds into an unsent one.
WorkHere(a) ==
  /\ asks[a] = "unused"
  /\ home[JobOf[a]].owner = "bot"
  /\ \A b \in Asks : JobOf[b] = JobOf[a] => asks[b] # "pending"
  /\ asks' = [asks EXCEPT ![a] = "pending"]
  /\ UNCHANGED <<home, bot, edits, deleted, botDeleted, switch, offers, queueing, decided, passed, late, round>>

LocalStep ==
  \/ \E copy \in Copies, j \in Jobs : Write(copy, j) \/ PassGuard(copy, j)
  \/ FlushPassed
  \/ \E j \in Jobs : DeleteAtHome(j) \/ DeleteAtBot(j) \/ KeepHere(j)
  \/ \E j \in Jobs : PeekSwitch(j) \/ QueueForBot(j) \/ QueueFails(j)
  \/ \E value \in BOOLEAN : SetFullAutomation(value)
  \/ \E a \in Asks : WorkHere(a)

-----------------------------------------------------------------------------
(* What home does with the bot's requests *)

\* _refusal_of: the laptop deleted the job, or it is not the bot's.
DeletedHere(j) == home[j].owner = "absent" /\ j \in deleted
AcceptsFromBot(j) == home[j].owner = "bot" \/ (home[j].owner = "absent" /\ j \notin deleted)

HomeStores(m) ==
  home' = IF AcceptsFromBot(m.job)
            THEN [home EXCEPT ![m.job] = Copied(@, m, "bot")]
            ELSE home

HomeCommits(js) ==
  home' = [j \in Jobs |-> IF j \in js THEN Given(home[j], "bot") ELSE home[j]]

OwnAmong(js) == {j \in js : home[j].owner = "home"}  \* mutant: the offer is not looked at
Committable(js) ==
  {j \in js : home[j].owner = "home" /\ home[j].handover = "offered"}

TakesBack(j) == home[j].owner = "bot"

\* mutant: the owner flips but the returned bundle is not stored
HomeFlipsOwner(m) == home' = [home EXCEPT ![m.job] = Given(@, "home")]

HomeTakesBack(m) ==
  home' = [home EXCEPT ![m.job] = Given(Copied(@, m, "home"), "home")]

SettledNothing(j) == asks  \* mutant: the second commit leaves the requests

\* settle_take_overs: the job is back, its unanswered take-overs are done.
SettledTakeOvers(j) ==
  [a \in Asks |-> IF JobOf[a] = j /\ asks[a] \in Open THEN "applied" ELSE asks[a]]

\* post_request_results: only a request that was sent can be answered.
Answered(reported) ==
  [a \in Asks |-> IF a \in reported /\ asks[a] = "sent" THEN decided[a] ELSE asks[a]]

-----------------------------------------------------------------------------
(* The round, in the order of _STEPS *)

\* Nothing of an earlier round is on its way, unless rounds may overlap; home
\* is never still inside a return: its second commit follows the first at once.
StartRound ==
  /\ step = "idle"
  /\ \A m \in late : m.kind # "settle"
  /\ late' = IF "overlap" \in Windows THEN late ELSE {}
  /\ step' = "reconcile"
  /\ page' = {Bare(IF home[j].owner = "absent" THEN "gone"
                   ELSE IF home[j].owner = "home" THEN "home" ELSE "remote", j) :
               j \in {i \in Jobs : bot[i].owner = "home" \/ bot[i].handover = "returning"}}
  /\ UNCHANGED <<local, decided, stored, takeovers, results, current>>

\* mutant: "remote" is read only as a return that never landed
ReconciledMarked(row, says) ==
  IF row.owner = "absent" \/ (says = "remote" /\ row.handover # "returning") THEN row
  ELSE IF says = "remote" THEN Given(row, "bot")
  ELSE IF says = "home" THEN IF row.handover = "returning" THEN Given(row, "home") ELSE row
  ELSE IF row.handover = "returning" /\ row.owner # "home" THEN Given(row, "bot")
  ELSE Absent

ReconciledRow(row, says) ==
  IF row.owner = "absent" THEN row
  ELSE IF says = "remote" THEN Given(row, "bot")
  ELSE IF says = "home" THEN IF row.handover = "returning" THEN Given(row, "home") ELSE row
  ELSE IF row.handover = "returning" /\ row.owner # "home" THEN Given(row, "bot")
  ELSE Absent

ReconcileOne ==
  /\ step = "reconcile"
  /\ \E m \in page :
       /\ bot' = [bot EXCEPT ![m.job] = ReconciledRow(@, m.says)]
       /\ page' = page \ {m}
  /\ UNCHANGED <<home, edits, deleted, botDeleted, switch, offers, queueing, asks, decided, passed, late,
                 step, stored, takeovers, results, current>>

\* _listing and _take_page: some of the bot's jobs, as they are now, and its
\* deletions.  Which are due is the business of the revision cursor.
ListPush ==
  /\ step = "reconcile" /\ page = {}
  /\ step' = "push"
  /\ \E due \in SUBSET {j \in Jobs : bot[j].owner = "bot"} :
       page' = {Bundle("send", j, bot[j]) : j \in due}
               \cup {Bare("tombstone", j) : j \in botDeleted}
  /\ UNCHANGED <<local, decided, late, stored, takeovers, results, current>>

\* Deletions go first; home drops only a replica of the bot's.
PushTombstone ==
  /\ step = "push"
  /\ \E m \in page :
       /\ m.says = "tombstone"
       /\ home' = IF home[m.job].owner = "bot" THEN [home EXCEPT ![m.job] = Absent] ELSE home
       /\ page' = page \ {m}
  /\ UNCHANGED <<bot, edits, deleted, botDeleted, switch, offers, queueing, asks, decided, passed, late,
                 step, stored, takeovers, results, current>>

\* Home's answer names a job it deleted; the bot reads that answer later.
PushOne ==
  /\ step = "push"
  /\ \A m \in page : m.says # "tombstone"
  /\ \E m \in page :
       /\ m.says = "send"
       /\ HomeStores(m)
       /\ page' = (page \ {m}) \cup IF DeletedHere(m.job) THEN {Bare("gone", m.job)} ELSE {}
  /\ UNCHANGED <<bot, edits, deleted, botDeleted, switch, offers, queueing, asks, decided, passed, late,
                 step, stored, takeovers, results, current>>

\* _drop_if_idle
DropIfIdle ==
  /\ step = "push"
  /\ \E m \in page :
       /\ m.says = "gone"
       /\ bot' = IF Progressed(bot[m.job]) THEN bot ELSE [bot EXCEPT ![m.job] = Absent]
       /\ botDeleted' = IF Progressed(bot[m.job]) THEN botDeleted ELSE botDeleted \ {m.job}
       /\ page' = page \ {m}
  /\ UNCHANGED <<home, edits, deleted, switch, offers, queueing, asks, decided, passed, late,
                 step, stored, takeovers, results, current>>

\* GET /jobs: some of home's own jobs, as they are now, and its deletions.
ListPull ==
  /\ step = "push" /\ page = {}
  /\ step' = "pull"
  /\ \E due \in SUBSET {j \in Jobs : home[j].owner = "home"}, gone \in SUBSET deleted :
       page' = {Bundle("store", j, home[j]) : j \in due} \cup {Bare("tombstone", j) : j \in gone}
  /\ UNCHANGED <<local, decided, late, stored, takeovers, results, current>>

PullOne ==
  /\ step = "pull"
  /\ \E m \in page :
       /\ bot' = IF m.says = "store" THEN [bot EXCEPT ![m.job] = Copied(@, m, "home")]
                 ELSE IF bot[m.job].owner = "home" THEN [bot EXCEPT ![m.job] = Absent]
                 ELSE bot
       /\ page' = page \ {m}
  /\ UNCHANGED <<home, edits, deleted, botDeleted, switch, offers, queueing, asks, decided, passed, late,
                 step, stored, takeovers, results, current>>

\* Home's unanswered take-overs of jobs it knows to be the bot's.
ServedUnsent == {a \in Asks : asks[a] = "pending" /\ home[JobOf[a]].owner = "bot"}  \* mutant
Served == {a \in Asks : asks[a] \in Open /\ home[JobOf[a]].owner = "bot"}

RecordAssumed(a) == TRUE  \* mutant: answered as if decided
HasRecord(a) == decided[a] # "none"

\* GET /requests marks what it serves as sent.  A take-over already decided is
\* answered from its record; the others wait for the handover step.
FetchRequests ==
  /\ step = "pull" /\ page = {}
  /\ step' = "answers"
  /\ asks' = [a \in Asks |-> IF a \in Served THEN "sent" ELSE asks[a]]
  /\ takeovers' = {a \in Served : ~HasRecord(a)}
  /\ results' = {a \in Served : HasRecord(a)}
  /\ UNCHANGED <<home, bot, edits, deleted, botDeleted, switch, offers, queueing, decided, passed, late,
                 page, stored, current>>

PostAnswers ==
  /\ step = "answers"
  /\ step' = "offers"
  /\ asks' = Answered(results)
  /\ results' = {}
  /\ UNCHANGED <<home, bot, edits, deleted, botDeleted, switch, offers, queueing, decided, passed, late,
                 page, stored, takeovers, current>>

GetOffers ==
  /\ step = "offers"
  /\ step' = "storing"
  /\ page' = IF switch THEN {Bundle("offer", j, home[j]) : j \in Committable(Jobs)} ELSE {}
  /\ UNCHANGED <<local, decided, late, stored, takeovers, results, current>>

StoreOffer ==
  /\ step = "storing"
  /\ \E m \in page :
       /\ bot' = [bot EXCEPT ![m.job] = Copied(@, m, "home")]
       /\ stored' = stored \cup {m.job}
       /\ page' = page \ {m}
  /\ UNCHANGED <<home, edits, deleted, botDeleted, switch, offers, queueing, asks, decided, passed, late,
                 step, takeovers, results, current>>

\* The bundle cannot be applied on the bot, or waits for another job.
SkipOffer ==
  /\ step = "storing"
  /\ \E m \in page : page' = page \ {m}
  /\ UNCHANGED <<local, decided, late, step, stored, takeovers, results, current>>

\* mutant: the bot takes all it stored, whatever home committed
PostCommitTakeAll ==
  /\ step = "storing" /\ page = {}
  /\ step' = "taken"
  /\ HomeCommits(Committable(stored))
  /\ stored' = stored
  /\ UNCHANGED <<bot, edits, deleted, botDeleted, switch, offers, queueing, asks, decided, passed, late,
                 page, takeovers, results, current>>

\* post_commit sees which jobs are offered; what comes before its flush takes
\* the lock does not stop it, except a row that is gone.
ReadCommit ==
  /\ "commit" \in Windows
  /\ step = "storing" /\ page = {}
  /\ step' = "committing"
  /\ stored' = Committable(stored)
  /\ UNCHANGED <<local, decided, late, page, takeovers, results, current>>

Taken == IF step = "committing" THEN stored ELSE Committable(stored)

\* POST /handover/commit (no call when nothing was stored).
PostCommit ==
  /\ \/ step = "storing" /\ page = {}
     \/ step = "committing" /\ \A j \in stored : home[j].owner = "home"
  /\ step' = "taken"
  /\ HomeCommits(Taken)
  /\ stored' = Taken
  /\ UNCHANGED <<bot, edits, deleted, botDeleted, switch, offers, queueing, asks, decided, passed, late,
                 page, takeovers, results, current>>

\* Home's answer arrived: the jobs it committed are the bot's.
TakeCommitted ==
  /\ step = "taken"
  /\ step' = "returns"
  /\ bot' = [j \in Jobs |-> IF j \in stored /\ bot[j].owner # "absent"
                              THEN Given(bot[j], "bot") ELSE bot[j]]
  /\ stored' = {}
  /\ UNCHANGED <<home, edits, deleted, botDeleted, switch, offers, queueing, asks, decided, passed, late,
                 page, takeovers, results, current>>

\* _decide_return up to its first commit: the job is marked returning.
DecideReturn(a) ==
  /\ step = "returns" /\ a \in takeovers
  /\ current' = a
  /\ takeovers' = takeovers \ {a}
  /\ LET j == JobOf[a] IN
       /\ step' = CASE bot[j].owner = "absent" -> "refusing"
                    [] bot[j].owner = "home" -> "handed"
                    [] bot[j].owner = "bot" -> "marked"
       /\ bot' = IF bot[j].owner = "bot" THEN [bot EXCEPT ![j].handover = "returning"] ELSE bot
  /\ UNCHANGED <<home, edits, deleted, botDeleted, switch, offers, queueing, asks, decided, passed, late,
                 page, stored, results>>

\* mutant: an application in progress does not refuse the return
ReturnUnchecked ==
  /\ step = "marked"
  /\ step' = "checked"
  /\ UNCHANGED <<local, decided, late, page, stored, takeovers, results, current>>

\* _mid_application, after the mark: refuse and clear it, or go on.
CheckApplying ==
  /\ step = "marked"
  /\ LET j == JobOf[current] IN
       IF MidApplication(bot[j])
         THEN step' = "refusing" /\ bot' = [bot EXCEPT ![j].handover = "none"]
         ELSE step' = "checked" /\ UNCHANGED bot
  /\ UNCHANGED <<home, edits, deleted, botDeleted, switch, offers, queueing, asks, decided, passed, late,
                 page, stored, takeovers, results, current>>

\* POST /handover/return, its first commit: the bundle is stored, the job is home's.
HandBack ==
  /\ step = "checked"
  /\ TakesBack(JobOf[current])
  /\ step' = "landed"
  /\ HomeTakesBack(Bundle("send", JobOf[current], bot[JobOf[current]]))
  /\ UNCHANGED <<bot, edits, deleted, botDeleted, switch, offers, queueing, asks, decided, passed, late,
                 page, stored, takeovers, results, current>>

\* The bundle cannot be exported, or home refuses or cannot apply it.
HandBackRefused ==
  /\ step = "checked"
  /\ step' = "refusing"
  /\ UNCHANGED <<local, decided, late, page, stored, takeovers, results, current>>

\* The second commit of _store_returned, and the answer.
SettleReturn ==
  /\ step = "landed"
  /\ step' = "handed"
  /\ asks' = SettledTakeOvers(JobOf[current])
  /\ UNCHANGED <<home, bot, edits, deleted, botDeleted, switch, offers, queueing, decided, passed, late,
                 page, stored, takeovers, results, current>>

\* _finish_return and _record_decision, one commit.
FinishReturn ==
  /\ step \in {"handed", "refusing"}
  /\ step' = "returns"
  /\ LET j == JobOf[current] IN
       bot' = CASE bot[j].owner = "absent" -> bot
                [] bot[j].owner # "absent" /\ step = "handed" -> [bot EXCEPT ![j] = Given(@, "home")]
                [] bot[j].owner # "absent" /\ step = "refusing" -> [bot EXCEPT ![j].handover = "none"]
  /\ decided' = [decided EXCEPT ![current] = IF step = "handed" THEN "applied" ELSE "refused"]
  /\ results' = results \cup {current}
  /\ current' = NoAsk
  /\ UNCHANGED <<home, edits, deleted, botDeleted, switch, offers, queueing, asks, passed, late,
                 page, stored, takeovers>>

PostResults ==
  /\ step = "returns" /\ takeovers = {}
  /\ step' = "idle"
  /\ asks' = Answered(results)
  /\ results' = {}
  /\ UNCHANGED <<home, bot, edits, deleted, botDeleted, switch, offers, queueing, decided, passed, late,
                 page, stored, takeovers, current>>

RoundStep ==
  \/ StartRound \/ ReconcileOne \/ ListPush \/ PushTombstone \/ PushOne \/ DropIfIdle
  \/ ListPull \/ PullOne \/ FetchRequests \/ PostAnswers
  \/ GetOffers \/ StoreOffer \/ SkipOffer \/ ReadCommit \/ PostCommit \/ TakeCommitted
  \/ \E a \in Asks : DecideReturn(a)
  \/ CheckApplying \/ HandBack \/ HandBackRefused \/ SettleReturn \/ FinishReturn \/ PostResults

-----------------------------------------------------------------------------
(* Failures *)

\* The request the bot is waiting on, as home would still receive it.
Outstanding ==
  CASE step = "push" -> {Late("send", m) : m \in {i \in page : i.says = "send"}}
    [] step = "storing" /\ page = {} -> {Late("commit", Bare("offer", j)) : j \in stored}
    [] step = "committing" -> {Late("commit", Bare("offer", j)) : j \in stored}
    [] step = "checked" ->
         {Late("return", Bundle("send", JobOf[current], bot[JobOf[current]]))}
    [] OTHER -> {}

\* Home finishes a return whether or not the bot still waits for its answer.
Unsettled ==
  IF step = "landed" THEN {Late("settle", Bare("home", JobOf[current]))} ELSE {}

\* The call fails or times out, a step fails, or the bot's process stops: what
\* is committed stays, the round's own variables are gone.
GiveUp ==
  /\ step # "idle"
  /\ \E lost \in SUBSET Outstanding, unsettled \in SUBSET Unsettled :
       /\ unsettled = Unsettled \/ "settle" \in Windows
       /\ late' = late \cup lost \cup unsettled
       /\ Cardinality(late') <= MaxLate
  /\ step' = "idle"
  /\ page' = {} /\ stored' = {} /\ takeovers' = {} /\ results' = {} /\ current' = NoAsk
  /\ UNCHANGED <<local, decided>>

LandSend(m) == m.kind = "send" /\ HomeStores(m) /\ UNCHANGED asks
LandCommit(m) == m.kind = "commit" /\ HomeCommits(Committable({m.job})) /\ UNCHANGED asks
LandReturn(m) ==
  /\ m.kind = "return"
  /\ IF TakesBack(m.job) THEN HomeTakesBack(m) /\ asks' = SettledTakeOvers(m.job)
                         ELSE UNCHANGED <<home, asks>>
LandSettle(m) == m.kind = "settle" /\ asks' = SettledTakeOvers(m.job) /\ UNCHANGED home

\* A request the bot gave up reaches home.
Land(m) ==
  /\ late' = late \ {m}
  /\ LandSend(m) \/ LandCommit(m) \/ LandReturn(m) \/ LandSettle(m)
  /\ UNCHANGED <<bot, edits, deleted, botDeleted, switch, offers, queueing, decided, passed, round>>

Failure == GiveUp \/ \E m \in late : Land(m)

Next == LocalStep \/ RoundStep \/ Failure

Spec == Init /\ [][Next]_vars

-----------------------------------------------------------------------------
(* Properties *)

TypeOK ==
  /\ home \in [Jobs -> Row]
  /\ bot \in [Jobs -> Row]
  /\ edits \in [Jobs -> Nat]
  /\ deleted \subseteq Jobs
  /\ botDeleted \subseteq Jobs
  /\ switch \in BOOLEAN
  /\ offers \in Nat
  /\ queueing \subseteq Jobs
  /\ asks \in [Asks -> {"unused", "pending", "sent", "applied", "refused"}]
  /\ decided \in [Asks -> {"none", "applied", "refused"}]
  /\ passed \subseteq [copy : Copies, job : Jobs, work : Works]
  /\ late \subseteq Request
  /\ step \in Steps
  /\ page \subseteq Item
  /\ stored \subseteq Jobs
  /\ takeovers \subseteq Asks
  /\ results \subseteq Asks
  /\ current \in Asks \cup {NoAsk}

\* An offer no round fetches.
OfferedWhileOff(j) == ~switch /\ home[j].owner = "home" /\ home[j].handover = "offered"

\* services/sync/offers.py: "Switching full automation off withdraws every offer
\* that has not moved yet".  With "peek" it does not: no run checks it.
OffersAreWithdrawn == \A j \in Jobs : ~OfferedWhileOff(j)

\* "Only the owner writes a job, so two copies never edit the same row"
\* (docs/sync-setup.md): at no point would both flush guards let a write pass.
SingleWriter == \A j \in Jobs : ~(HomeMayWrite(j) /\ BotMayWrite(j))

\* The copy that may write a job holds every write made to it so far, on
\* either copy: an offer, a return or a reconcile never drops one.
WriterIsCurrent ==
  \A j \in Jobs \ deleted :
    /\ HomeMayWrite(j) => home[j].version = edits[j]
    /\ BotMayWrite(j) => bot[j].version = edits[j]

\* A job in the middle of an application is never given up by the bot: a
\* return does not land while the bot's proposal is approved or uncertain.
NoHandBackMidApplication ==
  [][\A j \in Jobs :
       home[j].owner = "bot" /\ home'[j].owner = "home" => ~MidApplication(bot[j])]_vars

\* Home has no take-over waiting for a job that is back: the next round would
\* never serve it, and one served later would take back a new offer.
NoOpenAskForAJobHere ==
  \A a \in Asks :
    /\ home[JobOf[a]].owner = "home"
    /\ asks[a] \in Open
    => \/ step = "landed" /\ JobOf[current] = JobOf[a]
       \/ \E m \in late : m.kind = "settle" /\ m.job = JobOf[a]

\* _decide_return: "so no edit or run can slip in between the check and the
\* hand-over": the row that was checked is the row home gets.
HandBackIsFrozen ==
  [][(/\ step \in {"checked", "landed", "handed"}
      /\ bot[JobOf[current]].owner = "bot")
     => bot'[JobOf[current]].version = bot[JobOf[current]].version]_vars

\* The handover implements JobOwnership: the holder is the copy whose guard
\* lets a write pass; a deleted job is out of the protocol's hands.
Gone(j) == j \in deleted \cup botDeleted

Ownership == INSTANCE JobOwnership WITH
  holder <- [j \in Jobs |-> IF Gone(j) THEN "gone"
                            ELSE IF HomeMayWrite(j) THEN "home"
                            ELSE IF BotMayWrite(j) THEN "bot" ELSE "moving"],
  text <- [j \in Jobs |-> IF Gone(j) THEN 0
                          ELSE IF HomeMayWrite(j) THEN home[j].version
                          ELSE IF BotMayWrite(j) THEN bot[j].version ELSE edits[j]]

ImplementsOwnership == Ownership!Spec

-----------------------------------------------------------------------------
(* Liveness: rounds keep coming (cron, or the agent's sync_now), each step of *)
(* one is finished or given up, and from some point on no round is given up   *)
(* and every offered bundle can be stored.                                    *)

Fairness ==
  /\ WF_vars(RoundStep)
  /\ WF_vars(\E m \in late : LandSettle(m) /\ Land(m))

\* The last step of a round that has nothing to report looks like giving it up.
Recovers == <>[][(GiveUp => PostResults) /\ ~SkipOffer]_vars

FairSpec == Spec /\ Fairness /\ Recovers

\* A take-over is answered in the end, whatever was lost on the way, unless the
\* bot deleted the job meanwhile.
AskIsAnswered ==
  \A a \in Asks :
    asks[a] \in Open ~> (asks[a] \notin Open \/ home[JobOf[a]].owner = "absent")

\* A job marked returning or offered does not stay read-only on both copies: in
\* the end some copy may write it, or it is gone from both, or it is an offer
\* saved after the switch went off, which waits for the user.
SomeoneMayWrite ==
  \A j \in Jobs :
    []<>(\/ HomeMayWrite(j) \/ BotMayWrite(j)
         \/ home[j].owner = "absent" /\ bot[j].owner = "absent"
         \/ OfferedWhileOff(j))

=============================================================================
