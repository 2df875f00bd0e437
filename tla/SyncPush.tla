------------------------------ MODULE SyncPush ------------------------------
(***************************************************************************)
(* How the bot's own jobs reach home: the push step of a sync round.       *)
(*                                                                         *)
(* Every flush that writes jobs advances one local clock and stamps the    *)
(* jobs (or their tombstones) with its value.  A push lists the jobs       *)
(* stamped after the last acknowledged revision, sends them to home in     *)
(* pages, and saves the acknowledgement after each page.  Home may refuse  *)
(* a job, which is then retried on later rounds and parked after           *)
(* RETRY_LIMIT of them, or keep its own job for the same text, and then    *)
(* the bot drops its copy.  Who owns a job is the matter of SyncHandover;  *)
(* here every job is the bot's.                                            *)
(*                                                                         *)
(* The content of a job is the revision of the flush that wrote it.        *)
(***************************************************************************)
EXTENDS Naturals, FiniteSets, Functions

CONSTANTS
  Jobs,         \* ids of jobs the bot may find; an id is never used twice
  Shared,       \* those whose text home may find too
  PUSH_JOBS,    \* jobs in one page, at most
  RETRY_LIMIT,  \* rounds a refused job is tried before it is parked
  MaxClock,     \* bound: the user and agents stop writing at this revision
  Windows       \* which rare timings may happen, of those below

\* "ties":    one flush writes several jobs, which then share a revision
\* "listing": a job is deleted between the listing of the jobs and that of the
\*            tombstones
\* "drop":    work begins on a job between the check for it and the drop
RareTimings == {"ties", "listing", "drop"}

ASSUME JobsAssumption == IsFiniteSet(Jobs)
ASSUME SharedAssumption == Shared \subseteq Jobs
ASSUME PageAssumption == PUSH_JOBS \in Nat \ {0}
ASSUME RetryAssumption == RETRY_LIMIT \in Nat \ {0}
ASSUME ClockAssumption == MaxClock \in Nat
ASSUME WindowsAssumption == Windows \subseteq RareTimings

VARIABLES
  clock,    \* the revision clock of the bot
  jobs,     \* the bot's job rows
  tombs,    \* the revisions of the bot's SyncTombstone rows, 0 for none
  acked,    \* acked_own: the last acknowledged revision, saved
  retry,    \* retry_own: rounds a job was refused, 0 for not tracked, saved
  stuck,    \* stuck_own: the parked jobs, saved
  step,     \* where the push is
  push,     \* retry and stuck as the running push has them
  rows,     \* listed jobs not yet in a page
  doomed,   \* listed tombstones not yet sent
  top,      \* the highest listed tombstone revision
  page,     \* the page being built or sent
  answer,   \* what home has answered for the page so far
  checked,  \* a job about to be dropped, in which no work was seen
  inbox,    \* what home has received and not yet handled
  replica,  \* home's rows of the bot's jobs
  twins,    \* jobs whose text a job of home's own also has
  removed   \* jobs home took back and deleted, the bot not knowing yet

local == <<step, push, rows, doomed, top, page, answer, checked>>
saved == <<acked, retry, stuck>>
atHome == <<replica, twins, removed>>
vars == <<clock, jobs, tombs, saved, local, inbox, atHome>>

Phases == {"new", "live", "gone"}

Job == [phase : Phases, rev : Nat, worked : BOOLEAN, sendable : BOOLEAN]
Listed == [job : Jobs, rev : Nat]
Bundle == [job : Jobs, rev : Nat, worked : BOOLEAN]

\* revision 0 with phase "live" is a job older than the clock.
Unknown == [phase |-> "new", rev |-> 0, worked |-> FALSE, sendable |-> TRUE]
Old == [Unknown EXCEPT !.phase = "live"]
Gone == [Unknown EXCEPT !.phase = "gone"]

\* rev is the content home has of a job, 0 for none; aside that it is stored
\* under the replica hash, so that home's own job may have the text.
NoReplica == [rev |-> 0, aside |-> FALSE]

NoPage == [listed |-> {}, bundles |-> {}]
NoAnswer == [refused |-> {}, laptop |-> {}, gone |-> {}]
NothingSent == [tombs |-> {}, bundles |-> {}]
NoPush == [retry |-> [j \in Jobs |-> 0], stuck |-> {}]

Live(j) == jobs[j].phase = "live"

Init ==
  /\ clock = 0
  /\ jobs \in [Jobs -> {Unknown, Old}]
  /\ tombs = [j \in Jobs |-> 0]
  /\ acked = 0
  /\ retry = [j \in Jobs |-> 0]
  /\ stuck = {}
  /\ step = "idle"
  /\ push = NoPush
  /\ rows = {}
  /\ doomed = {}
  /\ top = 0
  /\ page = NoPage
  /\ answer = NoAnswer
  /\ checked = {}
  /\ inbox = NothingSent
  /\ replica = [j \in Jobs |-> NoReplica]
  /\ twins = {}
  /\ removed = {}

-----------------------------------------------------------------------------
(* People and agents on the bot: saving, editing, applying, deleting.        *)

\* The jobs one flush may write.
Touches == IF "ties" \in Windows THEN SUBSET Jobs \ {{}} ELSE {{j} : j \in Jobs}

\* A flush creates or edits jobs; an edit may start or undo work on a job
\* (an application, a proposal past pending_review) or make it too large.
Flush ==
  /\ clock < MaxClock
  /\ \E touched \in Touches :
       /\ \A j \in touched : ~(jobs[j].phase = "gone")
       /\ \E worked \in SUBSET touched, unsendable \in SUBSET touched :
            /\ "drop" \in Windows \/ worked \cap checked = {}
            /\ jobs' = [j \in Jobs |->
                 IF j \in touched
                 THEN [phase |-> "live", rev |-> clock + 1, worked |-> j \in worked,
                       sendable |-> j \notin unsendable]
                 ELSE jobs[j]]
  /\ clock' = clock + 1
  /\ UNCHANGED <<tombs, saved, local, inbox, atHome>>

Delete(j) ==
  /\ clock < MaxClock
  /\ Live(j)
  /\ step = "listed" => "listing" \in Windows
  /\ clock' = clock + 1
  /\ jobs' = [jobs EXCEPT ![j] = Gone]
  /\ tombs' = [tombs EXCEPT ![j] = clock + 1]
  /\ UNCHANGED <<saved, local, inbox, atHome>>

-----------------------------------------------------------------------------
(* The user at home.                                                         *)

\* The text of a replica is taken unless the replica was set aside.
SaveTwin(j) ==
  /\ j \in Shared
  /\ replica[j].rev = 0 \/ replica[j].aside
  /\ twins' = twins \cup {j}
  /\ UNCHANGED <<clock, jobs, tombs, saved, local, inbox, replica, removed>>

DeleteTwin(j) ==
  /\ twins' = twins \ {j}
  /\ UNCHANGED <<clock, jobs, tombs, saved, local, inbox, replica, removed>>

\* Home took the job back, the bot did not get to record it, and the user
\* deleted it: SyncHandover has the steps.
TakeBackAndDelete(j) ==
  /\ Live(j)
  /\ replica[j].rev > 0
  /\ removed' = removed \cup {j}
  /\ replica' = [replica EXCEPT ![j] = NoReplica]
  /\ UNCHANGED <<clock, jobs, tombs, saved, local, inbox, twins>>

-----------------------------------------------------------------------------
(* The push: listing.                                                        *)

NothingToStamp == {}  \* mutant: jobs older than the clock keep revision 0
Unstamped == {j \in Jobs : Live(j) /\ jobs[j].rev = 0}

\* stamp_unsynced_jobs, then the saved state and the listing.  Whatever an
\* earlier round sent has been handled or is lost by now.
StartPush ==
  /\ step = "idle"
  /\ \E now \in clock..(clock + Cardinality(Unstamped)) :
       /\ clock' = now
       /\ \E stamp \in Bijection(Unstamped, (clock + 1)..now) :
            jobs' = [j \in Jobs |-> IF j \in Unstamped THEN [jobs[j] EXCEPT !.rev = stamp[j]]
                                    ELSE jobs[j]]
  /\ push' = [retry |-> [j \in Jobs |-> IF Live(j) THEN retry[j] ELSE 0],
              stuck |-> {j \in stuck : Live(j)}]
  /\ rows' = {[job |-> j, rev |-> jobs'[j].rev] :
                j \in {k \in Jobs : Live(k) /\ (jobs'[k].rev > acked \/ push'.retry[k] > 0)}}
  /\ inbox' = NothingSent
  /\ step' = "listed"
  /\ UNCHANGED <<tombs, saved, doomed, top, page, answer, checked, atHome>>

ListTombstones ==
  /\ step = "listed"
  /\ doomed' = {j \in Jobs : tombs[j] > acked}
  /\ top' \in {0} \cup {tombs[j] : j \in doomed'}
  /\ \A j \in doomed' : tombs[j] <= top'
  /\ step' = "paging"
  /\ UNCHANGED <<clock, jobs, tombs, saved, push, rows, page, answer, checked, inbox, atHome>>

-----------------------------------------------------------------------------
(* The push: one page.                                                       *)

\* The next row in the order of revisions joins the page: as a bundle of what
\* the job is now, or without one when it cannot be exported.
TakeRow ==
  /\ step = "paging"
  /\ Cardinality(page.listed) < PUSH_JOBS
  /\ \E row \in rows :
       /\ \A other \in rows : row.rev <= other.rev
       /\ rows' = rows \ {row}
       /\ page' = [listed |-> page.listed \cup {row},
                   bundles |-> page.bundles \cup
                     (IF Live(row.job) /\ jobs[row.job].sendable
                      THEN {[job |-> row.job, rev |-> jobs[row.job].rev,
                             worked |-> jobs[row.job].worked]}
                      ELSE {})]
  /\ UNCHANGED <<clock, jobs, tombs, saved, step, push, doomed, top, answer, checked, inbox, atHome>>

\* Pages are cut by size too, so a page may go before it has PUSH_JOBS rows.
PageReady == step = "paging" /\ (page.listed = {} => rows = {})

Post ==
  /\ PageReady
  /\ page.bundles # {} \/ doomed # {}
  /\ inbox' = [tombs |-> doomed, bundles |-> page.bundles]
  /\ doomed' = {}
  /\ answer' = NoAnswer
  /\ step' = "posted"
  /\ UNCHANGED <<clock, jobs, tombs, saved, push, rows, top, page, checked, atHome>>

-----------------------------------------------------------------------------
(* Home's side of POST /api/sync/jobs: deletions first, then each bundle in a *)
(* transaction of its own.                                                    *)

DropReplica(j) ==
  /\ j \in inbox.tombs
  /\ inbox' = [inbox EXCEPT !.tombs = @ \ {j}]
  /\ replica' = [replica EXCEPT ![j] = NoReplica]
  /\ UNCHANGED <<clock, jobs, tombs, saved, local, twins, removed>>

ClashesAgain(j) == j \in twins  \* mutant: the replica hash is not kept
\* A replica stored under the replica hash stays under it.
Clashes(j) == j \in twins /\ ~replica[j].aside

\* An answer to a round that was given up reaches nobody.
Answers(kinds, j) ==
  answer' = IF step = "posted"
            THEN [k \in DOMAIN answer |-> IF k \in kinds THEN answer[k] \cup {j} ELSE answer[k]]
            ELSE answer

StoreBundle(b) ==
  /\ inbox.tombs = {}
  /\ b \in inbox.bundles
  /\ inbox' = [inbox EXCEPT !.bundles = @ \ {b}]
  /\ \/ /\ b.job \in removed
        /\ Answers({"refused", "gone"}, b.job)
        /\ UNCHANGED replica
     \/ /\ b.job \notin removed
        /\ ~Clashes(b.job)
        /\ replica' = [replica EXCEPT ![b.job].rev = b.rev]
        /\ Answers({}, b.job)
     \/ /\ b.job \notin removed
        /\ Clashes(b.job)
        /\ b.worked
        /\ replica' = [replica EXCEPT ![b.job] = [rev |-> b.rev, aside |-> TRUE]]
        /\ Answers({}, b.job)
     \/ /\ b.job \notin removed
        /\ Clashes(b.job)
        /\ ~b.worked
        /\ Answers({"laptop"}, b.job)
        /\ UNCHANGED replica
     \/ \* another job's folder or rows are in the way, or it cannot be read
        /\ b.job \notin removed
        /\ Answers({"refused"}, b.job)
        /\ UNCHANGED replica
  /\ UNCHANGED <<clock, jobs, tombs, saved, step, push, rows, doomed, top, page, checked,
                 twins, removed>>

HandlePost == \/ \E j \in inbox.tombs : DropReplica(j)
              \/ \E b \in inbox.bundles : StoreBundle(b)

-----------------------------------------------------------------------------
(* The push: the answer to a page.                                           *)

\* Refused jobs are counted and parked at the limit; the page's other jobs are
\* no longer tracked.
TrackRefusals ==
  /\ step = "posted"
  /\ inbox = NothingSent
  /\ LET sent == {row.job : row \in page.listed}
         attempts == [j \in Jobs |-> push.retry[j] + 1]
         parked == {j \in sent \cap answer.refused : attempts[j] >= RETRY_LIMIT}
     IN push' = [retry |-> [j \in Jobs |->
                              IF j \notin sent THEN push.retry[j]
                              ELSE IF j \in answer.refused \ parked THEN attempts[j] ELSE 0],
                 stuck |-> (push.stuck \ sent) \cup parked]
  /\ step' = "dropping"
  /\ UNCHANGED <<clock, jobs, tombs, saved, rows, doomed, top, page, answer, checked, inbox, atHome>>

NothingWorked(j) == FALSE  \* mutant: dropped whatever was done with it
Worked(j) == jobs[j].worked

ToDrop == answer.laptop \cup answer.gone

Settled(j) == [answer EXCEPT !.laptop = @ \ {j}, !.gone = @ \ {j}]

\* _drop_duplicate and _drop_if_idle read whether work began ...
CheckDrop(j) ==
  /\ step = "dropping"
  /\ checked = {}
  /\ j \in ToDrop
  /\ IF Worked(j)
     THEN /\ answer' = Settled(j)
          /\ UNCHANGED checked
     ELSE /\ checked' = {j}
          /\ UNCHANGED answer
  /\ UNCHANGED <<clock, jobs, tombs, saved, step, push, rows, doomed, top, page, inbox, atHome>>

\* ... and then delete the job, without a tombstone.
Drop(j) ==
  /\ step = "dropping"
  /\ checked = {j}
  /\ clock' = IF Live(j) THEN clock + 1 ELSE clock
  /\ jobs' = [jobs EXCEPT ![j] = Gone]
  /\ tombs' = [tombs EXCEPT ![j] = 0]
  /\ answer' = Settled(j)
  /\ checked' = {}
  /\ UNCHANGED <<saved, step, push, rows, doomed, top, page, inbox, atHome>>

PageSettled ==
  \/ step = "dropping" /\ ToDrop = {}
  \/ PageReady /\ page.listed # {} /\ page.bundles = {} /\ doomed = {}

Exported == {acked} \cup {b.rev : b \in page.bundles}  \* mutant: up to what was sent
\* The ack follows each page, up to the revisions its jobs were listed with.
Acknowledged == {acked} \cup {row.rev : row \in page.listed}

SaveProgress ==
  /\ PageSettled
  /\ acked' \in Acknowledged
  /\ \A rev \in Acknowledged : rev <= acked'
  /\ retry' = push.retry
  /\ stuck' = push.stuck
  /\ page' = NoPage
  /\ answer' = NoAnswer
  /\ step' = "paging"
  /\ UNCHANGED <<clock, jobs, tombs, push, rows, doomed, top, checked, inbox, atHome>>

\* Only after the last page does the ack pass the tombstones.
FinishPush ==
  /\ step = "paging"
  /\ rows = {}
  /\ doomed = {}
  /\ page.listed = {}
  /\ acked' = IF top > acked THEN top ELSE acked
  /\ retry' = push.retry
  /\ stuck' = push.stuck
  /\ push' = NoPush
  /\ top' = 0
  /\ step' = "idle"
  /\ UNCHANGED <<clock, jobs, tombs, rows, doomed, page, answer, checked, inbox, atHome>>

\* A call that failed, a timeout or a stopped process ends the round.  Home may
\* still handle what it has received, or not (its own process stopped).
GiveUp ==
  /\ step # "idle"
  /\ step' = "idle"
  /\ push' = NoPush
  /\ rows' = {}
  /\ doomed' = {}
  /\ top' = 0
  /\ page' = NoPage
  /\ answer' = NoAnswer
  /\ checked' = {}
  /\ inbox' \in {inbox, NothingSent}
  /\ UNCHANGED <<clock, jobs, tombs, saved, atHome>>

-----------------------------------------------------------------------------

BotStep == Flush \/ \E j \in Jobs : Delete(j)

HomeStep == \E j \in Jobs : SaveTwin(j) \/ DeleteTwin(j) \/ TakeBackAndDelete(j)

PushStep == \/ StartPush \/ ListTombstones \/ TakeRow \/ Post \/ TrackRefusals
            \/ \E j \in Jobs : CheckDrop(j) \/ Drop(j)
            \/ SaveProgress \/ FinishPush

Next == BotStep \/ HomeStep \/ PushStep \/ HandlePost \/ GiveUp

Spec == Init /\ [][Next]_vars

-----------------------------------------------------------------------------
(* Properties *)

\* Every variable of a push keeps its type, the saved state of a round included.
TypeOK ==
  /\ clock \in Nat
  /\ jobs \in [Jobs -> Job]
  /\ tombs \in [Jobs -> Nat]
  /\ acked \in Nat
  /\ retry \in [Jobs -> Nat]
  /\ stuck \subseteq Jobs
  /\ step \in {"idle", "listed", "paging", "posted", "dropping"}
  /\ push \in [retry : [Jobs -> Nat], stuck : SUBSET Jobs]
  /\ rows \subseteq Listed
  /\ doomed \subseteq Jobs
  /\ top \in Nat
  /\ page \in [listed : SUBSET Listed, bundles : SUBSET Bundle]
  /\ answer \in [refused : SUBSET Jobs, laptop : SUBSET Jobs, gone : SUBSET Jobs]
  /\ checked \subseteq Jobs
  /\ inbox \in [tombs : SUBSET Jobs, bundles : SUBSET Bundle]
  /\ replica \in [Jobs -> [rev : Nat, aside : BOOLEAN]]
  /\ twins \subseteq Jobs
  /\ removed \subseteq Jobs

\* "A round sends only jobs past the last acknowledged revision"
\* (docs/entities/job.md), so every job at or below it must be at home as it
\* is, or be remembered: waiting for another try, parked, or not sendable.  A
\* round may stop anywhere, so this must hold after every way it can end.
AckedIsReplicated ==
  \A j \in Jobs :
    /\ step = "idle"
    /\ Live(j)
    /\ 0 < jobs[j].rev
    /\ jobs[j].rev <= acked
    => \/ replica[j].rev = jobs[j].rev
       \/ retry[j] > 0
       \/ j \in stuck
       \/ ~jobs[j].sendable
       \/ j \in removed

\* A deletion at or below the acknowledged revision has reached home, and a job
\* the bot dropped for home's own left no replica behind.
GoneIsGoneAtHome ==
  \A j \in Jobs :
    /\ jobs[j].phase = "gone"
    /\ tombs[j] <= acked
    => replica[j].rev = 0

\* "Home keeps its own job for this text: drop ours, unless work began on it
\* since the export" (_drop_duplicate): only the user's own deletion removes a
\* job with an application or a proposal past pending_review.
WorkIsKept ==
  [][\A j \in Jobs : jobs[j].worked /\ jobs'[j].phase = "gone" => tombs'[j] > 0]_vars

-----------------------------------------------------------------------------
(* Liveness: rounds keep coming, a step of one is finished or given up, home *)
(* handles what it has received, and from some point on no round is given up. *)

Recovers == <>[][GiveUp => FinishPush]_vars

FairSpec == Spec /\ WF_vars(PushStep) /\ WF_vars(HandlePost) /\ Recovers

\* Once the writing stops (at MaxClock), every job arrives as it is, unless it was
\* refused as it is until it was parked, or cannot be sent; every deletion arrives.
ChangesArrive ==
  \A j \in Jobs :
    []<>(/\ Live(j) => \/ 0 < jobs[j].rev /\ replica[j].rev = jobs[j].rev
                       \/ j \in stuck /\ jobs[j].rev <= acked
                       \/ j \in removed
                       \/ ~jobs[j].sendable
         /\ jobs[j].phase = "gone" => replica[j].rev = 0)

=============================================================================
