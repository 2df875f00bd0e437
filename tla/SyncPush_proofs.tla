-------------------------- MODULE SyncPush_proofs --------------------------
(***************************************************************************)
(* Proofs about SyncPush, for every set of jobs, page size, retry limit    *)
(* and bound: type correctness, and that the acknowledgement never passes  *)
(* a change or a deletion that home does not have, unless one flush writes *)
(* several jobs or a deletion falls between the two listings (see the      *)
(* windows in the README).  And, at the end, about SyncLink, the calls that *)
(* a push is made of, for any number of calls and rounds and any times.    *)
(***************************************************************************)
EXTENDS SyncPush, SyncLink, TLAPS, FiniteSetTheorems

NoGap == Windows \cap {"ties", "listing"} = {}

(* The parts of the inductive invariant.  h is the clock when the running  *)
(* push (or the last one) listed the jobs: whatever is written later has a *)
(* higher revision, and nothing the push acknowledges has.                 *)

Clocked(h) ==
  /\ h \in Nat
  /\ acked <= h
  /\ h <= clock
  /\ \A j \in Jobs : jobs[j].rev <= clock /\ tombs[j] <= clock

\* A tombstone is a deleted job's; live jobs have revisions of their own.
Stamped ==
  /\ \A j \in Jobs : tombs[j] > 0 => jobs[j].phase = "gone"
  /\ \A i, j \in Jobs : Live(i) /\ Live(j) /\ i # j /\ jobs[i].rev > 0
                          => jobs[i].rev # jobs[j].rev

\* What each step of the push has emptied or not filled yet.
Phased ==
  /\ step \in {"idle", "listed"} => page = NoPage /\ doomed = {} /\ top = 0
  /\ step = "idle" => rows = {}
  /\ step \in {"listed", "paging", "dropping"} => inbox = NothingSent
  /\ step \in {"posted", "dropping"} => doomed = {}
  /\ step = "posted" => inbox.bundles \subseteq page.bundles
  /\ checked # {} => step = "dropping"
  /\ checked \subseteq ToDrop

\* What was read of a job is what it is, unless it was written after the listing.
Same(r, h) == Live(r.job) => jobs[r.job].rev = r.rev \/ jobs[r.job].rev > h

RowsHold(h) ==
  /\ \A r \in rows \cup page.listed : r.rev <= h /\ Same(r, h) /\ jobs[r.job].phase # "new"
  /\ \A r, q \in rows \cup page.listed : r.job = q.job \/ r.rev = q.rev => r = q
  /\ \A r \in rows, q \in page.listed : q.rev < r.rev

BundlesHold(h) ==
  \A b \in page.bundles \cup inbox.bundles :
    /\ b.rev <= clock
    /\ Same(b, h)
    /\ Live(b.job) /\ jobs[b.job].rev = b.rev => jobs[b.job].worked = b.worked

\* A page has one bundle for each of its jobs that could be exported.
PageHolds(h) ==
  /\ \A b \in page.bundles : \E r \in page.listed : r.job = b.job
  /\ \A b, c \in page.bundles : b.job = c.job => b = c
  /\ \A r \in page.listed :
       Live(r.job) /\ jobs[r.job].rev <= h /\ jobs[r.job].sendable
         => \E b \in page.bundles : b.job = r.job

\* A change to send is in the rows or in the page.
Covered(h) ==
  step # "idle" =>
    \A j \in Jobs : Live(j) /\ acked < jobs[j].rev /\ jobs[j].rev <= h
                      => \E r \in rows \cup page.listed : r.job = j

\* What has become of a bundle that home handled.
Handled(b, h) ==
  \/ ~Live(b.job)
  \/ jobs[b.job].rev > h
  \/ replica[b.job].rev = b.rev
  \/ b.job \in removed
  \/ step = "posted" /\ b.job \in answer.refused
  \/ step = "dropping" /\ (push.retry[b.job] > 0 \/ b.job \in push.stuck)
  \/ b.job \in answer.laptop /\ ~b.worked

PageHandled(h) ==
  step \in {"posted", "dropping"} =>
    \A b \in page.bundles : b \in inbox.bundles \/ Handled(b, h)

\* Only listed jobs are tracked, and a push changes what it tracks only for the
\* jobs of its page.
Tracked ==
  /\ \A j \in Jobs : jobs[j].phase = "new" => retry[j] = 0 /\ j \notin stuck
  /\ step # "idle" =>
       \A j \in Jobs : jobs[j].phase # "gone" /\ (\A r \in page.listed : r.job # j)
                         => push.retry[j] = retry[j] /\ (j \in push.stuck <=> j \in stuck)

\* The same as AckedIsReplicated, during a round too.
Replicated ==
  \A j \in Jobs :
    Live(j) /\ 0 < jobs[j].rev /\ jobs[j].rev <= acked
    => \/ replica[j].rev = jobs[j].rev
       \/ retry[j] > 0
       \/ j \in stuck
       \/ ~jobs[j].sendable
       \/ j \in removed

\* Home holds nothing of a job it removed, or whose text it answered is its own.
NotHeld ==
  /\ \A j \in removed : replica[j].rev = 0
  /\ \A j \in twins : ~replica[j].aside => replica[j].rev = 0
  /\ \A j \in ToDrop : /\ replica[j].rev = 0
                       /\ \A b \in inbox.bundles : b.job # j

\* A deletion the push may acknowledge is on its way or has reached home, and no
\* bundle that home may still store is of a job deleted before it was listed.
Deleted(h) ==
  /\ step = "listed" => \A j \in Jobs : tombs[j] <= h
  /\ top <= h
  /\ \A j \in doomed \cup inbox.tombs : jobs[j].phase = "gone"
  /\ step \notin {"idle", "listed"} =>
       \A j \in Jobs : jobs[j].phase = "gone" /\ acked < tombs[j] /\ tombs[j] <= h
                         => j \in doomed \cup inbox.tombs \/ replica[j].rev = 0
  /\ \A b \in inbox.bundles : jobs[b.job].phase # "live" => tombs[b.job] > h
  /\ step = "paging" => \A b \in page.bundles : jobs[b.job].phase # "live" => tombs[b.job] > h

Inv(h) ==
  /\ Clocked(h)
  /\ Stamped
  /\ Phased
  /\ RowsHold(h)
  /\ BundlesHold(h)
  /\ PageHolds(h)
  /\ Covered(h)
  /\ PageHandled(h)
  /\ Tracked
  /\ Replicated
  /\ NotHeld
  /\ Deleted(h)
  /\ GoneIsGoneAtHome

IInv == \E h \in 0..clock : Inv(h)

-----------------------------------------------------------------------------
(* Type correctness, proved *)

USE JobsAssumption, PageAssumption, RetryAssumption, ClockAssumption

LEMMA RecordsAreTyped ==
  /\ Unknown \in Job /\ Old \in Job /\ Gone \in Job
  /\ NoReplica \in [rev : Nat, aside : BOOLEAN]
  /\ NoPage \in [listed : SUBSET Listed, bundles : SUBSET Bundle]
  /\ NoAnswer \in [refused : SUBSET Jobs, laptop : SUBSET Jobs, gone : SUBSET Jobs]
  /\ NothingSent \in [tombs : SUBSET Jobs, bundles : SUBSET Bundle]
  /\ NoPush \in [retry : [Jobs -> Nat], stuck : SUBSET Jobs]
  BY DEF Unknown, Old, Gone, Job, Phases, NoReplica, NoPage, NoAnswer, NothingSent, NoPush

LEMMA InitTypeOK == Init => TypeOK
  BY RecordsAreTyped DEF Init, TypeOK

\* The clock after a listing is a number no smaller than before.
LEMMA StampsAreNat ==
  ASSUME TypeOK, NEW latest \in clock..(clock + Cardinality(Unstamped))
  PROVE  latest \in Nat /\ clock <= latest
<1>1. IsFiniteSet(Unstamped)
  BY FS_Subset DEF Unstamped
<1>2. Cardinality(Unstamped) \in Nat
  BY <1>1, FS_CardinalityType
<1> QED
  BY <1>2 DEF TypeOK

LEMMA FlushTyped ==
  ASSUME TypeOK, Flush
  PROVE  TypeOK'
  BY DEF TypeOK, Flush, Job, Phases, saved, local, atHome

LEMMA DeleteTyped ==
  ASSUME TypeOK, NEW j \in Jobs, Delete(j)
  PROVE  TypeOK'
  BY RecordsAreTyped DEF TypeOK, Delete, saved, local, atHome

LEMMA HomeStepTyped ==
  ASSUME TypeOK, HomeStep
  PROVE  TypeOK'
  BY RecordsAreTyped
  DEF TypeOK, HomeStep, SaveTwin, DeleteTwin, TakeBackAndDelete, saved, local

LEMMA StartPushTyped ==
  ASSUME TypeOK, StartPush
  PROVE  TypeOK'
<1>1. PICK latest \in clock..(clock + Cardinality(Unstamped)) :
        /\ clock' = latest
        /\ \E stamp \in Bijection(Unstamped, (clock + 1)..latest) :
             jobs' = [j \in Jobs |-> IF j \in Unstamped THEN [jobs[j] EXCEPT !.rev = stamp[j]]
                                     ELSE jobs[j]]
  BY DEF StartPush
<1>2. latest \in Nat /\ clock <= latest
  BY StampsAreNat
<1>3. PICK stamp \in [Unstamped -> (clock + 1)..latest] :
        jobs' = [j \in Jobs |-> IF j \in Unstamped THEN [jobs[j] EXCEPT !.rev = stamp[j]]
                                ELSE jobs[j]]
  BY <1>1 DEF Bijection, Injection
<1>4. \A j \in Unstamped : stamp[j] \in Nat
  BY <1>2, <1>3 DEF TypeOK
<1>5. jobs' \in [Jobs -> Job]
  <2>1. \A j \in Jobs : jobs[j] \in Job
    BY DEF TypeOK
  <2>2. ASSUME NEW row \in Job, NEW rev \in Nat
        PROVE  [row EXCEPT !.rev = rev] \in Job
    BY DEF Job
  <2> QED
    BY <1>3, <1>4, <2>1, <2>2
<1>6. rows' \subseteq Listed
  <2>1. \A j \in Jobs : jobs'[j].rev \in Nat
    BY <1>5 DEF Job
  <2>2. \A j \in Jobs : [job |-> j, rev |-> jobs'[j].rev] \in Listed
    BY <2>1 DEF Listed
  <2> QED
    BY <2>2 DEF StartPush
<1>7. push' \in [retry : [Jobs -> Nat], stuck : SUBSET Jobs]
  BY DEF StartPush, TypeOK
<1> QED
  BY <1>1, <1>2, <1>5, <1>6, <1>7, RecordsAreTyped DEF StartPush, TypeOK, saved, atHome

LEMMA ListTombstonesTyped ==
  ASSUME TypeOK, ListTombstones
  PROVE  TypeOK'
  BY DEF TypeOK, ListTombstones, saved, atHome

LEMMA TakeRowTyped ==
  ASSUME TypeOK, TakeRow
  PROVE  TypeOK'
  BY DEF TypeOK, TakeRow, Listed, Bundle, Job, saved, atHome

LEMMA PostTyped ==
  ASSUME TypeOK, Post
  PROVE  TypeOK'
  BY RecordsAreTyped DEF TypeOK, Post, saved, atHome

LEMMA DropReplicaTyped ==
  ASSUME TypeOK, NEW j \in Jobs, DropReplica(j)
  PROVE  TypeOK'
  BY RecordsAreTyped DEF TypeOK, DropReplica, saved, local

LEMMA AnswersTyped ==
  ASSUME TypeOK, NEW kinds, NEW j \in Jobs, Answers(kinds, j)
  PROVE  answer' \in [refused : SUBSET Jobs, laptop : SUBSET Jobs, gone : SUBSET Jobs]
  BY DEF TypeOK, Answers

LEMMA StoreBundleTyped ==
  ASSUME TypeOK, NEW b \in inbox.bundles, StoreBundle(b)
  PROVE  TypeOK'
<1>1. b.job \in Jobs /\ b.rev \in Nat
  BY DEF TypeOK, Bundle
<1>2. answer' \in [refused : SUBSET Jobs, laptop : SUBSET Jobs, gone : SUBSET Jobs]
  BY <1>1, AnswersTyped DEF StoreBundle
<1>3. replica' \in [Jobs -> [rev : Nat, aside : BOOLEAN]]
  <2>1. [rev |-> b.rev, aside |-> TRUE] \in [rev : Nat, aside : BOOLEAN]
    BY <1>1
  <2>2. [replica[b.job] EXCEPT !.rev = b.rev] \in [rev : Nat, aside : BOOLEAN]
    BY <1>1 DEF TypeOK
  <2>3. \/ replica' = replica
        \/ replica' = [replica EXCEPT ![b.job] = [rev |-> b.rev, aside |-> TRUE]]
        \/ replica' = [replica EXCEPT ![b.job] = [replica[b.job] EXCEPT !.rev = b.rev]]
    BY DEF StoreBundle
  <2> QED
    BY <2>1, <2>2, <2>3 DEF TypeOK
<1> QED
  BY <1>2, <1>3 DEF TypeOK, StoreBundle, saved

LEMMA TrackRefusalsTyped ==
  ASSUME TypeOK, TrackRefusals
  PROVE  TypeOK'
  BY DEF TypeOK, TrackRefusals, Listed, saved, atHome

LEMMA DropStepsTyped ==
  ASSUME TypeOK, NEW j \in Jobs, CheckDrop(j) \/ Drop(j)
  PROVE  TypeOK'
<1>1. Settled(j) \in [refused : SUBSET Jobs, laptop : SUBSET Jobs, gone : SUBSET Jobs]
  BY DEF TypeOK, Settled
<1>2. CASE CheckDrop(j)
  BY <1>1, <1>2 DEF TypeOK, CheckDrop, saved, atHome
<1>3. CASE Drop(j)
  BY <1>1, <1>3, RecordsAreTyped DEF TypeOK, Drop, saved, atHome
<1> QED
  BY <1>2, <1>3

LEMMA SaveProgressTyped ==
  ASSUME TypeOK, SaveProgress
  PROVE  TypeOK'
  BY RecordsAreTyped DEF TypeOK, SaveProgress, Acknowledged, Listed, atHome

LEMMA FinishPushTyped ==
  ASSUME TypeOK, FinishPush
  PROVE  TypeOK'
  BY RecordsAreTyped DEF TypeOK, FinishPush, atHome

LEMMA GiveUpTyped ==
  ASSUME TypeOK, GiveUp
  PROVE  TypeOK'
  BY RecordsAreTyped DEF TypeOK, GiveUp, saved, atHome

LEMMA NextTyped ==
  ASSUME TypeOK, [Next]_vars
  PROVE  TypeOK'
<1>1. CASE BotStep
  BY <1>1, FlushTyped, DeleteTyped DEF BotStep
<1>2. CASE HomeStep
  BY <1>2, HomeStepTyped
<1>3. CASE PushStep
  BY <1>3, StartPushTyped, ListTombstonesTyped, TakeRowTyped, PostTyped, TrackRefusalsTyped,
     DropStepsTyped, SaveProgressTyped, FinishPushTyped DEF PushStep
<1>4. CASE HandlePost
  <2>1. inbox.tombs \subseteq Jobs
    BY DEF TypeOK
  <2> QED
    BY <1>4, <2>1, DropReplicaTyped, StoreBundleTyped DEF HandlePost
<1>5. CASE GiveUp
  BY <1>5, GiveUpTyped
<1>6. CASE UNCHANGED vars
  BY <1>6 DEF TypeOK, vars, saved, local, atHome
<1> QED
  BY <1>1, <1>2, <1>3, <1>4, <1>5, <1>6 DEF Next

\* The variables of a push keep their types.
THEOREM TypeCorrect == Spec => []TypeOK
<1>1. Init => TypeOK
  BY InitTypeOK
<1>2. TypeOK /\ [Next]_vars => TypeOK'
  BY NextTyped
<1> QED
  BY <1>1, <1>2, PTL DEF Spec

-----------------------------------------------------------------------------
(* The inductive invariant, proved: one lemma per action. *)

LEMMA FlushWrites ==
  ASSUME TypeOK, NoGap, Flush
  PROVE  \E j \in Jobs :
           /\ jobs[j].phase # "gone"
           /\ jobs'[j].phase = "live"
           /\ jobs'[j].rev = clock + 1
           /\ \A k \in Jobs \ {j} : jobs'[k] = jobs[k]
<1>1. Touches = {{j} : j \in Jobs}
  BY DEF NoGap, Touches
<1> QED
  BY <1>1 DEF Flush

LEMMA FlushHolds ==
  ASSUME TypeOK, TypeOK', NoGap, NEW h, Inv(h), Flush
  PROVE  Inv(h)'
<1> USE DEF Inv
<1>a. PICK j \in Jobs : /\ jobs[j].phase # "gone"
                        /\ jobs'[j].phase = "live"
                        /\ jobs'[j].rev = clock + 1
                        /\ \A k \in Jobs \ {j} : jobs'[k] = jobs[k]
  BY FlushWrites
<1>b. /\ clock' = clock + 1
      /\ UNCHANGED <<tombs, acked, retry, stuck, step, push, rows, doomed, top, page, answer,
                     checked, inbox, replica, twins, removed>>
  BY DEF Flush, saved, local, atHome
<1>c. /\ h < jobs'[j].rev /\ clock < jobs'[j].rev
      /\ h \in Nat /\ clock \in Nat /\ acked \in Nat /\ acked <= h /\ h <= clock
      /\ \A k \in Jobs : jobs[k].rev \in Nat /\ jobs[k].rev <= clock
      /\ \A k \in Jobs : tombs[k] \in Nat /\ tombs[k] <= clock
  BY <1>a DEF Clocked, TypeOK, Job
<1>1. Clocked(h)'
  BY <1>a, <1>b, <1>c DEF Clocked
<1>2. Stamped'
  BY <1>a, <1>b, <1>c DEF Stamped, Live
<1>3. Phased'
  BY <1>b DEF Phased, ToDrop
<1>4. RowsHold(h)'
  BY <1>a, <1>b, <1>c DEF TypeOK, RowsHold, Same, Live, Listed
<1>5. BundlesHold(h)'
  <2> SUFFICES ASSUME NEW b \in page.bundles \cup inbox.bundles
               PROVE  BundlesHold(h)!(b)'
    BY <1>b DEF BundlesHold
  <2> QED
    BY <1>a, <1>b, <1>c DEF TypeOK, BundlesHold, Same, Live, Bundle
<1>6. PageHolds(h)'
  BY <1>a, <1>b, <1>c DEF TypeOK, PageHolds, Live, Listed
<1>7. Covered(h)'
  BY <1>a, <1>b, <1>c DEF Covered, Live
<1>8. PageHandled(h)'
  BY <1>a, <1>b, <1>c DEF TypeOK, PageHandled, Handled, Live, Bundle
<1>9. Tracked'
  BY <1>a, <1>b, <1>c DEF Tracked
<1>10. Replicated'
  BY <1>a, <1>b, <1>c DEF Replicated, Live
<1>11. NotHeld'
  BY <1>b DEF NotHeld, ToDrop
<1>12. Deleted(h)'
  BY <1>a, <1>b, <1>c DEF TypeOK, Deleted, Bundle
<1>13. GoneIsGoneAtHome'
  BY <1>a, <1>b, <1>c DEF GoneIsGoneAtHome
<1> QED
  BY <1>1, <1>2, <1>3, <1>4, <1>5, <1>6, <1>7, <1>8, <1>9, <1>10, <1>11, <1>12, <1>13

LEMMA DeleteHolds ==
  ASSUME TypeOK, TypeOK', NoGap, NEW h, Inv(h), NEW j \in Jobs, Delete(j)
  PROVE  Inv(h)'
<1> USE DEF Inv
<1>a. /\ Live(j) /\ step # "listed"
      /\ jobs' = [jobs EXCEPT ![j] = Gone]
      /\ tombs' = [tombs EXCEPT ![j] = clock + 1]
      /\ clock' = clock + 1
      /\ UNCHANGED <<acked, retry, stuck, step, push, rows, doomed, top, page, answer,
                     checked, inbox, replica, twins, removed>>
  BY DEF Delete, NoGap, saved, local, atHome
<1>b. /\ jobs'[j].phase = "gone" /\ jobs'[j].rev = 0 /\ tombs'[j] = clock + 1
      /\ \A k \in Jobs \ {j} : jobs'[k] = jobs[k] /\ tombs'[k] = tombs[k]
  BY <1>a DEF TypeOK, Gone, Unknown
<1>c. /\ clock \in Nat /\ acked \in Nat /\ h \in Nat /\ acked <= h /\ h <= clock
      /\ \A k \in Jobs : jobs[k].rev \in Nat /\ jobs[k].rev <= clock
      /\ \A k \in Jobs : tombs[k] \in Nat /\ tombs[k] <= clock
  BY DEF Clocked, TypeOK, Job
<1>1. Clocked(h)'
  BY <1>a, <1>b, <1>c DEF Clocked
<1>2. Stamped'
  BY <1>a, <1>b DEF Stamped, Live
<1>3. Phased'
  BY <1>a DEF Phased, ToDrop
<1>4. RowsHold(h)'
  BY <1>a, <1>b DEF TypeOK, RowsHold, Same, Live, Listed
<1>5. BundlesHold(h)'
  <2> SUFFICES ASSUME NEW b \in page.bundles \cup inbox.bundles
               PROVE  BundlesHold(h)!(b)'
    BY <1>a DEF BundlesHold
  <2> QED
    BY <1>a, <1>b, <1>c DEF TypeOK, BundlesHold, Same, Live, Bundle
<1>6. PageHolds(h)'
  BY <1>a, <1>b DEF TypeOK, PageHolds, Live, Listed
<1>7. Covered(h)'
  BY <1>a, <1>b DEF Covered, Live
<1>8. PageHandled(h)'
  BY <1>a, <1>b DEF TypeOK, PageHandled, Handled, Live, Bundle
<1>9. Tracked'
  BY <1>a, <1>b DEF Tracked
<1>10. Replicated'
  BY <1>a, <1>b DEF Replicated, Live
<1>11. NotHeld'
  BY <1>a DEF NotHeld, ToDrop
<1>12. Deleted(h)'
  BY <1>a, <1>b, <1>c DEF TypeOK, Deleted, Bundle
<1>13. GoneIsGoneAtHome'
  BY <1>a, <1>b, <1>c DEF GoneIsGoneAtHome
<1> QED
  BY <1>1, <1>2, <1>3, <1>4, <1>5, <1>6, <1>7, <1>8, <1>9, <1>10, <1>11, <1>12, <1>13

LEMMA HomeStepHolds ==
  ASSUME TypeOK, TypeOK', NoGap, NEW h, Inv(h), HomeStep
  PROVE  Inv(h)'
<1> USE DEF Inv
<1>a. PICK k \in Jobs : SaveTwin(k) \/ DeleteTwin(k) \/ TakeBackAndDelete(k)
  BY DEF HomeStep
<1>b. /\ UNCHANGED <<clock, jobs, tombs, saved, local, inbox>>
      /\ removed \subseteq removed'
      /\ \A j \in Jobs : replica'[j].rev = replica[j].rev \/ (j \in removed' /\ replica'[j].rev = 0)
  <2>1. CASE SaveTwin(k)
    BY <2>1 DEF SaveTwin
  <2>2. CASE DeleteTwin(k)
    BY <2>2 DEF DeleteTwin
  <2>3. CASE TakeBackAndDelete(k)
    BY <2>3 DEF TakeBackAndDelete, TypeOK, NoReplica
  <2> QED
    BY <1>a, <2>1, <2>2, <2>3
<1>1. Clocked(h)'
  BY <1>b DEF Clocked, saved
<1>2. Stamped'
  BY <1>b DEF Stamped, Live
<1>3. Phased'
  BY <1>b DEF Phased, ToDrop, local
<1>4. RowsHold(h)'
  BY <1>b DEF RowsHold, Same, Live, local
<1>5. BundlesHold(h)'
  BY <1>b DEF BundlesHold, Same, Live, local
<1>6. PageHolds(h)'
  BY <1>b DEF PageHolds, Live, local
<1>7. Covered(h)'
  BY <1>b DEF Covered, Live, local, saved
<1>8. PageHandled(h)'
  <2> SUFFICES ASSUME step \in {"posted", "dropping"}, NEW b \in page.bundles,
                      b \notin inbox.bundles
               PROVE  Handled(b, h)'
    BY <1>b DEF PageHandled, local
  <2>1. Handled(b, h) /\ b.job \in Jobs
    BY DEF PageHandled, TypeOK, Bundle
  <2> QED
    BY <1>b, <2>1 DEF Handled, Live, local
<1>9. Tracked'
  BY <1>b DEF Tracked, local, saved
<1>10. Replicated'
  BY <1>b DEF Replicated, Live, saved
<1>11. NotHeld'
  <2>1. CASE SaveTwin(k)
    BY <2>1 DEF NotHeld, ToDrop, SaveTwin, local
  <2>2. CASE DeleteTwin(k)
    BY <2>2 DEF NotHeld, ToDrop, DeleteTwin, local
  <2>3. CASE TakeBackAndDelete(k)
    BY <2>3 DEF TypeOK, NotHeld, ToDrop, TakeBackAndDelete, NoReplica, local
  <2> QED
    BY <1>a, <2>1, <2>2, <2>3
<1>12. Deleted(h)'
  BY <1>b DEF Deleted, local, saved
<1>13. GoneIsGoneAtHome'
  BY <1>b DEF GoneIsGoneAtHome, saved
<1> QED
  BY <1>1, <1>2, <1>3, <1>4, <1>5, <1>6, <1>7, <1>8, <1>9, <1>10, <1>11, <1>12, <1>13

LEMMA StartPushStamps ==
  ASSUME TypeOK, StartPush
  PROVE  /\ clock' \in Nat /\ clock <= clock'
         /\ \A j \in Jobs \ Unstamped : jobs'[j] = jobs[j]
         /\ \A j \in Unstamped : /\ jobs'[j].phase = jobs[j].phase
                                 /\ jobs'[j].worked = jobs[j].worked
                                 /\ jobs'[j].sendable = jobs[j].sendable
                                 /\ jobs'[j].rev \in (clock + 1)..clock'
         /\ \A i, j \in Unstamped : jobs'[i].rev = jobs'[j].rev => i = j
<1>1. PICK latest \in clock..(clock + Cardinality(Unstamped)) :
        /\ clock' = latest
        /\ \E stamp \in Bijection(Unstamped, (clock + 1)..latest) :
             jobs' = [j \in Jobs |-> IF j \in Unstamped THEN [jobs[j] EXCEPT !.rev = stamp[j]]
                                     ELSE jobs[j]]
  BY DEF StartPush
<1>2. latest \in Nat /\ clock <= latest
  BY StampsAreNat
<1>3. PICK stamp \in Bijection(Unstamped, (clock + 1)..latest) :
        jobs' = [j \in Jobs |-> IF j \in Unstamped THEN [jobs[j] EXCEPT !.rev = stamp[j]]
                                ELSE jobs[j]]
  BY <1>1
<1>4. /\ stamp \in [Unstamped -> (clock + 1)..latest]
      /\ \A i, j \in Unstamped : stamp[i] = stamp[j] => i = j
  BY DEF Bijection, Injection, IsInjective
<1>5. Unstamped \subseteq Jobs
  BY DEF Unstamped
<1>6. \A j \in Unstamped : /\ jobs'[j].phase = jobs[j].phase
                           /\ jobs'[j].worked = jobs[j].worked
                           /\ jobs'[j].sendable = jobs[j].sendable
                           /\ jobs'[j].rev = stamp[j]
  <2>1. \A j \in Unstamped : jobs[j] \in Job
    BY <1>5 DEF TypeOK
  <2> QED
    BY <1>3, <1>5, <2>1 DEF Job
<1>7. \A j \in Jobs \ Unstamped : jobs'[j] = jobs[j]
  BY <1>3
<1>8. \A j \in Unstamped : jobs'[j].rev \in (clock + 1)..latest
  BY <1>4, <1>6
<1>9. \A i, j \in Unstamped : jobs'[i].rev = jobs'[j].rev => i = j
  BY <1>4, <1>6
<1> QED
  BY <1>1, <1>2, <1>6, <1>7, <1>8, <1>9

LEMMA StartPushHolds ==
  ASSUME TypeOK, TypeOK', NoGap, NEW h, Inv(h), StartPush, NEW latest, latest = clock'
  PROVE  Inv(latest)'
<1> USE DEF Inv
<1>a. /\ step = "idle" /\ step' = "listed" /\ inbox' = NothingSent
      /\ push' = [retry |-> [j \in Jobs |-> IF Live(j) THEN retry[j] ELSE 0],
                  stuck |-> {j \in stuck : Live(j)}]
      /\ rows' = {[job |-> j, rev |-> jobs'[j].rev] :
                   j \in {k \in Jobs : Live(k) /\ (jobs'[k].rev > acked \/ push'.retry[k] > 0)}}
      /\ UNCHANGED <<tombs, acked, retry, stuck, doomed, top, page, answer, checked, replica,
                     twins, removed>>
  BY DEF StartPush, saved, atHome
<1>b. /\ clock \in Nat /\ acked \in Nat /\ h \in Nat /\ acked <= h /\ h <= clock
      /\ \A j \in Jobs : jobs[j].rev \in Nat /\ jobs[j].rev <= clock
      /\ \A j \in Jobs : tombs[j] \in Nat /\ tombs[j] <= clock
      /\ \A j \in Jobs : jobs'[j].rev \in Nat
  BY DEF Clocked, TypeOK, Job
<1>c. /\ latest \in Nat /\ clock <= latest
      /\ \A j \in Jobs \ Unstamped : jobs'[j] = jobs[j]
      /\ \A j \in Unstamped : jobs'[j].rev \in (clock + 1)..latest
      /\ \A i, j \in Unstamped : jobs'[i].rev = jobs'[j].rev => i = j
  BY <1>b, StartPushStamps
<1>d. /\ \A j \in Jobs : /\ jobs'[j].phase = jobs[j].phase
                         /\ jobs'[j].sendable = jobs[j].sendable
      /\ Unstamped \subseteq Jobs
  BY <1>b, StartPushStamps DEF Unstamped
<1>e. /\ page.listed = {} /\ page.bundles = {} /\ page' = NoPage /\ doomed = {} /\ top = 0
      /\ checked = {} /\ inbox'.bundles = {} /\ inbox'.tombs = {}
  BY <1>a DEF Phased, NoPage, NothingSent
\* A live job has a revision of its own now, above the clock if it had none.
<1>f. /\ \A j \in Jobs : Live(j) => 0 < jobs'[j].rev
      /\ \A j \in Jobs : jobs'[j].rev <= clock => jobs'[j] = jobs[j]
      /\ \A j \in Jobs : jobs'[j].rev <= latest
  BY <1>b, <1>c DEF Unstamped
<1>g. ASSUME NEW i \in Jobs, NEW j \in Jobs, Live(i), Live(j), jobs'[i].rev = jobs'[j].rev
      PROVE  i = j
  <2>1. CASE i \in Unstamped /\ j \in Unstamped
    BY <1>c, <1>g, <2>1
  <2>2. CASE i \notin Unstamped /\ j \notin Unstamped
    BY <1>b, <1>c, <1>g, <2>2 DEF Stamped, Unstamped
  <2>3. ASSUME NEW k \in Unstamped, NEW l \in Jobs \ Unstamped
        PROVE  jobs'[k].rev # jobs'[l].rev
    BY <1>b, <1>c
  <2> QED
    BY <1>g, <2>1, <2>2, <2>3
<1>h. ASSUME NEW r \in rows'
      PROVE  r.job \in Jobs /\ Live(r.job) /\ r.rev = jobs'[r.job].rev
             /\ r = [job |-> r.job, rev |-> r.rev]
  BY <1>a
<1>1. Clocked(latest)'
  BY <1>a, <1>b, <1>c, <1>f DEF Clocked
<1>2. Stamped'
  BY <1>a, <1>d, <1>g DEF Stamped, Live
<1>3. Phased'
  BY <1>a, <1>e DEF Phased, ToDrop
<1>4. RowsHold(latest)'
  <2>1. page'.listed = {}
    BY <1>a, <1>e
  <2>2. \A r \in rows' : r.rev <= latest /\ Same(r, latest)' /\ jobs'[r.job].phase # "new"
    BY <1>d, <1>f, <1>h DEF Same, Live
  <2>3. ASSUME NEW r \in rows', NEW q \in rows', r.job = q.job \/ r.rev = q.rev
        PROVE  r = q
    <3>1. r.job = q.job
      BY <1>g, <1>h, <2>3
    <3> QED
      BY <1>h, <3>1
  <2> QED
    BY <2>1, <2>2, <2>3 DEF RowsHold
<1>5. BundlesHold(latest)'
  BY <1>a, <1>e DEF BundlesHold
<1>6. PageHolds(latest)'
  BY <1>a, <1>e DEF PageHolds
<1>7. Covered(latest)'
  <2> SUFFICES ASSUME NEW j \in Jobs, Live(j), acked < jobs'[j].rev
               PROVE  \E r \in rows' : r.job = j
    BY <1>a, <1>d DEF Covered, Live
  <2>1. [job |-> j, rev |-> jobs'[j].rev] \in rows'
    BY <1>a, <1>b
  <2> QED
    BY <2>1
<1>8. PageHandled(latest)'
  BY <1>a DEF PageHandled
<1>9. Tracked'
  <2>1. \A j \in Jobs : jobs[j].phase = "new" => retry[j] = 0 /\ j \notin stuck
    BY DEF Tracked
  <2>2. \A j \in Jobs : jobs[j].phase \in Phases
    BY DEF TypeOK, Job
  <2>3. \A j \in Jobs : jobs[j].phase # "gone"
          => push'.retry[j] = retry[j] /\ (j \in push'.stuck <=> j \in stuck)
    BY <1>a, <2>1, <2>2 DEF Live, Phases
  <2> QED
    BY <1>a, <1>d, <2>1, <2>3 DEF Tracked
<1>10. Replicated'
  <2> SUFFICES ASSUME NEW j \in Jobs, Live(j), 0 < jobs'[j].rev, jobs'[j].rev <= acked
               PROVE  Replicated!(j)'
    BY <1>a, <1>d DEF Replicated, Live
  <2>1. jobs'[j] = jobs[j]
    BY <1>b, <1>f
  <2> QED
    BY <1>a, <2>1 DEF Replicated, Live
<1>11. NotHeld'
  BY <1>a, <1>e DEF NotHeld, ToDrop
<1>12. Deleted(latest)'
  <2>1. \A j \in Jobs : tombs[j] <= latest
    BY <1>b, <1>c
  <2> QED
    BY <1>a, <1>c, <1>e, <2>1 DEF Deleted
<1>13. GoneIsGoneAtHome'
  BY <1>a, <1>d DEF GoneIsGoneAtHome
<1> QED
  BY <1>1, <1>2, <1>3, <1>4, <1>5, <1>6, <1>7, <1>8, <1>9, <1>10, <1>11, <1>12, <1>13

LEMMA ListTombstonesHolds ==
  ASSUME TypeOK, TypeOK', NoGap, NEW h, Inv(h), ListTombstones
  PROVE  Inv(h)'
<1> USE DEF Inv
<1>a. /\ step = "listed" /\ step' = "paging"
      /\ doomed' = {j \in Jobs : tombs[j] > acked}
      /\ top' \in {0} \cup {tombs[j] : j \in doomed'}
      /\ UNCHANGED <<clock, jobs, tombs, acked, retry, stuck, push, rows, page, answer,
                     checked, inbox, replica, twins, removed>>
  BY DEF ListTombstones, saved, atHome
<1>b. page = NoPage /\ inbox = NothingSent /\ checked = {}
  BY <1>a DEF Phased
<1>c. h \in Nat /\ acked \in Nat /\ \A j \in Jobs : tombs[j] \in Nat /\ tombs[j] <= h
  BY <1>a DEF TypeOK, Deleted, Clocked
<1>1. Clocked(h)'
  BY <1>a DEF Clocked
<1>2. Stamped'
  BY <1>a DEF Stamped, Live
<1>3. Phased'
  BY <1>a, <1>b DEF Phased, ToDrop
<1>4. RowsHold(h)'
  BY <1>a DEF RowsHold, Same, Live
<1>5. BundlesHold(h)'
  BY <1>a DEF BundlesHold, Same, Live
<1>6. PageHolds(h)'
  BY <1>a DEF PageHolds, Live
<1>7. Covered(h)'
  BY <1>a DEF Covered, Live
<1>8. PageHandled(h)'
  BY <1>a DEF PageHandled
<1>9. Tracked'
  BY <1>a DEF Tracked
<1>10. Replicated'
  BY <1>a DEF Replicated, Live
<1>11. NotHeld'
  BY <1>a DEF NotHeld, ToDrop
<1>12. Deleted(h)'
  <2>1. top' <= h
    BY <1>a, <1>c
  <2>2. \A j \in doomed' : jobs[j].phase = "gone"
    BY <1>a, <1>c DEF Stamped
  <2> QED
    BY <1>a, <1>b, <1>c, <2>1, <2>2 DEF Deleted, NoPage, NothingSent
<1>13. GoneIsGoneAtHome'
  BY <1>a DEF GoneIsGoneAtHome
<1> QED
  BY <1>1, <1>2, <1>3, <1>4, <1>5, <1>6, <1>7, <1>8, <1>9, <1>10, <1>11, <1>12, <1>13

LEMMA TakeRowHolds ==
  ASSUME TypeOK, TypeOK', NoGap, NEW h, Inv(h), TakeRow
  PROVE  Inv(h)'
<1> USE DEF Inv
<1> DEFINE exported(row) == [job |-> row.job, rev |-> jobs[row.job].rev,
                             worked |-> jobs[row.job].worked]
<1>a. PICK row \in rows :
        /\ \A other \in rows : row.rev <= other.rev
        /\ rows' = rows \ {row}
        /\ page' = [listed |-> page.listed \cup {row},
                    bundles |-> page.bundles \cup
                      (IF Live(row.job) /\ jobs[row.job].sendable
                       THEN {[job |-> row.job, rev |-> jobs[row.job].rev,
                              worked |-> jobs[row.job].worked]}
                       ELSE {})]
  BY DEF TakeRow
<1>b. /\ step = "paging"
      /\ UNCHANGED <<clock, jobs, tombs, acked, retry, stuck, step, push, doomed, top, answer,
                     checked, inbox, replica, twins, removed>>
  BY DEF TakeRow, saved, atHome
<1>c. /\ page'.listed = page.listed \cup {row}
      /\ page'.bundles = page.bundles \/ page'.bundles = page.bundles \cup {exported(row)}
      /\ Live(row.job) /\ jobs[row.job].sendable => exported(row) \in page'.bundles
      /\ page.bundles \subseteq page'.bundles
      /\ page'.bundles # page.bundles => Live(row.job)
  BY <1>a
<1>d. /\ row.job \in Jobs /\ row.rev \in Nat
      /\ \A r \in rows \cup page.listed : r.rev \in Nat /\ r.job \in Jobs
      /\ h \in Nat /\ clock \in Nat
      /\ jobs[row.job].rev \in Nat /\ jobs[row.job].rev <= clock
  BY DEF TypeOK, Listed, Clocked, Job
<1> HIDE DEF exported
<1>e. exported(row).job = row.job /\ exported(row).rev = jobs[row.job].rev
      /\ exported(row).worked = jobs[row.job].worked
  BY DEF exported
<1>1. Clocked(h)'
  BY <1>b DEF Clocked
<1>2. Stamped'
  BY <1>b DEF Stamped, Live
<1>3. Phased'
  BY <1>b DEF Phased, ToDrop
<1>4. RowsHold(h)'
  <2>1. \A r \in rows \cup page.listed : r.rev <= h /\ Same(r, h) /\ jobs[r.job].phase # "new"
    BY DEF RowsHold
  <2>2. \A r \in rows \ {row} : row.rev < r.rev
    BY <1>a, <1>d DEF RowsHold
  <2>3. rows' \cup page'.listed = rows \cup page.listed
    BY <1>a, <1>c
  <2>4. \A r \in rows', q \in page'.listed : q.rev < r.rev
    BY <1>a, <1>c, <2>2 DEF RowsHold
  <2>5. \A r, q \in rows' \cup page'.listed : r.job = q.job \/ r.rev = q.rev => r = q
    BY <2>3 DEF RowsHold
  <2> QED
    BY <1>b, <2>1, <2>3, <2>4, <2>5 DEF RowsHold, Same, Live
<1>5. BundlesHold(h)'
  <2>1. ASSUME NEW b \in page.bundles \cup inbox.bundles
        PROVE  BundlesHold(h)!(b)
    BY DEF BundlesHold
  <2> QED
    BY <1>b, <1>c, <1>d, <1>e, <2>1 DEF BundlesHold, Same, Live
<1>6. PageHolds(h)'
  <2>1. \A r \in page.listed : r.job # row.job
    BY <1>d DEF RowsHold
  <2>2. \A b \in page.bundles : b.job # row.job
    BY <2>1 DEF PageHolds
  <2>3. \A b \in page'.bundles : \E r \in page'.listed : r.job = b.job
    BY <1>c, <1>e DEF PageHolds
  <2>4. \A b, c \in page'.bundles : b.job = c.job => b = c
    BY <1>c, <1>e, <2>2 DEF PageHolds
  <2>5. \A r \in page'.listed :
          Live(r.job) /\ jobs[r.job].rev <= h /\ jobs[r.job].sendable
            => \E b \in page'.bundles : b.job = r.job
    BY <1>c, <1>e DEF PageHolds
  <2> QED
    BY <1>b, <2>3, <2>4, <2>5 DEF PageHolds, Live
<1>7. Covered(h)'
  BY <1>a, <1>b, <1>c DEF Covered, Live
<1>8. PageHandled(h)'
  BY <1>b DEF PageHandled
<1>9. Tracked'
  BY <1>b, <1>c DEF Tracked
<1>10. Replicated'
  BY <1>b DEF Replicated, Live
<1>11. NotHeld'
  BY <1>b DEF NotHeld, ToDrop
<1>12. Deleted(h)'
  BY <1>b, <1>c, <1>e DEF Deleted, Live
<1>13. GoneIsGoneAtHome'
  BY <1>b DEF GoneIsGoneAtHome
<1> QED
  BY <1>1, <1>2, <1>3, <1>4, <1>5, <1>6, <1>7, <1>8, <1>9, <1>10, <1>11, <1>12, <1>13

LEMMA PostHolds ==
  ASSUME TypeOK, TypeOK', NoGap, NEW h, Inv(h), Post
  PROVE  Inv(h)'
<1> USE DEF Inv
<1>a. /\ step = "paging" /\ step' = "posted"
      /\ inbox' = [tombs |-> doomed, bundles |-> page.bundles]
      /\ doomed' = {} /\ answer' = NoAnswer
      /\ UNCHANGED <<clock, jobs, tombs, acked, retry, stuck, push, rows, top, page,
                     checked, replica, twins, removed>>
  BY DEF Post, PageReady, saved, atHome
<1>b. inbox'.tombs = doomed /\ inbox'.bundles = page.bundles
  BY <1>a
<1>c. inbox = NothingSent /\ checked = {}
  BY <1>a DEF Phased
<1>1. Clocked(h)'
  BY <1>a DEF Clocked
<1>2. Stamped'
  BY <1>a DEF Stamped, Live
<1>3. Phased'
  BY <1>a, <1>b, <1>c DEF Phased, ToDrop
<1>4. RowsHold(h)'
  BY <1>a DEF RowsHold, Same, Live
<1>5. BundlesHold(h)'
  BY <1>a, <1>b DEF BundlesHold, Same, Live
<1>6. PageHolds(h)'
  BY <1>a DEF PageHolds, Live
<1>7. Covered(h)'
  BY <1>a DEF Covered, Live
<1>8. PageHandled(h)'
  BY <1>a, <1>b DEF PageHandled
<1>9. Tracked'
  BY <1>a DEF Tracked
<1>10. Replicated'
  BY <1>a DEF Replicated, Live
<1>11. NotHeld'
  BY <1>a DEF NotHeld, ToDrop, NoAnswer
<1>12. Deleted(h)'
  BY <1>a, <1>b, <1>c DEF Deleted, NothingSent
<1>13. GoneIsGoneAtHome'
  BY <1>a DEF GoneIsGoneAtHome
<1> QED
  BY <1>1, <1>2, <1>3, <1>4, <1>5, <1>6, <1>7, <1>8, <1>9, <1>10, <1>11, <1>12, <1>13

LEMMA DropReplicaHolds ==
  ASSUME TypeOK, TypeOK', NoGap, NEW h, Inv(h), NEW j \in inbox.tombs, DropReplica(j)
  PROVE  Inv(h)'
<1> USE DEF Inv
<1>a. /\ inbox' = [inbox EXCEPT !.tombs = @ \ {j}]
      /\ replica' = [replica EXCEPT ![j] = NoReplica]
      /\ UNCHANGED <<clock, jobs, tombs, acked, retry, stuck, step, push, rows, doomed, top,
                     page, answer, checked, twins, removed>>
  BY DEF DropReplica, saved, local
<1>b. /\ inbox'.tombs = inbox.tombs \ {j} /\ inbox'.bundles = inbox.bundles
      /\ j \in Jobs
      /\ replica'[j].rev = 0 /\ replica'[j].aside = FALSE
      /\ \A k \in Jobs \ {j} : replica'[k] = replica[k]
  BY <1>a DEF TypeOK, NoReplica
<1>c. jobs[j].phase = "gone"
  BY DEF Deleted
<1>d. step \notin {"listed", "paging", "dropping"}
  BY DEF Phased, NothingSent
<1>1. Clocked(h)'
  BY <1>a DEF Clocked
<1>2. Stamped'
  BY <1>a DEF Stamped, Live
<1>3. Phased'
  BY <1>a, <1>b, <1>d DEF Phased, ToDrop
<1>4. RowsHold(h)'
  BY <1>a DEF RowsHold, Same, Live
<1>5. BundlesHold(h)'
  BY <1>a, <1>b DEF BundlesHold, Same, Live
<1>6. PageHolds(h)'
  BY <1>a DEF PageHolds, Live
<1>7. Covered(h)'
  BY <1>a DEF Covered, Live
<1>8. PageHandled(h)'
  <2> SUFFICES ASSUME step \in {"posted", "dropping"}, NEW b \in page.bundles,
                      b \notin inbox.bundles
               PROVE  Handled(b, h)'
    BY <1>a, <1>b DEF PageHandled
  <2>1. Handled(b, h) /\ b.job \in Jobs
    BY DEF PageHandled, TypeOK, Bundle
  <2> QED
    BY <1>a, <1>b, <1>c, <2>1 DEF Handled, Live
<1>9. Tracked'
  BY <1>a DEF Tracked
<1>10. Replicated'
  BY <1>a, <1>b, <1>c DEF Replicated, Live
<1>11. NotHeld'
  BY <1>a, <1>b DEF NotHeld, ToDrop, TypeOK
<1>12. Deleted(h)'
  BY <1>a, <1>b DEF Deleted
<1>13. GoneIsGoneAtHome'
  BY <1>a, <1>b DEF GoneIsGoneAtHome
<1> QED
  BY <1>1, <1>2, <1>3, <1>4, <1>5, <1>6, <1>7, <1>8, <1>9, <1>10, <1>11, <1>12, <1>13

LEMMA StoreBundleHolds ==
  ASSUME TypeOK, TypeOK', NoGap, NEW h, Inv(h), NEW b \in inbox.bundles, StoreBundle(b)
  PROVE  Inv(h)'
<1> USE DEF Inv
<1>a. /\ inbox.tombs = {}
      /\ inbox' = [inbox EXCEPT !.bundles = @ \ {b}]
      /\ UNCHANGED <<clock, jobs, tombs, acked, retry, stuck, step, push, rows, doomed, top,
                     page, checked, twins, removed>>
  BY DEF StoreBundle, saved
<1>b. /\ inbox'.tombs = inbox.tombs /\ inbox'.bundles = inbox.bundles \ {b}
      /\ b.job \in Jobs /\ b.rev \in Nat
  BY <1>a DEF TypeOK, Bundle
<1>c. step \notin {"listed", "paging", "dropping"}
  BY DEF Phased, NothingSent
<1>e. /\ h \in Nat /\ acked \in Nat /\ acked <= h
      /\ \A k \in Jobs : tombs[k] \in Nat /\ jobs[k].rev \in Nat
  BY DEF Clocked, TypeOK, Job
<1>f. /\ Same(b, h)
      /\ jobs[b.job].phase # "live" => tombs[b.job] > h
  BY DEF BundlesHold, Deleted
\* The ways home may answer: stored, refused, or it has a job for the text.
<1>d. /\ \A k \in Jobs \ {b.job} : replica'[k] = replica[k]
      /\ answer.refused \subseteq answer'.refused
      /\ answer.laptop \subseteq answer'.laptop
      /\ ToDrop' \subseteq ToDrop \cup {b.job}
      /\ step # "posted" => ToDrop' = ToDrop
      /\ \/ /\ b.job \notin removed
            /\ replica'[b.job].rev = b.rev
            /\ b.job \in twins => replica'[b.job].aside
            /\ ToDrop' = ToDrop
         \/ /\ replica'[b.job] = replica[b.job]
            /\ b.job \in ToDrop' => \/ b.job \in ToDrop
                                    \/ b.job \in removed
                                    \/ b.job \in twins /\ ~replica[b.job].aside
            /\ step = "posted" => \/ b.job \in answer'.refused
                                  \/ b.job \in answer'.laptop /\ ~b.worked
  <2>1. CASE step = "posted"
    <3>1. ASSUME NEW kinds, Answers(kinds, b.job)
          PROVE  /\ answer'.refused = IF "refused" \in kinds THEN answer.refused \cup {b.job}
                                     ELSE answer.refused
                 /\ answer'.laptop = IF "laptop" \in kinds THEN answer.laptop \cup {b.job}
                                    ELSE answer.laptop
                 /\ answer'.gone = IF "gone" \in kinds THEN answer.gone \cup {b.job}
                                  ELSE answer.gone
      BY <2>1, <3>1 DEF Answers, TypeOK
    <3>8. Answers({}, b.job) => /\ answer'.refused = answer.refused
                               /\ answer'.laptop = answer.laptop /\ answer'.gone = answer.gone
      BY <3>1
    <3>9. Answers({"refused"}, b.job) => /\ answer'.refused = answer.refused \cup {b.job}
                                        /\ answer'.laptop = answer.laptop
                                        /\ answer'.gone = answer.gone
      BY <3>1
    <3>10. Answers({"refused", "gone"}, b.job) => /\ answer'.refused = answer.refused \cup {b.job}
                                                 /\ answer'.laptop = answer.laptop
                                                 /\ answer'.gone = answer.gone \cup {b.job}
      BY <3>1
    <3>2. \A k \in Jobs : replica[k] \in [rev : Nat, aside : BOOLEAN]
      BY DEF TypeOK
    <3>3. CASE b.job \in removed /\ Answers({"refused", "gone"}, b.job) /\ UNCHANGED replica
      BY <1>b, <2>1, <3>10, <3>3 DEF ToDrop
    <3>4. CASE /\ b.job \notin removed /\ ~Clashes(b.job)
               /\ replica' = [replica EXCEPT ![b.job].rev = b.rev]
               /\ Answers({}, b.job)
      <4>1. replica'[b.job].rev = b.rev /\ replica'[b.job].aside = replica[b.job].aside
        BY <1>b, <3>2, <3>4 DEF TypeOK
      <4>2. answer'.refused = answer.refused /\ answer'.laptop = answer.laptop
            /\ answer'.gone = answer.gone
        BY <3>4, <3>8
      <4>3. \A k \in Jobs \ {b.job} : replica'[k] = replica[k]
        BY <3>4 DEF TypeOK
      <4> QED
        BY <1>b, <2>1, <3>4, <4>1, <4>2, <4>3 DEF Clashes, ToDrop
    <3>5. CASE /\ b.job \notin removed
               /\ replica' = [replica EXCEPT ![b.job] = [rev |-> b.rev, aside |-> TRUE]]
               /\ Answers({}, b.job)
      <4>1. replica'[b.job] = [rev |-> b.rev, aside |-> TRUE]
            /\ \A k \in Jobs \ {b.job} : replica'[k] = replica[k]
        BY <1>b, <3>5 DEF TypeOK
      <4>2. answer'.refused = answer.refused /\ answer'.laptop = answer.laptop
            /\ answer'.gone = answer.gone
        BY <3>5, <3>8
      <4> QED
        BY <1>b, <2>1, <3>5, <4>1, <4>2 DEF ToDrop
    <3>6. CASE /\ b.job \notin removed /\ Clashes(b.job) /\ ~b.worked
               /\ Answers({"laptop"}, b.job) /\ UNCHANGED replica
      BY <1>b, <2>1, <3>1, <3>6 DEF Clashes, ToDrop
    <3>7. CASE /\ b.job \notin removed /\ Answers({"refused"}, b.job) /\ UNCHANGED replica
      BY <1>b, <2>1, <3>7, <3>9 DEF ToDrop
    <3> QED
      BY <3>3, <3>4, <3>5, <3>6, <3>7 DEF StoreBundle
  <2>2. CASE step # "posted"
    <3>1. answer' = answer
      BY <2>2 DEF StoreBundle, Answers
    <3> QED
      BY <1>b, <2>2, <3>1 DEF StoreBundle, Clashes, ToDrop, TypeOK
  <2> QED
    BY <2>1, <2>2
<1>1. Clocked(h)'
  BY <1>a DEF Clocked
<1>2. Stamped'
  BY <1>a DEF Stamped, Live
<1>3. Phased'
  BY <1>a, <1>b, <1>c DEF Phased
<1>4. RowsHold(h)'
  BY <1>a DEF RowsHold, Same, Live
<1>5. BundlesHold(h)'
  BY <1>a, <1>b DEF BundlesHold, Same, Live
<1>6. PageHolds(h)'
  BY <1>a DEF PageHolds, Live
<1>7. Covered(h)'
  BY <1>a DEF Covered, Live
<1>8. PageHandled(h)'
  <2> SUFFICES ASSUME step \in {"posted", "dropping"}, NEW c \in page.bundles,
                      c \notin inbox'.bundles
               PROVE  Handled(c, h)'
    BY <1>a DEF PageHandled
  <2>1. step = "posted" /\ c.job \in Jobs
    BY <1>c DEF TypeOK, Bundle
  <2>2. CASE c = b
    BY <1>a, <1>d, <2>1, <2>2 DEF Handled, Live
  <2>3. CASE c # b
    <3>1. c.job # b.job
      BY <1>b, <2>1, <2>3 DEF Phased, PageHolds
    <3>2. Handled(c, h)
      BY <1>b, <2>1, <2>3 DEF PageHandled
    <3> QED
      BY <1>a, <1>d, <2>1, <3>1, <3>2 DEF Handled, Live
  <2> QED
    BY <2>2, <2>3
<1>9. Tracked'
  BY <1>a DEF Tracked
<1>10. Replicated'
  <2>1. ASSUME Live(b.job), jobs[b.job].rev <= acked
        PROVE  jobs[b.job].rev = b.rev
    BY <1>b, <1>e, <1>f, <2>1 DEF Same
  <2> QED
    BY <1>a, <1>b, <1>d, <2>1 DEF Replicated, Live
<1>11. NotHeld'
  <2>1. b.job \notin ToDrop
    BY DEF NotHeld
  <2>2. ASSUME NEW c \in inbox'.bundles, b.job \in ToDrop'
        PROVE  c.job # b.job
    <3>1. step = "posted"
      BY <1>d, <2>1, <2>2
    <3>2. c \in page.bundles /\ b \in page.bundles /\ c # b
      BY <1>b, <2>2, <3>1 DEF Phased
    <3> QED
      BY <3>2 DEF PageHolds
  <2>3. removed \subseteq Jobs /\ twins \subseteq Jobs /\ ToDrop \subseteq Jobs
    BY DEF TypeOK, ToDrop
  <2>4. \A k \in removed : replica'[k].rev = 0
    BY <1>b, <1>d, <2>3 DEF NotHeld
  <2>5. \A k \in twins : ~replica'[k].aside => replica'[k].rev = 0
    BY <1>b, <1>d, <2>3 DEF NotHeld
  <2>6. ASSUME NEW k \in ToDrop'
        PROVE  replica'[k].rev = 0 /\ \A c \in inbox'.bundles : c.job # k
    <3>1. CASE k = b.job
      BY <1>b, <1>d, <2>1, <2>2, <2>6, <3>1 DEF NotHeld
    <3>2. CASE k # b.job
      BY <1>b, <1>d, <2>3, <2>6, <3>2 DEF NotHeld
    <3> QED
      BY <3>1, <3>2
  <2> QED
    BY <1>a, <2>4, <2>5, <2>6 DEF NotHeld
<1>12. Deleted(h)'
  <2>1. ASSUME jobs[b.job].phase = "gone", tombs[b.job] <= h
        PROVE  FALSE
    BY <2>1, <1>b, <1>e, <1>f
  <2> QED
    BY <1>a, <1>b, <1>d, <2>1 DEF Deleted
<1>13. GoneIsGoneAtHome'
  <2>1. ASSUME jobs[b.job].phase = "gone", tombs[b.job] <= acked
        PROVE  FALSE
    BY <2>1, <1>b, <1>e, <1>f
  <2> QED
    BY <1>a, <1>b, <1>d, <2>1 DEF GoneIsGoneAtHome
<1> QED
  BY <1>1, <1>2, <1>3, <1>4, <1>5, <1>6, <1>7, <1>8, <1>9, <1>10, <1>11, <1>12, <1>13

LEMMA TrackRefusalsHolds ==
  ASSUME TypeOK, TypeOK', NoGap, NEW h, Inv(h), TrackRefusals
  PROVE  Inv(h)'
<1> USE DEF Inv
<1> DEFINE sent == {row.job : row \in page.listed}
           attempts == [j \in Jobs |-> push.retry[j] + 1]
           parked == {j \in sent \cap answer.refused : attempts[j] >= RETRY_LIMIT}
<1>a. /\ step = "posted" /\ step' = "dropping" /\ inbox = NothingSent
      /\ push' = [retry |-> [j \in Jobs |->
                              IF j \notin sent THEN push.retry[j]
                              ELSE IF j \in answer.refused \ parked THEN attempts[j] ELSE 0],
                  stuck |-> (push.stuck \ sent) \cup parked]
      /\ UNCHANGED <<clock, jobs, tombs, acked, retry, stuck, rows, doomed, top, page, answer,
                     checked, inbox, replica, twins, removed>>
  BY DEF TrackRefusals, saved, atHome
\* A refused job of the page is tracked or parked; the other jobs are left alone.
<1>b. /\ \A j \in Jobs \ sent : push'.retry[j] = push.retry[j]
                                /\ (j \in push'.stuck <=> j \in push.stuck)
      /\ \A j \in Jobs \cap sent \cap answer.refused : push'.retry[j] > 0 \/ j \in push'.stuck
  <2>1. \A j \in Jobs : push.retry[j] \in Nat
    BY DEF TypeOK
  <2>2. \A j \in Jobs : attempts[j] > 0
    BY <2>1
  <2>3. parked \subseteq sent
    OBVIOUS
  <2> HIDE DEF attempts, sent, parked
  <2> QED
    BY <1>a, <2>2, <2>3
<1>1. Clocked(h)'
  BY <1>a DEF Clocked
<1>2. Stamped'
  BY <1>a DEF Stamped, Live
<1>3. Phased'
  BY <1>a DEF Phased, ToDrop, NothingSent
<1>4. RowsHold(h)'
  BY <1>a DEF RowsHold, Same, Live
<1>5. BundlesHold(h)'
  BY <1>a DEF BundlesHold, Same, Live
<1>6. PageHolds(h)'
  BY <1>a DEF PageHolds, Live
<1>7. Covered(h)'
  BY <1>a DEF Covered, Live
<1>8. PageHandled(h)'
  <2> SUFFICES ASSUME NEW b \in page.bundles
               PROVE  Handled(b, h)'
    BY <1>a DEF PageHandled
  <2>1. Handled(b, h)
    BY <1>a DEF PageHandled, NothingSent
  <2>2. b.job \in Jobs \cap sent
    <3>1. b.job \in Jobs
      BY DEF TypeOK, Bundle
    <3>2. PICK r \in page.listed : r.job = b.job
      BY DEF PageHolds
    <3> QED
      BY <3>1, <3>2
  <2> HIDE DEF sent, attempts, parked
  <2> QED
    BY <1>a, <1>b, <2>1, <2>2 DEF Handled, Live
<1>9. Tracked'
  <2>1. ASSUME NEW j \in Jobs, \A r \in page.listed : r.job # j
        PROVE  j \notin sent
    BY <2>1
  <2> HIDE DEF sent, attempts, parked
  <2> QED
    BY <1>a, <1>b, <2>1 DEF Tracked
<1>10. Replicated'
  BY <1>a DEF Replicated, Live
<1>11. NotHeld'
  BY <1>a DEF NotHeld, ToDrop
<1>12. Deleted(h)'
  BY <1>a DEF Deleted
<1>13. GoneIsGoneAtHome'
  BY <1>a DEF GoneIsGoneAtHome
<1> QED
  BY <1>1, <1>2, <1>3, <1>4, <1>5, <1>6, <1>7, <1>8, <1>9, <1>10, <1>11, <1>12, <1>13

LEMMA CheckDropHolds ==
  ASSUME TypeOK, TypeOK', NoGap, NEW h, Inv(h), NEW j \in Jobs, CheckDrop(j)
  PROVE  Inv(h)'
<1> USE DEF Inv
<1>a. /\ step = "dropping" /\ checked = {} /\ j \in ToDrop
      /\ \/ jobs[j].worked /\ answer' = Settled(j) /\ checked' = checked
         \/ answer' = answer /\ checked' = {j}
      /\ UNCHANGED <<clock, jobs, tombs, acked, retry, stuck, step, push, rows, doomed, top,
                     page, inbox, replica, twins, removed>>
  BY DEF CheckDrop, Worked, saved, atHome
<1>b. /\ answer'.refused = answer.refused
      /\ answer'.laptop \subseteq answer.laptop
      /\ answer'.gone \subseteq answer.gone
      /\ answer.laptop \subseteq answer'.laptop \cup {j}
      /\ j \notin answer'.laptop => jobs[j].worked \/ answer'.laptop = answer.laptop
  <2>1. CASE answer' = answer
    BY <2>1
  <2>2. CASE jobs[j].worked /\ answer' = Settled(j)
    BY <2>2 DEF Settled, TypeOK
  <2> QED
    BY <1>a, <2>1, <2>2
<1>1. Clocked(h)'
  BY <1>a DEF Clocked
<1>2. Stamped'
  BY <1>a DEF Stamped, Live
<1>3. Phased'
  BY <1>a DEF Phased, ToDrop
<1>4. RowsHold(h)'
  BY <1>a DEF RowsHold, Same, Live
<1>5. BundlesHold(h)'
  BY <1>a DEF BundlesHold, Same, Live
<1>6. PageHolds(h)'
  BY <1>a DEF PageHolds, Live
<1>7. Covered(h)'
  BY <1>a DEF Covered, Live
<1>8. PageHandled(h)'
  <2> SUFFICES ASSUME NEW b \in page.bundles, b \notin inbox.bundles
               PROVE  Handled(b, h)'
    BY <1>a DEF PageHandled
  <2>1. Handled(b, h) /\ b.job \in Jobs
    BY <1>a DEF PageHandled, TypeOK, Bundle
  <2>2. CASE b.job \in answer.laptop /\ ~b.worked
    <3>1. CASE b.job \in answer'.laptop
      BY <2>2, <3>1 DEF Handled
    <3>2. CASE b.job \notin answer'.laptop
      <4>1. b.job = j /\ jobs[j].worked
        BY <1>b, <2>2, <3>2
      <4>2. Live(b.job) => jobs[b.job].rev > h
        BY <2>2, <4>1 DEF BundlesHold, Same, Live
      <4> QED
        BY <1>a, <4>2 DEF Handled, Live
    <3> QED
      BY <3>1, <3>2
  <2> QED
    BY <1>a, <1>b, <2>1, <2>2 DEF Handled, Live
<1>9. Tracked'
  BY <1>a DEF Tracked
<1>10. Replicated'
  BY <1>a DEF Replicated, Live
<1>11. NotHeld'
  BY <1>a, <1>b DEF NotHeld, ToDrop
<1>12. Deleted(h)'
  BY <1>a DEF Deleted
<1>13. GoneIsGoneAtHome'
  BY <1>a DEF GoneIsGoneAtHome
<1> QED
  BY <1>1, <1>2, <1>3, <1>4, <1>5, <1>6, <1>7, <1>8, <1>9, <1>10, <1>11, <1>12, <1>13

LEMMA DropHolds ==
  ASSUME TypeOK, TypeOK', NoGap, NEW h, Inv(h), NEW j \in Jobs, Drop(j)
  PROVE  Inv(h)'
<1> USE DEF Inv
<1>a. /\ step = "dropping" /\ checked = {j} /\ checked' = {}
      /\ jobs' = [jobs EXCEPT ![j] = Gone]
      /\ tombs' = [tombs EXCEPT ![j] = 0]
      /\ clock' = IF Live(j) THEN clock + 1 ELSE clock
      /\ answer' = Settled(j)
      /\ UNCHANGED <<acked, retry, stuck, step, push, rows, doomed, top, page,
                     inbox, replica, twins, removed>>
  BY DEF Drop, saved, atHome
<1>b. /\ jobs'[j].phase = "gone" /\ jobs'[j].rev = 0 /\ tombs'[j] = 0
      /\ \A k \in Jobs \ {j} : jobs'[k] = jobs[k] /\ tombs'[k] = tombs[k]
      /\ answer'.refused = answer.refused
      /\ answer'.laptop = answer.laptop \ {j} /\ answer'.gone = answer.gone \ {j}
  BY <1>a DEF TypeOK, Gone, Unknown, Settled
<1>c. /\ clock \in Nat /\ acked \in Nat /\ h \in Nat /\ acked <= h /\ h <= clock
      /\ \A k \in Jobs : jobs[k].rev \in Nat /\ jobs[k].rev <= clock
      /\ \A k \in Jobs : tombs[k] \in Nat /\ tombs[k] <= clock
      /\ clock' \in Nat /\ clock <= clock'
  BY <1>a DEF Clocked, TypeOK, Job
<1>d. inbox = NothingSent /\ doomed = {} /\ j \in ToDrop
  BY <1>a DEF Phased
<1>1. Clocked(h)'
  BY <1>a, <1>b, <1>c DEF Clocked
<1>2. Stamped'
  BY <1>a, <1>b DEF Stamped, Live
<1>3. Phased'
  BY <1>a DEF Phased, ToDrop
<1>4. RowsHold(h)'
  BY <1>a, <1>b DEF TypeOK, RowsHold, Same, Live, Listed
<1>5. BundlesHold(h)'
  <2> SUFFICES ASSUME NEW b \in page.bundles \cup inbox.bundles
               PROVE  BundlesHold(h)!(b)'
    BY <1>a DEF BundlesHold
  <2> QED
    BY <1>a, <1>b, <1>c DEF TypeOK, BundlesHold, Same, Live, Bundle
<1>6. PageHolds(h)'
  BY <1>a, <1>b DEF TypeOK, PageHolds, Live, Listed
<1>7. Covered(h)'
  BY <1>a, <1>b DEF Covered, Live
<1>8. PageHandled(h)'
  BY <1>a, <1>b DEF TypeOK, PageHandled, Handled, Live, Bundle
<1>9. Tracked'
  BY <1>a, <1>b DEF Tracked
<1>10. Replicated'
  BY <1>a, <1>b DEF Replicated, Live
<1>11. NotHeld'
  BY <1>a, <1>b DEF NotHeld, ToDrop
<1>12. Deleted(h)'
  BY <1>a, <1>b, <1>c, <1>d DEF TypeOK, Deleted, NothingSent
<1>13. GoneIsGoneAtHome'
  BY <1>a, <1>b, <1>d DEF GoneIsGoneAtHome, NotHeld
<1> QED
  BY <1>1, <1>2, <1>3, <1>4, <1>5, <1>6, <1>7, <1>8, <1>9, <1>10, <1>11, <1>12, <1>13

LEMMA SaveProgressHolds ==
  ASSUME TypeOK, TypeOK', NoGap, NEW h, Inv(h), SaveProgress
  PROVE  Inv(h)'
<1> USE DEF Inv
<1>a. /\ PageSettled
      /\ acked' \in {acked} \cup {row.rev : row \in page.listed}
      /\ \A rev \in {acked} \cup {row.rev : row \in page.listed} : rev <= acked'
      /\ retry' = push.retry /\ stuck' = push.stuck
      /\ page' = NoPage /\ answer' = NoAnswer /\ step' = "paging"
      /\ UNCHANGED <<clock, jobs, tombs, push, rows, doomed, top, checked, inbox,
                     replica, twins, removed>>
  BY DEF SaveProgress, Acknowledged, atHome
<1>b. /\ step \in {"paging", "dropping"}
      /\ inbox = NothingSent /\ doomed = {} /\ checked = {}
      /\ page'.listed = {} /\ page'.bundles = {}
      /\ answer'.refused = {} /\ answer'.laptop = {} /\ answer'.gone = {}
  <2>1. \/ step = "dropping" /\ ToDrop = {}
        \/ step = "paging" /\ doomed = {}
    BY <1>a DEF PageSettled, PageReady
  <2> QED
    BY <1>a, <2>1 DEF Phased, NoPage, NoAnswer
<1>c. /\ clock \in Nat /\ acked \in Nat /\ h \in Nat /\ acked <= h /\ h <= clock
      /\ \A k \in Jobs : jobs[k].rev \in Nat /\ tombs[k] \in Nat
      /\ \A r \in rows \cup page.listed : r.rev \in Nat /\ r.job \in Jobs
      /\ \A b \in page.bundles : b.job \in Jobs
  BY DEF Clocked, TypeOK, Job, Listed, Bundle
<1>d. /\ acked' \in Nat /\ acked <= acked' /\ acked' <= h
      /\ \A r \in page.listed : r.rev <= acked'
      /\ acked' = acked \/ \E r \in page.listed : acked' = r.rev
  BY <1>a, <1>c DEF RowsHold
\* A job of the page that could be sent is at home, or the push remembers it.
<1>e. ASSUME NEW r \in page.listed, Live(r.job), jobs[r.job].rev <= h, jobs[r.job].sendable
      PROVE  \/ replica[r.job].rev = jobs[r.job].rev
             \/ push.retry[r.job] > 0
             \/ r.job \in push.stuck
             \/ r.job \in removed
  <2>1. PICK b \in page.bundles : b.job = r.job
    BY <1>e DEF PageHolds
  <2>2. step = "dropping" /\ ToDrop = {}
    BY <1>a, <2>1 DEF PageSettled
  <2>3. Handled(b, h)
    BY <1>b, <2>2 DEF PageHandled, NothingSent
  <2>4. Same(b, h)
    BY DEF BundlesHold
  <2>5. r.job \in Jobs /\ ~(jobs[r.job].rev > h)
    BY <1>c, <1>e
  <2> QED
    BY <1>e, <2>1, <2>2, <2>3, <2>4, <2>5 DEF Handled, Same, ToDrop
\* What the ack passes is in the page.
<1>f. ASSUME NEW j \in Jobs, Live(j), acked < jobs[j].rev, jobs[j].rev <= h
      PROVE  \E r \in rows \cup page.listed : r.job = j /\ r.rev = jobs[j].rev
                /\ (jobs[j].rev <= acked' <=> r \in page.listed)
  <2>1. PICK r \in rows \cup page.listed : r.job = j
    BY <1>b, <1>f DEF Covered
  <2>2. r.rev = jobs[j].rev
    BY <1>c, <1>f, <2>1 DEF RowsHold, Same
  <2>3. r \in page.listed => jobs[j].rev <= acked'
    BY <1>d, <2>2
  <2>4. ASSUME r \in rows
        PROVE  acked' < r.rev
    BY <1>c, <1>d, <1>f, <2>2, <2>4 DEF RowsHold
  <2> QED
    BY <1>c, <1>d, <2>1, <2>2, <2>3, <2>4
<1>1. Clocked(h)'
  BY <1>a, <1>d DEF Clocked
<1>2. Stamped'
  BY <1>a DEF Stamped, Live
<1>3. Phased'
  BY <1>a, <1>b DEF Phased, ToDrop
<1>4. RowsHold(h)'
  BY <1>a, <1>b DEF RowsHold, Same, Live
<1>5. BundlesHold(h)'
  BY <1>a, <1>b DEF BundlesHold, Same, Live
<1>6. PageHolds(h)'
  BY <1>a, <1>b DEF PageHolds, Live
<1>7. Covered(h)'
  <2> SUFFICES ASSUME NEW j \in Jobs, Live(j), acked' < jobs[j].rev, jobs[j].rev <= h
               PROVE  \E r \in rows : r.job = j
    BY <1>a, <1>b DEF Covered, Live
  <2>1. acked < jobs[j].rev /\ ~(jobs[j].rev <= acked')
    BY <1>c, <1>d
  <2> QED
    BY <1>f, <2>1
<1>8. PageHandled(h)'
  BY <1>a, <1>b DEF PageHandled
<1>9. Tracked'
  <2>1. ASSUME NEW j \in Jobs, jobs[j].phase = "new"
        PROVE  push.retry[j] = 0 /\ j \notin push.stuck
    BY <1>b, <2>1 DEF Tracked, RowsHold
  <2> QED
    BY <1>a, <2>1 DEF Tracked
<1>10. Replicated'
  <2> SUFFICES ASSUME NEW j \in Jobs, Live(j), 0 < jobs[j].rev, jobs[j].rev <= acked',
                      jobs[j].sendable, j \notin removed
               PROVE  replica[j].rev = jobs[j].rev \/ push.retry[j] > 0 \/ j \in push.stuck
    BY <1>a DEF Replicated, Live
  <2>1. jobs[j].rev <= h
    BY <1>c, <1>d
  <2>2. CASE \E r \in page.listed : r.job = j
    BY <1>e, <2>1, <2>2
  <2>3. CASE \A r \in page.listed : r.job # j
    <3>1. jobs[j].rev <= acked
      BY <1>c, <1>f, <2>1, <2>3
    <3>2. replica[j].rev = jobs[j].rev \/ retry[j] > 0 \/ j \in stuck
      BY <3>1 DEF Replicated
    <3> QED
      BY <1>b, <2>3, <3>2 DEF Tracked, Live
  <2> QED
    BY <2>2, <2>3
<1>11. NotHeld'
  BY <1>a, <1>b DEF NotHeld, ToDrop, NothingSent
<1>12. Deleted(h)'
  <2>1. ASSUME NEW j \in Jobs, jobs[j].phase = "gone", acked' < tombs[j], tombs[j] <= h
        PROVE  replica[j].rev = 0
    BY <1>b, <1>c, <1>d, <2>1 DEF Deleted, NothingSent
  <2> QED
    BY <1>a, <1>b, <2>1 DEF Deleted, NothingSent
<1>13. GoneIsGoneAtHome'
  <2>1. ASSUME NEW j \in Jobs, jobs[j].phase = "gone", tombs[j] <= acked'
        PROVE  replica[j].rev = 0
    <3>1. tombs[j] <= h
      BY <1>c, <1>d, <2>1
    <3>2. CASE tombs[j] <= acked
      BY <2>1, <3>2 DEF GoneIsGoneAtHome
    <3>3. CASE acked < tombs[j]
      BY <1>b, <2>1, <3>1, <3>3 DEF Deleted, NothingSent
    <3> QED
      BY <1>c, <3>2, <3>3
  <2> QED
    BY <1>a, <2>1 DEF GoneIsGoneAtHome
<1> QED
  BY <1>1, <1>2, <1>3, <1>4, <1>5, <1>6, <1>7, <1>8, <1>9, <1>10, <1>11, <1>12, <1>13

LEMMA FinishPushHolds ==
  ASSUME TypeOK, TypeOK', NoGap, NEW h, Inv(h), FinishPush
  PROVE  Inv(h)'
<1> USE DEF Inv
<1>a. /\ step = "paging" /\ step' = "idle" /\ rows = {} /\ doomed = {} /\ page.listed = {}
      /\ acked' = IF top > acked THEN top ELSE acked
      /\ retry' = push.retry /\ stuck' = push.stuck /\ push' = NoPush /\ top' = 0
      /\ UNCHANGED <<clock, jobs, tombs, rows, doomed, page, answer, checked, inbox,
                     replica, twins, removed>>
  BY DEF FinishPush, atHome
<1>b. /\ clock \in Nat /\ acked \in Nat /\ h \in Nat /\ acked <= h /\ h <= clock
      /\ \A k \in Jobs : jobs[k].rev \in Nat /\ tombs[k] \in Nat
      /\ top \in Nat /\ top <= h
  BY DEF Clocked, Deleted, TypeOK, Job
<1>c. acked' \in Nat /\ acked <= acked' /\ acked' <= h
  BY <1>a, <1>b
<1>d. page.bundles = {} /\ page = NoPage /\ inbox = NothingSent
  <2>1. page.bundles = {}
    BY <1>a DEF PageHolds
  <2> QED
    BY <1>a, <2>1 DEF Phased, NoPage, TypeOK
<1>e. ASSUME NEW j \in Jobs, jobs[j].phase # "gone"
      PROVE  push.retry[j] = retry[j] /\ (j \in push.stuck <=> j \in stuck)
  BY <1>a, <1>e DEF Tracked
<1>1. Clocked(h)'
  BY <1>a, <1>c DEF Clocked
<1>2. Stamped'
  BY <1>a DEF Stamped, Live
<1>3. Phased'
  BY <1>a, <1>d DEF Phased, ToDrop
<1>4. RowsHold(h)'
  BY <1>a DEF RowsHold, Same, Live
<1>5. BundlesHold(h)'
  BY <1>a DEF BundlesHold, Same, Live
<1>6. PageHolds(h)'
  BY <1>a DEF PageHolds, Live
<1>7. Covered(h)'
  BY <1>a DEF Covered
<1>8. PageHandled(h)'
  BY <1>a DEF PageHandled
<1>9. Tracked'
  BY <1>a, <1>e DEF Tracked
<1>10. Replicated'
  <2> SUFFICES ASSUME NEW j \in Jobs, Live(j), 0 < jobs[j].rev, jobs[j].rev <= acked',
                      jobs[j].sendable, j \notin removed
               PROVE  replica[j].rev = jobs[j].rev \/ push.retry[j] > 0 \/ j \in push.stuck
    BY <1>a DEF Replicated, Live
  <2>1. jobs[j].rev <= acked
    BY <1>a, <1>b, <1>c DEF Covered
  <2>2. replica[j].rev = jobs[j].rev \/ retry[j] > 0 \/ j \in stuck
    BY <2>1 DEF Replicated
  <2> QED
    BY <1>e, <2>2 DEF Live
<1>11. NotHeld'
  BY <1>a DEF NotHeld, ToDrop
<1>12. Deleted(h)'
  BY <1>a, <1>b, <1>d DEF Deleted, NothingSent
<1>13. GoneIsGoneAtHome'
  <2>1. ASSUME NEW j \in Jobs, jobs[j].phase = "gone", tombs[j] <= acked'
        PROVE  replica[j].rev = 0
    <3>1. tombs[j] <= h
      BY <1>b, <1>c, <2>1
    <3>2. CASE tombs[j] <= acked
      BY <2>1, <3>2 DEF GoneIsGoneAtHome
    <3>3. CASE acked < tombs[j]
      BY <1>a, <1>d, <2>1, <3>1, <3>3 DEF Deleted, NothingSent
    <3> QED
      BY <1>b, <3>2, <3>3
  <2> QED
    BY <1>a, <2>1 DEF GoneIsGoneAtHome
<1> QED
  BY <1>1, <1>2, <1>3, <1>4, <1>5, <1>6, <1>7, <1>8, <1>9, <1>10, <1>11, <1>12, <1>13

LEMMA GiveUpHolds ==
  ASSUME TypeOK, TypeOK', NoGap, NEW h, Inv(h), GiveUp
  PROVE  Inv(h)'
<1> USE DEF Inv
<1>1. Clocked(h)'
  BY DEF TypeOK, Clocked, GiveUp, NoPush, NoPage, NoAnswer, NothingSent, saved, local, atHome
<1>2. Stamped'
  BY DEF TypeOK, Stamped, Live, GiveUp, NoPush, NoPage, NoAnswer, NothingSent, saved, local, atHome
<1>3. Phased'
  BY DEF TypeOK, Phased, ToDrop, GiveUp, NoPush, NoPage, NoAnswer, NothingSent, saved, local, atHome
<1>4. RowsHold(h)'
  BY DEF TypeOK, RowsHold, Same, Live, GiveUp, NoPush, NoPage, NoAnswer, NothingSent, saved, local, atHome
<1>5. BundlesHold(h)'
  BY DEF TypeOK, BundlesHold, Same, Live, GiveUp, NoPush, NoPage, NoAnswer, NothingSent, saved, local, atHome
<1>6. PageHolds(h)'
  BY DEF TypeOK, PageHolds, Live, GiveUp, NoPush, NoPage, NoAnswer, NothingSent, saved, local, atHome
<1>7. Covered(h)'
  BY DEF TypeOK, Covered, Live, GiveUp, NoPush, NoPage, NoAnswer, NothingSent, saved, local, atHome
<1>8. PageHandled(h)'
  BY DEF TypeOK, PageHandled, Handled, Live, GiveUp, NoPush, NoPage, NoAnswer, NothingSent, saved, local, atHome
<1>9. Tracked'
  BY DEF TypeOK, Tracked, Live, GiveUp, NoPush, NoPage, NoAnswer, NothingSent, saved, local, atHome
<1>10. Replicated'
  BY DEF TypeOK, Replicated, Live, GiveUp, NoPush, NoPage, NoAnswer, NothingSent, saved, local, atHome
<1>11. NotHeld'
  BY DEF TypeOK, NotHeld, ToDrop, GiveUp, NoPush, NoPage, NoAnswer, NothingSent, saved, local, atHome
<1>12. Deleted(h)'
  BY DEF Clocked, Phased, TypeOK, Deleted, GiveUp, NoPush, NoPage, NoAnswer, NothingSent, saved, local, atHome
<1>13. GoneIsGoneAtHome'
  BY DEF TypeOK, GoneIsGoneAtHome, GiveUp, NoPush, NoPage, NoAnswer, NothingSent, saved, local, atHome
<1> QED
  BY <1>1, <1>2, <1>3, <1>4, <1>5, <1>6, <1>7, <1>8, <1>9, <1>10, <1>11, <1>12, <1>13

LEMMA InitHolds == Init => IInv
<1> SUFFICES ASSUME Init PROVE IInv
  OBVIOUS
<1>1. Inv(0)
  <2>1. /\ clock = 0 /\ acked = 0 /\ step = "idle" /\ rows = {} /\ doomed = {} /\ top = 0
        /\ page = NoPage /\ page.listed = {} /\ page.bundles = {} /\ checked = {}
        /\ inbox = NothingSent /\ inbox.tombs = {} /\ inbox.bundles = {}
        /\ stuck = {} /\ twins = {} /\ removed = {} /\ ToDrop = {}
        /\ \A j \in Jobs : /\ retry[j] = 0 /\ tombs[j] = 0 /\ replica[j].rev = 0
                          /\ jobs[j].rev = 0 /\ jobs[j].phase # "gone"
    BY DEF Init, NoPage, NothingSent, NoAnswer, NoReplica, ToDrop, Old, Unknown
  <2> QED
    BY <2>1 DEF Inv, Clocked, Stamped, Phased, RowsHold, BundlesHold, PageHolds, Covered,
       PageHandled, Tracked, Replicated, NotHeld, Deleted, GoneIsGoneAtHome, Live
<1> QED
  BY <1>1 DEF IInv, Init

LEMMA NextHolds ==
  ASSUME NoGap, TypeOK, IInv, [Next]_vars
  PROVE  IInv'
<1>1. TypeOK'
  BY NextTyped
<1>2. PICK h \in 0..clock : Inv(h)
  BY DEF IInv
<1>3. SUFFICES \E g \in {h, clock'} : Inv(g)'
  <2>1. ASSUME NEW g, Inv(g)'
        PROVE  g \in 0..clock'
    BY <1>1, <2>1 DEF Inv, Clocked, TypeOK
  <2> QED
    BY <2>1 DEF IInv
<1>4. CASE BotStep
  BY <1>1, <1>2, <1>4, FlushHolds, DeleteHolds DEF BotStep
<1>5. CASE HomeStep
  BY <1>1, <1>2, <1>5, HomeStepHolds
<1>6. CASE PushStep
  <2>1. CASE StartPush
    BY <1>1, <1>2, <2>1, StartPushHolds
  <2>2. CASE ListTombstones
    BY <1>1, <1>2, <2>2, ListTombstonesHolds
  <2>3. CASE TakeRow
    BY <1>1, <1>2, <2>3, TakeRowHolds
  <2>4. CASE Post
    BY <1>1, <1>2, <2>4, PostHolds
  <2>5. CASE TrackRefusals
    BY <1>1, <1>2, <2>5, TrackRefusalsHolds
  <2>6. CASE \E j \in Jobs : CheckDrop(j) \/ Drop(j)
    BY <1>1, <1>2, <2>6, CheckDropHolds, DropHolds
  <2>7. CASE SaveProgress
    BY <1>1, <1>2, <2>7, SaveProgressHolds
  <2>8. CASE FinishPush
    BY <1>1, <1>2, <2>8, FinishPushHolds
  <2> QED
    BY <1>6, <2>1, <2>2, <2>3, <2>4, <2>5, <2>6, <2>7, <2>8 DEF PushStep
<1>7. CASE HandlePost
  <2>1. inbox.tombs \subseteq Jobs
    BY DEF TypeOK
  <2> QED
    BY <1>1, <1>2, <1>7, <2>1, DropReplicaHolds, StoreBundleHolds DEF HandlePost
<1>8. CASE GiveUp
  BY <1>1, <1>2, <1>8, GiveUpHolds
<1>9. CASE UNCHANGED vars
  <2>1. Inv(h)'
    BY <1>2, <1>9 DEF vars, saved, local, atHome, Inv, Clocked, Stamped, Phased, ToDrop, RowsHold,
       Same, BundlesHold, PageHolds, Covered, PageHandled, Handled, Tracked, Replicated, NotHeld,
       Deleted, GoneIsGoneAtHome, Live
  <2> QED
    BY <2>1
<1> QED
  BY <1>4, <1>5, <1>6, <1>7, <1>8, <1>9 DEF Next

-----------------------------------------------------------------------------
(* The theorems. *)

LEMMA InductiveInvariant == NoGap => (Spec => [](TypeOK /\ IInv))
<1> SUFFICES ASSUME NoGap PROVE Spec => [](TypeOK /\ IInv)
  OBVIOUS
<1>1. Init => TypeOK /\ IInv
  BY InitTypeOK, InitHolds
<1>2. TypeOK /\ IInv /\ [Next]_vars => (TypeOK /\ IInv)'
  BY NextTyped, NextHolds
<1> QED
  BY <1>1, <1>2, PTL DEF Spec

\* Whenever no round runs, a job at or below the acknowledged revision is at home as
\* it is, waits for another try, is parked, or cannot be sent: no round, however it
\* ended, has acknowledged a change it then forgets.
THEOREM AckNeverLosesAChange == NoGap => (Spec => []AckedIsReplicated)
<1>1. TypeOK /\ IInv => AckedIsReplicated
  BY DEF IInv, Inv, Replicated, AckedIsReplicated
<1> QED
  BY <1>1, InductiveInvariant, PTL

\* A deletion at or below the acknowledged revision has reached home, and a job the
\* bot dropped for home's own has no replica there.
THEOREM DeletionsPrecedeTheAck == NoGap => (Spec => []GoneIsGoneAtHome)
<1>1. TypeOK /\ IInv => GoneIsGoneAtHome
  BY DEF IInv, Inv
<1> QED
  BY <1>1, InductiveInvariant, PTL

-----------------------------------------------------------------------------
(* Work is kept, unless work begins between the check and the drop.         *)

NoLateWork == "drop" \notin Windows

\* No work was done on a job that is about to be dropped, nor remains of one gone.
Unworked ==
  /\ \A j \in checked : ~jobs[j].worked
  /\ \A j \in Jobs : jobs[j].phase = "gone" => ~jobs[j].worked

LEMMA InitUnworked == Init => Unworked
  BY DEF Init, Unworked, Unknown, Old

LEMMA NextUnworked ==
  ASSUME NoLateWork, TypeOK, Unworked, [Next]_vars
  PROVE  /\ Unworked'
         /\ \A j \in Jobs : jobs[j].worked /\ jobs'[j].phase = "gone" => tombs'[j] > 0
<1> USE DEF Unworked
<1>1. \A j \in Jobs : Gone.worked = FALSE /\ jobs[j] \in Job /\ tombs[j] \in Nat
  BY DEF Gone, Unknown, TypeOK
<1>2. checked \subseteq Jobs /\ clock \in Nat
  BY DEF TypeOK
<1>3. CASE Flush
  <2>1. PICK touched \in Touches :
          /\ \A j \in touched : ~(jobs[j].phase = "gone")
          /\ \E worked \in SUBSET touched, unsendable \in SUBSET touched :
               /\ "drop" \in Windows \/ worked \cap checked = {}
               /\ jobs' = [j \in Jobs |->
                    IF j \in touched
                    THEN [phase |-> "live", rev |-> clock + 1, worked |-> j \in worked,
                          sendable |-> j \notin unsendable]
                    ELSE jobs[j]]
    BY <1>3 DEF Flush
  <2>2. PICK worked \in SUBSET touched, unsendable \in SUBSET touched :
          /\ worked \cap checked = {}
          /\ jobs' = [j \in Jobs |->
               IF j \in touched
               THEN [phase |-> "live", rev |-> clock + 1, worked |-> j \in worked,
                     sendable |-> j \notin unsendable]
               ELSE jobs[j]]
    BY <2>1 DEF NoLateWork
  <2>3. checked' = checked
    BY <1>3 DEF Flush, local
  <2>4. \A j \in Jobs : j \in touched => jobs'[j].phase = "live" /\ (jobs'[j].worked <=> j \in worked)
    BY <2>2
  <2>5. \A j \in Jobs : j \notin touched => jobs'[j] = jobs[j]
    BY <2>2
  <2>6. \A j \in checked : ~jobs'[j].worked
    BY <1>2, <2>2, <2>4, <2>5
  <2>7. \A j \in Jobs : jobs'[j].phase = "gone" => ~jobs[j].worked /\ ~jobs'[j].worked
    BY <2>4, <2>5
  <2> QED
    BY <2>3, <2>6, <2>7
<1>4. ASSUME NEW j \in Jobs, Delete(j) \/ Drop(j)
      PROVE  /\ Unworked'
             /\ \A k \in Jobs : jobs[k].worked /\ jobs'[k].phase = "gone" => tombs'[k] > 0
  <2>1. jobs' = [jobs EXCEPT ![j] = Gone]
    BY <1>4 DEF Delete, Drop
  <2>2. checked' \subseteq checked
    BY <1>4 DEF Delete, Drop, local
  <2>3. tombs'[j] > 0 \/ ~jobs[j].worked
    BY <1>1, <1>2, <1>4 DEF Delete, Drop, TypeOK
  <2>4. \A k \in Jobs \ {j} : jobs'[k] = jobs[k]
    BY <2>1 DEF TypeOK
  <2>5. ~jobs'[j].worked
    BY <1>1, <2>1 DEF TypeOK
  <2> QED
    BY <1>2, <2>2, <2>3, <2>4, <2>5
<1>5. CASE StartPush
  <2>1. \A j \in Jobs : jobs'[j].worked = jobs[j].worked /\ jobs'[j].phase = jobs[j].phase
    BY <1>5, StartPushStamps
  <2>2. checked' = checked
    BY <1>5 DEF StartPush
  <2> QED
    BY <1>2, <2>1, <2>2
\* Every other step leaves the jobs alone and checks a job without work, or none.
<1>6. ASSUME UNCHANGED jobs, \/ checked' \subseteq checked
                             \/ \E j \in Jobs : checked' = {j} /\ ~jobs[j].worked
      PROVE  /\ Unworked'
             /\ \A j \in Jobs : jobs[j].worked /\ jobs'[j].phase = "gone" => tombs'[j] > 0
  BY <1>6
<1>7. CASE HomeStep \/ HandlePost \/ UNCHANGED vars
  <2>1. UNCHANGED <<jobs, checked>>
    BY <1>7 DEF HomeStep, SaveTwin, DeleteTwin, TakeBackAndDelete, HandlePost, DropReplica,
       StoreBundle, vars, local
  <2> QED
    BY <1>6, <2>1
<1>8. CASE ListTombstones \/ TakeRow \/ Post \/ TrackRefusals \/ SaveProgress \/ FinishPush
  <2>1. UNCHANGED <<jobs, checked>>
    BY <1>8 DEF ListTombstones, TakeRow, Post, TrackRefusals, SaveProgress, FinishPush
  <2> QED
    BY <1>6, <2>1
<1>9. ASSUME NEW j \in Jobs, CheckDrop(j)
      PROVE  UNCHANGED jobs /\ (checked' = checked \/ (checked' = {j} /\ ~jobs[j].worked))
  <2>1. jobs' = jobs
    BY <1>9 DEF CheckDrop
  <2>2. IF Worked(j) THEN checked' = checked ELSE checked' = {j}
    BY <1>9 DEF CheckDrop
  <2> QED
    BY <2>1, <2>2 DEF Worked
<1>10. CASE GiveUp
  <2>1. UNCHANGED jobs /\ checked' = {}
    BY <1>10 DEF GiveUp
  <2> QED
    BY <1>6, <2>1
<1> QED
  BY <1>3, <1>4, <1>5, <1>6, <1>7, <1>8, <1>9, <1>10 DEF Next, BotStep, PushStep

\* A job with an application or a proposal past pending_review leaves the bot only by
\* the user's own deletion, whatever home answers about its text.
THEOREM OnlyItsUserDropsWork == NoLateWork => (Spec => WorkIsKept)
<1> SUFFICES ASSUME NoLateWork PROVE Spec => WorkIsKept
  OBVIOUS
<1>1. Init => TypeOK /\ Unworked
  BY InitTypeOK, InitUnworked
<1>2. TypeOK /\ Unworked /\ [Next]_vars => (TypeOK /\ Unworked)'
  BY NextTyped, NextUnworked
<1>3. TypeOK /\ Unworked /\ [Next]_vars
        => [\A j \in Jobs : jobs[j].worked /\ jobs'[j].phase = "gone" => tombs'[j] > 0]_vars
  BY NextUnworked
<1> QED
  BY <1>1, <1>2, <1>3, PTL DEF Spec, WorkIsKept


-----------------------------------------------------------------------------
(* The link that the rounds of a push use: SyncLink *)

(* Rounds and calls are numbered in the order they are made. *)
Numbered ==
  /\ \E k \in 0..MaxRounds : Begun = 1..k /\ running \in {None, k}
  /\ \E k \in 0..MaxCalls : Made = 1..k

(* Stamps lie in the past, and what home accepted was made. *)
StampedCalls ==
  /\ started <= now
  /\ \A c \in Made : calls[c].stamp <= now /\ calls[c].round \in Begun
  /\ \A c \in Calls : accepted[c].times > 0 => c \in Made
  /\ \A c \in Calls : accepted[c].times = 0 => accepted[c].during = None
  /\ \A c \in Calls : accepted[c].during \in Begun \cup {None}
  /\ handling # None => accepted[handling].times > 0

(* Home cannot accept c again: its stamp is too old, or it is of a time    *)
(* before home's process.                                                  *)
TooLate(c) ==
  \/ now > calls[c].stamp + Skew
  \/ started > calls[c].stamp
  \/ ~up /\ started >= calls[c].stamp

Remembers == \A c \in Calls : accepted[c].times > 0 => c \in seen \/ TooLate(c)

(* The calls that a round may leave unaccepted when it ends. *)
Unsettled(c) ==
  /\ c \in Made /\ accepted[c].times = 0
  /\ calls[c].round # running /\ rounds[calls[c].round].end # "died"

ForcedAfter(c) == \E n \in Begun : n > calls[c].round /\ rounds[n].start = "forced"
HeldBack(c) ==
  /\ running = None /\ \A n \in Begun : n <= calls[c].round
  /\ nextAttempt # Never /\ nextAttempt > calls[c].stamp + Skew

Settles ==
  /\ \A c \in Made : calls[c].round = running => c = current \/ accepted[c].times > 0
  /\ \A c \in Calls : Unsettled(c) =>
       now > calls[c].stamp + Skew \/ ForcedAfter(c) \/ HeldBack(c)

-----------------------------------------------------------------------------
(* Types *)

LEMMA Numbers ==
  /\ MaxCalls \in Nat /\ MaxRounds \in Nat /\ MaxTime \in Nat /\ Skew \in Nat /\ Replay \in Nat
  /\ ForceGap \in Nat /\ FirstDelay \in Nat /\ LastDelay \in Nat /\ Cap \in Nat
  /\ Skew <= FirstDelay /\ FirstDelay <= LastDelay /\ Replay > 0 /\ MaxCalls <= Cap
  /\ Calls \subseteq Nat \ {0} /\ Rounds \subseteq Nat \ {0}
BY TimesOK DEF Calls, Rounds

LEMMA InitTypes == LinkInit => LinkTypeOK
BY Numbers DEF LinkInit, LinkTypeOK, Round, Call, Made, None, Never

(* The end of a round keeps the types, whatever it records. *)
LEMMA EndTypes ==
  ASSUME LinkTypeOK, running # None, NEW end \in {"ok", "failed", "died"}, EndRound(end),
         UNCHANGED <<now, calls, wire, home>>,
         failures' \in 0..2, nextAttempt' \in {Never} \cup 0..MaxTime + LastDelay,
         attempted' \in {Never} \cup 0..MaxTime
  PROVE  LinkTypeOK'
<1>1. Made' = Made BY DEF Made
<1>2. rounds' \in [Rounds -> Round]
  BY DEF EndRound, LinkTypeOK, Round, None
<1>3. running' = None /\ current' = None BY DEF EndRound
<1> QED BY <1>1, <1>2, <1>3 DEF LinkTypeOK, home

(* A step of the bot's round keeps the types: it changes one round, or     *)
(* makes one call of the round that runs.                                  *)
LEMMA RoundTypes ==
  LinkTypeOK /\ ((\E start \in {"due", "forced"} : StartRound(start))
             \/ SendCall \/ FailRound \/ SkipRound \/ FinishRound \/ RoundDies) => LinkTypeOK'
<1> SUFFICES ASSUME LinkTypeOK PROVE
      ((\E start \in {"due", "forced"} : StartRound(start))
        \/ SendCall \/ FailRound \/ SkipRound \/ FinishRound \/ RoundDies) => LinkTypeOK'
    OBVIOUS
<1>1. ASSUME NEW start \in {"due", "forced"}, StartRound(start) PROVE LinkTypeOK'
  <2>1. Made' = Made BY <1>1 DEF StartRound, Made
  <2>2. current = None
    <3>1. running = None BY <1>1 DEF StartRound
    <3>2. current \in Made => calls[current].round # None BY DEF Made
    <3>3. current \in Made \cup {None} /\ (current # None => calls[current].round = running)
      BY DEF LinkTypeOK
    <3> QED BY <3>1, <3>2, <3>3
  <2>3. rounds' \in [Rounds -> Round] BY <1>1 DEF StartRound, LinkTypeOK, Round
  <2> QED BY <1>1, <2>1, <2>2, <2>3 DEF StartRound, LinkTypeOK, home
<1>2. ASSUME SendCall PROVE LinkTypeOK'
  <2>1. PICK c \in Calls :
          /\ current' = c
          /\ calls' = [calls EXCEPT ![c] = [stamp |-> now, round |-> running]]
          /\ wire' = wire \cup {c}
    BY <1>2 DEF SendCall
  <2>2. running \in Rounds /\ calls' \in [Calls -> Call]
    BY <1>2, <2>1 DEF SendCall, LinkTypeOK, Call
  <2>3. Made' = Made \cup {c} BY <2>1, <2>2, Numbers DEF Made, LinkTypeOK, Call, None
  <2>4. calls'[c].round = running BY <2>1 DEF LinkTypeOK
  <2> QED BY <1>2, <2>1, <2>2, <2>3, <2>4 DEF SendCall, LinkTypeOK, home
<1>3. ASSUME FailRound PROVE LinkTypeOK'
  <2>1. Delay(failures + 1) \in 0..LastDelay BY Numbers DEF Delay
  <2>2. failures' \in 0..2 BY <1>3 DEF FailRound, LinkTypeOK
  <2>3. nextAttempt' \in 0..MaxTime + LastDelay BY <1>3, <2>1, Numbers DEF FailRound, LinkTypeOK
  <2>4. attempted' \in 0..MaxTime BY <1>3 DEF FailRound, LinkTypeOK
  <2> QED BY <1>3, <2>2, <2>3, <2>4, EndTypes DEF FailRound
<1>4. ASSUME SkipRound PROVE LinkTypeOK'
  <2>1. running # None /\ EndRound("ok") BY <1>4 DEF SkipRound
  <2>2. UNCHANGED <<now, failures, nextAttempt, attempted, calls, wire, home>>
    BY <1>4 DEF SkipRound
  <2> QED BY <2>1, <2>2, EndTypes DEF LinkTypeOK
<1>5. ASSUME FinishRound PROVE LinkTypeOK'
  <2>1. running # None /\ EndRound("ok") /\ failures' = 0 /\ nextAttempt' = Never /\ attempted' = now
    BY <1>5 DEF FinishRound
  <2>2. UNCHANGED <<now, calls, wire, home>> BY <1>5 DEF FinishRound
  <2> QED BY <2>1, <2>2, EndTypes DEF LinkTypeOK
<1>6. ASSUME RoundDies PROVE LinkTypeOK'
  <2>1. running # None /\ EndRound("died") BY <1>6 DEF RoundDies
  <2>2. UNCHANGED <<now, failures, nextAttempt, attempted, calls, wire, home>>
    BY <1>6 DEF RoundDies
  <2> QED BY <2>1, <2>2, EndTypes DEF LinkTypeOK
<1> QED BY <1>1, <1>2, <1>3, <1>4, <1>5, <1>6

(* The replay cache never overflows, since the calls fit in it. *)
LEMMA NothingIsDropped ==
  ASSUME LinkTypeOK, NEW c \in Calls
  PROVE  Remembered(c) = Pruned \cup {c}
<1> DEFINE all == Pruned \cup {c}
<1>1. all \subseteq Calls BY DEF LinkTypeOK, Pruned, Made
<1>2. IsFiniteSet(Calls) /\ Cardinality(Calls) = MaxCalls
  BY FS_Interval, Numbers DEF Calls
<1>3. IsFiniteSet(all) /\ Cardinality(all) <= MaxCalls BY <1>1, <1>2, FS_Subset
<1>4. Cardinality(all) \in Nat BY <1>3, FS_CardinalityType
<1>5. Cardinality(all) <= Cap BY <1>3, <1>4, Numbers
<1> QED BY <1>5 DEF Remembered

LEMMA HomeTypes ==
  LinkTypeOK /\ ((\E c \in Calls : Accept(c) \/ Refuse(c) \/ Lose(c))
             \/ Answer \/ HomeStops \/ HomeStarts \/ Tick) => LinkTypeOK'
<1> SUFFICES ASSUME LinkTypeOK PROVE
      ((\E c \in Calls : Accept(c) \/ Refuse(c) \/ Lose(c))
        \/ Answer \/ HomeStops \/ HomeStarts \/ Tick) => LinkTypeOK'
    OBVIOUS
<1>1. ASSUME NEW c \in Calls, Accept(c) PROVE LinkTypeOK'
  <2>1. seen' = Pruned \cup {c} BY <1>1, NothingIsDropped DEF Accept
  <2>2. Made' = Made BY <1>1 DEF Accept, bot, Made
  <2>3. c \in Made /\ running \in Rounds \cup {None} BY <1>1 DEF Accept, LinkTypeOK
  <2>4. handling' \in Made \cup {None} BY <1>1, <2>3 DEF Accept, LinkTypeOK
  <2>5. accepted' \in [Calls -> [times : 0..2, during : Rounds \cup {None}]]
    BY <1>1, <2>3 DEF Accept, LinkTypeOK
  <2>6. seen' \subseteq Made BY <2>1, <2>3 DEF Pruned, LinkTypeOK
  <2> QED BY <1>1, <2>2, <2>4, <2>5, <2>6 DEF Accept, LinkTypeOK, bot
<1>2. ASSUME NEW c \in Calls, Refuse(c) \/ Lose(c) PROVE LinkTypeOK'
  <2>1. Made' = Made BY <1>2 DEF Refuse, Lose, bot, Made
  <2> QED BY <1>2, <2>1 DEF Refuse, Lose, Pruned, LinkTypeOK, bot, home
<1>3. ASSUME Answer \/ HomeStops \/ HomeStarts \/ Tick PROVE LinkTypeOK'
  <2>1. Made' = Made BY <1>3 DEF Answer, HomeStops, HomeStarts, Tick, bot, Made
  <2>2. CASE Answer BY <2>1, <2>2 DEF Answer, LinkTypeOK
  <2>3. CASE HomeStops BY <2>1, <2>3 DEF HomeStops, LinkTypeOK, bot
  <2>4. CASE HomeStarts BY <2>1, <2>4 DEF HomeStarts, LinkTypeOK, bot
  <2>5. CASE Tick BY <2>1, <2>5, Numbers DEF Tick, LinkTypeOK, bot, home
  <2> QED BY <1>3, <2>2, <2>3, <2>4, <2>5
<1> QED BY <1>1, <1>2, <1>3

LEMMA StepTypes == LinkTypeOK /\ [LinkNext]_linkVars => LinkTypeOK'
<1>1. LinkTypeOK /\ UNCHANGED linkVars => LinkTypeOK'
  BY DEF linkVars, bot, home, LinkTypeOK, Made
<1> QED BY <1>1, RoundTypes, HomeTypes DEF LinkNext

(* Rounds, calls, the saved state and home's cache stay in their domains,  *)
(* and a call that is waited for is one of the round that runs.            *)
THEOREM LinkTypeCorrect == LinkSpec => []LinkTypeOK
BY InitTypes, StepTypes, PTL DEF LinkSpec
-----------------------------------------------------------------------------
(* The inductive invariant *)

LinkInv == Numbered /\ StampedCalls /\ Remembers /\ Settles

LEMMA InitInv == LinkInit => LinkInv
<1> SUFFICES ASSUME LinkInit PROVE LinkInv OBVIOUS
<1>1. Begun = {} /\ Made = {} BY Numbers DEF LinkInit, Begun, Made, None
<1>2. 1..0 = {} OBVIOUS
<1>3. Numbered
  <2>1. Begun = 1..0 /\ running \in {None, 0} BY <1>1, <1>2 DEF LinkInit
  <2>2. Made = 1..0 BY <1>1, <1>2
  <2> QED BY <2>1, <2>2, Numbers DEF Numbered
<1> QED BY <1>1, <1>3 DEF LinkInit, LinkInv, StampedCalls, Remembers, Settles, Unsettled

(* The numbers that the invariant compares. *)
LEMMA Times ==
  ASSUME LinkTypeOK
  PROVE  /\ now \in Nat /\ started \in Nat /\ Never = -1
         /\ \A d \in Calls : calls[d].stamp \in Nat /\ accepted[d].times \in Nat
         /\ \A d \in Made : d \in Calls /\ calls[d].round \in Rounds
         /\ \A n \in Begun : n \in Rounds /\ n \in Nat
         /\ nextAttempt \in Int
BY Numbers DEF LinkTypeOK, Call, Made, Never, Begun, None

LEMMA RunningIsLast ==
  ASSUME LinkTypeOK, Numbered, running # None
  PROVE  running \in Begun /\ \A n \in Begun : n <= running
<1>1. PICK k \in 0..MaxRounds : Begun = 1..k /\ running \in {None, k} BY DEF Numbered
<1>2. running = k /\ k \in Nat /\ k > 0 BY <1>1, Numbers DEF None
<1> QED BY <1>1, <1>2

LEMMA StartInv ==
  ASSUME LinkTypeOK, LinkInv, NEW start \in {"due", "forced"}, StartRound(start)
  PROVE  LinkInv'
<1>1. PICK n \in Rounds : /\ n = Cardinality(Begun) + 1 /\ running' = n
                          /\ rounds' = [rounds EXCEPT ![n].start = start]
  BY DEF StartRound
<1>2. UNCHANGED <<now, failures, nextAttempt, attempted, current, calls, wire, up, started, seen,
                  handling, accepted>> /\ running = None
  BY DEF StartRound, home
<1>3. PICK k \in 0..MaxRounds : Begun = 1..k BY DEF LinkInv, Numbered
<1>4. n = k + 1
  <2>1. Cardinality(1..k) = k BY FS_Interval, Numbers
  <2> QED BY <1>1, <1>3, <2>1
<1>5. Begun' = Begun \cup {n}
  <2>1. rounds'[n].start = start /\ \A m \in Rounds \ {n} : rounds'[m] = rounds[m]
    BY <1>1 DEF LinkTypeOK, Round
  <2>2. start # "none" OBVIOUS
  <2> QED BY <2>1, <2>2 DEF Begun
<1>6. Made' = Made BY <1>2 DEF Made
<1>7. Numbered'
  <2>1. Begun' = 1..n /\ n \in 0..MaxRounds BY <1>3, <1>4, <1>5, Numbers DEF Rounds
  <2> QED BY <1>1, <1>6, <2>1 DEF LinkInv, Numbered
<1>8. StampedCalls' BY <1>2, <1>5, <1>6 DEF LinkInv, StampedCalls
<1>9. Remembers' BY <1>2 DEF LinkInv, Remembers, TooLate
<1>10. \A d \in Made : calls[d].round \in Begun /\ calls[d].round # n
  BY <1>3, <1>4 DEF LinkInv, StampedCalls
<1>11. Settles'
  <2>1. ASSUME NEW d \in Made PROVE ~(calls'[d].round = running') BY <1>1, <1>2, <1>10
  <2>2. ASSUME NEW d \in Calls, Unsettled(d)'
        PROVE  now > calls[d].stamp + Skew \/ ForcedAfter(d)'
    <3>1. d \in Made /\ accepted[d].times = 0 /\ rounds'[calls[d].round].end # "died"
      BY <2>2, <1>2, <1>6 DEF Unsettled
    <3>2. rounds'[calls[d].round] = rounds[calls[d].round]
      BY <3>1, <1>1, <1>10, Times DEF LinkTypeOK
    <3>3. calls[d].round # None BY <3>1 DEF Made
    <3>4. Unsettled(d) BY <3>1, <3>2, <3>3, <1>2 DEF Unsettled
    <3>5. CASE ForcedAfter(d)
      <4>1. PICK m \in Begun : m > calls[d].round /\ rounds[m].start = "forced"
        BY <3>5 DEF ForcedAfter
      <4>2. m # n BY <1>3, <1>4
      <4>3. rounds'[m] = rounds[m] BY <4>2, <1>1, Times DEF LinkTypeOK
      <4> QED BY <4>1, <4>3, <1>2, <1>5 DEF ForcedAfter
    <3>6. CASE start = "forced"
      <4>1. rounds'[n].start = "forced" BY <1>1, <3>6 DEF LinkTypeOK
      <4>2. n > calls[d].round BY <3>1, <1>3, <1>4, <1>10
      <4> QED BY <4>1, <4>2, <1>2, <1>5 DEF ForcedAfter
    <3>7. CASE HeldBack(d) /\ start = "due"
      <4>1. ~(nextAttempt # Never /\ now < nextAttempt)
        BY <3>7 DEF StartRound, HeldOff, Waiting
      <4>2. nextAttempt # Never /\ nextAttempt > calls[d].stamp + Skew BY <3>7 DEF HeldBack
      <4> QED BY <4>1, <4>2, Times, Numbers
    <3> QED BY <3>4, <3>5, <3>6, <3>7 DEF LinkInv, Settles
  <2> QED BY <1>2, <1>6, <2>1, <2>2 DEF Settles
<1> QED BY <1>7, <1>8, <1>9, <1>11 DEF LinkInv

LEMMA SendInv ==
  ASSUME LinkTypeOK, LinkInv, SendCall
  PROVE  LinkInv'
<1>1. PICK c \in Calls : /\ c = Cardinality(Made) + 1
                          /\ current' = c
                          /\ calls' = [calls EXCEPT ![c] = [stamp |-> now, round |-> running]]
  BY DEF SendCall
<1>2. UNCHANGED <<now, running, rounds, nextAttempt, up, started, seen, handling, accepted>>
      /\ running # None /\ current = None
  BY DEF SendCall, home
<1>3. PICK m \in 0..MaxCalls : Made = 1..m BY DEF LinkInv, Numbered
<1>4. c = m + 1
  <2>1. Cardinality(1..m) = m BY FS_Interval, Numbers
  <2> QED BY <1>1, <1>3, <2>1
<1>5. c \notin Made BY <1>3, <1>4
<1>6. Made' = Made \cup {c}
  BY <1>1, <1>2 DEF Made, LinkTypeOK
<1>7. Begun' = Begun BY <1>2 DEF Begun
<1>8. running \in Begun BY <1>2, RunningIsLast DEF LinkInv
<1>9. \A d \in Calls : d # c => calls'[d] = calls[d] BY <1>1 DEF LinkTypeOK
<1>10. calls'[c] = [stamp |-> now, round |-> running] BY <1>1 DEF LinkTypeOK
<1>11. \A d \in Calls : accepted[d].times > 0 => d # c BY <1>5 DEF LinkInv, StampedCalls
<1>12. Numbered'
  <2>1. Made' = 1..c /\ c \in 0..MaxCalls BY <1>3, <1>4, <1>6, Numbers DEF Calls
  <2> QED BY <1>2, <1>7, <2>1 DEF LinkInv, Numbered
<1>13. StampedCalls' BY <1>2, <1>6, <1>7, <1>8, <1>9, <1>10, Times DEF LinkInv, StampedCalls
<1>14. Remembers' BY <1>2, <1>9, <1>11 DEF LinkInv, Remembers, TooLate
<1>15. Settles'
  <2>1. ASSUME NEW d \in Made', calls'[d].round = running' PROVE d = current' \/ accepted'[d].times > 0
    <3>1. CASE d = c BY <3>1, <1>1
    <3>2. CASE d # c
      <4>1. d \in Made /\ calls[d].round = running BY <2>1, <3>2, <1>2, <1>6, <1>9, Times
      <4>2. d # None BY <4>1, Numbers DEF Made, None
      <4> QED BY <4>1, <4>2, <1>2 DEF LinkInv, Settles
    <3> QED BY <3>1, <3>2
  <2>2. ASSUME NEW d \in Calls, Unsettled(d)'
        PROVE  now > calls'[d].stamp + Skew \/ ForcedAfter(d)'
    <3>1. d # c BY <2>2, <1>2, <1>10 DEF Unsettled
    <3>2. Unsettled(d) BY <2>2, <3>1, <1>2, <1>6, <1>9 DEF Unsettled
    <3>3. ~HeldBack(d) BY <1>2 DEF HeldBack
    <3> QED BY <3>1, <3>2, <3>3, <1>2, <1>7, <1>9 DEF LinkInv, Settles, ForcedAfter
  <2> QED BY <2>1, <2>2, <1>2 DEF Settles
<1> QED BY <1>12, <1>13, <1>14, <1>15 DEF LinkInv

(* A round ends having left only calls that are settled, that its failure  *)
(* holds back, or with its death.                                          *)
LEMMA EndInv ==
  ASSUME LinkTypeOK, LinkInv, running # None, NEW end \in {"ok", "failed", "died"}, EndRound(end),
         UNCHANGED <<now, calls, wire, up, started, seen, handling, accepted>>,
         end = "ok" => \A d \in Made : calls[d].round = running => accepted[d].times > 0,
         end = "failed" =>
           /\ nextAttempt' \in Nat
           /\ current \in Made => nextAttempt' > calls[current].stamp + Skew
  PROVE  LinkInv'
<1>1. running' = None /\ rounds' = [rounds EXCEPT ![running].end = end] BY DEF EndRound
<1>2. Made' = Made BY DEF Made
<1>3. running \in Begun /\ \A n \in Begun : n <= running BY RunningIsLast DEF LinkInv
<1>4. running \in Rounds BY <1>3, Times
<1>5. \A n \in Rounds : rounds'[n].start = rounds[n].start /\ (n # running => rounds'[n] = rounds[n])
  BY <1>1, <1>4 DEF LinkTypeOK, Round
<1>6. rounds'[running].end = end BY <1>1, <1>4 DEF LinkTypeOK, Round
<1>7. Begun' = Begun BY <1>5 DEF Begun
<1>8. Numbered' BY <1>1, <1>2, <1>7 DEF LinkInv, Numbered
<1>9. StampedCalls' BY <1>2, <1>7 DEF LinkInv, StampedCalls
<1>10. Remembers' BY DEF LinkInv, Remembers, TooLate
<1>11. Settles'
  <2>1. \A d \in Made : calls[d].round # None BY DEF Made
  <2>2. ASSUME NEW d \in Calls, Unsettled(d)'
        PROVE  now > calls[d].stamp + Skew \/ ForcedAfter(d)' \/ HeldBack(d)'
    <3>1. d \in Made /\ accepted[d].times = 0 /\ calls[d].round \in Rounds
          /\ rounds'[calls[d].round].end # "died"
      BY <2>2, <1>2, Times DEF Unsettled
    <3>2. CASE calls[d].round = running
      <4>1. end # "died" /\ end # "ok" BY <3>1, <3>2, <1>6
      <4>2. d = current BY <3>1, <3>2 DEF LinkInv, Settles
      <4>3. nextAttempt' \in Nat /\ nextAttempt' > calls[d].stamp + Skew BY <3>1, <4>1, <4>2
      <4>4. nextAttempt' # Never BY <4>3 DEF Never
      <4>5. \A n \in Begun' : n <= calls'[d].round BY <1>3, <1>7, <3>2
      <4> QED BY <1>1, <4>3, <4>4, <4>5 DEF HeldBack
    <3>3. CASE calls[d].round # running
      <4>1. Unsettled(d) BY <3>1, <3>3, <1>5 DEF Unsettled
      <4>2. ~HeldBack(d) BY DEF HeldBack
      <4>3. ForcedAfter(d) => ForcedAfter(d)' BY <1>5, <1>7, Times DEF ForcedAfter
      <4> QED BY <4>1, <4>2, <4>3 DEF LinkInv, Settles
    <3> QED BY <3>2, <3>3
  <2> QED BY <1>1, <1>2, <2>1, <2>2 DEF Settles
<1> QED BY <1>8, <1>9, <1>10, <1>11 DEF LinkInv

LEMMA EndsInv ==
  ASSUME LinkTypeOK, LinkInv, FailRound \/ SkipRound \/ FinishRound \/ RoundDies
  PROVE  LinkInv'
<1>1. CASE FailRound
  <2>1. running # None /\ EndRound("failed") /\ nextAttempt' = now + Delay(failures + 1)
        /\ now > calls[current].stamp
        /\ UNCHANGED <<now, calls, wire, up, started, seen, handling, accepted>>
    BY <1>1 DEF FailRound, home
  <2>2. Delay(failures + 1) \in Nat /\ Delay(failures + 1) >= Skew BY Numbers DEF Delay
  <2>3. nextAttempt' \in Nat BY <2>1, <2>2, Times
  <2>4. current \in Made => nextAttempt' > calls[current].stamp + Skew
    <3>1. ASSUME current \in Made
          PROVE  now \in Nat /\ calls[current].stamp \in Nat
      BY <3>1, Times
    <3> QED BY <2>1, <2>2, <3>1, Numbers
  <2> QED BY <2>1, <2>3, <2>4, EndInv
<1>2. CASE SkipRound
  <2>1. running # None /\ EndRound("ok")
        /\ UNCHANGED <<now, calls, wire, up, started, seen, handling, accepted>>
    BY <1>2 DEF SkipRound, home
  <2>2. \A d \in Made : calls[d].round = running => accepted[d].times > 0
    BY <1>2 DEF SkipRound
  <2> QED BY <2>1, <2>2, EndInv
<1>3. CASE FinishRound
  <2>1. running # None /\ EndRound("ok") /\ current = None
        /\ UNCHANGED <<now, calls, wire, up, started, seen, handling, accepted>>
    BY <1>3 DEF FinishRound, home
  <2>2. \A d \in Made : calls[d].round = running => accepted[d].times > 0
    BY <2>1, Numbers DEF LinkInv, Settles, Made, None
  <2> QED BY <2>1, <2>2, EndInv
<1>4. CASE RoundDies
  <2>1. running # None /\ EndRound("died")
        /\ UNCHANGED <<now, calls, wire, up, started, seen, handling, accepted>>
    BY <1>4 DEF RoundDies, home
  <2> QED BY <2>1, EndInv
<1> QED BY <1>1, <1>2, <1>3, <1>4

(* Home accepts only a call that it has not accepted; if its round is over *)
(* without having died, some round was forced since.                       *)
LEMMA AcceptInv ==
  ASSUME LinkTypeOK, LinkInv, NEW c \in Calls, Accept(c)
  PROVE  /\ LinkInv'
         /\ accepted[c].times = 0
         /\ calls[c].round = running \/ rounds[calls[c].round].end = "died" \/ ForcedAfter(c)
            \/ running = None
<1>1. /\ c \in Made /\ Made' = Made /\ Begun' = Begun /\ running \in Begun \cup {None}
      /\ UNCHANGED <<now, running, rounds, nextAttempt, current, calls, up, started>>
  <2>1. UNCHANGED <<now, running, rounds, nextAttempt, current, calls, up, started>>
    BY DEF Accept, bot
  <2>2. running \in Begun \cup {None} BY RunningIsLast DEF LinkInv
  <2> QED BY <2>1, <2>2 DEF Accept, LinkTypeOK, Made, Begun
<1>2. ~TooLate(c) /\ ~(now > calls[c].stamp + Skew) /\ c \notin Pruned
  BY Times, Numbers DEF Accept, Fresh, FromThisProcess, TooLate, LinkTypeOK
<1>3. \A d \in seen : d \notin Pruned => TooLate(d)
  <2>1. ASSUME NEW d \in seen, d \notin Pruned PROVE TooLate(d)
    <3>1. d \in Calls BY <2>1 DEF LinkTypeOK, Made
    <3>2. calls[d].stamp \in Nat /\ now \in Nat BY <3>1, Times
    <3>3. ~(calls[d].stamp + Skew + Replay > now) BY <2>1 DEF Pruned, HoldUntil
    <3>4. now > calls[d].stamp + Skew BY <3>2, <3>3, Numbers
    <3> QED BY <3>4 DEF TooLate
  <2> QED BY <2>1
<1>4. accepted[c].times = 0
  <2>1. c \notin seen BY <1>2, <1>3, Times, Numbers DEF Pruned, HoldUntil
  <2> QED BY <2>1, <1>2, Times DEF LinkInv, Remembers
<1>5. \A d \in Calls : accepted'[d] = accepted[d]
                       \/ (d = c /\ accepted'[d] = [times |-> 1, during |-> running])
  BY <1>4 DEF Accept, LinkTypeOK
<1>6. Numbered' BY <1>1 DEF LinkInv, Numbered
<1>7. StampedCalls'
  <2>1. \A d \in Calls : accepted'[d].times > 0 => accepted[d].times > 0 \/ d = c BY <1>5
  <2>2. \A d \in Calls : accepted[d].times > 0 => accepted'[d].times > 0 BY <1>5
  <2>3. handling' # None => accepted'[handling'].times > 0
    <3>1. CASE handling = None
      <4>1. handling' = c /\ accepted'[c] = [times |-> 1, during |-> running]
        BY <1>4, <3>1 DEF Accept, LinkTypeOK
      <4> QED BY <4>1
    <3>2. CASE handling # None
      <4>1. handling' = handling /\ handling \in Calls BY <3>2 DEF Accept, LinkTypeOK, Made
      <4> QED BY <2>2, <3>2, <4>1 DEF LinkInv, StampedCalls
    <3> QED BY <3>1, <3>2
  <2> QED BY <1>1, <1>5, <2>1, <2>3 DEF LinkInv, StampedCalls
<1>8. Remembers'
  <2>1. seen' = Pruned \cup {c} BY NothingIsDropped DEF Accept
  <2>2. \A d \in Calls : TooLate(d)' <=> TooLate(d) BY <1>1 DEF TooLate
  <2> QED BY <1>3, <1>5, <2>1, <2>2 DEF LinkInv, Remembers
<1>9. Settles'
  <2>1. \A d \in Calls : Unsettled(d)' => Unsettled(d) BY <1>1, <1>5 DEF Unsettled
  <2>2. \A d \in Calls : ForcedAfter(d) => ForcedAfter(d)' BY <1>1 DEF ForcedAfter
  <2>3. \A d \in Calls : HeldBack(d) => HeldBack(d)' BY <1>1 DEF HeldBack
  <2>4. \A d \in Calls : accepted[d].times > 0 => accepted'[d].times > 0 BY <1>5
  <2>5. Made \subseteq Calls BY DEF Made
  <2> QED BY <1>1, <2>1, <2>2, <2>3, <2>4, <2>5 DEF LinkInv, Settles
<1>10. calls[c].round = running \/ rounds[calls[c].round].end = "died" \/ ForcedAfter(c)
       \/ running = None
  BY <1>1, <1>2, <1>4 DEF LinkInv, Settles, Unsettled, HeldBack
<1> QED BY <1>4, <1>6, <1>7, <1>8, <1>9, <1>10 DEF LinkInv

(* What changes neither calls nor rounds nor what was accepted. *)
LEMMA OtherInv ==
  ASSUME LinkTypeOK, LinkInv,
         Answer \/ HomeStops \/ HomeStarts \/ Tick \/ UNCHANGED linkVars
         \/ \E c \in Calls : Refuse(c) \/ Lose(c)
  PROVE  LinkInv' /\ UNCHANGED <<rounds, calls, accepted>>
<1>1. UNCHANGED <<running, rounds, nextAttempt, calls, accepted>>
  BY DEF Answer, HomeStops, HomeStarts, Tick, linkVars, Refuse, Lose, bot, home
<1>2. now' \in Nat /\ started' \in Nat /\ now' >= now
  BY Times DEF Answer, HomeStops, HomeStarts, Tick, linkVars, Refuse, Lose, bot, home
<1>3. Made' = Made /\ Begun' = Begun BY <1>1 DEF Made, Begun
<1>4. Numbered' BY <1>1, <1>3 DEF LinkInv, Numbered
<1>5. StampedCalls'
  <2>1. started' <= now'
    BY Times DEF LinkInv, StampedCalls, Answer, HomeStops, HomeStarts, Tick, linkVars, Refuse, Lose, bot, home
  <2>2. handling' \in {handling, None}
    BY DEF Answer, HomeStops, HomeStarts, Tick, linkVars, Refuse, Lose, bot, home
  <2> QED BY <1>1, <1>2, <1>3, <2>1, <2>2, Times DEF LinkInv, StampedCalls
<1>6. Remembers'
  <2>1. ASSUME NEW d \in Made PROVE TooLate(d) => TooLate(d)'
    <3>1. d \in Calls /\ calls[d].stamp \in Nat /\ calls[d].stamp <= now
      BY Times DEF LinkInv, StampedCalls, Made
    <3>2. CASE HomeStops BY <3>1, <3>2, <1>1, Times, Numbers DEF HomeStops, TooLate
    <3>3. CASE HomeStarts BY <3>1, <3>3, <1>1, Times, Numbers DEF HomeStarts, TooLate
    <3>4. CASE ~HomeStops /\ ~HomeStarts
      <4>1. UNCHANGED <<up, started>> BY <3>4 DEF Answer, Tick, linkVars, Refuse, Lose, home
      <4> QED BY <3>1, <4>1, <1>1, <1>2, Times, Numbers DEF TooLate
    <3> QED BY <3>2, <3>3, <3>4
  <2>2. ASSUME NEW d \in seen, d \notin seen' PROVE TooLate(d)'
    <3>1. d \in Made /\ d \in Calls /\ calls[d].stamp \in Nat /\ calls[d].stamp <= now
      BY Times DEF LinkTypeOK, LinkInv, StampedCalls, Made
    <3>2. CASE HomeStops BY <3>1, <3>2, <1>1 DEF HomeStops, TooLate
    <3>3. CASE ~HomeStops
      <4>1. d \notin Pruned BY <2>2, <3>3 DEF Answer, HomeStarts, Tick, linkVars, Refuse, Lose, home
      <4>2. TooLate(d) BY <3>1, <4>1, Times, Numbers DEF Pruned, HoldUntil, TooLate
      <4> QED BY <4>2, <3>1, <2>1
    <3> QED BY <3>2, <3>3
  <2>3. \A d \in Calls : accepted[d].times > 0 => d \in Made BY DEF LinkInv, StampedCalls
  <2> QED BY <1>1, <2>1, <2>2, <2>3 DEF LinkInv, Remembers
<1>7. Settles'
  <2>1. \A d \in Calls : Unsettled(d)' => Unsettled(d) BY <1>1, <1>3 DEF Unsettled
  <2>2. \A d \in Calls : ForcedAfter(d) => ForcedAfter(d)' BY <1>1, <1>3 DEF ForcedAfter
  <2>3. \A d \in Calls : HeldBack(d) => HeldBack(d)' BY <1>1, <1>3 DEF HeldBack
  <2>4. \A d \in Calls : now > calls[d].stamp + Skew => now' > calls[d].stamp + Skew
    BY <1>2, Times, Numbers
  <2>5. ASSUME NEW d \in Made, calls[d].round = running
        PROVE  d = current' \/ accepted[d].times > 0
    <3>1. CASE current' = current BY <2>5, <3>1 DEF LinkInv, Settles
    <3>2. CASE current' # current
      <4>1. current = handling BY <3>2 DEF Answer, HomeStops, HomeStarts, Tick, linkVars, Refuse, Lose, bot, home
      <4>2. d # None BY <2>5, Numbers DEF Made, None
      <4> QED BY <2>5, <4>1, <4>2 DEF LinkInv, Settles, StampedCalls
    <3> QED BY <3>1, <3>2
  <2> QED BY <1>1, <1>3, <2>1, <2>2, <2>3, <2>4, <2>5 DEF LinkInv, Settles
<1> QED BY <1>1, <1>4, <1>5, <1>6, <1>7 DEF LinkInv

-----------------------------------------------------------------------------
(* The theorems *)

(* With the two properties, which need it to be preserved. *)
Kept == LinkTypeOK /\ LinkInv /\ AcceptedOnce /\ OverlapIsForced

LEMMA InitKept == LinkInit => Kept
<1>1. LinkInit => AcceptedOnce /\ OverlapIsForced
  BY DEF LinkInit, AcceptedOnce, OverlapIsForced, None
<1> QED BY <1>1, InitTypes, InitInv DEF Kept

(* A step that accepts nothing: what was accepted stays explained. *)
LEMMA NothingAccepted ==
  ASSUME LinkTypeOK, LinkTypeOK', LinkInv, OverlapIsForced, AcceptedOnce, UNCHANGED accepted,
         \A c \in Made : calls'[c] = calls[c],
         \A n \in Begun : /\ rounds'[n].start = rounds[n].start
                          /\ n # running => rounds'[n] = rounds[n]
  PROVE  AcceptedOnce' /\ OverlapIsForced'
<1>1. AcceptedOnce' BY DEF AcceptedOnce
<1>2. ASSUME NEW c \in Calls, accepted'[c].during > calls'[c].round
      PROVE  \/ rounds'[calls'[c].round].end = "died"
             \/ \E n \in calls'[c].round + 1 .. accepted'[c].during : rounds'[n].start = "forced"
  <2> DEFINE round == calls[c].round
             during == accepted[c].during
  <2>1. calls'[c].round \in Nat
    <3>1. calls'[c] \in Call BY DEF LinkTypeOK
    <3>2. calls'[c].round \in Rounds \cup {None} BY <3>1 DEF Call
    <3> QED BY <3>2, Numbers DEF None, Rounds
  <2>2. during # None BY <1>2, <2>1 DEF None
  <2>3. c \in Made /\ during \in Begun BY <2>2, Times DEF LinkInv, StampedCalls
  <2>4. calls'[c] = calls[c] /\ during > round BY <1>2, <2>3
  <2>5. round \in Begun /\ round \in Nat /\ during \in Nat /\ during <= MaxRounds
    BY <2>3, Times, Numbers DEF LinkInv, StampedCalls, Rounds
  <2>6. CASE rounds[round].end = "died"
    <3>1. round # running
      <4>1. SUFFICES ASSUME round = running PROVE FALSE OBVIOUS
      <4>2. running # None BY <4>1, <2>3 DEF Made
      <4>3. during <= running BY <2>3, <4>2, RunningIsLast DEF LinkInv
      <4> QED BY <2>4, <2>5, <4>1, <4>3
    <3> QED BY <2>4, <2>5, <2>6, <3>1
  <2>7. CASE \E n \in round + 1 .. during : rounds[n].start = "forced"
    <3>1. PICK n \in round + 1 .. during : rounds[n].start = "forced" BY <2>7
    <3>2. n \in Begun BY <3>1, <2>5, Numbers DEF Begun, Rounds
    <3> QED BY <3>1, <3>2, <2>4
  <2> QED BY <2>4, <2>6, <2>7 DEF OverlapIsForced
<1> QED BY <1>1, <1>2 DEF OverlapIsForced

LEMMA StepKept == Kept /\ [LinkNext]_linkVars => Kept'
<1> SUFFICES ASSUME Kept, [LinkNext]_linkVars PROVE Kept' OBVIOUS
<1>0. LinkTypeOK /\ LinkTypeOK' /\ LinkInv /\ AcceptedOnce /\ OverlapIsForced BY StepTypes DEF Kept
<1>1. ASSUME NEW start \in {"due", "forced"}, StartRound(start) PROVE Kept'
  <2>1. UNCHANGED <<accepted, calls>> BY <1>1 DEF StartRound, home
  <2>2. \A n \in Begun : rounds'[n] = rounds[n]
    <3>1. PICK m \in Rounds : m = Cardinality(Begun) + 1 /\ rounds' = [rounds EXCEPT ![m].start = start]
      BY <1>1 DEF StartRound
    <3>2. PICK k \in 0..MaxRounds : Begun = 1..k BY <1>0 DEF LinkInv, Numbered
    <3>3. Cardinality(1..k) = k BY FS_Interval, Numbers
    <3>4. m \notin Begun BY <3>1, <3>2, <3>3
    <3> QED BY <1>0, <3>1, <3>4, Times DEF LinkTypeOK
  <2>3. LinkInv' BY <1>0, <1>1, StartInv
  <2> QED BY <1>0, <2>1, <2>2, <2>3, NothingAccepted DEF Kept
<1>2. CASE SendCall
  <2>1. UNCHANGED <<accepted, rounds>> BY <1>2 DEF SendCall, home
  <2>2. \A c \in Made : calls'[c] = calls[c]
    <3>1. PICK c \in Calls : c = Cardinality(Made) + 1
                             /\ calls' = [calls EXCEPT ![c] = [stamp |-> now, round |-> running]]
      BY <1>2 DEF SendCall
    <3>2. PICK k \in 0..MaxCalls : Made = 1..k BY <1>0 DEF LinkInv, Numbered
    <3>3. Cardinality(1..k) = k BY FS_Interval, Numbers
    <3>4. c \notin Made BY <3>1, <3>2, <3>3
    <3> QED BY <1>0, <3>1, <3>4 DEF LinkTypeOK, Made
  <2>3. LinkInv' BY <1>0, <1>2, SendInv
  <2> QED BY <1>0, <2>1, <2>2, <2>3, NothingAccepted DEF Kept
<1>3. CASE FailRound \/ SkipRound \/ FinishRound \/ RoundDies
  <2>1. UNCHANGED <<accepted, calls>> /\ running # None
    BY <1>3 DEF FailRound, SkipRound, FinishRound, RoundDies, home
  <2>2. PICK end \in {"ok", "failed", "died"} : rounds' = [rounds EXCEPT ![running].end = end]
    BY <1>3 DEF FailRound, SkipRound, FinishRound, RoundDies, EndRound
  <2>3. \A n \in Begun : /\ rounds'[n].start = rounds[n].start
                         /\ n # running => rounds'[n] = rounds[n]
    BY <1>0, <2>1, <2>2, Times DEF LinkTypeOK, Round, None
  <2>4. LinkInv' BY <1>0, <1>3, EndsInv
  <2> QED BY <1>0, <2>1, <2>3, <2>4, NothingAccepted DEF Kept
<1>4. ASSUME NEW c \in Calls, Accept(c) PROVE Kept'
  <2>1. UNCHANGED <<calls, rounds, running>> BY <1>4 DEF Accept, bot
  <2>2. \A d \in Calls : accepted'[d] = accepted[d]
                        \/ (d = c /\ accepted'[d] = [times |-> 1, during |-> running])
    BY <1>0, <1>4, AcceptInv DEF Accept, LinkTypeOK
  <2>3. AcceptedOnce' BY <1>0, <2>2 DEF AcceptedOnce
  <2>4. ASSUME running > calls[c].round
        PROVE  \/ rounds[calls[c].round].end = "died"
               \/ \E n \in calls[c].round + 1 .. running : rounds[n].start = "forced"
    <3>1. calls[c].round \in Nat /\ running \in Nat
      <4>1. calls[c] \in Call /\ running \in Rounds \cup {None} BY <1>0 DEF LinkTypeOK
      <4>2. calls[c].round \in Rounds \cup {None} BY <4>1 DEF Call
      <4> QED BY <4>1, <4>2, Numbers DEF None, Rounds
    <3>2. running # None BY <2>4, <3>1 DEF None
    <3>3. \A n \in Begun : n <= running BY <1>0, <3>2, RunningIsLast DEF LinkInv
    <3>4. CASE ForcedAfter(c) BY <3>1, <3>3, <3>4, <1>0, Times DEF ForcedAfter
    <3>5. calls[c].round = running \/ rounds[calls[c].round].end = "died" \/ ForcedAfter(c)
          \/ running = None
      BY <1>0, <1>4, AcceptInv
    <3>6. calls[c].round # running BY <2>4, <3>1
    <3> QED BY <3>2, <3>4, <3>5, <3>6
  <2>5. OverlapIsForced' BY <1>0, <2>1, <2>2, <2>4 DEF OverlapIsForced
  <2>6. LinkInv' BY <1>0, <1>4, AcceptInv
  <2> QED BY <1>0, <2>3, <2>5, <2>6 DEF Kept
<1>5. CASE Answer \/ HomeStops \/ HomeStarts \/ Tick \/ UNCHANGED linkVars
           \/ \E c \in Calls : Refuse(c) \/ Lose(c)
  <2>1. LinkInv' /\ UNCHANGED <<rounds, calls, accepted>> BY <1>0, <1>5, OtherInv
  <2> QED BY <1>0, <2>1, NothingAccepted DEF Kept
<1> QED BY <1>1, <1>2, <1>3, <1>4, <1>5 DEF LinkNext

(* However often a call reaches home, across skew, expiry of the cache and *)
(* restarts, it is accepted at most once.                                  *)
THEOREM NoReplay == LinkSpec => []AcceptedOnce
<1>1. Kept => AcceptedOnce BY DEF Kept
<1> QED BY <1>1, InitKept, StepKept, PTL DEF LinkSpec

(* A call is accepted during a later round only if its own died without a  *)
(* record, or a round was forced since: what SyncHandover calls "overlap"  *)
(* and OneWriter assumes away.                                             *)
THEOREM BackoffOutlastsTheStamp == LinkSpec => []OverlapIsForced
<1>1. Kept => OverlapIsForced BY DEF Kept
<1> QED BY <1>1, InitKept, StepKept, PTL DEF LinkSpec
=============================================================================
