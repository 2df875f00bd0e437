------------------------ MODULE SyncHandover_proofs ------------------------
(***************************************************************************)
(* Proofs about SyncHandover for any jobs, take-overs and bounds: its      *)
(* variables keep their types; while rounds do not overlap, no job may be  *)
(* written on both copies; no take-over is left open for a job that is     *)
(* back; the row that is handed back is frozen and not in the middle of an *)
(* application; whoever may write a job holds all of its writes; and the   *)
(* protocol implements JobOwnership.                                       *)
(***************************************************************************)
EXTENDS SyncHandover, TLAPS

-----------------------------------------------------------------------------
(* Type correctness *)

\* The steps that handle the take-over named by current.
Deciding == {"marked", "checked", "landed", "handed", "refusing"}

\* What TypeOK needs to be inductive: a take-over is being decided in the
\* steps that read current, and only decided ones are reported to home.
RoundOK ==
  /\ step \in Deciding => current \in Asks
  /\ \A a \in results : decided[a] # "none"
  /\ step = "committing" => "commit" \in Windows

TypeInv == TypeOK /\ RoundOK

-----------------------------------------------------------------------------
(* One writer *)

NoOverlap == "overlap" \notin Windows

\* A job both copies call their own is on its way back: the return landed and
\* the bot has not flipped its row yet.
BothOwnOnlyWhileReturning ==
  \A j \in Jobs : home[j].owner = "home" /\ bot[j].owner = "bot" => bot[j].handover = "returning"

\* Within a round, only the job being decided is marked returning; the
\* reconcile step still has to handle every other mark it found.
MarksAreHandled ==
  \A j \in Jobs : bot[j].handover = "returning" =>
    \/ step = "idle"
    \/ step = "reconcile" /\ \E m \in page : m.job = j
    \/ step \in Deciding /\ j = JobOf[current]

\* Home's answer to the reconcile step cannot go stale towards the bot: a job
\* home does not own comes to it only by a return.
LabelsHold ==
  step = "reconcile" =>
    \A m \in page : m.says # "home" => home[m.job].owner # "home"

\* Jobs home committed are no longer home's when the bot flips them.
CommittedAreGiven ==
  step = "taken" => \A j \in stored : home[j].owner # "home"

\* While the bot may still keep the job it is deciding, home does not own it.
DecidedNotHome ==
  /\ step \in {"marked", "checked"} =>
       /\ bot[JobOf[current]].owner = "bot"
       /\ bot[JobOf[current]].handover = "returning"
       /\ home[JobOf[current]].owner # "home"
  /\ step = "refusing" =>
       \/ bot[JobOf[current]].owner = "absent"
       \/ home[JobOf[current]].owner # "home"

\* An abandoned return still finds its job marked: only a round clears marks,
\* and no abandoned request outlives the start of one.
LateReturnsAreMarked ==
  /\ step # "idle" => late = {}
  /\ \A m \in late : m.kind = "return" =>
       (bot[m.job].owner = "bot" => bot[m.job].handover = "returning")

AbsentNotMarked ==
  \A j \in Jobs : bot[j].owner = "absent" => bot[j].handover # "returning"

IInv ==
  /\ BothOwnOnlyWhileReturning
  /\ MarksAreHandled
  /\ LabelsHold
  /\ CommittedAreGiven
  /\ DecidedNotHome
  /\ LateReturnsAreMarked
  /\ AbsentNotMarked

-----------------------------------------------------------------------------
(* Type correctness, proved *)

USE DEF Copies, Works, Open

LEMMA AbsentIsRow == Absent \in Row /\ \A copy \in Copies : New(copy) \in Row
  BY DEF Absent, New, Row

LEMMA GivenIsRow ==
  ASSUME NEW row \in Row, NEW owner \in Copies
  PROVE  Given(row, owner) \in Row
  BY DEF Given, Row

LEMMA CopiedIsRow ==
  ASSUME NEW row \in Row, NEW m \in Item \cup Request, NEW owner \in Copies
  PROVE  Copied(row, m, owner) \in Row
  BY DEF Copied, Row, Item, Request

LEMMA BundleIsItem ==
  ASSUME NEW j \in Jobs, NEW row \in Row, NEW says \in Says
  PROVE  Bundle(says, j, row) \in Item /\ Bare(says, j) \in Item
  BY DEF Bundle, Bare, Item, Row

LEMMA LateIsRequest ==
  ASSUME NEW m \in Item, NEW kind \in Requests
  PROVE  Late(kind, m) \in Request
  BY DEF Late, Request, Item

LEMMA InitTypeInv == Init => TypeInv
<1> SUFFICES ASSUME Init PROVE TypeInv
  OBVIOUS
<1>1. home \in [Jobs -> Row] /\ bot \in [Jobs -> Row]
  BY AbsentIsRow DEF Init
<1>2. TypeOK
  BY <1>1 DEF Init, TypeOK, Steps
<1>3. RoundOK
  BY DEF Init, RoundOK, Deciding
<1> QED
  BY <1>2, <1>3 DEF TypeInv

LEMMA WroteIsRow ==
  ASSUME NEW row \in Row, NEW work \in Works
  PROVE  Wrote(row, work) \in Row
<1>1. row.version + 1 \in Nat
  BY DEF Row
<1> QED
  BY <1>1 DEF Wrote, Row

LEMMA LandsType ==
  ASSUME TypeOK, NEW copy \in Copies, NEW j \in Jobs, NEW work \in Works,
         Lands(copy, j, work)
  PROVE  /\ home' \in [Jobs -> Row] /\ bot' \in [Jobs -> Row]
         /\ edits' \in [Jobs -> Nat]
  BY WroteIsRow DEF TypeOK, Lands

\* What people and agents do keeps the types.
LEMMA LocalTypeInv ==
  ASSUME TypeInv, LocalStep
  PROVE  TypeInv'
<1> USE DEF TypeInv, TypeOK, RoundOK, round
<1>1. CASE \E copy \in Copies, j \in Jobs : Write(copy, j)
  <2>1. PICK copy \in Copies, j \in Jobs : Write(copy, j)
    BY <1>1
  <2>2. PICK work \in Works : Lands(copy, j, work)
    BY <2>1 DEF Write, WorkAfter
  <2> QED
    BY <2>1, <2>2, LandsType DEF Write
<1>2. CASE \E copy \in Copies, j \in Jobs : PassGuard(copy, j)
  BY <1>2 DEF PassGuard, WorkAfter
<1>3. CASE FlushPassed
  <2>1. PICK w \in passed :
          IF RowOf(w.copy, w.job).owner = "absent"
            THEN UNCHANGED <<home, bot, edits>>
            ELSE Lands(w.copy, w.job, w.work)
    BY <1>3 DEF FlushPassed
  <2>2. w.copy \in Copies /\ w.job \in Jobs /\ w.work \in Works
    OBVIOUS
  <2>3. home' \in [Jobs -> Row] /\ bot' \in [Jobs -> Row] /\ edits' \in [Jobs -> Nat]
    BY <2>1, <2>2, LandsType
  <2> QED
    BY <1>3, <2>3 DEF FlushPassed
<1>4. ASSUME NEW j \in Jobs, DeleteAtHome(j) \/ DeleteAtBot(j)
      PROVE  TypeInv'
  BY <1>4, AbsentIsRow DEF DeleteAtHome, DeleteAtBot
<1>5. ASSUME NEW j \in Jobs, QueueForBot(j)
      PROVE  TypeInv'
  <2>1. [owner |-> "home", handover |-> "offered", version |-> home[j].version + 1,
         work |-> "worked"] \in Row
    BY DEF Row
  <2> QED
    BY <1>5, <2>1 DEF QueueForBot
<1>9. ASSUME NEW j \in Jobs, PeekSwitch(j) \/ QueueFails(j)
      PROVE  TypeInv'
  BY <1>9 DEF PeekSwitch, QueueFails
<1>6. ASSUME NEW j \in Jobs, KeepHere(j)
      PROVE  TypeInv'
  <2>1. [home[j] EXCEPT !.handover = "none"] \in Row
    BY DEF Row
  <2> QED
    BY <1>6, <2>1 DEF KeepHere
<1>7. ASSUME NEW value \in BOOLEAN, SetFullAutomation(value)
      PROVE  TypeInv'
  <2>1. \A j \in Jobs : Withdrawn(home[j]) \in Row
    BY DEF Withdrawn, Row
  <2> QED
    BY <1>7, <2>1 DEF SetFullAutomation
<1>8. ASSUME NEW a \in Asks, WorkHere(a)
      PROVE  TypeInv'
  BY <1>8 DEF WorkHere
<1> QED
  BY <1>1, <1>2, <1>3, <1>4, <1>5, <1>6, <1>7, <1>8, <1>9 DEF LocalStep

\* So does each step of the round.
LEMMA ReconciledIsRow ==
  ASSUME NEW row \in Row, NEW says \in Says
  PROVE  ReconciledRow(row, says) \in Row
  BY GivenIsRow, AbsentIsRow DEF ReconciledRow

LEMMA HomeStoresType ==
  ASSUME TypeOK, NEW m \in Item \cup Request, HomeStores(m)
  PROVE  home' \in [Jobs -> Row]
<1>1. m.job \in Jobs
  BY DEF Item, Request
<1>2. \A row \in Row : Copied(row, m, "bot") \in Row
  BY CopiedIsRow
<1> QED
  BY <1>1, <1>2 DEF TypeOK, HomeStores

LEMMA HomeTakesBackType ==
  ASSUME TypeOK, NEW m \in Item \cup Request, HomeTakesBack(m)
  PROVE  home' \in [Jobs -> Row]
<1>1. m.job \in Jobs
  BY DEF Item, Request
<1>2. \A row \in Row : Given(Copied(row, m, "home"), "home") \in Row
  BY CopiedIsRow, GivenIsRow
<1> QED
  BY <1>1, <1>2 DEF TypeOK, HomeTakesBack

LEMMA HomeCommitsType ==
  ASSUME TypeOK, NEW js, HomeCommits(js)
  PROVE  home' \in [Jobs -> Row]
  BY GivenIsRow DEF TypeOK, HomeCommits

LEMMA SettledType ==
  ASSUME TypeOK, NEW j
  PROVE  SettledTakeOvers(j) \in [Asks -> {"unused", "pending", "sent", "applied", "refused"}]
  BY DEF TypeOK, SettledTakeOvers

LEMMA AnsweredType ==
  ASSUME TypeInv
  PROVE  Answered(results) \in [Asks -> {"unused", "pending", "sent", "applied", "refused"}]
  BY DEF TypeInv, TypeOK, RoundOK, Answered

LEMMA PushPullTypeInv ==
  ASSUME TypeInv,
         \/ StartRound \/ ReconcileOne \/ ListPush \/ PushTombstone \/ PushOne
         \/ DropIfIdle \/ ListPull \/ PullOne
  PROVE  TypeInv'
<1> USE DEF TypeInv, TypeOK, RoundOK, local, Deciding, Steps
<1> {"home", "remote", "gone", "send", "tombstone", "store", "offer"} \subseteq Says
  BY DEF Says
<1>1. CASE StartRound
  <2>1. page' \subseteq Item
    BY <1>1 DEF StartRound, Bare, Item
  <2> QED
    BY <1>1, <2>1 DEF StartRound
<1>2. CASE ReconcileOne
  <2>1. PICK m \in page :
          /\ bot' = [bot EXCEPT ![m.job] = ReconciledRow(@, m.says)]
          /\ page' = page \ {m}
    BY <1>2 DEF ReconcileOne
  <2>2. m.job \in Jobs /\ m.says \in Says
    BY DEF Item
  <2>3. bot' \in [Jobs -> Row]
    BY <2>1, <2>2, ReconciledIsRow
  <2> QED
    BY <1>2, <2>1, <2>3 DEF ReconcileOne
<1>3. CASE ListPush
  <2>1. page' \subseteq Item
    BY <1>3, BundleIsItem DEF ListPush
  <2> QED
    BY <1>3, <2>1 DEF ListPush
<1>4. CASE PushTombstone
  BY <1>4, AbsentIsRow DEF PushTombstone
<1>5. CASE PushOne
  <2>1. PICK m \in page :
          /\ HomeStores(m)
          /\ page' = (page \ {m}) \cup IF DeletedHere(m.job) THEN {Bare("gone", m.job)} ELSE {}
    BY <1>5 DEF PushOne
  <2>2. m \in Item /\ m.job \in Jobs
    BY DEF Item
  <2>3. home' \in [Jobs -> Row]
    BY <2>1, <2>2, HomeStoresType
  <2>4. page' \subseteq Item
    BY <2>1, <2>2 DEF Bare, Item
  <2> QED
    BY <1>5, <2>3, <2>4 DEF PushOne
<1>6. CASE DropIfIdle
  BY <1>6, AbsentIsRow DEF DropIfIdle
<1>7. CASE ListPull
  <2>1. page' \subseteq Item
    BY <1>7, BundleIsItem DEF ListPull
  <2> QED
    BY <1>7, <2>1 DEF ListPull
<1>8. CASE PullOne
  <2>1. PICK m \in page :
          /\ bot' = IF m.says = "store" THEN [bot EXCEPT ![m.job] = Copied(@, m, "home")]
                    ELSE IF bot[m.job].owner = "home" THEN [bot EXCEPT ![m.job] = Absent]
                    ELSE bot
          /\ page' = page \ {m}
    BY <1>8 DEF PullOne
  <2>2. m \in Item /\ m.job \in Jobs
    BY DEF Item
  <2>3. bot' \in [Jobs -> Row]
    BY <2>1, <2>2, CopiedIsRow, AbsentIsRow
  <2> QED
    BY <1>8, <2>1, <2>3 DEF PullOne
<1> QED
  BY <1>1, <1>2, <1>3, <1>4, <1>5, <1>6, <1>7, <1>8

LEMMA OffersTypeInv ==
  ASSUME TypeInv,
         \/ FetchRequests \/ PostAnswers \/ GetOffers \/ StoreOffer \/ SkipOffer
         \/ ReadCommit \/ PostCommit \/ TakeCommitted
  PROVE  TypeInv'
<1> USE DEF TypeInv, TypeOK, RoundOK, local, Deciding, Steps
<1>1. CASE FetchRequests
  BY <1>1 DEF FetchRequests, Served, HasRecord
<1>2. CASE PostAnswers
  BY <1>2, AnsweredType DEF PostAnswers
<1>3. CASE GetOffers
  <2>1. page' \subseteq Item
    BY <1>3, BundleIsItem DEF GetOffers, Committable, Says
  <2> QED
    BY <1>3, <2>1 DEF GetOffers
<1>4. CASE StoreOffer
  <2>1. PICK m \in page :
          /\ bot' = [bot EXCEPT ![m.job] = Copied(@, m, "home")]
          /\ stored' = stored \cup {m.job}
          /\ page' = page \ {m}
    BY <1>4 DEF StoreOffer
  <2>2. m \in Item /\ m.job \in Jobs
    BY DEF Item
  <2>3. bot' \in [Jobs -> Row]
    BY <2>1, <2>2, CopiedIsRow
  <2> QED
    BY <1>4, <2>1, <2>2, <2>3 DEF StoreOffer
<1>5. CASE SkipOffer
  BY <1>5 DEF SkipOffer
<1>6. CASE PostCommit
  <2>1. home' \in [Jobs -> Row]
    BY <1>6, HomeCommitsType DEF PostCommit
  <2>2. stored' \subseteq Jobs
    BY <1>6 DEF PostCommit, Taken, Committable
  <2> QED
    BY <1>6, <2>1, <2>2 DEF PostCommit
<1>8. CASE ReadCommit
  <2>1. stored' \subseteq Jobs
    BY <1>8 DEF ReadCommit, Committable
  <2> QED
    BY <1>8, <2>1 DEF ReadCommit
<1>7. CASE TakeCommitted
  <2>1. bot' \in [Jobs -> Row]
    BY <1>7, GivenIsRow DEF TakeCommitted
  <2> QED
    BY <1>7, <2>1 DEF TakeCommitted
<1> QED
  BY <1>1, <1>2, <1>3, <1>4, <1>5, <1>6, <1>7, <1>8

LEMMA ReturnsTypeInv ==
  ASSUME TypeInv,
         \/ \E a \in Asks : DecideReturn(a)
         \/ CheckApplying \/ HandBack \/ HandBackRefused \/ SettleReturn
         \/ FinishReturn \/ PostResults
  PROVE  TypeInv'
<1> USE DEF TypeInv, TypeOK, RoundOK, local, Deciding, Steps
<1> DEFINE j == JobOf[current]
<1>0. step \in Deciding => current \in Asks /\ j \in Jobs
  BY JobOfAssumption
<1>m. \A row \in Row, handover \in {"none", "returning"} :
        [row EXCEPT !.handover = handover] \in Row
  BY DEF Row
<1>1. ASSUME NEW a \in Asks, DecideReturn(a)
      PROVE  TypeInv'
  <2>1. JobOf[a] \in Jobs
    BY JobOfAssumption
  <2>2. bot' \in [Jobs -> Row]
    BY <1>1, <2>1, <1>m DEF DecideReturn
  <2>3. step' \in {"refusing", "handed", "marked"}
    BY <1>1, <2>1 DEF DecideReturn, Row
  <2> QED
    BY <1>1, <2>2, <2>3 DEF DecideReturn
<1>2. CASE CheckApplying
  <2>1. bot' \in [Jobs -> Row]
    <3>1. bot[j] \in Row /\ [bot[j] EXCEPT !.handover = "none"] \in Row
      BY <1>2, <1>0, <1>m DEF CheckApplying
    <3>2. bot' = bot \/ bot' = [bot EXCEPT ![j].handover = "none"]
      BY <1>2 DEF CheckApplying
    <3> QED
      BY <3>1, <3>2
  <2>2. step' \in {"refusing", "checked"}
    BY <1>2 DEF CheckApplying
  <2> QED
    BY <1>2, <1>0, <2>1, <2>2 DEF CheckApplying
<1>3. CASE HandBack
  <2>1. Bundle("send", j, bot[j]) \in Item
    BY <1>3, <1>0, BundleIsItem DEF HandBack, Says
  <2>2. home' \in [Jobs -> Row]
    BY <1>3, <2>1, HomeTakesBackType DEF HandBack
  <2> QED
    BY <1>3, <1>0, <2>2 DEF HandBack
<1>4. CASE HandBackRefused
  BY <1>4, <1>0 DEF HandBackRefused
<1>5. CASE SettleReturn
  BY <1>5, <1>0, SettledType DEF SettleReturn
<1>6. CASE FinishReturn
  <2>1. current \in Asks /\ j \in Jobs
    BY <1>6, <1>0 DEF FinishReturn
  <2>2. bot' \in [Jobs -> Row]
    <3>1. bot[j] \in Row /\ Given(bot[j], "home") \in Row
          /\ [bot[j] EXCEPT !.handover = "none"] \in Row
      BY <2>1, <1>m, GivenIsRow
    <3>2. \/ bot' = bot
          \/ bot' = [bot EXCEPT ![j] = Given(@, "home")]
          \/ bot' = [bot EXCEPT ![j].handover = "none"]
      BY <1>6 DEF FinishReturn
    <3> QED
      BY <2>1, <3>1, <3>2
  <2>3. decided' \in [Asks -> {"none", "applied", "refused"}] /\ decided'[current] # "none"
    BY <1>6, <2>1 DEF FinishReturn
  <2>4. \A a \in results' : decided'[a] # "none"
    BY <1>6, <2>1, <2>3 DEF FinishReturn
  <2> QED
    BY <1>6, <2>1, <2>2, <2>3, <2>4 DEF FinishReturn
<1>7. CASE PostResults
  BY <1>7, AnsweredType DEF PostResults
<1> QED
  BY <1>1, <1>2, <1>3, <1>4, <1>5, <1>6, <1>7

\* And so do failures.
LEMMA OutstandingType ==
  ASSUME TypeInv
  PROVE  Outstanding \subseteq Request /\ Unsettled \subseteq Request
<1> USE DEF TypeInv, TypeOK, RoundOK, Deciding
<1>1. {"send", "commit", "return", "settle"} \subseteq Requests
  BY DEF Requests
<1>2. Outstanding \subseteq Request
  <2>1. CASE step = "push"
    BY <1>1, <2>1, LateIsRequest DEF Outstanding
  <2>2. CASE (step = "storing" /\ page = {}) \/ step = "committing"
    <3>1. \A i \in stored : Bare("offer", i) \in Item
      BY DEF Bare, Item, Says
    <3> QED
      BY <1>1, <2>2, <3>1, LateIsRequest DEF Outstanding
  <2>3. CASE step = "checked"
    <3>1. Bundle("send", JobOf[current], bot[JobOf[current]]) \in Item
      BY <2>3, JobOfAssumption, BundleIsItem DEF Says
    <3> QED
      BY <1>1, <2>3, <3>1, LateIsRequest DEF Outstanding
  <2>4. CASE step \notin {"push", "checked", "committing"} /\ ~(step = "storing" /\ page = {})
    BY <2>4 DEF Outstanding
  <2> QED
    BY <2>1, <2>2, <2>3, <2>4
<1>3. Unsettled \subseteq Request
  <2>1. CASE step = "landed"
    <3>1. Bare("home", JobOf[current]) \in Item
      BY <2>1, JobOfAssumption DEF Bare, Item, Says
    <3> QED
      BY <1>1, <2>1, <3>1, LateIsRequest DEF Unsettled
  <2>2. CASE step # "landed"
    BY <2>2 DEF Unsettled
  <2> QED
    BY <2>1, <2>2
<1> QED
  BY <1>2, <1>3

LEMMA FailureTypeInv ==
  ASSUME TypeInv, Failure
  PROVE  TypeInv'
<1> USE DEF TypeInv, TypeOK, RoundOK, local, round, Deciding, Steps
<1>1. CASE GiveUp
  <2>1. late' \subseteq Request
    BY <1>1, OutstandingType DEF GiveUp
  <2> QED
    BY <1>1, <2>1 DEF GiveUp
<1>2. ASSUME NEW m \in late, Land(m)
      PROVE  TypeInv'
  <2>1. m \in Request
    OBVIOUS
  <2>2. home' \in [Jobs -> Row]
    BY <1>2, <2>1, HomeStoresType, HomeCommitsType, HomeTakesBackType
       DEF Land, LandSend, LandCommit, LandReturn, LandSettle
  <2>3. asks' \in [Asks -> {"unused", "pending", "sent", "applied", "refused"}]
    BY <1>2, SettledType DEF Land, LandSend, LandCommit, LandReturn, LandSettle
  <2> QED
    BY <1>2, <2>2, <2>3 DEF Land
<1> QED
  BY <1>1, <1>2 DEF Failure

LEMMA NextTypeInv == TypeInv /\ [Next]_vars => TypeInv'
<1> SUFFICES ASSUME TypeInv, [Next]_vars PROVE TypeInv'
  OBVIOUS
<1>1. CASE LocalStep
  BY <1>1, LocalTypeInv
<1>2. CASE RoundStep
  BY <1>2, PushPullTypeInv, OffersTypeInv, ReturnsTypeInv DEF RoundStep
<1>3. CASE Failure
  BY <1>3, FailureTypeInv
<1>4. CASE UNCHANGED vars
  BY <1>4 DEF vars, TypeInv, TypeOK, RoundOK
<1> QED
  BY <1>1, <1>2, <1>3, <1>4 DEF Next

\* Every variable keeps its type, and the round's variables name only jobs and
\* take-overs of the model, whatever is lost, abandoned or interleaved.
THEOREM TypeCorrect == Spec => []TypeOK
<1>1. Spec => []TypeInv
  BY InitTypeInv, NextTypeInv, PTL DEF Spec
<1>2. TypeInv => TypeOK
  BY DEF TypeInv
<1> QED
  BY <1>1, <1>2, PTL

-----------------------------------------------------------------------------
(* One writer, proved *)

LEMMA InitIInv == Init => IInv
<1> SUFFICES ASSUME Init PROVE IInv
  OBVIOUS
<1>1. PICK born \in [Jobs -> Copies] :
        /\ home = [j \in Jobs |-> IF born[j] = "home" THEN New("home") ELSE Absent]
        /\ bot = [j \in Jobs |-> IF born[j] = "bot" THEN New("bot") ELSE Absent]
  BY DEF Init
<1>2. BothOwnOnlyWhileReturning
  BY <1>1 DEF BothOwnOnlyWhileReturning, New, Absent
<1>3. AbsentNotMarked
  BY <1>1 DEF AbsentNotMarked, New, Absent
<1> QED
  BY <1>2, <1>3 DEF Init, IInv, MarksAreHandled, LabelsHold, CommittedAreGiven,
     DecidedNotHome, LateReturnsAreMarked

\* What people and agents do moves no job: home gains none, and the bot's rows
\* keep owner and mark, except for a job it may delete.
LEMMA LocalFrame ==
  ASSUME TypeInv, LocalStep
  PROVE  /\ \A j \in Jobs : home'[j].owner = "home" => home[j].owner = "home"
         /\ \A j \in Jobs :
              \/ bot'[j].owner = bot[j].owner /\ bot'[j].handover = bot[j].handover
              \/ BotMayWrite(j) /\ bot'[j] = Absent
         /\ UNCHANGED <<late, round>>
<1> USE DEF TypeInv, TypeOK, Row
<1> DEFINE Goal ==
      /\ \A j \in Jobs : home'[j].owner = "home" => home[j].owner = "home"
      /\ \A j \in Jobs :
           \/ bot'[j].owner = bot[j].owner /\ bot'[j].handover = bot[j].handover
           \/ BotMayWrite(j) /\ bot'[j] = Absent
      /\ UNCHANGED <<late, round>>
<1>1. ASSUME NEW copy \in Copies, NEW i \in Jobs, NEW work, Lands(copy, i, work)
      PROVE  /\ \A j \in Jobs : home'[j].owner = home[j].owner
             /\ \A j \in Jobs : bot'[j].owner = bot[j].owner /\ bot'[j].handover = bot[j].handover
  <2>0. \A row \in Row : /\ Wrote(row, work).owner = row.owner
                         /\ Wrote(row, work).handover = row.handover
    BY DEF Wrote
  <2>1. CASE copy = "home"
    <3>1. home' = [home EXCEPT ![i] = Wrote(home[i], work)] /\ bot' = bot
      BY <1>1, <2>1 DEF Lands
    <3> HIDE DEF Row
    <3> QED
      BY <2>0, <3>1
  <2>2. CASE copy = "bot"
    <3>1. bot' = [bot EXCEPT ![i] = Wrote(bot[i], work)] /\ home' = home
      BY <1>1, <2>2 DEF Lands
    <3> HIDE DEF Row
    <3> QED
      BY <2>0, <3>1
  <2> QED
    BY <2>1, <2>2
<1>2. ASSUME NEW copy \in Copies, NEW i \in Jobs, Write(copy, i)
      PROVE  Goal
  BY <1>1, <1>2 DEF Write
<1>3. ASSUME NEW copy \in Copies, NEW i \in Jobs, PassGuard(copy, i)
      PROVE  Goal
  BY <1>3 DEF PassGuard
<1>4. CASE FlushPassed
  <2>1. PICK w \in passed :
          IF RowOf(w.copy, w.job).owner = "absent"
            THEN UNCHANGED <<home, bot, edits>>
            ELSE Lands(w.copy, w.job, w.work)
    BY <1>4 DEF FlushPassed
  <2>2. w.copy \in Copies /\ w.job \in Jobs
    OBVIOUS
  <2> QED
    BY <1>1, <1>4, <2>1, <2>2 DEF FlushPassed
<1>5. ASSUME NEW i \in Jobs, DeleteAtHome(i)
      PROVE  Goal
  BY <1>5 DEF DeleteAtHome, Absent
<1>6. ASSUME NEW i \in Jobs, DeleteAtBot(i)
      PROVE  Goal
  BY <1>6 DEF DeleteAtBot
<1>7. ASSUME NEW i \in Jobs, QueueForBot(i)
      PROVE  Goal
  BY <1>7 DEF QueueForBot, Offerable
<1>11. ASSUME NEW i \in Jobs, PeekSwitch(i) \/ QueueFails(i)
       PROVE  Goal
  BY <1>11 DEF PeekSwitch, QueueFails
<1>8. ASSUME NEW i \in Jobs, KeepHere(i)
      PROVE  Goal
  BY <1>8 DEF KeepHere
<1>9. ASSUME NEW value \in BOOLEAN, SetFullAutomation(value)
      PROVE  Goal
  <2>1. \A j \in Jobs : home'[j].owner = home[j].owner
    BY <1>9 DEF SetFullAutomation, Withdrawn
  <2> QED
    BY <1>9, <2>1 DEF SetFullAutomation
<1>10. ASSUME NEW a \in Asks, WorkHere(a)
       PROVE  Goal
  BY <1>10 DEF WorkHere
<1> QED
  BY <1>2, <1>3, <1>4, <1>5, <1>6, <1>7, <1>8, <1>9, <1>10, <1>11 DEF LocalStep

LEMMA LocalIInv ==
  ASSUME TypeInv, IInv, LocalStep
  PROVE  IInv'
<1> USE LocalFrame DEF IInv, round
<1>1. AbsentNotMarked'
  BY DEF AbsentNotMarked, Absent
<1>2. BothOwnOnlyWhileReturning'
  BY DEF BothOwnOnlyWhileReturning, Absent
<1>3. MarksAreHandled'
  BY DEF MarksAreHandled, Absent
<1>4. LabelsHold'
  BY DEF LabelsHold, TypeInv, TypeOK, Item
<1>5. CommittedAreGiven'
  BY DEF CommittedAreGiven, TypeInv, TypeOK
<1>6. DecidedNotHome'
  <2>1. step \in Deciding => JobOf[current] \in Jobs
    BY JobOfAssumption DEF TypeInv, RoundOK
  <2> QED
    BY <2>1 DEF DecidedNotHome, Deciding, BotMayWrite, Absent
<1>7. LateReturnsAreMarked'
  BY DEF LateReturnsAreMarked, TypeInv, TypeOK, Request, Absent
<1> QED
  BY <1>1, <1>2, <1>3, <1>4, <1>5, <1>6, <1>7

LEMMA GivenFields ==
  ASSUME NEW row \in Row, NEW owner
  PROVE  Given(row, owner).owner = owner /\ Given(row, owner).handover = "none"
  BY DEF Given, Row

LEMMA CopiedFields ==
  ASSUME NEW row, NEW m, NEW owner
  PROVE  /\ Copied(row, m, owner).owner = owner
         /\ Copied(row, m, owner).handover = row.handover
  BY DEF Copied

LEMMA ReconciledFields ==
  ASSUME NEW row \in Row, NEW says,
         row.owner = "absent" => row.handover # "returning"
  PROVE  LET r == ReconciledRow(row, says) IN
           /\ r.handover # "returning"
           /\ r.owner = "bot" => \/ says # "home"
                                 \/ row.owner = "bot" /\ row.handover # "returning"
<1>1. /\ Given(row, "home").owner = "home" /\ Given(row, "home").handover = "none"
      /\ Given(row, "bot").owner = "bot" /\ Given(row, "bot").handover = "none"
  BY GivenFields
<1>2. CASE row.owner = "absent"
  BY <1>2 DEF ReconciledRow
<1>3. CASE row.owner # "absent" /\ says = "remote"
  BY <1>1, <1>3 DEF ReconciledRow
<1>4. CASE row.owner # "absent" /\ says = "home"
  BY <1>1, <1>4 DEF ReconciledRow
<1>5. CASE row.owner # "absent" /\ says \notin {"home", "remote"}
  BY <1>1, <1>5 DEF ReconciledRow, Absent
<1> QED
  BY <1>2, <1>3, <1>4, <1>5

\* A step that starts or continues the reconcile.
LEMMA ReconcileIInv ==
  ASSUME NoOverlap, TypeInv, IInv, StartRound \/ ReconcileOne
  PROVE  IInv'
<1> USE DEF IInv
<1>1. CASE StartRound
  <2>1. UNCHANGED <<home, bot>> /\ step' = "reconcile" /\ late' = {}
    BY <1>1 DEF StartRound, NoOverlap, local
  <2>2. \A j \in Jobs : bot[j].handover = "returning" => \E m \in page' : m.job = j
    <3> DEFINE Label(j) == IF home[j].owner = "absent" THEN "gone"
                           ELSE IF home[j].owner = "home" THEN "home" ELSE "remote"
    <3>1. \A j \in Jobs : bot[j].handover = "returning" => Bare(Label(j), j) \in page'
      BY <1>1 DEF StartRound
    <3>2. \A j \in Jobs : Bare(Label(j), j).job = j
      BY DEF Bare
    <3> QED
      BY <3>1, <3>2
  <2>3. \A m \in page' : m.says # "home" => home[m.job].owner # "home"
    BY <1>1 DEF StartRound, Bare
  <2> QED
    BY <2>1, <2>2, <2>3 DEF BothOwnOnlyWhileReturning, MarksAreHandled, LabelsHold,
       CommittedAreGiven, DecidedNotHome, LateReturnsAreMarked, AbsentNotMarked
<1>2. CASE ReconcileOne
  <2>1. PICK m \in page :
          /\ bot' = [bot EXCEPT ![m.job] = ReconciledRow(@, m.says)]
          /\ page' = page \ {m}
    BY <1>2 DEF ReconcileOne
  <2>2. step = "reconcile" /\ UNCHANGED <<home, late, step, stored, current>>
    BY <1>2 DEF ReconcileOne
  <2>3. m.job \in Jobs /\ bot[m.job] \in Row /\ bot \in [Jobs -> Row]
    BY DEF TypeInv, TypeOK, Item
  <2>4. bot'[m.job] = ReconciledRow(bot[m.job], m.says)
    BY <2>1, <2>3
  <2>5. \A j \in Jobs : j # m.job => bot'[j] = bot[j]
    BY <2>1, <2>3
  <2>6. /\ bot'[m.job].handover # "returning"
        /\ bot'[m.job].owner = "bot" => home[m.job].owner # "home"
    BY <2>2, <2>3, <2>4, ReconciledFields DEF AbsentNotMarked, LabelsHold, BothOwnOnlyWhileReturning
  <2>7. BothOwnOnlyWhileReturning'
    BY <2>2, <2>5, <2>6 DEF BothOwnOnlyWhileReturning
  <2>8. MarksAreHandled'
    BY <2>1, <2>2, <2>5, <2>6 DEF MarksAreHandled, Deciding
  <2>9. LabelsHold'
    BY <2>1, <2>2 DEF LabelsHold
  <2>10. AbsentNotMarked'
    BY <2>5, <2>6 DEF AbsentNotMarked
  <2> QED
    BY <2>2, <2>7, <2>8, <2>9, <2>10
       DEF CommittedAreGiven, DecidedNotHome, LateReturnsAreMarked
<1> QED
  BY <1>1, <1>2

\* Outside the steps that decide a take-over, a round finds no marked job: what
\* it stores, drops or takes is unmarked before and after.
LEMMA UnmarkedIInv ==
  ASSUME TypeInv, IInv,
         step \notin {"idle", "reconcile"} \cup Deciding \/ (step = "reconcile" /\ page = {}),
         step' \notin {"idle", "reconcile"} \cup Deciding,
         step' = "taken" => \A j \in stored' : home'[j].owner # "home",
         UNCHANGED late,
         \A j \in Jobs : home'[j].owner = "home" => home[j].owner = "home",
         \A j \in Jobs : \/ bot'[j].owner = "bot" => bot[j].owner = "bot"
                         \/ home[j].owner # "home",
         \A j \in Jobs : bot'[j].handover = "returning" => bot[j].handover = "returning"
  PROVE  IInv'
<1>0. \A j \in Jobs : bot[j].handover # "returning"
  BY DEF IInv, MarksAreHandled, Deciding
<1>1. \A j \in Jobs : bot'[j].handover # "returning"
  BY <1>0
<1>2. BothOwnOnlyWhileReturning'
  BY <1>0 DEF IInv, BothOwnOnlyWhileReturning
<1>3. LateReturnsAreMarked'
  BY DEF IInv, LateReturnsAreMarked, Deciding
<1> QED
  BY <1>1, <1>2, <1>3 DEF IInv, MarksAreHandled, LabelsHold, CommittedAreGiven,
     DecidedNotHome, AbsentNotMarked, Deciding

LEMMA HomeStoresFrame ==
  ASSUME TypeOK, NEW m \in Item \cup Request, HomeStores(m)
  PROVE  \A j \in Jobs : home'[j].owner = "home" => home[j].owner = "home"
<1>1. m.job \in Jobs
  BY DEF Item, Request
<1>2. Copied(home[m.job], m, "bot").owner = "bot"
  BY CopiedFields
<1> QED
  BY <1>1, <1>2 DEF HomeStores, TypeOK

LEMMA HomeCommitsFrame ==
  ASSUME TypeOK, NEW js, HomeCommits(js)
  PROVE  /\ \A j \in Jobs : home'[j].owner = "home" => home[j].owner = "home"
         /\ \A j \in Jobs : j \in js => home'[j].owner = "bot"
  BY GivenFields DEF HomeCommits, TypeOK

LEMMA PushPullIInv ==
  ASSUME TypeInv, IInv,
         \/ ListPush \/ PushTombstone \/ PushOne \/ DropIfIdle \/ ListPull \/ PullOne
  PROVE  IInv'
<1> USE DEF local, Deciding
<1>t. TypeOK /\ (\A m \in page : m \in Item /\ m.job \in Jobs)
  BY DEF TypeInv, TypeOK, Item
<1>1. CASE ListPush
  BY <1>1, UnmarkedIInv DEF ListPush
<1>2. CASE PushTombstone
  <2>1. \A j \in Jobs : home'[j].owner = "home" => home[j].owner = "home"
    BY <1>2, <1>t DEF PushTombstone, Absent, TypeOK
  <2> QED
    BY <1>2, <2>1, UnmarkedIInv DEF PushTombstone
<1>3. CASE PushOne
  <2>1. \A j \in Jobs : home'[j].owner = "home" => home[j].owner = "home"
    BY <1>3, <1>t, HomeStoresFrame DEF PushOne
  <2> QED
    BY <1>3, <2>1, UnmarkedIInv DEF PushOne
<1>4. CASE DropIfIdle
  <2>1. \A j \in Jobs : bot'[j] = bot[j] \/ bot'[j] = Absent
    BY <1>4, <1>t DEF DropIfIdle, TypeOK
  <2> QED
    BY <1>4, <2>1, UnmarkedIInv DEF DropIfIdle, Absent
<1>5. CASE ListPull
  BY <1>5, UnmarkedIInv DEF ListPull
<1>6. CASE PullOne
  <2>1. PICK m \in page :
          bot' = IF m.says = "store" THEN [bot EXCEPT ![m.job] = Copied(@, m, "home")]
                 ELSE IF bot[m.job].owner = "home" THEN [bot EXCEPT ![m.job] = Absent]
                 ELSE bot
    BY <1>6 DEF PullOne
  <2>2. \A j \in Jobs : \/ bot'[j] = bot[j] \/ bot'[j] = Absent
                        \/ bot'[j] = Copied(bot[j], m, "home")
    BY <1>t, <2>1 DEF TypeOK
  <2>3. \A j \in Jobs : /\ bot'[j].owner = "bot" => bot[j].owner = "bot"
                        /\ bot'[j].handover = "returning" => bot[j].handover = "returning"
    BY <2>2, CopiedFields DEF Absent
  <2> QED
    BY <1>6, <2>3, UnmarkedIInv DEF PullOne
<1> QED
  BY <1>1, <1>2, <1>3, <1>4, <1>5, <1>6

LEMMA OffersIInv ==
  ASSUME TypeInv, IInv,
         \/ FetchRequests \/ PostAnswers \/ GetOffers \/ StoreOffer \/ SkipOffer
         \/ ReadCommit \/ PostCommit \/ TakeCommitted
  PROVE  IInv'
<1> USE DEF local, Deciding
<1>t. TypeOK /\ (\A m \in page : m.job \in Jobs)
  BY DEF TypeInv, TypeOK, Item
<1>1. CASE FetchRequests
  BY <1>1, UnmarkedIInv DEF FetchRequests
<1>2. CASE PostAnswers
  BY <1>2, UnmarkedIInv DEF PostAnswers
<1>3. CASE GetOffers
  BY <1>3, UnmarkedIInv DEF GetOffers
<1>4. CASE StoreOffer
  <2>1. PICK m \in page : bot' = [bot EXCEPT ![m.job] = Copied(@, m, "home")]
    BY <1>4 DEF StoreOffer
  <2>2. \A j \in Jobs : bot'[j] = bot[j] \/ bot'[j] = Copied(bot[j], m, "home")
    BY <1>t, <2>1 DEF TypeOK
  <2>3. \A j \in Jobs : /\ bot'[j].owner = "bot" => bot[j].owner = "bot"
                        /\ bot'[j].handover = "returning" => bot[j].handover = "returning"
    BY <2>2, CopiedFields
  <2> QED
    BY <1>4, <2>3, UnmarkedIInv DEF StoreOffer
<1>5. CASE SkipOffer
  BY <1>5, UnmarkedIInv DEF SkipOffer
<1>8. CASE ReadCommit
  BY <1>8, UnmarkedIInv DEF ReadCommit
<1>6. CASE PostCommit
  <2>1. /\ \A j \in Jobs : home'[j].owner = "home" => home[j].owner = "home"
        /\ \A j \in Jobs : j \in stored' => home'[j].owner = "bot"
    BY <1>6, <1>t, HomeCommitsFrame DEF PostCommit
  <2>2. stored' \subseteq Jobs
    BY <1>6, <1>t DEF PostCommit, Taken, Committable, TypeOK
  <2> QED
    BY <1>6, <2>1, <2>2, UnmarkedIInv DEF PostCommit
<1>7. CASE TakeCommitted
  <2>1. \A j \in Jobs : \/ bot'[j] = bot[j]
                        \/ j \in stored /\ bot'[j] = Given(bot[j], "bot")
    BY <1>7 DEF TakeCommitted
  <2>2. \A j \in stored : home[j].owner # "home"
    BY <1>7 DEF TakeCommitted, IInv, CommittedAreGiven
  <2>3. \A j \in Jobs : Given(bot[j], "bot").handover = "none"
    BY <1>t, GivenFields DEF TypeOK
  <2>4. \A j \in Jobs : \/ bot'[j].owner = "bot" => bot[j].owner = "bot"
                        \/ home[j].owner # "home"
    BY <2>1, <2>2
  <2>5. \A j \in Jobs : bot'[j].handover = "returning" => bot[j].handover = "returning"
    BY <2>1, <2>3
  <2> QED
    BY <1>7, <2>4, <2>5, UnmarkedIInv DEF TakeCommitted
<1> QED
  BY <1>1, <1>2, <1>3, <1>4, <1>5, <1>6, <1>7, <1>8

\* The steps that decide a take-over: only the row of its job changes on the
\* bot, and home gains that job while it is marked.
LEMMA ReturnsIInv ==
  ASSUME TypeInv, IInv,
         \/ \E a \in Asks : DecideReturn(a)
         \/ CheckApplying \/ HandBack \/ HandBackRefused \/ SettleReturn
         \/ FinishReturn \/ PostResults
  PROVE  IInv'
<1> USE DEF local, Deciding
<1> DEFINE j == JobOf[current]
<1>t. /\ home \in [Jobs -> Row] /\ bot \in [Jobs -> Row]
      /\ \A a \in Asks : JobOf[a] \in Jobs
      /\ step \in Deciding => current \in Asks /\ j \in Jobs
  BY JobOfAssumption DEF TypeInv, TypeOK, RoundOK
<1>l. step # "idle" => late = {}
  BY DEF IInv, LateReturnsAreMarked
<1>1. ASSUME NEW a \in Asks, DecideReturn(a)
      PROVE  IInv'
  <2> DEFINE k == JobOf[a]
  <2>1. k \in Jobs /\ UNCHANGED <<home, late>> /\ step = "returns" /\ current' = a
    BY <1>1, <1>t DEF DecideReturn
  <2>2. \A i \in Jobs : bot[i].handover # "returning"
    BY <2>1 DEF IInv, MarksAreHandled
  <2>3. CASE bot[k].owner = "bot"
    <3>1. step' = "marked" /\ bot' = [bot EXCEPT ![k].handover = "returning"]
      BY <1>1, <2>3 DEF DecideReturn
    <3>2. /\ bot'[k].owner = "bot" /\ bot'[k].handover = "returning"
          /\ \A i \in Jobs : i # k => bot'[i] = bot[i]
      BY <1>t, <2>1, <2>3, <3>1 DEF Row
    <3>3. home[k].owner # "home"
      BY <2>1, <2>2, <2>3 DEF IInv, BothOwnOnlyWhileReturning
    <3> QED
      BY <1>l, <2>1, <2>2, <3>1, <3>2, <3>3 DEF IInv, BothOwnOnlyWhileReturning, MarksAreHandled,
         LabelsHold, CommittedAreGiven, DecidedNotHome, LateReturnsAreMarked, AbsentNotMarked
  <2>4. CASE bot[k].owner # "bot"
    <3>1. /\ bot' = bot
          /\ (step' = "refusing" /\ bot[k].owner = "absent") \/ step' = "handed"
      BY <1>1, <1>t, <2>1, <2>4 DEF DecideReturn, Row
    <3> QED
      BY <1>l, <2>1, <2>2, <3>1 DEF IInv, BothOwnOnlyWhileReturning, MarksAreHandled,
         LabelsHold, CommittedAreGiven, DecidedNotHome, LateReturnsAreMarked, AbsentNotMarked
  <2> QED
    BY <2>3, <2>4
<1>2. CASE CheckApplying
  <2>1. /\ j \in Jobs /\ UNCHANGED <<home, late, current>> /\ step = "marked"
        /\ home[j].owner # "home" /\ bot[j].owner = "bot" /\ bot[j].handover = "returning"
    BY <1>2, <1>t DEF CheckApplying, IInv, DecidedNotHome
  <2>2. CASE MidApplication(bot[j])
    <3>1. step' = "refusing" /\ bot' = [bot EXCEPT ![j].handover = "none"]
      BY <1>2, <2>2 DEF CheckApplying
    <3>2. /\ bot'[j].owner = "bot" /\ bot'[j].handover = "none"
          /\ \A i \in Jobs : i # j => bot'[i] = bot[i]
      BY <1>t, <2>1, <3>1 DEF Row
    <3> QED
      BY <1>l, <2>1, <3>1, <3>2 DEF IInv, BothOwnOnlyWhileReturning, MarksAreHandled,
         LabelsHold, CommittedAreGiven, DecidedNotHome, LateReturnsAreMarked, AbsentNotMarked
  <2>3. CASE ~MidApplication(bot[j])
    <3>1. step' = "checked" /\ bot' = bot
      BY <1>2, <2>3 DEF CheckApplying
    <3> QED
      BY <1>l, <2>1, <3>1 DEF IInv, BothOwnOnlyWhileReturning, MarksAreHandled,
         LabelsHold, CommittedAreGiven, DecidedNotHome, LateReturnsAreMarked, AbsentNotMarked
  <2> QED
    BY <2>2, <2>3
<1>3. CASE HandBack
  <2>1. /\ j \in Jobs /\ UNCHANGED <<bot, late, current>> /\ step = "checked" /\ step' = "landed"
        /\ bot[j].owner = "bot" /\ bot[j].handover = "returning"
    BY <1>3, <1>t DEF HandBack, IInv, DecidedNotHome
  <2>2. \A i \in Jobs : i # j => home'[i] = home[i]
    <3>1. Bundle("send", j, bot[j]).job = j
      BY DEF Bundle
    <3> QED
      BY <1>3, <1>t, <3>1 DEF HandBack, HomeTakesBack
  <2> QED
    BY <1>l, <2>1, <2>2 DEF IInv, BothOwnOnlyWhileReturning, MarksAreHandled,
       LabelsHold, CommittedAreGiven, DecidedNotHome, LateReturnsAreMarked, AbsentNotMarked
<1>4. CASE HandBackRefused
  BY <1>4, <1>l DEF HandBackRefused, IInv, BothOwnOnlyWhileReturning, MarksAreHandled,
     LabelsHold, CommittedAreGiven, DecidedNotHome, LateReturnsAreMarked, AbsentNotMarked
<1>5. CASE SettleReturn
  BY <1>5, <1>l DEF SettleReturn, IInv, BothOwnOnlyWhileReturning, MarksAreHandled,
     LabelsHold, CommittedAreGiven, DecidedNotHome, LateReturnsAreMarked, AbsentNotMarked
<1>6. CASE FinishReturn
  <2>1. /\ j \in Jobs /\ UNCHANGED <<home, late>> /\ step' = "returns"
        /\ step \in {"handed", "refusing"}
    BY <1>6, <1>t DEF FinishReturn
  <2>2. \A i \in Jobs : i # j => bot'[i] = bot[i]
    BY <1>6, <1>t, <2>1 DEF FinishReturn
  <2>3. /\ bot'[j].handover # "returning"
        /\ bot'[j].owner = "bot" => home[j].owner # "home"
    <3>1. CASE bot[j].owner = "absent"
      BY <1>6, <2>1, <3>1 DEF FinishReturn, IInv, AbsentNotMarked
    <3>2. CASE bot[j].owner # "absent" /\ step = "handed"
      <4>1. bot' = [bot EXCEPT ![j] = Given(bot[j], "home")]
        BY <1>6, <3>2 DEF FinishReturn
      <4> QED
        BY <1>t, <2>1, <4>1, GivenFields
    <3>3. CASE bot[j].owner # "absent" /\ step = "refusing"
      <4>1. bot' = [bot EXCEPT ![j].handover = "none"]
        BY <1>6, <3>3 DEF FinishReturn
      <4>2. bot'[j].handover = "none"
        BY <1>t, <2>1, <4>1 DEF Row
      <4> QED
        BY <3>3, <4>2 DEF IInv, DecidedNotHome
    <3> QED
      BY <2>1, <3>1, <3>2, <3>3
  <2> QED
    BY <1>l, <2>1, <2>2, <2>3 DEF IInv, BothOwnOnlyWhileReturning, MarksAreHandled,
       LabelsHold, CommittedAreGiven, DecidedNotHome, LateReturnsAreMarked, AbsentNotMarked
<1>7. CASE PostResults
  BY <1>7, <1>l DEF PostResults, IInv, BothOwnOnlyWhileReturning, MarksAreHandled,
     LabelsHold, CommittedAreGiven, DecidedNotHome, LateReturnsAreMarked, AbsentNotMarked
<1> QED
  BY <1>1, <1>2, <1>3, <1>4, <1>5, <1>6, <1>7

\* A round that stops leaves at most a marked job and a return on its way to
\* home; what lands between rounds keeps the one writer.
LEMMA FailureIInv ==
  ASSUME TypeInv, IInv, Failure
  PROVE  IInv'
<1>1. CASE GiveUp
  <2>1. UNCHANGED <<home, bot>> /\ step' = "idle"
    BY <1>1 DEF GiveUp, local
  <2>2. late = {}
    BY <1>1 DEF GiveUp, IInv, LateReturnsAreMarked
  <2>3. \A m \in Outstanding \cup Unsettled : m.kind = "return" =>
          step = "checked" /\ m.job = JobOf[current]
    <3>1. \A kind, i : Late(kind, i).kind = kind /\ Late(kind, i).job = i.job
      BY DEF Late
    <3>2. Bundle("send", JobOf[current], bot[JobOf[current]]).job = JobOf[current]
      BY DEF Bundle
    <3>3. \A m \in Unsettled : m.kind # "return"
      BY <3>1 DEF Unsettled
    <3>4. CASE step = "push"
      BY <3>1, <3>3, <3>4 DEF Outstanding
    <3>5. CASE (step = "storing" /\ page = {}) \/ step = "committing"
      BY <3>1, <3>3, <3>5 DEF Outstanding
    <3>6. CASE step = "checked"
      BY <3>1, <3>2, <3>3, <3>6 DEF Outstanding
    <3>7. CASE step \notin {"push", "checked", "committing"} /\ ~(step = "storing" /\ page = {})
      BY <3>3, <3>7 DEF Outstanding
    <3> QED
      BY <3>4, <3>5, <3>6, <3>7
  <2>4. \A m \in late' : m.kind = "return" => bot[m.job].handover = "returning"
    BY <1>1, <2>2, <2>3 DEF GiveUp, IInv, DecidedNotHome
  <2> QED
    BY <2>1, <2>4 DEF IInv, BothOwnOnlyWhileReturning, MarksAreHandled,
       LabelsHold, CommittedAreGiven, DecidedNotHome, LateReturnsAreMarked, AbsentNotMarked
<1>2. ASSUME NEW m \in late, Land(m)
      PROVE  IInv'
  <2>1. step = "idle"
    BY DEF IInv, LateReturnsAreMarked
  <2>2. UNCHANGED <<bot, step>> /\ late' \subseteq late
    BY <1>2 DEF Land, round
  <2>3. TypeOK /\ m \in Request /\ m.job \in Jobs
    BY DEF TypeInv, TypeOK, Request
  <2>4. \A j \in Jobs : home'[j].owner = "home" =>
          \/ home[j].owner = "home"
          \/ m.kind = "return" /\ j = m.job
    <3>1. CASE LandSend(m)
      BY <2>3, <3>1, HomeStoresFrame DEF LandSend
    <3>2. CASE LandCommit(m)
      BY <2>3, <3>2, HomeCommitsFrame DEF LandCommit
    <3>3. CASE LandReturn(m)
      BY <2>3, <3>3 DEF LandReturn, HomeTakesBack, TypeOK
    <3>4. CASE LandSettle(m)
      BY <3>4 DEF LandSettle
    <3> QED
      BY <1>2, <3>1, <3>2, <3>3, <3>4 DEF Land
  <2>5. BothOwnOnlyWhileReturning'
    BY <2>2, <2>4 DEF IInv, BothOwnOnlyWhileReturning, LateReturnsAreMarked
  <2> QED
    BY <2>1, <2>2, <2>5 DEF IInv, MarksAreHandled,
       LabelsHold, CommittedAreGiven, DecidedNotHome, LateReturnsAreMarked, AbsentNotMarked
<1> QED
  BY <1>1, <1>2 DEF Failure

LEMMA NextIInv == NoOverlap /\ TypeInv /\ IInv /\ [Next]_vars => IInv'
<1> SUFFICES ASSUME NoOverlap, TypeInv, IInv, [Next]_vars PROVE IInv'
  OBVIOUS
<1>1. CASE LocalStep
  BY <1>1, LocalIInv
<1>2. CASE RoundStep
  BY <1>2, ReconcileIInv, PushPullIInv, OffersIInv, ReturnsIInv DEF RoundStep
<1>3. CASE Failure
  BY <1>3, FailureIInv
<1>4. CASE UNCHANGED vars
  BY <1>4 DEF vars, IInv, BothOwnOnlyWhileReturning, MarksAreHandled, LabelsHold,
     CommittedAreGiven, DecidedNotHome, LateReturnsAreMarked, AbsentNotMarked
<1> QED
  BY <1>1, <1>2, <1>3, <1>4 DEF Next

\* "Only the owner writes a job, so two copies never edit the same row": as
\* long as no round starts while an earlier one's request can still land, both
\* guards never let a write to the same job pass, whatever else is lost, stopped
\* between two commits, or written between a guard and its flush.
THEOREM OneWriter == NoOverlap => (Spec => []SingleWriter)
<1> SUFFICES ASSUME NoOverlap PROVE Spec => []SingleWriter
  OBVIOUS
<1>1. Init => TypeInv /\ IInv
  BY InitTypeInv, InitIInv
<1>2. TypeInv /\ IInv /\ [Next]_vars => (TypeInv /\ IInv)'
  BY NextTypeInv, NextIInv
<1>3. IInv => SingleWriter
  BY DEF IInv, BothOwnOnlyWhileReturning, SingleWriter, HomeMayWrite, BotMayWrite
<1> QED
  BY <1>1, <1>2, <1>3, PTL DEF Spec

-----------------------------------------------------------------------------
(* No take-over is left open for a job that is back *)

NoSettle == "settle" \notin Windows

\* Steps that give home no job, reopen no take-over, and drop no settlement.
LEMMA NoAskFrame ==
  ASSUME TypeInv, NoOpenAskForAJobHere, step # "landed",
         \A j \in Jobs : home'[j].owner = "home" => home[j].owner = "home",
         \A a \in Asks : asks'[a] \in Open => asks[a] \in Open,
         \A m \in late : m.kind = "settle" => m \in late'
  PROVE  NoOpenAskForAJobHere'
  BY JobOfAssumption DEF NoOpenAskForAJobHere

LEMMA AnsweredOpen ==
  ASSUME TypeInv, asks' = Answered(results)
  PROVE  \A a \in Asks : asks'[a] \in Open => asks[a] \in Open
  BY DEF Answered, TypeInv, TypeOK, RoundOK

LEMMA SettledOpen ==
  ASSUME NEW j, asks' = SettledTakeOvers(j)
  PROVE  \A a \in Asks : asks'[a] \in Open => asks[a] \in Open /\ JobOf[a] # j
  BY DEF SettledTakeOvers

LEMMA LocalNoAsk ==
  ASSUME TypeInv, NoOpenAskForAJobHere, LocalStep
  PROVE  NoOpenAskForAJobHere'
<1>1. /\ \A j \in Jobs : home'[j].owner = "home" => home[j].owner = "home"
      /\ UNCHANGED <<late, step, current>>
  BY LocalFrame DEF round
<1>2. CASE UNCHANGED asks
  BY <1>1, <1>2, JobOfAssumption DEF NoOpenAskForAJobHere
<1>3. ASSUME NEW a \in Asks, WorkHere(a)
      PROVE  NoOpenAskForAJobHere'
  BY <1>3, <1>1, JobOfAssumption DEF WorkHere, NoOpenAskForAJobHere, TypeInv, TypeOK
<1>4. (\E a \in Asks : WorkHere(a)) \/ UNCHANGED asks
  BY DEF LocalStep, Write, PassGuard, FlushPassed, DeleteAtHome, DeleteAtBot, PeekSwitch, QueueFails, QueueForBot,
         KeepHere, SetFullAutomation
<1> QED
  BY <1>2, <1>3, <1>4

LEMMA RoundNoAsk ==
  ASSUME TypeInv, NoOpenAskForAJobHere, RoundStep
  PROVE  NoOpenAskForAJobHere'
<1> USE DEF local
<1>t. /\ TypeOK /\ (\A m \in page : m \in Item /\ m.job \in Jobs)
      /\ step \in Deciding => current \in Asks /\ JobOf[current] \in Jobs
  BY JobOfAssumption DEF TypeInv, TypeOK, RoundOK, Item
<1>1. CASE StartRound
  BY <1>1, NoAskFrame DEF StartRound
<1>2. CASE \/ ReconcileOne \/ ListPush \/ DropIfIdle \/ ListPull \/ PullOne \/ GetOffers
           \/ StoreOffer \/ SkipOffer \/ ReadCommit \/ TakeCommitted \/ CheckApplying \/ HandBackRefused
           \/ FinishReturn \/ \E a \in Asks : DecideReturn(a)
  BY <1>2, NoAskFrame DEF ReconcileOne, ListPush, DropIfIdle, ListPull, PullOne, GetOffers,
     StoreOffer, SkipOffer, ReadCommit, TakeCommitted, CheckApplying, HandBackRefused, FinishReturn, DecideReturn
<1>3. CASE PushTombstone
  <2>1. \A j \in Jobs : home'[j].owner = "home" => home[j].owner = "home"
    BY <1>3, <1>t DEF PushTombstone, Absent, TypeOK
  <2> QED
    BY <1>3, <2>1, NoAskFrame DEF PushTombstone
<1>4. CASE PushOne
  <2>1. \A j \in Jobs : home'[j].owner = "home" => home[j].owner = "home"
    BY <1>4, <1>t, HomeStoresFrame DEF PushOne
  <2> QED
    BY <1>4, <2>1, NoAskFrame DEF PushOne
<1>5. CASE FetchRequests
  <2>1. \A a \in Asks : asks'[a] \in Open => asks[a] \in Open
    BY <1>5 DEF FetchRequests, Served
  <2> QED
    BY <1>5, <2>1, NoAskFrame DEF FetchRequests
<1>6. CASE PostAnswers \/ PostResults
  BY <1>6, AnsweredOpen, NoAskFrame DEF PostAnswers, PostResults
<1>7. CASE PostCommit
  <2>1. \A j \in Jobs : home'[j].owner = "home" => home[j].owner = "home"
    BY <1>7, <1>t, HomeCommitsFrame DEF PostCommit
  <2> QED
    BY <1>7, <2>1, NoAskFrame DEF PostCommit
<1>8. CASE HandBack
  <2>1. Bundle("send", JobOf[current], bot[JobOf[current]]).job = JobOf[current]
    BY DEF Bundle
  <2>2. /\ UNCHANGED <<asks, late, current>> /\ step = "checked" /\ step' = "landed"
        /\ \A i \in Jobs : i # JobOf[current] => home'[i] = home[i]
    BY <1>8, <1>t, <2>1 DEF HandBack, HomeTakesBack, TypeOK
  <2> QED
    BY <2>2, JobOfAssumption DEF NoOpenAskForAJobHere
<1>9. CASE SettleReturn
  <2>1. /\ UNCHANGED <<home, late>>
        /\ \A a \in Asks : asks'[a] \in Open => asks[a] \in Open /\ JobOf[a] # JobOf[current]
    BY <1>9, SettledOpen DEF SettleReturn
  <2> QED
    BY <2>1 DEF NoOpenAskForAJobHere
<1> QED
  BY <1>1, <1>2, <1>3, <1>4, <1>5, <1>6, <1>7, <1>8, <1>9 DEF RoundStep

LEMMA FailureNoAsk ==
  ASSUME NoSettle, TypeInv, NoOpenAskForAJobHere, Failure
  PROVE  NoOpenAskForAJobHere'
<1>1. CASE GiveUp
  <2>1. UNCHANGED <<home, asks>> /\ late \cup Unsettled \subseteq late'
    BY <1>1 DEF GiveUp, local, NoSettle
  <2>2. step = "landed" => \E m \in late' : m.kind = "settle" /\ m.job = JobOf[current]
    <3>1. Late("settle", Bare("home", JobOf[current])).kind = "settle"
          /\ Late("settle", Bare("home", JobOf[current])).job = JobOf[current]
      BY DEF Late, Bare
    <3> QED
      BY <2>1, <3>1 DEF Unsettled
  <2> QED
    BY <2>1, <2>2 DEF NoOpenAskForAJobHere
<1>2. ASSUME NEW m \in late, Land(m)
      PROVE  NoOpenAskForAJobHere'
  <2>1. late' = late \ {m} /\ UNCHANGED <<step, current>>
    BY <1>2 DEF Land, round
  <2>2. TypeOK /\ m \in Request /\ m.job \in Jobs
    BY DEF TypeInv, TypeOK, Request
  <2>3. CASE LandSend(m) \/ LandCommit(m)
    <3>1. UNCHANGED asks /\ m.kind # "settle"
          /\ \A j \in Jobs : home'[j].owner = "home" => home[j].owner = "home"
      BY <2>2, <2>3, HomeStoresFrame, HomeCommitsFrame DEF LandSend, LandCommit
    <3> QED
      BY <2>1, <3>1, JobOfAssumption DEF NoOpenAskForAJobHere
  <2>4. CASE LandReturn(m)
    <3>1. CASE TakesBack(m.job)
      <4>1. asks' = SettledTakeOvers(m.job) /\ \A i \in Jobs : i # m.job => home'[i] = home[i]
        BY <2>2, <2>4, <3>1 DEF LandReturn, HomeTakesBack, TypeOK
      <4>2. \A a \in Asks : asks'[a] \in Open => asks[a] \in Open /\ JobOf[a] # m.job
        BY <4>1, SettledOpen
      <4>3. m.kind = "return"
        BY <2>4 DEF LandReturn
      <4> QED
        BY <2>1, <4>1, <4>2, <4>3, JobOfAssumption DEF NoOpenAskForAJobHere
    <3>2. CASE ~TakesBack(m.job)
      BY <2>1, <2>4, <3>2 DEF LandReturn, NoOpenAskForAJobHere
    <3> QED
      BY <3>1, <3>2
  <2>5. CASE LandSettle(m)
    <3>1. UNCHANGED home
          /\ \A a \in Asks : asks'[a] \in Open => asks[a] \in Open /\ JobOf[a] # m.job
      BY <2>5, SettledOpen DEF LandSettle
    <3> QED
      BY <2>1, <3>1 DEF NoOpenAskForAJobHere
  <2> QED
    BY <1>2, <2>3, <2>4, <2>5 DEF Land
<1> QED
  BY <1>1, <1>2 DEF Failure

\* Home has no take-over waiting for a job that is back, on any timing but a
\* stop between the two commits of _store_returned: every other way in which a
\* job comes home settles its take-overs, or is about to.
THEOREM NoAskIsLeft == NoSettle => (Spec => []NoOpenAskForAJobHere)
<1> SUFFICES ASSUME NoSettle PROVE Spec => []NoOpenAskForAJobHere
  OBVIOUS
<1>1. Init => TypeInv /\ NoOpenAskForAJobHere
  BY InitTypeInv DEF Init, NoOpenAskForAJobHere
<1>2. TypeInv /\ NoOpenAskForAJobHere /\ [Next]_vars => (TypeInv /\ NoOpenAskForAJobHere)'
  <2> SUFFICES ASSUME TypeInv, NoOpenAskForAJobHere, [Next]_vars
               PROVE  TypeInv' /\ NoOpenAskForAJobHere'
    OBVIOUS
  <2>1. TypeInv'
    BY NextTypeInv
  <2>2. NoOpenAskForAJobHere'
    <3>1. CASE UNCHANGED vars
      BY <3>1 DEF vars, NoOpenAskForAJobHere
    <3> QED
      BY <3>1, LocalNoAsk, RoundNoAsk, FailureNoAsk DEF Next
  <2> QED
    BY <2>1, <2>2
<1> QED
  BY <1>1, <1>2, PTL DEF Spec

-----------------------------------------------------------------------------
(* What is in the rows: definitions *)

NoGuard == "guard" \notin Windows
NoCommitRead == "commit" \notin Windows

\* A round carries an offer of the job: it fetched the bundle or stored it, or
\* its commit of the job was abandoned and may still reach home.
Carried(j) ==
  \/ step = "storing" /\ (j \in stored \/ \E m \in page : m.job = j)
  \/ \E m \in late : m.kind = "commit" /\ m.job = j

\* No job is queued again, after it was kept here, while a round carries an
\* offer of it.
NotRequeued == \A j \in Jobs : Carried(j) => ~QueueForBot(j)

Kept(j) == j \in Jobs \ deleted

\* A job home owns is current there; of the others, the bot's row is.
OwnersAreCurrent ==
  \A j \in Jobs : Kept(j) =>
    /\ home[j].owner = "home" => home[j].version = edits[j]
    /\ home[j].owner # "home" /\ bot[j].owner # "absent" => bot[j].version = edits[j]

\* What home told a round about its own jobs holds, except for jobs it deleted
\* since, until the round gives one away.
StillHome(j) == Kept(j) => home[j].owner = "home"

HomeJobsStay ==
  /\ step = "pull" => \A m \in page : m.says = "store" => StillHome(m.job)
  /\ step = "storing" => \A m \in page : StillHome(m.job)

\* A fetched bundle is what home still offers, and once it is stored the bot's
\* row is, until home has committed the offer.
OffersAreCurrent ==
  /\ step = "storing" => \A m \in page :
       Kept(m.job) /\ home[m.job].handover = "offered" => m.version = edits[m.job]
  /\ \A j \in Jobs :
       /\ Kept(j)
       /\ \/ step = "storing" /\ j \in stored
          \/ \E m \in late : m.kind = "commit" /\ m.job = j
       => /\ bot[j].owner = "home"
          /\ home[j].owner = "home" /\ home[j].handover = "offered" => bot[j].version = edits[j]

\* An abandoned return is the only request on its way, and what it carries is
\* what the bot's row still says.
LateReturnsAreCurrent ==
  \A m \in late : m.kind = "return" =>
    /\ late = {m}
    /\ home[m.job].owner # "home"
    /\ Kept(m.job) => m.version = edits[m.job]

\* From the check to the flip the bot's row is marked, and not in the middle
\* of an application.
Frozen ==
  /\ step \in {"checked", "landed", "handed"} /\ bot[JobOf[current]].owner = "bot"
     => bot[JobOf[current]].handover = "returning"
  /\ step = "checked" => ~MidApplication(bot[JobOf[current]])

\* A job the push may drop is one home deleted.
DroppedAreDeleted == step = "push" => \A m \in page : m.says = "gone" => m.job \in deleted

FrozenInv ==
  /\ passed = {}
  /\ Frozen
  /\ \A m \in late : m.kind = "return" => ~MidApplication(bot[m.job])

\* Stored offers are the business of the offers step alone.
StoredInStep == step \notin {"storing", "taken"} => stored = {}

ContentInv ==
  /\ OwnersAreCurrent
  /\ StoredInStep
  /\ HomeJobsStay
  /\ OffersAreCurrent
  /\ LateReturnsAreCurrent

-----------------------------------------------------------------------------
(* What a local step does to one job *)

Untouched(j) == home'[j] = home[j] /\ bot'[j] = bot[j] /\ edits'[j] = edits[j]
NotDeleted(j) == (j \in deleted' <=> j \in deleted) /\ (j \in botDeleted' <=> j \in botDeleted)

\* A write at home; queueing the job is one, and marks it.
HomeWrites(j) ==
  /\ HomeMayWrite(j) /\ bot'[j] = bot[j] /\ NotDeleted(j)
  /\ edits'[j] = edits[j] + 1 /\ home'[j].version = home[j].version + 1
  /\ home'[j].owner = "home"
  /\ \/ home'[j].handover = home[j].handover
     \/ home'[j].handover = "offered" /\ QueueForBot(j)

BotWrites(j) ==
  /\ BotMayWrite(j) /\ home'[j] = home[j] /\ NotDeleted(j)
  /\ edits'[j] = edits[j] + 1 /\ bot'[j].version = bot[j].version + 1
  /\ bot'[j].owner = bot[j].owner /\ bot'[j].handover = bot[j].handover

HomeDeletes(j) ==
  /\ HomeMayWrite(j) /\ bot'[j] = bot[j] /\ edits'[j] = edits[j]
  /\ home'[j] = Absent /\ j \in deleted'

BotDeletes(j) ==
  /\ BotMayWrite(j) /\ home'[j] = home[j] /\ edits'[j] = edits[j]
  /\ bot'[j] = Absent /\ j \in botDeleted' /\ (j \in deleted' <=> j \in deleted)

KeepsHere(j) ==
  /\ home[j].owner = "home" /\ home[j].handover = "offered"
  /\ bot'[j] = bot[j] /\ edits'[j] = edits[j] /\ NotDeleted(j)
  /\ home'[j].owner = "home" /\ home'[j].handover = "none" /\ home'[j].version = home[j].version

Touches(j) ==
  \/ Untouched(j) /\ NotDeleted(j)
  \/ HomeWrites(j) \/ BotWrites(j) \/ HomeDeletes(j) \/ BotDeletes(j) \/ KeepsHere(j)

LEMMA WroteFields ==
  ASSUME NEW row \in Row, NEW work
  PROVE  /\ Wrote(row, work).owner = row.owner /\ Wrote(row, work).handover = row.handover
         /\ Wrote(row, work).version = row.version + 1
  BY DEF Wrote, Row

LEMMA WriteTouches ==
  ASSUME TypeOK, NEW copy \in Copies, NEW i \in Jobs, Write(copy, i)
  PROVE  \A j \in Jobs : Touches(j)
<1>1. PICK work \in Works : Lands(copy, i, work)
  BY DEF Write, WorkAfter
<1>t. home \in [Jobs -> Row] /\ bot \in [Jobs -> Row] /\ edits \in [Jobs -> Nat]
  BY DEF TypeOK
<1>2. /\ edits' = [edits EXCEPT ![i] = @ + 1] /\ UNCHANGED <<deleted, botDeleted>>
      /\ MayWrite(copy, i)
  BY <1>1 DEF Write, Lands
<1>3. CASE copy = "home"
  <2>1. home' = [home EXCEPT ![i] = Wrote(home[i], work)] /\ bot' = bot /\ HomeMayWrite(i)
    BY <1>1, <1>2, <1>3 DEF Lands, MayWrite
  <2>2. HomeWrites(i)
    BY <1>t, <1>2, <2>1, WroteFields DEF HomeWrites, NotDeleted, HomeMayWrite
  <2>3. \A j \in Jobs : j # i => Untouched(j) /\ NotDeleted(j)
    BY <1>t, <1>2, <2>1 DEF Untouched, NotDeleted
  <2> QED
    BY <2>2, <2>3 DEF Touches
<1>4. CASE copy = "bot"
  <2>1. bot' = [bot EXCEPT ![i] = Wrote(bot[i], work)] /\ home' = home /\ BotMayWrite(i)
    BY <1>1, <1>2, <1>4 DEF Lands, MayWrite
  <2>2. BotWrites(i)
    BY <1>t, <1>2, <2>1, WroteFields DEF BotWrites, NotDeleted
  <2>3. \A j \in Jobs : j # i => Untouched(j) /\ NotDeleted(j)
    BY <1>t, <1>2, <2>1 DEF Untouched, NotDeleted
  <2> QED
    BY <2>2, <2>3 DEF Touches
<1> QED
  BY <1>3, <1>4

\* What one local step does, when no write is between its guard and its flush.
LEMMA LocalTouches ==
  ASSUME NoGuard, TypeOK, passed = {}, LocalStep
  PROVE  (\A j \in Jobs : Touches(j)) /\ passed' = {}
<1>t. /\ home \in [Jobs -> Row] /\ bot \in [Jobs -> Row] /\ edits \in [Jobs -> Nat]
      /\ deleted \subseteq Jobs /\ botDeleted \subseteq Jobs
  BY DEF TypeOK
<1>1. ASSUME NEW copy \in Copies, NEW i \in Jobs, Write(copy, i)
      PROVE  (\A j \in Jobs : Touches(j)) /\ passed' = {}
  BY <1>1, WriteTouches DEF Write
<1>2. ASSUME NEW i \in Jobs, DeleteAtHome(i)
      PROVE  (\A j \in Jobs : Touches(j)) /\ passed' = {}
  <2>1. HomeDeletes(i)
    BY <1>t, <1>2 DEF DeleteAtHome, HomeDeletes
  <2>2. \A j \in Jobs : j # i => Untouched(j) /\ NotDeleted(j)
    BY <1>t, <1>2 DEF DeleteAtHome, Untouched, NotDeleted
  <2> QED
    BY <1>2, <2>1, <2>2 DEF DeleteAtHome, Touches
<1>3. ASSUME NEW i \in Jobs, DeleteAtBot(i)
      PROVE  (\A j \in Jobs : Touches(j)) /\ passed' = {}
  <2>1. BotDeletes(i)
    BY <1>t, <1>3 DEF DeleteAtBot, BotDeletes
  <2>2. \A j \in Jobs : j # i => Untouched(j) /\ NotDeleted(j)
    BY <1>t, <1>3 DEF DeleteAtBot, Untouched, NotDeleted
  <2> QED
    BY <1>3, <2>1, <2>2 DEF DeleteAtBot, Touches
<1>4. ASSUME NEW i \in Jobs, QueueForBot(i)
      PROVE  (\A j \in Jobs : Touches(j)) /\ passed' = {}
  <2>1. HomeWrites(i)
    BY <1>t, <1>4 DEF QueueForBot, Offerable, HomeWrites, NotDeleted, HomeMayWrite
  <2>2. \A j \in Jobs : j # i => Untouched(j) /\ NotDeleted(j)
    BY <1>t, <1>4 DEF QueueForBot, Untouched, NotDeleted
  <2> QED
    BY <1>4, <2>1, <2>2 DEF QueueForBot, Touches
<1>5. ASSUME NEW i \in Jobs, KeepHere(i)
      PROVE  (\A j \in Jobs : Touches(j)) /\ passed' = {}
  <2>1. home'[i] = [home[i] EXCEPT !.handover = "none"]
    BY <1>t, <1>5 DEF KeepHere
  <2>2. KeepsHere(i)
    BY <1>t, <1>5, <2>1 DEF KeepHere, KeepsHere, NotDeleted, Row
  <2>3. \A j \in Jobs : j # i => Untouched(j) /\ NotDeleted(j)
    BY <1>t, <1>5 DEF KeepHere, Untouched, NotDeleted
  <2> QED
    BY <1>5, <2>2, <2>3 DEF KeepHere, Touches
<1>6. ASSUME NEW value \in BOOLEAN, SetFullAutomation(value)
      PROVE  (\A j \in Jobs : Touches(j)) /\ passed' = {}
  <2>1. UNCHANGED <<bot, edits, deleted, botDeleted>>
    BY <1>6 DEF SetFullAutomation
  <2>2. \A j \in Jobs : home'[j] = home[j] \/ home'[j] = Withdrawn(home[j])
    BY <1>6 DEF SetFullAutomation
  <2>3. ASSUME NEW j \in Jobs PROVE Touches(j)
    <3>1. CASE home'[j] = home[j]
      BY <2>1, <3>1 DEF Touches, Untouched, NotDeleted
    <3>2. CASE home'[j] = Withdrawn(home[j]) /\ home'[j] # home[j]
      <4>1. /\ home[j].owner = "home" /\ home[j].handover = "offered"
            /\ home'[j] = [home[j] EXCEPT !.handover = "none"]
        BY <3>2 DEF Withdrawn
      <4> QED
        BY <1>t, <2>1, <4>1 DEF Touches, KeepsHere, NotDeleted, Row
    <3> QED
      BY <2>2, <3>1, <3>2
  <2> QED
    BY <1>6, <2>3 DEF SetFullAutomation
<1>7. ASSUME NEW a \in Asks, WorkHere(a)
      PROVE  (\A j \in Jobs : Touches(j)) /\ passed' = {}
  BY <1>7 DEF WorkHere, Touches, Untouched, NotDeleted
<1>9. ASSUME NEW i \in Jobs, PeekSwitch(i) \/ QueueFails(i)
      PROVE  (\A j \in Jobs : Touches(j)) /\ passed' = {}
  BY <1>9 DEF PeekSwitch, QueueFails, Touches, Untouched, NotDeleted
<1>8. ~FlushPassed /\ \A copy \in Copies, j \in Jobs : ~PassGuard(copy, j)
  BY DEF FlushPassed, PassGuard, NoGuard
<1> QED
  BY <1>1, <1>2, <1>3, <1>4, <1>5, <1>6, <1>7, <1>8, <1>9 DEF LocalStep

-----------------------------------------------------------------------------
(* The row that is handed back is frozen *)

LEMMA UsedJobs ==
  ASSUME TypeInv
  PROVE  /\ \A m \in page : m \in Item /\ m.job \in Jobs
         /\ \A m \in late : m \in Request /\ m.job \in Jobs
         /\ step \in Deciding => current \in Asks /\ JobOf[current] \in Jobs
         /\ \A a \in Asks : JobOf[a] \in Jobs
         /\ home \in [Jobs -> Row] /\ bot \in [Jobs -> Row] /\ edits \in [Jobs -> Nat]
         /\ deleted \subseteq Jobs /\ botDeleted \subseteq Jobs /\ stored \subseteq Jobs
  BY JobOfAssumption DEF TypeInv, TypeOK, RoundOK, Item, Request

LEMMA LocalFrozen ==
  ASSUME NoGuard, TypeInv, IInv, FrozenInv, LocalStep
  PROVE  FrozenInv'
<1>1. (\A j \in Jobs : Touches(j)) /\ passed' = {}
  BY LocalTouches DEF FrozenInv, TypeInv
<1>2. UNCHANGED <<late, step, current>>
  BY LocalFrame DEF round
<1>3. \A j \in Jobs : ~BotMayWrite(j) => bot'[j] = bot[j]
  BY <1>1 DEF Touches, Untouched, HomeWrites, BotWrites, HomeDeletes, BotDeletes, KeepsHere
<1>4. ASSUME step \in {"checked", "landed", "handed"}
      PROVE  bot'[JobOf[current]] = bot[JobOf[current]]
  <2>1. JobOf[current] \in Jobs
    BY <1>4, UsedJobs DEF Deciding
  <2>2. ~BotMayWrite(JobOf[current])
    BY <1>4 DEF FrozenInv, Frozen, BotMayWrite
  <2> QED
    BY <1>3, <2>1, <2>2
<1>5. \A m \in late : m.kind = "return" => bot'[m.job] = bot[m.job]
  BY <1>3, UsedJobs DEF IInv, LateReturnsAreMarked, BotMayWrite
<1> QED
  BY <1>1, <1>2, <1>4, <1>5 DEF FrozenInv, Frozen, MidApplication

\* A step of the round outside the decisions, with nothing on its way after it.
LEMMA ElsewhereFrozen ==
  ASSUME FrozenInv, UNCHANGED passed, step' \notin {"checked", "landed", "handed"}, late' = {}
  PROVE  FrozenInv'
  BY DEF FrozenInv, Frozen

LEMMA RoundFrozen ==
  ASSUME NoOverlap, TypeInv, IInv, FrozenInv, RoundStep
  PROVE  FrozenInv'
<1> USE DEF local
<1>l. step # "idle" => late = {}
  BY DEF IInv, LateReturnsAreMarked
<1>1. CASE StartRound
  BY <1>1, ElsewhereFrozen DEF StartRound, NoOverlap
<1>2. CASE \/ ReconcileOne \/ ListPush \/ PushTombstone \/ PushOne \/ DropIfIdle
           \/ ListPull \/ PullOne \/ FetchRequests \/ PostAnswers
  BY <1>2, <1>l, ElsewhereFrozen DEF ReconcileOne, ListPush, PushTombstone, PushOne, DropIfIdle,
     ListPull, PullOne, FetchRequests, PostAnswers
<1>3. CASE \/ GetOffers \/ StoreOffer \/ SkipOffer \/ ReadCommit \/ PostCommit \/ TakeCommitted
           \/ FinishReturn \/ HandBackRefused \/ PostResults
  BY <1>3, <1>l, ElsewhereFrozen DEF GetOffers, StoreOffer, SkipOffer, ReadCommit, PostCommit, TakeCommitted,
     FinishReturn, HandBackRefused, PostResults
<1>4. ASSUME NEW a \in Asks, DecideReturn(a)
      PROVE  FrozenInv'
  <2>1. UNCHANGED <<passed, late>> /\ current' = a /\ step = "returns" /\ JobOf[a] \in Jobs
    BY <1>4, UsedJobs DEF DecideReturn
  <2>2. step' # "checked" /\ step' # "landed" /\ (step' = "handed" => bot'[JobOf[a]].owner # "bot")
    BY <1>4, <2>1, UsedJobs DEF DecideReturn, Row
  <2> QED
    BY <1>l, <2>1, <2>2 DEF FrozenInv, Frozen
<1>5. CASE CheckApplying
  <2>1. UNCHANGED <<passed, late, current>> /\ step = "marked"
    BY <1>5 DEF CheckApplying
  <2>2. \/ step' = "refusing"
        \/ step' = "checked" /\ bot' = bot /\ ~MidApplication(bot[JobOf[current]])
    BY <1>5 DEF CheckApplying
  <2> QED
    BY <1>l, <2>1, <2>2 DEF FrozenInv, Frozen, IInv, DecidedNotHome, MidApplication
<1>6. CASE HandBack
  BY <1>6, <1>l DEF HandBack, FrozenInv, Frozen
<1>7. CASE SettleReturn
  BY <1>7, <1>l DEF SettleReturn, FrozenInv, Frozen
<1> QED
  BY <1>1, <1>2, <1>3, <1>4, <1>5, <1>6, <1>7 DEF RoundStep

\* The only return a given up round leaves is of the job it had checked.
LEMMA LostReturns ==
  ASSUME TypeInv, NEW m \in Outstanding \cup Unsettled, m.kind = "return"
  PROVE  /\ step = "checked" /\ m.job = JobOf[current]
         /\ m.version = bot[JobOf[current]].version
         /\ Outstanding \cup Unsettled = {m}
<1>1. \A kind, i : /\ Late(kind, i).kind = kind /\ Late(kind, i).job = i.job
                   /\ Late(kind, i).version = i.version
  BY DEF Late
<1>2. /\ Bundle("send", JobOf[current], bot[JobOf[current]]).job = JobOf[current]
      /\ Bundle("send", JobOf[current], bot[JobOf[current]]).version = bot[JobOf[current]].version
  BY DEF Bundle
<1>3. step = "landed" => m \in Unsettled
  BY DEF Outstanding
<1>4. m \notin Unsettled
  BY <1>1 DEF Unsettled
<1>5. CASE step = "push"
  BY <1>1, <1>4, <1>5 DEF Outstanding
<1>6. CASE (step = "storing" /\ page = {}) \/ step = "committing"
  BY <1>1, <1>4, <1>6 DEF Outstanding
<1>7. CASE step = "checked"
  BY <1>1, <1>2, <1>4, <1>7 DEF Outstanding, Unsettled
<1>8. CASE step \notin {"push", "checked", "committing"} /\ ~(step = "storing" /\ page = {})
  BY <1>4, <1>8 DEF Outstanding
<1> QED
  BY <1>5, <1>6, <1>7, <1>8

LEMMA FailureFrozen ==
  ASSUME TypeInv, IInv, FrozenInv, Failure
  PROVE  FrozenInv'
<1>1. CASE GiveUp
  <2>1. UNCHANGED <<home, bot, passed>> /\ step' = "idle"
        /\ late' \subseteq late \cup Outstanding \cup Unsettled
    BY <1>1 DEF GiveUp, local
  <2>2. late = {}
    BY <1>1 DEF GiveUp, IInv, LateReturnsAreMarked
  <2> QED
    BY <2>1, <2>2, LostReturns DEF FrozenInv, Frozen
<1>2. ASSUME NEW m \in late, Land(m)
      PROVE  FrozenInv'
  <2>1. step = "idle"
    BY DEF IInv, LateReturnsAreMarked
  <2>2. UNCHANGED <<bot, passed, step>> /\ late' \subseteq late
    BY <1>2 DEF Land, round
  <2> QED
    BY <2>1, <2>2 DEF FrozenInv, Frozen
<1> QED
  BY <1>1, <1>2 DEF Failure

LEMMA NextFrozen == NoOverlap /\ NoGuard /\ TypeInv /\ IInv /\ FrozenInv /\ [Next]_vars => FrozenInv'
<1> SUFFICES ASSUME NoOverlap, NoGuard, TypeInv, IInv, FrozenInv, [Next]_vars PROVE FrozenInv'
  OBVIOUS
<1>1. CASE UNCHANGED vars
  BY <1>1 DEF vars, FrozenInv, Frozen, MidApplication
<1> QED
  BY <1>1, LocalFrozen, RoundFrozen, FailureFrozen DEF Next

\* Home gains a job only by a return.
LEMMA HomeGains ==
  ASSUME TypeInv, Next
  PROVE  \A j \in Jobs : home'[j].owner = "home" =>
           \/ home[j].owner = "home"
           \/ HandBack /\ step = "checked" /\ j = JobOf[current]
           \/ \E m \in late : Land(m) /\ m.kind = "return" /\ j = m.job /\ TakesBack(j)
<1> USE DEF local
<1>t. TypeOK /\ home \in [Jobs -> Row] /\ (\A m \in page : m \in Item /\ m.job \in Jobs)
  BY UsedJobs DEF TypeInv
<1>1. CASE LocalStep
  BY <1>1, LocalFrame
<1>2. CASE \/ StartRound \/ ReconcileOne \/ ListPush \/ DropIfIdle \/ ListPull \/ PullOne \/ GetOffers
           \/ StoreOffer \/ SkipOffer \/ ReadCommit \/ TakeCommitted \/ CheckApplying \/ HandBackRefused
           \/ FinishReturn \/ \E a \in Asks : DecideReturn(a)
  BY <1>2 DEF StartRound, ReconcileOne, ListPush, DropIfIdle, ListPull, PullOne, GetOffers,
     StoreOffer, SkipOffer, ReadCommit, TakeCommitted, CheckApplying, HandBackRefused, FinishReturn, DecideReturn
<1>3. CASE FetchRequests \/ PostAnswers \/ PostResults \/ SettleReturn \/ GiveUp
  BY <1>3 DEF FetchRequests, PostAnswers, PostResults, SettleReturn, GiveUp
<1>4. CASE PushTombstone
  BY <1>4, <1>t DEF PushTombstone, Absent
<1>5. CASE PushOne
  BY <1>5, <1>t, HomeStoresFrame DEF PushOne
<1>6. CASE PostCommit
  BY <1>6, <1>t, HomeCommitsFrame DEF PostCommit
<1>7. CASE HandBack
  <2>1. Bundle("send", JobOf[current], bot[JobOf[current]]).job = JobOf[current]
    BY DEF Bundle
  <2>2. step = "checked" /\ \A i \in Jobs : i # JobOf[current] => home'[i] = home[i]
    BY <1>7, <1>t, <2>1 DEF HandBack, HomeTakesBack
  <2> QED
    BY <1>7, <2>2
<1>8. ASSUME NEW m \in late, Land(m), NEW j \in Jobs, home'[j].owner = "home", home[j].owner # "home"
      PROVE  m.kind = "return" /\ j = m.job /\ TakesBack(j)
  <2>1. m \in Request /\ m.job \in Jobs
    BY UsedJobs
  <2>2. ~LandSend(m) /\ ~LandCommit(m) /\ ~LandSettle(m)
    BY <1>t, <1>8, <2>1, HomeStoresFrame, HomeCommitsFrame DEF LandSend, LandCommit, LandSettle
  <2>3. LandReturn(m) /\ home' # home
    BY <1>8, <2>2 DEF Land
  <2> QED
    BY <1>8, <1>t, <2>1, <2>3 DEF LandReturn, HomeTakesBack
<1> QED
  BY <1>1, <1>2, <1>3, <1>4, <1>5, <1>6, <1>7, <1>8 DEF Next, RoundStep, Failure

LEMMA InitFrozen == Init => FrozenInv
  BY DEF Init, FrozenInv, Frozen

LEMMA StepNotMidApplication ==
  ASSUME TypeInv, IInv, FrozenInv, [Next]_vars
  PROVE  \A j \in Jobs :
           home[j].owner = "bot" /\ home'[j].owner = "home" => ~MidApplication(bot[j])
<1>1. CASE UNCHANGED vars
  BY <1>1 DEF vars
<1>2. CASE Next
  BY <1>2, HomeGains DEF FrozenInv, Frozen
<1> QED
  BY <1>1, <1>2

LEMMA StepFreezes ==
  ASSUME NoGuard, TypeInv, IInv, FrozenInv, [Next]_vars,
         step \in {"checked", "landed", "handed"}, bot[JobOf[current]].owner = "bot"
  PROVE  bot'[JobOf[current]].version = bot[JobOf[current]].version
<1> DEFINE j == JobOf[current]
<1>t. j \in Jobs /\ bot \in [Jobs -> Row]
  BY UsedJobs DEF Deciding
<1>1. CASE UNCHANGED vars
  BY <1>1 DEF vars
<1>2. CASE LocalStep
  <2>1. Touches(j) /\ ~BotMayWrite(j)
    BY <1>2, <1>t, LocalTouches DEF FrozenInv, Frozen, BotMayWrite, TypeInv
  <2> QED
    BY <2>1 DEF Touches, Untouched, HomeWrites, BotWrites, HomeDeletes, BotDeletes, KeepsHere
<1>3. CASE Failure
  BY <1>3 DEF Failure, GiveUp, Land, local
<1>4. CASE RoundStep
  <2>1. HandBack \/ HandBackRefused \/ SettleReturn \/ FinishReturn
    BY <1>4 DEF RoundStep, StartRound, ReconcileOne, ListPush, PushTombstone, PushOne, DropIfIdle,
       ListPull, PullOne, FetchRequests, PostAnswers, GetOffers, StoreOffer, SkipOffer, ReadCommit, PostCommit,
       TakeCommitted, DecideReturn, CheckApplying, PostResults
  <2>2. CASE FinishReturn
    <3>1. bot' = [bot EXCEPT ![j] = Given(@, "home")] \/ bot' = [bot EXCEPT ![j].handover = "none"]
      BY <2>2 DEF FinishReturn
    <3>2. /\ Given(bot[j], "home").version = bot[j].version
          /\ [bot[j] EXCEPT !.handover = "none"].version = bot[j].version
      BY <1>t DEF Given, Row
    <3> QED
      BY <1>t, <3>1, <3>2
  <2> QED
    BY <2>1, <2>2 DEF HandBack, HandBackRefused, SettleReturn, local
<1> QED
  BY <1>1, <1>2, <1>3, <1>4 DEF Next

\* _decide_return marks the row before it checks it, "so no edit or run can
\* slip in between the check and the hand-over".  It is so for a local write that
\* is not between its guard and its flush (see NoGuard), and while rounds do not overlap.
THEOREM HandBackIsAlwaysFrozen == NoOverlap /\ NoGuard => (Spec => HandBackIsFrozen)
<1> SUFFICES ASSUME NoOverlap, NoGuard PROVE Spec => HandBackIsFrozen
  OBVIOUS
<1>1. Init => TypeInv /\ IInv /\ FrozenInv
  BY InitTypeInv, InitIInv, InitFrozen
<1>2. TypeInv /\ IInv /\ FrozenInv /\ [Next]_vars => (TypeInv /\ IInv /\ FrozenInv)'
  BY NextTypeInv, NextIInv, NextFrozen
<1>3. TypeInv /\ IInv /\ FrozenInv /\ [Next]_vars =>
        [(/\ step \in {"checked", "landed", "handed"}
          /\ bot[JobOf[current]].owner = "bot")
         => bot'[JobOf[current]].version = bot[JobOf[current]].version]_vars
  BY StepFreezes
<1> QED
  BY <1>1, <1>2, <1>3, PTL DEF Spec, HandBackIsFrozen

\* A job in the middle of an application is never given up by the bot, also by
\* a return that reaches home after the round that made it has failed.
THEOREM NeverHandedBackMidApplication ==
  NoOverlap /\ NoGuard => (Spec => NoHandBackMidApplication)
<1> SUFFICES ASSUME NoOverlap, NoGuard PROVE Spec => NoHandBackMidApplication
  OBVIOUS
<1>1. Init => TypeInv /\ IInv /\ FrozenInv
  BY InitTypeInv, InitIInv, InitFrozen
<1>2. TypeInv /\ IInv /\ FrozenInv /\ [Next]_vars => (TypeInv /\ IInv /\ FrozenInv)'
  BY NextTypeInv, NextIInv, NextFrozen
<1>3. TypeInv /\ IInv /\ FrozenInv /\ [Next]_vars =>
        [\A j \in Jobs :
           home[j].owner = "bot" /\ home'[j].owner = "home" => ~MidApplication(bot[j])]_vars
  BY StepNotMidApplication
<1> QED
  BY <1>1, <1>2, <1>3, PTL DEF Spec, NoHandBackMidApplication

-----------------------------------------------------------------------------
(* The writer is current *)

LEMMA LocalContent ==
  ASSUME NoGuard, NotRequeued, TypeInv, IInv, FrozenInv, ContentInv, LocalStep
  PROVE  ContentInv'
<1>1. (\A j \in Jobs : Touches(j))
  BY LocalTouches DEF FrozenInv, TypeInv
<1>2. UNCHANGED <<late, step, page, stored, current>>
  BY LocalFrame DEF round
<1>t. /\ \A m \in page : m.job \in Jobs
      /\ \A m \in late : m.job \in Jobs
      /\ home \in [Jobs -> Row] /\ bot \in [Jobs -> Row] /\ edits \in [Jobs -> Nat]
  BY UsedJobs
<1>3. \A j \in Jobs : home[j].owner = "home" => ~BotMayWrite(j)
  BY DEF IInv, BothOwnOnlyWhileReturning, BotMayWrite
<1>4. \A j \in Jobs : Kept(j)' => Kept(j)
  BY <1>1 DEF Kept, Touches, NotDeleted, HomeWrites, BotWrites, HomeDeletes, BotDeletes, KeepsHere
<1>5. \A j \in Jobs : Kept(j)' /\ home[j].owner = "home" => home'[j].owner = "home"
  BY <1>1 DEF Kept, Touches, Untouched, HomeWrites, BotWrites, HomeDeletes, BotDeletes, KeepsHere
<1>6. \A j \in Jobs : ~HomeMayWrite(j) /\ ~BotMayWrite(j) /\ home[j].owner # "home" => Untouched(j)
  BY <1>1 DEF Touches, HomeWrites, BotWrites, HomeDeletes, BotDeletes, KeepsHere
<1>7. \A j \in Jobs : ~BotMayWrite(j) => bot'[j] = bot[j]
  BY <1>1 DEF Touches, Untouched, HomeWrites, BotWrites, HomeDeletes, BotDeletes, KeepsHere
<1>8. \A j \in Jobs : home[j].owner = "home" /\ Carried(j) /\ home'[j].handover = "offered"
        => home[j].handover = "offered" \/ j \in deleted'
  BY <1>1, <1>3 DEF Touches, Untouched, HomeWrites, HomeDeletes, BotWrites, BotDeletes, KeepsHere, NotRequeued
<1>9. \A j \in Jobs : home[j].owner = "home" /\ home[j].handover = "offered" => edits'[j] = edits[j]
  BY <1>1, <1>3 DEF Touches, Untouched, HomeWrites, HomeDeletes, BotWrites, BotDeletes, KeepsHere,
     HomeMayWrite
<1>10. OwnersAreCurrent'
  <2> SUFFICES ASSUME NEW j \in Jobs, Kept(j)'
               PROVE  /\ home'[j].owner = "home" => home'[j].version = edits'[j]
                      /\ home'[j].owner # "home" /\ bot'[j].owner # "absent"
                         => bot'[j].version = edits'[j]
    BY DEF OwnersAreCurrent
  <2>1. /\ home[j].owner = "home" => home[j].version = edits[j]
        /\ home[j].owner # "home" /\ bot[j].owner # "absent" => bot[j].version = edits[j]
    BY <1>4 DEF ContentInv, OwnersAreCurrent
  <2>2. CASE Untouched(j)
    BY <2>1, <2>2 DEF Untouched
  <2>3. CASE HomeWrites(j)
    BY <2>1, <2>3 DEF HomeWrites, HomeMayWrite
  <2>4. CASE BotWrites(j)
    BY <1>3, <2>1, <2>4 DEF BotWrites, BotMayWrite
  <2>5. CASE HomeDeletes(j)
    BY <2>5 DEF HomeDeletes, Kept
  <2>6. CASE BotDeletes(j)
    BY <1>3, <2>1, <2>6 DEF BotDeletes, Absent
  <2>7. CASE KeepsHere(j)
    BY <2>1, <2>7 DEF KeepsHere
  <2> QED
    BY <1>1, <2>2, <2>3, <2>4, <2>5, <2>6, <2>7 DEF Touches
<1>11. HomeJobsStay'
  BY <1>2, <1>4, <1>5, <1>t DEF ContentInv, HomeJobsStay, StillHome
<1>12. OffersAreCurrent'
  <2>1. ASSUME step = "storing", NEW m \in page, Kept(m.job)', home'[m.job].handover = "offered"
        PROVE  m.version = edits'[m.job]
    <3>1. Kept(m.job) /\ home[m.job].owner = "home" /\ Carried(m.job) /\ m.job \in Jobs
      BY <1>4, <1>t, <2>1 DEF ContentInv, HomeJobsStay, StillHome, Carried
    <3>2. home[m.job].handover = "offered"
      BY <1>8, <2>1, <3>1 DEF Kept
    <3> QED
      BY <1>9, <2>1, <3>1, <3>2 DEF ContentInv, OffersAreCurrent
  <2>2. ASSUME NEW j \in Jobs, Kept(j)',
               \/ step = "storing" /\ j \in stored
               \/ \E m \in late : m.kind = "commit" /\ m.job = j
        PROVE  /\ bot'[j].owner = "home"
               /\ home'[j].owner = "home" /\ home'[j].handover = "offered"
                  => bot'[j].version = edits'[j]
    <3>1. /\ Kept(j) /\ Carried(j) /\ bot[j].owner = "home"
          /\ home[j].owner = "home" /\ home[j].handover = "offered" => bot[j].version = edits[j]
      BY <1>4, <2>2 DEF ContentInv, OffersAreCurrent, Carried
    <3>2. bot'[j] = bot[j]
      BY <1>7, <3>1 DEF BotMayWrite
    <3>3. home'[j].owner = "home" => home[j].owner = "home"
      BY LocalFrame
    <3> QED
      BY <1>8, <1>9, <2>2, <3>1, <3>2, <3>3 DEF Kept
  <2> QED
    BY <1>2, <2>1, <2>2 DEF OffersAreCurrent
<1>13. LateReturnsAreCurrent'
  <2> SUFFICES ASSUME NEW m \in late, m.kind = "return"
               PROVE  /\ late' = {m} /\ home'[m.job].owner # "home"
                      /\ Kept(m.job)' => m.version = edits'[m.job]
    BY <1>2 DEF LateReturnsAreCurrent
  <2>1. /\ late = {m} /\ home[m.job].owner # "home"
        /\ Kept(m.job) => m.version = edits[m.job]
    BY DEF ContentInv, LateReturnsAreCurrent
  <2>2. Untouched(m.job)
    BY <1>6, <1>t, <2>1 DEF IInv, LateReturnsAreMarked, HomeMayWrite, BotMayWrite
  <2> QED
    BY <1>2, <1>4, <1>t, <2>1, <2>2 DEF Untouched
<1> QED
  BY <1>2, <1>10, <1>11, <1>12, <1>13 DEF ContentInv, StoredInStep

\* The round's steps that read a row and keep what it says: the jobs home owns
\* keep their rows there, and no row of the bot's changes its content.
HomeRowsStay ==
  \A j \in Jobs : /\ home'[j].owner = "home" => home'[j] = home[j]
                  /\ home[j].owner = "home" => home'[j] = home[j]
BotContentStays ==
  \A j \in Jobs : bot'[j].owner # "absent" =>
    bot[j].owner # "absent" /\ bot'[j].version = bot[j].version

LEMMA OwnersFrame ==
  ASSUME OwnersAreCurrent, HomeRowsStay, BotContentStays, UNCHANGED <<edits, deleted>>
  PROVE  OwnersAreCurrent'
  BY DEF OwnersAreCurrent, HomeRowsStay, BotContentStays, Kept

\* Outside the steps that hold home's bundles, with nothing on its way.
LEMMA ElsewhereContent ==
  ASSUME OwnersAreCurrent', step' \notin {"pull", "storing"}, late' = {},
         step' = "taken" \/ stored' = {}
  PROVE  ContentInv'
  BY DEF ContentInv, StoredInStep, HomeJobsStay, OffersAreCurrent, LateReturnsAreCurrent

LEMMA BundleFields ==
  ASSUME NEW says, NEW j, NEW row
  PROVE  /\ Bundle(says, j, row).says = says /\ Bundle(says, j, row).job = j
         /\ Bundle(says, j, row).version = row.version
         /\ Bare(says, j).says = says /\ Bare(says, j).job = j
  BY DEF Bundle, Bare

LEMMA VersionKept ==
  ASSUME NEW row \in Row, NEW owner, NEW says, NEW handover
  PROVE  /\ Given(row, owner).version = row.version
         /\ [row EXCEPT !.handover = handover].version = row.version
         /\ [row EXCEPT !.handover = handover].owner = row.owner
         /\ ReconciledRow(row, says).owner # "absent" =>
              row.owner # "absent" /\ ReconciledRow(row, says).version = row.version
<1>1. \A o : Given(row, o).version = row.version
  BY DEF Given, Row
<1>2. /\ [row EXCEPT !.handover = handover].version = row.version
      /\ [row EXCEPT !.handover = handover].owner = row.owner
  BY DEF Row
<1>3. ReconciledRow(row, says).owner # "absent" =>
        row.owner # "absent" /\ ReconciledRow(row, says).version = row.version
  BY <1>1 DEF ReconciledRow, Absent
<1> QED
  BY <1>1, <1>2, <1>3

LEMMA PushPullContent ==
  ASSUME NoOverlap, TypeInv, IInv, ContentInv,
         \/ StartRound \/ ReconcileOne \/ ListPush \/ PushTombstone \/ PushOne
         \/ DropIfIdle \/ ListPull \/ PullOne
  PROVE  ContentInv'
<1> USE DEF local
<1>l. step # "idle" => late = {}
  BY DEF IInv, LateReturnsAreMarked
<1>s. OwnersAreCurrent /\ (step \notin {"storing", "taken"} => stored = {})
  BY DEF ContentInv, StoredInStep
<1>t. /\ \A m \in page : m \in Item /\ m.job \in Jobs
      /\ home \in [Jobs -> Row] /\ bot \in [Jobs -> Row]
      /\ TypeOK
  BY UsedJobs DEF TypeInv
<1>1. CASE StartRound
  <2>1. OwnersAreCurrent'
    BY <1>1, <1>s, OwnersFrame DEF StartRound, HomeRowsStay, BotContentStays
  <2> QED
    BY <1>1, <1>s, <2>1, ElsewhereContent DEF StartRound, NoOverlap
<1>2. CASE ReconcileOne
  <2>1. PICK m \in page : bot' = [bot EXCEPT ![m.job] = ReconciledRow(@, m.says)]
    BY <1>2 DEF ReconcileOne
  <2>2. BotContentStays
    BY <1>t, <2>1, VersionKept DEF BotContentStays
  <2>3. OwnersAreCurrent'
    BY <1>2, <1>s, <2>2, OwnersFrame DEF ReconcileOne, HomeRowsStay
  <2> QED
    BY <1>2, <1>l, <1>s, <2>3, ElsewhereContent DEF ReconcileOne
<1>3. CASE ListPush
  <2>1. OwnersAreCurrent'
    BY <1>3, <1>s, OwnersFrame DEF ListPush, HomeRowsStay, BotContentStays
  <2> QED
    BY <1>3, <1>l, <1>s, <2>1, ElsewhereContent DEF ListPush
<1>4. CASE PushTombstone
  <2>1. HomeRowsStay
    BY <1>4, <1>t DEF PushTombstone, HomeRowsStay, Absent
  <2>2. OwnersAreCurrent'
    BY <1>4, <1>s, <2>1, OwnersFrame DEF PushTombstone, BotContentStays
  <2> QED
    BY <1>4, <1>l, <1>s, <2>2, ElsewhereContent DEF PushTombstone
<1>5. CASE PushOne
  <2>1. PICK m \in page : HomeStores(m)
    BY <1>5 DEF PushOne
  <2>2. HomeRowsStay
    BY <1>t, <2>1, CopiedFields DEF HomeStores, AcceptsFromBot, HomeRowsStay
  <2>3. OwnersAreCurrent'
    BY <1>5, <1>s, <2>2, OwnersFrame DEF PushOne, BotContentStays
  <2> QED
    BY <1>5, <1>l, <1>s, <2>3, ElsewhereContent DEF PushOne
<1>6. CASE DropIfIdle
  <2>1. BotContentStays
    BY <1>6, <1>t DEF DropIfIdle, BotContentStays, Absent
  <2>2. OwnersAreCurrent'
    BY <1>6, <1>s, <2>1, OwnersFrame DEF DropIfIdle, HomeRowsStay
  <2> QED
    BY <1>6, <1>l, <1>s, <2>2, ElsewhereContent DEF DropIfIdle
<1>7. CASE ListPull
  <2>1. OwnersAreCurrent'
    BY <1>7, <1>s, OwnersFrame DEF ListPull, HomeRowsStay, BotContentStays
  <2>2. UNCHANGED <<home, deleted>> /\ step' = "pull" /\ late' = {} /\ stored' = {}
    BY <1>7, <1>l, <1>s DEF ListPull
  <2>3. \A m \in page' : m.says = "store" => home[m.job].owner = "home"
    <3>1. PICK due \in SUBSET {j \in Jobs : home[j].owner = "home"}, gone \in SUBSET deleted :
            page' = {Bundle("store", j, home[j]) : j \in due} \cup {Bare("tombstone", j) : j \in gone}
      BY <1>7 DEF ListPull
    <3>2. \A j : /\ Bundle("store", j, home[j]).job = j
                  /\ Bare("tombstone", j).says # "store"
      BY DEF Bundle, Bare
    <3> QED
      BY <3>1, <3>2
  <2> QED
    BY <2>1, <2>2, <2>3 DEF ContentInv, StoredInStep, HomeJobsStay, StillHome, OffersAreCurrent,
       LateReturnsAreCurrent
<1>8. CASE PullOne
  <2>1. PICK m \in page :
          /\ bot' = IF m.says = "store" THEN [bot EXCEPT ![m.job] = Copied(@, m, "home")]
                    ELSE IF bot[m.job].owner = "home" THEN [bot EXCEPT ![m.job] = Absent]
                    ELSE bot
          /\ page' = page \ {m}
    BY <1>8 DEF PullOne
  <2>2. UNCHANGED <<home, edits, deleted, step>> /\ step = "pull" /\ late' = {} /\ stored' = {}
    BY <1>8, <1>l, <1>s DEF PullOne
  <2>3. \A j \in Jobs : \/ bot'[j] = bot[j] \/ bot'[j] = Absent
                        \/ j = m.job /\ m.says = "store"
    BY <1>t, <2>1
  <2>4. m.says = "store" => StillHome(m.job)
    BY <2>2 DEF ContentInv, HomeJobsStay
  <2>5. OwnersAreCurrent'
    BY <1>s, <2>2, <2>3, <2>4 DEF OwnersAreCurrent, StillHome, Kept, Absent
  <2>6. HomeJobsStay'
    BY <2>1, <2>2 DEF ContentInv, HomeJobsStay, StillHome, Kept
  <2> QED
    BY <2>2, <2>5, <2>6 DEF ContentInv, StoredInStep, OffersAreCurrent, LateReturnsAreCurrent
<1> QED
  BY <1>1, <1>2, <1>3, <1>4, <1>5, <1>6, <1>7, <1>8

LEMMA OffersContent ==
  ASSUME NoCommitRead, TypeInv, IInv, ContentInv,
         \/ FetchRequests \/ PostAnswers \/ GetOffers \/ StoreOffer \/ SkipOffer
         \/ ReadCommit \/ PostCommit \/ TakeCommitted
  PROVE  ContentInv'
<1> USE DEF local
<1>l. step # "idle" => late = {}
  BY DEF IInv, LateReturnsAreMarked
<1>s. OwnersAreCurrent /\ (step \notin {"storing", "taken"} => stored = {})
  BY DEF ContentInv, StoredInStep
<1>t. /\ \A m \in page : m \in Item /\ m.job \in Jobs
      /\ home \in [Jobs -> Row] /\ bot \in [Jobs -> Row]
      /\ stored \subseteq Jobs
  BY UsedJobs
<1>0. step # "committing" /\ ~ReadCommit
  BY DEF NoCommitRead, ReadCommit, TypeInv, RoundOK
<1>1. CASE FetchRequests \/ PostAnswers
  <2>1. OwnersAreCurrent'
    BY <1>1, <1>s, OwnersFrame DEF FetchRequests, PostAnswers, HomeRowsStay, BotContentStays
  <2> QED
    BY <1>1, <1>l, <1>s, <2>1, ElsewhereContent DEF FetchRequests, PostAnswers
<1>2. CASE GetOffers
  <2>1. OwnersAreCurrent'
    BY <1>2, <1>s, OwnersFrame DEF GetOffers, HomeRowsStay, BotContentStays
  <2>2. UNCHANGED <<home, edits, deleted>> /\ step' = "storing" /\ late' = {} /\ stored' = {}
    BY <1>2, <1>l, <1>s DEF GetOffers
  <2>3. \A m \in page' : /\ m.job \in Jobs /\ home[m.job].owner = "home"
                         /\ m.version = home[m.job].version
    BY <1>2, BundleFields DEF GetOffers, Committable
  <2>4. HomeJobsStay'
    BY <2>2, <2>3 DEF HomeJobsStay, StillHome
  <2>5. OffersAreCurrent'
    BY <1>s, <2>2, <2>3 DEF OffersAreCurrent, OwnersAreCurrent, Kept
  <2> QED
    BY <2>1, <2>2, <2>4, <2>5 DEF ContentInv, StoredInStep, LateReturnsAreCurrent
<1>3. CASE StoreOffer
  <2>1. PICK m \in page : /\ bot' = [bot EXCEPT ![m.job] = Copied(@, m, "home")]
                          /\ stored' = stored \cup {m.job}
                          /\ page' = page \ {m}
    BY <1>3 DEF StoreOffer
  <2>2. UNCHANGED <<home, edits, deleted, step>> /\ step = "storing" /\ late' = {}
    BY <1>3, <1>l DEF StoreOffer
  <2>3. /\ bot'[m.job].owner = "home" /\ bot'[m.job].version = m.version
        /\ \A j \in Jobs : j # m.job => bot'[j] = bot[j]
    BY <1>t, <2>1 DEF Copied
  <2>4. StillHome(m.job)
    BY <2>2 DEF ContentInv, HomeJobsStay
  <2>5. OwnersAreCurrent'
    BY <1>s, <2>2, <2>3, <2>4 DEF OwnersAreCurrent, StillHome, Kept
  <2>6. HomeJobsStay'
    BY <2>1, <2>2 DEF ContentInv, HomeJobsStay, StillHome, Kept
  <2>7. OffersAreCurrent'
    BY <2>1, <2>2, <2>3 DEF ContentInv, OffersAreCurrent, Kept
  <2> QED
    BY <2>2, <2>5, <2>6, <2>7 DEF ContentInv, StoredInStep, LateReturnsAreCurrent
<1>4. CASE SkipOffer
  <2>1. UNCHANGED <<home, bot, edits, deleted, step, stored>> /\ late' = {} /\ page' \subseteq page
    BY <1>4, <1>l DEF SkipOffer
  <2> QED
    BY <2>1 DEF ContentInv, OwnersAreCurrent, StoredInStep, HomeJobsStay, StillHome, OffersAreCurrent,
       LateReturnsAreCurrent, Kept
<1>5. CASE PostCommit
  <2>1. /\ UNCHANGED <<bot, edits, deleted>> /\ step = "storing" /\ step' = "taken" /\ late' = {}
        /\ HomeCommits(Committable(stored))
    BY <1>0, <1>5, <1>l DEF PostCommit, Taken
  <2>2. \A j \in Jobs : \/ home'[j] = home[j]
                        \/ /\ j \in stored /\ home[j].owner = "home" /\ home[j].handover = "offered"
                           /\ home'[j].owner = "bot"
    BY <1>t, <2>1, GivenFields DEF HomeCommits, Committable
  <2>3. OwnersAreCurrent'
    BY <1>s, <2>1, <2>2 DEF ContentInv, OwnersAreCurrent, OffersAreCurrent, Kept
  <2> QED
    BY <2>1, <2>3, ElsewhereContent
<1>6. CASE TakeCommitted
  <2>1. BotContentStays
    BY <1>6, <1>t, VersionKept DEF TakeCommitted, BotContentStays
  <2>2. OwnersAreCurrent'
    BY <1>6, <1>s, <2>1, OwnersFrame DEF TakeCommitted, HomeRowsStay
  <2> QED
    BY <1>6, <1>l, <2>2, ElsewhereContent DEF TakeCommitted
<1> QED
  BY <1>0, <1>1, <1>2, <1>3, <1>4, <1>5, <1>6

LEMMA ReturnsContent ==
  ASSUME TypeInv, IInv, ContentInv,
         \/ \E a \in Asks : DecideReturn(a)
         \/ CheckApplying \/ HandBack \/ HandBackRefused \/ SettleReturn
         \/ FinishReturn \/ PostResults
  PROVE  ContentInv'
<1> USE DEF local
<1> DEFINE j == JobOf[current]
<1>l. step # "idle" => late = {}
  BY DEF IInv, LateReturnsAreMarked
<1>s. OwnersAreCurrent /\ (step \notin {"storing", "taken"} => stored = {})
  BY DEF ContentInv, StoredInStep
<1>t. /\ home \in [Jobs -> Row] /\ bot \in [Jobs -> Row]
      /\ \A a \in Asks : JobOf[a] \in Jobs
      /\ step \in Deciding => j \in Jobs
  BY UsedJobs
<1>1. ASSUME NEW a \in Asks, DecideReturn(a)
      PROVE  ContentInv'
  <2>1. BotContentStays
    BY <1>1, <1>t, VersionKept DEF DecideReturn, BotContentStays
  <2>2. OwnersAreCurrent'
    BY <1>1, <1>s, <2>1, OwnersFrame DEF DecideReturn, HomeRowsStay
  <2>3. /\ step = "returns" /\ UNCHANGED <<late, stored>>
        /\ step' \in {"refusing", "handed", "marked"}
    BY <1>1, <1>t DEF DecideReturn, Row
  <2> QED
    BY <1>l, <1>s, <2>2, <2>3, ElsewhereContent
<1>2. CASE CheckApplying
  <2>1. bot' = bot \/ bot' = [bot EXCEPT ![j].handover = "none"]
    BY <1>2 DEF CheckApplying
  <2>2. j \in Jobs /\ step = "marked" /\ UNCHANGED <<late, stored>> /\ step' \in {"refusing", "checked"}
    BY <1>2, <1>t DEF CheckApplying, Deciding
  <2>3. BotContentStays
    <3>1. /\ [bot[j] EXCEPT !.handover = "none"].version = bot[j].version
          /\ [bot[j] EXCEPT !.handover = "none"].owner = bot[j].owner
      BY <1>t, <2>2, VersionKept
    <3> QED
      BY <1>t, <2>1, <2>2, <3>1 DEF BotContentStays
  <2>4. OwnersAreCurrent'
    BY <1>2, <1>s, <2>3, OwnersFrame DEF CheckApplying, HomeRowsStay
  <2> QED
    BY <1>l, <1>s, <2>2, <2>4, ElsewhereContent
<1>3. CASE HandBack
  <2>1. /\ UNCHANGED <<bot, edits, deleted, late, stored>>
        /\ step = "checked" /\ step' = "landed" /\ j \in Jobs
    BY <1>3, <1>t DEF HandBack, Deciding
  <2>2. PICK b : b = Bundle("send", j, bot[j])
    OBVIOUS
  <2>3. b.job = j /\ b.version = bot[j].version
    BY <2>2, BundleFields
  <2>4. home' = [home EXCEPT ![j] = Given(Copied(home[j], b, "home"), "home")]
    BY <1>3, <2>2, <2>3 DEF HandBack, HomeTakesBack
  <2>5. Given(Copied(home[j], b, "home"), "home").version = bot[j].version
    BY <2>3 DEF Given, Copied
  <2>6. home[j].owner # "home" /\ bot[j].owner = "bot"
    BY <2>1 DEF IInv, DecidedNotHome
  <2>7. OwnersAreCurrent'
    BY <1>s, <1>t, <2>1, <2>4, <2>5, <2>6 DEF OwnersAreCurrent, Kept
  <2> QED
    BY <1>l, <1>s, <2>1, <2>7, ElsewhereContent
<1>4. CASE HandBackRefused \/ SettleReturn \/ PostResults
  <2>1. OwnersAreCurrent'
    BY <1>4, <1>s, OwnersFrame DEF HandBackRefused, SettleReturn, PostResults, HomeRowsStay,
       BotContentStays
  <2> QED
    BY <1>4, <1>l, <1>s, <2>1, ElsewhereContent DEF HandBackRefused, SettleReturn, PostResults
<1>5. CASE FinishReturn
  <2>1. \/ bot' = bot
        \/ bot[j].owner # "absent" /\ bot' = [bot EXCEPT ![j] = Given(@, "home")]
        \/ bot' = [bot EXCEPT ![j].handover = "none"]
    BY <1>5 DEF FinishReturn
  <2>2. BotContentStays
    BY <1>5, <1>t, <2>1, VersionKept DEF BotContentStays, Deciding, FinishReturn
  <2>3. OwnersAreCurrent'
    BY <1>5, <1>s, <2>2, OwnersFrame DEF FinishReturn, HomeRowsStay
  <2> QED
    BY <1>5, <1>l, <1>s, <2>3, ElsewhereContent DEF FinishReturn
<1> QED
  BY <1>1, <1>2, <1>3, <1>4, <1>5

LEMMA LostCommits ==
  ASSUME NoCommitRead, TypeInv, NEW m \in Outstanding \cup Unsettled, m.kind = "commit"
  PROVE  step = "storing" /\ m.job \in stored
<1>0. step # "committing"
  BY DEF NoCommitRead, TypeInv, RoundOK
<1>1. \A kind, i : Late(kind, i).kind = kind /\ Late(kind, i).job = i.job
  BY DEF Late
<1>2. \A j : Bare("offer", j).job = j
  BY DEF Bare
<1>4. m \notin Unsettled
  BY <1>1 DEF Unsettled
<1>5. CASE step = "push"
  BY <1>1, <1>4, <1>5 DEF Outstanding
<1>6. CASE (step = "storing" /\ page = {}) \/ step = "committing"
  BY <1>0, <1>1, <1>2, <1>4, <1>6 DEF Outstanding
<1>7. CASE step = "checked"
  BY <1>1, <1>4, <1>7 DEF Outstanding
<1>8. CASE step \notin {"push", "checked", "committing"} /\ ~(step = "storing" /\ page = {})
  BY <1>4, <1>8 DEF Outstanding
<1> QED
  BY <1>5, <1>6, <1>7, <1>8

LEMMA FailureContent ==
  ASSUME NoCommitRead, TypeInv, IInv, ContentInv, Failure
  PROVE  ContentInv'
<1>t. /\ \A m \in late : m \in Request /\ m.job \in Jobs
      /\ home \in [Jobs -> Row] /\ bot \in [Jobs -> Row]
      /\ stored \subseteq Jobs /\ (step \in Deciding => JobOf[current] \in Jobs)
  BY UsedJobs
<1>s. OwnersAreCurrent
  BY DEF ContentInv
<1>1. CASE GiveUp
  <2>1. /\ UNCHANGED <<home, bot, edits, deleted>> /\ step' = "idle" /\ stored' = {}
        /\ late' \subseteq late \cup Outstanding \cup Unsettled
    BY <1>1 DEF GiveUp, local
  <2>2. late = {}
    BY <1>1 DEF GiveUp, IInv, LateReturnsAreMarked
  <2>3. OwnersAreCurrent'
    BY <1>s, <2>1, OwnersFrame DEF HomeRowsStay, BotContentStays
  <2>4. OffersAreCurrent'
    BY <2>1, <2>2, LostCommits DEF ContentInv, OffersAreCurrent, Kept
  <2>5. ASSUME NEW m \in late', m.kind = "return"
        PROVE  /\ late' = {m} /\ home[m.job].owner # "home"
               /\ Kept(m.job) => m.version = edits[m.job]
    <3>1. /\ step = "checked" /\ m.job = JobOf[current] /\ m.version = bot[JobOf[current]].version
          /\ Outstanding \cup Unsettled = {m}
      BY <2>1, <2>2, <2>5, LostReturns
    <3>2. bot[m.job].owner = "bot" /\ home[m.job].owner # "home" /\ m.job \in Jobs
      BY <1>t, <3>1 DEF IInv, DecidedNotHome, Deciding
    <3> QED
      BY <1>s, <2>1, <2>2, <2>5, <3>1, <3>2 DEF OwnersAreCurrent
  <2>6. LateReturnsAreCurrent'
    BY <2>1, <2>5 DEF LateReturnsAreCurrent, Kept
  <2> QED
    BY <2>1, <2>3, <2>4, <2>6 DEF ContentInv, StoredInStep, HomeJobsStay
<1>2. ASSUME NEW m \in late, Land(m)
      PROVE  ContentInv'
  <2>1. step = "idle"
    BY DEF IInv, LateReturnsAreMarked
  <2>2. UNCHANGED <<bot, edits, deleted, step, stored>> /\ late' = late \ {m}
    BY <1>2 DEF Land, round
  <2>3. m \in Request /\ m.job \in Jobs
    BY <1>t
  <2>4. LateReturnsAreCurrent'
    BY <2>2 DEF ContentInv, LateReturnsAreCurrent
  <2>5. CASE LandSend(m) \/ LandSettle(m)
    <3>1. HomeRowsStay
      BY <1>t, <2>3, <2>5, CopiedFields DEF LandSend, LandSettle, HomeStores, AcceptsFromBot, HomeRowsStay
    <3>2. OwnersAreCurrent'
      BY <1>s, <2>2, <3>1, OwnersFrame DEF BotContentStays
    <3>3. OffersAreCurrent'
      BY <2>1, <2>2, <3>1 DEF ContentInv, OffersAreCurrent, HomeRowsStay, Kept
    <3> QED
      BY <2>1, <2>2, <2>4, <3>2, <3>3 DEF ContentInv, StoredInStep, HomeJobsStay
  <2>6. CASE LandCommit(m)
    <3>1. \A j \in Jobs : \/ home'[j] = home[j]
                          \/ /\ j = m.job /\ home[j].owner = "home" /\ home[j].handover = "offered"
                             /\ home'[j].owner = "bot"
      BY <1>t, <2>6, GivenFields DEF LandCommit, HomeCommits, Committable
    <3>2. m.kind = "commit"
      BY <2>6 DEF LandCommit
    <3>3. OwnersAreCurrent'
      BY <1>s, <2>2, <3>1, <3>2 DEF ContentInv, OwnersAreCurrent, OffersAreCurrent, Kept
    <3>4. OffersAreCurrent'
      BY <2>1, <2>2, <3>1 DEF ContentInv, OffersAreCurrent, Kept
    <3> QED
      BY <2>1, <2>2, <2>4, <3>3, <3>4 DEF ContentInv, StoredInStep, HomeJobsStay
  <2>7. CASE LandReturn(m)
    <3>1. /\ late = {m} /\ home[m.job].owner # "home"
          /\ Kept(m.job) => m.version = edits[m.job]
      BY <2>7 DEF LandReturn, ContentInv, LateReturnsAreCurrent
    <3>2. Given(Copied(home[m.job], m, "home"), "home").version = m.version
      BY DEF Given, Copied
    <3>3. home' = home \/ home' = [home EXCEPT ![m.job] = Given(Copied(home[m.job], m, "home"), "home")]
      BY <2>7 DEF LandReturn, HomeTakesBack
    <3>4. OwnersAreCurrent'
      <4>1. CASE home' = home
        BY <1>s, <2>2, <4>1 DEF OwnersAreCurrent, Kept
      <4>2. CASE home' = [home EXCEPT ![m.job] = Given(Copied(home[m.job], m, "home"), "home")]
        <5>1. /\ home'[m.job].version = m.version
              /\ home'[m.job].owner = "home"
              /\ \A j \in Jobs : j # m.job => home'[j] = home[j]
          BY <1>t, <2>3, <3>2, <4>2 DEF Given, Copied
        <5> QED
          BY <1>s, <2>2, <3>1, <5>1 DEF OwnersAreCurrent, Kept
      <4> QED
        BY <3>3, <4>1, <4>2
    <3> QED
      BY <2>1, <2>2, <2>4, <3>1, <3>4 DEF ContentInv, StoredInStep, HomeJobsStay, OffersAreCurrent
  <2> QED
    BY <1>2, <2>5, <2>6, <2>7 DEF Land
<1> QED
  BY <1>1, <1>2 DEF Failure

LEMMA InitContent == Init => ContentInv
<1> SUFFICES ASSUME Init PROVE ContentInv
  OBVIOUS
<1>1. \A j \in Jobs : home[j].version = 0 /\ bot[j].version = 0 /\ edits[j] = 0
  BY DEF Init, New, Absent
<1> QED
  BY <1>1 DEF Init, ContentInv, OwnersAreCurrent, StoredInStep, HomeJobsStay, OffersAreCurrent,
     LateReturnsAreCurrent

LEMMA NextContent ==
  ASSUME NoCommitRead, NoOverlap, NoGuard, TypeInv, IInv, FrozenInv, ContentInv, [Next]_vars, [NotRequeued]_vars
  PROVE  ContentInv'
<1>1. CASE UNCHANGED vars
  BY <1>1 DEF vars, ContentInv, OwnersAreCurrent, StoredInStep, HomeJobsStay, StillHome,
     OffersAreCurrent, LateReturnsAreCurrent, Kept
<1>2. CASE ~UNCHANGED vars
  BY <1>2, LocalContent, PushPullContent, OffersContent, ReturnsContent, FailureContent
     DEF Next, RoundStep
<1> QED
  BY <1>1, <1>2

LEMMA CurrentWriters == IInv /\ ContentInv => WriterIsCurrent
<1> SUFFICES ASSUME IInv, ContentInv, NEW j \in Jobs \ deleted
             PROVE  /\ HomeMayWrite(j) => home[j].version = edits[j]
                    /\ BotMayWrite(j) => bot[j].version = edits[j]
  BY DEF WriterIsCurrent
<1>1. BotMayWrite(j) => home[j].owner # "home" /\ bot[j].owner # "absent"
  BY DEF IInv, BothOwnOnlyWhileReturning, BotMayWrite
<1> QED
  BY <1>1 DEF ContentInv, OwnersAreCurrent, Kept, HomeMayWrite

\* The copy that may write holds every write made so far, on either copy,
\* however often a job goes to the bot and comes back and whatever is lost on
\* the way, if no round starts over an earlier one's request, no write is
\* between its guard and its flush, nothing comes between what post_commit read
\* and what it saves, and no job is queued again while a round carries an offer
\* of it.  Each of the four breaks it: the commit of an offer names the job and
\* not the revision that was fetched.
THEOREM WriterIsAlwaysCurrent ==
  NoOverlap /\ NoGuard /\ NoCommitRead => (Spec /\ [][NotRequeued]_vars => []WriterIsCurrent)
<1> SUFFICES ASSUME NoOverlap, NoGuard, NoCommitRead PROVE Spec /\ [][NotRequeued]_vars => []WriterIsCurrent
  OBVIOUS
<1> DEFINE Inv == TypeInv /\ IInv /\ FrozenInv /\ ContentInv
<1>1. Init => Inv
  BY InitTypeInv, InitIInv, InitFrozen, InitContent
<1>2. Inv /\ [Next]_vars /\ [NotRequeued]_vars => Inv'
  BY NextTypeInv, NextIInv, NextFrozen, NextContent
<1>3. Inv => WriterIsCurrent
  BY CurrentWriters
<1> QED
  BY <1>1, <1>2, <1>3, PTL DEF Spec

\* Before the first offer nothing is offered, and no round carries any.
NothingOffered == offers = 0 => \A j \in Jobs : home[j].handover # "offered" /\ ~Carried(j)

LEMMA LocalOffers ==
  ASSUME NoGuard, TypeInv, FrozenInv, NothingOffered, LocalStep
  PROVE  NothingOffered'
<1>1. \A j \in Jobs : Touches(j)
  BY LocalTouches DEF FrozenInv, TypeInv
<1>2. UNCHANGED <<late, step, page, stored>>
  BY LocalFrame DEF round
<1>3. (\E j \in Jobs : QueueForBot(j)) => offers' # 0
  BY DEF QueueForBot, TypeInv, TypeOK
<1>4. (\A j \in Jobs : ~QueueForBot(j)) => offers' = offers
  BY DEF LocalStep, Write, PassGuard, FlushPassed, DeleteAtHome, DeleteAtBot, PeekSwitch, QueueFails, KeepHere,
         SetFullAutomation, WorkHere
<1>5. \A j \in Jobs : home'[j].handover = "offered" => home[j].handover = "offered" \/ QueueForBot(j)
  BY <1>1 DEF Touches, Untouched, HomeWrites, BotWrites, HomeDeletes, BotDeletes, KeepsHere, Absent
<1> QED
  BY <1>2, <1>3, <1>4, <1>5 DEF NothingOffered, Carried

\* Nothing the round or a late request does offers a job.
LEMMA RoundOffersNone ==
  ASSUME TypeInv, RoundStep \/ Failure
  PROVE  /\ offers' = offers
         /\ \A j \in Jobs : home'[j].handover = "offered" => home[j].handover = "offered"
<1> USE DEF local
<1>t. /\ \A m \in page : m \in Item /\ m.job \in Jobs
      /\ \A m \in late : m \in Request /\ m.job \in Jobs
      /\ home \in [Jobs -> Row] /\ bot \in [Jobs -> Row]
  BY UsedJobs
<1>1. ASSUME NEW m \in Item \cup Request, HomeStores(m)
      PROVE  \A j \in Jobs : home'[j].handover = "offered" => home[j].handover = "offered"
  BY <1>1, <1>t, CopiedFields DEF HomeStores, Item, Request
<1>2. ASSUME NEW js, HomeCommits(js)
      PROVE  \A j \in Jobs : home'[j].handover = "offered" => home[j].handover = "offered"
  BY <1>2, <1>t, GivenFields DEF HomeCommits
<1>3. ASSUME NEW m, m.job \in Jobs, HomeTakesBack(m)
      PROVE  \A j \in Jobs : home'[j].handover = "offered" => home[j].handover = "offered"
  <2>1. Given(Copied(home[m.job], m, "home"), "home").handover = "none"
    BY DEF Given, Copied
  <2> QED
    BY <1>3, <1>t, <2>1 DEF HomeTakesBack
<1>4. CASE \/ StartRound \/ ReconcileOne \/ ListPush \/ DropIfIdle \/ ListPull \/ PullOne \/ GetOffers
           \/ StoreOffer \/ SkipOffer \/ ReadCommit \/ TakeCommitted \/ CheckApplying \/ HandBackRefused
           \/ FinishReturn \/ \E a \in Asks : DecideReturn(a)
  BY <1>4 DEF StartRound, ReconcileOne, ListPush, DropIfIdle, ListPull, PullOne, GetOffers,
     StoreOffer, SkipOffer, ReadCommit, TakeCommitted, CheckApplying, HandBackRefused, FinishReturn, DecideReturn
<1>5. CASE FetchRequests \/ PostAnswers \/ PostResults \/ SettleReturn \/ GiveUp
  BY <1>5 DEF FetchRequests, PostAnswers, PostResults, SettleReturn, GiveUp
<1>6. CASE PushTombstone
  BY <1>6, <1>t DEF PushTombstone, Absent
<1>7. CASE PushOne
  BY <1>7, <1>t, <1>1 DEF PushOne
<1>8. CASE PostCommit
  BY <1>8, <1>2 DEF PostCommit
<1>9. CASE HandBack
  <2>1. JobOf[current] \in Jobs /\ Bundle("send", JobOf[current], bot[JobOf[current]]).job = JobOf[current]
    BY <1>9, UsedJobs DEF HandBack, Deciding, Bundle
  <2> QED
    BY <1>9, <1>3, <2>1 DEF HandBack
<1>10. ASSUME NEW m \in late, Land(m)
       PROVE  /\ offers' = offers
              /\ \A j \in Jobs : home'[j].handover = "offered" => home[j].handover = "offered"
  BY <1>10, <1>t, <1>1, <1>2, <1>3 DEF Land, LandSend, LandCommit, LandReturn, LandSettle
<1> QED
  BY <1>4, <1>5, <1>6, <1>7, <1>8, <1>9, <1>10 DEF RoundStep, Failure

LEMMA RoundOffers ==
  ASSUME NoCommitRead, TypeInv, StoredInStep, NothingOffered, RoundStep \/ Failure
  PROVE  NothingOffered'
<1>1. /\ offers' = offers
      /\ \A j \in Jobs : home'[j].handover = "offered" => home[j].handover = "offered"
  BY RoundOffersNone
<1>t. \A m \in page : m.job \in Jobs
  BY UsedJobs
<1> SUFFICES ASSUME offers = 0, NEW j \in Jobs, Carried(j)' PROVE FALSE
  BY <1>1 DEF NothingOffered
<1>0. step # "committing" /\ ~ReadCommit
  BY DEF NoCommitRead, ReadCommit, TypeInv, RoundOK
<1>2. home[j].handover # "offered" /\ ~Carried(j)
  BY DEF NothingOffered
<1>3. CASE GiveUp
  <2>1. PICK m \in late' : m.kind = "commit" /\ m.job = j
    BY <1>3 DEF GiveUp, Carried
  <2>2. m \in late \/ m \in Outstanding \cup Unsettled
    BY <1>3 DEF GiveUp
  <2> QED
    BY <1>2, <2>1, <2>2, LostCommits DEF Carried
<1>4. CASE ~GiveUp
  <2>1. late' \subseteq late
    BY <1>4 DEF RoundStep, Failure, StartRound, ReconcileOne, ListPush, PushTombstone, PushOne,
       DropIfIdle, ListPull, PullOne, FetchRequests, PostAnswers, GetOffers, StoreOffer, SkipOffer, ReadCommit,
       PostCommit, TakeCommitted, DecideReturn, CheckApplying, HandBack, HandBackRefused,
       SettleReturn, FinishReturn, PostResults, Land
  <2>2. step' = "storing" /\ (j \in stored' \/ \E m \in page' : m.job = j)
    BY <1>2, <2>1 DEF Carried
  <2>3. \/ GetOffers
        \/ step = "storing" /\ (StoreOffer \/ SkipOffer \/ UNCHANGED <<page, stored>>)
    <3>1. \A a \in Asks : DecideReturn(a) => step' # "storing"
      BY UsedJobs DEF DecideReturn, Row
    <3>2. CASE RoundStep
      BY <1>0, <2>2, <3>1, <3>2 DEF RoundStep, StartRound, ReconcileOne, ListPush, PushTombstone, PushOne,
         DropIfIdle, ListPull, PullOne, FetchRequests, PostAnswers, StoreOffer, SkipOffer, ReadCommit,
         PostCommit, TakeCommitted, CheckApplying, HandBack, HandBackRefused,
         SettleReturn, FinishReturn, PostResults
    <3>3. CASE Failure
      BY <1>4, <2>2, <3>3 DEF Failure, Land, round
    <3> QED
      BY <3>2, <3>3
  <2>4. CASE GetOffers
    <3>1. stored' = {}
      BY <2>4 DEF GetOffers, StoredInStep
    <3>2. \A m \in page' : home[m.job].handover = "offered"
      BY <2>4, BundleFields DEF GetOffers, Committable
    <3> QED
      BY <1>2, <2>2, <3>1, <3>2
  <2>5. CASE step = "storing" /\ (StoreOffer \/ SkipOffer \/ UNCHANGED <<page, stored>>)
    BY <1>2, <2>2, <2>5 DEF StoreOffer, SkipOffer, Carried
  <2> QED
    BY <2>3, <2>4, <2>5
<1> QED
  BY <1>3, <1>4

LEMMA NextOffers ==
  ASSUME NoCommitRead, NoGuard, TypeInv, FrozenInv, ContentInv, NothingOffered, [Next]_vars
  PROVE  NothingOffered'
<1>1. CASE UNCHANGED vars
  BY <1>1 DEF vars, NothingOffered, Carried
<1> QED
  BY <1>1, LocalOffers, RoundOffers DEF Next, ContentInv

\* With one offer there is none to make while a round carries it.
LEMMA OneOfferIsNotRequeued ==
  ASSUME MaxOffers <= 1, TypeInv, NothingOffered
  PROVE  NotRequeued
<1> SUFFICES ASSUME NEW j \in Jobs, Carried(j), QueueForBot(j) PROVE FALSE
  BY DEF NotRequeued
<1>1. offers = 0
  BY BoundsAssumption DEF QueueForBot, TypeInv, TypeOK
<1> QED
  BY <1>1 DEF NothingOffered

\* The same for any jobs of which one is offered, once, with nothing asked of
\* the steps: the instance the handover run checks.
THEOREM OneOfferKeepsTheWriterCurrent ==
  NoOverlap /\ NoGuard /\ NoCommitRead /\ MaxOffers <= 1 => (Spec => []WriterIsCurrent)
<1> SUFFICES ASSUME NoOverlap, NoGuard, NoCommitRead, MaxOffers <= 1 PROVE Spec => []WriterIsCurrent
  OBVIOUS
<1> DEFINE Inv == TypeInv /\ IInv /\ FrozenInv /\ ContentInv /\ NothingOffered
<1>1. Init => Inv
  <2>1. Init => NothingOffered
    BY DEF Init, NothingOffered, Carried, New, Absent
  <2> QED
    BY <2>1, InitTypeInv, InitIInv, InitFrozen, InitContent
<1>2. Inv /\ [Next]_vars => Inv'
  BY NextTypeInv, NextIInv, NextFrozen, NextContent, NextOffers, OneOfferIsNotRequeued
<1>3. Inv => WriterIsCurrent
  BY CurrentWriters
<1> QED
  BY <1>1, <1>2, <1>3, PTL DEF Spec

-----------------------------------------------------------------------------
(* The handover implements JobOwnership *)

LEMMA NextDropped ==
  ASSUME TypeInv, DroppedAreDeleted, [Next]_vars
  PROVE  DroppedAreDeleted'
<1>d. deleted \subseteq deleted'
  BY DEF Next, LocalStep, Write, PassGuard, FlushPassed, DeleteAtHome, DeleteAtBot, PeekSwitch, QueueFails, QueueForBot, KeepHere,
     SetFullAutomation, WorkHere, RoundStep, StartRound, ReconcileOne, ListPush, PushTombstone, PushOne,
     DropIfIdle, ListPull, PullOne, FetchRequests, PostAnswers, GetOffers, StoreOffer, SkipOffer, ReadCommit,
     PostCommit, TakeCommitted, DecideReturn, CheckApplying, HandBack, HandBackRefused,
     SettleReturn, FinishReturn, PostResults, Failure, GiveUp, Land, local, vars
<1>1. CASE LocalStep \/ UNCHANGED vars \/ Failure
  <2>1. step' = "push" => UNCHANGED <<step, page>>
    BY <1>1, LocalFrame DEF round, vars, Failure, GiveUp, Land
  <2> QED
    BY <1>d, <2>1 DEF DroppedAreDeleted
<1>2. CASE RoundStep
  <2>1. CASE PushOne
    <3>1. PICK m \in page :
            page' = (page \ {m}) \cup IF DeletedHere(m.job) THEN {Bare("gone", m.job)} ELSE {}
      BY <2>1 DEF PushOne
    <3>2. ASSUME NEW i \in page' PROVE i \in page \/ (i.job = m.job /\ m.job \in deleted)
      BY <3>1, <3>2, BundleFields DEF DeletedHere
    <3> QED
      BY <1>d, <2>1, <3>2 DEF PushOne, DroppedAreDeleted
  <2>2. CASE ListPush
    <3>1. PICK due \in SUBSET Jobs :
            page' = {Bundle("send", j, bot[j]) : j \in due} \cup {Bare("tombstone", j) : j \in botDeleted}
      BY <2>2 DEF ListPush
    <3>2. \A j : Bundle("send", j, bot[j]).says # "gone" /\ Bare("tombstone", j).says # "gone"
      BY DEF Bundle, Bare
    <3>3. \A m \in page' : m.says # "gone"
      BY <3>1, <3>2
    <3> QED
      BY <3>3 DEF DroppedAreDeleted
  <2>3. CASE PushTombstone \/ DropIfIdle
    BY <1>d, <2>3 DEF PushTombstone, DropIfIdle, DroppedAreDeleted
  <2>4. ASSUME NEW a \in Asks, DecideReturn(a)
        PROVE  step' # "push"
    BY <2>4, UsedJobs DEF DecideReturn, Row
  <2>5. CASE ~PushOne /\ ~ListPush /\ ~PushTombstone /\ ~DropIfIdle
    <3>1. step' # "push"
      BY <1>2, <2>4, <2>5 DEF RoundStep, StartRound, ReconcileOne,
         ListPull, PullOne, FetchRequests, PostAnswers, GetOffers, StoreOffer, SkipOffer, ReadCommit,
         PostCommit, TakeCommitted, CheckApplying, HandBack, HandBackRefused,
         SettleReturn, FinishReturn, PostResults
    <3> QED
      BY <3>1 DEF DroppedAreDeleted
  <2> QED
    BY <2>1, <2>2, <2>3, <2>5
<1> QED
  BY <1>1, <1>2 DEF Next

HolderOf(j) ==
  IF Gone(j) THEN "gone" ELSE IF HomeMayWrite(j) THEN "home" ELSE IF BotMayWrite(j) THEN "bot" ELSE "moving"
TextOf(j) ==
  IF Gone(j) THEN 0 ELSE IF HomeMayWrite(j) THEN home[j].version
  ELSE IF BotMayWrite(j) THEN bot[j].version ELSE edits[j]

\* Whoever may write, the text is the writes made so far.
TextsAreEdits == \A j \in Jobs : TextOf(j) = IF Gone(j) THEN 0 ELSE edits[j]

LEMMA TextIsEdits == WriterIsCurrent => TextsAreEdits
  BY DEF TextOf, TextsAreEdits, WriterIsCurrent, Gone

\* What one step may do to the holder of a job and to the writes it contains.
HolderStays(j) == HolderOf(j)' = HolderOf(j) /\ edits'[j] = edits[j]
HolderWrites(j) == HolderOf(j) \in {"home", "bot"} /\ HolderOf(j)' = HolderOf(j) /\ edits'[j] = edits[j] + 1
HolderReleases(j) ==
  HolderOf(j) \in {"home", "bot"} /\ HolderOf(j)' = "moving" /\ edits'[j] \in {edits[j], edits[j] + 1}
HolderTakes(j) == HolderOf(j) = "moving" /\ HolderOf(j)' \in {"home", "bot"} /\ edits'[j] = edits[j]
HolderDeletes(j) == HolderOf(j) \in {"home", "bot"} /\ HolderOf(j)' = "gone"
HolderIsGone(j) == HolderOf(j) = "gone" /\ HolderOf(j)' = "gone"

HolderMoves(j) ==
  \/ HolderStays(j) \/ HolderWrites(j) \/ HolderReleases(j) \/ HolderTakes(j) \/ HolderDeletes(j)
  \/ HolderIsGone(j)

LEMMA LocalHolder ==
  ASSUME NoGuard, TypeInv, IInv, FrozenInv, LocalStep, NEW j \in Jobs
  PROVE  HolderMoves(j)
<1>1. Touches(j)
  BY LocalTouches DEF FrozenInv, TypeInv
<1>2. ~(home[j].owner = "home" /\ BotMayWrite(j))
  BY DEF IInv, BothOwnOnlyWhileReturning, BotMayWrite
<1>3. CASE Gone(j)
  BY <1>1, <1>3 DEF Touches, NotDeleted, HomeWrites, BotWrites, HomeDeletes, BotDeletes, KeepsHere,
     Gone, HolderMoves, HolderIsGone, HolderOf
<1>4. CASE ~Gone(j)
  <2>1. CASE Untouched(j) /\ NotDeleted(j)
    BY <2>1 DEF Untouched, NotDeleted, HolderMoves, HolderStays, HolderOf, Gone, HomeMayWrite, BotMayWrite
  <2>2. CASE HomeWrites(j)
    <3>1. ~Gone(j)' /\ HolderOf(j) = "home"
      BY <1>4, <2>2 DEF HomeWrites, NotDeleted, Gone, HolderOf
    <3>2. HolderOf(j)' \in {"home", "moving"}
      BY <1>2, <2>2, <3>1 DEF HomeWrites, HolderOf, HomeMayWrite, BotMayWrite
    <3> QED
      BY <2>2, <3>1, <3>2 DEF HomeWrites, HolderMoves, HolderWrites, HolderReleases
  <2>3. CASE BotWrites(j)
    <3>1. ~Gone(j)' /\ HolderOf(j) = "bot" /\ HolderOf(j)' = "bot"
      BY <1>2, <1>4, <2>3 DEF BotWrites, NotDeleted, Gone, HolderOf, HomeMayWrite, BotMayWrite
    <3> QED
      BY <2>3, <3>1 DEF BotWrites, HolderMoves, HolderWrites
  <2>4. CASE HomeDeletes(j) \/ BotDeletes(j)
    BY <1>4, <2>4 DEF HomeDeletes, BotDeletes, Gone, HolderMoves, HolderDeletes, HolderOf
  <2>5. CASE KeepsHere(j)
    <3>1. HolderOf(j) = "moving" /\ HolderOf(j)' = "home"
      BY <1>2, <1>4, <2>5 DEF KeepsHere, NotDeleted, Gone, HolderOf, HomeMayWrite
    <3> QED
      BY <2>5, <3>1 DEF KeepsHere, HolderMoves, HolderTakes
  <2> QED
    BY <1>1, <2>1, <2>2, <2>3, <2>4, <2>5 DEF Touches
<1> QED
  BY <1>3, <1>4

\* No step of the round and nothing that lands deletes a job, or takes one that
\* home may write from it.
LEMMA RoundKeeps ==
  ASSUME NoCommitRead, TypeInv, DroppedAreDeleted, RoundStep \/ Failure, NEW j \in Jobs
  PROVE  /\ Gone(j)' <=> Gone(j)
         /\ edits' = edits
         /\ HomeMayWrite(j) => home'[j].owner = "home"
<1> USE DEF local
<1>t. /\ \A m \in page : m \in Item /\ m.job \in Jobs
      /\ \A m \in late : m \in Request /\ m.job \in Jobs
      /\ home \in [Jobs -> Row] /\ bot \in [Jobs -> Row]
  BY UsedJobs
<1>1. edits' = edits /\ deleted' = deleted
  BY DEF RoundStep, StartRound, ReconcileOne, ListPush, PushTombstone, PushOne,
     DropIfIdle, ListPull, PullOne, FetchRequests, PostAnswers, GetOffers, StoreOffer, SkipOffer, ReadCommit,
     PostCommit, TakeCommitted, DecideReturn, CheckApplying, HandBack, HandBackRefused,
     SettleReturn, FinishReturn, PostResults, Failure, GiveUp, Land
<1>2. Gone(j)' <=> Gone(j)
  <2>1. CASE DropIfIdle
    <3>1. PICK m \in page : m.says = "gone" /\ botDeleted' \in {botDeleted, botDeleted \ {m.job}}
      BY <2>1 DEF DropIfIdle
    <3>2. m.job \in deleted
      BY <2>1, <3>1 DEF DropIfIdle, DroppedAreDeleted
    <3> QED
      BY <1>1, <3>1, <3>2 DEF Gone
  <2>2. CASE ~DropIfIdle
    <3>1. botDeleted' = botDeleted
      BY <2>2 DEF RoundStep, StartRound, ReconcileOne, ListPush, PushTombstone, PushOne,
         ListPull, PullOne, FetchRequests, PostAnswers, GetOffers, StoreOffer, SkipOffer, ReadCommit,
         PostCommit, TakeCommitted, DecideReturn, CheckApplying, HandBack, HandBackRefused,
         SettleReturn, FinishReturn, PostResults, Failure, GiveUp, Land
    <3> QED
      BY <1>1, <3>1 DEF Gone
  <2> QED
    BY <2>1, <2>2
<1>3. ASSUME HomeMayWrite(j)
      PROVE  home'[j].owner = "home"
  <2> USE <1>3 DEF HomeMayWrite
  <2>1. ASSUME NEW m \in Item \cup Request, HomeStores(m)
        PROVE  home'[j].owner = "home"
    BY <2>1, <1>t DEF HomeStores, AcceptsFromBot
  <2>2. ASSUME NEW js, HomeCommits(Committable(js))
        PROVE  home'[j].owner = "home"
    BY <2>2, <1>t DEF HomeCommits, Committable
  <2>3. ASSUME NEW m, m.job \in Jobs, TakesBack(m.job), HomeTakesBack(m)
        PROVE  home'[j].owner = "home"
    BY <2>3, <1>t DEF HomeTakesBack, TakesBack
  <2>4. CASE \/ StartRound \/ ReconcileOne \/ ListPush \/ DropIfIdle \/ ListPull \/ PullOne \/ GetOffers
             \/ StoreOffer \/ SkipOffer \/ ReadCommit \/ TakeCommitted \/ CheckApplying \/ HandBackRefused
             \/ FinishReturn \/ \E a \in Asks : DecideReturn(a)
    BY <2>4 DEF StartRound, ReconcileOne, ListPush, DropIfIdle, ListPull, PullOne, GetOffers,
       StoreOffer, SkipOffer, ReadCommit, TakeCommitted, CheckApplying, HandBackRefused, FinishReturn, DecideReturn
  <2>5. CASE FetchRequests \/ PostAnswers \/ PostResults \/ SettleReturn \/ GiveUp
    BY <2>5 DEF FetchRequests, PostAnswers, PostResults, SettleReturn, GiveUp
  <2>6. CASE PushTombstone
    BY <2>6, <1>t DEF PushTombstone
  <2>7. CASE PushOne
    BY <2>7, <1>t, <2>1 DEF PushOne
  <2>8. CASE PostCommit
    <3>1. step # "committing"
      BY DEF NoCommitRead, TypeInv, RoundOK
    <3> QED
      BY <2>2, <2>8, <3>1 DEF PostCommit, Taken
  <2>9. CASE HandBack
    <3>1. JobOf[current] \in Jobs /\ Bundle("send", JobOf[current], bot[JobOf[current]]).job = JobOf[current]
      BY <2>9, UsedJobs DEF HandBack, Deciding, Bundle
    <3> QED
      BY <2>9, <2>3, <3>1 DEF HandBack
  <2>10. ASSUME NEW m \in late, Land(m)
         PROVE  home'[j].owner = "home"
    BY <2>10, <1>t, <2>1, <2>2, <2>3 DEF Land, LandSend, LandCommit, LandReturn, LandSettle
  <2> QED
    BY <2>4, <2>5, <2>6, <2>7, <2>8, <2>9, <2>10 DEF RoundStep, Failure
<1> QED
  BY <1>1, <1>2, <1>3

LEMMA RoundHolder ==
  ASSUME NoCommitRead, TypeInv, IInv, IInv', DroppedAreDeleted, RoundStep \/ Failure, NEW j \in Jobs
  PROVE  HolderMoves(j)
<1>1. /\ Gone(j)' <=> Gone(j)
      /\ edits'[j] = edits[j]
      /\ HomeMayWrite(j) => home'[j].owner = "home"
  BY RoundKeeps
<1>2. ~(home[j].owner = "home" /\ BotMayWrite(j)) /\ ~(home[j].owner = "home" /\ BotMayWrite(j))'
  BY DEF IInv, BothOwnOnlyWhileReturning, BotMayWrite
<1>3. HomeMayWrite(j)' => ~BotMayWrite(j)
  <2> SUFFICES ASSUME home'[j].owner = "home", home[j].owner # "home" PROVE ~BotMayWrite(j)
    BY <1>2 DEF HomeMayWrite
  <2>1. \/ step = "checked" /\ j = JobOf[current]
        \/ \E m \in late : m.kind = "return" /\ j = m.job
    BY HomeGains DEF Next
  <2> QED
    BY <2>1 DEF IInv, DecidedNotHome, LateReturnsAreMarked, BotMayWrite
<1>4. CASE Gone(j)
  BY <1>1, <1>4 DEF HolderMoves, HolderIsGone, HolderOf
<1>5. CASE ~Gone(j)
  <2>1. HolderOf(j) \in {"home", "bot", "moving"} /\ HolderOf(j)' \in {"home", "bot", "moving"}
    BY <1>1, <1>5 DEF HolderOf
  <2>2. ~(HolderOf(j) = "home" /\ HolderOf(j)' = "bot") /\ ~(HolderOf(j) = "bot" /\ HolderOf(j)' = "home")
    BY <1>1, <1>2, <1>3, <1>5 DEF HolderOf
  <2> QED
    BY <1>1, <2>1, <2>2 DEF HolderMoves, HolderStays, HolderReleases, HolderTakes
<1> QED
  BY <1>4, <1>5

LEMMA NextHolder ==
  ASSUME NoCommitRead, NoGuard, TypeInv, IInv, IInv', FrozenInv, DroppedAreDeleted, [Next]_vars, NEW j \in Jobs
  PROVE  HolderMoves(j)
<1>1. CASE UNCHANGED vars
  BY <1>1 DEF vars, HolderMoves, HolderStays, HolderOf, Gone, HomeMayWrite, BotMayWrite
<1> QED
  BY <1>1, LocalHolder, RoundHolder DEF Next

\* Each of these is an action of JobOwnership.
LEMMA HolderSteps ==
  ASSUME TextsAreEdits, TextsAreEdits', NEW j \in Jobs, HolderMoves(j)
  PROVE  \/ Ownership!Keep(j) \/ Ownership!Write(j) \/ Ownership!Release(j) \/ Ownership!Take(j)
         \/ Ownership!Delete(j)
<1> DEFINE holder == [i \in Jobs |-> IF Gone(i) THEN "gone"
                            ELSE IF HomeMayWrite(i) THEN "home"
                            ELSE IF BotMayWrite(i) THEN "bot" ELSE "moving"]
           text == [i \in Jobs |-> IF Gone(i) THEN 0
                          ELSE IF HomeMayWrite(i) THEN home[i].version
                          ELSE IF BotMayWrite(i) THEN bot[i].version ELSE edits[i]]
<1>1. /\ holder[j] = HolderOf(j) /\ text[j] = TextOf(j)
      /\ holder'[j] = HolderOf(j)' /\ text'[j] = TextOf(j)'
  BY DEF HolderOf, TextOf
<1>2. /\ TextOf(j) = IF Gone(j) THEN 0 ELSE edits[j]
      /\ TextOf(j)' = (IF Gone(j) THEN 0 ELSE edits[j])'
  BY DEF TextsAreEdits
<1>3. /\ Gone(j) <=> HolderOf(j) = "gone"
      /\ Gone(j)' <=> HolderOf(j)' = "gone"
  BY DEF HolderOf
<1>4. CASE HolderStays(j) \/ HolderIsGone(j)
  <2>1. Ownership!Keep(j)
    BY <1>1, <1>2, <1>3, <1>4 DEF HolderStays, HolderIsGone, Ownership!Keep
  <2> QED
    BY <2>1
<1>5. CASE HolderWrites(j)
  <2>1. Ownership!Write(j)
    BY <1>1, <1>2, <1>3, <1>5 DEF HolderWrites, Ownership!Write, Ownership!Holders
  <2> QED
    BY <2>1
<1>6. CASE HolderReleases(j)
  <2>1. Ownership!Release(j)
    BY <1>1, <1>2, <1>3, <1>6 DEF HolderReleases, Ownership!Release, Ownership!Holders
  <2> QED
    BY <2>1
<1>7. CASE HolderTakes(j)
  <2>1. Ownership!Take(j)
    BY <1>1, <1>2, <1>3, <1>7 DEF HolderTakes, Ownership!Take, Ownership!Holders
  <2> QED
    BY <2>1
<1>8. CASE HolderDeletes(j)
  <2>1. Ownership!Delete(j)
    BY <1>1, <1>2, <1>3, <1>8 DEF HolderDeletes, Ownership!Delete, Ownership!Holders
  <2> QED
    BY <2>1
<1> QED
  BY <1>4, <1>5, <1>6, <1>7, <1>8 DEF HolderMoves

LEMMA InitHolder == Init => Ownership!Init
<1> SUFFICES ASSUME Init PROVE Ownership!Init
  OBVIOUS
<1>1. PICK born \in [Jobs -> Copies] :
        /\ home = [j \in Jobs |-> IF born[j] = "home" THEN New("home") ELSE Absent]
        /\ bot = [j \in Jobs |-> IF born[j] = "bot" THEN New("bot") ELSE Absent]
  BY DEF Init
<1>2. deleted = {} /\ botDeleted = {} /\ edits = [j \in Jobs |-> 0]
  BY DEF Init
<1>3. \A j \in Jobs : /\ ~Gone(j) /\ (HomeMayWrite(j) \/ BotMayWrite(j))
                      /\ home[j].version = 0 /\ bot[j].version = 0
  BY <1>1, <1>2 DEF Gone, HomeMayWrite, BotMayWrite, New, Absent
<1> QED
  BY <1>3 DEF Ownership!Init, Ownership!Holders

Implementing == TypeInv /\ IInv /\ FrozenInv /\ ContentInv /\ DroppedAreDeleted

LEMMA ImplementingStep ==
  ASSUME NoCommitRead, NoGuard, Implementing, Implementing', TextsAreEdits, TextsAreEdits', [Next]_vars
  PROVE  Ownership!Next
<1>1. \A j \in Jobs : \/ Ownership!Keep(j) \/ Ownership!Write(j) \/ Ownership!Release(j)
                      \/ Ownership!Take(j) \/ Ownership!Delete(j)
  BY NextHolder, HolderSteps DEF Implementing
<1> QED
  BY <1>1 DEF Ownership!Next

LEMMA InitImplementing == Init => Implementing
<1>1. Init => DroppedAreDeleted
  BY DEF Init, DroppedAreDeleted
<1> QED
  BY <1>1, InitTypeInv, InitIInv, InitFrozen, InitContent DEF Implementing

\* The protocol keeps its promise, under the conditions of WriterIsAlwaysCurrent:
\* a job has one holder at most, only the holder writes it, it is released
\* before the other copy takes it, and it is taken as it was released.
THEOREM HandoverImplementsOwnership ==
  NoOverlap /\ NoGuard /\ NoCommitRead => (Spec /\ [][NotRequeued]_vars => ImplementsOwnership)
<1> SUFFICES ASSUME NoOverlap, NoGuard, NoCommitRead PROVE Spec /\ [][NotRequeued]_vars => ImplementsOwnership
  OBVIOUS
<1>1. Init => Implementing
  BY InitImplementing
<1>2. Implementing /\ [Next]_vars /\ [NotRequeued]_vars => Implementing'
  BY NextTypeInv, NextIInv, NextFrozen, NextContent, NextDropped DEF Implementing
<1>3. Implementing => TextsAreEdits
  BY CurrentWriters, TextIsEdits DEF Implementing
<1>4. Implementing /\ Implementing' /\ TextsAreEdits /\ TextsAreEdits' /\ [Next]_vars => Ownership!Next
  BY ImplementingStep
<1>5. Init => Ownership!Init
  BY InitHolder
<1> QED
  BY <1>1, <1>2, <1>3, <1>4, <1>5, PTL DEF Spec, ImplementsOwnership, Ownership!Spec

\* With one offer in all, as in the handover run, without a condition on steps.
THEOREM OneOfferImplementsOwnership ==
  NoOverlap /\ NoGuard /\ NoCommitRead /\ MaxOffers <= 1 => (Spec => ImplementsOwnership)
<1> SUFFICES ASSUME NoOverlap, NoGuard, NoCommitRead, MaxOffers <= 1 PROVE Spec => ImplementsOwnership
  OBVIOUS
<1>1. Init => Implementing /\ NothingOffered
  <2>1. Init => NothingOffered
    BY DEF Init, NothingOffered, Carried, New, Absent
  <2> QED
    BY <2>1, InitImplementing
<1>2. Implementing /\ NothingOffered /\ [Next]_vars => (Implementing /\ NothingOffered)'
  BY NextTypeInv, NextIInv, NextFrozen, NextContent, NextDropped, NextOffers, OneOfferIsNotRequeued
     DEF Implementing
<1>3. Implementing => TextsAreEdits
  BY CurrentWriters, TextIsEdits DEF Implementing
<1>4. Implementing /\ Implementing' /\ TextsAreEdits /\ TextsAreEdits' /\ [Next]_vars => Ownership!Next
  BY ImplementingStep
<1>5. Init => Ownership!Init
  BY InitHolder
<1> QED
  BY <1>1, <1>2, <1>3, <1>4, <1>5, PTL DEF Spec, ImplementsOwnership, Ownership!Spec

=============================================================================
