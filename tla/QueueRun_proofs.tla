--------------------------- MODULE QueueRun_proofs ---------------------------
(***************************************************************************)
(* Proofs about QueueRun, for any site, any bounds, and with the reasoning *)
(* step on or off: attempts and Stop; then what the drive knows of the     *)
(* page in hand while the tab moves under it, which is what the evidence   *)
(* of Ready, what is sent and what is pressed rest on; and last the types. *)
(***************************************************************************)
EXTENDS QueueRun, TLAPS

-----------------------------------------------------------------------------
(* Attempts and Stop *)

(* Nothing but a sign-in and a sign-up marks an attempt, or types a login. *)
Trying == drv.pc \in {"login", "type"} \/ (drv.pc = "saving" /\ drv.then \in {"login", "type"})

(* The fields that the proofs speak of.                                    *)
HasRec(r) == {"status", "why", "parked", "signedIn", "accountTried", "stop", "step", "wrote", "seen",
              "left"} \subseteq DOMAIN r
HasOn(on) == {"filled", "spot", "again", "vouched", "thought"} \subseteq DOMAIN on
HasDrv(d) == /\ {"pc", "then", "because", "button", "view", "kind", "by", "mayApply", "resumeWhy",
                 "shaped", "landed", "on"} \subseteq DOMAIN d
             /\ HasOn(d.on)
Formed == HasRec(rec) /\ HasDrv(drv)
HasHist == {"logins", "accounts"} \subseteq DOMAIN hist

SameMarks(r) ==
  /\ HasRec(r)
  /\ r.signedIn = rec.signedIn /\ r.accountTried = rec.accountTried /\ r.stop = rec.stop

(* The marks stay, no attempt begins, and a Stop is honoured.              *)
Calm ==
  /\ SameMarks(rec')
  /\ HasDrv(drv') /\ ~Trying'
  /\ rec.stop => drv'.pc \notin Calls
SameCounts == HasHist' /\ hist'.logins = hist.logins /\ hist'.accounts = hist.accounts

Attempts ==
  /\ Formed /\ HasHist
  /\ hist.logins \in 0..1 /\ hist.accounts \in 0..1
  /\ ~rec.signedIn => hist.logins = 0
  /\ ~rec.accountTried => hist.accounts = 0
  /\ Trying => \/ drv.because = "sign_in" /\ rec.signedIn /\ hist.logins = 0
               \/ drv.because # "sign_in" /\ rec.accountTried /\ hist.accounts = 0

LEMMA IdleHas ==
  HasDrv(Idle) /\ Idle.pc = "idle" /\ "idle" \notin Calls /\ "saving" \notin Calls
BY DEF HasDrv, HasOn, Idle, Untouched, Calls

LEMMA FinishCalm ==
  ASSUME NEW status, NEW why, NEW r, SameMarks(r), Finish(status, why, r)
  PROVE  Calm
<1>1. drv' = Idle /\ SameMarks(rec')
  BY DEF Finish, SameMarks, HasRec
<1> QED
  BY <1>1, IdleHas DEF Calm, Trying

LEMMA CallCalm ==
  ASSUME NEW pc, pc \notin {"login", "type", "saving"}, NEW d, HasDrv(d), NEW r, SameMarks(r),
         Call(pc, d, r)
  PROVE  Calm
<1>1. CASE r.stop
  BY <1>1, FinishCalm DEF Call
<1>2. CASE ~r.stop
  <2>1. drv' = [d EXCEPT !.pc = pc] /\ rec' = r
    BY <1>2 DEF Call
  <2>2. HasDrv(drv') /\ drv'.pc = pc
    BY <2>1 DEF HasDrv, HasOn
  <2>3. ~rec.stop
    BY <1>2 DEF SameMarks
  <2> QED
    BY <2>1, <2>2, <2>3 DEF Calm, Trying
<1> QED
  BY <1>1, <1>2

LEMMA SaveCalm ==
  ASSUME NEW then, then \notin {"login", "type"}, NEW d, HasDrv(d), NEW r, SameMarks(r),
         Save(then, d, r)
  PROVE  Calm
<1>1. drv' = [d EXCEPT !.pc = "saving", !.then = then] /\ rec' = r
  BY DEF Save
<1>2. HasDrv(drv') /\ drv'.pc = "saving" /\ drv'.then = then
  BY <1>1 DEF HasDrv, HasOn
<1> QED
  BY <1>1, <1>2, IdleHas DEF Calm, Trying

LEMMA ParkCalm ==
  ASSUME NEW why, NEW d, NEW r, SameMarks(r), Park(why, d, r)
  PROVE  Calm
<1>1. PICK q : /\ q = [r EXCEPT !.parked = IF why \in Remembered THEN d.view ELSE @]
               /\ Finish("parked", why, q)
  BY DEF Park
<1>2. SameMarks(q)
  BY <1>1 DEF SameMarks, HasRec
<1> QED
  BY <1>1, <1>2, FinishCalm

LEMMA ParkOrCalm ==
  ASSUME NEW why, NEW d, HasDrv(d), NEW r, SameMarks(r), ParkOr(why, d, r)
  PROVE  Calm
<1>1. CASE CanThink(why, d, r)
  <2>1. PICK e, q :
          /\ e = [d EXCEPT !.on.thought = TRUE, !.thoughtOn = @ \cup {d.view.place}, !.because = why]
          /\ q = [r EXCEPT !.status = "filling"]
          /\ Save("think", e, q)
    BY <1>1 DEF ParkOr
  <2>2. HasDrv(e) /\ SameMarks(q)
    BY <2>1 DEF HasDrv, HasOn, SameMarks, HasRec
  <2> QED
    BY <2>1, <2>2, SaveCalm
<1>2. CASE ~CanThink(why, d, r)
  BY <1>2, ParkCalm DEF ParkOr
<1> QED
  BY <1>1, <1>2

(* A step between two calls.                                               *)
LEMMA GoesCalm ==
  ASSUME NEW d, HasDrv(d), NEW pc, pc \notin {"login", "type", "saving"} \cup Calls,
         drv' = [d EXCEPT !.pc = pc], SameMarks(rec')
  PROVE  Calm
<1>1. HasDrv(drv') /\ drv'.pc = pc
  BY DEF HasDrv, HasOn
<1> QED
  BY <1>1 DEF Calm, Trying

(* What the verbs are given keeps the marks.                               *)
LEMMA HereHas == ASSUME Formed PROVE HasDrv(drv) /\ SameMarks(rec)
BY DEF Formed, SameMarks

LEMMA PartsHave ==
  ASSUME NEW d, HasDrv(d), NEW p, NEW r, SameMarks(r)
  PROVE  /\ HasDrv(Moved(d)) /\ HasDrv(Refill(d)) /\ HasDrv(Shaped(p, d))
         /\ HasDrv(DoneWith(d)) /\ HasDrv(Resuming(d))
         /\ SameMarks(Past(d, r))
<1>1. HasDrv(Moved(d)) /\ HasDrv(Refill(d)) /\ HasDrv(DoneWith(d))
  BY DEF HasDrv, HasOn, Moved, Untouched, Refill, DoneWith
<1>2. HasDrv(Shaped(p, d))
  BY DEF HasDrv, HasOn, Shaped
<1>3. HasDrv(Resuming(d))
  BY DEF HasDrv, HasOn, Resuming
<1>4. SameMarks(Past(d, r))
  BY DEF SameMarks, HasRec, Past
<1> QED
  BY <1>1, <1>2, <1>3, <1>4

LEMMA ParkErrorsCalm ==
  ASSUME NEW d, HasDrv(d), NEW r, SameMarks(r), ParkErrors(d, r)
  PROVE  Calm
BY CallCalm, ParkOrCalm DEF ParkErrors

LEMMA RepairCalm ==
  ASSUME NEW d, HasDrv(d), NEW r, SameMarks(r), Repair(d, r)
  PROVE  Calm
<1>1. CASE ParkErrors(d, r)
  BY <1>1, ParkErrorsCalm
<1>2. CASE Save("fix", [d EXCEPT !.on.fixes = @ + 1], [r EXCEPT !.status = "filling"])
  <2>1. HasDrv([d EXCEPT !.on.fixes = @ + 1])
    BY DEF HasDrv, HasOn
  <2>2. SameMarks([r EXCEPT !.status = "filling"])
    BY DEF SameMarks, HasRec
  <2> QED
    BY <1>2, <2>1, <2>2, SaveCalm
<1> QED
  BY <1>1, <1>2 DEF Repair

LEMMA NoMoveCalm ==
  ASSUME Formed, NEW refused, NoMove(refused)
  PROVE  Calm
<1>1. HasDrv(drv) /\ SameMarks(rec) BY HereHas
<1>2. HasDrv([drv EXCEPT !.on.tried = TRUE, !.on.filled = FALSE])
  BY <1>1 DEF HasDrv, HasOn
<1> QED
  BY <1>1, <1>2, ParkCalm, ParkOrCalm, CallCalm DEF NoMove

LEMMA StartCalm == ASSUME Formed, Start PROVE Calm
<1> DEFINE d == [Idle EXCEPT !.resumed = rec.opened, !.userNav = rec.why \in UserNavigates,
                   !.resumeWhy = IF rec.opened /\ rec.why \in Remembered THEN rec.why ELSE "none"]
           opening == [rec EXCEPT !.status = "opening", !.why = "none", !.hosts = {JobHost}, !.at = JobHost]
           going == [rec EXCEPT !.status = "filling", !.why = "none"]
<1>1. HasDrv(Idle) /\ SameMarks(rec) BY HereHas, IdleHas
<1>2. HasDrv(d) BY <1>1 DEF HasDrv, HasOn
<1>3. SameMarks(opening) /\ SameMarks(going) BY <1>1 DEF SameMarks, HasRec
<1>4. \/ drv' = Idle /\ UNCHANGED rec
      \/ Finish("stopped", "user", rec)
      \/ Save("open", d, opening)
      \/ Call("read", d, rec)
      \/ Save("read", d, going)
  BY DEF Start
<1> HIDE DEF d, opening, going
<1>5. CASE drv' = Idle /\ UNCHANGED rec
  BY <1>1, <1>5, IdleHas DEF Calm, Trying
<1> QED
  BY <1>1, <1>2, <1>3, <1>4, <1>5, FinishCalm, CallCalm, SaveCalm

LEMMA OpenTabCalm == ASSUME Formed, OpenTab PROVE Calm
<1> DEFINE d == [drv EXCEPT !.navigated = TRUE, !.applyOk = ~InPlace, !.inPlace = InPlace]
           r == [rec EXCEPT !.opened = TRUE]
<1>1. HasDrv(d) BY HereHas DEF HasDrv, HasOn
<1>2. SameMarks(r) BY HereHas DEF SameMarks, HasRec
<1>3. Save("read", d, r) BY DEF OpenTab
<1> HIDE DEF d, r
<1> QED
  BY <1>1, <1>2, <1>3, SaveCalm

LEMMA ReadCalm == ASSUME Formed, Read PROVE Calm
<1> DEFINE d == [drv EXCEPT !.view = At(tab.page), !.errs = tab.errs, !.kind = "unknown",
                   !.by = "none", !.because = "none", !.button = "none",
                   !.mayApply = drv.applyOk, !.applyOk = FALSE,
                   !.mayChoose = drv.applyOk \/ drv.chooser, !.chooser = FALSE]
           r == [rec EXCEPT !.parked = IF drv.resumeWhy = "none" THEN @ ELSE NoSpot]
<1>1. HasDrv(d) BY HereHas DEF HasDrv, HasOn
<1>2. SameMarks(r) BY HereHas DEF SameMarks, HasRec
<1>3. Call("arrived", Resuming(d), r) BY DEF Read
<1> HIDE DEF d, r
<1>4. HasDrv(Resuming(d)) BY <1>1, <1>2, PartsHave
<1> QED
  BY <1>2, <1>3, <1>4, CallCalm

LEMMA ReadNothingCalm == ASSUME Formed, ReadNothing PROVE Calm
<1>1. HasDrv(drv) /\ SameMarks(rec) BY HereHas
<1>2. CASE drv' = Idle /\ UNCHANGED rec
  BY <1>1, <1>2, IdleHas DEF Calm, Trying
<1> QED
  BY <1>1, <1>2, FinishCalm, ParkCalm DEF ReadNothing

LEMMA ArrivedCalm == ASSUME Formed, Arrived PROVE Calm
<1>1. HasDrv(drv) /\ SameMarks(rec) BY HereHas
<1>2. PICK d : /\ HasDrv(d)
               /\ \/ ParkOr("moved_away", d, rec)
                  \/ Noting(d)
                  \/ drv' = [d EXCEPT !.pc = "kind"] /\ UNCHANGED rec
  <2> DEFINE first == drv.resumed /\ ~drv.navigated /\ ~rec.ready /\ ~drv.checked
             astray == \/ drv.inPlace /\ View \notin Matched
                       \/ drv.landing # {} /\ Host[View] \notin Known \cup drv.landing
                       \/ first /\ ~drv.userNav /\ Host[View] \notin rec.hosts
             e == [drv EXCEPT !.inPlace = FALSE, !.landing = {},
                              !.navigated = IF astray THEN @ ELSE FALSE, !.checked = @ \/ first]
  <2>1. HasDrv(e) BY <1>1 DEF HasDrv, HasOn
  <2>2. \/ ParkOr("moved_away", e, rec)
        \/ Noting(e)
        \/ drv' = [e EXCEPT !.pc = "kind"] /\ UNCHANGED rec
    BY DEF Arrived
  <2> HIDE DEF e
  <2> QED
    BY <2>1, <2>2
<1>3. "kind" \notin Calls BY DEF Calls
<1>4. CASE Noting(d)
  <2> DEFINE r == [rec EXCEPT !.hosts = @ \cup {Host[View]}, !.at = Host[View]]
  <2>1. SameMarks(r) BY <1>1 DEF SameMarks, HasRec
  <2>2. Save("kind", d, r) \/ (drv' = [d EXCEPT !.pc = "kind"] /\ UNCHANGED rec)
    BY <1>4 DEF Noting
  <2> HIDE DEF r
  <2> QED
    BY <1>1, <1>2, <1>3, <2>1, <2>2, SaveCalm, GoesCalm
<1> QED
  BY <1>1, <1>2, <1>3, <1>4, ParkOrCalm, GoesCalm

LEMMA WatchReadyCalm == ASSUME Formed, WatchReady PROVE Calm
<1>1. SameMarks(rec) BY HereHas
<1>2. \/ drv' = Idle /\ UNCHANGED rec
      \/ Finish("confirming", "none", rec)
      \/ drv' = Idle /\ rec' = [rec EXCEPT !.movedOn = Kind[View] = "form_step"]
      \/ drv' = Idle /\ rec' = [rec EXCEPT !.noAutoMark = TRUE]
  BY DEF WatchReady
<1>3. CASE ~Finish("confirming", "none", rec)
  <2>1. drv' = Idle BY <1>2, <1>3
  <2>2. SameMarks(rec') BY <1>1, <1>2, <1>3 DEF SameMarks, HasRec
  <2> QED
    BY <2>1, <2>2, IdleHas DEF Calm, Trying
<1> QED
  BY <1>1, <1>3, FinishCalm

LEMMA JudgedCalm == ASSUME Formed, Judged \/ Counted PROVE Calm
<1>1. HasDrv(drv) /\ SameMarks(rec) BY HereHas
<1>2. ASSUME NEW counted, JudgedAs(counted) PROVE Calm
  <2>1. UNCHANGED rec BY <1>2 DEF JudgedAs
  <2>2. HasDrv(drv') /\ drv'.pc = "page" BY <1>1, <1>2 DEF HasDrv, HasOn, JudgedAs
  <2> QED
    BY <1>1, <2>1, <2>2 DEF Calm, Trying, Calls
<1>3. CASE Judged BY <1>1, <1>2, <1>3, CallCalm DEF Judged
<1>4. CASE Counted BY <1>1, <1>2, <1>4, FinishCalm DEF Counted
<1> QED
  BY <1>3, <1>4

(* The page is left, judged or given up.                                   *)
LEMMA PageCalm ==
  ASSUME Formed, \/ Ends \/ Posting \/ Chooser \/ Unmade \/ Entered \/ Settle
                   \/ Unfilled \/ FillAgain \/ ParkBald \/ JudgeReview \/ Reviewed
                   \/ Last \/ Throws
  PROVE  Calm
<1>1. HasDrv(drv) /\ SameMarks(rec) BY HereHas
<1>2. CASE Ends BY <1>1, <1>2, FinishCalm, ParkCalm, ParkOrCalm DEF Ends
<1>3. CASE Posting
  BY <1>1, <1>3, ParkCalm, SaveCalm DEF Posting, HasDrv, HasOn, SameMarks, HasRec
<1>4. CASE Chooser
  BY <1>1, <1>4, ParkCalm, SaveCalm DEF Chooser, HasDrv, HasOn, SameMarks, HasRec
<1>5. CASE Unmade BY <1>1, <1>5, ParkCalm DEF Unmade
<1>6. CASE Entered
  BY <1>1, <1>6, PartsHave, CallCalm DEF Entered
<1>7. CASE Settle
  BY <1>1, <1>7, PartsHave, FinishCalm, CallCalm, ParkCalm DEF Settle
<1>8. CASE Unfilled
  BY <1>1, <1>8, ParkCalm, SaveCalm DEF Unfilled, SameMarks, HasRec
<1>9. CASE FillAgain
  BY <1>1, <1>9, CallCalm DEF FillAgain, HasDrv, HasOn
<1>10. CASE ParkBald BY <1>1, <1>10, ParkCalm DEF ParkBald
<1>11. CASE JudgeReview
  BY <1>1, <1>11, ParkCalm, SaveCalm DEF JudgeReview, SameMarks, HasRec
<1>12. CASE Reviewed
  <2>1. "last" \notin Calls BY DEF Calls
  <2>2. HasDrv([drv EXCEPT !.because = "page_errors"]) BY <1>1 DEF HasDrv, HasOn
  <2> QED
    BY <1>1, <1>12, <2>1, <2>2, CallCalm, GoesCalm DEF Reviewed
<1>13. CASE Last
  <2>1. HasDrv([drv EXCEPT !.on.held = TRUE]) BY <1>1 DEF HasDrv, HasOn
  <2>2. SameMarks([rec EXCEPT !.ready = TRUE]) BY <1>1 DEF SameMarks, HasRec
  <2> QED
    BY <1>1, <1>13, <2>1, <2>2, CallCalm, FinishCalm, ParkCalm DEF Last
<1>14. CASE Throws
  <2>1. CASE drv' = Idle /\ UNCHANGED rec BY <1>1, <2>1, IdleHas DEF Calm, Trying
  <2> QED
    BY <1>1, <1>14, <2>1, FinishCalm DEF Throws
<1> QED
  BY <1>2, <1>3, <1>4, <1>5, <1>6, <1>7, <1>8, <1>9, <1>10, <1>11, <1>12, <1>13, <1>14

(* A page is filled.                                                       *)
LEMMA OnFormCalm == ASSUME Formed, OnForm PROVE Calm
<1>1. HasDrv(drv) /\ SameMarks(rec) BY HereHas
<1>2. PICK d : d = Shaped(View, drv) OBVIOUS
<1>3. HasDrv(d) /\ HasDrv(Refill(drv)) /\ HasDrv(Moved(d)) /\ SameMarks(Past(drv, rec))
  BY <1>1, <1>2, PartsHave
<1>4. {"unfilled", "judge"} \cap Calls = {} BY DEF Calls
<1>5. \/ drv' = [Refill(drv) EXCEPT !.pc = "unfilled"] /\ UNCHANGED rec
      \/ drv' = [drv EXCEPT !.pc = "judge"] /\ UNCHANGED rec
      \/ drv' = [drv EXCEPT !.pc = "unfilled"] /\ UNCHANGED rec
      \/ Park("step_limit", d, rec) \/ ParkOr("loop", d, rec)
      \/ Save("unfilled", Moved(d), Past(drv, rec))
  BY <1>2 DEF OnForm
<1> QED
  BY <1>1, <1>3, <1>4, <1>5, GoesCalm, ParkCalm, ParkOrCalm, SaveCalm

LEMMA FillCalm == ASSUME Formed, Fill PROVE Calm
<1>1. HasDrv(drv) /\ SameMarks(rec) BY HereHas
<1>2. PICK report : LET d == [drv EXCEPT !.open = "open" \in report, !.need = "need" \in report,
                                         !.on.empty = report \cap Listed = {}, !.on.box = tab.page \in Uploads,
                                         !.on.wrote = @ \/ "attached" \in report]
                    IN  \/ Finish("stopped", "user", rec)
                        \/ Save("filled", d, [rec EXCEPT !.wrote = TRUE])
                        \/ drv' = [d EXCEPT !.pc = "filled"] /\ UNCHANGED rec
  BY DEF Fill
<1> DEFINE d == [drv EXCEPT !.open = "open" \in report, !.need = "need" \in report,
                            !.on.empty = report \cap Listed = {}, !.on.box = tab.page \in Uploads,
                            !.on.wrote = @ \/ "attached" \in report]
<1>3. HasDrv(d) BY <1>1 DEF HasDrv, HasOn
<1>4. SameMarks([rec EXCEPT !.wrote = TRUE]) BY <1>1 DEF SameMarks, HasRec
<1>5. "filled" \notin Calls BY DEF Calls
<1>6. \/ Finish("stopped", "user", rec)
      \/ Save("filled", d, [rec EXCEPT !.wrote = TRUE])
      \/ drv' = [d EXCEPT !.pc = "filled"] /\ UNCHANGED rec
  BY <1>2
<1> HIDE DEF d
<1> QED
  BY <1>1, <1>3, <1>4, <1>5, <1>6, FinishCalm, SaveCalm, GoesCalm

LEMMA FilledCalm == ASSUME Formed, Filled PROVE Calm
<1>1. HasDrv(drv) /\ SameMarks(rec) BY HereHas
<1>2. CASE drv' = [drv EXCEPT !.pc = "upload", !.open = FALSE] /\ UNCHANGED rec
  <2>1. HasDrv(drv') /\ drv'.pc = "upload" BY <1>1, <1>2 DEF HasDrv, HasOn
  <2> QED
    BY <1>1, <1>2, <2>1 DEF Calm, Trying, Calls
<1> QED
  BY <1>1, <1>2, ParkOrCalm DEF Filled

LEMMA UploadCalm == ASSUME Formed, Upload \/ Attach PROVE Calm
<1>1. HasDrv(drv) /\ SameMarks(rec) BY HereHas
<1>2. HasDrv([drv EXCEPT !.on.wrote = TRUE]) BY <1>1 DEF HasDrv, HasOn
<1>3. HasDrv(DoneWith(drv)) /\ HasDrv(DoneWith([drv EXCEPT !.on.wrote = TRUE]))
  BY <1>1, <1>2, PartsHave
<1> QED
  BY <1>1, <1>3, CallCalm, ParkCalm DEF Upload, Attach

(* A filled page is read again, repaired, and pressed.                     *)
LEMMA JudgeStepCalm == ASSUME Formed, JudgeStep PROVE Calm
<1>1. HasDrv(drv) /\ SameMarks(rec) BY HereHas
<1> DEFINE d == [drv EXCEPT !.on.spot.shape = View, !.button = "next"]
           r == [rec EXCEPT !.status = "advancing"]
<1>2. HasDrv(d) BY <1>1 DEF HasDrv, HasOn
<1>3. SameMarks(r) BY <1>1 DEF SameMarks, HasRec
<1>4. \/ ParkOr("loop", d, rec) \/ Park("step_limit", d, rec)
      \/ Save("recheck", d, r) \/ Save("press", d, r)
  BY DEF JudgeStep
<1> HIDE DEF d, r
<1> QED
  BY <1>1, <1>2, <1>3, <1>4, ParkOrCalm, ParkCalm, SaveCalm

LEMMA RequiredCalm == ASSUME Formed, Required PROVE Calm
<1>1. HasDrv(drv) /\ SameMarks(rec) BY HereHas
<1> DEFINE d == [drv EXCEPT !.on.required = TRUE, !.because = "open_questions"]
           r == [rec EXCEPT !.status = "filling"]
<1>2. HasDrv(d) BY <1>1 DEF HasDrv, HasOn
<1>3. SameMarks(r) BY <1>1 DEF SameMarks, HasRec
<1>4. "last" \notin Calls BY DEF Calls
<1>5. \/ Finish("stopped", "user", rec) \/ Park("upload", drv, rec)
      \/ drv' = [drv EXCEPT !.pc = "last"] /\ UNCHANGED rec
      \/ ParkOr("open_questions", drv, rec) \/ Save("fix", d, r)
  BY DEF Required
<1> HIDE DEF d, r
<1> QED
  BY <1>1, <1>2, <1>3, <1>4, <1>5, FinishCalm, GoesCalm, ParkOrCalm, ParkCalm, SaveCalm

LEMMA ErrorsCalm == ASSUME Formed, Errors \/ Fix PROVE Calm
<1>1. HasDrv(drv) /\ SameMarks(rec) BY HereHas
<1> QED
  BY <1>1, FinishCalm, CallCalm, RepairCalm, ParkErrorsCalm, ParkOrCalm DEF Errors, Fix

LEMMA LookCalm == ASSUME Formed, Look PROVE Calm
<1>1. HasDrv(drv) /\ SameMarks(rec) BY HereHas
<1>2. PICK p : p = tab.page OBVIOUS
<1>3. /\ HasDrv(Refill(drv)) /\ HasDrv(Shaped(p, drv)) /\ SameMarks(Past(drv, rec))
  BY <1>1, PartsHave
<1>4. HasDrv(Moved(Shaped(p, drv))) BY <1>1, <1>3, PartsHave
<1>5. \/ Finish("stopped", "user", rec) \/ Call("read", Refill(drv), rec)
      \/ Save("read", Moved(Shaped(p, drv)), Past(drv, rec))
      \/ ParkOr("page_errors", drv, rec)
  BY <1>2 DEF Look
<1> QED
  BY <1>1, <1>3, <1>4, <1>5, FinishCalm, CallCalm, SaveCalm, ParkOrCalm

LEMMA RecheckCalm == ASSUME Formed, Recheck PROVE Calm
<1>1. HasDrv(drv) /\ SameMarks(rec) BY HereHas
<1> DEFINE d == [drv EXCEPT !.recheck = "none", !.because = "page_errors"]
<1>2. HasDrv(d) BY <1>1 DEF HasDrv, HasOn
<1>3. \/ Finish("stopped", "user", rec) \/ Park("upload", d, rec)
      \/ Repair(d, rec) \/ Call("press", d, rec)
  BY DEF Recheck
<1> HIDE DEF d
<1> QED
  BY <1>1, <1>2, <1>3, FinishCalm, ParkCalm, RepairCalm, CallCalm

LEMMA PressCalm == ASSUME Formed, Press PROVE Calm
<1>1. HasDrv(drv) /\ SameMarks(rec) BY HereHas
<1> QED
  BY <1>1, FinishCalm, CallCalm, NoMoveCalm DEF Press

LEMMA WaitCalm == ASSUME Formed, Wait PROVE Calm
<1>1. HasDrv(drv) /\ SameMarks(rec) BY HereHas
<1> DEFINE d == [drv EXCEPT !.because = "page_errors"]
           e == [Moved(drv) EXCEPT !.chooser = TRUE, !.landing = {ApplyTo[View], JobHost}]
           r == [rec EXCEPT !.step = @ + 1, !.seen = @ \cup {View}]
<1>2. HasDrv(Moved(drv)) BY <1>1, PartsHave
<1>3. HasDrv(d) /\ HasDrv(e) BY <1>1, <1>2 DEF HasDrv, HasOn
<1>4. SameMarks(r) BY <1>1 DEF SameMarks, HasRec
<1>5. \/ Finish("stopped", "user", rec)
      \/ Call("errors", d, rec) \/ NoMove(FALSE)
      \/ Save("read", Moved(drv), r)
      \/ Call("read", e, rec) \/ Call("read", Moved(drv), rec)
  BY DEF Wait
<1> HIDE DEF d, e, r
<1> QED
  BY <1>1, <1>2, <1>3, <1>4, <1>5, FinishCalm, CallCalm, SaveCalm, NoMoveCalm

(* The reasoning step.                                                     *)
LEMMA ThinkCalm == ASSUME Formed, Think PROVE Calm
<1>1. HasDrv(drv) /\ SameMarks(rec) BY HereHas
<1>2. CASE drv' = [drv EXCEPT !.pc = "upload", !.open = FALSE] /\ UNCHANGED rec
  <2>1. HasDrv(drv') /\ drv'.pc = "upload" BY <1>1, <1>2 DEF HasDrv, HasOn
  <2> QED
    BY <1>1, <1>2, <2>1 DEF Calm, Trying, Calls
<1> QED
  BY <1>1, <1>2, FinishCalm, CallCalm, ParkCalm DEF Think, Again

LEMMA ThinkPressCalm == ASSUME Formed, ThinkPress PROVE Calm
<1>1. HasDrv(drv) /\ SameMarks(rec) /\ ~rec.stop /\ UNCHANGED rec
  BY HereHas DEF ThinkPress
<1>2. HasDrv(drv') /\ drv'.pc = "thought" BY <1>1 DEF HasDrv, HasOn, ThinkPress
<1> QED
  BY <1>1, <1>2 DEF Calm, Trying

LEMMA ThoughtCalm == ASSUME Formed, Thought PROVE Calm
<1>1. HasDrv(drv) /\ SameMarks(rec) BY HereHas
<1> DEFINE r == [rec EXCEPT !.step = @ + 1, !.seen = @ \cup {drv.landed}]
<1>2. HasDrv(Moved(drv)) BY <1>1, PartsHave
<1>3. SameMarks(r) BY <1>1 DEF SameMarks, HasRec
<1>4. \/ Finish("stopped", "user", rec) \/ Park(drv.because, drv, rec)
      \/ Park("step_limit", drv, rec) \/ Save("read", Moved(drv), r)
  BY DEF Thought
<1> HIDE DEF r
<1> QED
  BY <1>1, <1>2, <1>3, <1>4, FinishCalm, ParkCalm, SaveCalm

(* What is not calm: an attempt begins, goes on to its typing, or was not  *)
(* made and is unmarked; and what the panel and the site do leaves it all. *)
SameButTried == HasRec(rec') /\ rec'.signedIn = rec.signedIn /\ rec'.stop = rec.stop
Begins ==
  /\ HasDrv(drv') /\ drv'.pc = "saving" /\ HasRec(rec') /\ rec'.stop = rec.stop
  /\ \/ /\ drv'.because = "sign_in" /\ ~rec.signedIn /\ rec'.signedIn
        /\ rec'.accountTried = rec.accountTried
     \/ /\ drv'.because # "sign_in" /\ ~rec.accountTried /\ rec'.accountTried
        /\ rec'.signedIn = rec.signedIn
GoesOn ==
  /\ Trying /\ HasDrv(drv') /\ drv'.because = drv.because /\ UNCHANGED rec
  /\ ~rec.stop
Undoes ==
  /\ Trying /\ drv.because # "sign_in" /\ SameButTried
  /\ HasDrv(drv') /\ drv'.pc = "saving" /\ ~Trying'
Rests ==
  /\ HasRec(rec') /\ rec'.signedIn = rec.signedIn /\ rec'.accountTried = rec.accountTried
  /\ UNCHANGED drv \/ (HasDrv(drv') /\ drv'.pc \in {"idle", "start"})

LEMMA SignUpBegins == ASSUME Formed, SignUp PROVE Calm \/ Begins
<1>1. HasDrv(drv) /\ SameMarks(rec) BY HereHas
<1> DEFINE d == [drv EXCEPT !.because = "create_account"]
           r == [rec EXCEPT !.status = "creating_account", !.accountTried = TRUE]
<1>2. \/ Park("create_account_failed", drv, rec) \/ Park("create_account", drv, rec)
      \/ ~rec.accountTried /\ Save("login", d, r)
  BY DEF SignUp
<1>3. HasDrv(d) /\ d.because = "create_account" BY <1>1 DEF HasDrv, HasOn
<1>4. HasRec(r) /\ r.accountTried /\ r.signedIn = rec.signedIn /\ r.stop = rec.stop
  BY <1>1 DEF SameMarks, HasRec
<1> HIDE DEF d, r
<1>5. CASE ~rec.accountTried /\ Save("login", d, r)
  BY <1>3, <1>4, <1>5 DEF Save, Begins, HasDrv, HasOn
<1> QED
  BY <1>1, <1>2, <1>5, ParkCalm

LEMMA SignInBegins == ASSUME Formed, SignIn PROVE Calm \/ Begins
<1>1. HasDrv(drv) /\ SameMarks(rec) BY HereHas
<1> DEFINE d == [drv EXCEPT !.because = "sign_in"]
           r == [rec EXCEPT !.status = "signing_in", !.signedIn = TRUE]
<1>2. \/ Park("sign_in_failed", drv, rec) \/ Park("sign_in_yourself", drv, rec)
      \/ ~rec.signedIn /\ Save("login", d, r)
  BY DEF SignIn
<1>3. HasDrv(d) /\ d.because = "sign_in" BY <1>1 DEF HasDrv, HasOn
<1>4. HasRec(r) /\ r.signedIn /\ r.accountTried = rec.accountTried /\ r.stop = rec.stop
  BY <1>1 DEF SameMarks, HasRec
<1> HIDE DEF d, r
<1>5. CASE ~rec.signedIn /\ Save("login", d, r)
  BY <1>3, <1>4, <1>5 DEF Save, Begins, HasDrv, HasOn
<1> QED
  BY <1>1, <1>2, <1>5, ParkCalm

LEMMA NotMadeUndoes ==
  ASSUME Formed, Trying, NotMade(drv, rec)
  PROVE  Calm \/ Undoes
<1>1. HasDrv(drv) /\ SameMarks(rec) BY HereHas
<1> DEFINE r == [rec EXCEPT !.accountTried = FALSE]
<1>2. \/ Park("sign_in_failed", drv, rec)
      \/ drv.because # "sign_in" /\ Save("unmade", drv, r)
  BY DEF NotMade
<1>3. HasRec(r) /\ r.signedIn = rec.signedIn /\ r.stop = rec.stop BY <1>1 DEF SameMarks, HasRec
<1> HIDE DEF r
<1>4. CASE drv.because # "sign_in" /\ Save("unmade", drv, r)
  <2>1. HasDrv(drv') /\ drv'.pc = "saving" /\ drv'.then = "unmade" /\ rec' = r
    BY <1>1, <1>4 DEF Save, HasDrv, HasOn
  <2> QED
    BY <1>3, <1>4, <2>1 DEF Undoes, SameButTried, Trying
<1> QED
  BY <1>1, <1>2, <1>4, ParkCalm

LEMMA LoginFetchedTries == ASSUME Formed, LoginFetched PROVE Calm \/ Undoes \/ GoesOn
<1>1. HasDrv(drv) /\ SameMarks(rec) /\ Trying BY HereHas DEF LoginFetched, Trying
<1>2. CASE ~rec.stop /\ drv' = [drv EXCEPT !.pc = "type"] /\ UNCHANGED rec
  BY <1>1, <1>2 DEF GoesOn, HasDrv, HasOn
<1> QED
  BY <1>1, <1>2, FinishCalm, NotMadeUndoes DEF LoginFetched

LEMMA SavedTries == ASSUME Formed, Saved PROVE Calm \/ GoesOn
<1>1. HasDrv(drv) /\ SameMarks(rec) /\ drv.pc = "saving" BY HereHas DEF Saved
<1> DEFINE d == [drv EXCEPT !.then = "none"]
<1>2. HasDrv(d) /\ d.because = drv.because /\ d.then = "none" BY <1>1 DEF HasDrv, HasOn
<1>3. \/ drv.then \in Calls /\ Call(drv.then, d, rec)
      \/ drv.then \notin Calls /\ drv' = [d EXCEPT !.pc = drv.then] /\ UNCHANGED rec
  BY DEF Saved
<1> HIDE DEF d
<1>4. CASE drv.then \notin Calls /\ drv' = [d EXCEPT !.pc = drv.then] /\ UNCHANGED rec
  <2>1. HasDrv(drv') /\ drv'.pc = drv.then /\ drv'.then = "none" BY <1>2, <1>4 DEF HasDrv, HasOn
  <2> QED
    BY <1>1, <1>4, <2>1 DEF Calm, Trying, Calls
<1>5. CASE drv.then \in Calls /\ Call(drv.then, d, rec)
  <2>1. CASE drv.then \notin {"login", "type"}
    BY <1>1, <1>2, <1>5, <2>1, IdleHas, CallCalm
  <2>2. CASE drv.then \in {"login", "type"} /\ ~rec.stop
    <3>1. drv' = [d EXCEPT !.pc = drv.then] /\ rec' = rec BY <1>5, <2>2 DEF Call
    <3> QED
      BY <1>1, <1>2, <2>2, <3>1 DEF GoesOn, HasDrv, HasOn, Trying
  <2>3. CASE rec.stop BY <1>1, <1>5, <2>3, FinishCalm DEF Call
  <2> QED
    BY <2>1, <2>2, <2>3
<1> QED
  BY <1>3, <1>4, <1>5

LEMMA AnsweredTries ==
  ASSUME Formed, drv.pc = "type", NEW made \in BOOLEAN, Answered(made)
  PROVE  Calm \/ (~made /\ Undoes)
<1>1. HasDrv(drv) /\ SameMarks(rec) /\ Trying BY HereHas DEF Trying
<1>2. CASE rec.stop BY <1>1, <1>2, FinishCalm DEF Answered
<1>3. CASE ~rec.stop /\ ~made BY <1>1, <1>3, NotMadeUndoes DEF Answered
<1>4. CASE ~rec.stop /\ made BY <1>1, <1>4, CallCalm DEF Answered
<1> QED
  BY <1>2, <1>3, <1>4

LEMMA TypeTries ==
  ASSUME Formed, HasHist, Type
  PROVE  /\ HasHist' /\ (Calm \/ Undoes)
         /\ ~Lossy =>
              \/ SameCounts
              \/ /\ Calm /\ drv.because = "sign_in"
                 /\ HasHist' /\ hist'.logins = hist.logins + 1 /\ hist'.accounts = hist.accounts
              \/ /\ Calm /\ drv.because # "sign_in"
                 /\ HasHist' /\ hist'.logins = hist.logins /\ hist'.accounts = hist.accounts + 1
<1>1. drv.pc = "type" BY DEF Type
<1>2. Answered(TRUE) => Calm BY <1>1, AnsweredTries
<1>3. Answered(FALSE) => Calm \/ Undoes BY <1>1, AnsweredTries
<1>4. \/ /\ hist' = IF drv.because = "sign_in" THEN [hist EXCEPT !.logins = @ + 1]
                    ELSE [hist EXCEPT !.accounts = @ + 1]
         /\ Answered(TRUE) \/ (Lossy /\ Answered(FALSE))
      \/ Answered(FALSE) /\ UNCHANGED hist
  BY DEF Type
<1>5. CASE Answered(FALSE) /\ UNCHANGED hist
  BY <1>1, <1>3, <1>5 DEF SameCounts, HasHist
<1>6. CASE /\ hist' = IF drv.because = "sign_in" THEN [hist EXCEPT !.logins = @ + 1]
                      ELSE [hist EXCEPT !.accounts = @ + 1]
           /\ Answered(TRUE) \/ (Lossy /\ Answered(FALSE))
  <2>1. ~Lossy => Calm BY <1>2, <1>6
  <2>2. CASE drv.because = "sign_in"
    <3>1. HasHist' /\ hist'.logins = hist.logins + 1 /\ hist'.accounts = hist.accounts
      BY <1>1, <1>6, <2>2 DEF HasHist
    <3> QED
      BY <1>2, <1>3, <1>6, <2>1, <2>2, <3>1
  <2>3. CASE drv.because # "sign_in"
    <3>1. HasHist' /\ hist'.logins = hist.logins /\ hist'.accounts = hist.accounts + 1
      BY <1>1, <1>6, <2>3 DEF HasHist
    <3> QED
      BY <1>2, <1>3, <1>6, <2>1, <2>3, <3>1
  <2> QED
    BY <2>2, <2>3
<1> QED
  BY <1>4, <1>5, <1>6

(* Every step of the driver is calm, or tries; but the typing, none counts. *)
LEMMA DriverTries ==
  ASSUME Formed, Driver, ~Type
  PROVE  Calm \/ Begins \/ GoesOn \/ Undoes
<1>1. CASE Start \/ OpenTab \/ Read \/ ReadNothing \/ Arrived \/ WatchReady \/ Judged \/ Counted
  BY <1>1, StartCalm, OpenTabCalm, ReadCalm, ReadNothingCalm, ArrivedCalm, WatchReadyCalm, JudgedCalm
<1>2. CASE \/ Ends \/ Posting \/ Chooser \/ Unmade \/ Entered \/ Settle
           \/ Unfilled \/ FillAgain \/ ParkBald \/ JudgeReview \/ Reviewed
           \/ Last \/ Throws
  BY <1>2, PageCalm
<1>3. CASE OnForm \/ Fill \/ Filled \/ Upload \/ Attach \/ JudgeStep
  BY <1>3, OnFormCalm, FillCalm, FilledCalm, UploadCalm, JudgeStepCalm
<1>4. CASE \/ Required \/ Errors \/ Fix \/ Look \/ Recheck \/ Press
           \/ Wait \/ Think \/ ThinkPress \/ Thought
  BY <1>4, RequiredCalm, ErrorsCalm, LookCalm, RecheckCalm, PressCalm, WaitCalm, ThinkCalm,
     ThinkPressCalm, ThoughtCalm
<1>5. CASE SignUp \/ SignIn \/ LoginFetched \/ Saved
  BY <1>5, SignUpBegins, SignInBegins, LoginFetchedTries, SavedTries
<1> QED
  BY <1>1, <1>2, <1>3, <1>4, <1>5 DEF Driver

LEMMA DriverCounts ==
  ASSUME HasHist, Driver, ~Type
  PROVE  SameCounts
<1>1. CASE UNCHANGED hist BY <1>1 DEF SameCounts, HasHist
<1>2. ASSUME NEW p, NEW button, Pressing(p, button) PROVE SameCounts
  BY <1>2 DEF Pressing, SameCounts, HasHist
<1>3. CASE Press \/ ThinkPress
  BY <1>1, <1>2, <1>3 DEF Press, ThinkPress
<1>4. CASE \/ Start \/ OpenTab \/ Read \/ ReadNothing \/ Arrived \/ WatchReady
           \/ Judged \/ Counted \/ Ends \/ Posting \/ Chooser \/ SignUp \/ SignIn
           \/ LoginFetched \/ Saved
  BY <1>1, <1>4 DEF Start, OpenTab, Read, ReadNothing, Arrived, WatchReady,
    Judged, Counted, Ends, Posting, Chooser, SignUp, SignIn, LoginFetched, Saved
<1>5. CASE \/ Unmade \/ Entered \/ Settle \/ OnForm \/ Unfilled \/ Fill
           \/ Filled \/ Upload \/ Attach \/ FillAgain \/ ParkBald \/ JudgeReview
           \/ JudgeStep
  BY <1>1, <1>5 DEF Unmade, Entered, Settle, OnForm, Unfilled, Fill, Filled,
    Upload, Attach, FillAgain, ParkBald, JudgeReview, JudgeStep
<1>6. CASE \/ Reviewed \/ Required \/ Last \/ Errors \/ Fix \/ Look \/ Recheck
           \/ Wait \/ Think \/ Thought \/ Throws
  BY <1>1, <1>6 DEF Reviewed, Required, Last, Errors, Fix, Look, Recheck,
    Wait, Think, Thought, Throws
<1> QED
  BY <1>3, <1>4, <1>5, <1>6 DEF Driver

LEMMA OthersRest ==
  ASSUME Formed, HasHist, Panel \/ World \/ UNCHANGED vars
  PROVE  Rests /\ SameCounts
<1>1. HasRec(rec) /\ HasDrv(drv) BY DEF Formed
<1>2. CASE StartRun \/ CheckConfirmation
  BY <1>1, <1>2, IdleHas DEF StartRun, CheckConfirmation, Begin, Rests, SameCounts, HasHist, HasDrv, HasOn
<1>3. CASE StopRun \/ SkipRun \/ CloseTab
  BY <1>1, <1>3 DEF StopRun, SkipRun, CloseTab, Rests, SameCounts, HasHist, HasRec
<1>4. CASE ResumeRun
  <2>1. Rests BY <1>1, <1>4, IdleHas DEF ResumeRun, Begin, Rests, HasRec, HasDrv, HasOn
  <2>2. SameCounts BY <1>4 DEF ResumeRun, SameCounts, HasHist
  <2> QED
    BY <2>1, <2>2
<1>5. CASE PanelCloses
  BY <1>1, <1>5, IdleHas DEF PanelCloses, Rests, SameCounts, HasHist, HasRec
<1>6. CASE World
  BY <1>1, <1>6 DEF World, Responds, Goes, Rests, SameCounts, HasHist
<1>7. CASE UNCHANGED vars
  BY <1>1, <1>7 DEF vars, Rests, SameCounts, HasHist
<1> QED
  BY <1>2, <1>3, <1>4, <1>5, <1>6, <1>7 DEF Panel

(* The shape of the state is kept by every step.                           *)
Whole == Formed /\ HasHist

LEMMA InitAttempts == ASSUME Init PROVE Attempts /\ Whole
<1>1. /\ rec = NewRecord /\ drv = Idle /\ hist.logins = 0 /\ hist.accounts = 0 /\ HasHist
  BY DEF Init, HasHist
<1>2. HasRec(rec) /\ HasDrv(drv) /\ drv.pc = "idle"
  BY <1>1, IdleHas DEF HasRec, NewRecord
<1> QED
  BY <1>1, <1>2 DEF Attempts, Whole, Formed, Trying

LEMMA NextTries ==
  ASSUME Whole, [Next]_vars
  PROVE  Calm \/ Begins \/ GoesOn \/ Undoes \/ Rests
<1>1. CASE Driver /\ ~Type BY <1>1, DriverTries DEF Whole
<1>2. CASE Type BY <1>2, TypeTries DEF Whole
<1>3. CASE Panel \/ World \/ UNCHANGED vars BY <1>3, OthersRest DEF Whole
<1> QED
  BY <1>1, <1>2, <1>3 DEF Next

LEMMA NextWhole ==
  ASSUME Whole, [Next]_vars
  PROVE  Whole'
<1>1. Calm => Formed' BY DEF Calm, SameMarks, Formed
<1>2. Begins \/ Undoes => Formed' BY DEF Begins, Undoes, SameButTried, Formed
<1>3. HasRec(rec) /\ HasDrv(drv) BY DEF Whole, Formed
<1>4. GoesOn \/ Rests => Formed' BY <1>3 DEF GoesOn, Rests, Formed
<1>5. Formed' BY <1>1, <1>2, <1>4, NextTries
<1>6. CASE Driver /\ ~Type BY <1>5, <1>6, DriverCounts DEF Whole, SameCounts
<1>7. CASE Type BY <1>5, <1>7, TypeTries DEF Whole
<1>8. CASE Panel \/ World \/ UNCHANGED vars
  BY <1>5, <1>8, OthersRest DEF Whole, SameCounts
<1> QED
  BY <1>6, <1>7, <1>8 DEF Next

(* Stop: no step of the run makes a call while it is asked for.            *)
LEMMA NextHonours ==
  ASSUME Whole, [Next]_vars, rec.stop, rec'.stop, drv.pc # drv'.pc
  PROVE  drv'.pc \notin Calls
<1>1. CASE Calm BY <1>1 DEF Calm
<1>2. CASE Begins \/ Undoes BY <1>2, IdleHas DEF Begins, Undoes
<1>3. CASE GoesOn BY <1>3 DEF GoesOn
<1>4. CASE Rests BY <1>4 DEF Rests, Calls
<1> QED
  BY <1>1, <1>2, <1>3, <1>4, NextTries

(* A step that counts nothing keeps the counts within their marks.         *)
LEMMA CountsKeep ==
  ASSUME Attempts, Whole', SameCounts, Calm \/ Begins \/ GoesOn \/ Undoes \/ Rests
  PROVE  Attempts'
<1>1. CASE Calm BY <1>1 DEF Calm, SameMarks, Attempts, SameCounts, Whole
<1>2. CASE Begins BY <1>2 DEF Begins, Attempts, SameCounts, Whole
<1>3. CASE GoesOn BY <1>3 DEF GoesOn, Attempts, SameCounts, Whole
<1>4. CASE Undoes BY <1>4 DEF Undoes, SameButTried, Attempts, SameCounts, Whole
<1>5. CASE Rests
  <2>1. Trying' => Trying /\ UNCHANGED drv BY <1>5 DEF Rests, Trying
  <2> QED
    BY <1>5, <2>1 DEF Rests, Attempts, SameCounts, Whole
<1> QED
  BY <1>1, <1>2, <1>3, <1>4, <1>5

LEMMA NextAttempts ==
  ASSUME ~Lossy, Attempts, Whole, [Next]_vars
  PROVE  Attempts'
<1>1. Whole' BY NextWhole
<1>2. CASE Driver /\ ~Type
  BY <1>1, <1>2, NextTries, DriverCounts, CountsKeep DEF Whole
<1>3. CASE Panel \/ World \/ UNCHANGED vars
  BY <1>1, <1>3, OthersRest, CountsKeep DEF Whole
<1>4. CASE Type /\ SameCounts BY <1>1, <1>4, NextTries, CountsKeep
<1>5. CASE Type /\ ~SameCounts
  <2>1. Trying BY <1>5 DEF Type, Trying
  <2>2. /\ Calm
        /\ \/ drv.because = "sign_in" /\ hist'.logins = hist.logins + 1 /\ hist'.accounts = hist.accounts
           \/ drv.because # "sign_in" /\ hist'.logins = hist.logins /\ hist'.accounts = hist.accounts + 1
    BY <1>5, TypeTries DEF Whole
  <2> QED
    BY <1>1, <2>1, <2>2 DEF Calm, SameMarks, Attempts, Whole
<1> QED
  BY <1>2, <1>3, <1>4, <1>5 DEF Next

(* Over every Stop, crash, Resume and move of the site, the saved login is *)
(* typed to sign in once in the life of a run, and to sign up once: true   *)
(* of every site, while the answer of a page that did it is not lost.      *)
THEOREM OneAttemptAlways ==
  ~Lossy => (Spec => []OneAttempt)
<1> SUFFICES ASSUME ~Lossy PROVE Spec => []OneAttempt
  OBVIOUS
<1>1. Attempts => OneAttempt BY DEF Attempts, OneAttempt
<1> QED
  BY <1>1, InitAttempts, NextAttempts, NextWhole, PTL DEF Spec

(* Once Stop is pressed no new call of the driver is made: true of every   *)
(* site, with the reasoning step on or off, and with answers lost.         *)
THEOREM StopIsAlwaysHonoured == Spec => StopIsHonoured
<1>1. Whole /\ [Next]_vars =>
        [rec.stop /\ rec'.stop /\ drv.pc # drv'.pc => drv'.pc \notin Calls]_vars
  BY NextHonours
<1> QED
  BY <1>1, InitAttempts, NextWhole, PTL DEF Spec, StopIsHonoured

-----------------------------------------------------------------------------
(* What the drive knows of its page *)

Spots == Spot \cup {NoSpot}
Statuses == InAir \cup {"parked", "ready", "confirming", "stopped", "applied"}
Points == Calls \cup Between \cup {"idle", "start"}

(* The point of the code that a drive is at, or goes on to after a save.   *)
Point(d) == IF d.pc = "saving" THEN d.then ELSE d.pc

Before == {"idle", "start", "open", "read"}
Filling == {"unfilled", "fill", "filled", "upload", "attach"}
Judging == {"judge", "reviewed", "required", "last", "errors", "fix", "look", "recheck"}
Thinking == {"think", "thought"}
AtFilled(d, x) == x \in Judging \/ (x \in {"press", "wait"} /\ d.button = "next")

(* A record of pages, and of a run at one of its stages.                   *)
Kept(r) ==
  /\ HasRec(r)
  /\ r.status \in Statuses /\ r.step \in Nat /\ r.parked \in Spots
  /\ r.seen \subseteq Pages /\ r.left \subseteq Pages

(* At every point past a read the page in hand is one, and past a fill the *)
(* drive remembers what it filled.                                         *)
SoundAt(d, r, x) ==
  /\ HasDrv(d) /\ Kept(r)
  /\ d.view \in Spots /\ d.on.spot \in Spots
  /\ x \in Points
  /\ x \in {"idle", "start", "open"} => d.on = Untouched
  /\ x \in {"arrived", "kind", "count"} => d.button = "none"
  /\ x \notin Before => d.view.shape \in Pages /\ d.view.place = Place[d.view.shape]
  /\ d.on.filled => d.on.spot.place \in Pages
  /\ x \in Filling => ~d.on.filled
  /\ AtFilled(d, x) => d.on.filled
  /\ d.button = "next" => d.kind = "form_step"
  /\ x = "recheck" => d.button = "next"
  /\ x \in {"press", "recheck"} => d.button \in {"apply", "chooser", "next"}
  /\ x \in Thinking => d.on.thought
  /\ x = "thought" => d.landed \in Pages
  /\ d.resumeWhy \in Remembered \cup {"none"}
  /\ d.resumeWhy # "none" => d.on = Untouched /\ d.shaped = {} /\ x = "read"

(* What the drive takes the page in hand for is what the page is.          *)
FitAt(d) ==
  /\ d.mayApply => d.view.shape \notin Sends
  /\ d.kind \in {"posting", "chooser", "form_step"} => Kind[d.view.shape] = d.kind
  /\ d.button = "apply" => Kind[d.view.shape] = "posting" /\ d.view.shape \notin Sends
  /\ d.button = "chooser" => Kind[d.view.shape] = "chooser"
  /\ d.button = "next" => Kind[d.view.shape] = "form_step"

(* The step that the drive takes for filled is filled, also when it parks  *)
(* on it and is resumed.                                                   *)
DoneAt(place, done) == \A p \in Pages : Place[p] = place => Step[p] \in done
WorkedAt(d, r, x, done) ==
  /\ d.on.filled => DoneAt(d.on.spot.place, done)
  /\ x \in {"filled", "upload", "attach"} \/ AtFilled(d, x) => DoneAt(d.view.place, done)
  /\ x = "think" /\ d.because = "open_questions" /\ ~d.on.filled => DoneAt(d.view.place, done)
  /\ x \in Thinking /\ d.because \in {"page_errors", "upload"} => DoneAt(d.view.place, done)
  /\ r.why \in {"page_errors", "upload"} => DoneAt(r.parked.place, done)
  /\ d.resumeWhy \in {"page_errors", "upload"} => DoneAt(r.parked.place, done)

(* The word of the user who resumes is about the page that parked; it is   *)
(* still about the page in hand until that is looked at once more, and is  *)
(* dropped when it is left.                                                *)
VouchedAt(d, r, x, word) ==
  /\ x \in {"reviewed", "required", "last"} => r.step > 0 \/ r.wrote
  /\ r.status \in {"waiting", "ready"} => r.why # "unsure_page"
  /\ x = "start" /\ r.why = "unsure_page" => word = r.parked.place
  /\ d.resumeWhy = "unsure_page" => word = r.parked.place
  /\ d.on.vouched => word # Nowhere /\ d.kind # "form_step"
  /\ d.on.vouched /\ ~d.on.thought => d.shaped = {}
  /\ d.on.vouched /\ ~d.on.thought /\ ~d.on.again =>
       /\ d.on.filled => d.on.spot.place = word
       /\ ~d.on.filled => d.view.place = word /\ x # "read"
       /\ x \in Judging => d.view.place = word

HasTab == {"page", "errs", "owes", "open", "done"} \subseteq DOMAIN tab
HasNotes == {"sent", "blind", "vouch"} \subseteq DOMAIN hist
Sound == SoundAt(drv, rec, Point(drv)) /\ tab.page \in Pages /\ HasTab /\ HasNotes
Fit == FitAt(drv)
Worked == WorkedAt(drv, rec, Point(drv), tab.done)
Vouched == VouchedAt(drv, rec, Point(drv), hist.vouch)

(* What the proofs of two properties ask of a step: when the tab is first  *)
(* read after the run opened the job, it does not show a finished draft;   *)
(* and a fill, or a press of the reasoning step, works the step of the     *)
(* page that the driver has read.                                          *)
OpensTheJob == Read /\ drv.applyOk => tab.page \notin Sends
WorksItsPage == Fill \/ ThinkPress => Step[tab.page] = Step[View]

(* And of the site: what would send an application is not read as a step   *)
(* or a chooser, and no posting that would not has its address and         *)
(* heading; a step has an address or a heading of its own.                 *)
SendsAreTold ==
  \A p \in Sends : /\ Kind[p] \notin {"form_step", "chooser"}
                    /\ \A q \in Pages \ Sends : Kind[q] = "posting" => Place[q] # Place[p]
StepsArePlaces == \A p, q \in Pages : Place[p] = Place[q] => Step[p] = Step[q]

Fits == Fit /\ OpensTheJob
Works == Worked /\ WorksItsPage /\ StepsArePlaces

(* A drive d that goes on to point x with record r, if done is filled by   *)
(* then, keeps what is known.                                              *)
Keeps(d, r, x, done) ==
  /\ SoundAt(d, r, x)
  /\ Fits => FitAt(d)
  /\ Works => WorkedAt(d, r, x, done)
  /\ Vouched => VouchedAt(d, r, x, hist.vouch)
  /\ r.status = "ready" => rec.status = "ready"
Lands(done) == Keeps(drv', rec', Point(drv'), done)

(* The reasons that are given on a filled page only.                       *)
Closing(why, d, done) ==
  why \in {"page_errors", "upload", "open_questions"} => (Works => DoneAt(d.view.place, done))

LEMMA PagesArePlaces ==
  /\ Nowhere \notin Pages /\ Any \notin Pages
  /\ Kind \in [Pages -> Kinds] /\ Place \in [Pages -> Pages] /\ Step \in [Pages -> Pages]
  /\ UNION {Fields, Uploads, Bare, Sends, Opens, Matched, SignedIn} \subseteq Pages /\ Opens \cap Sends = {}
  /\ Links \subseteq Pages \X Pages
BY QueueRunConstants

LEMMA PointsAre ==
  /\ "saving" \notin Points
  /\ Judging \cup Filling \cup Thinking \cup Before \subseteq Points
  /\ {"arrived", "kind", "count", "page", "login", "type", "settle", "entered", "unmade"} \subseteq Points
  /\ {"press", "wait"} \subseteq Points
BY DEF Points, Calls, Between, Judging, Filling, Thinking, Before

LEMMA IdleKeeps ==
  /\ HasDrv(Idle) /\ Idle.pc = "idle" /\ Idle.view = NoSpot /\ Idle.on = Untouched /\ NoSpot \in Spots
  /\ Idle.button = "none" /\ Idle.kind = "unknown" /\ ~Idle.mayApply /\ Idle.resumeWhy = "none"
  /\ Idle.shaped = {} /\ Point(Idle) = "idle"
  /\ HasOn(Untouched) /\ ~Untouched.filled /\ Untouched.spot = NoSpot /\ ~Untouched.vouched
  /\ ~Untouched.thought /\ ~Untouched.again
  /\ FitAt(Idle)
<1>1. NoSpot \in Spots BY DEF NoSpot, Spots
<1>2. /\ HasOn(Untouched) /\ ~Untouched.filled /\ Untouched.spot = NoSpot /\ ~Untouched.vouched
      /\ ~Untouched.thought /\ ~Untouched.again
  BY DEF Untouched, HasOn
<1>3. /\ Idle.pc = "idle" /\ Idle.view = NoSpot /\ Idle.on = Untouched
      /\ Idle.button = "none" /\ Idle.kind = "unknown" /\ ~Idle.mayApply /\ Idle.resumeWhy = "none"
      /\ Idle.shaped = {} /\ Point(Idle) = "idle"
  BY DEF Idle, Point
<1> QED
  BY <1>1, <1>2, <1>3, IdleHas DEF FitAt

LEMMA FinishKeeps ==
  ASSUME NEW status \in {"parked", "stopped", "confirming"}, NEW why, NEW r, Kept(r), NEW done,
         why \in {"page_errors", "upload"} => (Works => DoneAt(r.parked.place, done)),
         Finish(status, why, r)
  PROVE  Lands(done)
<1>1. drv' = Idle BY DEF Finish
<1>2. /\ Kept(rec') /\ rec'.parked = r.parked /\ rec'.status = status
      /\ rec'.why \in {why, "tab_closed"}
  BY DEF Finish, Kept, HasRec, Statuses
<1>3. Point(drv') = "idle" BY <1>1, IdleKeeps
<1>4. SoundAt(Idle, rec', "idle")
  BY PointsAre, <1>2, IdleKeeps, PagesArePlaces DEF SoundAt, Before, Filling, AtFilled, Judging, Thinking
<1>5. Works => WorkedAt(Idle, rec', "idle", done)
  BY <1>2, IdleKeeps DEF WorkedAt, AtFilled, Judging, Thinking
<1>6. VouchedAt(Idle, rec', "idle", hist.vouch)
  BY <1>2, IdleKeeps DEF VouchedAt, Judging
<1> QED
  BY <1>1, <1>2, <1>3, <1>4, <1>5, <1>6, IdleKeeps DEF Lands, Keeps

(* What the verbs are given is kept by what they do.                       *)
Alike(e, d) ==
  /\ e.view = d.view /\ e.kind = d.kind /\ e.button = d.button /\ e.mayApply = d.mayApply
  /\ e.because = d.because /\ e.resumeWhy = d.resumeWhy /\ e.shaped = d.shaped /\ e.on = d.on
  /\ e.landed = d.landed

LEMMA AlikeKeeps ==
  ASSUME NEW d, NEW e, HasDrv(e), Alike(e, d), NEW r, NEW x, NEW done, Keeps(d, r, x, done)
  PROVE  Keeps(e, r, x, done)
<1>1. AtFilled(e, x) = AtFilled(d, x) BY DEF AtFilled, Alike
<1>2. SoundAt(e, r, x) BY PointsAre, <1>1 DEF Keeps, SoundAt, Alike
<1>3. Fits => FitAt(e) BY DEF Keeps, FitAt, Alike
<1>4. Works => WorkedAt(e, r, x, done) BY <1>1 DEF Keeps, WorkedAt, Alike
<1>5. Vouched => VouchedAt(e, r, x, hist.vouch) BY DEF Keeps, VouchedAt, Alike
<1> QED
  BY <1>2, <1>3, <1>4, <1>5 DEF Keeps

LEMMA GoesKeeps ==
  ASSUME NEW d, NEW r, NEW x, NEW done, Keeps(d, r, x, done), drv' = [d EXCEPT !.pc = x], rec' = r
  PROVE  Lands(done)
<1>1. HasDrv(d) /\ x # "saving" BY PointsAre DEF Keeps, SoundAt
<1>2. HasDrv(drv') /\ drv'.pc = x /\ Alike(drv', d) BY <1>1 DEF HasDrv, Alike
<1> QED
  BY <1>1, <1>2, AlikeKeeps DEF Lands, Point

LEMMA SaveKeeps ==
  ASSUME NEW d, NEW r, NEW x, NEW done, Keeps(d, r, x, done), Save(x, d, r)
  PROVE  Lands(done)
<1>1. HasDrv(d) /\ x # "saving" BY PointsAre DEF Keeps, SoundAt
<1>2. /\ HasDrv(drv') /\ drv'.pc = "saving" /\ drv'.then = x /\ Alike(drv', d) /\ rec' = r
  BY <1>1 DEF Save, HasDrv, Alike
<1> QED
  BY <1>1, <1>2, AlikeKeeps DEF Lands, Point

LEMMA CallKeeps ==
  ASSUME NEW d, NEW r, NEW x, NEW done, Keeps(d, r, x, done), Call(x, d, r)
  PROVE  Lands(done)
<1>1. Kept(r) BY DEF Keeps, SoundAt
<1>2. CASE r.stop BY <1>1, <1>2, FinishKeeps DEF Call
<1>3. CASE ~r.stop BY <1>3, GoesKeeps DEF Call
<1> QED
  BY <1>2, <1>3

LEMMA ParkKeeps ==
  ASSUME NEW why, NEW d, d.view \in Spots, NEW r, Kept(r), NEW done,
         why \in {"page_errors", "upload"} => (Works => DoneAt(d.view.place, done)),
         Park(why, d, r)
  PROVE  Lands(done)
<1> DEFINE q == [r EXCEPT !.parked = IF why \in Remembered THEN d.view ELSE @]
<1>1. Kept(q) BY DEF Kept, HasRec
<1>2. q.parked = IF why \in Remembered THEN d.view ELSE r.parked BY DEF Kept, HasRec
<1>3. Finish("parked", why, q) BY DEF Park
<1> HIDE DEF q
<1>4. why \in {"page_errors", "upload"} => why \in Remembered BY DEF Remembered
<1> QED
  BY <1>1, <1>2, <1>3, <1>4, FinishKeeps

(* The reasoning step may take over a drive that has just noted a change   *)
(* of shape.                                                               *)
LEMMA ParkOrTakesOver ==
  ASSUME NEW c, NEW r, NEW x, x \notin Before, NEW done, Keeps(c, r, x, done),
         NEW d, HasDrv(d), Alike([c EXCEPT !.shaped = d.shaped], d), NEW why,
         Closing(why, d, done), ParkOr(why, d, r)
  PROVE  Lands(done)
<1>1. /\ HasDrv(c) /\ Kept(r) /\ c.view \in Spots
      /\ c.resumeWhy = "none"
  BY DEF Keeps, SoundAt, Before
<1>2. /\ d.view = c.view /\ d.kind = c.kind /\ d.button = c.button /\ d.mayApply = c.mayApply
      /\ d.because = c.because /\ d.resumeWhy = c.resumeWhy /\ d.on = c.on
  BY <1>1 DEF Alike, HasDrv
<1>3. CASE ~CanThink(why, d, r) BY <1>1, <1>2, <1>3, ParkKeeps DEF ParkOr, Closing
<1>4. CASE CanThink(why, d, r)
  <2> DEFINE e == [d EXCEPT !.on.thought = TRUE, !.thoughtOn = @ \cup {d.view.place}, !.because = why]
             q == [r EXCEPT !.status = "filling"]
  <2>1. Save("think", e, q) BY <1>4 DEF ParkOr
  <2>2. /\ HasDrv(e) /\ e.view = d.view /\ e.kind = d.kind /\ e.button = d.button
        /\ e.mayApply = d.mayApply /\ e.because = why /\ e.resumeWhy = d.resumeWhy /\ e.shaped = d.shaped
        /\ e.on.thought /\ e.on.filled = d.on.filled /\ e.on.spot = d.on.spot
        /\ e.on.vouched = d.on.vouched
    BY <1>1, <1>2 DEF HasDrv, HasOn
  <2>3. /\ Kept(q) /\ q.parked = r.parked /\ q.step = r.step /\ q.why = r.why
        /\ q.status = "filling"
    BY <1>1 DEF Kept, HasRec, Statuses, InAir
  <2> HIDE DEF e, q
  <2>4. SoundAt(e, q, "think")
    BY PointsAre, <1>1, <1>2, <2>2, <2>3 DEF Keeps, SoundAt, Before, Filling, AtFilled, Judging, Thinking
  <2>5. Fits => FitAt(e) BY <1>2, <2>2 DEF Keeps, FitAt
  <2>6. Works => WorkedAt(e, q, "think", done)
    BY <1>1, <1>2, <2>2, <2>3 DEF Keeps, WorkedAt, Closing, AtFilled, Judging, Thinking
  <2>7. Vouched => VouchedAt(e, q, "think", hist.vouch)
    BY <1>1, <1>2, <2>2, <2>3 DEF Keeps, VouchedAt
  <2> QED
    BY <2>1, <2>3, <2>4, <2>5, <2>6, <2>7, SaveKeeps DEF Keeps
<1> QED
  BY <1>3, <1>4

LEMMA ParkOrKeeps ==
  ASSUME NEW why, NEW d, NEW r, NEW x, x \notin Before, NEW done, Keeps(d, r, x, done),
         Closing(why, d, done), ParkOr(why, d, r)
  PROVE  Lands(done)
<1>1. HasDrv(d) BY DEF Keeps, SoundAt
<1>2. Alike([d EXCEPT !.shaped = d.shaped], d) BY <1>1 DEF Alike, HasDrv
<1> QED
  BY <1>1, <1>2, ParkOrTakesOver

(* A drive at a point knows what is known there.                           *)
LEMMA HereKeeps ==
  ASSUME Sound PROVE Keeps(drv, rec, Point(drv), tab.done)
BY DEF Sound, Keeps, Fit, Worked, Vouched, Fits, Works

LEMMA PointIsPc == ASSUME NEW x, x # "saving", drv.pc = x PROVE Point(drv) = x
BY DEF Point

(* A record that is only marked and counted on.                            *)
Marked(q, r) ==
  /\ Kept(q) /\ q.parked = r.parked /\ q.why = r.why
  /\ q.status = r.status \/ q.status \notin {"waiting", "ready"}

(* A page that is left leaves nothing known of it.                         *)
LEMMA LeftKeeps ==
  ASSUME NEW d, NEW r, NEW x, x \notin Before, NEW done, Keeps(d, r, x, done),
         NEW e, HasDrv(e), Alike([d EXCEPT !.on = Untouched, !.shaped = e.shaped], e),
         NEW q, Marked(q, r), NEW y \in {"read", "unfilled"}
  PROVE  Keeps(e, q, y, done)
<1>1. /\ HasDrv(d) /\ d.view \in Spots /\ d.resumeWhy = "none"
      /\ d.view.shape \in Pages /\ d.view.place = Place[d.view.shape]
  BY DEF Keeps, SoundAt, Before
<1>2. /\ e.view = d.view /\ e.kind = d.kind /\ e.button = d.button /\ e.mayApply = d.mayApply
      /\ e.because = d.because /\ e.resumeWhy = d.resumeWhy /\ e.on = Untouched
  BY <1>1 DEF Alike, HasDrv
<1>3. SoundAt(e, q, y)
  BY PointsAre, <1>1, <1>2, IdleKeeps
    DEF Keeps, SoundAt, Marked, AtFilled, Judging, Thinking, Filling, Before
<1>4. Fits => FitAt(e) BY <1>2 DEF Keeps, FitAt
<1>5. Works => WorkedAt(e, q, y, done)
  BY <1>1, <1>2, IdleKeeps DEF Keeps, WorkedAt, Marked, AtFilled, Judging, Thinking
<1>6. Vouched => VouchedAt(e, q, y, hist.vouch)
  BY <1>1, <1>2, IdleKeeps DEF Keeps, VouchedAt, Marked
<1> QED
  BY <1>3, <1>4, <1>5, <1>6 DEF Keeps, Marked

LEMMA MovedKeeps ==
  ASSUME NEW d, NEW r, NEW x, x \notin Before, NEW done, Keeps(d, r, x, done),
         NEW q, Marked(q, r), NEW y \in {"read", "unfilled"}
  PROVE  Keeps(Moved(d), q, y, done)
<1>1. HasDrv(d) BY DEF Keeps, SoundAt
<1>2. HasDrv(Moved(d)) BY <1>1, IdleKeeps DEF Moved, HasDrv
<1>3. Alike([d EXCEPT !.on = Untouched, !.shaped = Moved(d).shaped], Moved(d))
  BY <1>1 DEF Moved, Alike, HasDrv
<1> QED
  BY <1>2, <1>3, LeftKeeps

(* A look at a page whose errors are not repaired, and a repair.           *)
LEMMA ParkErrorsKeeps ==
  ASSUME NEW d, NEW r, NEW x, x \notin Before, NEW done, Keeps(d, r, x, done), AtFilled(d, x),
         ParkErrors(d, r)
  PROVE  Lands(done)
<1>1. Works => DoneAt(d.view.place, done) BY DEF Keeps, WorkedAt
<1>2. CASE ParkOr("page_errors", d, r) BY <1>1, <1>2, ParkOrKeeps DEF Closing
<1>3. CASE Call("look", d, r)
  <2>1. SoundAt(d, r, "look")
    BY PointsAre DEF Keeps, SoundAt, AtFilled, Judging, Before, Filling, Thinking
  <2>2. Works => WorkedAt(d, r, "look", done) BY <1>1 DEF Keeps, WorkedAt, Thinking
  <2>3. Vouched => VouchedAt(d, r, "look", hist.vouch)
    BY DEF Keeps, VouchedAt, SoundAt, AtFilled, Judging
  <2> QED
    BY <1>3, <2>1, <2>2, <2>3, CallKeeps DEF Keeps
<1> QED
  BY <1>2, <1>3 DEF ParkErrors

LEMMA JudgingKeeps ==
  ASSUME NEW d, NEW r, NEW x, x \notin Before, NEW done, Keeps(d, r, x, done), AtFilled(d, x),
         NEW e, HasDrv(e), Alike([d EXCEPT !.on = e.on, !.because = e.because], e),
         e.on.filled = d.on.filled, e.on.spot = d.on.spot, e.on.again = d.on.again,
         e.on.vouched = d.on.vouched, e.on.thought = d.on.thought,
         NEW q, Marked(q, r), NEW y \in Judging, y = "recheck" => e.button = "next",
         y \in {"reviewed", "required", "last"} => (Vouched => q.step > 0 \/ q.wrote)
  PROVE  Keeps(e, q, y, done)
<1>1. HasDrv(d) BY DEF Keeps, SoundAt
<1>2. /\ e.view = d.view /\ e.kind = d.kind /\ e.button = d.button /\ e.mayApply = d.mayApply
      /\ e.resumeWhy = d.resumeWhy /\ e.shaped = d.shaped
  BY <1>1 DEF Alike, HasDrv
<1>3. d.on.filled /\ d.resumeWhy = "none" BY DEF Keeps, SoundAt, Before
<1>4. SoundAt(e, q, y)
  BY PointsAre, <1>2, <1>3 DEF Keeps, SoundAt, Marked, AtFilled, Judging, Thinking, Filling
<1>5. Fits => FitAt(e) BY <1>2 DEF Keeps, FitAt
<1>6. Works => WorkedAt(e, q, y, done)
  BY <1>2, <1>3 DEF Keeps, WorkedAt, Marked, Thinking
<1>7. Vouched => VouchedAt(e, q, y, hist.vouch)
  BY <1>2, <1>3 DEF Keeps, VouchedAt, SoundAt, Marked, AtFilled, Judging
<1> QED
  BY <1>4, <1>5, <1>6, <1>7 DEF Keeps, Marked

LEMMA RepairKeeps ==
  ASSUME NEW d, NEW r, NEW x, x \notin Before, NEW done, Keeps(d, r, x, done), AtFilled(d, x),
         Repair(d, r)
  PROVE  Lands(done)
<1> DEFINE e == [d EXCEPT !.on.fixes = @ + 1]
           q == [r EXCEPT !.status = "filling"]
<1>1. HasDrv(d) /\ Kept(r) BY DEF Keeps, SoundAt
<1>2. /\ HasDrv(e) /\ Alike([d EXCEPT !.on = e.on, !.because = e.because], e)
      /\ e.on.filled = d.on.filled /\ e.on.spot = d.on.spot /\ e.on.again = d.on.again
      /\ e.on.vouched = d.on.vouched /\ e.on.thought = d.on.thought
  BY <1>1 DEF HasDrv, HasOn, Alike
<1>3. Marked(q, r) BY <1>1 DEF Marked, Kept, HasRec, Statuses, InAir
<1>4. ParkErrors(d, r) \/ Save("fix", e, q) BY DEF Repair
<1> HIDE DEF e, q
<1>5. CASE Save("fix", e, q)
  <2>1. Keeps(e, q, "fix", done) BY <1>2, <1>3, JudgingKeeps DEF Judging
  <2> QED
    BY <1>5, <2>1, SaveKeeps
<1> QED
  BY <1>4, <1>5, ParkErrorsKeeps

LEMMA NoMoveKeeps ==
  ASSUME Sound, drv.pc \in {"press", "wait"}, NEW refused, NoMove(refused)
  PROVE  Lands(tab.done)
<1>1. Keeps(drv, rec, drv.pc, tab.done) BY HereKeeps, PointIsPc
<1>2. /\ HasDrv(drv) /\ Kept(rec) /\ drv.view \in Spots
  BY <1>1 DEF Keeps, SoundAt
<1>3. drv.pc \notin Before BY DEF Before
<1> DEFINE d == [drv EXCEPT !.on.tried = TRUE, !.on.filled = FALSE]
<1>4. \/ \E w \in {"no_change", "posting", "chooser"} : Park(w, drv, rec)
      \/ ParkOr("no_change", drv, rec)
      \/ drv.button = "next" /\ Call("read", d, rec)
  BY DEF NoMove
<1>5. /\ HasDrv(d) /\ Alike([drv EXCEPT !.on = d.on], d)
      /\ ~d.on.filled /\ d.on.spot = drv.on.spot /\ d.on.vouched = drv.on.vouched
  BY <1>2 DEF HasDrv, HasOn, Alike
<1> HIDE DEF d
<1>6. CASE drv.button = "next" /\ Call("read", d, rec)
  <2>1. /\ d.view = drv.view /\ d.kind = drv.kind /\ d.button = drv.button /\ d.mayApply = drv.mayApply
        /\ d.because = drv.because /\ d.resumeWhy = drv.resumeWhy /\ d.shaped = drv.shaped
    BY <1>2, <1>5 DEF Alike, HasDrv
  <2>2. drv.resumeWhy = "none" /\ drv.kind = "form_step" BY <1>1, <1>6 DEF Keeps, SoundAt
  <2>3. SoundAt(d, rec, "read")
    BY PointsAre, <1>1, <1>5, <2>1, <2>2 DEF Keeps, SoundAt, Before, Filling, AtFilled, Judging, Thinking
  <2>4. Fits => FitAt(d) BY <1>1, <2>1 DEF Keeps, FitAt
  <2>5. Works => WorkedAt(d, rec, "read", tab.done)
    BY <1>1, <1>5, <2>1, <2>2 DEF Keeps, WorkedAt, AtFilled, Judging, Thinking
  <2>6. Vouched => VouchedAt(d, rec, "read", hist.vouch)
    BY <1>1, <1>5, <2>1, <2>2 DEF Keeps, VouchedAt
  <2> QED
    BY <1>6, <2>3, <2>4, <2>5, <2>6, CallKeeps DEF Keeps
<1>7. CASE \E w \in {"no_change", "posting", "chooser"} : Park(w, drv, rec)
  BY <1>2, <1>7, ParkKeeps
<1>8. CASE ParkOr("no_change", drv, rec)
  BY <1>1, <1>3, <1>8, ParkOrKeeps DEF Closing
<1> QED
  BY <1>4, <1>6, <1>7, <1>8

(* A drive that ends, or goes on to a point that asks nothing more.        *)
LEMMA IdlesKeeps ==
  ASSUME Sound, drv' = Idle, Marked(rec', rec)
  PROVE  Lands(tab.done)
<1>1. Point(drv') = "idle" BY IdleKeeps
<1>2. SoundAt(Idle, rec', "idle")
  BY PointsAre, IdleKeeps, PagesArePlaces
    DEF Sound, SoundAt, Marked, Before, Filling, AtFilled, Judging, Thinking
<1>3. Works => WorkedAt(Idle, rec', "idle", tab.done)
  BY IdleKeeps DEF Works, Worked, WorkedAt, Marked, AtFilled, Judging, Thinking
<1>4. Vouched => VouchedAt(Idle, rec', "idle", hist.vouch)
  BY IdleKeeps DEF Vouched, VouchedAt, Marked, Judging
<1> QED
  BY <1>1, <1>2, <1>3, <1>4, IdleKeeps DEF Lands, Keeps, Marked

Plain == {"arrived", "kind", "count", "page", "login", "type", "settle", "entered", "unmade"}
LEMMA PlainKeeps ==
  ASSUME NEW d, NEW r, NEW x, x \notin Before, NEW done, Keeps(d, r, x, done),
         NEW e, HasDrv(e), Alike([d EXCEPT !.because = e.because], e),
         NEW q, Marked(q, r), NEW y \in Plain,
         y \in {"arrived", "kind", "count"} => d.button = "none"
  PROVE  Keeps(e, q, y, done)
<1>1. HasDrv(d) /\ d.resumeWhy = "none" BY DEF Keeps, SoundAt, Before
<1>2. /\ e.view = d.view /\ e.kind = d.kind /\ e.button = d.button /\ e.mayApply = d.mayApply
      /\ e.resumeWhy = d.resumeWhy /\ e.shaped = d.shaped /\ e.on = d.on
  BY <1>1 DEF Alike, HasDrv
<1>3. SoundAt(e, q, y)
  BY PointsAre, <1>1, <1>2 DEF Keeps, SoundAt, Marked, AtFilled, Judging, Thinking, Filling, Plain, Before
<1>4. Fits => FitAt(e) BY <1>2 DEF Keeps, FitAt
<1>5. Works => WorkedAt(e, q, y, done)
  BY <1>1, <1>2 DEF Keeps, WorkedAt, Marked, AtFilled, Judging, Thinking, Plain
<1>6. Vouched => VouchedAt(e, q, y, hist.vouch)
  BY <1>1, <1>2 DEF Keeps, VouchedAt, Marked, Judging, Plain
<1> QED
  BY <1>3, <1>4, <1>5, <1>6 DEF Keeps, Marked

-----------------------------------------------------------------------------
(* One lemma for each step of the driver *)

LEMMA StartKeeps == ASSUME Sound, Start PROVE Lands(tab.done)
<1> DEFINE why == IF rec.opened /\ rec.why \in Remembered THEN rec.why ELSE "none"
           d == [Idle EXCEPT !.resumed = rec.opened, !.userNav = rec.why \in UserNavigates,
                             !.resumeWhy = IF rec.opened /\ rec.why \in Remembered THEN rec.why ELSE "none"]
           opening == [rec EXCEPT !.status = "opening", !.why = "none", !.hosts = {JobHost}, !.at = JobHost]
           going == [rec EXCEPT !.status = "filling", !.why = "none"]
<1>1. SoundAt(drv, rec, "start") /\ Kept(rec) BY PointsAre, PointIsPc DEF Start, Sound, SoundAt
<1>2. /\ HasDrv(d) /\ d.view = NoSpot /\ d.on = Untouched /\ d.button = "none" /\ d.kind = "unknown"
      /\ d.mayApply = FALSE /\ d.shaped = {} /\ d.resumeWhy = why
  BY IdleKeeps DEF HasDrv, HasOn
<1>3. /\ Kept(opening) /\ opening.parked = rec.parked
      /\ opening.why = "none" /\ opening.status = "opening"
      /\ Kept(going) /\ going.parked = rec.parked
      /\ going.why = "none" /\ going.status = "filling"
  BY <1>1 DEF Kept, HasRec, Statuses, InAir
<1>4. \/ drv' = Idle /\ UNCHANGED rec
      \/ Finish("stopped", "user", rec)
      \/ ~rec.opened /\ Save("open", d, opening)
      \/ Call("read", d, rec)
      \/ Save("read", d, going)
  BY DEF Start
<1>5. why \in Remembered \cup {"none"} OBVIOUS
<1>6. Worked => (why \in {"page_errors", "upload"} => DoneAt(rec.parked.place, tab.done))
  BY DEF Worked, WorkedAt
<1>7. Vouched => (why = "unsure_page" => hist.vouch = rec.parked.place)
  BY PointIsPc DEF Vouched, VouchedAt, Start
<1>8. ~rec.opened => why = "none" OBVIOUS
<1> HIDE DEF why, d, opening, going
<1>9. FitAt(d) BY <1>2 DEF FitAt
<1>10. ASSUME NEW q \in {opening, going, rec}, NEW x \in {"open", "read"}, x = "open" => why = "none"
       PROVE  Keeps(d, q, x, tab.done)
  <2>1. SoundAt(d, q, x)
    BY PointsAre, <1>1, <1>2, <1>3, <1>5, <1>10, IdleKeeps
      DEF SoundAt, Before, Filling, AtFilled, Judging, Thinking
  <2>2. Works => WorkedAt(d, q, x, tab.done)
    BY <1>2, <1>3, <1>6, <1>10, IdleKeeps DEF Works, Worked, WorkedAt, AtFilled, Judging, Thinking
  <2>3. Vouched => VouchedAt(d, q, x, hist.vouch)
    BY <1>2, <1>3, <1>7, <1>10, IdleKeeps DEF Vouched, VouchedAt
  <2> QED
    BY <1>3, <1>9, <1>10, <2>1, <2>2, <2>3 DEF Keeps
<1>11. CASE drv' = Idle /\ UNCHANGED rec BY <1>1, <1>11, IdlesKeeps DEF Marked
<1>12. CASE Finish("stopped", "user", rec) BY <1>1, <1>12, FinishKeeps DEF SoundAt
<1> QED
  BY <1>4, <1>8, <1>10, <1>11, <1>12, CallKeeps, SaveKeeps

LEMMA OpenTabKeeps == ASSUME Sound, OpenTab PROVE Lands(tab.done) /\ tab'.page \in Pages /\ tab'.done = tab.done
<1> DEFINE d == [drv EXCEPT !.navigated = TRUE, !.applyOk = ~InPlace, !.inPlace = InPlace]
           r == [rec EXCEPT !.opened = TRUE]
<1>1. Keeps(drv, rec, "open", tab.done) BY HereKeeps, PointIsPc DEF OpenTab
<1>2. HasDrv(drv) /\ Kept(rec) BY <1>1 DEF Keeps, SoundAt
<1>3. HasDrv(d) /\ Alike(d, drv) BY <1>2 DEF HasDrv, Alike
<1>4. Marked(r, rec) /\ r.status = rec.status BY <1>2 DEF Marked, Kept, HasRec, Statuses, InAir
<1>5. Save("read", d, r) BY DEF OpenTab
<1> HIDE DEF d, r
<1>6. Keeps(d, rec, "open", tab.done) BY <1>1, <1>3, AlikeKeeps
<1>7. d.on = Untouched BY <1>6 DEF Keeps, SoundAt
<1>8. SoundAt(d, r, "read")
  BY PointsAre, <1>4, <1>6 DEF Keeps, SoundAt, Marked, Before, Filling, AtFilled, Judging, Thinking
<1>9. Works => WorkedAt(d, r, "read", tab.done)
  BY <1>4, <1>6 DEF Keeps, WorkedAt, Marked, AtFilled, Judging, Thinking
<1>10. Vouched => VouchedAt(d, r, "read", hist.vouch)
  BY <1>4, <1>6, <1>7, IdleKeeps DEF Keeps, VouchedAt, Marked
<1>11. Lands(tab.done) BY <1>4, <1>5, <1>6, <1>8, <1>9, <1>10, SaveKeeps DEF Keeps, Marked
<1>12. tab'.page \in Pages /\ tab'.done = tab.done
  BY PagesArePlaces DEF OpenTab, Shows, Sound, HasTab
<1> QED
  BY <1>11, <1>12

LEMMA ReadKeeps == ASSUME Sound, Read PROVE Lands(tab.done)
<1> DEFINE p == tab.page
           d == [drv EXCEPT !.view = At(tab.page), !.errs = tab.errs, !.kind = "unknown",
                   !.by = "none", !.because = "none", !.button = "none",
                   !.mayApply = drv.applyOk, !.applyOk = FALSE,
                   !.mayChoose = drv.applyOk \/ drv.chooser, !.chooser = FALSE]
           e == Resuming(d)
           r == [rec EXCEPT !.parked = IF drv.resumeWhy = "none" THEN @ ELSE NoSpot]
<1>1. Keeps(drv, rec, "read", tab.done) BY HereKeeps, PointIsPc DEF Read
<1>2. /\ HasDrv(drv) /\ Kept(rec) /\ drv.resumeWhy \in Remembered \cup {"none"}
      /\ drv.on.spot \in Spots
  BY <1>1 DEF Keeps, SoundAt
<1>3. p \in Pages /\ Place[p] \in Pages /\ Place[p] # Nowhere BY PagesArePlaces DEF Sound
<1>4. /\ HasDrv(d) /\ d.view = At(p) /\ d.kind = "unknown" /\ d.because = "none" /\ d.button = "none"
      /\ d.mayApply = drv.applyOk /\ d.resumeWhy = drv.resumeWhy /\ d.shaped = drv.shaped /\ d.on = drv.on
  BY <1>2 DEF HasDrv
<1>5. At(p) \in Spots /\ At(p).place = Place[p] /\ At(p).shape = p BY <1>3 DEF At, Spots, Spot
<1>6. Kept(r) /\ r.step = rec.step /\ r.why = rec.why /\ r.status = rec.status
  BY <1>2, IdleKeeps DEF Kept, HasRec
<1>7. r.parked = IF drv.resumeWhy = "none" THEN rec.parked ELSE NoSpot BY <1>2 DEF Kept, HasRec
<1>8. Call("arrived", e, r) BY DEF Read
<1> HIDE DEF d
<1>9. /\ HasDrv(e) /\ e.view = d.view /\ e.kind = d.kind /\ e.because = d.because
      /\ e.button = d.button /\ e.mayApply = d.mayApply /\ e.shaped = d.shaped /\ e.resumeWhy = "none"
  BY <1>4 DEF Resuming, HasDrv, HasOn
<1>10. \/ drv.resumeWhy = "none" /\ e.on = drv.on
       \/ drv.resumeWhy # "none" /\ e.on = drv.on
       \/ /\ drv.resumeWhy = "unsure_page" /\ ParkedPage
          /\ (e.on.filled <=> drv.on.filled) /\ e.on.spot = drv.on.spot /\ e.on.thought = drv.on.thought
       \/ /\ drv.resumeWhy \notin {"none", "unsure_page"} /\ ParkedPage
          /\ e.on.filled /\ e.on.spot = [place |-> Place[p], shape |-> Any]
          /\ e.on.vouched = drv.on.vouched
  BY <1>4 DEF Resuming, HasDrv, HasOn
<1> HIDE DEF p, d, e, r
<1>11. drv.resumeWhy # "none" => drv.on = Untouched /\ drv.shaped = {} BY <1>1 DEF Keeps, SoundAt
<1>12. ParkedPage => rec.parked.place = Place[p] BY DEF ParkedPage, p
<1>13. SoundAt(e, r, "arrived")
  <2>1. e.on.spot \in Spots BY <1>2, <1>3, <1>10 DEF Spots, Spot
  <2>2. drv.on.filled => drv.on.spot.place \in Pages BY <1>1 DEF Keeps, SoundAt
  <2>3. e.on.filled => e.on.spot.place \in Pages
    <3>1. [place |-> Place[p], shape |-> Any].place = Place[p] OBVIOUS
    <3> QED
      BY <1>3, <1>10, <2>2, <3>1
  <2> QED
    BY PointsAre, <1>2, <1>3, <1>4, <1>5, <1>6, <1>7, <1>9, <2>1, <2>3, IdleKeeps
      DEF SoundAt, Before, Filling, AtFilled, Judging, Thinking
<1>14. Fits => FitAt(e)
  BY <1>4, <1>5, <1>9 DEF Fits, OpensTheJob, FitAt, p
<1>15. Works => WorkedAt(e, r, "arrived", tab.done)
  <2>1. DoneAt(Nowhere, tab.done) BY PagesArePlaces DEF DoneAt
  <2>2. Works => (r.why \in {"page_errors", "upload"} => DoneAt(r.parked.place, tab.done))
    BY <1>1, <1>6, <1>7, <2>1 DEF Keeps, WorkedAt, NoSpot
  <2>3. Works => (drv.on.filled => DoneAt(drv.on.spot.place, tab.done))
    BY <1>1 DEF Keeps, WorkedAt
  <2>4. Works => (drv.resumeWhy \in {"page_errors", "upload"} => DoneAt(rec.parked.place, tab.done))
    BY <1>1 DEF Keeps, WorkedAt
  <2>5. drv.resumeWhy \notin {"none", "unsure_page"} => drv.resumeWhy \in {"page_errors", "upload"}
    BY <1>2 DEF Remembered
  <2>6. Works => (e.on.filled => DoneAt(e.on.spot.place, tab.done))
    BY <1>10, <1>12, <2>3, <2>4, <2>5
  <2> QED
    BY <1>9, <2>2, <2>6 DEF WorkedAt, AtFilled, Judging, Thinking
<1>16. Vouched => VouchedAt(e, r, "arrived", hist.vouch)
  <2>1. CASE drv.resumeWhy = "none" /\ e.on = drv.on
    BY <1>1, <1>4, <1>6, <1>7, <1>9, <2>1 DEF Keeps, VouchedAt, Judging
  <2>2. CASE drv.resumeWhy # "none"
    BY <1>1, <1>3, <1>4, <1>5, <1>6, <1>9, <1>10, <1>11, <1>12, <2>2, IdleKeeps DEF Keeps, VouchedAt, Judging
  <2> QED
    BY <1>10, <2>1, <2>2
<1> QED
  BY <1>1, <1>6, <1>8, <1>13, <1>14, <1>15, <1>16, CallKeeps DEF Keeps

LEMMA ReadNothingKeeps == ASSUME Sound, ReadNothing PROVE Lands(tab.done)
<1>1. /\ HasDrv(drv) /\ Kept(rec) /\ drv.view \in Spots
  BY DEF Sound, SoundAt
<1>2. \/ Finish("stopped", "user", rec)
      \/ drv' = Idle /\ UNCHANGED rec
      \/ \E why \in {"unknown_page", "page_stale"} : Park(why, drv, rec)
  BY DEF ReadNothing
<1>3. CASE drv' = Idle /\ UNCHANGED rec BY <1>1, <1>3, IdlesKeeps DEF Marked
<1>4. CASE Finish("stopped", "user", rec) BY <1>1, <1>4, FinishKeeps
<1>5. CASE \E why \in {"unknown_page", "page_stale"} : Park(why, drv, rec)
  BY <1>1, <1>5, ParkKeeps
<1> QED
  BY <1>2, <1>3, <1>4, <1>5

(* A step that stops the run or parks it, for a reason that asks nothing.  *)
Stops(r) == \/ Finish("stopped", "user", r)
            \/ \E why \in {"closed", "error"} : Finish("stopped", why, r)
            \/ Finish("confirming", "none", r)
AsksNothing(why) == why \notin {"page_errors", "upload"}

LEMMA StopsKeeps ==
  ASSUME NEW r, Kept(r), NEW done, Stops(r)
  PROVE  Lands(done)
BY FinishKeeps DEF Stops

LEMMA ParkedKeeps ==
  ASSUME Sound, NEW why, AsksNothing(why), Park(why, drv, rec)
  PROVE  Lands(tab.done)
<1>1. /\ Kept(rec) /\ drv.view \in Spots
  BY DEF Sound, SoundAt
<1> QED
  BY <1>1, ParkKeeps DEF AsksNothing

LEMMA StoppedKeeps ==
  ASSUME Sound, Stops(rec)
  PROVE  Lands(tab.done)
BY StopsKeeps DEF Sound, SoundAt

LEMMA RecMarked == ASSUME Sound PROVE HasDrv(drv) /\ Kept(rec) /\ HasRec(rec) /\ Marked(rec, rec)
BY DEF Sound, SoundAt, Marked, Kept

LEMMA SavedKeeps == ASSUME Sound, Saved PROVE Lands(tab.done)
<1> DEFINE d == [drv EXCEPT !.then = "none"]
<1>1. Keeps(drv, rec, drv.then, tab.done) BY HereKeeps DEF Saved, Point
<1>2. HasDrv(d) /\ Alike(d, drv) BY RecMarked DEF HasDrv, Alike
<1>3. Call(drv.then, d, rec) \/ (drv' = [d EXCEPT !.pc = drv.then] /\ UNCHANGED rec)
  BY DEF Saved
<1> HIDE DEF d
<1>4. Keeps(d, rec, drv.then, tab.done) BY <1>1, <1>2, AlikeKeeps
<1> QED
  BY <1>3, <1>4, CallKeeps, GoesKeeps

LEMMA ThrowsKeeps == ASSUME Sound, Throws PROVE Lands(tab.done)
<1>1. (drv' = Idle /\ UNCHANGED rec) \/ Finish("stopped", "error", rec) BY DEF Throws
<1> QED
  BY <1>1, RecMarked, IdlesKeeps, StoppedKeeps DEF Stops

LEMMA ArrivedKeeps == ASSUME Sound, Arrived PROVE Lands(tab.done)
<1>1. Keeps(drv, rec, "arrived", tab.done) /\ "arrived" \notin Before
  BY HereKeeps, PointIsPc DEF Arrived, Before
<1>2. PICK d : /\ HasDrv(d) /\ Alike(d, drv)
               /\ \/ ParkOr("moved_away", d, rec)
                  \/ Noting(d)
                  \/ drv' = [d EXCEPT !.pc = "kind"] /\ UNCHANGED rec
  <2> DEFINE first == drv.resumed /\ ~drv.navigated /\ ~rec.ready /\ ~drv.checked
             astray == \/ drv.inPlace /\ View \notin Matched
                       \/ drv.landing # {} /\ Host[View] \notin Known \cup drv.landing
                       \/ first /\ ~drv.userNav /\ Host[View] \notin rec.hosts
             e == [drv EXCEPT !.inPlace = FALSE, !.landing = {},
                              !.navigated = IF astray THEN @ ELSE FALSE, !.checked = @ \/ first]
  <2>1. HasDrv(e) /\ Alike(e, drv) BY RecMarked DEF HasDrv, Alike
  <2>2. \/ ParkOr("moved_away", e, rec)
        \/ Noting(e)
        \/ drv' = [e EXCEPT !.pc = "kind"] /\ UNCHANGED rec
    BY DEF Arrived
  <2> HIDE DEF e
  <2> QED
    BY <2>1, <2>2
<1> DEFINE r == [rec EXCEPT !.hosts = @ \cup {Host[View]}, !.at = Host[View]]
<1>3. Marked(r, rec) BY RecMarked DEF Marked, Kept, HasRec, Statuses, InAir
<1>4. Noting(d) => Save("kind", d, r) \/ (drv' = [d EXCEPT !.pc = "kind"] /\ UNCHANGED rec)
  BY DEF Noting
<1> HIDE DEF r
<1>5. Keeps(d, rec, "arrived", tab.done) BY <1>1, <1>2, AlikeKeeps
<1>6. Alike([d EXCEPT !.because = d.because], d) /\ d.button = "none"
  BY <1>2, <1>5 DEF Alike, HasDrv, Keeps, SoundAt
<1>7. ASSUME NEW q, Marked(q, rec) PROVE Keeps(d, q, "kind", tab.done)
  BY <1>1, <1>2, <1>5, <1>6, <1>7, PlainKeeps DEF Plain
<1>8. CASE ParkOr("moved_away", d, rec) BY <1>1, <1>5, <1>8, ParkOrKeeps DEF Closing
<1> QED
  BY <1>2, <1>3, <1>4, <1>7, <1>8, RecMarked, SaveKeeps, GoesKeeps

LEMMA WatchReadyKeeps == ASSUME Sound, WatchReady PROVE Lands(tab.done)
<1> DEFINE onward == [rec EXCEPT !.movedOn = Kind[View] = "form_step"]
           off == [rec EXCEPT !.noAutoMark = TRUE]
<1>1. \/ drv' = Idle /\ UNCHANGED rec
      \/ Finish("confirming", "none", rec)
      \/ drv' = Idle /\ rec' = onward
      \/ drv' = Idle /\ rec' = off
  BY DEF WatchReady
<1>2. Marked(onward, rec) /\ Marked(off, rec) BY RecMarked DEF Marked, Kept, HasRec, Statuses, InAir
<1> HIDE DEF onward, off
<1> QED
  BY <1>1, <1>2, RecMarked, IdlesKeeps, StoppedKeeps DEF Stops

LEMMA JudgedAsKeeps ==
  ASSUME Sound, NEW x \in {"kind", "count"}, Keeps(drv, rec, x, tab.done),
         drv.button = "none", NEW counted, JudgedAs(counted)
  PROVE  Lands(tab.done)
<1>1. x \notin Before BY DEF Before
<1> DEFINE listed == counted = "some" /\ Kind[View] = "unknown" /\ rec.step = 0
           kind == CASE listed -> "review"
                     [] Kind[View] = "posting" /\ (rec.filled \/ rec.step > 0) -> "review"
                     [] OTHER -> Kind[View]
           by == CASE listed -> "fields_no_next"
                   [] Kind[View] = "posting" -> "submit_button"
                   [] OTHER -> By[View]
<1>2. /\ drv' = [drv EXCEPT !.pc = "page", !.kind = kind, !.by = by,
                             !.on.counted = counted, !.on.vouched = @ /\ kind # "form_step"]
      /\ kind = "review" \/ kind = Kind[View]
  BY DEF JudgedAs
<1> HIDE DEF listed, kind, by
<1>3. /\ HasDrv(drv') /\ drv'.pc = "page" /\ drv'.view = drv.view /\ drv'.kind = kind
      /\ drv'.button = drv.button /\ drv'.mayApply = drv.mayApply /\ drv'.because = drv.because
      /\ drv'.resumeWhy = drv.resumeWhy /\ drv'.shaped = drv.shaped
      /\ drv'.on.filled = drv.on.filled /\ drv'.on.spot = drv.on.spot /\ drv'.on.again = drv.on.again
      /\ drv'.on.thought = drv.on.thought
      /\ drv'.on.vouched = (drv.on.vouched /\ kind # "form_step")
  BY <1>2, RecMarked DEF HasDrv, HasOn
<1>4. UNCHANGED rec /\ View = drv.view.shape BY DEF JudgedAs, View
<1>5. drv.resumeWhy = "none" BY <1>1 DEF Keeps, SoundAt, Before
<1>6. SoundAt(drv', rec', "page")
  BY PointsAre, <1>1, <1>3, <1>4, <1>5 DEF Keeps, SoundAt, Before, Filling, AtFilled, Judging, Thinking
<1>7. Fits => FitAt(drv') BY <1>1, <1>2, <1>3, <1>4, <1>5 DEF Keeps, FitAt
<1>8. Works => WorkedAt(drv', rec', "page", tab.done)
  BY <1>1, <1>3, <1>4 DEF Keeps, WorkedAt, AtFilled, Judging, Thinking
<1>9. Vouched => VouchedAt(drv', rec', "page", hist.vouch)
  BY <1>1, <1>3, <1>4, <1>5 DEF Keeps, VouchedAt, Judging
<1>10. Point(drv') = "page" BY <1>3 DEF Point
<1> QED
  BY <1>4, <1>6, <1>7, <1>8, <1>9, <1>10 DEF Lands, Keeps

LEMMA JudgedKeeps == ASSUME Sound, Judged \/ Counted PROVE Lands(tab.done)
<1>1. Alike([drv EXCEPT !.because = drv.because], drv) /\ HasDrv(drv) /\ Marked(rec, rec)
  BY RecMarked DEF Alike, HasDrv
<1>2. CASE Judged
  <2>1. Keeps(drv, rec, "kind", tab.done) /\ drv.button = "none"
    BY <1>2, HereKeeps, PointIsPc DEF Judged, Keeps, SoundAt
  <2>2. Keeps(drv, rec, "count", tab.done) BY <1>1, <2>1, PlainKeeps DEF Plain, Before
  <2> QED
    BY <1>2, <2>1, <2>2, CallKeeps, JudgedAsKeeps DEF Judged
<1>3. CASE Counted
  <2>1. Keeps(drv, rec, "count", tab.done) /\ drv.button = "none"
    BY <1>3, HereKeeps, PointIsPc DEF Counted, Keeps, SoundAt
  <2> QED
    BY <1>3, <2>1, StoppedKeeps, JudgedAsKeeps DEF Counted, Stops
<1> QED
  BY <1>2, <1>3

(* A step to a point that asks nothing, from one past the first read.      *)
LEMMA PlainSaves ==
  ASSUME Sound, NEW x, Keeps(drv, rec, x, tab.done), x \notin Before, NEW e, HasDrv(e),
         Alike([drv EXCEPT !.because = e.because], e), NEW q, Marked(q, rec),
         NEW y \in Plain \ {"arrived", "kind", "count"},
         \/ Save(y, e, q) \/ Call(y, e, q) \/ (drv' = [e EXCEPT !.pc = y] /\ rec' = q)
  PROVE  Lands(tab.done)
<1>1. Keeps(e, q, y, tab.done) BY PlainKeeps
<1> QED
  BY <1>1, SaveKeeps, CallKeeps, GoesKeeps

LEMMA PagesKeep ==
  ASSUME Sound, Ends \/ SignUp \/ SignIn
  PROVE  Lands(tab.done)
<1>1. Keeps(drv, rec, "page", tab.done) /\ "page" \notin Before
  BY HereKeeps, PointIsPc DEF Ends, AtPage, SignUp, SignIn, Before
<1>2. CASE Ends
  <2>1. CASE ParkOr("unknown_page", drv, rec) BY <1>1, <2>1, ParkOrKeeps DEF Closing
  <2>2. CASE Finish("stopped", "closed", rec) BY <2>2, StoppedKeeps DEF Stops
  <2>3. CASE \E w \in Walls \cup {"already_applied"} : Park(w, drv, rec)
    BY <2>3, ParkedKeeps DEF AsksNothing, Walls
  <2> QED
    BY <1>2, <2>1, <2>2, <2>3 DEF Ends
<1>3. CASE SignUp
  <2> DEFINE d == [drv EXCEPT !.because = "create_account"]
             r == [rec EXCEPT !.status = "creating_account", !.accountTried = TRUE]
  <2>1. \/ \E why \in {"create_account_failed", "create_account"} : Park(why, drv, rec)
        \/ Save("login", d, r)
    BY <1>3 DEF SignUp
  <2>2. HasDrv(d) /\ Alike([drv EXCEPT !.because = d.because], d) BY RecMarked DEF HasDrv, Alike
  <2>3. Marked(r, rec) BY RecMarked DEF Marked, Kept, HasRec, Statuses, InAir
  <2> HIDE DEF d, r
  <2> QED
    BY <1>1, <2>1, <2>2, <2>3, ParkedKeeps, PlainSaves DEF AsksNothing, Plain
<1>4. CASE SignIn
  <2> DEFINE d == [drv EXCEPT !.because = "sign_in"]
             r == [rec EXCEPT !.status = "signing_in", !.signedIn = TRUE]
  <2>1. \/ \E why \in {"sign_in_failed", "sign_in_yourself"} : Park(why, drv, rec)
        \/ Save("login", d, r)
    BY <1>4 DEF SignIn
  <2>2. HasDrv(d) /\ Alike([drv EXCEPT !.because = d.because], d) BY RecMarked DEF HasDrv, Alike
  <2>3. Marked(r, rec) BY RecMarked DEF Marked, Kept, HasRec, Statuses, InAir
  <2> HIDE DEF d, r
  <2> QED
    BY <1>1, <2>1, <2>2, <2>3, ParkedKeeps, PlainSaves DEF AsksNothing, Plain
<1> QED
  BY <1>2, <1>3, <1>4

LEMMA OpeningKeeps ==
  ASSUME Sound, Posting \/ Chooser
  PROVE  Lands(tab.done)
<1>1. Keeps(drv, rec, "page", tab.done)
  BY HereKeeps, PointIsPc DEF Posting, Chooser, AtPage
<1> DEFINE d(button) == [drv EXCEPT !.button = button]
           r == [rec EXCEPT !.status = "advancing"]
<1>2. \/ \E why \in {"posting", "chooser"} : Park(why, drv, rec)
      \/ \E button \in {"apply", "chooser"} :
           /\ Save("press", d(button), r)
           /\ button = "apply" => drv.kind = "posting" /\ drv.mayApply
           /\ button = "chooser" => drv.kind = "chooser"
  BY DEF Posting, Chooser, AtPage
<1>3. Marked(r, rec) BY RecMarked DEF Marked, Kept, HasRec, Statuses, InAir
<1>4. ASSUME NEW button \in {"apply", "chooser"}, Save("press", d(button), r),
             button = "apply" => drv.kind = "posting" /\ drv.mayApply,
             button = "chooser" => drv.kind = "chooser"
      PROVE  Lands(tab.done)
  <2> DEFINE e == d(button)
  <2>1. /\ HasDrv(e) /\ e.view = drv.view /\ e.kind = drv.kind /\ e.button = button
        /\ e.mayApply = drv.mayApply /\ e.because = drv.because /\ e.resumeWhy = drv.resumeWhy
        /\ e.shaped = drv.shaped /\ e.on = drv.on
    BY RecMarked DEF HasDrv
  <2>2. Save("press", e, r) BY <1>4
  <2> HIDE DEF e, d, r
  <2>3. drv.resumeWhy = "none" BY <1>1 DEF Keeps, SoundAt
  <2>4. SoundAt(e, r, "press")
    BY PointsAre, <1>1, <1>3, <1>4, <2>1, <2>3
      DEF Keeps, SoundAt, Marked, Before, Filling, AtFilled, Judging, Thinking
  <2>5. Fits => FitAt(e) BY <1>1, <1>4, <2>1 DEF Keeps, FitAt
  <2>6. Works => WorkedAt(e, r, "press", tab.done)
    BY <1>1, <1>3, <1>4, <2>1 DEF Keeps, WorkedAt, Marked, AtFilled, Judging, Thinking
  <2>7. Vouched => VouchedAt(e, r, "press", hist.vouch)
    BY <1>1, <1>3, <2>1 DEF Keeps, VouchedAt, Marked, Judging
  <2> QED
    BY <1>3, <2>2, <2>4, <2>5, <2>6, <2>7, SaveKeeps DEF Keeps, Marked
<1>5. CASE \E why \in {"posting", "chooser"} : Park(why, drv, rec)
  BY <1>5, ParkedKeeps DEF AsksNothing
<1> QED
  BY <1>2, <1>4, <1>5

LEMMA NotMadeKeeps ==
  ASSUME Sound, drv.pc \in {"login", "type"}, NotMade(drv, rec)
  PROVE  Lands(tab.done)
<1>1. Keeps(drv, rec, drv.pc, tab.done) /\ drv.pc \notin Before BY HereKeeps, PointIsPc DEF Before
<1> DEFINE r == [rec EXCEPT !.accountTried = FALSE]
<1>2. Park("sign_in_failed", drv, rec) \/ Save("unmade", drv, r) BY DEF NotMade
<1>3. Marked(r, rec) /\ Alike([drv EXCEPT !.because = drv.because], drv)
  BY RecMarked DEF Marked, Kept, HasRec, Statuses, InAir, Alike
<1> HIDE DEF r
<1> QED
  BY <1>1, <1>2, <1>3, RecMarked, ParkedKeeps, PlainSaves DEF AsksNothing, Plain

LEMMA LoginKeeps ==
  ASSUME Sound, LoginFetched \/ Type \/ Unmade \/ Entered \/ Settle
  PROVE  Lands(tab.done)
<1>1. Keeps(drv, rec, drv.pc, tab.done) /\ drv.pc \notin Before
  <2>1. drv.pc \in {"login", "type", "unmade", "entered", "settle"}
    BY DEF LoginFetched, Type, Unmade, Entered, Settle
  <2> QED
    BY <2>1, HereKeeps, PointIsPc DEF Before
<1>2. Alike([drv EXCEPT !.because = drv.because], drv) BY DEF Alike
<1>3. Call("read", Moved(drv), rec) => Lands(tab.done)
  BY <1>1, RecMarked, MovedKeeps, CallKeeps
<1>4. CASE LoginFetched
  <2>1. CASE drv' = [drv EXCEPT !.pc = "type"] /\ UNCHANGED rec
    BY <1>1, <1>2, <2>1, RecMarked, PlainSaves DEF Plain
  <2>2. CASE Finish("stopped", "user", rec) BY <2>2, StoppedKeeps DEF Stops
  <2>3. CASE NotMade(drv, rec) BY <1>4, <2>3, NotMadeKeeps DEF LoginFetched
  <2> QED
    BY <1>4, <2>1, <2>2, <2>3 DEF LoginFetched
<1>5. CASE Type
  <2>1. PICK made \in BOOLEAN : Answered(made) BY <1>5 DEF Type
  <2>2. CASE Finish("stopped", "user", rec) BY <2>2, StoppedKeeps DEF Stops
  <2>3. CASE NotMade(drv, rec) BY <1>5, <2>3, NotMadeKeeps DEF Type
  <2>4. CASE \E y \in {"entered", "settle"} : Call(y, drv, rec)
    BY <1>1, <1>2, <2>4, RecMarked, PlainSaves DEF Plain
  <2> QED
    BY <2>1, <2>2, <2>3, <2>4 DEF Answered
<1>6. CASE Unmade BY <1>6, ParkedKeeps DEF Unmade, AsksNothing
<1>7. CASE Entered BY <1>3, <1>7 DEF Entered
<1>8. CASE Settle
  <2>1. CASE Finish("stopped", "user", rec) BY <2>1, StoppedKeeps DEF Stops
  <2>2. CASE Park("create_account_failed", drv, rec) BY <2>2, ParkedKeeps DEF AsksNothing
  <2> QED
    BY <1>3, <1>8, <2>1, <2>2 DEF Settle
<1> QED
  BY <1>4, <1>5, <1>6, <1>7, <1>8

(* On the way to a fill, and from it to the read that follows.             *)
LEMMA FillingKeeps ==
  ASSUME NEW d, NEW r, NEW x, x \notin Before, NEW done, Keeps(d, r, x, done), ~d.on.filled,
         NEW e, HasDrv(e), Alike([d EXCEPT !.on = e.on], e), ~e.on.filled, e.on.spot = d.on.spot,
         e.on.again = d.on.again, e.on.vouched = d.on.vouched, e.on.thought = d.on.thought,
         NEW q, Marked(q, r), NEW y \in Filling, NEW more, done \subseteq more,
         y \in {"filled", "upload", "attach"} => (Works => DoneAt(d.view.place, more))
  PROVE  Keeps(e, q, y, more)
<1>1. HasDrv(d) /\ d.resumeWhy = "none" BY DEF Keeps, SoundAt, Before
<1>2. /\ e.view = d.view /\ e.kind = d.kind /\ e.button = d.button /\ e.mayApply = d.mayApply
      /\ e.because = d.because /\ e.resumeWhy = d.resumeWhy /\ e.shaped = d.shaped
  BY <1>1 DEF Alike, HasDrv
<1>3. SoundAt(e, q, y)
  BY PointsAre, <1>1, <1>2 DEF Keeps, SoundAt, Marked, AtFilled, Judging, Thinking, Filling, Before
<1>4. Fits => FitAt(e) BY <1>2 DEF Keeps, FitAt
<1>5. \A place : DoneAt(place, done) => DoneAt(place, more) BY DEF DoneAt
<1>6. Works => WorkedAt(e, q, y, more)
  BY <1>1, <1>2, <1>5 DEF Keeps, WorkedAt, Marked, AtFilled, Judging, Thinking, Filling
<1>7. Vouched => VouchedAt(e, q, y, hist.vouch)
  BY <1>1, <1>2 DEF Keeps, VouchedAt, Marked, Judging, Filling
<1> QED
  BY <1>3, <1>4, <1>6, <1>7 DEF Keeps, Marked

(* The page in hand is the one that the drive filled, if it is not left.   *)
LEMMA StaysOnPage ==
  ASSUME NEW d, NEW p \in Pages, d.on.filled, d.on.spot.place \in Pages, Left(p, d) = "no"
  PROVE  d.on.spot.place = Place[p]
<1>1. d.on.spot # NoSpot BY PagesArePlaces DEF NoSpot
<1>2. Same(d.on.spot, p) BY <1>1 DEF Left
<1> QED
  BY <1>2 DEF Same

(* What a step that is left puts down is a page, or its place.             *)
LEMMA PastKeeps ==
  ASSUME Sound, drv.on.spot \in Spots, NEW p, Left(p, drv) = "step"
  PROVE  Marked(Past(drv, rec), rec)
<1>1. drv.on.spot \in Spot BY DEF Left, Spots
<1>2. /\ drv.on.spot.place \in Pages /\ drv.on.spot.shape \in Pages \cup {Any}
  BY <1>1 DEF Spot
<1> QED
  BY <1>2, RecMarked DEF Past, Marked, Kept, HasRec

LEMMA OnFormKeeps == ASSUME Sound, OnForm PROVE Lands(tab.done)
<1>1. Keeps(drv, rec, "page", tab.done) /\ "page" \notin Before
  BY HereKeeps, PointIsPc DEF OnForm, AtForm, Before
<1>2. /\ HasDrv(drv) /\ drv.view \in Spots /\ drv.on.spot \in Spots
      /\ drv.resumeWhy = "none" /\ View \in Pages /\ drv.view.place = Place[View]
      /\ drv.on.filled => drv.on.spot.place \in Pages
  BY <1>1 DEF Keeps, SoundAt, View, Before
<1> DEFINE d == Shaped(View, drv)
           back == [Refill(drv) EXCEPT !.pc = "unfilled"]
           q == Past(drv, rec)
<1>3. \/ Left(View, drv) = "refill" /\ drv' = back /\ UNCHANGED rec
      \/ /\ Left(View, drv) = "no" /\ UNCHANGED rec
         /\ drv' = [drv EXCEPT !.pc = IF drv.on.filled THEN "judge" ELSE "unfilled"]
      \/ Park("step_limit", d, rec)
      \/ ParkOr("loop", d, rec)
      \/ Left(View, drv) = "step" /\ Save("unfilled", Moved(d), q)
  <2>1. Left(View, drv) \in {"no", "refill", "step"} BY DEF Left
  <2> QED
    BY <2>1 DEF OnForm
<1>4. HasDrv(d) /\ Alike([drv EXCEPT !.shaped = d.shaped], d)
  BY <1>2 DEF Shaped, Alike, HasDrv
<1>5. Left(View, drv) = "step" => Marked(q, rec) BY <1>2, PastKeeps
<1>6. /\ HasDrv(back) /\ Alike([drv EXCEPT !.on = back.on], back) /\ back.pc = "unfilled"
      /\ ~back.on.filled /\ back.on.spot = NoSpot /\ back.on.again = drv.on.again
      /\ back.on.vouched = drv.on.vouched /\ back.on.thought = drv.on.thought
  BY <1>2 DEF Refill, Alike, HasDrv, HasOn
<1> HIDE DEF d, back, q
<1>7. CASE Left(View, drv) = "refill" /\ drv' = back /\ UNCHANGED rec
  <2>1. drv.shaped # {} BY <1>7 DEF Left
  <2>2. /\ back.view = drv.view /\ back.kind = drv.kind /\ back.button = drv.button
        /\ back.mayApply = drv.mayApply /\ back.because = drv.because
        /\ back.resumeWhy = drv.resumeWhy /\ back.shaped = drv.shaped
    BY <1>2, <1>6 DEF Alike, HasDrv
  <2>3. SoundAt(back, rec, "unfilled")
    BY PointsAre, <1>1, <1>2, <1>6, <2>2, IdleKeeps
      DEF Keeps, SoundAt, Before, Filling, AtFilled, Judging, Thinking
  <2>4. Fits => FitAt(back) BY <1>1, <2>2 DEF Keeps, FitAt
  <2>5. Works => WorkedAt(back, rec, "unfilled", tab.done)
    BY <1>1, <1>6, <2>2 DEF Keeps, WorkedAt, AtFilled, Judging, Thinking
  <2>6. Vouched => VouchedAt(back, rec, "unfilled", hist.vouch)
    BY <1>1, <1>2, <1>6, <2>1, <2>2 DEF Keeps, VouchedAt, Judging
  <2>7. Point(back) = "unfilled" BY <1>6 DEF Point
  <2> QED
    BY <1>7, <2>3, <2>4, <2>5, <2>6, <2>7 DEF Keeps, Lands
<1>8. CASE /\ Left(View, drv) = "no" /\ UNCHANGED rec
           /\ drv' = [drv EXCEPT !.pc = IF drv.on.filled THEN "judge" ELSE "unfilled"]
  <2>1. CASE drv.on.filled
    <3>1. drv.on.spot.place = drv.view.place BY <1>2, <1>8, <2>1, StaysOnPage
    <3>2. SoundAt(drv, rec, "judge")
      BY PointsAre, <1>1, <2>1 DEF Keeps, SoundAt, Before, Filling, AtFilled, Judging, Thinking
    <3>3. Works => WorkedAt(drv, rec, "judge", tab.done)
      BY <1>1, <2>1, <3>1 DEF Keeps, WorkedAt, Thinking
    <3>4. Vouched => VouchedAt(drv, rec, "judge", hist.vouch)
      BY <1>1, <2>1, <3>1 DEF Keeps, VouchedAt
    <3>5. Keeps(drv, rec, "judge", tab.done) BY <1>1, <3>2, <3>3, <3>4 DEF Keeps
    <3> QED
      BY <1>8, <2>1, <3>5, GoesKeeps
  <2>2. CASE ~drv.on.filled
    <3>1. Alike([drv EXCEPT !.on = drv.on], drv) BY DEF Alike
    <3>2. Keeps(drv, rec, "unfilled", tab.done)
      BY <1>1, <1>2, <2>2, <3>1, RecMarked, FillingKeeps DEF Filling
    <3> QED
      BY <1>8, <2>2, <3>2, GoesKeeps
  <2> QED
    BY <2>1, <2>2
<1>9. CASE Park("step_limit", d, rec)
  <2>1. d.view \in Spots BY <1>2, <1>4 DEF Alike, HasDrv
  <2> QED
    BY <1>2, <1>9, <2>1, RecMarked, ParkKeeps
<1>10. CASE ParkOr("loop", d, rec) BY <1>1, <1>4, <1>10, ParkOrTakesOver DEF Closing
<1>11. CASE Left(View, drv) = "step" /\ Save("unfilled", Moved(d), q)
  <2>1. HasDrv(Moved(d)) BY <1>4, IdleKeeps DEF Moved, HasDrv
  <2>2. Alike([drv EXCEPT !.on = Untouched, !.shaped = Moved(d).shaped], Moved(d))
    BY <1>2, <1>4 DEF Moved, Alike, HasDrv
  <2>3. Keeps(Moved(d), q, "unfilled", tab.done) BY <1>1, <1>5, <1>11, <2>1, <2>2, LeftKeeps
  <2> QED
    BY <1>11, <2>3, SaveKeeps
<1> QED
  BY <1>3, <1>7, <1>8, <1>9, <1>10, <1>11

LEMMA UnfilledKeeps == ASSUME Sound, Unfilled PROVE Lands(tab.done)
<1>1. Keeps(drv, rec, "unfilled", tab.done) /\ "unfilled" \notin Before
  BY HereKeeps, PointIsPc DEF Unfilled, Before
<1> DEFINE r == [rec EXCEPT !.status = "filling", !.filled = TRUE]
<1>2. Park("unknown_page", drv, rec) \/ Save("fill", drv, r) BY DEF Unfilled
<1>3. Marked(r, rec) BY RecMarked DEF Marked, Kept, HasRec, Statuses, InAir
<1> HIDE DEF r
<1>4. ~drv.on.filled BY <1>1 DEF Keeps, SoundAt, Filling
<1>5. Alike([drv EXCEPT !.on = drv.on], drv) BY DEF Alike
<1>6. Keeps(drv, r, "fill", tab.done) BY <1>1, <1>3, <1>4, <1>5, RecMarked, FillingKeeps DEF Filling
<1> QED
  BY <1>2, <1>6, ParkedKeeps, SaveKeeps DEF AsksNothing

LEMMA FillKeeps ==
  ASSUME Sound, Fill
  PROVE  Lands(tab'.done) /\ tab'.page = tab.page
<1>1. Keeps(drv, rec, "fill", tab.done) /\ "fill" \notin Before
  BY HereKeeps, PointIsPc DEF Fill, Before
<1>2. /\ HasDrv(drv) /\ drv.view \in Spots /\ ~drv.on.filled
      /\ View \in Pages /\ drv.view.place = Place[View]
  BY <1>1 DEF Keeps, SoundAt, View, Before, Filling
<1>0. PICK more : more = tab'.done OBVIOUS
<1>3. tab'.page = tab.page /\ more = tab.done \cup {Step[tab.page]} BY <1>0 DEF Fill, Sound, HasTab
<1>4. Works => DoneAt(drv.view.place, more)
  BY <1>2, <1>3 DEF Works, WorksItsPage, StepsArePlaces, DoneAt
<1>5. PICK report : LET d == [drv EXCEPT !.open = "open" \in report, !.need = "need" \in report,
                                         !.on.empty = report \cap Listed = {}, !.on.box = tab.page \in Uploads,
                                         !.on.wrote = @ \/ "attached" \in report]
                    IN \/ Finish("stopped", "user", rec)
                       \/ Save("filled", d, [rec EXCEPT !.wrote = TRUE])
                       \/ drv' = [d EXCEPT !.pc = "filled"] /\ UNCHANGED rec
  BY DEF Fill
<1> DEFINE d == [drv EXCEPT !.open = "open" \in report, !.need = "need" \in report,
                            !.on.empty = report \cap Listed = {}, !.on.box = tab.page \in Uploads,
                            !.on.wrote = @ \/ "attached" \in report]
           r == [rec EXCEPT !.wrote = TRUE]
<1>6. \/ Finish("stopped", "user", rec)
      \/ Save("filled", d, r)
      \/ drv' = [d EXCEPT !.pc = "filled"] /\ UNCHANGED rec
  BY <1>5
<1>7. /\ HasDrv(d) /\ Alike([drv EXCEPT !.on = d.on], d) /\ d.on.filled = drv.on.filled
      /\ d.on.spot = drv.on.spot /\ d.on.again = drv.on.again /\ d.on.vouched = drv.on.vouched
      /\ d.on.thought = drv.on.thought
  BY <1>2 DEF HasDrv, HasOn, Alike
<1>8. Marked(r, rec) BY RecMarked DEF Marked, Kept, HasRec, Statuses, InAir
<1> HIDE DEF d, r
<1>9. tab.done \subseteq more /\ ~d.on.filled BY <1>2, <1>3, <1>7
<1>10. ASSUME NEW q, Marked(q, rec) PROVE Keeps(d, q, "filled", more)
  BY <1>1, <1>2, <1>4, <1>7, <1>9, <1>10, FillingKeeps DEF Filling
<1>11. Finish("stopped", "user", rec) => Lands(more)
  BY <1>2, RecMarked, StopsKeeps DEF Stops
<1>12. Save("filled", d, r) => Lands(more) BY <1>8, <1>10, SaveKeeps
<1>13. drv' = [d EXCEPT !.pc = "filled"] /\ UNCHANGED rec => Lands(more)
  BY <1>10, RecMarked, GoesKeeps
<1> QED
  BY <1>0, <1>3, <1>6, <1>11, <1>12, <1>13

LEMMA FilledKeeps == ASSUME Sound, Filled PROVE Lands(tab.done)
<1>1. Keeps(drv, rec, "filled", tab.done) /\ "filled" \notin Before
  BY HereKeeps, PointIsPc DEF Filled, Before
<1>2. ~drv.on.filled BY <1>1 DEF Keeps, SoundAt, Filling
<1>3. Works => DoneAt(drv.view.place, tab.done) BY <1>1 DEF Keeps, WorkedAt
<1> DEFINE d == [drv EXCEPT !.pc = "upload", !.open = FALSE]
<1>4. ParkOr("open_questions", drv, rec) \/ (drv' = d /\ UNCHANGED rec) BY DEF Filled
<1>5. HasDrv(d) /\ d.pc = "upload" /\ Alike([drv EXCEPT !.on = d.on], d) /\ d.on = drv.on
  BY RecMarked DEF HasDrv, Alike
<1> HIDE DEF d
<1>6. Keeps(d, rec, "upload", tab.done)
  BY <1>1, <1>2, <1>3, <1>5, RecMarked, FillingKeeps DEF Filling
<1>7. CASE drv' = d /\ UNCHANGED rec BY <1>5, <1>6, <1>7 DEF Lands, Point
<1>8. CASE ParkOr("open_questions", drv, rec) BY <1>1, <1>3, <1>8, ParkOrKeeps DEF Closing
<1> QED
  BY <1>4, <1>7, <1>8

(* A page that was filled is read again.                                   *)
LEMMA DoneWithKeeps ==
  ASSUME NEW d, NEW r, NEW x \in {"upload", "attach"}, NEW done, Keeps(d, r, x, done),
         NEW c, HasDrv(c), Alike([d EXCEPT !.on = c.on], c), c.on.again = d.on.again,
         c.on.vouched = d.on.vouched, c.on.thought = d.on.thought
  PROVE  Keeps(DoneWith(c), r, "read", done)
<1> DEFINE e == DoneWith(c)
<1>1. /\ HasDrv(d) /\ d.resumeWhy = "none" /\ ~d.on.filled /\ d.view \in Spots
      /\ d.view.shape \in Pages /\ d.view.place = Place[d.view.shape]
  BY DEF Keeps, SoundAt, Before, Filling
<1>2. /\ c.view = d.view /\ c.kind = d.kind /\ c.button = d.button /\ c.mayApply = d.mayApply
      /\ c.because = d.because /\ c.resumeWhy = d.resumeWhy /\ c.shaped = d.shaped
  BY <1>1 DEF Alike, HasDrv
<1>3. /\ HasDrv(e) /\ e.view = c.view /\ e.kind = c.kind /\ e.button = c.button
      /\ e.mayApply = c.mayApply /\ e.because = c.because /\ e.resumeWhy = c.resumeWhy
      /\ e.shaped = c.shaped /\ e.on.filled /\ e.on.spot = [place |-> c.view.place, shape |-> Any]
      /\ e.on.again = c.on.again /\ e.on.vouched = c.on.vouched /\ e.on.thought = c.on.thought
  BY DEF DoneWith, HasDrv, HasOn
<1> HIDE DEF e
<1>4. d.view.place \in Pages BY <1>1, PagesArePlaces
<1>5. e.on.spot \in Spots /\ e.on.spot.place = d.view.place BY <1>2, <1>3, <1>4 DEF Spots, Spot
<1>6. SoundAt(e, r, "read")
  BY PointsAre, <1>1, <1>2, <1>3, <1>4, <1>5
    DEF Keeps, SoundAt, Before, Filling, AtFilled, Judging, Thinking
<1>7. Fits => FitAt(e) BY <1>2, <1>3 DEF Keeps, FitAt
<1>8. Works => WorkedAt(e, r, "read", done)
  BY <1>1, <1>2, <1>3, <1>5 DEF Keeps, WorkedAt, AtFilled, Judging, Thinking
<1>9. Vouched => VouchedAt(e, r, "read", hist.vouch)
  BY <1>1, <1>2, <1>3, <1>5 DEF Keeps, VouchedAt, Judging
<1> QED
  BY <1>6, <1>7, <1>8, <1>9 DEF Keeps, e

LEMMA UploadKeeps == ASSUME Sound, Upload \/ Attach PROVE Lands(tab.done)
<1>1. PICK x \in {"upload", "attach"} : drv.pc = x BY DEF Upload, Attach
<1>2. Keeps(drv, rec, x, tab.done) /\ x \notin Before BY <1>1, HereKeeps, PointIsPc DEF Before
<1>3. ~drv.on.filled /\ drv.view \in Spots BY <1>2 DEF Keeps, SoundAt, Filling
<1>4. Works => DoneAt(drv.view.place, tab.done) BY <1>2 DEF Keeps, WorkedAt
<1> DEFINE c == [drv EXCEPT !.on.wrote = TRUE]
<1>5. \/ Call("read", DoneWith(drv), rec)
      \/ Park("upload", drv, rec)
      \/ Call("attach", drv, rec)
      \/ Call("read", DoneWith(c), rec)
  BY DEF Upload, Attach
<1>6. /\ HasDrv(c) /\ Alike([drv EXCEPT !.on = c.on], c) /\ c.on.again = drv.on.again
      /\ c.on.vouched = drv.on.vouched /\ c.on.thought = drv.on.thought
  BY RecMarked DEF HasDrv, HasOn, Alike
<1> HIDE DEF c
<1>7. Alike([drv EXCEPT !.on = drv.on], drv) BY DEF Alike
<1>8. CASE Call("read", DoneWith(drv), rec)
  BY <1>2, <1>7, <1>8, RecMarked, DoneWithKeeps, CallKeeps
<1>9. CASE Call("read", DoneWith(c), rec)
  BY <1>2, <1>6, <1>9, DoneWithKeeps, CallKeeps
<1>10. CASE Call("attach", drv, rec)
  <2>1. Keeps(drv, rec, "attach", tab.done)
    BY <1>2, <1>3, <1>4, <1>7, RecMarked, FillingKeeps DEF Filling
  <2> QED
    BY <1>10, <2>1, CallKeeps
<1>11. CASE Park("upload", drv, rec) BY <1>3, <1>4, <1>11, RecMarked, ParkKeeps
<1> QED
  BY <1>5, <1>8, <1>9, <1>10, <1>11

LEMMA JudgeKeeps == ASSUME Sound, FillAgain \/ ParkBald \/ JudgeReview PROVE Lands(tab.done)
<1>1. Keeps(drv, rec, "judge", tab.done) /\ "judge" \notin Before
  BY HereKeeps, PointIsPc DEF FillAgain, ParkBald, JudgeReview, Before
<1>2. AtFilled(drv, "judge") BY DEF AtFilled, Judging
<1> DEFINE d == [drv EXCEPT !.on.again = TRUE, !.on.filled = FALSE]
           r == [rec EXCEPT !.lastBy = drv.by]
<1>3. \/ \E why \in {"confirm_page", "unknown_page"} : Park(why, drv, rec)
      \/ Call("read", d, rec)
      \/ (rec.step # 0 \/ rec.wrote) /\ Save("reviewed", drv, r)
  BY DEF FillAgain, ParkBald, JudgeReview
<1>4. /\ HasDrv(d) /\ Alike([drv EXCEPT !.on = d.on], d)
      /\ ~d.on.filled /\ d.on.again /\ d.on.spot = drv.on.spot /\ d.on.vouched = drv.on.vouched
      /\ d.on.thought = drv.on.thought
  BY RecMarked DEF HasDrv, HasOn, Alike
<1>5. Marked(r, rec) /\ r.step = rec.step /\ r.wrote = rec.wrote BY RecMarked DEF Marked, Kept, HasRec, Statuses, InAir
<1> HIDE DEF d, r
<1>6. CASE Call("read", d, rec)
  <2>1. /\ d.view = drv.view /\ d.kind = drv.kind /\ d.button = drv.button /\ d.mayApply = drv.mayApply
        /\ d.because = drv.because /\ d.resumeWhy = drv.resumeWhy /\ d.shaped = drv.shaped
    BY <1>4, RecMarked DEF Alike, HasDrv
  <2>2. drv.resumeWhy = "none" BY <1>1 DEF Keeps, SoundAt
  <2>3. SoundAt(d, rec, "read")
    BY PointsAre, <1>1, <1>4, <2>1, <2>2 DEF Keeps, SoundAt, Before, Filling, AtFilled, Judging, Thinking
  <2>4. Fits => FitAt(d) BY <1>1, <2>1 DEF Keeps, FitAt
  <2>5. Works => WorkedAt(d, rec, "read", tab.done)
    BY <1>1, <1>4, <2>1, <2>2 DEF Keeps, WorkedAt, AtFilled, Judging, Thinking
  <2>6. Vouched => VouchedAt(d, rec, "read", hist.vouch)
    BY <1>1, <1>4, <2>1, <2>2 DEF Keeps, VouchedAt, Judging
  <2> QED
    BY <1>1, <1>6, <2>3, <2>4, <2>5, <2>6, CallKeeps DEF Keeps
<1>7. CASE (rec.step # 0 \/ rec.wrote) /\ Save("reviewed", drv, r)
  <2>1. Alike([drv EXCEPT !.on = drv.on, !.because = drv.because], drv) BY DEF Alike
  <2>2. r.step > 0 \/ r.wrote BY <1>5, <1>7, RecMarked DEF Kept
  <2>3. Keeps(drv, r, "reviewed", tab.done)
    BY <1>1, <1>2, <1>5, <2>1, <2>2, RecMarked, JudgingKeeps DEF Judging
  <2> QED
    BY <1>7, <2>3, SaveKeeps
<1>8. CASE \E why \in {"confirm_page", "unknown_page"} : Park(why, drv, rec)
  BY <1>8, ParkedKeeps DEF AsksNothing
<1> QED
  BY <1>3, <1>6, <1>7, <1>8

LEMMA JudgeStepKeeps == ASSUME Sound, JudgeStep PROVE Lands(tab.done)
<1>1. Keeps(drv, rec, "judge", tab.done) /\ "judge" \notin Before
  BY HereKeeps, PointIsPc DEF JudgeStep, Before
<1>2. /\ HasDrv(drv) /\ drv.kind = "form_step" /\ drv.on.filled /\ drv.on.spot \in Spots
      /\ View \in Pages /\ drv.resumeWhy = "none" /\ drv.view \in Spots
      /\ drv.on.spot.place \in Pages
  BY <1>1 DEF Keeps, SoundAt, JudgeStep, AtFilled, Judging, View, Before
<1> DEFINE d == [drv EXCEPT !.on.spot.shape = View, !.button = "next"]
           r == [rec EXCEPT !.status = "advancing"]
<1>3. \/ ParkOr("loop", d, rec)
      \/ Park("step_limit", d, rec)
      \/ \E x \in {"press", "recheck"} : Save(x, d, r)
  BY DEF JudgeStep
<1>4. /\ HasDrv(d) /\ d.view = drv.view /\ d.kind = drv.kind /\ d.button = "next"
      /\ d.mayApply = drv.mayApply /\ d.because = drv.because /\ d.resumeWhy = drv.resumeWhy
      /\ d.shaped = drv.shaped /\ d.on.filled /\ d.on.again = drv.on.again
      /\ d.on.vouched = drv.on.vouched /\ d.on.thought = drv.on.thought
      /\ d.on.spot = [drv.on.spot EXCEPT !.shape = View]
  BY <1>2 DEF HasDrv, HasOn
<1>5. d.on.spot \in Spots /\ d.on.spot.place = drv.on.spot.place
  <2>1. drv.on.spot \in Spot BY <1>2, PagesArePlaces DEF Spots, NoSpot
  <2> QED
    BY <1>2, <1>4, <2>1 DEF Spots, Spot
<1>6. Marked(r, rec) BY RecMarked DEF Marked, Kept, HasRec, Statuses, InAir
<1> HIDE DEF d, r
<1>7. ASSUME NEW q, Marked(q, rec), NEW y \in {"judge", "press", "recheck"}
      PROVE  Keeps(d, q, y, tab.done)
  <2>1. SoundAt(d, q, y)
    BY PointsAre, <1>1, <1>2, <1>4, <1>5, <1>7
      DEF Keeps, SoundAt, Marked, Before, Filling, AtFilled, Judging, Thinking
  <2>2. Fits => FitAt(d) BY <1>1, <1>2, <1>4 DEF Keeps, FitAt
  <2>3. Works => WorkedAt(d, q, y, tab.done)
    BY <1>1, <1>2, <1>4, <1>5, <1>7 DEF Keeps, WorkedAt, Marked, AtFilled, Judging, Thinking
  <2>4. Vouched => VouchedAt(d, q, y, hist.vouch)
    BY <1>1, <1>2, <1>4, <1>7 DEF Keeps, VouchedAt, Marked
  <2> QED
    BY <1>1, <1>7, <2>1, <2>2, <2>3, <2>4 DEF Keeps, Marked
<1>8. CASE ParkOr("loop", d, rec) BY <1>1, <1>7, <1>8, RecMarked, ParkOrKeeps DEF Closing
<1>9. CASE Park("step_limit", d, rec) BY <1>2, <1>4, <1>9, RecMarked, ParkKeeps
<1>10. CASE \E x \in {"press", "recheck"} : Save(x, d, r) BY <1>6, <1>7, <1>10, SaveKeeps
<1> QED
  BY <1>3, <1>8, <1>9, <1>10

LEMMA ReviewedKeeps == ASSUME Sound, Reviewed \/ Required PROVE Lands(tab.done)
<1>1. PICK x \in {"reviewed", "required"} : drv.pc = x BY DEF Reviewed, Required
<1>2. Keeps(drv, rec, x, tab.done) /\ x \notin Before /\ AtFilled(drv, x)
  BY <1>1, HereKeeps, PointIsPc DEF Before, AtFilled, Judging
<1>3. /\ drv.view \in Spots
      /\ Vouched => rec.step > 0 \/ rec.wrote
      /\ Works => DoneAt(drv.view.place, tab.done)
  BY <1>2 DEF Keeps, SoundAt, VouchedAt, WorkedAt
<1> DEFINE c == [drv EXCEPT !.because = "page_errors"]
           d == [drv EXCEPT !.on.required = TRUE, !.because = "open_questions"]
           r == [rec EXCEPT !.status = "filling"]
<1>4. \/ Call("errors", c, rec)
      \/ Call("required", drv, rec)
      \/ drv' = [drv EXCEPT !.pc = "last"] /\ UNCHANGED rec
      \/ Finish("stopped", "user", rec)
      \/ Park("upload", drv, rec)
      \/ ParkOr("open_questions", drv, rec)
      \/ Save("fix", d, r)
  BY DEF Reviewed, Required
<1>5. /\ HasDrv(c) /\ Alike([drv EXCEPT !.on = c.on, !.because = c.because], c) /\ c.on = drv.on
      /\ HasDrv(d) /\ Alike([drv EXCEPT !.on = d.on, !.because = d.because], d)
      /\ d.on.filled = drv.on.filled /\ d.on.spot = drv.on.spot /\ d.on.again = drv.on.again
      /\ d.on.vouched = drv.on.vouched /\ d.on.thought = drv.on.thought
      /\ Alike([drv EXCEPT !.on = drv.on, !.because = drv.because], drv)
  BY RecMarked DEF HasDrv, HasOn, Alike
<1>6. Marked(r, rec) BY RecMarked DEF Marked, Kept, HasRec, Statuses, InAir
<1> HIDE DEF c, d, r
<1>7. CASE Call("errors", c, rec)
  <2>1. Keeps(c, rec, "errors", tab.done) BY <1>2, <1>5, RecMarked, JudgingKeeps DEF Judging
  <2> QED
    BY <1>7, <2>1, CallKeeps
<1>8. ASSUME NEW y \in {"required", "last"} PROVE Keeps(drv, rec, y, tab.done)
  BY <1>2, <1>3, <1>5, RecMarked, JudgingKeeps DEF Judging
<1>9. CASE Save("fix", d, r)
  <2>1. Keeps(d, r, "fix", tab.done) BY <1>2, <1>5, <1>6, JudgingKeeps DEF Judging
  <2> QED
    BY <1>9, <2>1, SaveKeeps
<1>10. CASE Finish("stopped", "user", rec) BY <1>10, StoppedKeeps DEF Stops
<1>11. CASE Park("upload", drv, rec) BY <1>3, <1>11, RecMarked, ParkKeeps
<1>12. CASE ParkOr("open_questions", drv, rec) BY <1>2, <1>3, <1>12, ParkOrKeeps DEF Closing
<1> QED
  BY <1>4, <1>7, <1>8, <1>9, <1>10, <1>11, <1>12, CallKeeps, GoesKeeps

(* A page that is read again, for what was repaired or was found on it.    *)
LEMMA RereadKeeps ==
  ASSUME NEW d, NEW r, NEW x, x \notin Before, NEW done, Keeps(d, r, x, done),
         NEW e, HasDrv(e), Alike([d EXCEPT !.on = e.on, !.because = e.because], e),
         e.on.spot \in Spots, e.on.filled => d.on.filled /\ e.on.spot = d.on.spot,
         d.on.again => e.on.again, e.on.vouched = d.on.vouched, e.on.thought = d.on.thought,
         d.button = "next" \/ e.on.filled \/ e.on.again \/ e.on.thought \/ d.shaped # {}
  PROVE  Keeps(e, r, "read", done)
<1>1. HasDrv(d) /\ d.resumeWhy = "none" /\ (d.button = "next" => d.kind = "form_step")
  BY DEF Keeps, SoundAt, Before
<1>2. /\ e.view = d.view /\ e.kind = d.kind /\ e.button = d.button /\ e.mayApply = d.mayApply
      /\ e.resumeWhy = d.resumeWhy /\ e.shaped = d.shaped
  BY <1>1 DEF Alike, HasDrv
<1>3. SoundAt(e, r, "read")
  BY PointsAre, <1>1, <1>2 DEF Keeps, SoundAt, Before, Filling, AtFilled, Judging, Thinking
<1>4. Fits => FitAt(e) BY <1>2 DEF Keeps, FitAt
<1>5. Works => WorkedAt(e, r, "read", done)
  BY <1>1, <1>2 DEF Keeps, WorkedAt, AtFilled, Judging, Thinking
<1>6. Vouched => VouchedAt(e, r, "read", hist.vouch)
  BY <1>1, <1>2 DEF Keeps, VouchedAt, Judging
<1> QED
  BY <1>3, <1>4, <1>5, <1>6 DEF Keeps

LEMMA ErrorsKeeps ==
  ASSUME Sound, Errors \/ Fix
  PROVE  Lands(tab.done) /\ tab'.page = tab.page /\ tab'.done = tab.done
<1>1. PICK x \in {"errors", "fix"} : drv.pc = x BY DEF Errors, Fix
<1>2. Keeps(drv, rec, x, tab.done) /\ x \notin Before /\ AtFilled(drv, x)
  BY <1>1, HereKeeps, PointIsPc DEF Before, AtFilled, Judging
<1>3. /\ HasDrv(drv) /\ drv.on.spot \in Spots /\ drv.on.filled
      /\ Works => DoneAt(drv.view.place, tab.done)
      /\ Alike([drv EXCEPT !.on = drv.on, !.because = drv.because], drv)
  BY <1>2 DEF Keeps, SoundAt, WorkedAt, Alike
<1>4. tab'.page = tab.page /\ tab'.done = tab.done BY DEF Errors, Fix, Shows, Sound, HasTab
<1>5. \/ Finish("stopped", "user", rec)
      \/ Repair(drv, rec)
      \/ ParkErrors(drv, rec)
      \/ Call("read", drv, rec)
      \/ ParkOr("open_questions", drv, rec)
  BY DEF Errors, Fix
<1>6. CASE Call("read", drv, rec)
  <2>1. Keeps(drv, rec, "read", tab.done) BY <1>2, <1>3, RereadKeeps
  <2> QED
    BY <1>4, <1>6, <2>1, CallKeeps
<1>7. CASE Finish("stopped", "user", rec) BY <1>4, <1>7, StoppedKeeps DEF Stops
<1>8. CASE Repair(drv, rec) BY <1>2, <1>4, <1>8, RepairKeeps
<1>9. CASE ParkErrors(drv, rec) BY <1>2, <1>4, <1>9, ParkErrorsKeeps
<1>10. CASE ParkOr("open_questions", drv, rec) BY <1>2, <1>3, <1>4, <1>10, ParkOrKeeps DEF Closing
<1> QED
  BY <1>5, <1>6, <1>7, <1>8, <1>9, <1>10

LEMMA LookKeeps == ASSUME Sound, Look PROVE Lands(tab.done)
<1>1. /\ Keeps(drv, rec, "look", tab.done) /\ "look" \notin Before /\ AtFilled(drv, "look")
  BY HereKeeps, PointIsPc DEF Look, Before, AtFilled, Judging
<1>2. /\ HasDrv(drv) /\ drv.on.spot \in Spots
      /\ Works => DoneAt(drv.view.place, tab.done)
  BY <1>1 DEF Keeps, SoundAt, WorkedAt
<1> DEFINE d == Shaped(tab.page, drv)
           e == Refill(drv)
           q == Past(drv, rec)
<1>3. \/ Finish("stopped", "user", rec)
      \/ Left(tab.page, drv) = "refill" /\ Call("read", e, rec)
      \/ Left(tab.page, drv) = "step" /\ Save("read", Moved(d), q)
      \/ ParkOr("page_errors", drv, rec)
  BY DEF Look
<1>4. HasDrv(d) /\ Alike([drv EXCEPT !.shaped = d.shaped], d) BY <1>2 DEF Shaped, Alike, HasDrv
<1>5. Left(tab.page, drv) = "step" => Marked(q, rec) BY <1>2, PastKeeps
<1>6. /\ HasDrv(e) /\ Alike([drv EXCEPT !.on = e.on, !.because = e.because], e)
      /\ ~e.on.filled /\ e.on.spot = NoSpot /\ e.on.again = drv.on.again
      /\ e.on.vouched = drv.on.vouched /\ e.on.thought = drv.on.thought
  BY <1>2 DEF Refill, Alike, HasDrv, HasOn
<1> HIDE DEF d, e, q
<1>7. CASE Left(tab.page, drv) = "refill" /\ Call("read", e, rec)
  <2>1. drv.shaped # {} BY <1>7 DEF Left
  <2>2. Keeps(e, rec, "read", tab.done) BY <1>1, <1>6, <2>1, IdleKeeps, RereadKeeps
  <2> QED
    BY <1>7, <2>2, CallKeeps
<1>8. CASE Left(tab.page, drv) = "step" /\ Save("read", Moved(d), q)
  <2>1. HasDrv(Moved(d)) BY <1>4, IdleKeeps DEF Moved, HasDrv
  <2>2. Alike([drv EXCEPT !.on = Untouched, !.shaped = Moved(d).shaped], Moved(d))
    BY <1>2, <1>4 DEF Moved, Alike, HasDrv
  <2>3. Keeps(Moved(d), q, "read", tab.done) BY <1>1, <1>5, <1>8, <2>1, <2>2, LeftKeeps
  <2> QED
    BY <1>8, <2>3, SaveKeeps
<1>9. CASE Finish("stopped", "user", rec) BY <1>9, StoppedKeeps DEF Stops
<1>10. CASE ParkOr("page_errors", drv, rec) BY <1>1, <1>2, <1>10, ParkOrKeeps DEF Closing
<1> QED
  BY <1>3, <1>7, <1>8, <1>9, <1>10

LEMMA RecheckKeeps == ASSUME Sound, Recheck PROVE Lands(tab.done)
<1>1. Keeps(drv, rec, "recheck", tab.done) /\ "recheck" \notin Before /\ AtFilled(drv, "recheck")
  BY HereKeeps, PointIsPc DEF Recheck, Before, AtFilled, Judging
<1>2. /\ HasDrv(drv) /\ drv.button = "next" /\ drv.view \in Spots
      /\ Works => DoneAt(drv.view.place, tab.done)
  BY <1>1 DEF Keeps, SoundAt, WorkedAt
<1> DEFINE d == [drv EXCEPT !.recheck = "none", !.because = "page_errors"]
<1>3. \/ Finish("stopped", "user", rec)
      \/ Park("upload", d, rec)
      \/ Repair(d, rec)
      \/ Call("press", d, rec)
  BY DEF Recheck
<1>4. /\ HasDrv(d) /\ Alike([drv EXCEPT !.on = d.on, !.because = d.because], d) /\ d.on = drv.on
      /\ d.button = "next" /\ d.view = drv.view
  BY <1>2 DEF HasDrv, Alike
<1> HIDE DEF d
<1>5. Keeps(d, rec, "recheck", tab.done) BY <1>1, <1>4, RecMarked, JudgingKeeps DEF Judging
<1>6. AtFilled(d, "recheck") BY DEF AtFilled, Judging
<1>7. CASE Call("press", d, rec)
  <2>1. SoundAt(d, rec, "press")
    BY PointsAre, <1>4, <1>5 DEF Keeps, SoundAt, Before, Filling, AtFilled, Judging, Thinking
  <2>2. Works => WorkedAt(d, rec, "press", tab.done)
    BY <1>5 DEF Keeps, WorkedAt, AtFilled, Judging, Thinking
  <2>3. Vouched => VouchedAt(d, rec, "press", hist.vouch) BY <1>5 DEF Keeps, VouchedAt, Judging
  <2>4. Keeps(d, rec, "press", tab.done) BY <1>5, <2>1, <2>2, <2>3 DEF Keeps
  <2> QED
    BY <1>7, <2>4, CallKeeps
<1>8. CASE Finish("stopped", "user", rec) BY <1>8, StoppedKeeps DEF Stops
<1>9. CASE Park("upload", d, rec) BY <1>2, <1>4, <1>9, RecMarked, ParkKeeps
<1>10. CASE Repair(d, rec) BY <1>1, <1>5, <1>6, <1>10, RepairKeeps
<1> QED
  BY <1>3, <1>7, <1>8, <1>9, <1>10

LEMMA PressKeeps ==
  ASSUME Sound, Press
  PROVE  /\ Lands(tab.done) /\ HasTab' /\ tab'.page = tab.page /\ tab'.done = tab.done
         /\ hist'.vouch = hist.vouch
<1>1. Keeps(drv, rec, "press", tab.done) BY HereKeeps, PointIsPc DEF Press
<1>2. /\ HasTab' /\ tab'.page = tab.page /\ tab'.done = tab.done /\ hist'.vouch = hist.vouch
  <2>1. Pressing(tab.page, drv.button) \/ UNCHANGED <<tab, hist>> BY DEF Press
  <2>2. CASE Pressing(tab.page, drv.button) BY <2>2 DEF Pressing, Sound, HasTab
  <2>3. CASE UNCHANGED <<tab, hist>> BY <2>3 DEF Sound, HasTab
  <2> QED
    BY <2>1, <2>2, <2>3
<1>3. Call("wait", drv, rec) \/ Finish("stopped", "user", rec) \/ NoMove(TRUE) BY DEF Press
<1>4. CASE Call("wait", drv, rec)
  <2>1. SoundAt(drv, rec, "wait")
    BY PointsAre, <1>1 DEF Keeps, SoundAt, Before, Filling, AtFilled, Judging, Thinking
  <2>2. Works => WorkedAt(drv, rec, "wait", tab.done)
    BY <1>1 DEF Keeps, WorkedAt, AtFilled, Judging, Thinking
  <2>3. Vouched => VouchedAt(drv, rec, "wait", hist.vouch) BY <1>1 DEF Keeps, VouchedAt, Judging
  <2>4. Keeps(drv, rec, "wait", tab.done) BY <1>1, <2>1, <2>2, <2>3 DEF Keeps
  <2> QED
    BY <1>2, <1>4, <2>4, CallKeeps
<1>5. CASE Finish("stopped", "user", rec) BY <1>2, <1>5, StoppedKeeps DEF Stops
<1>6. CASE NoMove(TRUE) BY <1>2, <1>6, NoMoveKeeps DEF Press
<1> QED
  BY <1>3, <1>4, <1>5, <1>6

LEMMA WaitKeeps == ASSUME Sound, Wait PROVE Lands(tab.done)
<1>1. Keeps(drv, rec, "wait", tab.done) /\ "wait" \notin Before
  BY HereKeeps, PointIsPc DEF Wait, Before
<1>2. HasDrv(drv) /\ View \in Pages BY <1>1 DEF Keeps, SoundAt, View, Before
<1> DEFINE c == [drv EXCEPT !.because = "page_errors"]
           d == [Moved(drv) EXCEPT !.chooser = TRUE, !.landing = {ApplyTo[View], JobHost}]
           q == [rec EXCEPT !.step = @ + 1, !.seen = @ \cup {View}]
<1>3. \/ Finish("stopped", "user", rec)
      \/ drv.button = "next" /\ Call("errors", c, rec)
      \/ NoMove(FALSE)
      \/ Save("read", Moved(drv), q)
      \/ Call("read", d, rec)
      \/ Call("read", Moved(drv), rec)
  BY DEF Wait
<1>4. /\ HasDrv(c) /\ Alike([drv EXCEPT !.on = c.on, !.because = c.because], c) /\ c.on = drv.on
      /\ c.button = drv.button
  BY <1>2 DEF HasDrv, Alike
<1>5. HasDrv(d) /\ Alike([drv EXCEPT !.on = Untouched, !.shaped = d.shaped], d)
  BY <1>2, IdleKeeps DEF Moved, HasDrv, Alike
<1>6. Marked(q, rec) BY <1>2, RecMarked DEF Marked, Kept, HasRec
<1> HIDE DEF c, d, q
<1>7. CASE drv.button = "next" /\ Call("errors", c, rec)
  <2>1. AtFilled(drv, "wait") BY <1>7 DEF AtFilled
  <2>2. Keeps(c, rec, "errors", tab.done)
    BY <1>1, <1>4, <2>1, RecMarked, JudgingKeeps DEF Judging
  <2> QED
    BY <1>7, <2>2, CallKeeps
<1>8. CASE Finish("stopped", "user", rec) BY <1>8, StoppedKeeps DEF Stops
<1>9. CASE NoMove(FALSE) BY <1>9, NoMoveKeeps DEF Wait
<1>10. CASE Save("read", Moved(drv), q) BY <1>1, <1>6, <1>10, MovedKeeps, SaveKeeps
<1>11. CASE Call("read", d, rec)
  <2>1. Keeps(d, rec, "read", tab.done) BY <1>1, <1>5, RecMarked, LeftKeeps
  <2> QED
    BY <1>11, <2>1, CallKeeps
<1>12. CASE Call("read", Moved(drv), rec) BY <1>1, <1>12, RecMarked, MovedKeeps, CallKeeps
<1> QED
  BY <1>3, <1>7, <1>8, <1>9, <1>10, <1>11, <1>12

LEMMA ThinkPressKeeps ==
  ASSUME Sound, ThinkPress
  PROVE  /\ Lands(tab.done) /\ HasTab' /\ tab'.page = tab.page /\ tab'.done = tab.done
         /\ hist'.vouch = hist.vouch
<1>1. Keeps(drv, rec, "think", tab.done) BY HereKeeps, PointIsPc DEF ThinkPress
<1>2. /\ HasTab' /\ tab'.page = tab.page /\ tab'.done = tab.done /\ hist'.vouch = hist.vouch
  BY DEF ThinkPress, Pressing, Sound, HasTab
<1> DEFINE d == [drv EXCEPT !.pc = "thought", !.landed = tab.page]
<1>3. drv' = d /\ rec' = rec BY DEF ThinkPress
<1>4. /\ HasDrv(d) /\ d.pc = "thought" /\ d.landed = tab.page /\ d.view = drv.view /\ d.kind = drv.kind
      /\ d.button = drv.button /\ d.mayApply = drv.mayApply /\ d.because = drv.because
      /\ d.resumeWhy = drv.resumeWhy /\ d.shaped = drv.shaped /\ d.on = drv.on
  BY RecMarked DEF HasDrv
<1> HIDE DEF d
<1>5. tab.page \in Pages BY DEF Sound
<1>6. SoundAt(d, rec, "thought")
  BY PointsAre, <1>1, <1>4, <1>5
    DEF Keeps, SoundAt, Before, Filling, AtFilled, Judging, Thinking
<1>7. Works => WorkedAt(d, rec, "thought", tab.done)
  BY <1>1, <1>4 DEF Keeps, WorkedAt, AtFilled, Judging, Thinking
<1>8. Vouched => VouchedAt(d, rec, "thought", hist.vouch)
  BY <1>1, <1>4 DEF Keeps, VouchedAt, Judging
<1>9. Fits => FitAt(d) BY <1>1, <1>4 DEF Keeps, FitAt
<1>10. Keeps(d, rec, "thought", tab.done) BY <1>1, <1>6, <1>7, <1>8, <1>9 DEF Keeps
<1> QED
  BY <1>2, <1>3, <1>4, <1>10 DEF Lands, Point

LEMMA ThinkKeeps == ASSUME Sound, Think \/ Thought PROVE Lands(tab.done)
<1>1. PICK x \in Thinking : drv.pc = x /\ (Think => x = "think") /\ (Thought => x = "thought")
  BY DEF Think, Thought, Thinking
<1>2. Keeps(drv, rec, x, tab.done) /\ x \notin Before
  BY <1>1, HereKeeps, PointIsPc DEF Before, Thinking
<1>3. /\ HasDrv(drv) /\ drv.view \in Spots /\ drv.on.spot \in Spots
      /\ drv.on.thought
  BY <1>2 DEF Keeps, SoundAt
<1> DEFINE d == [drv EXCEPT !.pc = "upload", !.open = FALSE]
           q == [rec EXCEPT !.step = @ + 1, !.seen = @ \cup {drv.landed}]
<1>4. \/ Finish("stopped", "user", rec)
      \/ Park(drv.because, drv, rec)
      \/ Park("step_limit", drv, rec)
      \/ x = "thought" /\ Save("read", Moved(drv), q)
      \/ Call("read", drv, rec)
      \/ Think /\ drv.because = "open_questions" /\ ~drv.on.filled /\ drv' = d /\ UNCHANGED rec
  BY <1>1 DEF Think, Thought, Again
<1>5. /\ HasDrv(d) /\ Alike([drv EXCEPT !.on = d.on], d) /\ d.on = drv.on /\ d.pc = "upload"
      /\ Alike([drv EXCEPT !.on = drv.on, !.because = drv.because], drv)
  BY <1>3 DEF HasDrv, Alike
<1>6. x = "thought" => Marked(q, rec)
  <2>1. x = "thought" => drv.landed \in Pages BY <1>2 DEF Keeps, SoundAt
  <2> QED
    BY <2>1, RecMarked DEF Marked, Kept, HasRec
<1> HIDE DEF d, q
<1>7. CASE Think /\ drv.because = "open_questions" /\ ~drv.on.filled /\ drv' = d /\ UNCHANGED rec
  <2>1. Works => DoneAt(drv.view.place, tab.done) BY <1>1, <1>2, <1>7 DEF Keeps, WorkedAt
  <2>2. Keeps(d, rec, "upload", tab.done)
    BY <1>2, <1>5, <1>7, <2>1, RecMarked, FillingKeeps DEF Filling
  <2> QED
    BY <1>5, <1>7, <2>2 DEF Lands, Point
<1>8. CASE Call("read", drv, rec)
  <2>1. Keeps(drv, rec, "read", tab.done) BY <1>2, <1>3, <1>5, RereadKeeps
  <2> QED
    BY <1>8, <2>1, CallKeeps
<1>9. CASE x = "thought" /\ Save("read", Moved(drv), q) BY <1>2, <1>6, <1>9, MovedKeeps, SaveKeeps
<1>10. CASE Park(drv.because, drv, rec)
  <2>1. drv.because \in {"page_errors", "upload"} => (Works => DoneAt(drv.view.place, tab.done))
    BY <1>2 DEF Keeps, WorkedAt
  <2> QED
    BY <1>3, <1>10, <2>1, RecMarked, ParkKeeps
<1>11. CASE Park("step_limit", drv, rec) BY <1>11, ParkedKeeps DEF AsksNothing
<1>12. CASE Finish("stopped", "user", rec) BY <1>12, StoppedKeeps DEF Stops
<1> QED
  BY <1>4, <1>7, <1>8, <1>9, <1>10, <1>11, <1>12

(* The end of an application: the drive that makes a run ready knows what  *)
(* backs it.                                                               *)
Backed ==
  /\ rec.step > 0 \/ rec.wrote
  /\ \/ drv.by = "submit_button"
     \/ /\ drv.by \in Vouchable /\ hist.vouch # Nowhere
        /\ hist.vouch = drv.view.place \/ drv.on.again \/ drv.on.thought
Knows(done) ==
  /\ SoundAt(drv', rec', Point(drv'))
  /\ Fits => FitAt(drv')
  /\ Works => WorkedAt(drv', rec', Point(drv'), done)
  /\ Vouched => VouchedAt(drv', rec', Point(drv'), hist.vouch)
LEMMA LandsKnows == ASSUME NEW done, Lands(done) PROVE Knows(done)
BY DEF Lands, Keeps, Knows

LEMMA LastKeeps ==
  ASSUME Sound, Last
  PROVE  Knows(tab.done) /\ (Lands(tab.done) \/ (Vouched => Backed))
<1>1. Keeps(drv, rec, "last", tab.done) /\ "last" \notin Before
  BY HereKeeps, PointIsPc DEF Last, Before
<1>2. HasDrv(drv) /\ drv.on.spot \in Spots /\ drv.on.filled /\ Kept(rec)
  BY <1>1 DEF Keeps, SoundAt, AtFilled, Judging
<1> DEFINE d == [drv EXCEPT !.on.held = TRUE]
           r == [rec EXCEPT !.ready = TRUE]
<1>3. \/ ~Unsure /\ Finish("ready", "none", r)
      \/ Park("unsure_page", drv, rec)
      \/ Call("read", d, rec)
  BY DEF Last
<1>4. /\ HasDrv(d) /\ Alike([drv EXCEPT !.on = d.on, !.because = d.because], d)
      /\ d.on.filled = drv.on.filled /\ d.on.spot = drv.on.spot /\ d.on.again = drv.on.again
      /\ d.on.vouched = drv.on.vouched /\ d.on.thought = drv.on.thought
  BY <1>2 DEF HasDrv, HasOn, Alike
<1>5. Kept(r) BY <1>2 DEF Kept, HasRec
<1> HIDE DEF d, r
<1>6. CASE ~Unsure /\ Finish("ready", "none", r)
  <2>1. Kept(rec') /\ rec'.why \in {"none", "tab_closed"} /\ drv' = Idle
    BY <1>5, <1>6 DEF Finish, Kept, HasRec, Statuses
  <2>2. Point(drv') = "idle" BY <2>1, IdleKeeps
  <2>3. SoundAt(Idle, rec', "idle")
    BY PointsAre, <1>1, <2>1, IdleKeeps, PagesArePlaces
      DEF Keeps, SoundAt, Before, Filling, AtFilled, Judging, Thinking
  <2>4. WorkedAt(Idle, rec', "idle", tab.done)
    BY <2>1, IdleKeeps DEF WorkedAt, AtFilled, Judging, Thinking
  <2>5. VouchedAt(Idle, rec', "idle", hist.vouch)
    BY <2>1, IdleKeeps DEF VouchedAt, Judging
  <2>6. Vouched => Backed BY <1>1, <1>2, <1>6 DEF Keeps, VouchedAt, Unsure, Backed, Judging
  <2> QED
    BY <2>1, <2>2, <2>3, <2>4, <2>5, <2>6, IdleKeeps DEF Knows
<1>7. CASE Call("read", d, rec)
  <2>1. Keeps(d, rec, "read", tab.done) BY <1>1, <1>2, <1>4, RereadKeeps
  <2> QED
    BY <1>7, <2>1, CallKeeps, LandsKnows
<1>8. CASE Park("unsure_page", drv, rec) BY <1>8, ParkedKeeps, LandsKnows DEF AsksNothing
<1> QED
  BY <1>3, <1>6, <1>7, <1>8

-----------------------------------------------------------------------------
(* Every step of the run, its host, the site and the user *)

LEMMA DriverKnows ==
  ASSUME Sound, Driver
  PROVE  /\ Fill \/ Knows(tab.done)
         /\ Fill => Knows(tab'.done)
         /\ rec'.status = "ready" => rec.status = "ready" \/ (Vouched => Backed)
<1>1. CASE /\ \/ Start \/ OpenTab \/ Saved \/ Read \/ ReadNothing \/ Arrived \/ WatchReady \/ Judged \/ Counted
              \/ Ends \/ SignUp \/ SignIn \/ Posting \/ Chooser \/ LoginFetched \/ Type \/ Unmade
              \/ Entered \/ Settle \/ OnForm \/ Unfilled \/ Filled \/ Upload \/ Attach
              \/ FillAgain \/ ParkBald \/ JudgeReview \/ JudgeStep \/ Reviewed \/ Required
              \/ Errors \/ Fix \/ Look \/ Recheck \/ Press \/ Wait \/ Think \/ ThinkPress \/ Thought
              \/ Throws
           /\ ~Fill
  <2>1. Lands(tab.done)
    BY <1>1, StartKeeps, OpenTabKeeps, SavedKeeps, ReadKeeps, ReadNothingKeeps, ArrivedKeeps,
       WatchReadyKeeps, JudgedKeeps, PagesKeep, OpeningKeeps, LoginKeeps, OnFormKeeps,
       UnfilledKeeps, FilledKeeps, UploadKeeps, JudgeKeeps, JudgeStepKeeps, ReviewedKeeps,
       ErrorsKeeps, LookKeeps, RecheckKeeps, PressKeeps, WaitKeeps, ThinkKeeps, ThinkPressKeeps,
       ThrowsKeeps
  <2> QED
    BY <1>1, <2>1, LandsKnows DEF Lands, Keeps
<1>2. CASE Fill
  <2>1. PICK more : more = tab'.done OBVIOUS
  <2>2. Lands(more) BY <1>2, <2>1, FillKeeps
  <2>3. Knows(more) BY <2>2, LandsKnows
  <2>4. Knows(tab.done) \/ Fill BY <1>2
  <2> QED
    BY <2>1, <2>2, <2>3, <2>4 DEF Lands, Keeps
<1>3. CASE Last
  <2>1. drv.pc = "last" BY <1>3 DEF Last
  <2>2. ~Fill BY <2>1 DEF Fill
  <2> QED
    BY <1>3, <2>2, LastKeeps DEF Lands, Keeps
<1> QED
  BY <1>1, <1>2, <1>3 DEF Driver

LEMMA DriverShows ==
  ASSUME Sound, Driver
  PROVE  /\ HasTab' /\ HasNotes' /\ tab'.page \in Pages /\ hist'.vouch = hist.vouch
         /\ tab'.done = tab.done \/ Fill
<1>1. HasTab /\ HasNotes /\ tab.page \in Pages BY DEF Sound
<1>2. CASE UNCHANGED <<tab, hist>> BY <1>1, <1>2 DEF HasTab, HasNotes
<1>3. CASE OpenTab
  <2>1. HasTab' /\ HasNotes' /\ hist'.vouch = hist.vouch
    BY <1>1, <1>3 DEF OpenTab, Shows, HasTab, HasNotes
  <2> QED
    BY <1>3, <2>1, OpenTabKeeps
<1>4. CASE Fill BY <1>1, <1>4 DEF Fill, HasTab, HasNotes
<1>5. CASE Fix
  <2>1. UNCHANGED hist /\ (UNCHANGED tab \/ \E errs : tab' = Shows(tab.page, errs)) BY <1>5 DEF Fix
  <2> QED
    BY <1>1, <2>1 DEF Shows, HasTab, HasNotes
<1>6. CASE Press \/ ThinkPress
  <2>1. UNCHANGED <<tab, hist>> \/ \E p, button : Pressing(p, button) BY <1>6 DEF Press, ThinkPress
  <2>2. ASSUME NEW p, NEW button, Pressing(p, button)
        PROVE  /\ HasTab' /\ HasNotes' /\ tab'.page = tab.page /\ hist'.vouch = hist.vouch
               /\ tab'.done = tab.done
    BY <1>1, <2>2 DEF Pressing, HasTab, HasNotes
  <2> QED
    BY <1>1, <1>2, <2>1, <2>2
<1>7. CASE Type BY <1>1, <1>2, <1>7 DEF Type, HasTab, HasNotes
<1>8. CASE \/ Start \/ Saved \/ Read \/ ReadNothing \/ Arrived \/ WatchReady
           \/ Judged \/ Counted \/ Ends \/ Posting \/ Chooser \/ SignUp \/ SignIn \/ LoginFetched
  BY <1>2, <1>8 DEF Start, Saved, Read, ReadNothing, Arrived, WatchReady,
    Judged, Counted, Ends, Posting, Chooser, SignUp, SignIn, LoginFetched
<1>9. CASE \/ Unmade \/ Entered \/ Settle \/ OnForm \/ Unfilled
           \/ Filled \/ Upload \/ Attach \/ FillAgain \/ ParkBald \/ JudgeReview \/ JudgeStep
  BY <1>2, <1>9 DEF Unmade, Entered, Settle, OnForm, Unfilled, Filled,
    Upload, Attach, FillAgain, ParkBald, JudgeReview, JudgeStep
<1>10. CASE \/ Reviewed \/ Required \/ Last \/ Errors \/ Look \/ Recheck
            \/ Wait \/ Think \/ Thought \/ Throws
  BY <1>2, <1>10 DEF Reviewed, Required, Last, Errors, Look, Recheck, Wait, Think, Thought, Throws
<1> QED
  BY <1>3, <1>4, <1>5, <1>6, <1>7, <1>8, <1>9, <1>10 DEF Driver

(* A record that the host writes, with the drive that goes on or is over.  *)
LEMMA HostKeeps ==
  ASSUME Sound, drv' \in {drv, Idle}, Kept(rec'), rec'.parked = rec.parked,
         rec'.step = rec.step, rec'.wrote = rec.wrote,
         rec'.why = rec.why \/ rec'.why \in {"user", "tab_closed", "interrupted"},
         rec'.status = rec.status \/ rec'.status = "stopped"
  PROVE  Lands(tab.done)
<1>1. Keeps(drv, rec, Point(drv), tab.done) BY HereKeeps
<1>2. CASE drv' = drv
  <2>1. SoundAt(drv, rec', Point(drv)) BY PointsAre, <1>1 DEF Keeps, SoundAt
  <2>2. Works => WorkedAt(drv, rec', Point(drv), tab.done) BY <1>1 DEF Keeps, WorkedAt
  <2>3. Vouched => VouchedAt(drv, rec', Point(drv), hist.vouch) BY <1>1 DEF Keeps, VouchedAt
  <2> QED
    BY <1>1, <1>2, <2>1, <2>2, <2>3 DEF Keeps, Lands
<1>3. CASE drv' = Idle
  <2>1. SoundAt(Idle, rec', "idle")
    BY PointsAre, <1>1, IdleKeeps, PagesArePlaces DEF Keeps, SoundAt, Before, Filling, AtFilled, Judging, Thinking
  <2>2. Works => WorkedAt(Idle, rec', "idle", tab.done)
    BY <1>1, IdleKeeps DEF Keeps, WorkedAt, AtFilled, Judging, Thinking
  <2>3. Vouched => VouchedAt(Idle, rec', "idle", hist.vouch)
    BY <1>1, IdleKeeps DEF Keeps, VouchedAt, Judging
  <2> QED
    BY <1>1, <1>3, <2>1, <2>2, <2>3, IdleKeeps DEF Keeps, Lands
<1> QED
  BY <1>2, <1>3

(* A drive that begins, for the word of a user if it is a Resume.          *)
LEMMA BeginKeeps ==
  ASSUME Sound, NEW r, Kept(r), r.parked = rec.parked, r.step = rec.step, r.why = rec.why, Begin(r)
  PROVE  /\ SoundAt(drv', rec', Point(drv')) /\ FitAt(drv')
         /\ Works => WorkedAt(drv', rec', Point(drv'), tab.done)
         /\ \A word : /\ r.why = "unsure_page" => word = rec.parked.place
                      /\ r.status \in {"waiting", "ready"} => r.why # "unsure_page"
                      => VouchedAt(drv', rec', Point(drv'), word)
<1> DEFINE d == [Idle EXCEPT !.pc = "start"]
<1>1. drv' = d /\ rec' = r BY DEF Begin
<1>2. /\ HasDrv(d) /\ Alike(d, Idle) /\ d.pc = "start" BY IdleKeeps DEF HasDrv, Alike
<1> HIDE DEF d
<1>3. /\ d.view = NoSpot /\ d.on = Untouched /\ d.button = "none" /\ d.kind = "unknown"
      /\ ~d.mayApply /\ d.resumeWhy = "none" /\ d.shaped = {}
  BY <1>2, IdleKeeps DEF Alike
<1>4. Point(d) = "start" BY <1>2 DEF Point
<1>5. SoundAt(d, r, "start")
  BY PointsAre, <1>2, <1>3, IdleKeeps, PagesArePlaces
    DEF Sound, SoundAt, Before, Filling, AtFilled, Judging, Thinking
<1>6. FitAt(d) BY <1>3 DEF FitAt
<1>7. Works => WorkedAt(d, r, "start", tab.done)
  BY <1>3, IdleKeeps DEF Works, Worked, WorkedAt, AtFilled, Judging, Thinking
<1>8. ASSUME NEW word, r.why = "unsure_page" => word = rec.parked.place,
             r.status \in {"waiting", "ready"} => r.why # "unsure_page"
      PROVE  VouchedAt(d, r, "start", word)
  BY <1>3, <1>8, IdleKeeps DEF VouchedAt, Judging
<1> QED
  BY <1>1, <1>4, <1>5, <1>6, <1>7, <1>8

Follows ==
  /\ Sound'
  /\ Fits => Fit'
  /\ Works => Worked'
  /\ Vouched => Vouched'
  /\ rec'.status = "ready" => rec.status = "ready" \/ (Vouched => Backed)

LEMMA KnowsFollows ==
  ASSUME NEW done, Knows(done), done = tab'.done, HasTab', HasNotes', tab'.page \in Pages,
         hist'.vouch = hist.vouch,
         rec'.status = "ready" => rec.status = "ready" \/ (Vouched => Backed)
  PROVE  Follows
BY DEF Knows, Follows, Sound, Fit, Worked, Vouched

LEMMA DriverFollows == ASSUME Sound, Driver PROVE Follows
<1>1. PICK done : done = tab'.done OBVIOUS
<1>2. CASE Fill
  <2>1. Knows(done) BY <1>1, <1>2, DriverKnows
  <2> QED
    BY <1>1, <2>1, DriverKnows, DriverShows, KnowsFollows
<1>3. CASE ~Fill
  <2>1. Knows(tab.done) /\ done = tab.done BY <1>1, <1>3, DriverKnows, DriverShows
  <2>2. Knows(done) BY <2>1
  <2> QED
    BY <1>1, <2>2, DriverKnows, DriverShows, KnowsFollows
<1> QED
  BY <1>2, <1>3

LEMMA OthersFollow == ASSUME Sound, Panel \/ World \/ UNCHANGED vars PROVE Follows
<1>1. HasTab /\ HasNotes /\ tab.page \in Pages /\ Kept(rec) /\ HasDrv(drv)
  BY RecMarked DEF Sound
<1>2. UNCHANGED <<tab, hist>> => /\ HasTab' /\ HasNotes' /\ tab'.page \in Pages
                                 /\ hist'.vouch = hist.vouch /\ tab'.done = tab.done
  BY <1>1 DEF HasTab, HasNotes
<1>3. CASE StopRun
  <2>1. /\ Marked(rec', rec) /\ rec'.wrote = rec.wrote /\ rec'.status = rec.status
    BY <1>1, <1>3, RecMarked DEF StopRun, Marked, Kept, HasRec
  <2>2. Lands(tab.done)
    BY <1>1, <1>3, <2>1, HostKeeps DEF Marked, StopRun, Kept, HasRec
  <2> QED
    BY <1>2, <1>3, <2>1, <2>2, LandsKnows, KnowsFollows DEF StopRun
<1>4. CASE SkipRun \/ PanelCloses
  <2>1. /\ Kept(rec') /\ rec'.parked = rec.parked /\ rec'.step = rec.step /\ rec'.wrote = rec.wrote
        /\ rec'.why = rec.why \/ rec'.why \in {"user", "tab_closed", "interrupted"}
        /\ rec'.status = rec.status \/ rec'.status = "stopped"
    BY <1>1, <1>4 DEF SkipRun, PanelCloses, Kept, HasRec, Statuses
  <2>2. drv' \in {drv, Idle} /\ UNCHANGED <<tab, hist>> BY <1>4 DEF SkipRun, PanelCloses
  <2>3. Lands(tab.done) BY <2>1, <2>2, HostKeeps
  <2> QED
    BY <1>2, <2>1, <2>2, <2>3, LandsKnows, KnowsFollows
<1>5. CASE CloseTab
  <2>1. /\ Kept(rec') /\ rec'.parked = rec.parked /\ rec'.step = rec.step /\ rec'.wrote = rec.wrote
        /\ rec'.why = rec.why \/ rec'.why \in {"user", "tab_closed", "interrupted"}
        /\ rec'.status = rec.status \/ rec'.status = "stopped"
    BY <1>1, <1>5 DEF CloseTab, Kept, HasRec, Statuses
  <2>2. drv' = drv BY <1>5 DEF CloseTab
  <2>3. /\ HasTab' /\ HasNotes' /\ tab'.page \in Pages /\ hist'.vouch = hist.vouch
        /\ tab'.done = tab.done
    BY <1>1, <1>5 DEF CloseTab, HasTab, HasNotes
  <2>4. Lands(tab.done) BY <2>1, <2>2, HostKeeps
  <2> QED
    BY <2>1, <2>3, <2>4, LandsKnows, KnowsFollows
<1>6. CASE StartRun \/ CheckConfirmation
  <2>1. Begin(rec) /\ rec' = rec /\ UNCHANGED <<tab, hist>> /\ rec.status \in {"waiting", "ready"}
    BY <1>6 DEF StartRun, CheckConfirmation, Begin
  <2>2. Vouched => rec.why # "unsure_page" BY <2>1 DEF Vouched, VouchedAt
  <2>3. rec'.status = "ready" => rec.status = "ready" BY <2>1
  <2>4. Knows(tab.done) BY <1>1, <2>1, <2>2, BeginKeeps DEF Knows
  <2> QED
    BY <1>2, <2>1, <2>3, <2>4, KnowsFollows
<1>7. CASE ResumeRun
  <2> DEFINE r == [rec EXCEPT !.status = "filling", !.stop = FALSE,
                              !.ready = IF rec.status = "ready" THEN FALSE ELSE @,
                              !.movedOn = IF rec.status = "ready" THEN FALSE ELSE @]
  <2>1. /\ Kept(r) /\ r.parked = rec.parked /\ r.step = rec.step /\ r.why = rec.why
        /\ r.status = "filling"
    BY <1>1 DEF Kept, HasRec, Statuses, InAir
  <2>2. Begin(r) /\ UNCHANGED tab BY <1>7 DEF ResumeRun
  <2>3. HasNotes' /\ (rec.why = "unsure_page" => hist'.vouch = rec.parked.place)
    BY <1>1, <1>7 DEF ResumeRun, HasNotes
  <2>4. rec' = r BY <2>2 DEF Begin
  <2> HIDE DEF r
  <2>5. HasTab' /\ tab'.page \in Pages /\ tab'.done = tab.done BY <1>1, <2>2 DEF HasTab
  <2>6. PICK word : word = hist'.vouch OBVIOUS
  <2>7. VouchedAt(drv', rec', Point(drv'), word) BY <2>1, <2>2, <2>3, <2>6, BeginKeeps
  <2>8. /\ SoundAt(drv', rec', Point(drv')) /\ FitAt(drv')
        /\ Works => WorkedAt(drv', rec', Point(drv'), tab.done)
    BY <2>1, <2>2, BeginKeeps
  <2> QED
    BY <2>1, <2>3, <2>4, <2>5, <2>6, <2>7, <2>8 DEF Follows, Sound, Fit, Worked, Vouched
<1>8. CASE World \/ UNCHANGED vars
  <2>1. rec' = rec /\ drv' = drv BY <1>8 DEF World, Responds, Goes, vars
  <2>2. HasTab' /\ HasNotes' /\ tab'.page \in Pages /\ hist'.vouch = hist.vouch
    BY <1>1, <1>8, PagesArePlaces DEF World, Responds, Goes, Shows, vars, HasTab, HasNotes
  <2>3. PICK more : more = tab'.done OBVIOUS
  <2>4. tab.done \subseteq more
    <3>1. CASE Responds BY <1>1, <2>3, <3>1 DEF Responds, Shows, HasTab
    <3>2. CASE Goes
      <4>1. PICK q \in Pages : tab' = IF q = tab.page THEN [Shows(q, FALSE) EXCEPT !.done = @ \cup {Step[q]}]
                                      ELSE Shows(q, FALSE)
        BY <3>2 DEF Goes
      <4>2. Shows(q, FALSE).done = tab.done /\ "done" \in DOMAIN Shows(q, FALSE)
        BY <1>1 DEF Shows, HasTab
      <4> QED
        BY <2>3, <4>1, <4>2
    <3>3. CASE UNCHANGED vars BY <2>3, <3>3 DEF vars
    <3> QED
      BY <1>8, <3>1, <3>2, <3>3 DEF World
  <2>5. \A place : DoneAt(place, tab.done) => DoneAt(place, more) BY <2>4 DEF DoneAt
  <2>6. Worked => WorkedAt(drv, rec, Point(drv), more) BY <2>5 DEF Worked, WorkedAt
  <2>7. Knows(more) BY <2>1, <2>6 DEF Knows, Sound, Fits, Fit, Works, Vouched
  <2> QED
    BY <2>1, <2>2, <2>3, <2>7, KnowsFollows
<1> QED
  BY <1>3, <1>4, <1>5, <1>6, <1>7, <1>8 DEF Panel

LEMMA NextFollows == ASSUME Sound, [Next]_vars PROVE Follows
BY DriverFollows, OthersFollow DEF Next

LEMMA InitKnows == ASSUME Init PROVE Sound /\ Fit /\ Worked /\ Vouched
<1>1. /\ HasTab /\ HasNotes /\ tab.page \in Pages /\ rec = NewRecord /\ drv = Idle
  BY PagesArePlaces DEF Init, HasTab, HasNotes
<1>2. Kept(rec) /\ rec.parked = NoSpot /\ rec.why = "none"
  BY <1>1, IdleKeeps DEF NewRecord, Kept, HasRec, Statuses, InAir
<1>3. SoundAt(Idle, rec, "idle")
  BY PointsAre, <1>2, IdleKeeps, PagesArePlaces DEF SoundAt, Before, Filling, AtFilled, Judging, Thinking
<1>4. WorkedAt(Idle, rec, "idle", tab.done)
  BY <1>2, IdleKeeps DEF WorkedAt, AtFilled, Judging, Thinking
<1>5. VouchedAt(Idle, rec, "idle", hist.vouch) BY <1>2, IdleKeeps DEF VouchedAt, Judging
<1> QED
  BY <1>1, <1>3, <1>4, <1>5, IdleKeeps DEF Sound, Fit, Worked, Vouched

-----------------------------------------------------------------------------
(* The presses, and what ends the run *)

Presses(button) ==
  /\ Pressing(tab.page, button)
  /\ \/ drv.pc = "press" /\ button = drv.button /\ Pressable(tab.page, button, View)
     \/ ThinkPress /\ button = "next" /\ MayThinkPress /\ Kind[tab.page] = "form_step"

LEMMA OnlyPresses ==
  ASSUME HasNotes, [Next]_vars
  PROVE  \/ hist'.sent = hist.sent /\ hist'.blind = hist.blind
         \/ \E button : Presses(button)
<1>1. CASE UNCHANGED hist BY <1>1
<1>2. CASE Press BY <1>1, <1>2 DEF Press, Presses
<1>3. CASE ThinkPress BY <1>3 DEF ThinkPress, Presses
<1>4. CASE Type BY <1>1, <1>4 DEF Type, HasNotes
<1>5. CASE \/ Start \/ OpenTab \/ Read \/ ReadNothing \/ Arrived \/ WatchReady
           \/ Judged \/ Counted \/ Ends \/ Posting \/ Chooser \/ SignUp \/ SignIn \/ LoginFetched \/ Saved
  BY <1>1, <1>5 DEF Start, OpenTab, Read, ReadNothing, Arrived, WatchReady,
    Judged, Counted, Ends, Posting, Chooser, SignUp, SignIn, LoginFetched, Saved
<1>6. CASE \/ Unmade \/ Entered \/ Settle \/ OnForm \/ Unfilled \/ Fill
           \/ Filled \/ Upload \/ Attach \/ FillAgain \/ ParkBald \/ JudgeReview \/ JudgeStep
  BY <1>1, <1>6 DEF Unmade, Entered, Settle, OnForm, Unfilled, Fill, Filled,
    Upload, Attach, FillAgain, ParkBald, JudgeReview, JudgeStep
<1>7. CASE \/ Reviewed \/ Required \/ Last \/ Errors \/ Fix \/ Look \/ Recheck
           \/ Wait \/ Think \/ Thought \/ Throws
  BY <1>1, <1>7 DEF Reviewed, Required, Last, Errors, Fix, Look, Recheck,
    Wait, Think, Thought, Throws
<1>8. CASE StartRun \/ StopRun \/ SkipRun \/ CheckConfirmation \/ CloseTab \/ PanelCloses \/ Responds
  BY <1>1, <1>8 DEF StartRun, StopRun, SkipRun, CheckConfirmation, CloseTab, PanelCloses, Responds
<1>9. CASE ResumeRun \/ Goes BY <1>9 DEF ResumeRun, Goes, HasNotes
<1>10. CASE UNCHANGED vars BY <1>1, <1>10 DEF vars
<1> QED
  BY <1>2, <1>3, <1>4, <1>5, <1>6, <1>7, <1>8, <1>9, <1>10 DEF Next, Driver, Panel, World

LEMMA PressSendsNothing ==
  ASSUME SendsAreTold, Sound, Fit, NEW button, Presses(button)
  PROVE  tab.page \notin Sends
<1>1. tab.page \in Pages BY DEF Sound
<1>2. CASE Kind[tab.page] \in {"form_step", "chooser"} BY <1>2 DEF SendsAreTold
<1>3. CASE Kind[tab.page] \notin {"form_step", "chooser"}
  <2>1. drv.pc = "press" /\ button = drv.button /\ Pressable(tab.page, button, View)
    BY <1>3 DEF Presses
  <2>2. Keeps(drv, rec, "press", tab.done) BY <2>1, HereKeeps, PointIsPc
  <2>3. button \in {"apply", "chooser", "next"} /\ View \in Pages
    BY <2>1, <2>2 DEF Keeps, SoundAt, View, Before
  <2>4. CASE button \in {"chooser", "next"}
    <3>1. tab.page # View BY <1>3, <2>1, <2>4 DEF Fit, FitAt, View
    <3> QED
      BY <1>3, <2>1, <2>4, <3>1 DEF Pressable, ButtonOf
  <2>5. CASE button = "apply"
    <3>1. Kind[View] = "posting" /\ View \notin Sends BY <2>1, <2>5 DEF Fit, FitAt, View
    <3>2. tab.page = View \/ Place[tab.page] = Place[View] BY <2>1 DEF Pressable
    <3> QED
      BY <1>1, <2>3, <3>1, <3>2 DEF SendsAreTold
  <2> QED
    BY <2>3, <2>4, <2>5
<1> QED
  BY <1>2, <1>3

LEMMA PressIsOnAFilledStep ==
  ASSUME StepsArePlaces, Sound, Worked, WorksItsPage, Presses("next")
  PROVE  Step[tab.page] \in tab.done
<1>1. tab.page \in Pages BY DEF Sound
<1>2. CASE drv.pc = "press" /\ drv.button = "next" /\ Pressable(tab.page, "next", View)
  <2>1. Point(drv) = "press" BY <1>2, PointIsPc
  <2>2. /\ View \in Pages /\ drv.view.place = Place[View]
        /\ DoneAt(drv.view.place, tab.done)
    BY <1>2, <2>1 DEF Sound, SoundAt, Worked, WorkedAt, View, Before, AtFilled
  <2>3. Place[tab.page] = drv.view.place BY <1>2, <2>2 DEF Pressable
  <2> QED
    BY <1>1, <2>2, <2>3 DEF DoneAt
<1>3. CASE ThinkPress /\ MayThinkPress
  <2>1. Point(drv) = "think" BY <1>3, PointIsPc DEF ThinkPress
  <2>2. View \in Pages BY <2>1 DEF Sound, SoundAt, View, Before
  <2>3. DoneAt(Place[View], tab.done)
    BY <1>3 DEF Worked, WorkedAt, MayThinkPress, Same
  <2>4. Step[tab.page] = Step[View] BY <1>3 DEF WorksItsPage
  <2> QED
    BY <2>2, <2>3, <2>4 DEF DoneAt
<1> QED
  BY <1>2, <1>3 DEF Presses

LEMMA NextSendsNothing ==
  ASSUME SendsAreTold, Sound, Fit, NeverSends, [Next]_vars
  PROVE  NeverSends'
<1>1. HasNotes BY DEF Sound
<1>2. CASE hist'.sent = hist.sent BY <1>2 DEF NeverSends
<1>3. CASE \E button : Presses(button)
  <2>1. PICK button : Presses(button) BY <1>3
  <2>2. hist'.sent = (hist.sent \/ tab.page \in Sends) BY <1>1, <2>1 DEF Presses, Pressing, HasNotes
  <2> QED
    BY <2>1, <2>2, PressSendsNothing DEF NeverSends
<1> QED
  BY <1>1, <1>2, <1>3, OnlyPresses

LEMMA NextPressesFilled ==
  ASSUME StepsArePlaces, Sound, Worked, WorksItsPage, PressedIsFilled, [Next]_vars
  PROVE  PressedIsFilled'
<1>1. HasNotes BY DEF Sound
<1>2. CASE hist'.blind = hist.blind BY <1>2 DEF PressedIsFilled
<1>3. CASE \E button : Presses(button)
  <2>1. PICK button : Presses(button) BY <1>3
  <2>2. hist'.blind = (hist.blind \/ (button = "next" /\ Step[tab.page] \notin tab.done))
    BY <1>1, <2>1 DEF Presses, Pressing, HasNotes
  <2> QED
    BY <2>1, <2>2, PressIsOnAFilledStep DEF PressedIsFilled
<1> QED
  BY <1>1, <1>2, <1>3, OnlyPresses

LEMMA StutterKnows ==
  ASSUME UNCHANGED vars
  PROVE  /\ Fit => Fit'
         /\ Worked => Worked'
         /\ NeverSends => NeverSends'
         /\ PressedIsFilled => PressedIsFilled'
BY DEF vars, Fit, Worked, NeverSends, PressedIsFilled, Point

(* A run is made ready only over a step or a written field, on a page whose *)
(* button submits or which the user vouched for: true of every site, with  *)
(* the reasoning step on or off, whatever the site and the user do.        *)
THEOREM ReadyIsBackedAlways == Spec => ReadyIsBacked
<1>1. Init => Sound /\ Vouched BY InitKnows
<1>2. Sound /\ Vouched /\ [Next]_vars => Sound' /\ Vouched' BY NextFollows DEF Follows
<1>3. Sound /\ Vouched /\ [Next]_vars =>
        [rec.status # "ready" /\ rec'.status = "ready" =>
           /\ rec.step > 0 \/ rec.wrote
           /\ \/ drv.by = "submit_button"
              \/ /\ drv.by \in Vouchable /\ hist.vouch # Nowhere
                 /\ hist.vouch = drv.view.place \/ drv.on.again \/ drv.on.thought]_vars
  BY NextFollows DEF Follows, Backed
<1> QED
  BY <1>1, <1>2, <1>3, PTL DEF Spec, ReadyIsBacked

(* No press of the run sends the application, whatever a posting, a step   *)
(* and a review of the site look like to the reader: if the tab does not   *)
(* show a finished draft at the first read after the run opened the job,   *)
(* and no posting has the address and heading of one.                      *)
THEOREM NeverSendsAlways ==
  SendsAreTold => (Spec /\ [][OpensTheJob]_vars => []NeverSends)
<1> SUFFICES ASSUME SendsAreTold PROVE Spec /\ [][OpensTheJob]_vars => []NeverSends
  OBVIOUS
<1> DEFINE Inv == Sound /\ Fit /\ NeverSends
<1>1. Init => Inv
  <2>1. Init => NeverSends BY DEF Init, NeverSends
  <2> QED
    BY <2>1, InitKnows
<1>2. Inv /\ [Next]_vars /\ [OpensTheJob]_vars => Inv'
  <2> SUFFICES ASSUME Inv, [Next]_vars, [OpensTheJob]_vars PROVE Inv'
    OBVIOUS
  <2>1. Sound' /\ (Fits => Fit') BY NextFollows DEF Follows
  <2>2. NeverSends' BY NextSendsNothing
  <2> QED
    BY <2>1, <2>2, StutterKnows DEF Fits
<1> QED
  BY <1>1, <1>2, PTL DEF Spec

(* Next is pressed only on a step that the run or the user has filled, on  *)
(* every site whose steps have addresses or headings of their own and over *)
(* every Stop, crash, Resume and move: if each fill, and each press of the *)
(* reasoning step, works the step of the page that the driver last read.   *)
THEOREM PressedIsFilledAlways ==
  StepsArePlaces => (Spec /\ [][WorksItsPage]_vars => []PressedIsFilled)
<1> SUFFICES ASSUME StepsArePlaces PROVE Spec /\ [][WorksItsPage]_vars => []PressedIsFilled
  OBVIOUS
<1> DEFINE Inv == Sound /\ Worked /\ PressedIsFilled
<1>1. Init => Inv
  <2>1. Init => PressedIsFilled BY DEF Init, PressedIsFilled
  <2> QED
    BY <2>1, InitKnows
<1>2. Inv /\ [Next]_vars /\ [WorksItsPage]_vars => Inv'
  <2> SUFFICES ASSUME Inv, [Next]_vars, [WorksItsPage]_vars PROVE Inv'
    OBVIOUS
  <2>1. Sound' /\ (Works => Worked') BY NextFollows DEF Follows
  <2>2. CASE UNCHANGED vars BY <2>1, <2>2, StutterKnows
  <2>3. CASE WorksItsPage BY <2>1, <2>3, NextPressesFilled DEF Works
  <2> QED
    BY <2>2, <2>3
<1> QED
  BY <1>1, <1>2, PTL DEF Spec

-----------------------------------------------------------------------------
(* Type correctness *)

TabOK == tab \in [page : Pages, errs : BOOLEAN, owes : BOOLEAN, open : BOOLEAN, done : SUBSET Pages]

LEMMA TabIs ==
  ASSUME TabOK
  PROVE  /\ tab.page \in Pages /\ Step[tab.page] \in Pages
         /\ \A p \in Pages, errs \in BOOLEAN : Shows(p, errs) \in
              [page : Pages, errs : BOOLEAN, owes : BOOLEAN, open : BOOLEAN, done : SUBSET Pages]
<1>1. tab.page \in Pages BY DEF TabOK
<1> QED
  BY <1>1, PagesArePlaces DEF TabOK, Shows

LEMMA DriverTab == ASSUME TabOK, Driver PROVE TabOK'
<1>1. CASE UNCHANGED tab BY <1>1 DEF TabOK
<1>2. CASE OpenTab
  <2>1. tab' = tab \/ \E p \in Opens : tab' = Shows(p, FALSE) BY <1>2 DEF OpenTab
  <2>2. Opens \subseteq Pages BY PagesArePlaces
  <2> QED
    BY <1>1, <2>1, <2>2, TabIs DEF TabOK
<1>3. CASE Fill
  <2>1. tab' = [tab EXCEPT !.done = @ \cup {Step[tab.page]}] BY <1>3 DEF Fill
  <2> QED
    BY <2>1, TabIs DEF TabOK
<1>4. CASE Fix
  <2>1. tab' = tab \/ \E errs \in {FALSE, tab.errs} : tab' = Shows(tab.page, errs) BY <1>4 DEF Fix
  <2>2. tab.errs \in BOOLEAN BY DEF TabOK
  <2> QED
    BY <1>1, <2>1, <2>2, TabIs DEF TabOK
<1>5. CASE Press \/ ThinkPress \/ Type
  <2>1. tab' = tab \/ tab' = [tab EXCEPT !.owes = TRUE] BY <1>5 DEF Press, ThinkPress, Type, Pressing
  <2> QED
    BY <2>1 DEF TabOK
<1>6. CASE \/ Start \/ Saved \/ Read \/ ReadNothing \/ Arrived \/ WatchReady
           \/ Judged \/ Counted \/ Ends \/ Posting \/ Chooser \/ SignUp \/ SignIn \/ LoginFetched
  BY <1>1, <1>6 DEF Start, Saved, Read, ReadNothing, Arrived, WatchReady,
    Judged, Counted, Ends, Posting, Chooser, SignUp, SignIn, LoginFetched
<1>7. CASE \/ Unmade \/ Entered \/ Settle \/ OnForm \/ Unfilled
           \/ Filled \/ Upload \/ Attach \/ FillAgain \/ ParkBald \/ JudgeReview \/ JudgeStep
  BY <1>1, <1>7 DEF Unmade, Entered, Settle, OnForm, Unfilled, Filled,
    Upload, Attach, FillAgain, ParkBald, JudgeReview, JudgeStep
<1>8. CASE \/ Reviewed \/ Required \/ Last \/ Errors \/ Look \/ Recheck
           \/ Wait \/ Think \/ Thought \/ Throws
  BY <1>1, <1>8 DEF Reviewed, Required, Last, Errors, Look, Recheck, Wait, Think, Thought, Throws
<1> QED
  BY <1>2, <1>3, <1>4, <1>5, <1>6, <1>7, <1>8 DEF Driver

LEMMA NextTab == ASSUME TabOK, [Next]_vars PROVE TabOK'
<1>1. CASE UNCHANGED tab BY <1>1 DEF TabOK
<1>2. CASE StartRun \/ StopRun \/ SkipRun \/ ResumeRun \/ CheckConfirmation \/ PanelCloses \/ UNCHANGED vars
  BY <1>1, <1>2 DEF StartRun, StopRun, SkipRun, ResumeRun, CheckConfirmation, PanelCloses, vars
<1>3. CASE CloseTab
  <2>1. tab' = [tab EXCEPT !.open = FALSE] BY <1>3 DEF CloseTab
  <2> QED
    BY <2>1 DEF TabOK
<1>4. CASE Responds
  <2>1. \/ \E q \in Pages, errs \in BOOLEAN : tab' = [Shows(q, errs) EXCEPT !.owes = FALSE]
        \/ tab' = [tab EXCEPT !.owes = FALSE, !.errs = TRUE]
        \/ tab' = [tab EXCEPT !.owes = FALSE]
    BY <1>4 DEF Responds
  <2> QED
    BY <2>1, TabIs DEF TabOK
<1>5. CASE Goes
  <2>1. PICK q \in Pages : tab' = IF q = tab.page THEN [Shows(q, FALSE) EXCEPT !.done = @ \cup {Step[q]}]
                                  ELSE Shows(q, FALSE)
    BY <1>5 DEF Goes
  <2>2. Step[q] \in Pages BY PagesArePlaces
  <2> QED
    BY <2>1, <2>2, TabIs DEF TabOK
<1> QED
  BY <1>2, <1>3, <1>4, <1>5, DriverTab DEF Next, Panel, World

LEMMA SoundIsTyped == ASSUME Sound, TabOK PROVE TypeOK
<1>1. Kept(rec) /\ drv.on.spot \in Spots /\ Point(drv) \in Points BY DEF Sound, SoundAt
<1>2. drv.pc \in Points \cup {"saving"} BY <1>1 DEF Point
<1> QED
  BY <1>1, <1>2 DEF TypeOK, TabOK, Kept, Statuses, Spots, Points

(* The run is always at one of its stages with a count of its steps, the   *)
(* pages it keeps are pages of the site, and the drive is at one of its    *)
(* calls or between two: on every site, over every Stop, crash and Resume. *)
THEOREM TypeCorrect == Spec => []TypeOK
<1> DEFINE Inv == Sound /\ TabOK
<1>1. Init => Inv
  <2>1. Init => TabOK
    <3> SUFFICES ASSUME Init PROVE TabOK OBVIOUS
    <3>1. PICK p \in Opens \cup Matched :
            tab = [page |-> p, errs |-> FALSE, owes |-> FALSE, open |-> TRUE, done |-> {}]
      BY DEF Init
    <3> QED
      BY <3>1, PagesArePlaces DEF TabOK
  <2> QED
    BY <2>1, InitKnows
<1>2. Inv /\ [Next]_vars => Inv' BY NextFollows, NextTab DEF Follows
<1>3. Inv => TypeOK BY SoundIsTyped
<1> QED
  BY <1>1, <1>2, <1>3, PTL DEF Spec
=============================================================================
