------------------------------ MODULE QueueRun ------------------------------
(***************************************************************************)
(* The queued run of the companion extension: one job in one tab, from its *)
(* link to Ready to submit.  The driver (shared/queue-run.js, drive) reads *)
(* the page, judges it, and calls one thing at a time; the host            *)
(* (panel/actions/run.js) starts, stops and resumes it.  The site and the  *)
(* user move the page on their own between any two calls.                  *)
(*                                                                         *)
(* A page is a model value.  What the reader makes of it, the address and  *)
(* heading it shows and the step of the application it really is are       *)
(* functions of it; pages of one address differ in their shape (buttons    *)
(* and count of controls).  Labels, fields and answers are left out.       *)
(***************************************************************************)
EXTENDS Naturals, FiniteSets

CONSTANTS
  Pages,
  Kind,      \* what page-kind.js calls a page
  By,        \* and why, for a review
  Place,     \* the page that stands for its address and heading
  Step,      \* the page that stands for the step of the application it is
  Host,      \* the host it is on
  Known,     \* the hosts of known applicant systems
  JobHost,   \* the host of the link the run was queued for
  ApplyTo,   \* the host a posting's Apply link names
  SignedIn,  \* the pages whose header says that the site has signed the user in
  Fields,    \* the pages with something to fill
  Uploads,   \* the pages with a box for the resume
  Bare,      \* steps with nothing to fill and a bare Continue
  Sends,     \* the pages whose one button would send the application
  Links,     \* <<p, q>>: p may lead to q
  Opens,     \* where opening the link may land
  Matched,   \* the pages of this job a run keeps instead of opening its link
  InPlace,   \* the run was started on the user's own page
  Thinks,    \* the reasoning step is on
  Lossy,     \* the answer of a page that did what it was asked may be lost
  StepMax, MaxFix,               \* LIMITS.stepMax, MAX_FIX_ROUNDS
  MaxGoes, MaxResumes            \* bound what the site and the user do on their own

Walls == {"captcha", "verify", "board_native"}
Kinds == Walls \cup {"posting", "chooser", "create_account", "sign_in", "closed",
                     "confirmation", "form_step", "review", "unknown"}
Reasons == {"submit_button", "submit_seen", "submit_context", "fields_no_next", "several_next", "none"}
UserNavigates == {"sign_in_yourself", "verify", "posting", "unknown_page", "chooser"}
Vouchable == {"submit_seen", "submit_context", "fields_no_next"}
Nowhere == "nowhere"
Any == "any"

ASSUME QueueRunConstants ==
  /\ Kind \in [Pages -> Kinds] /\ By \in [Pages -> Reasons]
  /\ {Place, Step} \subseteq [Pages -> Pages]
  /\ UNION {Fields, Uploads, Bare, Sends, Opens, Matched, SignedIn} \subseteq Pages
  /\ Nowhere \notin Pages /\ Any \notin Pages
  /\ Opens \cap Sends = {}      \* a job's own link does not lead into a finished draft
  /\ Links \subseteq Pages \X Pages /\ DOMAIN Host = Pages /\ DOMAIN ApplyTo = Pages
  /\ {InPlace, Thinks, Lossy} \subseteq BOOLEAN
  /\ {StepMax, MaxFix, MaxGoes, MaxResumes} \subseteq Nat

VARIABLES
  tab,    \* the tab: the page it shows, whether it complains, and what it owes
  rec,    \* the record of the run, kept in session storage
  drv,    \* the locals of the drive in progress
  hist    \* what has been done to the site, and the bounded counts

vars == <<tab, rec, drv, hist>>

-----------------------------------------------------------------------------
(* State *)

(* The calls of the driver, and the points of its code between two of them *)
(* where nothing else runs.                                                *)
Calls == {"open", "read", "count", "login", "type", "settle", "entered", "press", "wait", "fill",
          "attach", "errors", "fix", "look", "required", "recheck", "think", "thought"}
Between == {"arrived", "kind", "page", "unfilled", "filled", "upload", "judge", "reviewed",
            "last", "unmade"}

Spot == [place : Pages, shape : Pages \cup {Any}]
NoSpot == [place |-> Nowhere, shape |-> Any]
Same(was, p) == was.place = Place[p] /\ was.shape \in {Any, p}
At(p) == [place |-> Place[p], shape |-> p]

(* What moved() clears: all the drive knows of the page in hand.           *)
Untouched == [filled |-> FALSE, spot |-> NoSpot, tried |-> FALSE, fixes |-> 0,
              required |-> FALSE, empty |-> FALSE, again |-> FALSE, vouched |-> FALSE, box |-> FALSE,
              held |-> FALSE, wrote |-> FALSE, thought |-> FALSE, counted |-> "unasked"]

(* view: the page as last read.  on: what the drive knows of it.           *)
Idle == [pc |-> "idle", then |-> "none", because |-> "none", button |-> "none",
         view |-> NoSpot, errs |-> FALSE, kind |-> "unknown", by |-> "none",
         applyOk |-> FALSE, mayApply |-> FALSE, chooser |-> FALSE, mayChoose |-> FALSE,
         inPlace |-> FALSE, navigated |-> FALSE, landing |-> {},
         resumed |-> FALSE, userNav |-> FALSE, checked |-> FALSE,
         resumeWhy |-> "none", recheck |-> "none", need |-> FALSE, open |-> FALSE,
         on |-> Untouched, thoughtOn |-> {}, landed |-> Nowhere, shaped |-> {}]

NewRecord == [status |-> "waiting", why |-> "none", opened |-> FALSE, step |-> 0,
              seen |-> {}, left |-> {}, filled |-> FALSE, wrote |-> FALSE,
              signedIn |-> FALSE, accountTried |-> FALSE, hosts |-> {}, at |-> Nowhere,
              parked |-> NoSpot, ready |-> FALSE, movedOn |-> FALSE, noAutoMark |-> FALSE,
              lastBy |-> "none", stop |-> FALSE]

Init ==
  /\ \E p \in Opens \cup Matched :
       tab = [page |-> p, errs |-> FALSE, owes |-> FALSE, open |-> TRUE, done |-> {}]
  /\ rec = NewRecord
  /\ drv = Idle
  /\ hist = [logins |-> 0, accounts |-> 0, sent |-> FALSE, blind |-> FALSE,
             vouch |-> Nowhere, resumes |-> 0, goes |-> 0]

View == drv.view.shape              \* the page as last read
(* Fields to fill: the reader sees some, or the fill's inventory did.      *)
Fillable(d) == d.view.shape \in Fields \/ (d.kind = "review" /\ Kind[d.view.shape] = "unknown")
Shows(p, errs) == [tab EXCEPT !.page = p, !.errs = errs]
InAir == {"waiting", "opening", "signing_in", "creating_account", "filling", "advancing"}
Live == rec.status \notin {"stopped", "applied"}

-----------------------------------------------------------------------------
(* The verbs of drive: a call, a save, an end.                             *)

(* finish, and afterDrive: a tab closed under the drive is the reason.     *)
Finish(status, why, r) ==
  /\ rec' = [r EXCEPT !.status = status, !.why = IF tab.open THEN why ELSE "tab_closed"]
  /\ drv' = Idle

(* Every call goes through act: Stop is asked before it and after it.      *)
Call(pc, d, r) == IF r.stop THEN Finish("stopped", "user", r)
                  ELSE drv' = [d EXCEPT !.pc = pc] /\ rec' = r

(* update: the record changes, and the save is awaited.  Stop is not asked *)
(* after it: only the next call does.                                      *)
Save(then, d, r) == drv' = [d EXCEPT !.pc = "saving", !.then = then] /\ rec' = r

\* mutant: Stop is not asked between a save and the next call
SavedBlindly ==
  /\ drv.pc = "saving"
  /\ drv' = [drv EXCEPT !.then = "none", !.pc = drv.then]
  /\ UNCHANGED <<tab, rec, hist>>

Saved ==
  /\ drv.pc = "saving"
  /\ LET d == [drv EXCEPT !.then = "none"] IN
     IF drv.then \in Calls THEN Call(drv.then, d, rec)
     ELSE drv' = [d EXCEPT !.pc = drv.then] /\ UNCHANGED rec
  /\ UNCHANGED <<tab, hist>>

Remembered == {"page_errors", "upload", "unsure_page"}
Park(why, d, r) ==
  Finish("parked", why, [r EXCEPT !.parked = IF why \in Remembered THEN d.view ELSE @])

(* parkOr: the reasoning step looks first, once a page.                    *)
Thinkable == {"page_errors", "open_questions", "unknown_page", "no_change", "loop", "moved_away"}
OnePage(why, d, r) == /\ d.kind = "review" /\ r.step = 0 /\ Fillable(d)
                      /\ why \in {"page_errors", "open_questions"}
CanThink(why, d, r) ==
  /\ Thinks /\ why \in Thinkable
  /\ ~d.on.thought /\ d.view.place \notin d.thoughtOn
  /\ d.kind # "review" \/ OnePage(why, d, r)
  /\ why = "moved_away" \/ r.step + 1 < StepMax
ParkOr(why, d, r) ==
  IF CanThink(why, d, r)
  THEN Save("think", [d EXCEPT !.on.thought = TRUE, !.thoughtOn = @ \cup {d.view.place}, !.because = why],
            [r EXCEPT !.status = "filling"])
  ELSE Park(why, d, r)

Moved(d) == [d EXCEPT !.navigated = TRUE, !.on = Untouched]
Refill(d) == [d EXCEPT !.on.filled = FALSE, !.on.spot = NoSpot]

(* A page already pressed is kept whole, one left unpressed by its place.  *)
PlaceSeen(p, r) == Place[p] \in r.left \/ \E q \in r.seen : Place[q] = Place[p]
Past(d, r) == [r EXCEPT !.step = @ + 1,
                        !.seen = IF d.on.spot.shape = Any THEN @ ELSE @ \cup {d.on.spot.shape},
                        !.left = IF d.on.spot.shape = Any THEN @ \cup {d.on.spot.place} ELSE @]

(* leftFilled: is this still the page the run filled?  The first change of *)
(* shape alone counts as the site's next step, a further one as a refill.  *)
\* mutant: a page once filled stays filled
LeftNever(p, d) == IF ~d.on.filled THEN "no" ELSE IF Place[p] \in d.shaped THEN "refill" ELSE "no"
Left(p, d) == IF ~d.on.filled \/ d.on.spot = NoSpot \/ Same(d.on.spot, p) THEN "no"
              ELSE IF d.on.spot.place # Place[p] \/ Place[p] \notin d.shaped THEN "step"
              ELSE "refill"
Shaped(p, d) == IF Left(p, d) = "step" /\ d.on.spot.place = Place[p]
                THEN [d EXCEPT !.shaped = @ \cup {Place[p]}] ELSE d

-----------------------------------------------------------------------------
(* The drive: opening the tab, reading a page and placing it               *)

Start ==
  /\ drv.pc = "start"
  /\ LET d == [Idle EXCEPT !.resumed = rec.opened, !.userNav = rec.why \in UserNavigates,
                           !.resumeWhy = IF rec.opened /\ rec.why \in Remembered THEN rec.why ELSE "none"]
     IN CASE ~Live -> drv' = Idle /\ UNCHANGED rec
          [] Live /\ rec.stop -> Finish("stopped", "user", rec)
          [] Live /\ ~rec.stop /\ ~rec.opened -> Save("open", d,
               [rec EXCEPT !.status = "opening", !.why = "none", !.hosts = {JobHost}, !.at = JobHost])
          [] Live /\ ~rec.stop /\ rec.opened /\ rec.ready -> Call("read", d, rec)
          [] OTHER -> Save("read", d, [rec EXCEPT !.status = "filling", !.why = "none"])
  /\ UNCHANGED <<tab, hist>>

(* A page of this job is kept, and so is the page of a run in place.       *)
OpenTab ==
  /\ drv.pc = "open" /\ tab.open
  /\ \/ /\ InPlace \/ tab.page \in Matched
        /\ UNCHANGED tab
     \/ /\ ~InPlace /\ tab.page \notin Matched
        /\ \E p \in Opens : tab' = Shows(p, FALSE)
  /\ Save("read", [drv EXCEPT !.navigated = TRUE, !.applyOk = ~InPlace, !.inPlace = InPlace],
          [rec EXCEPT !.opened = TRUE])
  /\ UNCHANGED hist

(* A Resume after a park that named a page: is this still that page?       *)
ParkedPage == /\ rec.parked # NoSpot /\ rec.parked.place = Place[tab.page]
              /\ \/ drv.resumeWhy = "unsure_page"
                 \/ rec.parked.shape = tab.page
                 \/ drv.resumeWhy = "page_errors" /\ tab.errs
Resuming(d) ==
  CASE drv.resumeWhy = "none" -> d
    [] drv.resumeWhy # "none" /\ ~ParkedPage -> [d EXCEPT !.resumeWhy = "none"]
    [] drv.resumeWhy = "unsure_page" /\ ParkedPage ->
         [d EXCEPT !.resumeWhy = "none", !.recheck = "unsure_page",
                   !.on.vouched = rec.lastBy \in Vouchable]
    [] OTHER ->
         [d EXCEPT !.resumeWhy = "none", !.recheck = drv.resumeWhy, !.on.filled = TRUE,
                   !.on.spot = [place |-> Place[tab.page], shape |-> Any]]

Read ==
  /\ drv.pc = "read" /\ tab.open
  /\ Call("arrived",
          Resuming([drv EXCEPT !.view = At(tab.page), !.errs = tab.errs, !.kind = "unknown",
                               !.by = "none", !.because = "none", !.button = "none",
                               !.mayApply = drv.applyOk, !.applyOk = FALSE,
                               !.mayChoose = drv.applyOk \/ drv.chooser, !.chooser = FALSE]),
          [rec EXCEPT !.parked = IF drv.resumeWhy = "none" THEN @ ELSE NoSpot])
  /\ UNCHANGED <<tab, hist>>

ReadNothing ==
  /\ drv.pc = "read"
  /\ CASE rec.stop -> Finish("stopped", "user", rec)
       [] ~rec.stop /\ rec.ready -> drv' = Idle /\ UNCHANGED rec
       [] OTHER -> \E why \in {"unknown_page", "page_stale"} : Park(why, drv, rec)
  /\ UNCHANGED <<tab, hist>>

(* noteHost, then on to the kind of the page.                              *)
Noting(d) == IF Host[View] # rec.at
             THEN Save("kind", d, [rec EXCEPT !.hosts = @ \cup {Host[View]}, !.at = Host[View]])
             ELSE drv' = [d EXCEPT !.pc = "kind"] /\ UNCHANGED rec
Arrived ==
  /\ drv.pc = "arrived"
  /\ LET first == drv.resumed /\ ~drv.navigated /\ ~rec.ready /\ ~drv.checked
         astray == \/ drv.inPlace /\ View \notin Matched
                   \/ drv.landing # {} /\ Host[View] \notin Known \cup drv.landing
                   \/ first /\ ~drv.userNav /\ Host[View] \notin rec.hosts
         d == [drv EXCEPT !.inPlace = FALSE, !.landing = {},
                          !.navigated = IF astray THEN @ ELSE FALSE, !.checked = @ \/ first]
     IN CASE astray -> ParkOr("moved_away", d, rec)
          [] ~astray /\ (drv.navigated \/ (first /\ drv.userNav)) -> Noting(d)
          [] OTHER -> drv' = [d EXCEPT !.pc = "kind"] /\ UNCHANGED rec
  /\ UNCHANGED <<tab, hist>>

-----------------------------------------------------------------------------
(* What kind of page it is                                                 *)

(* A ready run only watches for the confirmation of the user's own Submit. *)
WatchReady ==
  /\ drv.pc = "kind" /\ rec.ready
  /\ LET here == Host[View] \in rec.hosts /\ ~rec.noAutoMark IN
     CASE rec.noAutoMark \/ Kind[View] = "unknown" -> drv' = Idle /\ UNCHANGED rec
       [] here /\ Kind[View] = "confirmation" -> Finish("confirming", "none", rec)
       [] here /\ Kind[View] \in {"review", "form_step"} ->
            /\ rec' = [rec EXCEPT !.movedOn = Kind[View] = "form_step"]
            /\ drv' = Idle
       [] OTHER -> rec' = [rec EXCEPT !.noAutoMark = TRUE] /\ drv' = Idle
  /\ UNCHANGED <<tab, hist>>

(* A posting after a fill or a step is a review page.  An unknown first    *)
(* page is asked, once, what the fill's inventory lists on the page the    *)
(* tab then shows; with fields it is a page that has them.                 *)
Asks == /\ Kind[View] = "unknown" /\ rec.step = 0 /\ drv.on.counted = "unasked"
        /\ ~rec.filled /\ ~drv.on.filled
JudgedAs(counted) ==
  LET listed == counted = "some" /\ Kind[View] = "unknown" /\ rec.step = 0
      kind == CASE listed -> "review"
                [] Kind[View] = "posting" /\ (rec.filled \/ rec.step > 0) -> "review"
                [] OTHER -> Kind[View]
      by == CASE listed -> "fields_no_next"
              [] Kind[View] = "posting" -> "submit_button"
              [] OTHER -> By[View]
  IN /\ drv' = [drv EXCEPT !.pc = "page", !.kind = kind, !.by = by, !.on.counted = counted,
                           !.on.vouched = @ /\ kind # "form_step"]
     /\ UNCHANGED rec
Judged ==
  /\ drv.pc = "kind" /\ ~rec.ready
  /\ IF Asks THEN Call("count", drv, rec) ELSE JudgedAs(drv.on.counted)
  /\ UNCHANGED <<tab, hist>>
Counted ==
  /\ drv.pc = "count" /\ tab.open
  /\ IF rec.stop THEN Finish("stopped", "user", rec)
     ELSE JudgedAs(IF tab.page \in Fields THEN "some" ELSE "none")
  /\ UNCHANGED <<tab, hist>>

AtPage(kind) == drv.pc = "page" /\ drv.kind = kind

Ends == /\ \/ AtPage("confirmation") /\ Park("already_applied", drv, rec)
           \/ AtPage("closed") /\ Finish("stopped", "closed", rec)
           \/ AtPage("unknown") /\ ParkOr("unknown_page", drv, rec)
           \/ \E w \in Walls : AtPage(w) /\ Park(w, drv, rec)
        /\ UNCHANGED <<tab, hist>>

(* Both attempts are marked before they are made.                          *)
SignUp ==
  /\ AtPage("create_account")
  /\ CASE rec.accountTried -> Park("create_account_failed", drv, rec)
       [] ~rec.accountTried /\ rec.at \notin Known -> Park("create_account", drv, rec)
       [] OTHER -> Save("login", [drv EXCEPT !.because = "create_account"],
                        [rec EXCEPT !.status = "creating_account", !.accountTried = TRUE])
  /\ UNCHANGED <<tab, hist>>
\* mutant: the sign-in is not marked before it is made
SignInUnmarked ==
  /\ AtPage("sign_in")
  /\ CASE rec.signedIn -> Park("sign_in_failed", drv, rec)
       [] ~rec.signedIn /\ rec.at \notin Known -> Park("sign_in_yourself", drv, rec)
       [] OTHER -> Save("login", [drv EXCEPT !.because = "sign_in"], [rec EXCEPT !.status = "signing_in"])
  /\ UNCHANGED <<tab, hist>>
SignIn ==
  /\ AtPage("sign_in")
  /\ CASE rec.signedIn -> Park("sign_in_failed", drv, rec)
       [] ~rec.signedIn /\ rec.at \notin Known -> Park("sign_in_yourself", drv, rec)
       [] OTHER -> Save("login", [drv EXCEPT !.because = "sign_in"],
                        [rec EXCEPT !.status = "signing_in", !.signedIn = TRUE])
  /\ UNCHANGED <<tab, hist>>

\* mutant: a posting's Apply is pressed on whatever page of the run
PostingAnywhere ==
  /\ AtPage("posting")
  /\ \/ Park("posting", drv, rec)
     \/ /\ Host[View] = rec.at
        /\ Save("press", [drv EXCEPT !.button = "apply"], [rec EXCEPT !.status = "advancing"])
  /\ UNCHANGED <<tab, hist>>
Posting ==
  /\ AtPage("posting")
  /\ \/ Park("posting", drv, rec)
     \/ /\ drv.mayApply /\ Host[View] = rec.at
        /\ Save("press", [drv EXCEPT !.button = "apply"], [rec EXCEPT !.status = "advancing"])
  /\ UNCHANGED <<tab, hist>>

Chooser ==
  /\ AtPage("chooser")
  /\ IF /\ drv.mayChoose /\ ~drv.resumed /\ ~InPlace /\ rec.step = 0 /\ ~rec.filled
        /\ ~rec.signedIn /\ ~rec.accountTried /\ Host[View] \in rec.hosts
     THEN Save("press", [drv EXCEPT !.button = "chooser"], [rec EXCEPT !.status = "advancing"])
     ELSE Park("chooser", drv, rec)
  /\ UNCHANGED <<tab, hist>>

-----------------------------------------------------------------------------
(* The saved login, typed to sign in or to sign up                         *)

(* Stop is asked between the fetch of the login and its typing.            *)
NotMade(d, r) == IF d.because = "sign_in" THEN Park("sign_in_failed", d, r)
                 ELSE Save("unmade", d, [r EXCEPT !.accountTried = FALSE])
LoginFetched ==
  /\ drv.pc = "login"
  /\ \/ rec.stop /\ Finish("stopped", "user", rec)
     \/ ~rec.stop /\ drv' = [drv EXCEPT !.pc = "type"] /\ UNCHANGED rec
     \/ ~rec.stop /\ NotMade(drv, rec)
  /\ UNCHANGED <<tab, hist>>

(* The page checks its host and its form again before it does anything.    *)
Answered(made) == CASE rec.stop -> Finish("stopped", "user", rec)
                    [] ~rec.stop /\ ~made -> NotMade(drv, rec)
                    [] OTHER -> Call(IF drv.because = "sign_in" THEN "entered" ELSE "settle", drv, rec)
Type ==
  /\ drv.pc = "type"
  /\ \/ /\ tab.open /\ Kind[tab.page] = drv.because /\ Host[tab.page] = rec.at
        /\ tab' = [tab EXCEPT !.owes = TRUE]
        /\ hist' = IF drv.because = "sign_in" THEN [hist EXCEPT !.logins = @ + 1]
                   ELSE [hist EXCEPT !.accounts = @ + 1]
        /\ Answered(TRUE) \/ (Lossy /\ Answered(FALSE))
     \/ Answered(FALSE) /\ UNCHANGED <<tab, hist>>

Unmade == drv.pc = "unmade" /\ Park("create_account", drv, rec) /\ UNCHANGED <<tab, hist>>

(* waitChange: whatever it saw, the page is read again.                    *)
Entered == /\ drv.pc = "entered" /\ tab.open
           /\ Call("read", Moved(drv), rec) /\ UNCHANGED <<tab, hist>>

(* accountTaken: polls until the site has left the sign-up page or signed  *)
(* the user in, or time runs out on it.                                    *)
Settle ==
  /\ drv.pc = "settle" /\ tab.open
  /\ LET p == tab.page
         left == \/ Kind[p] \in {"verify", "captcha", "sign_in", "unknown"} \/ p \in SignedIn
                 \/ Kind[p] # "create_account" /\ Place[p] # drv.view.place
     IN CASE rec.stop -> Finish("stopped", "user", rec)
          [] ~rec.stop /\ left -> Call("read", Moved(drv), rec)
          [] OTHER -> Park("create_account_failed", drv, rec)
  /\ UNCHANGED <<tab, hist>>

-----------------------------------------------------------------------------
(* A page of the application: filled, then read again                      *)

AtForm == drv.pc = "page" /\ drv.kind \in {"form_step", "review"}

OnForm ==
  /\ AtForm
  /\ LET left == Left(View, drv)
         d == Shaped(View, drv)
     IN CASE left = "refill" -> drv' = [Refill(drv) EXCEPT !.pc = "unfilled"] /\ UNCHANGED rec
          [] left = "no" -> /\ drv' = [drv EXCEPT !.pc = IF drv.on.filled THEN "judge" ELSE "unfilled"]
                            /\ UNCHANGED rec
          [] left = "step" /\ rec.step + 1 >= StepMax -> Park("step_limit", d, rec)
          [] left = "step" /\ rec.step + 1 < StepMax /\ PlaceSeen(View, rec) -> ParkOr("loop", d, rec)
          [] OTHER -> Save("unfilled", Moved(d), Past(drv, rec))
  /\ UNCHANGED <<tab, hist>>

Unfilled ==
  /\ drv.pc = "unfilled"
  /\ IF drv.kind = "review" /\ rec.step = 0 /\ ~rec.wrote /\ ~Fillable(drv)
     THEN Park("unknown_page", drv, rec)
     ELSE Save("fill", drv, [rec EXCEPT !.status = "filling", !.filled = TRUE])
  /\ UNCHANGED <<tab, hist>>

(* The fill works the page the tab shows.  Its report: what it wrote, the  *)
(* questions it left open, the resume it attached, an upload still needed. *)
(* Fields are listed by the first two alone, an upload makes it a step.    *)
Listed == {"wrote", "open"}
Reports(p) == SUBSET ((IF p \in Fields THEN Listed ELSE {})
                      \cup (IF p \in Uploads THEN {"attached", "need"} ELSE {}))
Fill ==
  /\ drv.pc = "fill" /\ tab.open
  /\ \E report \in Reports(tab.page) :
       LET d == [drv EXCEPT !.open = "open" \in report, !.need = "need" \in report,
                            !.on.empty = report \cap Listed = {}, !.on.box = tab.page \in Uploads,
                            !.on.wrote = @ \/ "attached" \in report]
       IN CASE rec.stop -> Finish("stopped", "user", rec)
            [] ~rec.stop /\ "wrote" \in report -> Save("filled", d, [rec EXCEPT !.wrote = TRUE])
            [] OTHER -> drv' = [d EXCEPT !.pc = "filled"] /\ UNCHANGED rec
  /\ tab' = [tab EXCEPT !.done = @ \cup {Step[tab.page]}]
  /\ UNCHANGED hist

Filled ==
  /\ drv.pc = "filled"
  /\ IF drv.open THEN ParkOr("open_questions", drv, rec)
     ELSE drv' = [drv EXCEPT !.pc = "upload", !.open = FALSE] /\ UNCHANGED rec
  /\ UNCHANGED <<tab, hist>>

(* Filled: of this page only the place is known until it is read again.    *)
DoneWith(d) == [d EXCEPT !.need = FALSE, !.on.filled = TRUE, !.on.spot = [place |-> d.view.place, shape |-> Any]]
Upload ==
  /\ drv.pc = "upload"
  /\ \/ ~drv.need /\ Call("read", DoneWith(drv), rec)
     \/ drv.need /\ Park("upload", drv, rec)
     \/ drv.need /\ ~drv.on.wrote /\ Call("attach", drv, rec)
  /\ UNCHANGED <<tab, hist>>
Attach ==
  /\ drv.pc = "attach" /\ tab.open
  /\ \/ Call("read", DoneWith([drv EXCEPT !.on.wrote = TRUE]), rec)
     \/ ~rec.stop /\ Park("upload", drv, rec)
  /\ UNCHANGED <<tab, hist>>

-----------------------------------------------------------------------------
(* A filled page, read again: judged                                       *)

(* Fields that showed up after an empty fill are filled once more.         *)
DrawnLate == drv.on.empty /\ Fillable(drv) /\ ~drv.on.again
(* After the first page, nothing to fill and a bare Continue.              *)
Bald == /\ drv.kind = "form_step" /\ rec.step > 0 /\ drv.on.empty /\ ~drv.on.box /\ ~drv.on.wrote
        /\ View \in Bare

\* mutant: the one more fill is not remembered
FillForEver ==
  /\ drv.pc = "judge" /\ DrawnLate
  /\ Call("read", [drv EXCEPT !.on.filled = FALSE], rec)
  /\ UNCHANGED <<tab, hist>>
FillAgain ==
  /\ drv.pc = "judge" /\ DrawnLate
  /\ Call("read", [drv EXCEPT !.on.again = TRUE, !.on.filled = FALSE], rec)
  /\ UNCHANGED <<tab, hist>>
ParkBald ==
  /\ drv.pc = "judge" /\ ~DrawnLate /\ Bald
  /\ Park("confirm_page", drv, rec)
  /\ UNCHANGED <<tab, hist>>

JudgeReview ==
  /\ drv.pc = "judge" /\ ~DrawnLate /\ drv.kind = "review"
  /\ IF rec.step = 0 /\ ~rec.wrote THEN Park("unknown_page", drv, rec)
     ELSE Save("reviewed", drv, [rec EXCEPT !.lastBy = drv.by])
  /\ UNCHANGED <<tab, hist>>

(* A page pressed before is a loop.  A Resume looks before it presses.     *)
JudgeStep ==
  /\ drv.pc = "judge" /\ ~DrawnLate /\ ~Bald /\ drv.kind = "form_step"
  /\ LET d == [drv EXCEPT !.on.spot.shape = View, !.button = "next"]
         first == ~drv.on.tried /\ drv.on.fixes = 0
     IN CASE first /\ View \in rec.seen -> ParkOr("loop", d, rec)
          [] first /\ View \notin rec.seen /\ rec.step >= StepMax -> Park("step_limit", d, rec)
          [] OTHER -> Save(IF drv.recheck \in {"upload", "page_errors"} THEN "recheck" ELSE "press",
                           d, [rec EXCEPT !.status = "advancing"])
  /\ UNCHANGED <<tab, hist>>

(* Errors on a review page are repaired first, then its empty boxes.       *)
Reviewed ==
  /\ drv.pc = "reviewed"
  /\ \/ drv.errs /\ Call("errors", [drv EXCEPT !.because = "page_errors"], rec)
     \/ ~drv.errs /\ Call("required", drv, rec)
     \/ ~drv.errs /\ drv' = [drv EXCEPT !.pc = "last"] /\ UNCHANGED rec
  /\ UNCHANGED <<tab, hist>>
Required ==
  /\ drv.pc = "required" /\ tab.open
  /\ \/ rec.stop /\ Finish("stopped", "user", rec)
     \/ ~rec.stop /\ Park("upload", drv, rec)
     \/ ~rec.stop /\ drv' = [drv EXCEPT !.pc = "last"] /\ UNCHANGED rec
     \/ ~rec.stop /\ drv.on.required /\ ParkOr("open_questions", drv, rec)
     \/ /\ ~rec.stop /\ ~drv.on.required
        /\ Save("fix", [drv EXCEPT !.on.required = TRUE, !.because = "open_questions"],
                [rec EXCEPT !.status = "filling"])
  /\ UNCHANGED <<tab, hist>>

(* Only a Submit control ends an application, or the word of the user who  *)
(* resumed on this page; any other reading must hold before it parks.      *)
\* mutant: a reading that could be vouched for counts as vouched for
UnsureUnlessVouchable == drv.by \notin Vouchable \cup {"submit_button"}
Unsure == drv.by # "submit_button" /\ ~(drv.on.vouched /\ drv.by \in Vouchable)
Last ==
  /\ drv.pc = "last"
  /\ CASE ~Unsure -> Finish("ready", "none", [rec EXCEPT !.ready = TRUE])
       [] Unsure /\ drv.on.held -> Park("unsure_page", drv, rec)
       [] OTHER -> Call("read", [drv EXCEPT !.on.held = TRUE], rec)
  /\ UNCHANGED <<tab, hist>>

-----------------------------------------------------------------------------
(* Repairs                                                                 *)

(* parkErrors: before it parks, the page is read once more (movedOn).      *)
ParkErrors(d, r) ==
  IF d.on.filled /\ d.on.spot # NoSpot /\ r.step + 1 < StepMax
  THEN Call("look", d, r) ELSE ParkOr("page_errors", d, r)
Repair(d, r) ==
  \/ d.on.fixes > 0 /\ ParkErrors(d, r)
  \/ /\ d.on.fixes < MaxFix
     /\ Save("fix", [d EXCEPT !.on.fixes = @ + 1], [r EXCEPT !.status = "filling"])

Errors ==
  /\ drv.pc = "errors" /\ tab.open
  /\ CASE rec.stop -> Finish("stopped", "user", rec)
       [] ~rec.stop /\ tab.errs -> Repair(drv, rec)
       [] OTHER -> ParkErrors(drv, rec)
  /\ UNCHANGED <<tab, hist>>
Fix ==
  /\ drv.pc = "fix" /\ tab.open
  /\ \/ /\ Call("read", drv, rec)
        /\ \E errs \in {FALSE, tab.errs} : tab' = Shows(tab.page, errs)
     \/ ~rec.stop /\ drv.because = "page_errors" /\ ParkErrors(drv, rec) /\ UNCHANGED tab
     \/ ~rec.stop /\ drv.because = "open_questions" /\ ParkOr("open_questions", drv, rec) /\ UNCHANGED tab
  /\ UNCHANGED hist

Look ==
  /\ drv.pc = "look"
  /\ LET p == tab.page
         left == Left(p, drv)
         on == tab.open /\ ~PlaceSeen(p, rec)
     IN CASE rec.stop -> Finish("stopped", "user", rec)
          [] ~rec.stop /\ on /\ left = "refill" -> Call("read", Refill(drv), rec)
          [] ~rec.stop /\ on /\ left = "step" -> Save("read", Moved(Shaped(p, drv)), Past(drv, rec))
          [] OTHER -> ParkOr("page_errors", drv, rec)
  /\ UNCHANGED <<tab, hist>>

Recheck ==
  /\ drv.pc = "recheck" /\ tab.open
  /\ LET d == [drv EXCEPT !.recheck = "none", !.because = "page_errors"] IN
     \/ rec.stop /\ Finish("stopped", "user", rec)
     \/ ~rec.stop /\ drv.recheck = "upload" /\ Park("upload", d, rec)
     \/ ~rec.stop /\ drv.recheck = "page_errors" /\ tab.errs /\ Repair(d, rec)
     \/ (drv.recheck = "upload" \/ ~tab.errs) /\ Call("press", d, rec)
  /\ UNCHANGED <<tab, hist>>

-----------------------------------------------------------------------------
(* The press                                                               *)

(* The page sorts its button again: a button named on a page the tab has   *)
(* left is gone, unless the site redraws its steps on one page.            *)
ButtonOf(kind) == CASE kind = "posting" -> "apply" [] kind = "chooser" -> "chooser"
                    [] kind = "form_step" -> "next" [] OTHER -> "none"
Pressable(p, button, named) ==
  \/ p = named
  \/ Place[p] = Place[named] /\ ButtonOf(Kind[p]) = button

Pressing(p, button) ==
  /\ tab' = [tab EXCEPT !.owes = TRUE]
  /\ hist' = [hist EXCEPT !.sent = @ \/ p \in Sends,
                          !.blind = @ \/ (button = "next" /\ Step[p] \notin tab.done)]

(* What a press came to, by its button.                                    *)
NoMove(refused) ==
  CASE drv.button # "next" ->
         Park(IF ~refused THEN "no_change" ELSE IF drv.button = "apply" THEN "posting" ELSE "chooser",
              drv, rec)
    [] drv.button = "next" /\ drv.on.tried -> ParkOr("no_change", drv, rec)
    [] OTHER -> Call("read", [drv EXCEPT !.on.tried = TRUE, !.on.filled = FALSE], rec)

Press ==
  /\ drv.pc = "press" /\ tab.open
  /\ \/ /\ Pressable(tab.page, drv.button, View)
        /\ Pressing(tab.page, drv.button)
        /\ Call("wait", drv, rec)
     \/ /\ IF rec.stop THEN Finish("stopped", "user", rec) ELSE NoMove(TRUE)
        /\ UNCHANGED <<tab, hist>>

(* waitForChange: an error on the step that was pressed is a refusal when  *)
(* it is new, or when nothing else changed.                                *)
Rejects == tab.errs /\ Place[tab.page] = drv.view.place
Wait ==
  /\ drv.pc = "wait" /\ tab.open
  /\ \/ rec.stop /\ Finish("stopped", "user", rec)
     \/ /\ ~rec.stop /\ Rejects
        /\ IF drv.button = "next" THEN Call("errors", [drv EXCEPT !.because = "page_errors"], rec)
           ELSE NoMove(FALSE)
     \/ /\ ~rec.stop /\ tab.page # View /\ (Rejects => drv.errs)
        /\ CASE drv.button = "next" ->
                  Save("read", Moved(drv), [rec EXCEPT !.step = @ + 1, !.seen = @ \cup {View}])
             [] drv.button = "apply" -> Call("read", [Moved(drv) EXCEPT !.chooser = TRUE, !.landing = {ApplyTo[View], JobHost}], rec)
             [] OTHER -> Call("read", Moved(drv), rec)
     \/ ~rec.stop /\ tab.page = View /\ ~Rejects /\ NoMove(FALSE)
  /\ UNCHANGED <<tab, hist>>

-----------------------------------------------------------------------------
(* The reasoning step: one look at a page the run would park on            *)

(* It reads the page itself, and presses the Next of that read through the *)
(* driver, which asks only whether its own last page is the one it filled. *)
MayThinkPress == /\ drv.because \in {"page_errors", "open_questions", "no_change"} /\ ~OnePage(drv.because, drv, rec)
                 /\ drv.on.filled /\ Same(drv.on.spot, View)
(* An open question met by the fill goes on to the uploads.                *)
Again == IF drv.because = "open_questions" /\ ~drv.on.filled
         THEN drv' = [drv EXCEPT !.pc = "upload", !.open = FALSE] /\ UNCHANGED rec
         ELSE Call("read", drv, rec)
ThinkPress ==
  /\ drv.pc = "think" /\ tab.open /\ MayThinkPress /\ ~rec.stop
  /\ Kind[tab.page] = "form_step" /\ Pressing(tab.page, "next")
  /\ drv' = [drv EXCEPT !.pc = "thought", !.landed = tab.page]
  /\ UNCHANGED rec
Thought ==
  /\ drv.pc = "thought" /\ tab.open
  /\ CASE rec.stop -> Finish("stopped", "user", rec)
       [] ~rec.stop /\ tab.page = drv.landed -> Park(drv.because, drv, rec)
       [] ~rec.stop /\ tab.page # drv.landed /\ rec.step + 1 >= StepMax -> Park("step_limit", drv, rec)
       [] OTHER -> Save("read", Moved(drv), [rec EXCEPT !.step = @ + 1, !.seen = @ \cup {drv.landed}])
  /\ UNCHANGED <<tab, hist>>
Think ==
  /\ drv.pc = "think" /\ tab.open
  /\ \/ rec.stop /\ Finish("stopped", "user", rec)
     \/ ~rec.stop /\ drv.because # "moved_away" /\ Again
     \/ ~rec.stop /\ Park(drv.because, drv, rec)
  /\ UNCHANGED <<tab, hist>>

-----------------------------------------------------------------------------
(* What can happen to any call, and the host of the run                    *)

(* A call that throws ends the run, but not one that only watches.         *)
Throws ==
  /\ drv.pc \in Calls
  /\ IF rec.ready /\ rec.status = "ready" THEN drv' = Idle /\ UNCHANGED rec
     ELSE Finish("stopped", "error", rec)
  /\ UNCHANGED <<tab, hist>>

Quiet == drv.pc \notin Between
Begin(r) == drv' = [Idle EXCEPT !.pc = "start"] /\ rec' = r

StartRun == /\ drv = Idle /\ rec.status = "waiting" /\ ~rec.stop
            /\ Begin(rec) /\ UNCHANGED <<tab, hist>>

StopRun == /\ Quiet /\ drv # Idle /\ rec.status \in InAir /\ ~rec.stop
           /\ rec' = [rec EXCEPT !.stop = TRUE]
           /\ UNCHANGED <<tab, drv, hist>>
SkipRun == /\ Quiet /\ rec.status = "parked"
           /\ rec' = [rec EXCEPT !.status = "stopped", !.why = "user", !.stop = TRUE]
           /\ UNCHANGED <<tab, drv, hist>>

CanResume == CASE rec.status = "parked" -> rec.why \notin {"step_limit", "board_native"}
               [] rec.status = "ready" -> rec.movedOn
               [] OTHER -> rec.status = "stopped" /\ rec.why \in {"error", "user", "interrupted", "closed"}
ResumeRun ==
  /\ drv = Idle /\ CanResume /\ hist.resumes < MaxResumes
  /\ Begin([rec EXCEPT !.status = "filling", !.stop = FALSE,
                       !.ready = IF rec.status = "ready" THEN FALSE ELSE @,
                       !.movedOn = IF rec.status = "ready" THEN FALSE ELSE @])
  /\ hist' = [hist EXCEPT !.resumes = @ + 1,
                          !.vouch = IF rec.why = "unsure_page" THEN rec.parked.place ELSE Nowhere]
  /\ UNCHANGED tab

(* A ready tab that changed is read again.                                 *)
CheckConfirmation == /\ drv = Idle /\ rec.status = "ready" /\ ~rec.noAutoMark
                     /\ Begin(rec) /\ UNCHANGED <<tab, hist>>

(* onTabRemoved, and restoreRuns of the panel that opens next.             *)
CloseTab == /\ Quiet /\ tab.open
            /\ tab' = [tab EXCEPT !.open = FALSE]
            /\ rec' = IF Live /\ rec.status # "confirming"
                      THEN [rec EXCEPT !.status = "stopped", !.why = "tab_closed", !.stop = TRUE] ELSE rec
            /\ UNCHANGED <<drv, hist>>
PanelCloses ==
  /\ Quiet /\ drv # Idle
  /\ drv' = Idle
  /\ rec' = IF rec.status \in InAir
            THEN [rec EXCEPT !.status = "stopped", !.why = "interrupted", !.stop = FALSE] ELSE rec
  /\ UNCHANGED <<tab, hist>>

-----------------------------------------------------------------------------
(* The site and the user                                                   *)

(* The site answers a press: the next page, errors, or nothing.            *)
Responds ==
  /\ Quiet /\ tab.open /\ tab.owes
  /\ \/ \E q \in Pages, errs \in BOOLEAN :
          <<tab.page, q>> \in Links /\ tab' = [Shows(q, errs) EXCEPT !.owes = FALSE]
     \/ tab' = [tab EXCEPT !.owes = FALSE, !.errs = TRUE]
     \/ tab' = [tab EXCEPT !.owes = FALSE]
  /\ UNCHANGED <<rec, drv, hist>>

(* The site moves or redraws by itself, or the user goes to a page or      *)
(* fills in the one that shows; a finished draft the user opens only in    *)
(* the tab of a run that waits.                                            *)
Goes ==
  /\ Quiet /\ tab.open /\ hist.goes < MaxGoes
  /\ \E q \in Pages :
       /\ q \in Sends => <<tab.page, q>> \in Links \/ (drv = Idle /\ rec.opened)
       /\ tab' = IF q = tab.page THEN [Shows(q, FALSE) EXCEPT !.done = @ \cup {Step[q]}]
                  ELSE Shows(q, FALSE)
  /\ hist' = [hist EXCEPT !.goes = @ + 1]
  /\ UNCHANGED <<rec, drv>>

Driver ==
  \/ Start \/ OpenTab \/ Saved \/ Read \/ ReadNothing \/ Arrived \/ WatchReady \/ Judged \/ Counted \/ Ends
  \/ SignUp \/ SignIn \/ Posting \/ Chooser
  \/ LoginFetched \/ Type \/ Unmade \/ Entered \/ Settle
  \/ OnForm \/ Unfilled \/ Fill \/ Filled \/ Upload \/ Attach
  \/ FillAgain \/ ParkBald \/ JudgeReview \/ JudgeStep \/ Reviewed \/ Required \/ Last
  \/ Errors \/ Fix \/ Look \/ Recheck \/ Press \/ Wait \/ Think \/ ThinkPress \/ Thought \/ Throws
Panel == StartRun \/ StopRun \/ SkipRun \/ ResumeRun \/ CheckConfirmation \/ CloseTab \/ PanelCloses
World == Responds \/ Goes

Next == Driver \/ Panel \/ World
Spec == Init /\ [][Next]_vars /\ WF_vars(Driver)

-----------------------------------------------------------------------------
(* Properties                                                              *)

TypeOK ==
  /\ tab \in [page : Pages, errs : BOOLEAN, owes : BOOLEAN, open : BOOLEAN, done : SUBSET Pages]
  /\ rec.status \in InAir \cup {"parked", "ready", "confirming", "stopped", "applied"}
  /\ rec.step \in Nat /\ rec.seen \subseteq Pages /\ rec.left \subseteq Pages
  /\ rec.parked = NoSpot \/ rec.parked \in Spot
  /\ drv.pc \in Calls \cup Between \cup {"idle", "start", "saving"}
  /\ drv.on.spot = NoSpot \/ drv.on.spot \in Spot

(* queue-run.js, SUBMIT IS NEVER CLICKED: no press of the run sends the    *)
(* application, though the review page a site restores may read as a       *)
(* posting whose Apply is its Submit.                                      *)
NeverSends == ~hist.sent

(* queue-run.js, A PAGE IS PRESSED ONLY IF IT IS THE PAGE THIS RUN FILLED: *)
(* whatever the site does between two calls, Next is not pressed on a step *)
(* that neither the run nor the user has filled.                           *)
PressedIsFilled == ~hist.blind

(* Over every Stop, crash and Resume, the saved login is tried once in the *)
(* life of a run (a second try may lock the account), and a Resume never   *)
(* creates a second account.                                               *)
OneAttempt == hist.logins <= 1 /\ hist.accounts <= 1

(* Ready needs evidence of an application, a step or a written field, and  *)
(* its end: a Submit, or the word of the user who resumed on this page; or *)
(* on one that replaced it, when the page was looked at once more before   *)
(* its fill was done.                                                      *)
ReadyIsBacked ==
  [][rec.status # "ready" /\ rec'.status = "ready" =>
       /\ rec.step > 0 \/ rec.wrote
       /\ \/ drv.by = "submit_button"
          \/ /\ drv.by \in Vouchable /\ hist.vouch # Nowhere
             /\ hist.vouch = drv.view.place \/ drv.on.again \/ drv.on.thought]_vars

(* queue-run.js:400, "a Resume on the very page that parked unsure: the    *)
(* user says it is the last one": the word counts for that page only.      *)
VouchIsForItsPage ==
  [][rec.status # "ready" /\ rec'.status = "ready" =>
       drv.by = "submit_button" \/ hist.vouch = drv.view.place]_vars

(* Once Stop is pressed no new call is made.                               *)
StopIsHonoured == [][rec.stop /\ rec'.stop /\ drv.pc # drv'.pc => drv'.pc \notin Calls]_vars

(* Every drive ends, whatever the site answers.                            *)
DriveEnds == drv # Idle ~> drv = Idle
=============================================================================
