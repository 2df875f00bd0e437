----------------------------- MODULE Tailoring -----------------------------
(***************************************************************************)
(* The resume of one job: the gap analyses that are opened for it          *)
(* (services/tailoring_session.py, quick_tailor.py), the application's     *)
(* draft with its version history (application_writes.py,                  *)
(* resume_versions.py), and the PDF that is rendered from it               *)
(* (application_render.py, artifacts.py).                                  *)
(*                                                                         *)
(* Three requests take long enough for others to run in between, and have  *)
(* a step for each side of the wait: a create, which holds the write lock  *)
(* while a model enriches its gaps; a tailor, which holds nothing while a  *)
(* model writes; and a render, which compiles, with the lock only if it    *)
(* had something to write first.  A create, a save or fill of answers and  *)
(* a close look first, with no lock, and wait for the lock after that; and *)
(* the quick tailor and the fill are several commits, with others between. *)
(* The other requests are one step.                                        *)
(***************************************************************************)
EXTENDS Integers, Sequences, SequencesExt, FiniteSetsExt

CONSTANTS
  Bases, Sessions,
  Requests,     \* as many slow requests as may be in flight at once
  MaxApps,      \* bounds the applications that are ever made
  Revs,         \* the contents that a base resume, with the job, may have
  MaxEdits,     \* bounds the edits of a draft
  MaxVersions,  \* bounds the history of a draft
  Windows,      \* the overlaps that may happen: "render"
  None

ASSUME TailoringConstants ==
  /\ MaxApps \in Nat /\ MaxEdits \in Nat
  /\ MaxVersions \in Nat \ {0}
  /\ Windows \subseteq {"render"}
  /\ None \notin Bases \cup Sessions \cup Revs

Apps == 1..MaxApps

VARIABLES
  content,   \* the content of each base resume, with the job's extraction
  sessions,  \* the rows of tailoring_sessions
  apps,      \* the rows of applications
  versions,  \* the history of each application's draft
  file,      \* the draft that the file at the application's path shows
  doomed,    \* the files that a request removes, now that it has committed
  requests   \* the slow request in each slot

vars == <<content, sessions, apps, versions, file, doomed, requests>>

-----------------------------------------------------------------------------
(* Rows *)

(* worked: an answer of the user's is among the resolutions; the others    *)
(* are the server's own, and the quick tailor's plan.                      *)
Session == [status : {"none", "open", "tailored", "superseded", "abandoned"},
            base : Bases \cup {None}, rev : Revs \cup {None},
            worked : BOOLEAN]
Unopened == [status |-> "none", base |-> None, rev |-> None, worked |-> FALSE]

(* What a draft was made of: a base resume, the session that tailored it,  *)
(* and how often it was edited since.                                      *)
Draft == [base : Bases, rev : Revs,
          session : Sessions \cup {None}, edits : 0..MaxEdits]
NoDraft == [base |-> None]
CopyOf(b) == [base |-> b, rev |-> content[b], session |-> None, edits |-> 0]

(* pdf: pdf_path is set.  placed: artifact_dir is set.  The path is the    *)
(* same for every render of an application.                                *)
Application == [state : {"none", "live", "gone"}, base : Bases \cup {None},
                draft : Draft \cup {NoDraft}, pdf : BOOLEAN, placed : BOOLEAN]
NotMade == [state |-> "none", base |-> None, draft |-> NoDraft,
            pdf |-> FALSE, placed |-> FALSE]
Live(a) == apps[a].state = "live"

Idle == [kind |-> "idle"]
Is(r, kind) == requests[r].kind = kind

(* The write lock: from the first flush to the commit. *)
Holds(r) == Is(r, "create") \/ (Is(r, "render") /\ requests[r].locks)
MayWrite(r) == \A other \in Requests \ {r} : ~Holds(other)
Unlocked == \A r \in Requests : ~Holds(r)

Begin(r, q) == Is(r, "idle") /\ requests' = [requests EXCEPT ![r] = q]
Finish(r) == requests' = [requests EXCEPT ![r] = Idle]

-----------------------------------------------------------------------------
(* services/tailoring_session.py: the gap analysis *)

IsOpen(s) == sessions[s].status = "open"
Fresh(s) == sessions[s].rev = content[sessions[s].base]
OpenOf(b) == {s \in Sessions : IsOpen(s) /\ sessions[s].base = b}

\* mutant: an analysis with the user's answers is left open
SupersededEmpty(b) == {s \in OpenOf(b) : ~sessions[s].worked}
Superseded(b) == OpenOf(b)

InProgressIgnored(b) == FALSE  \* mutant: quick tailor goes ahead
InProgress(b) == \E s \in OpenOf(b) : sessions[s].worked

(* What a request finds of the user's: the open analyses with answers.     *)
Found == {s \in Sessions : IsOpen(s) /\ sessions[s].worked}

(* create_session, and quick tailor's run_for_job, which refuses while the *)
(* user is at work on an analysis.  Neither has the lock when it looks.    *)
BeginCreate(r, b, quick) ==
  /\ quick => ~InProgress(b)
  /\ Begin(r, [kind |-> "look", base |-> b, rev |-> content[b], quick |-> quick,
               found |-> IF quick THEN Found ELSE {}])
  /\ UNCHANGED <<content, sessions, apps, versions, file, doomed>>

(* The score row is the first flush.  The base was read before it, with    *)
(* the open analyses or after them.                                        *)
LockCreate(r) ==
  LET q == requests[r]
  IN  /\ Is(r, "look") /\ MayWrite(r)
      /\ \E s \in Sessions, rev \in {q.rev, content[q.base]} :
           /\ sessions[s].status = "none"
           /\ requests' = [requests EXCEPT ![r] =
                [kind |-> "create", session |-> s, quick |-> q.quick, found |-> q.found,
                 row |-> [status |-> "open", base |-> q.base, rev |-> rev, worked |-> FALSE]]]
      /\ UNCHANGED <<content, sessions, apps, versions, file, doomed>>

(* A write of resolutions that the server planned itself.  worked: the     *)
(* user's answers are among those it merges its plan with.                 *)
Fill(s, worked, found) ==
  [kind |-> "fill", session |-> s, worked |-> worked, found |-> found]

(* The older analyses are superseded in the commit of the new one.  Quick  *)
(* tailor looks at the row it has made, and goes on to save its plan.      *)
CommitCreate(r) ==
  LET q == requests[r]
  IN  /\ Is(r, "create")
      /\ sessions' = [s \in Sessions |->
                        IF s = q.session THEN q.row
                        ELSE IF s \in Superseded(q.row.base)
                             THEN [sessions[s] EXCEPT !.status = "superseded"]
                        ELSE sessions[s]]
      /\ IF q.quick /\ q.row.rev = content[q.row.base]
         THEN requests' = [requests EXCEPT ![r] = Fill(q.session, FALSE, q.found)]
         ELSE Finish(r)
      /\ UNCHANGED <<content, apps, versions, file, doomed>>

(* save_resolutions and close_session look at the row, then wait for the   *)
(* lock; the write names its columns and compares nothing.  worked: the    *)
(* list that the user sends, or that remains, has answers of theirs.       *)
BeginSave(r, s) ==
  /\ IsOpen(s) /\ Fresh(s)
  /\ Begin(r, [kind |-> "save", session |-> s])
  /\ UNCHANGED <<content, sessions, apps, versions, file, doomed>>

CommitSave(r) ==
  /\ Is(r, "save") /\ MayWrite(r)
  /\ \E worked \in BOOLEAN :
       sessions' = [sessions EXCEPT ![requests[r].session].worked = worked]
  /\ Finish(r)
  /\ UNCHANGED <<content, apps, versions, file, doomed>>

BeginClose(r, s) ==
  /\ IsOpen(s)
  /\ Begin(r, [kind |-> "close", session |-> s])
  /\ UNCHANGED <<content, sessions, apps, versions, file, doomed>>

CommitClose(r) ==
  /\ Is(r, "close") /\ MayWrite(r)
  /\ sessions' = [sessions EXCEPT ![requests[r].session].status = "abandoned"]
  /\ Finish(r)
  /\ UNCHANGED <<content, apps, versions, file, doomed>>

MayTailorStale(s) == IsOpen(s)  \* mutant: the analysis may be out of date
MayTailor(s) == IsOpen(s) /\ Fresh(s)

TailoredOf(s, row) ==
  [base |-> row.base, rev |-> content[row.base], session |-> s, edits |-> 0]

TailorRequest(s, row) == [kind |-> "tailor", session |-> s, draft |-> TailoredOf(s, row)]

Filled(worked) == worked

(* fill_checkpoint_session plans around the answers of the row in hand,    *)
(* and saves them with its plan.  The tailor route goes on from there, and *)
(* apply-profile stops.                                                    *)
BeginFill(r, s) ==
  /\ IsOpen(s) /\ Fresh(s)
  /\ Begin(r, Fill(s, Filled(sessions[s].worked), Found \cap {s}))
  /\ UNCHANGED <<content, sessions, apps, versions, file, doomed>>

CommitFill(r) ==
  LET q == requests[r]
  IN  /\ Is(r, "fill") /\ MayWrite(r)
      /\ sessions' = [sessions EXCEPT ![q.session].worked = q.worked]
      /\ \/ requests' = [requests EXCEPT ![r] = [kind |-> "filled", session |-> q.session]]
         \/ Finish(r)
      /\ UNCHANGED <<content, apps, versions, file, doomed>>

(* tailor looks at the row and the base again.                             *)
TailorFilled(r) ==
  LET s == requests[r].session
  IN  /\ Is(r, "filled") /\ MayTailor(s)
      /\ requests' = [requests EXCEPT ![r] = TailorRequest(s, sessions[s])]
      /\ UNCHANGED <<content, sessions, apps, versions, file, doomed>>

BeginTailor(r, s) ==
  /\ MayTailor(s)
  /\ Begin(r, TailorRequest(s, sessions[s]))
  /\ UNCHANGED <<content, sessions, apps, versions, file, doomed>>

-----------------------------------------------------------------------------
(* services/application_writes.py and resume_versions.py *)

Recorded(a, draft) ==
  IF versions[a] # <<>> /\ Last(versions[a]) = draft THEN versions[a]
  ELSE Append(versions[a], draft)

(* With "render" closed, a draft does not change, and its old file is not  *)
(* removed, while a render of the application runs.                        *)
Rendering(a) == \E r \in Requests : Is(r, "render") /\ requests[r].app = a
Quiet(a) == "render" \in Windows \/ ~Rendering(a)

KeptArtifacts(app) == app  \* mutant: the draft changes under its PDF
WithoutArtifacts(app) == [app EXCEPT !.pdf = FALSE]
Stale(a) == IF apps[a].pdf THEN {a} ELSE {}

(* stage_resume_update, and the removal that follows the commit. *)
StoreDraft(a, base, draft) ==
  /\ Quiet(a)
  /\ apps' = [apps EXCEPT ![a] = [WithoutArtifacts(apps[a])
                                    EXCEPT !.state = "live", !.base = base, !.draft = draft]]
  /\ versions' = [versions EXCEPT ![a] = Recorded(a, draft)]
  /\ Len(versions'[a]) <= MaxVersions
  /\ doomed' = doomed \cup Stale(a)
  /\ UNCHANGED file

RemoveFiles(a) ==
  /\ a \in doomed
  /\ doomed' = doomed \ {a}
  /\ file' = [file EXCEPT ![a] = NoDraft]
  /\ UNCHANGED <<content, sessions, apps, versions, requests>>

(* newest_for_job, or a new row: a job has one application. *)
LiveApps == {a \in Apps : Live(a)}
ForJob == IF LiveApps # {} THEN {Max(LiveApps)}
          ELSE IF \E a \in Apps : apps[a].state = "none"
               THEN {Min({a \in Apps : apps[a].state = "none"})}
          ELSE {}

(* The end of tailor: the draft and the session in one commit.  The status *)
(* is written whatever it has become.                                      *)
CommitTailor(r) ==
  LET q == requests[r]
  IN  /\ Is(r, "tailor") /\ MayWrite(r)
      /\ \E a \in ForJob : StoreDraft(a, q.draft.base, q.draft)
      /\ sessions' = [sessions EXCEPT ![q.session].status = "tailored"]
      /\ Finish(r)
      /\ UNCHANGED content

(* routers/applications.py: from-base, PATCH and edits, materialize.  An   *)
(* application without a draft is edited from its base.                    *)
FromBase(b) ==
  /\ Unlocked
  /\ \E a \in ForJob : StoreDraft(a, b, CopyOf(b))
  /\ UNCHANGED <<content, sessions, requests>>

Baseline(a) == IF apps[a].draft = NoDraft THEN CopyOf(apps[a].base) ELSE apps[a].draft

EditDraft(a) ==
  /\ Live(a) /\ Unlocked
  /\ Baseline(a).edits < MaxEdits
  /\ StoreDraft(a, apps[a].base, [Baseline(a) EXCEPT !.edits = @ + 1])
  /\ UNCHANGED <<content, sessions, requests>>

ClearDraft(a) ==
  /\ Live(a) /\ Unlocked /\ Quiet(a)
  /\ apps' = [apps EXCEPT ![a] = [WithoutArtifacts(apps[a]) EXCEPT !.draft = NoDraft]]
  /\ doomed' = doomed \cup Stale(a)
  /\ UNCHANGED <<content, sessions, versions, file, requests>>

Materialize(a) ==
  /\ Live(a) /\ Unlocked
  /\ StoreDraft(a, apps[a].base, CopyOf(apps[a].base))
  /\ UNCHANGED <<content, sessions, requests>>

(* routers/resume_versions.py: the snapshot is put on top of the history. *)
Restore(a, n) ==
  /\ Live(a) /\ Unlocked
  /\ n \in DOMAIN versions[a]
  /\ StoreDraft(a, apps[a].base, versions[a][n])
  /\ UNCHANGED <<content, sessions, requests>>

(* The history of an application that is gone stays, and is not read again. *)
DeleteApplication(a) ==
  /\ Live(a) /\ Unlocked /\ Quiet(a)
  /\ apps' = [apps EXCEPT ![a] = [NotMade EXCEPT !.state = "gone"]]
  /\ versions' = [versions EXCEPT ![a] = <<>>]
  /\ doomed' = doomed \cup Stale(a)
  /\ UNCHANGED <<content, sessions, file, requests>>

-----------------------------------------------------------------------------
(* services/application_render.py *)

(* An application without a draft is filled from its base first, and one   *)
(* without a folder gets it; either way the lock is taken here.            *)
BeginRender(r, a) ==
  LET fills == apps[a].draft = NoDraft
      locks == fills \/ ~apps[a].placed
  IN  /\ Live(a)
      /\ locks => MayWrite(r)
      /\ "render" \in Windows \/ a \notin doomed
      /\ Begin(r, [kind |-> "render", app |-> a, draft |-> Baseline(a), fills |-> fills,
                   locks |-> locks, hadPdf |-> ~fills /\ apps[a].pdf, compiled |-> FALSE])
      /\ UNCHANGED <<content, sessions, apps, versions, file, doomed>>

(* The file is there before the row says so. *)
Compile(r) ==
  /\ Is(r, "render") /\ ~requests[r].compiled
  /\ file' = [file EXCEPT ![requests[r].app] = requests[r].draft]
  /\ requests' = [requests EXCEPT ![r].compiled = TRUE]
  /\ UNCHANGED <<content, sessions, apps, versions, doomed>>

FilledUnrecorded(q) == versions  \* mutant: the fill makes no version
FilledHistory(q) ==
  IF q.fills THEN [versions EXCEPT ![q.app] = Recorded(q.app, q.draft)] ELSE versions

(* A path that was there when the row was loaded is no change, and is not  *)
(* written.  A row that is gone fails the commit.                          *)
CommitRender(r) ==
  LET q == requests[r]
      app == apps[q.app]
  IN  /\ Is(r, "render") /\ q.compiled /\ MayWrite(r)
      /\ Live(q.app)
      /\ apps' = [apps EXCEPT ![q.app] =
                    [app EXCEPT !.draft = IF q.fills THEN q.draft ELSE @,
                                !.pdf = @ \/ ~q.hadPdf, !.placed = TRUE]]
      /\ versions' = FilledHistory(q)
      /\ Len(versions'[q.app]) <= MaxVersions
      /\ Finish(r)
      /\ UNCHANGED <<content, sessions, file, doomed>>

-----------------------------------------------------------------------------
(* A request that fails writes nothing: the model gave nothing usable, the *)
(* compile failed, the row is gone.  Stop is the end of the process.       *)
Fail(r) ==
  /\ ~Is(r, "idle") /\ Finish(r)
  /\ UNCHANGED <<content, sessions, apps, versions, file, doomed>>

Stop ==
  /\ requests' = [r \in Requests |-> Idle]
  /\ doomed' = {}
  /\ UNCHANGED <<content, sessions, apps, versions, file>>

(* The base resume is edited, or the job's details are extracted again. *)
EditBase(b) ==
  /\ Unlocked
  /\ \E rev \in Revs \ {content[b]} : content' = [content EXCEPT ![b] = rev]
  /\ UNCHANGED <<sessions, apps, versions, file, doomed, requests>>

Init ==
  /\ content \in [Bases -> Revs]
  /\ sessions = [s \in Sessions |-> Unopened]
  /\ apps = [a \in Apps |-> NotMade]
  /\ versions = [a \in Apps |-> <<>>]
  /\ file = [a \in Apps |-> NoDraft]
  /\ doomed = {}
  /\ requests = [r \in Requests |-> Idle]

Next ==
  \/ \E r \in Requests :
       \/ \E b \in Bases, quick \in BOOLEAN : BeginCreate(r, b, quick)
       \/ LockCreate(r) \/ CommitCreate(r) \/ CommitSave(r) \/ CommitClose(r)
       \/ CommitFill(r) \/ TailorFilled(r) \/ CommitTailor(r)
       \/ \E s \in Sessions :
            \/ BeginSave(r, s) \/ BeginClose(r, s) \/ BeginFill(r, s) \/ BeginTailor(r, s)
       \/ \E a \in Apps : BeginRender(r, a)
       \/ Compile(r) \/ CommitRender(r) \/ Fail(r)
  \/ \E a \in Apps :
       \/ RemoveFiles(a) \/ EditDraft(a) \/ ClearDraft(a) \/ Materialize(a)
       \/ \E n \in 1..MaxVersions : Restore(a, n)
       \/ DeleteApplication(a)
  \/ \E b \in Bases : FromBase(b) \/ EditBase(b)
  \/ Stop

Spec == Init /\ [][Next]_vars

-----------------------------------------------------------------------------
(* Properties *)

(* The rows, the history and the files stay in their domains. *)
TypeOK ==
  /\ content \in [Bases -> Revs]
  /\ sessions \in [Sessions -> Session]
  /\ apps \in [Apps -> Application]
  /\ \A a \in Apps : versions[a] \in Seq(Draft)
  /\ file \in [Apps -> Draft \cup {NoDraft}]
  /\ doomed \subseteq Apps

(* A base resume has at most one open analysis for the job, whatever       *)
(* overlaps with the creates (the supersede update under the write lock).  *)
OneOpenSession == \A b \in Bases : \A s, t \in OpenOf(b) : s = t

(* What a session tailored was made from the base resume and the job that  *)
(* its gaps were found in (_require_fresh, staleness_reason).              *)
TailoredAsReviewed ==
  \A a \in Apps : \A n \in DOMAIN versions[a] :
     LET v == versions[a][n]
     IN  v.session # None =>
           /\ v.base = sessions[v.session].base
           /\ v.rev = sessions[v.session].rev

(* The draft of an application is the newest snapshot of its history,      *)
(* whichever of the writers stored it (record_version in every path).      *)
DraftIsVersioned ==
  \A a \in Apps : Live(a) /\ apps[a].draft # NoDraft =>
    versions[a] # <<>> /\ Last(versions[a]) = apps[a].draft

(* If an application names a PDF, the file exists and shows its draft      *)
(* (stage_resume_artifact_removal, remove_files after the commit).         *)
PdfShowsDraft ==
  \A a \in Apps : Live(a) /\ apps[a].pdf => file[a] = apps[a].draft

(* A quick tailor or a fill that found the user's answers neither          *)
(* supersedes their analysis nor writes its plan over them, however long   *)
(* it waits for the lock and for its model (InProgressSessionError,        *)
(* fill_checkpoint_session).  What the user saves after it looked has no   *)
(* such promise.                                                           *)
UserWorkKept ==
  [][\A s \in Found :
       /\ ~sessions'[s].worked =>
            \E r \in Requests :
               /\ requests'[r] # requests[r]
               /\ Is(r, "save") \/ (Is(r, "fill") /\ s \notin requests[r].found)
       /\ sessions'[s].status = "superseded" =>
            \E r \in Requests :
               /\ requests'[r] # requests[r] /\ Is(r, "create")
               /\ ~requests[r].quick \/ s \notin requests[r].found]_vars

(* Not so: no quick tailor supersedes answers of the user's.  Those saved   *)
(* after its look are superseded with the rest of what is open.            *)
QuickTailorYields ==
  [][\A s \in Found : sessions'[s].status = "superseded" =>
       \E r \in Requests :
          requests'[r] # requests[r] /\ Is(r, "create") /\ ~requests[r].quick]_vars

(* An analysis that has ended stays as it ended (close_session: "terminal  *)
(* state").                                                                *)
EndedStays ==
  [][\A s \in Sessions : sessions[s].status \notin {"none", "open"} =>
       sessions'[s].status = sessions[s].status]_vars
=============================================================================
